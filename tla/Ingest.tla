-------------------------------- MODULE Ingest --------------------------------
(***************************************************************************)
(* An ingester (cmd/ingester with internal/ingest, cmd/log-ingester with   *)
(* internal/logingest): OTLP export calls are authenticated, their rows    *)
(* sent to ClickHouse in one batch, and one metering event per call is     *)
(* handed to a bounded queue that a single worker writes to PostgreSQL     *)
(* (internal/ingestshared/metering.go).  On a signal main stops the        *)
(* receiver, drains the queue and exits, all within one deadline.          *)
(*                                                                         *)
(* A call is abstracted to its identity.  Nothing depends on the order of  *)
(* the queue, so the channel is a set.                                     *)
(***************************************************************************)
EXTENDS Naturals, FiniteSets

CONSTANTS
  Call,       \* the export calls of a run of the process
  HTTP,       \* those that use OTLP/HTTP; the others use OTLP/gRPC
  QueueCap    \* capacity of the metering channel (1024)

ASSUME IngestAssumption == HTTP \subseteq Call /\ QueueCap \in Nat \ {0}

VARIABLES
  pc,         \* progress of each call
  committed,  \* calls whose rows are in traces_v1 or logs_v1
  queue,      \* events in the metering channel
  open,       \* the channel is open
  hand,       \* the event the worker is writing, as a set of at most one
  worker,     \* "running" or "stopped" (m.closed is closed)
  metered,    \* calls with a row in metering_events
  full,       \* metering_failed_total, reason queue_full
  pgError,    \* metering_failed_total, reason pg_error
  main,       \* progress of main
  expired     \* the context of the shutdown is done

vars == <<pc, committed, queue, open, hand, worker, metered, full, pgError, main, expired>>

store == <<queue, open, hand, worker, metered, full, pgError>>

Ended == {"ok", "empty", "unauthenticated", "internal", "panic"}
InFlight == {c \in Call : pc[c] \in {"auth", "send", "meter"}}

Init ==
  /\ pc = [c \in Call |-> "new"]
  /\ committed = {} /\ metered = {} /\ full = {} /\ pgError = {}
  /\ queue = {} /\ open = TRUE /\ hand = {} /\ worker = "running"
  /\ main = "serving" /\ expired = FALSE

Alive == main # "exited"

-------------------------------------------------------------------------------
(* ConsumeTraces and ConsumeLogs. *)

Moves(c, from, to) ==
  /\ Alive
  /\ pc[c] = from
  /\ pc' = [pc EXCEPT ![c] = to]

\* On a shutdown the gRPC server goes on until the HTTP server has stopped.
Receive(c) ==
  /\ main = "serving" \/ (main = "shutdown" /\ c \notin HTTP)
  /\ Moves(c, "new", "auth")
  /\ UNCHANGED <<committed, store, main, expired>>

\* No bearer, or the resolver does not know it, or the resolver fails.
Unauthenticated(c) ==
  /\ Moves(c, "auth", "unauthenticated")
  /\ UNCHANGED <<committed, store, main, expired>>

EmptyBatch(c) ==
  /\ Moves(c, "auth", "empty")
  /\ UNCHANGED <<committed, store, main, expired>>

Authenticated(c) ==
  /\ Moves(c, "auth", "send")
  /\ UNCHANGED <<committed, store, main, expired>>

Send(c) ==
  /\ Moves(c, "send", "meter")
  /\ committed' = committed \cup {c}
  /\ UNCHANGED <<store, main, expired>>

\* PrepareBatch, Append or Send fails; a failed Send may have reached the table.
SendFails(c) ==
  /\ Moves(c, "send", "internal")
  /\ committed' \in {committed, committed \cup {c}}
  /\ UNCHANGED <<store, main, expired>>

\* Mutant of Enqueue: a select without its default.
EnqueueBlocks(c) ==
  /\ open
  /\ Cardinality(queue) < QueueCap
  /\ Moves(c, "meter", "ok")
  /\ queue' = queue \cup {c}
  /\ UNCHANGED <<committed, open, hand, worker, metered, full, pgError, main, expired>>

\* Enqueue: the select either sends or takes the default.
Enqueue(c) ==
  /\ open
  /\ Moves(c, "meter", "ok")
  /\ IF Cardinality(queue) < QueueCap
       THEN queue' = queue \cup {c} /\ UNCHANGED full
       ELSE full' = full \cup {c} /\ UNCHANGED queue
  /\ UNCHANGED <<committed, open, hand, worker, metered, pgError, main, expired>>

\* A send on a closed channel panics, in a select with a default too.
EnqueuePanics(c) ==
  /\ ~open
  /\ Moves(c, "meter", "panic")
  /\ UNCHANGED <<committed, store, main, expired>>

\* What waits for PG, and what does not.
AuthStep(c) == Unauthenticated(c) \/ EmptyBatch(c) \/ Authenticated(c)

StoreStep(c) == Send(c) \/ SendFails(c) \/ Enqueue(c) \/ EnqueuePanics(c)

CallStep(c) == AuthStep(c) \/ StoreStep(c)

-------------------------------------------------------------------------------
(* Metering.run *)

Take ==
  /\ Alive /\ hand = {}
  /\ \E c \in queue : queue' = queue \ {c} /\ hand' = {c}
  /\ UNCHANGED <<pc, committed, open, worker, metered, full, pgError, main, expired>>

Record ==
  /\ Alive /\ hand # {}
  /\ metered' = metered \cup hand
  /\ hand' = {}
  /\ UNCHANGED <<pc, committed, queue, open, worker, full, pgError, main, expired>>

\* Mutant of RecordFails: the event is counted and put back into the channel.
RecordFailsRetries ==
  /\ Alive /\ hand # {}
  /\ metered' \in {metered, metered \cup hand}
  /\ pgError' = pgError \cup hand
  /\ queue' = queue \cup hand
  /\ hand' = {}
  /\ UNCHANGED <<pc, committed, open, worker, full, main, expired>>

\* The insert fails or runs into its 3 s timeout, after which the row may exist.
RecordFails ==
  /\ Alive /\ hand # {}
  /\ metered' \in {metered, metered \cup hand}
  /\ pgError' = pgError \cup hand
  /\ hand' = {}
  /\ UNCHANGED <<pc, committed, queue, open, worker, full, main, expired>>

\* range ends when the channel is closed and empty.
WorkerStops ==
  /\ Alive /\ worker = "running"
  /\ ~open /\ queue = {} /\ hand = {}
  /\ worker' = "stopped"
  /\ UNCHANGED <<pc, committed, queue, open, hand, metered, full, pgError, main, expired>>

WorkerStep == Take \/ Record \/ RecordFails \/ WorkerStops

-------------------------------------------------------------------------------
(* main *)

Stopping == {"shutdown", "drain", "admin"}

\* A signal, or the admin server fails: main calls Shutdown of the receiver.
Signal ==
  /\ main = "serving"
  /\ main' = "shutdown"
  /\ UNCHANGED <<pc, committed, store, expired>>

Expire ==
  /\ main \in Stopping /\ ~expired
  /\ expired' = TRUE
  /\ UNCHANGED <<pc, committed, store, main>>

\* Mutant of ReceiverStopped: the gRPC server is stopped at the deadline as well.
ReceiverStoppedHard == InFlight = {} \/ expired

\* The receiver's Shutdown: the HTTP server waits for its calls until the context is done,
\* the gRPC server until they have ended.
ReceiverStopped == InFlight = {} \/ (expired /\ InFlight \subseteq HTTP)

\* Drain closes the channel ...
CloseQueue ==
  /\ main = "shutdown"
  /\ ReceiverStopped
  /\ open' = FALSE
  /\ main' = "drain"
  /\ UNCHANGED <<pc, committed, queue, hand, worker, metered, full, pgError, expired>>

\* Mutants of Drained: Drain only closes the channel; Drain ignores the context.
DrainedAtOnce ==
  /\ main = "drain"
  /\ main' = "admin"
  /\ UNCHANGED <<pc, committed, store, expired>>

DrainedByWorker ==
  /\ main = "drain"
  /\ worker = "stopped"
  /\ main' = "admin"
  /\ UNCHANGED <<pc, committed, store, expired>>

\* ... and waits for the worker or the context.
Drained ==
  /\ main = "drain"
  /\ worker = "stopped" \/ expired
  /\ main' = "admin"
  /\ UNCHANGED <<pc, committed, store, expired>>

Exit ==
  /\ main = "admin"
  /\ main' = "exited"
  /\ UNCHANGED <<pc, committed, store, expired>>

MainStep == CloseQueue \/ Drained \/ Exit

Next ==
  \/ \E c \in Call : Receive(c) \/ CallStep(c)
  \/ WorkerStep
  \/ Signal \/ Expire \/ MainStep

Spec == Init /\ [][Next]_vars

\* Every call runs in its own goroutine and ClickHouse's driver gives up on a read that takes
\* too long; main runs, and a deadline passes.  Nothing is assumed of PG, which may hang: of
\* the worker, nor of the query of ResolveBearer, which has no deadline but the client's.
CallFairness == \A c \in Call : WF_vars(StoreStep(c))
MainFairness == WF_vars(Expire) /\ WF_vars(MainStep)

FairSpec == Spec /\ CallFairness /\ MainFairness

-------------------------------------------------------------------------------
(* Properties. *)

\* Every variable has its type; the channel never holds more than its capacity.
TypeOK ==
  /\ pc \in [Call -> {"new", "auth", "send", "meter"} \cup Ended]
  /\ committed \subseteq Call /\ metered \subseteq Call
  /\ full \subseteq Call /\ pgError \subseteq Call
  /\ queue \subseteq Call /\ IsFiniteSet(queue) /\ Cardinality(queue) <= QueueCap
  /\ hand \subseteq Call
  /\ open \in BOOLEAN /\ worker \in {"running", "stopped"}
  /\ main \in {"serving", "exited"} \cup Stopping
  /\ expired \in BOOLEAN

\* What is charged was stored: every event, wherever it is, is of a call whose rows are in
\* ClickHouse and which was answered OK.
ChargedIsStored ==
  queue \cup hand \cup metered \cup pgError \cup full
    \subseteq {c \in committed : pc[c] = "ok"}

\* A call that was answered OK with rows is in exactly one place: waiting, being written,
\* counted as dropped, or through the worker (recorded or counted as failed).
Through == metered \cup pgError
EachEventOnce ==
  /\ \A c \in Call : pc[c] = "ok" => c \in queue \cup hand \cup full \cup Through
  /\ queue \cap hand = {} /\ queue \cap full = {} /\ hand \cap full = {}
  /\ Through \cap (queue \cup hand \cup full) = {}

\* Metering is exact: no event is invented, doubled or lost, whichever statement fails and
\* wherever the call, the worker and main have got to.
MeteringIsExact == ChargedIsStored /\ EachEventOnce

\* An exit within the deadline loses nothing silently: every call answered OK with rows has a
\* metering row or is counted in metering_failed_total.
CleanExitAccountsForAll ==
  main = "exited" /\ ~expired =>
    \A c \in Call : pc[c] = "ok" => c \in metered \cup full \cup pgError

\* No call whose rows were stored fails for the sake of metering, unless the deadline passed
\* with HTTP calls in flight.
PanicsOnlyAtDeadline == \A c \in Call : pc[c] = "panic" => expired /\ c \in HTTP

\* A call that PG has authenticated ends even if PG never answers again: its metering event
\* waits for nobody.
CallsEnd == \A c \in Call : pc[c] = "send" ~> (pc[c] \in Ended \/ main = "exited")

\* Some gRPC call waits for ever for PG to resolve its key.
HeldByPG == \E c \in Call \ HTTP : <>[](pc[c] = "auth")

\* Once asked to stop the process exits within its deadline although PG hangs, with events in
\* the queue and in the worker's hand and with HTTP calls that wait for PG, unless a gRPC call
\* does: GracefulStop has no deadline.
StopsEventually == HeldByPG \/ ((main = "shutdown") ~> (main = "exited"))
===============================================================================
