----------------------------- MODULE IngestProofs -----------------------------
(***************************************************************************)
(* Metering of any number of calls, with a channel of any capacity.        *)
(***************************************************************************)
EXTENDS Ingest, FiniteSetTheorems, TLAPS

\* What main has done to the channel, and who is left when it has.
Phases ==
  /\ open <=> main \in {"serving", "shutdown"}
  /\ ~open => ReceiverStopped
  /\ worker = "stopped" => ~open /\ queue = {} /\ hand = {}
  /\ main \in {"admin", "exited"} => worker = "stopped" \/ expired

MeteredAreStored == \A c \in Call : pc[c] \in {"meter", "ok"} => c \in committed

Inv == TypeOK /\ Phases /\ MeteredAreStored /\ ChargedIsStored /\ EachEventOnce
         /\ PanicsOnlyAtDeadline

USE IngestAssumption

\* The invariant holds when the process starts.
LEMMA InitInv == Init => Inv
<1> SUFFICES ASSUME Init PROVE Inv
  OBVIOUS
<1>1. open \in BOOLEAN /\ expired \in BOOLEAN /\ open
  BY DEF Init
<1>2. TypeOK
  BY <1>1, FS_EmptySet DEF Init, TypeOK
<1>3. Phases
  BY <1>1 DEF Init, Phases
<1> QED
  BY <1>2, <1>3 DEF Init, Inv, MeteredAreStored, ChargedIsStored, EachEventOnce,
                    PanicsOnlyAtDeadline, Through

\* A step of a call before it enqueues touches neither the channel nor the counters.
LEMMA CallKeeps ==
  ASSUME Inv, NEW c \in Call,
         Receive(c) \/ Unauthenticated(c) \/ EmptyBatch(c) \/ Authenticated(c)
           \/ Send(c) \/ SendFails(c)
  PROVE  Inv'
<1>1. /\ UNCHANGED <<store, main, expired>>
      /\ committed \subseteq committed' /\ committed' \subseteq Call
  BY DEF Receive, Unauthenticated, EmptyBatch, Authenticated, Send, SendFails, Inv, TypeOK
<1>2. PICK to \in {"auth", "unauthenticated", "empty", "send", "meter", "internal"} :
        pc' = [pc EXCEPT ![c] = to]
  BY DEF Receive, Unauthenticated, EmptyBatch, Authenticated, Send, SendFails, Moves
<1>3. pc[c] \in {"new", "auth", "send"}
  BY DEF Receive, Unauthenticated, EmptyBatch, Authenticated, Send, SendFails, Moves
<1>4. to = "meter" => c \in committed'
  <2>1. CASE Send(c)
    BY <2>1 DEF Send
  <2>2. CASE ~Send(c)
    <3>1. pc'[c] # "meter"
      BY <2>2 DEF Receive, Unauthenticated, EmptyBatch, Authenticated, SendFails, Moves, Inv,
                  TypeOK
    <3> QED
      BY <1>2, <3>1 DEF Inv, TypeOK
  <2> QED
    BY <2>1, <2>2
<1>5. pc[c] = "new" => main \in {"serving", "shutdown"}
  BY DEF Receive, Unauthenticated, EmptyBatch, Authenticated, Send, SendFails, Moves
<1>6. TypeOK'
  BY <1>1, <1>2 DEF Inv, TypeOK, Ended, store
<1>7. Phases'
  <2>1. ~open => InFlight' \subseteq InFlight
    BY <1>2, <1>3, <1>5 DEF Inv, TypeOK, Phases, InFlight
  <2> QED
    BY <1>1, <2>1 DEF Inv, Phases, ReceiverStopped, store
<1>8. MeteredAreStored'
  BY <1>1, <1>2, <1>4 DEF Inv, TypeOK, MeteredAreStored
<1>9. ChargedIsStored' /\ EachEventOnce' /\ PanicsOnlyAtDeadline'
  BY <1>1, <1>2, <1>3
  DEF Inv, TypeOK, ChargedIsStored, EachEventOnce, PanicsOnlyAtDeadline, Through, store
<1> QED
  BY <1>6, <1>7, <1>8, <1>9 DEF Inv

\* The event of a call goes into the channel or is counted.
LEMMA EnqueueKeeps ==
  ASSUME Inv, NEW c \in Call, Enqueue(c) \/ EnqueuePanics(c)
  PROVE  Inv'
<1>1. CASE Enqueue(c)
  <2>1. /\ pc' = [pc EXCEPT ![c] = "ok"] /\ pc[c] = "meter" /\ c \in committed
        /\ UNCHANGED <<committed, open, hand, worker, metered, pgError, main, expired>>
        /\ open
    BY <1>1 DEF Enqueue, Moves, Inv, MeteredAreStored
  <2>2. \/ Cardinality(queue) < QueueCap /\ queue' = queue \cup {c} /\ full' = full
        \/ queue' = queue /\ full' = full \cup {c}
    BY <1>1 DEF Enqueue
  <2>3. c \notin queue \cup hand \cup full \cup Through
    BY <2>1 DEF Inv, ChargedIsStored, Through
  <2>4. TypeOK'
    <3>1. IsFiniteSet(queue) /\ Cardinality(queue) <= QueueCap /\ Cardinality(queue) \in Nat
      BY FS_CardinalityType DEF Inv, TypeOK
    <3>2. /\ IsFiniteSet(queue \cup {c})
          /\ Cardinality(queue \cup {c}) \in {Cardinality(queue), Cardinality(queue) + 1}
      BY <3>1, FS_AddElement
    <3>3. Cardinality(queue) < QueueCap => Cardinality(queue) + 1 <= QueueCap
      BY <3>1
    <3>4. Cardinality(queue) < QueueCap => Cardinality(queue \cup {c}) <= QueueCap
      BY <3>1, <3>2, <3>3
    <3>5. IsFiniteSet(queue') /\ Cardinality(queue') <= QueueCap
      BY <2>2, <3>1, <3>2, <3>4
    <3> QED
      BY <2>1, <2>2, <3>5 DEF Inv, TypeOK, Ended
  <2>5. Phases'
    BY <2>1 DEF Inv, Phases
  <2>6. MeteredAreStored' /\ PanicsOnlyAtDeadline'
    BY <2>1 DEF Inv, TypeOK, MeteredAreStored, PanicsOnlyAtDeadline
  <2>7. ChargedIsStored'
    BY <2>1, <2>2 DEF Inv, TypeOK, ChargedIsStored
  <2>8. EachEventOnce'
    BY <2>1, <2>2, <2>3 DEF Inv, TypeOK, EachEventOnce, Through
  <2> QED
    BY <2>4, <2>5, <2>6, <2>7, <2>8 DEF Inv
<1>2. CASE EnqueuePanics(c)
  <2>1. /\ pc' = [pc EXCEPT ![c] = "panic"] /\ pc[c] = "meter" /\ ~open
        /\ UNCHANGED <<committed, store, main, expired>>
    BY <1>2 DEF EnqueuePanics, Moves
  <2>2. expired /\ c \in HTTP
    BY <2>1 DEF Inv, Phases, ReceiverStopped, InFlight
  <2>3. InFlight' \subseteq InFlight
    BY <2>1 DEF Inv, TypeOK, InFlight
  <2>4. TypeOK' /\ MeteredAreStored' /\ PanicsOnlyAtDeadline'
    BY <2>1, <2>2
    DEF Inv, TypeOK, Ended, MeteredAreStored, PanicsOnlyAtDeadline, store
  <2>5. Phases'
    BY <2>1, <2>3 DEF Inv, Phases, ReceiverStopped, store
  <2>6. ChargedIsStored' /\ EachEventOnce'
    BY <2>1 DEF Inv, TypeOK, ChargedIsStored, EachEventOnce, Through, store
  <2> QED
    BY <2>4, <2>5, <2>6 DEF Inv
<1> QED
  BY <1>1, <1>2

\* The worker moves one event from the channel to its record or its count.
LEMMA WorkerKeeps == Inv /\ WorkerStep => Inv'
<1> SUFFICES ASSUME Inv, WorkerStep PROVE Inv'
  OBVIOUS
<1>1. UNCHANGED <<pc, committed, open, full, main, expired>>
  BY DEF WorkerStep, Take, Record, RecordFails, WorkerStops
<1>2. MeteredAreStored' /\ PanicsOnlyAtDeadline' /\ ReceiverStopped' = ReceiverStopped
  BY <1>1 DEF Inv, MeteredAreStored, PanicsOnlyAtDeadline, ReceiverStopped, InFlight
<1>3. TypeOK'
  <2>1. queue' \subseteq queue
    BY DEF WorkerStep, Take, Record, RecordFails, WorkerStops
  <2>2. IsFiniteSet(queue') /\ Cardinality(queue') <= QueueCap
    BY <2>1, FS_Subset, FS_CardinalityType DEF Inv, TypeOK
  <2> QED
    BY <1>1, <2>1, <2>2 DEF WorkerStep, Take, Record, RecordFails, WorkerStops, Inv, TypeOK
<1>4. Phases'
  BY <1>1, <1>2 DEF WorkerStep, Take, Record, RecordFails, WorkerStops, Inv, Phases
<1>5. ChargedIsStored'
  BY <1>1 DEF WorkerStep, Take, Record, RecordFails, WorkerStops, Inv, ChargedIsStored
<1>6. EachEventOnce'
  BY <1>1 DEF WorkerStep, Take, Record, RecordFails, WorkerStops, Inv, EachEventOnce, Through
<1> QED
  BY <1>2, <1>3, <1>4, <1>5, <1>6 DEF Inv

\* The shutdown sequence closes the channel only when the receiver has stopped.
LEMMA MainKeeps == Inv /\ (Signal \/ Expire \/ MainStep) => Inv'
<1> SUFFICES ASSUME Inv, Signal \/ Expire \/ MainStep PROVE Inv'
  OBVIOUS
<1>1. UNCHANGED <<pc, committed, queue, hand, worker, metered, full, pgError>>
  BY DEF Signal, Expire, MainStep, CloseQueue, Drained, Exit, store
<1>2. expired => expired'
  BY DEF Signal, Expire, MainStep, CloseQueue, Drained, Exit
<1>3. open' \in BOOLEAN /\ expired' \in BOOLEAN
  BY DEF Signal, Expire, MainStep, CloseQueue, Drained, Exit, store, Inv, TypeOK
<1>4. main' \in {"serving", "exited"} \cup Stopping
  BY DEF Signal, Expire, MainStep, CloseQueue, Drained, Exit, Inv, TypeOK, Stopping
<1>5. TypeOK'
  BY <1>1, <1>3, <1>4 DEF Inv, TypeOK
<1>6. Phases'
  <2>1. ReceiverStopped => ReceiverStopped'
    BY <1>1, <1>2 DEF ReceiverStopped, InFlight
  <2>2. CASE Signal \/ Expire
    BY <1>1, <1>2, <2>1, <2>2 DEF Signal, Expire, Inv, Phases, store, Stopping
  <2>3. CASE CloseQueue
    BY <1>1, <1>2, <2>1, <2>3 DEF CloseQueue, Inv, Phases
  <2>4. CASE Drained \/ Exit
    BY <1>1, <1>2, <2>1, <2>4 DEF Drained, Exit, Inv, Phases, store
  <2> QED
    BY <2>2, <2>3, <2>4 DEF MainStep
<1>7. MeteredAreStored' /\ ChargedIsStored' /\ EachEventOnce' /\ PanicsOnlyAtDeadline'
  BY <1>1, <1>2
  DEF Inv, MeteredAreStored, ChargedIsStored, EachEventOnce, PanicsOnlyAtDeadline, Through
<1> QED
  BY <1>5, <1>6, <1>7 DEF Inv

\* Inv is an invariant of the ingester.
LEMMA Invariance == Spec => []Inv
<1>1. Inv /\ UNCHANGED vars => Inv'
  BY DEF vars, Inv, TypeOK, Phases, ReceiverStopped, InFlight, MeteredAreStored,
         ChargedIsStored, EachEventOnce, PanicsOnlyAtDeadline, Through
<1>2. Inv /\ Next => Inv'
  BY CallKeeps, EnqueueKeeps, WorkerKeeps, MainKeeps DEF Next, CallStep, AuthStep, StoreStep
<1> QED
  BY <1>1, <1>2, InitInv, PTL DEF Spec

\* The variables keep their types.
THEOREM TypeCorrect == Spec => []TypeOK
<1>1. Inv => TypeOK
  BY DEF Inv
<1> QED
  BY <1>1, Invariance, PTL

\* Every event is of a stored call that was answered OK, and is in exactly one place.
THEOREM EventsAreConserved == Spec => []MeteringIsExact
<1>1. Inv => MeteringIsExact
  BY DEF Inv, MeteringIsExact
<1> QED
  BY <1>1, Invariance, PTL

\* Leaving within the deadline accounts for every answered call.
THEOREM CleanExitLosesNothing == Spec => []CleanExitAccountsForAll
<1>1. Inv => CleanExitAccountsForAll
  BY DEF Inv, Phases, EachEventOnce, Through, CleanExitAccountsForAll
<1> QED
  BY <1>1, Invariance, PTL

\* Only a call that outlived the deadline can meet the closed channel.
THEOREM PanicNeedsDeadline == Spec => []PanicsOnlyAtDeadline
<1>1. Inv => PanicsOnlyAtDeadline
  BY DEF Inv
<1> QED
  BY <1>1, Invariance, PTL
===============================================================================
