---------------------------- MODULE MCSignalReads ----------------------------
(* An instance of SignalReads for TLC: the rows two tenants send. *)
EXTENDS SignalReads

CONSTANTS a, b, t1, t2, t3, front, cart, s1, s2, s3, s4, s5, l1, l2, l3

Span(tenant, trace, service, ts, duration) ==
  [signal |-> "traces", tenant |-> tenant, trace |-> trace, service |-> service,
   ts |-> ts, observed |-> Unset, duration |-> duration]

Log(tenant, ts, observed) ==
  [signal |-> "logs", tenant |-> tenant, trace |-> t1, service |-> cart,
   ts |-> ts, observed |-> observed, duration |-> 0]

\* Three traces of tenant a, one of them with two spans, another under b as well; three logs,
\* one with an observed timestamp only and one with neither.
Sent == [r \in Row |->
  CASE r = s1 -> Span(a, t1, front, 5, 1)
    [] r = s2 -> Span(a, t1, cart, 3, 2)
    [] r = s3 -> Span(a, t2, cart, 4, 2)
    [] r = s4 -> Span(b, t2, front, 4, 1)
    [] r = s5 -> Span(a, t3, front, 6, 1)
    [] r = l1 -> Log(a, 5, Unset)
    [] r = l2 -> Log(a, Unset, 4)
    [] OTHER  -> Log(a, Unset, Unset)]

\* A window that stays where it is, and those with one bound that moves.
Whole == [from |-> 0, to |-> 8]
Since == [from |-> 3, to |-> NotGiven]
Until == [from |-> NotGiven, to |-> 6]

Windows == {Whole, Since, Until}

Traces(v, d, w, k, o, n) ==
  [signal |-> "traces", tenant |-> a, service |-> v, longer |-> d, window |-> w,
   sort |-> k, order |-> o, limit |-> n]

Logs(w, n) ==
  [signal |-> "logs", tenant |-> a, service |-> AnyService, longer |-> 0, window |-> w,
   sort |-> "ts", order |-> "desc", limit |-> n]

\* The pages of the traces of a, by the spans of one service, by the long spans; of the logs
\* of a; limits out of range.
Walks ==
  {Traces(AnyService, 0, w, k, "desc", 1) : w \in {Whole, NoWindow}, k \in {"ts", "duration"}}
  \cup {Traces(cart, 0, Whole, "ts", "asc", 1), Traces(AnyService, 0, Until, "ts", "desc", 1)}
  \cup {Traces(AnyService, 2, NoWindow, "ts", "asc", 1)}
  \cup {Traces(AnyService, 0, NoWindow, "ts", "desc", n) : n \in {0, 2, 3}}
  \cup {Logs(w, n) : w \in {Whole, NoWindow, Since}, n \in 0..3}
===============================================================================
