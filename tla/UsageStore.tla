----------------------------- MODULE UsageStore -----------------------------
(***************************************************************************)
(* What the UsageStore interface promises (entitlement/store.go): every    *)
(* Get and Increment takes effect at one instant between its call and its  *)
(* return.  Implementations refine this module; the engine is modelled     *)
(* against its operators.                                                  *)
(***************************************************************************)
EXTENDS Counters

CONSTANTS
    Callers, Keys,
    Requests   \* the requests made, a subset of Request

Request == [op : {"get", "increment"}, key : Keys, delta : Int64, max : Int64]

\* The counter after the request, and what the request answers.
TotalAfter(r, total) ==
    IF r.op = "increment" THEN Increment(total, r.delta, r.max) ELSE total

Answer(r, total) ==
    [total   |-> TotalAfter(r, total),
     allowed |-> r.op = "get" \/ Fits(total, r.delta, r.max)]

Result == [total : Int64, allowed : BOOLEAN]

VARIABLES
    counter,  \* the map of counters; an absent entry reads as 0
    call      \* per caller: idle, calling, or holding the answer to return

vars == <<counter, call>>

Idle == [state |-> "idle", req |-> Nil, res |-> Nil]
Calling(r) == [state |-> "calling", req |-> r, res |-> Nil]
Answered(r, a) == [state |-> "answered", req |-> r, res |-> a]

Init ==
    /\ counter = [k \in Keys |-> 0]
    /\ call = [c \in Callers |-> Idle]

Invoke(c) ==
    /\ call[c].state = "idle"
    /\ \E r \in Requests : call' = [call EXCEPT ![c] = Calling(r)]
    /\ UNCHANGED counter

\* The atomic check-and-add, or the atomic read.
TakeEffect(c) ==
    /\ call[c].state = "calling"
    /\ LET r == call[c].req
       IN /\ counter' = [counter EXCEPT ![r.key] = TotalAfter(r, @)]
          /\ call' = [call EXCEPT ![c] = Answered(r, Answer(r, counter[r.key]))]

Return(c) ==
    /\ call[c].state = "answered"
    /\ call' = [call EXCEPT ![c] = Idle]
    /\ UNCHANGED counter

Next == \E c \in Callers : Invoke(c) \/ TakeEffect(c) \/ Return(c)

Spec ==
    /\ Init /\ [][Next]_vars
    /\ \A c \in Callers : WF_vars(TakeEffect(c) \/ Return(c))
=============================================================================
