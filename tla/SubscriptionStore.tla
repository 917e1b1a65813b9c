-------------------------- MODULE SubscriptionStore --------------------------
(***************************************************************************)
(* What a SubscriptionStore owes its callers (entitlement/store.go): safe  *)
(* for concurrent use, so that a subscription read is the one stored at    *)
(* some instant of the call.  Set and Delete are MemSubscriptions' own.    *)
(***************************************************************************)
CONSTANTS
    Callers, Tenants, Subs,
    Requests,  \* the requests made, a subset of Request
    Nil        \* no subscription: ErrNoSubscription

Request ==
    [op : {"set"}, tenant : Tenants, sub : Subs]
      \cup [op : {"delete", "subscription"}, tenant : Tenants, sub : {Nil}]

VARIABLES
    stored,  \* per tenant: the subscription, or Nil
    call     \* per caller: idle, calling, or holding the answer to return

vars == <<stored, call>>

Idle == [state |-> "idle", req |-> Nil, got |-> Nil]

Init ==
    /\ stored = [t \in Tenants |-> Nil]
    /\ call = [c \in Callers |-> Idle]

Invoke(c) ==
    /\ call[c].state = "idle"
    /\ \E r \in Requests :
         call' = [call EXCEPT ![c] = [state |-> "calling", req |-> r, got |-> Nil]]
    /\ UNCHANGED stored

\* A subscription is read, or replaced, or removed (by storing Nil), at one instant.
TakeEffect(c) ==
    /\ call[c].state = "calling"
    /\ LET r == call[c].req
           reads == r.op = "subscription"
       IN /\ stored' = IF reads THEN stored ELSE [stored EXCEPT ![r.tenant] = r.sub]
          /\ call' = [call EXCEPT ![c] = [state |-> "answered", req |-> r,
                                          got |-> IF reads THEN stored[r.tenant] ELSE Nil]]

Return(c) ==
    /\ call[c].state = "answered"
    /\ call' = [call EXCEPT ![c] = Idle]
    /\ UNCHANGED stored

Next == \E c \in Callers : Invoke(c) \/ TakeEffect(c) \/ Return(c)

Spec ==
    /\ Init /\ [][Next]_vars
    /\ \A c \in Callers : WF_vars(TakeEffect(c) \/ Return(c))
=============================================================================
