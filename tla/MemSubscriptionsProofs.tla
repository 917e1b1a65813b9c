----------------------- MODULE MemSubscriptionsProofs -----------------------
(***************************************************************************)
(* For every set of callers, tenants and requests: MemSubscriptions is     *)
(* type correct, no two goroutines race at its map, and it implements the  *)
(* promise of SubscriptionStore.                                           *)
(***************************************************************************)
EXTENDS MemSubscriptions, TLAPS

\* The fields of a request; only a Set carries a subscription.
LEMMA RequestFields ==
    ASSUME NEW r \in Requests
    PROVE  /\ r.op \in {"set", "delete", "subscription"} /\ r.tenant \in Tenants
           /\ r.sub \in Subs \cup {Nil}
BY StoreAssumption DEF Promise!Request

(***************************************************************************)
(* The lock.  Who has it is told by where it is; a writer is at the map    *)
(* only when the readers are gone, and none comes in while it is there.    *)
(***************************************************************************)
Locked ==
    \A c \in Callers :
        /\ pc[c] = "drain" => writer = c
        /\ pc[c] = "blocked" <=> c \in waiting
        /\ pc[c] = "runlock" => c \in readers
        /\ pc[c] = "unlock" => writer = c /\ readers = {}
        /\ pc[c] = "access" => \/ c \in readers
                               \/ writer = c /\ readers = {}
        /\ c \in readers => pc[c] \in {"access", "runlock"} /\ req[c].op = "subscription"
        /\ pc[c] \in {"rlock", "blocked"} => req[c].op = "subscription"

Inv == TypeOK /\ Locked

\* Every step keeps the types.
LEMMA TypeStep == Inv /\ [Next]_vars => TypeOK'
<1> SUFFICES ASSUME Inv, [Next]_vars PROVE TypeOK'
  OBVIOUS
<1> USE DEF Inv, TypeOK, Goto, Labels, lock
<1>1. ASSUME NEW c \in Callers, Invoke(c) PROVE TypeOK'
  BY <1>1 DEF Invoke, Exclusive
<1>2. ASSUME NEW c \in Callers, Announce(c) PROVE TypeOK'
  BY <1>2 DEF Announce
<1>3. ASSUME NEW c \in Callers, Lock(c) PROVE TypeOK'
  BY <1>3 DEF Lock
<1>4. ASSUME NEW c \in Callers, RLock(c) PROVE TypeOK'
  BY <1>4 DEF RLock
<1>5. ASSUME NEW c \in Callers, Read(c) PROVE TypeOK'
  <2>1. Lookup(req[c].tenant) \in Subs \cup {Nil}
    BY <1>5, RequestFields DEF Read, Lookup
  <2> QED  BY <1>5, <2>1 DEF Read, GotoUnlock
<1>6. ASSUME NEW c \in Callers, Write(c) PROVE TypeOK'
  <2>1. req[c].sub \in Subs \cup {Nil}
    BY <1>6, RequestFields DEF Write
  <2> QED  BY <1>6, <2>1 DEF Write, GotoUnlock
<1>7. ASSUME NEW c \in Callers, Unlock(c) PROVE TypeOK'
  BY <1>7 DEF Unlock, Locked
<1>8. ASSUME NEW c \in Callers, RUnlock(c) PROVE TypeOK'
  BY <1>8 DEF RUnlock
<1>9. ASSUME NEW c \in Callers, Return(c) PROVE TypeOK'
  BY <1>9 DEF Return
<1>10. CASE UNCHANGED vars
  BY <1>10 DEF vars
<1> QED
  BY <1>1, <1>2, <1>3, <1>4, <1>5, <1>6, <1>7, <1>8, <1>9, <1>10 DEF Next, Step

\* Every step keeps the lock's discipline.
LEMMA LockStep == Inv /\ [Next]_vars => Locked'
<1> SUFFICES ASSUME Inv, [Next]_vars PROVE Locked'
  OBVIOUS
<1> USE StoreAssumption DEF Inv, TypeOK, Locked, Goto, lock
<1>1. ASSUME NEW c \in Callers, Invoke(c) PROVE Locked'
  BY <1>1 DEF Invoke, Exclusive
<1>2. ASSUME NEW c \in Callers, Announce(c) PROVE Locked'
  BY <1>2 DEF Announce
<1>3. ASSUME NEW c \in Callers, Lock(c) PROVE Locked'
  BY <1>3 DEF Lock
<1>4. ASSUME NEW c \in Callers, RLock(c) PROVE Locked'
  BY <1>4 DEF RLock
<1>5. ASSUME NEW c \in Callers, Read(c) PROVE Locked'
  BY <1>5 DEF Read, GotoUnlock
<1>6. ASSUME NEW c \in Callers, Write(c) PROVE Locked'
  BY <1>6 DEF Write, GotoUnlock
<1>7. ASSUME NEW c \in Callers, Unlock(c) PROVE Locked'
  <2>1. /\ writer = c /\ readers = {} /\ c \notin waiting
        /\ writer' = Nil /\ readers' = waiting /\ waiting' = {} /\ req' = req
    BY <1>7 DEF Unlock
  <2>2. ASSUME NEW d \in Callers, d = c
        PROVE  pc'[d] = "return" /\ d \notin readers' /\ d \notin waiting'
    BY <1>7, <2>1, <2>2 DEF Unlock
  <2>3. ASSUME NEW d \in Callers, d \in waiting
        PROVE  pc'[d] = "access" /\ d \in readers' /\ req'[d].op = "subscription"
    BY <1>7, <2>1, <2>3 DEF Unlock
  <2>4. ASSUME NEW d \in Callers, d # c, d \notin waiting
        PROVE  /\ pc'[d] = pc[d] /\ d \notin readers'
               /\ pc[d] \notin {"drain", "blocked", "runlock", "unlock", "access"}
    BY <1>7, <2>1, <2>4 DEF Unlock
  <2> QED  BY <2>1, <2>2, <2>3, <2>4
<1>8. ASSUME NEW c \in Callers, RUnlock(c) PROVE Locked'
  BY <1>8 DEF RUnlock
<1>9. ASSUME NEW c \in Callers, Return(c) PROVE Locked'
  BY <1>9 DEF Return
<1>10. CASE UNCHANGED vars
  BY <1>10 DEF vars
<1> QED
  BY <1>1, <1>2, <1>3, <1>4, <1>5, <1>6, <1>7, <1>8, <1>9, <1>10 DEF Next, Step

\* Both hold throughout.
LEMMA InvHolds == Spec => []Inv
<1>1. Init => Inv
  BY DEF Init, Inv, TypeOK, Labels, Locked
<1>2. Inv /\ [Next]_vars => Inv'
  BY TypeStep, LockStep DEF Inv
<1> QED  BY <1>1, <1>2, PTL DEF Spec

\* The state of the store is always well-typed.
THEOREM TypeCorrect == Spec => []TypeOK
BY InvHolds, PTL DEF Inv

\* While one goroutine changes the map no other is at it.
THEOREM NoRaceHolds == Spec => []NoRace
<1>1. Inv => NoRace
  BY StoreAssumption DEF Inv, TypeOK, Locked, NoRace, AtMap
<1> QED  BY <1>1, InvHolds, PTL

-----------------------------------------------------------------------------
(***************************************************************************)
(* The refinement: the accesses of the map are the steps of the promise,   *)
(* and taking or leaving the lock does not show.                           *)
(***************************************************************************)
\* What a call shows of itself.
Shown(c) ==
    [state |-> CASE pc[c] = "idle" -> "idle" [] Done(c) -> "answered" [] OTHER -> "calling",
     req |-> req[c], got |-> got[c]]

\* Before its access a call has no answer.
Unanswered == \A c \in Callers : /\ got[c] # Nil => Done(c)
                                 /\ pc[c] = "idle" => req[c] = Nil

\* Every step keeps that.
LEMMA UnansweredStep == Inv /\ Unanswered /\ [Next]_vars => Unanswered'
<1> SUFFICES ASSUME Inv, Unanswered, [Next]_vars PROVE Unanswered'
  OBVIOUS
<1> USE DEF Inv, TypeOK, Unanswered, Done, Goto, lock
<1>1. ASSUME NEW c \in Callers, Invoke(c) PROVE Unanswered'
  BY <1>1 DEF Invoke, Exclusive
<1>2. ASSUME NEW c \in Callers, Announce(c) \/ Lock(c) \/ RLock(c) PROVE Unanswered'
  BY <1>2 DEF Announce, Lock, RLock
<1>3. ASSUME NEW c \in Callers, Read(c) \/ Write(c) PROVE Unanswered'
  BY <1>3 DEF Read, Write, GotoUnlock
<1>4. ASSUME NEW c \in Callers, Unlock(c) PROVE Unanswered'
  <2>1. ASSUME NEW d \in Callers, d # c, d \in waiting
        PROVE  pc'[d] = "access" /\ got'[d] = Nil
    BY <1>4, <2>1 DEF Unlock, Locked
  <2> QED  BY <1>4, <2>1 DEF Unlock
<1>5. ASSUME NEW c \in Callers, RUnlock(c) \/ Return(c) PROVE Unanswered'
  BY <1>5 DEF RUnlock, Return
<1>6. CASE UNCHANGED vars
  BY <1>6 DEF vars
<1> QED
  BY <1>1, <1>2, <1>3, <1>4, <1>5, <1>6 DEF Next, Step

Shows == [c \in Callers |-> Shown(c)]

\* If a step changes what one call shows, the calls' function changes there only.
LEMMA ShowsExcept ==
    ASSUME NEW c \in Callers, NEW v, Shown(c)' = v,
           \A d \in Callers \ {c} : Shown(d)' = Shown(d)
    PROVE  Shows' = [Shows EXCEPT ![c] = v]
BY DEF Shows

\* What the others show does not change, though Unlock moves the readers that waited.
LEMMA OthersShow ==
    ASSUME Inv, NEW c \in Callers, Invoke(c) \/ Step(c)
    PROVE  \A d \in Callers \ {c} : Shown(d)' = Shown(d)
<1>1. CASE Unlock(c)
  <2>1. ASSUME NEW d \in Callers \ {c}
        PROVE  /\ req'[d] = req[d] /\ got'[d] = got[d]
               /\ \/ pc'[d] = pc[d]
                  \/ pc[d] = "blocked" /\ pc'[d] = "access"
    BY <1>1 DEF Unlock, Inv, Locked, TypeOK
  <2> QED  BY <2>1 DEF Shown, Done
<1>2. CASE ~Unlock(c)
  <2>1. \A d \in Callers \ {c} : pc'[d] = pc[d] /\ req'[d] = req[d] /\ got'[d] = got[d]
    BY <1>2 DEF Inv, TypeOK, Invoke, Step, Announce, Lock, RLock, Read, Write, RUnlock,
                Return, Goto, GotoUnlock
  <2> QED  BY <2>1 DEF Shown, Done
<1> QED  BY <1>1, <1>2

\* A step that changes neither the map nor what its caller shows is a stutter.
LEMMA Hidden ==
    ASSUME Inv, NEW c \in Callers, Step(c), m' = m, Shown(c)' = Shown(c)
    PROVE  UNCHANGED Promise!vars
<1>1. \A d \in Callers : Shown(d)' = Shown(d)
  BY OthersShow
<1>2. Shows' = Shows
  BY <1>1 DEF Shows
<1> QED  BY <1>2 DEF Promise!vars, Shows, Shown

\* Each step of MemSubscriptions maps to a step of SubscriptionStore or to a stutter.
LEMMA StepSimulates ==
    ASSUME Inv, Unanswered, [Next]_vars PROVE [Promise!Next]_(Promise!vars)
<1> USE DEF lock
<1>1. ASSUME NEW c \in Callers, Invoke(c) PROVE Promise!Invoke(c)
  <2>1. PICK r \in Requests : req' = [req EXCEPT ![c] = r]
    BY <1>1 DEF Invoke
  <2>2. Shown(c)' = [state |-> "calling", req |-> r, got |-> Nil]
    BY <1>1, <2>1 DEF Invoke, Goto, Shown, Done, Inv, TypeOK, Unanswered
  <2>3. Shows' = [Shows EXCEPT ![c] = [state |-> "calling", req |-> r, got |-> Nil]]
    BY <1>1, <2>2, OthersShow, ShowsExcept
  <2>4. Shown(c).state = "idle" /\ m' = m
    BY <1>1 DEF Invoke, Shown, Done
  <2>5. \E s \in Requests :
          Shows' = [Shows EXCEPT ![c] = [state |-> "calling", req |-> s, got |-> Nil]]
    BY <2>3
  <2> QED  BY <2>4, <2>5 DEF Promise!Invoke, Shows, Shown
<1>2. ASSUME NEW c \in Callers, Return(c) PROVE Promise!Return(c)
  <2>1. Shown(c)' = [state |-> "idle", req |-> Nil, got |-> Nil]
    BY <1>2 DEF Return, Goto, Shown, Done, Inv, TypeOK
  <2>2. Shows' = [Shows EXCEPT ![c] = [state |-> "idle", req |-> Nil, got |-> Nil]]
    BY <1>2, <2>1, OthersShow, ShowsExcept DEF Step
  <2>3. Shown(c).state = "answered"
    BY <1>2 DEF Return, Shown, Done
  <2> QED  BY <1>2, <2>2, <2>3 DEF Return, Promise!Return, Promise!Idle, Shows, Shown
<1>3. ASSUME NEW c \in Callers, Read(c) \/ Write(c) PROVE Promise!TakeEffect(c)
  <2> DEFINE r == req[c]
             answer == IF r.op = "subscription" THEN m[r.tenant] ELSE Nil
  <2>1. r.tenant \in Tenants /\ pc[c] = "access" /\ got[c] = Nil
    BY <1>3, RequestFields DEF Read, Write, Inv, TypeOK, Unanswered, Done
  <2>2. m' = IF r.op = "subscription" THEN m ELSE [m EXCEPT ![r.tenant] = r.sub]
    BY <1>3 DEF Read, Write
  <2>3. Shown(c)' = [state |-> "answered", req |-> r, got |-> answer]
    <3>1. req'[c] = r /\ pc'[c] \in {"unlock", "runlock"}
      BY <1>3 DEF Read, Write, GotoUnlock, Goto, Inv, TypeOK
    <3>2. got'[c] = answer
      BY <1>3, <2>1 DEF Read, Write, Lookup, Inv, TypeOK
    <3> QED  BY <3>1, <3>2 DEF Shown, Done
  <2>4. Shows' = [Shows EXCEPT ![c] = [state |-> "answered", req |-> r, got |-> answer]]
    BY <1>3, <2>3, OthersShow, ShowsExcept DEF Step
  <2>5. Shown(c).state = "calling" /\ Shown(c).req = r
    BY <2>1 DEF Shown, Done
  <2> QED  BY <2>2, <2>4, <2>5 DEF Promise!TakeEffect, Shows, Shown
<1>4. ASSUME NEW c \in Callers,
             Announce(c) \/ Lock(c) \/ RLock(c) \/ Unlock(c) \/ RUnlock(c)
      PROVE  UNCHANGED Promise!vars
  <2>1. m' = m /\ req'[c] = req[c] /\ got'[c] = got[c]
    BY <1>4 DEF Announce, Lock, RLock, Unlock, RUnlock
  <2>2. \/ pc[c] \in {"lock", "drain", "rlock"} /\ pc'[c] \in {"drain", "access", "blocked"}
        \/ pc[c] \in {"unlock", "runlock"} /\ pc'[c] = "return"
    BY <1>4 DEF Announce, Lock, RLock, Unlock, RUnlock, Goto, Inv, TypeOK
  <2>3. Shown(c)' = Shown(c)
    BY <2>1, <2>2 DEF Shown, Done
  <2> QED  BY <1>4, <2>1, <2>3, Hidden DEF Step
<1>5. CASE UNCHANGED vars
  BY <1>5 DEF vars, Promise!vars, Done
<1> QED
  BY <1>1, <1>2, <1>3, <1>4, <1>5 DEF Next, Step, Promise!Next

\* The safety part of KeepsPromise: MemSubscriptions implements SubscriptionStore, so
\* every call is one atomic access (memstore.go:19-41 against store.go:14-18).
THEOREM Linearizable == Spec => Promise!Init /\ [][Promise!Next]_(Promise!vars)
<1>1. Init => Promise!Init /\ Unanswered
  BY DEF Init, Promise!Init, Promise!Idle, Done, Unanswered
<1> QED  BY <1>1, StepSimulates, UnansweredStep, InvHolds, PTL DEF Spec
=============================================================================
