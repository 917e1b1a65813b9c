--------------------------- MODULE MemUsageProofs ---------------------------
(***************************************************************************)
(* For every set of callers, keys and requests and every integer width:    *)
(* MemUsage is type correct, its critical section is exclusive and reads   *)
(* fresh values, caps hold, and it implements the promise of UsageStore.   *)
(***************************************************************************)
EXTENDS MemUsage, TLAPS

\* Wrap always yields an int64.
LEMMA WrapType == \A x \in Int : Wrap(x) \in Int64
<1>1. \A a, n \in Int : n > 0 => a % n \in 0 .. (n - 1)
  OBVIOUS
<1>2. MaxInt \in Int /\ MaxInt > 0
  BY MaxIntAssumption
<1> QED  BY <1>1, <1>2 DEF Wrap, Int64

\* Wrap is the identity on int64.
LEMMA WrapIdentity == \A x \in Int64 : Wrap(x) = x
<1>1. \A a, n \in Int : n > 0 /\ a \in 0 .. (n - 1) => a % n = a
  OBVIOUS
<1>2. MaxInt \in Int /\ MaxInt > 0
  BY MaxIntAssumption
<1> QED  BY <1>1, <1>2 DEF Wrap, Int64

\* Adding two int64 values yields an int64.
LEMMA PlusType == \A a, b \in Int64 : Plus(a, b) \in Int64
BY WrapType, MaxIntAssumption DEF Plus, Int64

\* The fields of a request.
LEMMA RequestFields ==
    ASSUME NEW r \in Requests
    PROVE  /\ r.op \in {"get", "increment"} /\ r.key \in Keys
           /\ r.delta \in Int64 /\ r.max \in Int64
BY RequestsAssumption DEF Request, Promise!Request, Promise!Int64, Int64

-----------------------------------------------------------------------------
\* Every step keeps the types.
LEMMA TypeStep == TypeOK /\ [Next]_vars => TypeOK'
<1> SUFFICES ASSUME TypeOK, [Next]_vars PROVE TypeOK'
  OBVIOUS
<1> USE DEF TypeOK, Optional, Goto
<1>z. 0 \in Int64
  BY MaxIntAssumption DEF Int64
<1>1. ASSUME NEW c \in Callers, Invoke(c) PROVE TypeOK'
  BY <1>1 DEF Invoke
<1>2. ASSUME NEW c \in Callers, Lock(c) PROVE TypeOK'
  BY <1>2 DEF Lock
<1>3. ASSUME NEW c \in Callers, Read(c) PROVE TypeOK'
  <2>1. m[req[c].key] \in Int64
    BY <1>3, RequestFields DEF Read
  <2> QED  BY <1>3, <2>1 DEF Read
<1>4. ASSUME NEW c \in Callers, Check(c) PROVE TypeOK'
  <2>1. Exceeds(cur[c], req[c].delta, req[c].max) \in BOOLEAN
    BY DEF Exceeds
  <2> QED  BY <1>4, <2>1 DEF Check
<1>5. ASSUME NEW c \in Callers, Write(c) PROVE TypeOK'
  <2>1. Plus(cur[c], req[c].delta) \in Int64
    BY <1>5, RequestFields, PlusType DEF Write
  <2> QED  BY <1>5, <2>1 DEF Write
<1>6. ASSUME NEW c \in Callers, Unlock(c) PROVE TypeOK'
  BY <1>6 DEF Unlock
<1>7. ASSUME NEW c \in Callers, Return(c) PROVE TypeOK'
  BY <1>7, <1>z DEF Return
<1>8. CASE UNCHANGED vars
  BY <1>8 DEF vars
<1> QED  BY <1>1, <1>2, <1>3, <1>4, <1>5, <1>6, <1>7, <1>8 DEF Next, Step

\* The initial state is well typed.
LEMMA TypeInit == Init => TypeOK
BY MaxIntAssumption DEF Init, TypeOK, Optional, Int64

\* The type invariant: counters, locals and answers stay int64, and a caller
\* inside a call holds one of the requests.
THEOREM TypeCorrect == Spec => []TypeOK
BY TypeInit, TypeStep, PTL DEF Spec

-----------------------------------------------------------------------------
(***************************************************************************)
(* The inductive invariant.  The lock is held exactly inside the critical  *)
(* section, so nobody else writes between a caller's read and its write    *)
(* (FreshUnderLock); what a caller is about to write was checked against   *)
(* its cap (Checked).                                                      *)
(***************************************************************************)
Checked ==
    \A c \in Callers :
        /\ pc[c] \in {"check", "write"} => req[c].op = "increment"
        /\ pc[c] \in {"check", "write"} => allowed[c] = TRUE
        /\ pc[c] = "write" => ~Exceeds(cur[c], req[c].delta, req[c].max)

Inv == TypeOK /\ FreshUnderLock /\ Checked /\ CapHeld

\* The invariant holds initially.
LEMMA InvInit == Init => Inv
<1> SUFFICES ASSUME Init PROVE Inv
  OBVIOUS
<1>1. TypeOK
  BY TypeInit
<1>2. FreshUnderLock /\ Checked
  BY NilAssumption DEF Init, FreshUnderLock, Checked
<1>3. CapHeld
  BY MaxIntAssumption DEF Init, CapHeld
<1> QED  BY <1>1, <1>2, <1>3 DEF Inv

\* Every step keeps the lock discipline and the freshness of what was read.
LEMMA FreshStep == Inv /\ [Next]_vars => FreshUnderLock'
<1> SUFFICES ASSUME Inv, [Next]_vars PROVE FreshUnderLock'
  OBVIOUS
<1> USE NilAssumption DEF Inv, TypeOK, Optional, FreshUnderLock, Goto
<1>1. ASSUME NEW c \in Callers, Invoke(c) PROVE FreshUnderLock'
  BY <1>1 DEF Invoke
<1>2. ASSUME NEW c \in Callers, Lock(c) PROVE FreshUnderLock'
  BY <1>2 DEF Lock, Free
<1>3. ASSUME NEW c \in Callers, Read(c) PROVE FreshUnderLock'
  BY <1>3 DEF Read
<1>4. ASSUME NEW c \in Callers, Check(c) PROVE FreshUnderLock'
  BY <1>4 DEF Check
<1>5. ASSUME NEW c \in Callers, Write(c) PROVE FreshUnderLock'
  BY <1>5 DEF Write
<1>6. ASSUME NEW c \in Callers, Unlock(c) PROVE FreshUnderLock'
  BY <1>6 DEF Unlock
<1>7. ASSUME NEW c \in Callers, Return(c) PROVE FreshUnderLock'
  BY <1>7 DEF Return
<1>8. CASE UNCHANGED vars
  BY <1>8 DEF vars
<1> QED  BY <1>1, <1>2, <1>3, <1>4, <1>5, <1>6, <1>7, <1>8 DEF Next, Step

\* Every step keeps what is about to be written checked.
LEMMA CheckedStep == Inv /\ [Next]_vars => Checked'
<1> SUFFICES ASSUME Inv, [Next]_vars PROVE Checked'
  OBVIOUS
<1> USE DEF Inv, TypeOK, Optional, Checked, Goto
<1>1. ASSUME NEW c \in Callers, Invoke(c) PROVE Checked'
  BY <1>1 DEF Invoke
<1>2. ASSUME NEW c \in Callers, Lock(c) PROVE Checked'
  BY <1>2 DEF Lock
<1>3. ASSUME NEW c \in Callers, Read(c) PROVE Checked'
  BY <1>3, RequestFields DEF Read
<1>4. ASSUME NEW c \in Callers, Check(c) PROVE Checked'
  <2>1. Exceeds(cur[c], req[c].delta, req[c].max) \in BOOLEAN
    BY DEF Exceeds
  <2> QED  BY <1>4, <2>1 DEF Check
<1>5. ASSUME NEW c \in Callers, Write(c) PROVE Checked'
  BY <1>5 DEF Write
<1>6. ASSUME NEW c \in Callers, Unlock(c) PROVE Checked'
  BY <1>6 DEF Unlock
<1>7. ASSUME NEW c \in Callers, Return(c) PROVE Checked'
  BY <1>7 DEF Return
<1>8. CASE UNCHANGED vars
  BY <1>8 DEF vars
<1> QED  BY <1>1, <1>2, <1>3, <1>4, <1>5, <1>6, <1>7, <1>8 DEF Next, Step

\* Only Write moves a counter, and to a total it checked.
LEMMA CapStep == Inv /\ [Next]_vars => CapHeld'
<1> SUFFICES ASSUME Inv, [Next]_vars PROVE CapHeld'
  OBVIOUS
<1>1. CASE UNCHANGED m
  BY <1>1 DEF Inv, CapHeld
<1>2. ASSUME NEW c \in Callers, Write(c) PROVE CapHeld'
  <2> DEFINE r == req[c]
             total == Plus(cur[c], r.delta)
  <2>1. r \in Requests /\ r.op = "increment" /\ cur[c] \in Int64
    BY <1>2 DEF Write, Inv, TypeOK, Checked
  <2>2. total \in Int64 /\ r.max \in Int64 /\ r.key \in Keys
    BY <2>1, RequestFields, PlusType
  <2>3. r.max >= 0 => total <= r.max
    BY <1>2, <2>2, MaxIntAssumption DEF Write, Inv, Checked, Exceeds, Int64
  <2>4. m' = [m EXCEPT ![r.key] = total]
    BY <1>2 DEF Write
  <2> HIDE DEF r, total
  <2> SUFFICES ASSUME NEW k \in Keys, NEW cap \in 0 .. MaxInt,
                      \A s \in Requests : s.key = k /\ s.op = "increment"
                          => s.max \in 0 .. cap
               PROVE  m'[k] <= cap
    BY DEF CapHeld
  <2>5. CASE k = r.key
    <3>1. r.max \in 0 .. cap
      BY <2>1, <2>5
    <3> QED  BY <2>2, <2>3, <2>4, <2>5, <3>1, MaxIntAssumption DEF Inv, TypeOK, Int64
  <2>6. CASE k # r.key
    BY <2>4, <2>6 DEF Inv, TypeOK, CapHeld
  <2> QED  BY <2>5, <2>6
<1> QED
  BY <1>1, <1>2
     DEF Next, Step, Invoke, Lock, Read, Check, Unlock, Return, vars

\* The invariant is inductive.
LEMMA InvStep == Inv /\ [Next]_vars => Inv'
BY TypeStep, FreshStep, CheckedStep, CapStep DEF Inv

\* The invariant holds throughout.
LEMMA InvHolds == Spec => []Inv
BY InvInit, InvStep, PTL DEF Spec

\* Mutual exclusion, and no caller writes over a value it did not read.
THEOREM FreshUnderLockHolds == Spec => []FreshUnderLock
BY InvHolds, PTL DEF Inv

\* No interleaving takes a counter past the largest cap it is used with.
THEOREM CapHeldHolds == Spec => []CapHeld
BY InvHolds, PTL DEF Inv

-----------------------------------------------------------------------------
(***************************************************************************)
(* Without overflow a counter moves by exactly the delta of a request that *)
(* fits.  The run of MCMemUsage on MCNearMax shows that the hypothesis is  *)
(* needed: nothing in the code establishes it.                             *)
(***************************************************************************)
NoOverflow ==
    \A r, s \in Requests :
        r.op = "increment" /\ s.op = "increment" /\ r.key = s.key =>
            r.delta > 0 /\ s.max >= 0 /\ s.max + r.delta <= MaxInt

\* A counter is not negative, and is 0 or within a cap it is used with.
Reachable ==
    \A k \in Keys :
        /\ m[k] >= 0
        /\ m[k] = 0 \/ \E s \in Requests :
                            s.key = k /\ s.op = "increment" /\ m[k] <= s.max

\* What Write stores when nothing overflows.
LEMMA WriteAdds ==
    ASSUME NoOverflow, Inv, Reachable, NEW c \in Callers, Write(c)
    PROVE  /\ req[c] \in Requests /\ req[c].op = "increment" /\ req[c].delta > 0
           /\ m' = [m EXCEPT ![req[c].key] = m[req[c].key] + req[c].delta]
           /\ 0 <= req[c].max /\ m[req[c].key] + req[c].delta <= req[c].max
<1> DEFINE r == req[c]
           k == r.key
<1>1. r \in Requests /\ r.op = "increment" /\ cur[c] = m[k] /\ m[k] \in Int64
  BY RequestFields DEF Write, Inv, TypeOK, Checked, FreshUnderLock
<1>2. k \in Keys /\ r.delta \in Int64 /\ r.max \in Int64
  BY <1>1, RequestFields
<1>3. r.delta > 0 /\ r.max >= 0 /\ r.max + r.delta <= MaxInt
  BY <1>1 DEF NoOverflow
<1>4. m[k] >= 0 /\ m[k] + r.delta <= MaxInt
  <2>1. CASE m[k] = 0
    BY <1>2, <1>3, <2>1, MaxIntAssumption DEF Int64
  <2>2. ASSUME NEW s \in Requests, s.key = k, s.op = "increment", m[k] <= s.max
        PROVE  m[k] + r.delta <= MaxInt
    <3>1. s.max + r.delta <= MaxInt /\ s.max \in Int64
      BY <1>1, <2>2, RequestFields DEF NoOverflow
    <3> QED  BY <1>1, <1>2, <2>2, <3>1, MaxIntAssumption DEF Int64
  <2> QED  BY <1>2, <2>1, <2>2 DEF Reachable
<1>5. Plus(cur[c], r.delta) = m[k] + r.delta
  <2>1. m[k] + r.delta \in Int64
    BY <1>1, <1>2, <1>3, <1>4, MaxIntAssumption DEF Int64
  <2> QED  BY <1>1, <2>1, WrapIdentity DEF Plus
<1>6. m[k] + r.delta <= r.max
  BY <1>1, <1>2, <1>3, <1>5, MaxIntAssumption DEF Write, Inv, Checked, Exceeds, Int64
<1>7. m' = [m EXCEPT ![k] = m[k] + r.delta]
  BY <1>5 DEF Write
<1> QED  BY <1>1, <1>3, <1>6, <1>7

\* Reachable is inductive without overflow.
LEMMA ReachableStep ==
    ASSUME NoOverflow, Inv, Reachable, [Next]_vars PROVE Reachable'
<1>1. CASE UNCHANGED m
  BY <1>1 DEF Reachable
<1>2. ASSUME NEW c \in Callers, Write(c) PROVE Reachable'
  <2>1. req[c].delta \in Int64 /\ req[c].max \in Int64 /\ req[c].key \in Keys
    BY <1>2, WriteAdds, RequestFields
  <2>2. m \in [Keys -> Int]
    BY MaxIntAssumption DEF Inv, TypeOK, Int64
  <2> QED  BY <1>2, <2>1, <2>2, WriteAdds, MaxIntAssumption DEF Reachable, Int64
<1> QED
  BY <1>1, <1>2
     DEF Next, Step, Invoke, Lock, Read, Check, Unlock, Return, vars

\* The move of one counter that AddsExactly allows.
Added(k) ==
    m'[k] # m[k] =>
        \E r \in Requests :
            /\ r.key = k /\ r.op = "increment"
            /\ m'[k] = m[k] + r.delta
            /\ r.max < 0 \/ m'[k] <= r.max

\* A step moves counters as AddsExactly says.
LEMMA StepAdds ==
    ASSUME NoOverflow, Inv, Reachable, [Next]_vars PROVE [\A k \in Keys : Added(k)]_m
<1>1. ASSUME NEW c \in Callers, Write(c) PROVE \A k \in Keys : Added(k)
  <2>1. m \in [Keys -> Int] /\ req[c].key \in Keys
    BY <1>1, WriteAdds, RequestFields, MaxIntAssumption DEF Inv, TypeOK, Int64
  <2> QED  BY <1>1, <2>1, WriteAdds DEF Added
<1> QED
  BY <1>1 DEF Next, Step, Invoke, Lock, Read, Check, Unlock, Return, vars

\* Under NoOverflow an increment adds exactly its delta, within its cap, and
\* nothing else moves a counter (memstore.go:59-69, store.go:31-33).
THEOREM AddsExactlyHolds == ASSUME NoOverflow PROVE Spec => AddsExactly
<1>1. Init => Reachable
  BY DEF Init, Reachable
<1>2. Inv /\ Reachable /\ [Next]_vars => Reachable'
  BY ReachableStep
<1>3. Inv /\ Reachable /\ [Next]_vars => [\A k \in Keys : Added(k)]_m
  BY StepAdds
<1>4. Spec => [][\A k \in Keys : Added(k)]_m
  BY <1>1, <1>2, <1>3, InvHolds, PTL DEF Spec
<1> QED  BY <1>4 DEF AddsExactly, Added

-----------------------------------------------------------------------------
(***************************************************************************)
(* Refinement: a step of MemUsage is a step of UsageStore or leaves its    *)
(* variables alone.                                                        *)
(***************************************************************************)
\* The call record of the promise for one caller; the refinement mapping of
\* MemUsage is the function of these records.
View(c) ==
    [state |-> CASE pc[c] = "idle" -> "idle"
                 [] Decided(c) -> "answered"
                 [] OTHER -> "calling",
     req   |-> req[c],
     res   |-> IF Decided(c) THEN [total |-> cur[c], allowed |-> allowed[c]] ELSE Nil]

Views == [c \in Callers |-> View(c)]

\* Changing only caller c's locals changes only its record.
LEMMA ViewsExcept ==
    ASSUME NEW c \in Callers, NEW v, View(c)' = v,
           \A d \in Callers \ {c} :
               pc'[d] = pc[d] /\ req'[d] = req[d] /\ cur'[d] = cur[d] /\ allowed'[d] = allowed[d]
    PROVE  Views' = [Views EXCEPT ![c] = v]
<1>1. \A d \in Callers \ {c} : View(d)' = View(d)
  BY DEF View, Decided
<1> QED  BY <1>1 DEF Views

\* A step of one caller leaves the locals of the others alone.
LEMMA OthersKept ==
    ASSUME Inv, NEW c \in Callers, Invoke(c) \/ Step(c)
    PROVE  \A d \in Callers \ {c} :
               pc'[d] = pc[d] /\ req'[d] = req[d] /\ cur'[d] = cur[d] /\ allowed'[d] = allowed[d]
BY DEF Inv, TypeOK, Invoke, Step, Lock, Read, Check, Write, Unlock, Return, Goto

\* Where the answer is decided, the promise takes effect.
LEMMA EffectSimulates ==
    ASSUME Inv, NEW c \in Callers, Step(c), pc[c] \in {"read", "check", "write"},
           Decided(c)'
    PROVE  Promise!TakeEffect(c)
<1> DEFINE r == req[c]
           k == r.key
           a == [total |-> cur'[c], allowed |-> allowed'[c]]
<1>1. r \in Requests /\ k \in Keys /\ r.op \in {"get", "increment"}
      /\ r.delta \in Int64 /\ r.max \in Int64
  BY RequestFields DEF Inv, TypeOK
<1>2. View(c)' = [state |-> "answered", req |-> r, res |-> a]
  <2>1. req'[c] = req[c] /\ pc'[c] \in {"unlock", "return"}
    BY DEF Inv, TypeOK, Step, Lock, Read, Check, Write, Unlock, Return, Goto, Decided
  <2> QED  BY <2>1 DEF View, Decided
<1>3. Views' = [Views EXCEPT ![c] = [state |-> "answered", req |-> r, res |-> a]]
  BY <1>2, OthersKept, ViewsExcept
<1>4. View(c).state = "calling" /\ View(c).req = r
  BY DEF View, Decided
<1>5. m[k] \in Int64 /\ cur[c] \in Int64 /\ MaxInt \in Nat
  BY <1>1, MaxIntAssumption DEF Inv, TypeOK
<1>6. /\ m' = [m EXCEPT ![k] = Promise!TotalAfter(r, m[k])]
      /\ a = Promise!Answer(r, m[k])
  <2> USE DEF Promise!TotalAfter, Promise!Answer, Promise!Increment,
              Promise!Fits, Promise!Wrap, Wrap
  <2>1. CASE Read(c)
    <3>1. r.op = "get" /\ m' = m /\ cur'[c] = m[k] /\ allowed'[c] = TRUE
      BY <1>1, <2>1 DEF Read, Goto, Decided, Inv, TypeOK
    <3>2. m' = [m EXCEPT ![k] = m[k]]
      BY <1>1, <3>1 DEF Inv, TypeOK
    <3> QED  BY <3>1, <3>2
  <2>2. CASE Check(c)
    <3>1. Exceeds(cur[c], r.delta, r.max) /\ cur[c] = m[k] /\ r.op = "increment"
          /\ m' = m /\ cur' = cur /\ allowed'[c] = FALSE
      BY <2>2 DEF Check, Goto, Decided, Inv, TypeOK, FreshUnderLock, Checked, Exceeds
    <3>2. ~Promise!Fits(m[k], r.delta, r.max)
      <4>1. Plus(cur[c], r.delta) \in Int
        BY <1>1, <1>5, PlusType DEF Int64
      <4> QED  BY <1>1, <1>5, <3>1, <4>1 DEF Exceeds, Plus, Int64
    <3>3. m' = [m EXCEPT ![k] = m[k]]
      BY <1>1, <3>1 DEF Inv, TypeOK
    <3> QED  BY <3>1, <3>2, <3>3
  <2>3. CASE Write(c)
    <3>1. ~Exceeds(cur[c], r.delta, r.max) /\ cur[c] = m[k] /\ r.op = "increment"
          /\ m' = [m EXCEPT ![k] = Plus(m[k], r.delta)] /\ cur'[c] = Plus(m[k], r.delta)
          /\ allowed'[c] = TRUE
      BY <2>3 DEF Write, Inv, TypeOK, FreshUnderLock, Checked
    <3>2. Promise!Fits(m[k], r.delta, r.max)
      <4>1. Plus(cur[c], r.delta) \in Int
        BY <1>1, <1>5, PlusType DEF Int64
      <4> QED  BY <1>1, <1>5, <3>1, <4>1 DEF Exceeds, Plus, Int64
    <3> QED  BY <3>1, <3>2 DEF Plus
  <2> QED  BY <2>1, <2>2, <2>3 DEF Step, Lock, Unlock, Return
<1> QED
  BY <1>1, <1>3, <1>4, <1>6
     DEF Promise!TakeEffect, Promise!Answered, Views, View

\* Each step of MemUsage maps to a step of UsageStore or to a stutter.
LEMMA StepSimulates ==
    ASSUME Inv, [Next]_vars PROVE [Promise!Next]_(Promise!vars)
<1>1. ASSUME NEW c \in Callers, Invoke(c) PROVE Promise!Invoke(c)
  <2>1. PICK r \in Requests : req' = [req EXCEPT ![c] = r]
    BY <1>1 DEF Invoke
  <2>2. View(c)' = [state |-> "calling", req |-> r, res |-> Nil]
    BY <1>1, <2>1 DEF Invoke, Goto, View, Decided, Inv, TypeOK
  <2>3. Views' = [Views EXCEPT ![c] = [state |-> "calling", req |-> r, res |-> Nil]]
    BY <1>1, <2>2, OthersKept, ViewsExcept
  <2>4. View(c).state = "idle" /\ m' = m
    BY <1>1 DEF Invoke, View, Decided
  <2>5. \E s \in Requests :
            Views' = [Views EXCEPT ![c] = [state |-> "calling", req |-> s, res |-> Nil]]
    BY <2>3
  <2> QED
    BY <2>4, <2>5 DEF Promise!Invoke, Promise!Calling, Views, View
<1>2. ASSUME NEW c \in Callers, Return(c) PROVE Promise!Return(c)
  <2>1. View(c)' = [state |-> "idle", req |-> Nil, res |-> Nil]
    BY <1>2 DEF Return, Goto, View, Decided, Inv, TypeOK
  <2>2. Views' = [Views EXCEPT ![c] = [state |-> "idle", req |-> Nil, res |-> Nil]]
    BY <1>2, <2>1, OthersKept, ViewsExcept DEF Step
  <2>3. View(c).state = "answered"
    BY <1>2 DEF Return, View, Decided
  <2> QED
    BY <1>2, <2>2, <2>3 DEF Return, Promise!Return, Promise!Idle, Views, View
<1>3. ASSUME NEW c \in Callers, Step(c), View(c)' = View(c), m' = m
      PROVE  UNCHANGED Promise!vars
  <2>1. \A d \in Callers : View(d)' = View(d)
    BY <1>3, OthersKept DEF View, Decided
  <2>2. Views' = Views
    BY <2>1 DEF Views
  <2> QED  BY <1>3, <2>2 DEF Promise!vars, Views, View
<1>4. ASSUME NEW c \in Callers, Lock(c) \/ Unlock(c) PROVE UNCHANGED Promise!vars
  <2>1. m' = m /\ View(c)' = View(c)
    BY <1>4 DEF Lock, Unlock, Goto, View, Decided, Inv, TypeOK
  <2> QED  BY <1>3, <1>4, <2>1 DEF Step
<1>5. ASSUME NEW c \in Callers, Read(c) \/ Check(c) \/ Write(c)
      PROVE  Promise!TakeEffect(c) \/ UNCHANGED Promise!vars
  <2>1. CASE Decided(c)'
    BY <1>5, <2>1, EffectSimulates DEF Step, Read, Check, Write
  <2>2. CASE ~Decided(c)'
    <3>1. m' = m /\ View(c)' = View(c)
      BY <1>5, <2>2 DEF Read, Check, Write, Goto, View, Decided, Inv, TypeOK
    <3> QED  BY <1>3, <1>5, <3>1 DEF Step
  <2> QED  BY <2>1, <2>2
<1>6. CASE UNCHANGED vars
  BY <1>6 DEF vars, Promise!vars, Decided
<1> QED
  BY <1>1, <1>2, <1>4, <1>5, <1>6 DEF Next, Step, Promise!Next

\* The safety part of KeepsPromise: MemUsage implements UsageStore, so every
\* call is one atomic access (memstore.go:53-69 against store.go:27-34).
THEOREM Linearizable == Spec => Promise!Init /\ [][Promise!Next]_(Promise!vars)
<1>1. Init => Promise!Init
  BY DEF Init, Promise!Init, Promise!Idle, Decided
<1> QED  BY <1>1, StepSimulates, InvHolds, PTL DEF Spec
=============================================================================
