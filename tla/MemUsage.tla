------------------------------ MODULE MemUsage ------------------------------
(***************************************************************************)
(* The in-memory UsageStore (entitlement/memstore.go): a map behind a      *)
(* mutex, with every statement of Get and Increment a step of its own, so  *)
(* that callers interleave wherever goroutines can.                        *)
(***************************************************************************)
EXTENDS GoValues

CONSTANTS Callers, Keys, Requests

VARIABLES
    m,        \* the map u.m; a missing entry reads as 0
    mu,       \* who holds the mutex, or Nil
    pc,       \* per caller: where it is in the call
    req,      \* per caller: the arguments of the call
    cur,      \* per caller: the local cur, then the total it returns
    allowed   \* per caller: the boolean it returns

vars == <<m, mu, pc, req, cur, allowed>>

(***************************************************************************)
(* The promise of the interface.  A call has taken effect once its answer  *)
(* is decided, under the lock.                                             *)
(***************************************************************************)
Decided(c) == pc[c] \in {"unlock", "return"}

Promise == INSTANCE UsageStore WITH
    counter <- m,
    call <- [c \in Callers |->
               [state |-> CASE pc[c] = "idle" -> "idle"
                            [] Decided(c) -> "answered"
                            [] OTHER -> "calling",
                req   |-> req[c],
                res   |-> IF Decided(c)
                          THEN [total |-> cur[c], allowed |-> allowed[c]]
                          ELSE Nil]]

Request == Promise!Request

ASSUME RequestsAssumption == Requests \subseteq Request

ASSUME NilAssumption == Nil \notin Callers

TypeOK ==
    /\ m \in [Keys -> Int64]
    /\ mu \in Optional(Callers)
    /\ pc \in [Callers -> {"idle", "lock", "read", "check", "write", "unlock", "return"}]
    /\ req \in [Callers -> Optional(Requests)]
    /\ \A c \in Callers : pc[c] # "idle" => req[c] \in Requests
    /\ cur \in [Callers -> Int64]
    /\ allowed \in [Callers -> BOOLEAN]

Init ==
    /\ m = [k \in Keys |-> 0]
    /\ mu = Nil
    /\ pc = [c \in Callers |-> "idle"]
    /\ req = [c \in Callers |-> Nil]
    /\ cur = [c \in Callers |-> 0]
    /\ allowed = [c \in Callers |-> TRUE]

Goto(c, label) == pc' = [pc EXCEPT ![c] = label]

Invoke(c) ==
    /\ pc[c] = "idle"
    /\ \E r \in Requests : req' = [req EXCEPT ![c] = r]
    /\ Goto(c, "lock")
    /\ UNCHANGED <<m, mu, cur, allowed>>

FreeAlways == TRUE

\* sync.Mutex.Lock
Free == mu = Nil

Lock(c) ==
    /\ pc[c] = "lock"
    /\ Free
    /\ mu' = c
    /\ Goto(c, "read")
    /\ UNCHANGED <<m, req, cur, allowed>>

\* cur := u.m[key]; for Get this is the answer.
Read(c) ==
    /\ pc[c] = "read"
    /\ cur' = [cur EXCEPT ![c] = m[req[c].key]]
    /\ allowed' = [allowed EXCEPT ![c] = TRUE]
    /\ Goto(c, IF req[c].op = "get" THEN "unlock" ELSE "check")
    /\ UNCHANGED <<m, mu, req>>

Plus(a, b) == Wrap(a + b)

ExceedsOnTotal(total, delta, max) == max >= 0 /\ total > max

Exceeds(total, delta, max) == max >= 0 /\ Plus(total, delta) > max

\* if max >= 0 && cur+delta > max { return cur, false, nil }
Check(c) ==
    /\ pc[c] = "check"
    /\ LET refuse == Exceeds(cur[c], req[c].delta, req[c].max)
       IN /\ allowed' = [allowed EXCEPT ![c] = ~refuse]
          /\ Goto(c, IF refuse THEN "unlock" ELSE "write")
    /\ UNCHANGED <<m, mu, req, cur>>

WriteKeyOnly(c) ==
    /\ pc[c] = "write"
    /\ cur' = [cur EXCEPT ![c] = Plus(@, req[c].delta)]
    /\ m' = [m EXCEPT ![req[c].key] = IF @ = 0 THEN Nil ELSE cur'[c]]
    /\ Goto(c, "unlock")
    /\ UNCHANGED <<mu, req, allowed>>

\* cur += delta; u.m[key] = cur
Write(c) ==
    /\ pc[c] = "write"
    /\ LET total == Plus(cur[c], req[c].delta)
       IN /\ cur' = [cur EXCEPT ![c] = total]
          /\ m' = [m EXCEPT ![req[c].key] = total]
    /\ Goto(c, "unlock")
    /\ UNCHANGED <<mu, req, allowed>>

UnlockSkipped(c) ==
    /\ pc[c] = "unlock"
    /\ Goto(c, "return")
    /\ mu' = IF allowed[c] THEN Nil ELSE mu
    /\ UNCHANGED <<m, req, cur, allowed>>

\* The deferred Unlock.
Unlock(c) ==
    /\ pc[c] = "unlock"
    /\ mu' = Nil
    /\ Goto(c, "return")
    /\ UNCHANGED <<m, req, cur, allowed>>

Return(c) ==
    /\ pc[c] = "return"
    /\ Goto(c, "idle")
    /\ req' = [req EXCEPT ![c] = Nil]
    /\ cur' = [cur EXCEPT ![c] = 0]
    /\ allowed' = [allowed EXCEPT ![c] = TRUE]
    /\ UNCHANGED <<m, mu>>

Step(c) == Lock(c) \/ Read(c) \/ Check(c) \/ Write(c) \/ Unlock(c) \/ Return(c)

Next == \E c \in Callers : Invoke(c) \/ Step(c)

(***************************************************************************)
(* A goroutine that can run does run (weak fairness of its steps).  Lock   *)
(* needs strong fairness: sync.Mutex hands itself to a waiter that starved *)
(* for a millisecond, so a waiter is not overtaken for ever.               *)
(***************************************************************************)
Spec ==
    /\ Init /\ [][Next]_vars
    /\ \A c \in Callers : WF_vars(Step(c)) /\ SF_vars(Lock(c))

-----------------------------------------------------------------------------
\* The calls of MemUsage are linearizable, and each one returns: the store
\* keeps the interface's promise (memstore.go:53-69 against store.go:27-34).
KeepsPromise == Promise!Spec

\* However calls interleave, a counter never passes the largest cap it was
\* ever incremented under (memstore.go:63).
CapHeld ==
    \A k \in Keys : \A cap \in 0 .. MaxInt :
        (\A r \in Requests : r.key = k /\ r.op = "increment" => r.max \in 0 .. cap)
            => m[k] <= cap

\* Two calls are never inside the critical section, and what a call read
\* there is still the stored value when it writes (memstore.go:62-67).
FreshUnderLock ==
    \A c \in Callers :
        /\ pc[c] \in {"read", "check", "write", "unlock"} <=> mu = c
        /\ pc[c] \in {"check", "write"} => cur[c] = m[req[c].key]

\* A counter moves only by the delta of a request, to a total within that
\* request's cap (store.go:31-33), counted in mathematical integers.
AddsExactly ==
    [][\A k \in Keys : m'[k] # m[k] =>
          \E r \in Requests :
              /\ r.key = k /\ r.op = "increment"
              /\ m'[k] = m[k] + r.delta
              /\ r.max < 0 \/ m'[k] <= r.max]_m
=============================================================================
