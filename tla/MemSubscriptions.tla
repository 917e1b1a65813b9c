-------------------------- MODULE MemSubscriptions --------------------------
(***************************************************************************)
(* The in-memory SubscriptionStore (entitlement/memstore.go): a map behind *)
(* a sync.RWMutex.  The lock is modelled as Go documents it: writers queue *)
(* for a mutex; the one that has it waits until the readers of the moment  *)
(* have left, while later readers wait for it; its Unlock lets all of them *)
(* in before the next writer.                                              *)
(***************************************************************************)
CONSTANTS Callers, Tenants, Subs, Requests, Nil

VARIABLES
    m,        \* the map s.m; a missing entry is Nil
    writer,   \* the caller that has the writers' mutex, or Nil
    readers,  \* the callers that hold the read lock
    waiting,  \* the readers that wait for the writer
    pc,       \* per caller: where it is in the call
    req,      \* per caller: the arguments of the call
    got       \* per caller: the subscription it returns

vars == <<m, writer, readers, waiting, pc, req, got>>
lock == <<writer, readers, waiting>>

(***************************************************************************)
(* The promise of the interface.  A call has taken effect once it has been *)
(* at the map.                                                             *)
(***************************************************************************)
Done(c) == pc[c] \in {"unlock", "runlock", "return"}

Promise == INSTANCE SubscriptionStore WITH
    stored <- m,
    call <- [c \in Callers |->
               [state |-> CASE pc[c] = "idle" -> "idle"
                            [] Done(c) -> "answered"
                            [] OTHER -> "calling",
                req   |-> req[c],
                got   |-> got[c]]]

ASSUME StoreAssumption ==
    /\ Requests \subseteq Promise!Request
    /\ Nil \notin Callers /\ Nil \notin Subs

Labels == {"idle", "lock", "drain", "rlock", "blocked", "access",
           "unlock", "runlock", "return"}

TypeOK ==
    /\ m \in [Tenants -> Subs \cup {Nil}]
    /\ writer \in Callers \cup {Nil}
    /\ readers \subseteq Callers /\ waiting \subseteq Callers
    /\ pc \in [Callers -> Labels]
    /\ req \in [Callers -> Requests \cup {Nil}]
    /\ \A c \in Callers : pc[c] # "idle" => req[c] \in Requests
    /\ got \in [Callers -> Subs \cup {Nil}]

Init ==
    /\ m = [t \in Tenants |-> Nil]
    /\ writer = Nil /\ readers = {} /\ waiting = {}
    /\ pc = [c \in Callers |-> "idle"]
    /\ req = [c \in Callers |-> Nil]
    /\ got = [c \in Callers |-> Nil]

Goto(c, label) == pc' = [pc EXCEPT ![c] = label]

\* Delete only removes an entry: it would seem that a read lock is enough.
ExclusiveIfSet(op) == op = "set"

\* Set and Delete call Lock, Subscription calls RLock.
Exclusive(op) == op # "subscription"

Invoke(c) ==
    /\ pc[c] = "idle"
    /\ \E r \in Requests :
         /\ req' = [req EXCEPT ![c] = r]
         /\ Goto(c, IF Exclusive(r.op) THEN "lock" ELSE "rlock")
    /\ UNCHANGED <<m, lock, got>>

\* Lock: first the mutex of the writers ...
Announce(c) ==
    /\ pc[c] = "lock"
    /\ writer = Nil
    /\ writer' = c
    /\ Goto(c, "drain")
    /\ UNCHANGED <<m, readers, waiting, req, got>>

\* ... then the end of the readers that were there.
Lock(c) ==
    /\ pc[c] = "drain"
    /\ readers = {}
    /\ Goto(c, "access")
    /\ UNCHANGED <<m, lock, req, got>>

RLock(c) ==
    /\ pc[c] = "rlock"
    /\ \/ writer = Nil /\ readers' = readers \cup {c} /\ Goto(c, "access") /\ UNCHANGED waiting
       \/ writer # Nil /\ waiting' = waiting \cup {c} /\ Goto(c, "blocked") /\ UNCHANGED readers
    /\ UNCHANGED <<m, writer, req, got>>

\* The deferred unlock that belongs to the lock taken.
GotoUnlock(c) == Goto(c, IF c \in readers THEN "runlock" ELSE "unlock")

\* Without !ok, a missing entry would be returned as the zero Subscription.
LookupUnchecked(t) == IF m[t] = Nil THEN "zero" ELSE m[t]

\* sub, ok := s.m[tenantID], where !ok returns ErrNoSubscription
Lookup(t) == m[t]

Read(c) ==
    /\ pc[c] = "access" /\ req[c].op = "subscription"
    /\ got' = [got EXCEPT ![c] = Lookup(req[c].tenant)]
    /\ GotoUnlock(c)
    /\ UNCHANGED <<m, lock, req>>

\* s.m[sub.TenantID] = sub, or delete(s.m, tenantID)
Write(c) ==
    /\ pc[c] = "access" /\ req[c].op # "subscription"
    /\ m' = [m EXCEPT ![req[c].tenant] = req[c].sub]
    /\ GotoUnlock(c)
    /\ UNCHANGED <<lock, req, got>>

\* The deferred Unlock: the readers that waited have the lock.
Unlock(c) ==
    /\ pc[c] = "unlock"
    /\ writer' = Nil
    /\ readers' = readers \cup waiting
    /\ waiting' = {}
    /\ pc' = [d \in Callers |-> IF d = c THEN "return" ELSE IF d \in waiting THEN "access" ELSE pc[d]]
    /\ UNCHANGED <<m, req, got>>

\* Without defer, the early return of ErrNoSubscription would keep the read lock.
RUnlockIfFound(c) ==
    /\ pc[c] = "runlock"
    /\ readers' = IF got[c] = Nil THEN readers ELSE readers \ {c}
    /\ Goto(c, "return")
    /\ UNCHANGED <<m, writer, waiting, req, got>>

\* The deferred RUnlock.
RUnlock(c) ==
    /\ pc[c] = "runlock"
    /\ readers' = readers \ {c}
    /\ Goto(c, "return")
    /\ UNCHANGED <<m, writer, waiting, req, got>>

Return(c) ==
    /\ pc[c] = "return"
    /\ Goto(c, "idle")
    /\ req' = [req EXCEPT ![c] = Nil]
    /\ got' = [got EXCEPT ![c] = Nil]
    /\ UNCHANGED <<m, lock>>

Step(c) ==
    \/ Announce(c) \/ Lock(c) \/ RLock(c)
    \/ Read(c) \/ Write(c)
    \/ Unlock(c) \/ RUnlock(c) \/ Return(c)

Next == \E c \in Callers : Invoke(c) \/ Step(c)

(***************************************************************************)
(* A goroutine that can run does run.  The writers' mutex is a sync.Mutex, *)
(* which starves nobody; nothing stronger is asked for readers, nor for a  *)
(* writer that waits for readers.                                          *)
(***************************************************************************)
Spec ==
    /\ Init /\ [][Next]_vars
    /\ \A c \in Callers : WF_vars(Step(c)) /\ SF_vars(Announce(c))

-----------------------------------------------------------------------------
\* The calls of MemSubscriptions are linearizable, and each one returns, however many
\* readers and writers keep coming (memstore.go:19-41 against store.go:14-18).
KeepsPromise == Promise!Spec

\* While one goroutine changes the map no other is at it (memstore.go:20, 26, 34): Go's
\* maps are not safe for that, and the runtime stops the program that does it.
AtMap(c) == pc[c] = "access"

NoRace ==
    \A c, d \in Callers : c # d /\ AtMap(c) /\ AtMap(d) => req[c].op = "subscription"
=============================================================================
