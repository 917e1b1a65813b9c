---------------------------- MODULE EngineProofs ----------------------------
(***************************************************************************)
(* For every set of callers, snapshots, subscriptions and requests, and    *)
(* every interleaving: the engine is type correct, decides on values       *)
(* current during the call, is atomic unless two of them move, charges     *)
(* once and tells its hooks; no failure of a store turns a feature on, no  *)
(* counter outgrows its limit, and no snapshot that was applied is lost    *)
(* from the trail.                                                         *)
(***************************************************************************)
EXTENDS Engine, TLAPS, FiniteSetTheorems, SequenceTheorems, WellFoundedInduction

Instants == [snap : Snapshots, sub : Optional(Subscriptions), time : Times]

Events == [prev : Snapshots, next : Snapshots]

\* An int64 results whatever is added.
LEMMA WrapType == \A x \in Int : Wrap(x) \in Int64
<1>1. \A a, n \in Int : n > 0 => a % n \in 0 .. (n - 1)
  OBVIOUS
<1>2. MaxInt \in Int /\ MaxInt > 0
  BY MaxIntAssumption
<1> QED  BY <1>1, <1>2 DEF Wrap, Int64

\* A counter stays an int64, whatever the cap.
LEMMA IncrementType ==
    ASSUME NEW total \in Int64, NEW delta \in Int64, NEW max
    PROVE  Increment(total, delta, max) \in Int64
<1>1. total + delta \in Int
  BY MaxIntAssumption DEF Int64
<1> QED  BY <1>1, WrapType DEF Increment

\* What a call observes is an instant.
LEMMA InstantType ==
    ASSUME NEW s \in Snapshots, NEW t \in Times, NEW r \in Requests,
           NEW store \in [Tenants -> Optional(Subscriptions)]
    PROVE  [snap |-> s, sub |-> SubscriptionOf(store, r.ec.tenant), time |-> t] \in Instants
<1>1. r.ec.tenant \in Optional(Tenants)
  BY EngineAssumption
<1>2. SubscriptionOf(store, r.ec.tenant) \in Optional(Subscriptions)
  BY <1>1 DEF SubscriptionOf, Optional
<1> QED  BY <1>2 DEF Instants

\* The subscription a call loads is one, or none.
LEMMA LoadedType ==
    ASSUME NEW r \in Requests, NEW store \in [Tenants -> Optional(Subscriptions)]
    PROVE  Loaded(SubscriptionOf(store, r.ec.tenant)) \in Caches
<1>1. r.ec.tenant \in Optional(Tenants)
  BY EngineAssumption
<1>2. SubscriptionOf(store, r.ec.tenant) \in Optional(Subscriptions)
  BY <1>1 DEF SubscriptionOf, Optional
<1> QED  BY <1>2 DEF Caches

\* Adding to one counter keeps the usage store a map to int64.
LEMMA AddType ==
    ASSUME NEW c \in Callers, TypeOK, pc[c] # "idle", Add(c)
    PROVE  /\ usage' = [k \in DOMAIN usage' |-> usage'[k]]
           /\ \A k \in DOMAIN usage' : usage'[k] \in Int64
           /\ charged' \in [Callers -> Nat]
<1> DEFINE k == meter[c].key
<1>1. Count(usage, k) \in Int64
  BY MaxIntAssumption DEF TypeOK, Count, Int64
<1>2. req[c].n \in Int64
  BY EngineAssumption DEF TypeOK
<1>3. Increment(Count(usage, k), req[c].n, meter[c].max) \in Int64
  BY <1>1, <1>2, IncrementType
<1>4. /\ usage' = [j \in DOMAIN usage' |-> usage'[j]]
      /\ \A j \in DOMAIN usage' : usage'[j] \in Int64
  BY <1>3 DEF Add, TypeOK
<1>5. charged' \in [Callers -> Nat]
  BY DEF Add, TypeOK
<1> QED  BY <1>4, <1>5

-----------------------------------------------------------------------------
\* The initial state is well typed.
LEMMA TypeInit == Init => TypeOK
<1> SUFFICES ASSUME Init PROVE TypeOK
  OBVIOUS
<1>1. snap \in Snapshots /\ clock \in Times /\ edits \in 0 .. MaxEdits
  BY EngineAssumption DEF Init, Times
<1>2. usage = [k \in DOMAIN usage |-> usage[k]] /\ \A k \in DOMAIN usage : usage[k] \in Int64
  BY DEF Init
<1>3. cache \in [Callers -> Caches]
  BY DEF Init, Caches
<1>4. /\ applying \in [Appliers -> Optional(Events)]
      /\ told \in [Appliers -> 0 .. ApplyHooks]
      /\ heard \in [1 .. ApplyHooks -> Seq(Events)]
  BY EngineAssumption DEF Init, Optional
<1> QED  BY <1>1, <1>2, <1>3, <1>4 DEF Init, TypeOK, Optional, Labels, Events

\* A decision step keeps the types of what it writes.
LEMMA DecideType ==
    ASSUME TypeOK, NEW c \in Callers, NEW s, NEW sc, NEW t, Decide(c, s, sc, t)
    PROVE  /\ pc' \in [Callers -> Labels]
           /\ \A d \in Callers : d # c => pc'[d] = pc[d]
           /\ DOMAIN decision' = Callers /\ DOMAIN meter' = Callers
<1>1. /\ pc \in [Callers -> Labels]
      /\ DOMAIN decision = Callers /\ DOMAIN meter = Callers
  BY DEF TypeOK
<1>2. \E label \in Labels : pc' = [pc EXCEPT ![c] = label]
  <2>1. CASE Goto(c, "load_sub")
    BY <2>1 DEF Goto, Labels
  <2>2. ASSUME NEW d, Goto(c, AfterVerdict(req[c], d))
        PROVE  \E label \in Labels : pc' = [pc EXCEPT ![c] = label]
    <3>1. AfterVerdict(req[c], d) \in Labels
      BY DEF AfterVerdict, Labels
    <3> QED  BY <2>2, <3>1 DEF Goto
  <2>3. Goto(c, "load_sub") \/ \E d : Goto(c, AfterVerdict(req[c], d))
    BY DEF Decide
  <2> QED  BY <2>1, <2>2, <2>3
<1>3. /\ decision' = decision \/ \E d : decision' = [decision EXCEPT ![c] = d]
      /\ meter' = meter \/ \E m : meter' = [meter EXCEPT ![c] = m]
  BY DEF Decide
<1>4. DOMAIN decision' = Callers /\ DOMAIN meter' = Callers
  BY <1>1, <1>3
<1> QED  BY <1>1, <1>2, <1>4

\* Observing keeps the type of what callers have seen.
LEMMA ObserveType ==
    ASSUME TypeOK, Observe, req' = req,
           snap' \in Snapshots, clock' \in Times, subs' \in [Tenants -> Optional(Subscriptions)]
    PROVE  seen' \in [Callers -> SUBSET Instants]
<1>1. ASSUME NEW c \in Callers, Evaluating(c) PROVE Instant(c)' \in Instants
  <2>1. req[c] \in Requests
    BY <1>1 DEF Evaluating, TypeOK
  <2> QED  BY <2>1, InstantType DEF Instant
<1>2. seen \in [Callers -> SUBSET Instants]
  BY DEF TypeOK, Instants
<1> QED  BY <1>1, <1>2 DEF Observe

\* Every step keeps the types.
LEMMA TypeStep == TypeOK /\ [Next]_vars => TypeOK'
<1> SUFFICES ASSUME TypeOK, [Next]_vars PROVE TypeOK'
  OBVIOUS
<1>1. ASSUME NEW c \in Callers, Invoke(c) PROVE TypeOK'
  <2>1. PICK r \in Requests : req' = [req EXCEPT ![c] = r]
    BY <1>1 DEF Invoke
  <2>2. Instant(c)' \in Instants
    BY <1>1, <2>1, InstantType DEF Instant, Invoke, TypeOK
  <2>3. seen' \in [Callers -> SUBSET Instants]
    <3>1. seen \in [Callers -> SUBSET Instants]
      BY DEF TypeOK, Instants
    <3>2. seen' = seen \/ seen' = [seen EXCEPT ![c] = {Instant(c)'}]
      BY <1>1 DEF Invoke
    <3> QED  BY <2>2, <3>1, <3>2
  <2>4. pc' \in [Callers -> Labels] /\ DOMAIN decision' = Callers
    BY <1>1 DEF Invoke, TypeOK, Goto, Labels
  <2>5. req' \in [Callers -> Optional(Requests)]
        /\ \A d \in Callers : pc'[d] # "idle" => req'[d] \in Requests
    BY <1>1, <2>1 DEF Invoke, TypeOK, Goto, Optional
  <2> QED  BY <1>1, <2>3, <2>4, <2>5 DEF Invoke, applyVars, TypeOK, Instants
<1>2. ASSUME NEW c \in Callers, LoadSnap(c) PROVE TypeOK'
  BY <1>2 DEF LoadSnap, applyVars, TypeOK, Goto, Labels, Optional
<1>3. ASSUME NEW c \in Callers, ReadClock(c) PROVE TypeOK'
  <2>1. PICK t : Decide(c, view[c], cache[c], t)
    BY <1>3 DEF ReadClock
  <2>2. DOMAIN now' = Callers
    BY <1>3 DEF ReadClock, TypeOK
  <2>3. \A d \in Callers : pc'[d] # "idle" => req[d] \in Requests
    BY <1>3, <2>1, DecideType DEF ReadClock, TypeOK
  <2> QED  BY <1>3, <2>1, <2>2, <2>3, DecideType DEF ReadClock, applyVars, TypeOK
<1>4. ASSUME NEW c \in Callers, LoadSub(c) PROVE TypeOK'
  <2>1. PICK sc \in {Loaded(SubscriptionOf(subs, req[c].ec.tenant)), LoadFailed} :
            cache' = [cache EXCEPT ![c] = sc] /\ Decide(c, view[c], sc, now[c])
    BY <1>4 DEF LoadSub
  <2>2. req[c] \in Requests
    BY <1>4 DEF LoadSub, TypeOK
  <2>3. sc \in Caches
    BY <2>2, LoadedType DEF TypeOK, Caches
  <2>4. cache' \in [Callers -> Caches]
    BY <2>1, <2>3 DEF TypeOK
  <2>5. \A d \in Callers : pc'[d] # "idle" => req[d] \in Requests
    BY <2>1, <2>2, DecideType DEF TypeOK
  <2>6. pc' \in [Callers -> Labels] /\ DOMAIN decision' = Callers /\ DOMAIN meter' = Callers
    BY <2>1, DecideType
  <2>7. UNCHANGED <<snap, subs, usage, clock, edits, seen, applyVars, req, view, now, charged, events>>
    BY <1>4 DEF LoadSub
  <2> QED  BY <2>4, <2>5, <2>6, <2>7 DEF applyVars, TypeOK
<1>5. ASSUME NEW c \in Callers, ChargeAdded(c) \/ ChargeRefused(c) \/ ChargeFailed(c) \/ Get(c)
      PROVE  TypeOK'
  <2>1. PICK d : Finish(c, d)
    BY <1>5 DEF ChargeAdded, ChargeRefused, ChargeFailed, Get
  <2>2. pc[c] # "idle" /\ (Add(c) \/ UNCHANGED <<usage, charged>>)
    BY <1>5 DEF ChargeAdded, ChargeRefused, ChargeFailed, Get
  <2>3. /\ usage' = [k \in DOMAIN usage' |-> usage'[k]]
        /\ \A k \in DOMAIN usage' : usage'[k] \in Int64
        /\ charged' \in [Callers -> Nat]
    BY <2>2, AddType DEF TypeOK
  <2>4. /\ pc' \in [Callers -> Labels] /\ DOMAIN decision' = Callers
        /\ seen' \in [Callers -> SUBSET Instants]
        /\ \A e \in Callers : pc'[e] # "idle" => pc[e] # "idle"
    BY <2>1, <2>2 DEF Finish, TypeOK, Goto, Labels, Instants
  <2>5. UNCHANGED <<snap, subs, clock, edits, applyVars, req, view, now, cache, meter, events>>
    BY <1>5 DEF ChargeAdded, ChargeRefused, ChargeFailed, Get
  <2> QED  BY <2>3, <2>4, <2>5 DEF applyVars, TypeOK, Instants
<1>6. ASSUME NEW c \in Callers, FireHook(c) PROVE TypeOK'
  BY <1>6 DEF FireHook, applyVars, TypeOK
<1>7. ASSUME NEW c \in Callers, Return(c) PROVE TypeOK'
  <2>1. cache' \in [Callers -> Caches]
    BY <1>7 DEF Return, CacheForNextCall, Caches, TypeOK
  <2> QED  BY <1>7, <2>1 DEF Return, applyVars, TypeOK, Goto, Labels, Optional
<1>8. ASSUME NEW a \in Appliers, Apply(a) PROVE TypeOK'
  <2>1. PICK s \in Snapshots : snap' = s /\ applying' = [applying EXCEPT ![a] = Event(snap, s)]
    BY <1>8 DEF Apply
  <2>2. seen' \in [Callers -> SUBSET Instants]
    BY <1>8, <2>1, ObserveType DEF Apply, callVars, TypeOK
  <2>3. edits' \in 0 .. MaxEdits
    BY <1>8, EngineAssumption DEF Apply, TypeOK
  <2>4. applying' \in [Appliers -> Optional(Events)]
    BY <2>1 DEF Event, Events, Optional, TypeOK
  <2> QED  BY <1>8, <2>1, <2>2, <2>3, <2>4 DEF Apply, callVars, TypeOK, Instants, Events
<1>9. ASSUME NEW a \in Appliers, TellHook(a) PROVE TypeOK'
  <2>1. applying[a] \in Events /\ told[a] + 1 \in 1 .. ApplyHooks
    BY <1>9, EngineAssumption DEF TellHook, TypeOK, Optional, Events
  <2> DEFINE h == told[a] + 1
  <2>a. heard \in [1 .. ApplyHooks -> Seq(Events)]
    BY DEF TypeOK, Events
  <2>b. Append(heard[h], applying[a]) \in Seq(Events)
    BY <2>1, <2>a
  <2>c. heard' = [heard EXCEPT ![h] = Append(@, applying[a])]
    BY <1>9 DEF TellHook
  <2>2. heard' \in [1 .. ApplyHooks -> Seq(Events)]
    <3> HIDE DEF h
    <3> QED  BY <2>a, <2>b, <2>c
  <2>3. told' \in [Appliers -> 0 .. ApplyHooks]
    BY <1>9, <2>1, EngineAssumption DEF TellHook, TypeOK
  <2>4. UNCHANGED <<snap, subs, usage, clock, edits, callVars, seen, applying>>
    BY <1>9 DEF TellHook
  <2> HIDE DEF h
  <2> QED  BY <2>2, <2>3, <2>4 DEF callVars, TypeOK, Events
<1>10. ASSUME NEW a \in Appliers, ApplyReturn(a) PROVE TypeOK'
  <2>1. applying' \in [Appliers -> Optional(Events)]
    BY <1>10 DEF ApplyReturn, TypeOK, Optional, Events
  <2>2. told' \in [Appliers -> 0 .. ApplyHooks]
    BY <1>10, EngineAssumption DEF ApplyReturn, TypeOK
  <2>3. UNCHANGED <<snap, subs, usage, clock, edits, callVars, seen, heard>>
    BY <1>10 DEF ApplyReturn
  <2> QED  BY <2>1, <2>2, <2>3 DEF callVars, TypeOK, Events
<1>11. ASSUME NEW t \in Tenants, NEW s \in Optional(Subscriptions), Store(t, s) PROVE TypeOK'
  <2>1. subs' \in [Tenants -> Optional(Subscriptions)]
    BY <1>11 DEF Store, TypeOK
  <2>2. seen' \in [Callers -> SUBSET Instants]
    BY <1>11, <2>1, ObserveType DEF Store, callVars, TypeOK
  <2>3. edits' \in 0 .. MaxEdits
    BY <1>11, EngineAssumption DEF Store, TypeOK
  <2> QED  BY <1>11, <2>1, <2>2, <2>3 DEF Store, callVars, applyVars, TypeOK, Instants
<1>12. ASSUME Tick PROVE TypeOK'
  <2>1. clock' \in Times
    BY <1>12, EngineAssumption DEF Tick, TypeOK, Times
  <2>2. seen' \in [Callers -> SUBSET Instants]
    BY <1>12, <2>1, ObserveType DEF Tick, callVars, TypeOK
  <2> QED  BY <1>12, <2>1, <2>2 DEF Tick, callVars, applyVars, TypeOK, Instants
<1>13. CASE UNCHANGED vars
  BY <1>13 DEF vars, callVars, applyVars, TypeOK
<1> QED  BY <1>1, <1>2, <1>3, <1>4, <1>5, <1>6, <1>7, <1>8, <1>9, <1>10, <1>11, <1>12, <1>13
         DEF Next, Step

\* The type invariant: counters stay int64 whatever is added, and a caller
\* inside a call holds one of the requests.
THEOREM TypeCorrect == Spec => []TypeOK
BY TypeInit, TypeStep, PTL DEF Spec

-----------------------------------------------------------------------------
(***************************************************************************)
(* The inductive invariant behind ReadsCurrent and AtomicUnlessTwoMove.    *)
(* What is current now has been seen by every caller that still evaluates, *)
(* so each value it has read, and each one it will read, is among the      *)
(* instants seen; the subscription cache is empty until it is loaded.      *)
(***************************************************************************)
Reads(c) ==
    /\ pc[c] = "idle" => seen[c] = {}
    /\ pc[c] \in {"idle", "load_snap", "read_clock"} => cache[c] = NotLoaded
    /\ Evaluating(c) => Instant(c) \in seen[c]
    /\ pc[c] \in {"read_clock", "load_sub"} => \E i \in seen[c] : view[c] = i.snap
    /\ pc[c] = "load_sub" => \E i \in seen[c] : now[c] = TimeOf(req[c], i)

Verdict(c) ==
    Decided(c) =>
        /\ \E i \in seen[c] : view[c] = i.snap
        /\ \E i \in seen[c] : now[c] = TimeOf(req[c], i)
        /\ cache[c] \in {NotLoaded, LoadFailed} \cup {Loaded(i.sub) : i \in seen[c]}
        /\ decision[c] = Evaluate(Contents[view[c]], req[c].key, req[c].ec, cache[c], now[c])
        /\ ~IsSuspended(decision[c])
        /\ decision[c].enabled => meter[c] = Meter(decision[c], req[c].ec, cache[c], now[c])

CurrentInv == \A c \in Callers : Reads(c) /\ Verdict(c)

\* A caller whose own state, and what it reads, stay the same.
LEMMA CurrentFrame ==
    ASSUME NEW d \in Callers, Reads(d), Verdict(d), UNCHANGED <<snap, subs, clock>>,
           pc'[d] = pc[d], req'[d] = req[d], view'[d] = view[d], now'[d] = now[d],
           cache'[d] = cache[d], decision'[d] = decision[d], meter'[d] = meter[d],
           seen'[d] = seen[d]
    PROVE  Reads(d)' /\ Verdict(d)'
<1>1. Reads(d)'
  BY DEF Reads, Evaluating, Instant, TimeOf
<1>2. Verdict(d)'
  BY DEF Verdict, Decided, TimeOf
<1> QED  BY <1>1, <1>2

\* When the world moves, evaluating callers see it and others do not care.
LEMMA CurrentObserve ==
    ASSUME TypeOK, NEW d \in Callers, Reads(d), Verdict(d), Observe,
           UNCHANGED callVars
    PROVE  Reads(d)' /\ Verdict(d)'
<1>1. seen'[d] = IF Evaluating(d) THEN seen[d] \cup {Instant(d)'} ELSE seen[d]
  BY DEF Observe
<1>2. /\ pc'[d] = pc[d] /\ req'[d] = req[d] /\ view'[d] = view[d] /\ now'[d] = now[d]
      /\ cache'[d] = cache[d] /\ decision'[d] = decision[d] /\ meter'[d] = meter[d]
  BY DEF callVars
<1>3. Reads(d)'
  BY <1>1, <1>2 DEF Reads, Evaluating, TimeOf
<1>4. Verdict(d)'
  BY <1>1, <1>2 DEF Verdict, Decided, Evaluating, TimeOf
<1> QED  BY <1>3, <1>4

\* Deciding on a snapshot, a time and a subscription cache that the caller has
\* just noted.
LEMMA CurrentDecide ==
    ASSUME TypeOK, NEW c \in Callers, Decide(c, view[c], cache'[c], now'[c]), Evaluating(c),
           UNCHANGED <<snap, subs, clock, seen, req, view>>, Instant(c) \in seen[c],
           \E i \in seen[c] : view[c] = i.snap,
           \E i \in seen[c] : now'[c] = TimeOf(req[c], i),
           cache'[c] \in {NotLoaded, LoadFailed} \cup {Loaded(i.sub) : i \in seen[c]}
    PROVE  Reads(c)' /\ Verdict(c)'
<1> DEFINE d == Evaluate(Contents[view[c]], req[c].key, req[c].ec, cache'[c], now'[c])
<1>1. CASE IsSuspended(d)
  <2>1. pc'[c] = "load_sub"
    BY <1>1 DEF Decide, Goto, TypeOK
  <2>2. Instant(c)' = Instant(c)
    BY DEF Instant
  <2> QED  BY <2>1, <2>2 DEF Reads, Verdict, Decided, Evaluating, TimeOf
<1>2. CASE ~IsSuspended(d)
  <2>1. /\ pc'[c] = AfterVerdict(req[c], d) /\ decision'[c] = d
        /\ d.enabled => meter'[c] = Meter(d, req[c].ec, cache'[c], now'[c])
    <3> HIDE DEF d
    <3>1. /\ Goto(c, AfterVerdict(req[c], d))
          /\ decision' = [decision EXCEPT ![c] = d]
          /\ meter' = [meter EXCEPT ![c] =
                        IF d.enabled THEN Meter(d, req[c].ec, cache'[c], ChargedTime(now'[c]))
                        ELSE Nil]
      BY <1>2 DEF Decide, d
    <3> QED  BY <3>1 DEF Goto, ChargedTime, TypeOK
  <2>2. pc'[c] \in {"hooks", "charge", "get"}
    BY <2>1 DEF AfterVerdict
  <2>3. Reads(c)'
    BY <2>2 DEF Reads, Evaluating
  <2>4. Verdict(c)'
    <3> HIDE DEF d
    <3>1. decision'[c] = Evaluate(Contents[view[c]], req[c].key, req[c].ec, cache'[c], now'[c])
      BY <2>1 DEF d
    <3> QED  BY <1>2, <2>1, <3>1 DEF Verdict, TimeOf
  <2> QED  BY <2>3, <2>4
<1> QED  BY <1>1, <1>2

\* A step of one caller leaves the state of every other as it was.
LEMMA OthersKept ==
    ASSUME TypeOK, NEW c \in Callers, NEW d \in Callers, d # c, Step(c)
    PROVE  /\ UNCHANGED <<snap, subs, clock>>
           /\ pc'[d] = pc[d] /\ req'[d] = req[d] /\ view'[d] = view[d] /\ now'[d] = now[d]
           /\ cache'[d] = cache[d] /\ decision'[d] = decision[d] /\ meter'[d] = meter[d]
           /\ seen'[d] = seen[d] /\ charged'[d] = charged[d] /\ events'[d] = events[d]
<1> USE DEF TypeOK, Goto
<1>1. CASE Invoke(c)
  BY <1>1 DEF Invoke
<1>2. CASE LoadSnap(c)
  BY <1>2 DEF LoadSnap
<1>3. CASE ReadClock(c)
  BY <1>3 DEF ReadClock, Decide
<1>4. CASE LoadSub(c)
  BY <1>4 DEF LoadSub, Decide
<1>5. CASE ChargeAdded(c)
  BY <1>5 DEF ChargeAdded, Add, Finish
<1>6. CASE ChargeRefused(c)
  BY <1>6 DEF ChargeRefused, Finish
<1>7. CASE ChargeFailed(c)
  BY <1>7 DEF ChargeFailed, Add, Finish
<1>8. CASE Get(c)
  BY <1>8 DEF Get, Finish
<1>9. CASE FireHook(c)
  BY <1>9 DEF FireHook
<1>10. CASE Return(c)
  BY <1>10 DEF Return
<1> QED  BY <1>1, <1>2, <1>3, <1>4, <1>5, <1>6, <1>7, <1>8, <1>9, <1>10 DEF Step

\* Initially nothing has been read.
LEMMA CurrentInit == Init => CurrentInv
BY DEF Init, CurrentInv, Reads, Verdict, Evaluating, Decided

\* Every step keeps what callers have read among what they have seen.
LEMMA CurrentStep == TypeOK /\ CurrentInv /\ [Next]_vars => CurrentInv'
<1> SUFFICES ASSUME TypeOK, CurrentInv, [Next]_vars PROVE CurrentInv'
  OBVIOUS
<1>a. ASSUME NEW c \in Callers, Step(c), Reads(c)' /\ Verdict(c)'
      PROVE  CurrentInv'
  <2>1. ASSUME NEW d \in Callers, d # c PROVE Reads(d)' /\ Verdict(d)'
    BY <1>a, <2>1, OthersKept, CurrentFrame DEF CurrentInv
  <2> QED  BY <1>a, <2>1 DEF CurrentInv
<1>1. ASSUME NEW c \in Callers, Invoke(c) PROVE Reads(c)' /\ Verdict(c)'
  <2>1. Reads(c)
    BY DEF CurrentInv
  <2>2. CASE pc'[c] = "load_snap"
    <3>1. seen'[c] = {Instant(c)'} /\ cache'[c] = NotLoaded
      BY <1>1, <2>1, <2>2 DEF Invoke, Reads, Goto, TypeOK
    <3> QED  BY <2>2, <3>1 DEF Reads, Verdict, Evaluating, Decided
  <2>3. CASE pc'[c] = "hooks"
    <3>1. seen'[c] = {}
      BY <1>1, <2>1, <2>3 DEF Invoke, Reads, Goto, TypeOK
    <3> QED  BY <2>3, <3>1 DEF Reads, Verdict, Evaluating, Decided
  <2> QED  BY <1>1, <2>2, <2>3 DEF Invoke, Goto, TypeOK
<1>2. ASSUME NEW c \in Callers, LoadSnap(c) PROVE Reads(c)' /\ Verdict(c)'
  <2>1. Instant(c) \in seen[c] /\ cache[c] = NotLoaded
    BY <1>2 DEF CurrentInv, Reads, LoadSnap, Evaluating
  <2>2. Instant(c).snap = snap
    BY DEF Instant
  <2>3. pc'[c] = "read_clock" /\ view'[c] = Instant(c).snap
    BY <1>2, <2>2 DEF LoadSnap, Goto, TypeOK
  <2>4. Instant(c)' = Instant(c) /\ seen' = seen /\ cache' = cache
    BY <1>2 DEF LoadSnap, Instant
  <2> QED  BY <2>1, <2>3, <2>4 DEF Reads, Verdict, Evaluating, Decided
<1>3. ASSUME NEW c \in Callers, ReadClock(c) PROVE Reads(c)' /\ Verdict(c)'
  <2>1. /\ Evaluating(c) /\ Instant(c) \in seen[c] /\ cache[c] = NotLoaded
        /\ \E i \in seen[c] : view[c] = i.snap
    BY <1>3 DEF CurrentInv, Reads, ReadClock, Evaluating
  <2>2. Instant(c).time = clock
    BY DEF Instant
  <2>3. now'[c] = TimeOf(req[c], Instant(c)) /\ cache'[c] = NotLoaded
    BY <1>3, <2>1, <2>2 DEF ReadClock, TimeOf, TypeOK
  <2>4. Decide(c, view[c], cache'[c], now'[c])
    BY <1>3, <2>3 DEF ReadClock, TypeOK
  <2> QED  BY <1>3, <2>1, <2>3, <2>4, CurrentDecide DEF ReadClock
<1>4. ASSUME NEW c \in Callers, LoadSub(c) PROVE Reads(c)' /\ Verdict(c)'
  <2>1. /\ Evaluating(c) /\ Instant(c) \in seen[c]
        /\ \E i \in seen[c] : view[c] = i.snap
        /\ \E i \in seen[c] : now[c] = TimeOf(req[c], i)
    BY <1>4 DEF CurrentInv, Reads, LoadSub, Evaluating
  <2>2. Instant(c).sub = SubscriptionOf(subs, req[c].ec.tenant)
    BY DEF Instant
  <2>3. cache'[c] \in {LoadFailed} \cup {Loaded(i.sub) : i \in seen[c]}
    BY <1>4, <2>1, <2>2 DEF LoadSub, TypeOK
  <2>4. Decide(c, view[c], cache'[c], now'[c])
    BY <1>4 DEF LoadSub, TypeOK
  <2> QED  BY <1>4, <2>1, <2>3, <2>4, CurrentDecide DEF LoadSub
<1>5. ASSUME NEW c \in Callers, ChargeAdded(c) \/ ChargeRefused(c) \/ ChargeFailed(c) \/ Get(c)
      PROVE  Reads(c)' /\ Verdict(c)'
  <2>1. PICK d : Finish(c, d)
    BY <1>5 DEF ChargeAdded, ChargeRefused, ChargeFailed, Get
  <2>2. pc'[c] = "hooks" /\ seen'[c] = {}
    BY <2>1 DEF Finish, Goto, TypeOK
  <2> QED  BY <2>2 DEF Reads, Verdict, Evaluating, Decided
<1>6. ASSUME NEW c \in Callers, FireHook(c) PROVE Reads(c)' /\ Verdict(c)'
  BY <1>6, CurrentFrame DEF FireHook, CurrentInv
<1>7. ASSUME NEW c \in Callers, Return(c) PROVE Reads(c)' /\ Verdict(c)'
  <2>1. pc'[c] = "idle" /\ seen'[c] = {} /\ cache'[c] = NotLoaded
    BY <1>7 DEF Return, CacheForNextCall, Goto, TypeOK
  <2> QED  BY <2>1 DEF Reads, Verdict, Evaluating, Decided
<1>8. CASE (\E a \in Appliers : Apply(a)) \/ Tick
            \/ (\E t \in Tenants, s \in Optional(Subscriptions) : Store(t, s))
  <2>1. Observe /\ UNCHANGED callVars
    BY <1>8 DEF Apply, Store, Tick
  <2> QED  BY <2>1, CurrentObserve DEF CurrentInv
<1>9. CASE (\E a \in Appliers : TellHook(a) \/ ApplyReturn(a)) \/ UNCHANGED vars
  <2>1. UNCHANGED <<snap, subs, clock, callVars, seen>>
    BY <1>9 DEF TellHook, ApplyReturn, vars
  <2> QED  BY <2>1, CurrentFrame DEF CurrentInv, callVars
<1>10. ASSUME NEW c \in Callers, Step(c) PROVE  CurrentInv'
  <2>1. Reads(c)' /\ Verdict(c)'
    BY <1>1, <1>2, <1>3, <1>4, <1>5, <1>6, <1>7, <1>10 DEF Step
  <2> QED  BY <1>a, <1>10, <2>1
<1> QED  BY <1>8, <1>9, <1>10 DEF Next

\* Decisions are made on what was current during the call: for any number of
\* callers, appliers and tenants, and any pipeline.
THEOREM ReadsCurrentHolds == Spec => []ReadsCurrent
<1>1. CurrentInv => ReadsCurrent
  BY DEF CurrentInv, Verdict, ReadsCurrent
<1>2. Init => TypeOK /\ CurrentInv
  BY TypeInit, CurrentInit
<1>3. TypeOK /\ CurrentInv /\ [Next]_vars => (TypeOK /\ CurrentInv)'
  BY TypeStep, CurrentStep
<1> QED  BY <1>1, <1>2, <1>3, PTL DEF Spec

-----------------------------------------------------------------------------
(***************************************************************************)
(* The pipeline as a function.  Evaluate recurs along the prerequisites,   *)
(* whose chains end in a validated snapshot: v is a solution on the        *)
(* features K when it decides each from what it decides before it.  What   *)
(* the three theorems below say of Evaluate the engine relies on.          *)
(***************************************************************************)
IsClosed(features, K) ==
    /\ K \in SUBSET DOMAIN features
    /\ \A k \in K : \A i \in DOMAIN features[k].dependsOn : features[k].dependsOn[i] \in K

Solves(v, K, content, ec, sc, t) ==
    v = [k \in K |-> EvaluateFeature(content, k, ec, sc, t, Prerequisites(content, k, v))]

\* The decisions on all features at once.
Verdicts(content, ec, sc, t) ==
    LET verdict[k \in DOMAIN content.features] ==
            EvaluateFeature(content, k, ec, sc, t, Prerequisites(content, k, verdict))
    IN verdict

\* Two solutions agree where both are defined: a smallest feature on which
\* they differ would have prerequisites on which they agree.
LEMMA SolutionsAgree ==
    ASSUME NEW content, NEW ec, NEW sc, NEW t, ValidPrerequisites(content.features),
           NEW K, NEW L, IsClosed(content.features, K), IsClosed(content.features, L),
           NEW v, NEW w, Solves(v, K, content, ec, sc, t), Solves(w, L, content, ec, sc, t)
    PROVE  \A k \in K \cap L : v[k] = w[k]
<1> DEFINE B == {k \in K \cap L : v[k] # w[k]}
           D == DOMAIN content.features
           Needs(k) == content.features[k].dependsOn
<1> SUFFICES ASSUME B # {} PROVE FALSE
  OBVIOUS
<1>1. B \in (SUBSET D) \ {{}}
  BY DEF IsClosed
<1>2. PICK k \in B : \A i \in DOMAIN Needs(k) : Needs(k)[i] \notin B
  BY <1>1 DEF ValidPrerequisites
<1>3. \A i \in DOMAIN Needs(k) : Needs(k)[i] \in K \cap L
  BY DEF IsClosed
<1>4. Prerequisites(content, k, v) = Prerequisites(content, k, w)
  BY <1>2, <1>3 DEF Prerequisites
<1>5. /\ v[k] = EvaluateFeature(content, k, ec, sc, t, Prerequisites(content, k, v))
      /\ w[k] = EvaluateFeature(content, k, ec, sc, t, Prerequisites(content, k, w))
  BY DEF Solves
<1> QED  BY <1>4, <1>5

\* All features can be decided: the union of the sets that can is one of
\* them, and a smallest feature beyond it could be added.
LEMMA SolutionExists ==
    ASSUME NEW content, NEW ec, NEW sc, NEW t, ValidPrerequisites(content.features)
    PROVE  \E v : Solves(v, DOMAIN content.features, content, ec, sc, t)
<1> DEFINE D == DOMAIN content.features
           Needs(k) == content.features[k].dependsOn
           Solved(v, K) == Solves(v, K, content, ec, sc, t)
           F(k, v) == EvaluateFeature(content, k, ec, sc, t, Prerequisites(content, k, v))
           Family == {K \in SUBSET D : IsClosed(content.features, K) /\ \E v : Solved(v, K)}
           U == UNION Family
           Solution(K) == CHOOSE v : Solved(v, K)
           Home(k) == CHOOSE K \in Family : k \in K
           u == [k \in U |-> Solution(Home(k))[k]]
<1>1. \A K \in Family : IsClosed(content.features, K) /\ Solved(Solution(K), K)
  OBVIOUS
<1>2. \A k \in U : Home(k) \in Family /\ k \in Home(k)
  OBVIOUS
<1> HIDE DEF Solution, Home
<1>3. ASSUME NEW K \in Family, NEW k \in K PROVE u[k] = Solution(K)[k]
  <2>1. k \in U /\ Home(k) \in Family /\ k \in Home(k)
    BY <1>2
  <2> HIDE DEF Family
  <2>2. Solution(Home(k))[k] = Solution(K)[k]
    BY <1>1, <2>1, SolutionsAgree
  <2> QED  BY <2>1, <2>2
<1>4. IsClosed(content.features, U)
  BY <1>1 DEF IsClosed
<1> HIDE DEF Family
<1>5. Solved(u, U)
  <2>1. ASSUME NEW k \in U PROVE u[k] = F(k, u)
    <3> DEFINE H == Home(k)
    <3>1. H \in Family /\ k \in H
      BY <1>2
    <3>2. IsClosed(content.features, H) /\ Solved(Solution(H), H)
      BY <1>1, <3>1
    <3> HIDE DEF H, u
    <3>3. Prerequisites(content, k, u) = Prerequisites(content, k, Solution(H))
      <4>1. \A i \in DOMAIN Needs(k) : Needs(k)[i] \in H
        BY <3>1, <3>2 DEF IsClosed
      <4>2. \A i \in DOMAIN Needs(k) : u[Needs(k)[i]] = Solution(H)[Needs(k)[i]]
        BY <1>3, <3>1, <4>1
      <4> QED  BY <4>2 DEF Prerequisites
    <3>4. Solution(H)[k] = F(k, Solution(H))
      BY <3>1, <3>2 DEF Solves
    <3> QED  BY <1>3, <3>1, <3>3, <3>4
  <2>2. u = [k \in U |-> u[k]]
    OBVIOUS
  <2> HIDE DEF u, U, F
  <2>3. u = [k \in U |-> F(k, u)]
    BY <2>1, <2>2
  <2> QED  BY <2>3 DEF Solves, F
<1>6. U = D
  <2> SUFFICES ASSUME U # D PROVE FALSE
    OBVIOUS
  <2>1. D \ U \in (SUBSET D) \ {{}}
    BY <1>4 DEF IsClosed
  <2>2. PICK k \in D \ U : \A i \in DOMAIN Needs(k) : Needs(k)[i] \notin D \ U
    BY <2>1 DEF ValidPrerequisites
  <2>3. ASSUME NEW i \in DOMAIN Needs(k) PROVE Needs(k)[i] \in U
    <3>1. Needs(k) \in Seq(D)
      BY DEF ValidPrerequisites
    <3>2. Needs(k)[i] \in D
      BY <3>1
    <3> QED  BY <2>2, <3>2
  <2> HIDE DEF u
  <2> DEFINE L == U \cup {k}
             w == [j \in L |-> IF j = k THEN F(k, u) ELSE u[j]]
  <2>4. IsClosed(content.features, L)
    BY <1>4, <2>3 DEF IsClosed
  <2>5. \A j \in U : w[j] = u[j]
    BY <2>2
  <2>6. w[k] = F(k, u)
    OBVIOUS
  <2>7. w = [j \in L |-> w[j]]
    OBVIOUS
  <2> HIDE DEF w
  <2>8. ASSUME NEW j \in L PROVE w[j] = F(j, w)
    <3>1. \A i \in DOMAIN Needs(j) : Needs(j)[i] \in U
      BY <1>4, <2>3 DEF IsClosed
    <3>2. Prerequisites(content, j, w) = Prerequisites(content, j, u)
      BY <2>5, <3>1 DEF Prerequisites
    <3>3. j \in U => u[j] = F(j, u)
      BY <1>5 DEF Solves
    <3> QED  BY <2>5, <2>6, <3>2, <3>3
  <2>9. Solved(w, L)
    <3> HIDE DEF L, F
    <3>1. w = [j \in L |-> F(j, w)]
      BY <2>7, <2>8
    <3> QED  BY <3>1 DEF Solves, F
  <2>10. L \in Family
    BY <2>4, <2>9 DEF Family, IsClosed
  <2> QED  BY <2>2, <2>10
<1> QED  BY <1>5, <1>6

\* Evaluate decides each feature from what it decides on its prerequisites.
LEMMA Unfold ==
    ASSUME NEW content, NEW ec, NEW sc, NEW t, ValidPrerequisites(content.features),
           NEW k \in DOMAIN content.features
    PROVE  /\ Evaluate(content, k, ec, sc, t) = Verdicts(content, ec, sc, t)[k]
           /\ Verdicts(content, ec, sc, t)[k]
                = EvaluateFeature(content, k, ec, sc, t,
                                  Prerequisites(content, k, Verdicts(content, ec, sc, t)))
<1> DEFINE D == DOMAIN content.features
           verdict[j \in D] == EvaluateFeature(content, j, ec, sc, t, Prerequisites(content, j, verdict))
<1>1. PICK v : Solves(v, D, content, ec, sc, t)
  BY SolutionExists
<1>2. verdict = [j \in D |-> EvaluateFeature(content, j, ec, sc, t, Prerequisites(content, j, verdict))]
  BY <1>1 DEF Solves
<1>3. Verdicts(content, ec, sc, t) = verdict
  BY DEF Verdicts, verdict
<1>4. Evaluate(content, k, ec, sc, t) = verdict[k]
  BY DEF Evaluate, verdict
<1> HIDE DEF verdict
<1>5. verdict[k] = EvaluateFeature(content, k, ec, sc, t, Prerequisites(content, k, verdict))
  BY <1>2
<1> QED  BY <1>3, <1>4, <1>5

-----------------------------------------------------------------------------
\* Every set of naturals has a least element.
LEMMA Least ==
    ASSUME NEW S \in SUBSET Nat, S # {}
    PROVE  \E n \in S : \A m \in S : n <= m
<1> DEFINE R == OpToRel(<, Nat)
<1>1. IsWellFoundedOn(R, Nat)
  BY NatLessThanWellFounded, Zenon
<1>2. \A m, n \in Nat : m < n => <<m, n>> \in R
  BY DEF OpToRel
<1> HIDE DEF R
<1>3. PICK n \in S : \A m \in S : ~ (<<m, n>> \in R)
  BY <1>1, WFMin, Zenon
<1>4. ASSUME NEW m \in S PROVE n <= m
  <2>1. m \in Nat /\ n \in Nat
    OBVIOUS
  <2>2. ~(m < n)
    BY <2>1, <1>2, <1>3
  <2> QED BY <2>1, <2>2
<1> QED BY <1>4

\* The place of the first decision that is off, or 0.
FirstOff(pre) == SelectInSeq(pre, LAMBDA d : ~d.enabled)

\* What FirstOff finds, and where it finds it.
LEMMA FirstOffIs ==
    ASSUME NEW S, NEW pre \in Seq(S)
    PROVE  /\ FirstOff(pre) = 0 => \A i \in DOMAIN pre : pre[i].enabled
           /\ FirstOff(pre) # 0 =>
                /\ FirstOff(pre) \in DOMAIN pre
                /\ ~pre[FirstOff(pre)].enabled
                /\ \A i \in DOMAIN pre : i < FirstOff(pre) => pre[i].enabled
           /\ \A n \in DOMAIN pre :
                ~pre[n].enabled /\ (\A i \in DOMAIN pre : i < n => pre[i].enabled)
                  => FirstOff(pre) = n
           /\ (\A i \in DOMAIN pre : pre[i].enabled) => FirstOff(pre) = 0
<1> DEFINE I == {i \in 1 .. Len(pre) : ~pre[i].enabled}
<1>1. Len(pre) \in Nat /\ DOMAIN pre = 1 .. Len(pre)
  BY LenProperties
<1>2. FirstOff(pre) = IF I # {} THEN Min(I) ELSE 0
  BY DEF FirstOff, SelectInSeq
<1>3. /\ \A i \in DOMAIN pre : i \in Nat \ {0}
      /\ \A i \in I : i \in DOMAIN pre
  BY <1>1
<1>4. I # {} => Min(I) \in I /\ \A i \in I : Min(I) <= i
  <2> SUFFICES ASSUME I # {} PROVE Min(I) \in I /\ \A i \in I : Min(I) <= i
    OBVIOUS
  <2> HIDE DEF I
  <2>1. I \in SUBSET Nat
    BY <1>3
  <2>2. PICK m \in I : \A i \in I : m <= i
    <3>1. PICK n \in I : TRUE
      OBVIOUS
    <3> QED  BY <2>1, Least
  <2> QED  BY <2>2 DEF Min
<1>5. FirstOff(pre) = 0 => I = {}
  BY <1>1, <1>2, <1>3, <1>4
<1>6. \A i \in DOMAIN pre : i \in I <=> ~pre[i].enabled
  BY <1>1
<1> HIDE DEF I
<1>7. FirstOff(pre) # 0 =>
        /\ FirstOff(pre) \in I
        /\ \A i \in I : FirstOff(pre) <= i
  BY <1>2, <1>4
<1>8. ASSUME NEW n \in I, \A i \in DOMAIN pre : i < n => i \notin I
      PROVE  FirstOff(pre) = n
  <2>1. FirstOff(pre) \in I /\ FirstOff(pre) <= n
    BY <1>2, <1>4
  <2>2. FirstOff(pre) \in DOMAIN pre /\ FirstOff(pre) \in Nat /\ n \in Nat
    BY <1>3, <2>1
  <2>3. ~(FirstOff(pre) < n)
    BY <1>8, <2>1, <2>2
  <2> QED  BY <2>1, <2>2, <2>3
<1>9. I = {} => FirstOff(pre) = 0
  BY <1>2
<1>10. FirstOff(pre) = 0 => \A i \in DOMAIN pre : pre[i].enabled
  BY <1>5, <1>6
<1>11. FirstOff(pre) # 0 =>
         /\ FirstOff(pre) \in DOMAIN pre
         /\ ~pre[FirstOff(pre)].enabled
         /\ \A i \in DOMAIN pre : i < FirstOff(pre) => pre[i].enabled
  <2> SUFFICES ASSUME FirstOff(pre) # 0
               PROVE  /\ FirstOff(pre) \in DOMAIN pre
                      /\ ~pre[FirstOff(pre)].enabled
                      /\ \A i \in DOMAIN pre : i < FirstOff(pre) => pre[i].enabled
    OBVIOUS
  <2>1. FirstOff(pre) \in I /\ FirstOff(pre) \in DOMAIN pre
    BY <1>3, <1>7
  <2>2. \A i \in DOMAIN pre : i < FirstOff(pre) => i \notin I
    BY <1>3, <1>7, <2>1
  <2> QED  BY <1>6, <2>1, <2>2
<1>12. \A n \in DOMAIN pre :
          ~pre[n].enabled /\ (\A i \in DOMAIN pre : i < n => pre[i].enabled)
             => FirstOff(pre) = n
  <2> SUFFICES ASSUME NEW n \in DOMAIN pre, ~pre[n].enabled,
                      \A i \in DOMAIN pre : i < n => pre[i].enabled
               PROVE  FirstOff(pre) = n
    OBVIOUS
  <2>1. n \in I /\ \A i \in DOMAIN pre : i < n => i \notin I
    BY <1>6
  <2> QED  BY <1>8, <2>1
<1>13. (\A i \in DOMAIN pre : pre[i].enabled) => FirstOff(pre) = 0
  BY <1>1, <1>3, <1>6, <1>9
<1> QED  BY <1>10, <1>11, <1>12, <1>13

\* The decisions on the prerequisites are a sequence.
LEMMA PrerequisitesType ==
    ASSUME NEW content, ValidPrerequisites(content.features),
           NEW k \in DOMAIN content.features, NEW v
    PROVE  /\ \E S : Prerequisites(content, k, v) \in Seq(S)
           /\ DOMAIN Prerequisites(content, k, v) = DOMAIN content.features[k].dependsOn
<1> DEFINE deps == content.features[k].dependsOn
           pre == Prerequisites(content, k, v)
<1>1. deps \in Seq(DOMAIN content.features)
  BY DEF ValidPrerequisites
<1>2. Len(deps) \in Nat /\ DOMAIN deps = 1 .. Len(deps)
  BY <1>1, LenProperties
<1>3. pre = [i \in 1 .. Len(deps) |-> v[deps[i]]]
  BY <1>2 DEF Prerequisites
<1> HIDE DEF pre, deps
<1>4. pre \in [1 .. Len(deps) -> {pre[i] : i \in 1 .. Len(deps)}]
  BY <1>3
<1>5. pre \in Seq({pre[i] : i \in 1 .. Len(deps)})
  BY <1>2, <1>4, SeqDef
<1> QED  BY <1>2, <1>3, <1>5 DEF pre, deps

\* The flags know four reasons, none of them that of a suspension.
LEMMA ServedReason ==
    ASSUME NEW content, NEW k, NEW ec, NEW sub, NEW t
    PROVE  Served(content, k, ec, sub, t).reason
             \in {"no_flag", "flag_rule", "flag_default", "flag_rollout"}
<1>1. ASSUME NEW flag, NEW ro, NEW attrs
      PROVE  ServeRollout(flag, k, ro, attrs).reason = "flag_rollout"
  BY DEF ServeRollout, Outcome
<1>2. ASSUME NEW flag, NEW serve, NEW reason, NEW attrs
      PROVE  ServeOne(flag, k, serve, reason, attrs).reason \in {reason, "flag_rollout"}
  BY <1>1 DEF ServeOne, Outcome
<1>3. ASSUME NEW flag, NEW attrs
      PROVE  Serve(flag, k, content.segments, attrs).reason
               \in {"flag_rule", "flag_default", "flag_rollout"}
  BY <1>2 DEF Serve
<1> QED  BY <1>3 DEF Served, Outcome

\* Switched off before its subscription matters.
Shut(content, k, t) ==
    \/ Dark(content.features[k])
    \/ k \in DOMAIN content.flags /\ Inactive(content.flags[k], t) # Nil

SubFor(content, k, sc) == IF Gated(content.features[k]) THEN sc.sub ELSE Nil

ResolutionFor(content, k, sc, t) ==
    IF Gated(content.features[k]) THEN Resolve(content.resolver, sc.sub, k, t) ELSE Nil

\* No subscription is needed, or it entitles to feature k.
Passes(content, k, ec, sc, t) ==
    Gated(content.features[k]) => Cleared(ec.tenant, sc, ResolutionFor(content, k, sc, t))

\* A feature that is shut is off whatever the subscription and the prerequisites.
LEMMA ShutIs ==
    ASSUME NEW content, NEW k, NEW ec, NEW t, Shut(content, k, t)
    PROVE  \E reason \in {"lifecycle", "flag_off", "flag_window"} :
              \A sc, pre : EvaluateFeature(content, k, ec, sc, t, pre) = Off(k, reason, Nil, Nil)
<1>1. CASE Dark(content.features[k])
  <2>1. \A sc, pre : EvaluateFeature(content, k, ec, sc, t, pre) = Off(k, "lifecycle", Nil, Nil)
    BY <1>1 DEF EvaluateFeature
  <2> QED  BY <2>1
<1>2. CASE ~Dark(content.features[k])
  <2> DEFINE reason == Inactive(content.flags[k], t)
  <2>1. k \in DOMAIN content.flags /\ reason # Nil
    BY <1>2 DEF Shut
  <2>2. \A sc, pre : EvaluateFeature(content, k, ec, sc, t, pre) = Off(k, reason, Nil, Nil)
    BY <1>2, <2>1 DEF EvaluateFeature
  <2>3. reason \in {"flag_off", "flag_window"}
    BY <2>1 DEF Inactive
  <2> HIDE DEF reason
  <2> QED  BY <2>2, <2>3
<1> QED  BY <1>1, <1>2

\* The entitlement step decides.
LEMMA RefusedIs ==
    ASSUME NEW content, NEW k, NEW ec, NEW sc, NEW t, NEW pre,
           ~Shut(content, k, t), ~Passes(content, k, ec, sc, t)
    PROVE  EvaluateFeature(content, k, ec, sc, t, pre)
             = Refused(k, ec.tenant, sc, ResolutionFor(content, k, sc, t))
BY DEF Shut, Passes, ResolutionFor, EvaluateFeature

\* The flag decides, or the prerequisites.
LEMMA PassedIs ==
    ASSUME NEW content, NEW k, NEW ec, NEW sc, NEW t, NEW pre,
           ~Shut(content, k, t), Passes(content, k, ec, sc, t)
    PROVE  LET res == ResolutionFor(content, k, sc, t)
               out == Served(content, k, ec, SubFor(content, k, sc), t)
           IN EvaluateFeature(content, k, ec, sc, t, pre)
                = IF ~out.on THEN Off(k, out.reason, res, Nil)
                  ELSE AfterPrerequisites(k, pre, res, On(k, out, res))
BY DEF Shut, Passes, ResolutionFor, SubFor, EvaluateFeature

\* A refusal is off.
LEMMA RefusedOff ==
    ASSUME NEW key, NEW tenant, NEW sc, NEW res
    PROVE  ~Refused(key, tenant, sc, res).enabled
BY DEF Refused, Suspended, Off

\* What is on passed every step, and was not suspended.
LEMMA EnabledIs ==
    ASSUME NEW content, NEW k, NEW ec, NEW sc, NEW t, NEW pre,
           EvaluateFeature(content, k, ec, sc, t, pre).enabled
    PROVE  LET res == ResolutionFor(content, k, sc, t)
               out == Served(content, k, ec, SubFor(content, k, sc), t)
               d == EvaluateFeature(content, k, ec, sc, t, pre)
           IN /\ ~Shut(content, k, t) /\ Passes(content, k, ec, sc, t)
              /\ out.on /\ FirstOff(pre) = 0 /\ d = On(k, out, res)
              /\ d.feature = k /\ d.entitlement = res /\ d.err = Nil /\ ~IsSuspended(d)
<1> DEFINE res == ResolutionFor(content, k, sc, t)
           out == Served(content, k, ec, SubFor(content, k, sc), t)
           d == EvaluateFeature(content, k, ec, sc, t, pre)
<1>1. ~Shut(content, k, t)
  BY ShutIs DEF Off
<1>2. Passes(content, k, ec, sc, t)
  BY <1>1, RefusedIs, RefusedOff
<1>3. d = IF ~out.on THEN Off(k, out.reason, res, Nil)
          ELSE AfterPrerequisites(k, pre, res, On(k, out, res))
  BY <1>1, <1>2, PassedIs
<1>4. out.reason \in {"no_flag", "flag_rule", "flag_default", "flag_rollout"}
  BY ServedReason
<1> HIDE DEF d, out, res
<1>5. d.enabled
  BY DEF d
<1>6. out.on
  BY <1>3, <1>5 DEF Off
<1>7. FirstOff(pre) = 0
  BY <1>3, <1>5, <1>6 DEF AfterPrerequisites, FirstOff, Suspended, Off
<1>8. d = On(k, out, res)
  BY <1>3, <1>6, <1>7 DEF AfterPrerequisites, FirstOff
<1>9. d.feature = k /\ d.entitlement = res /\ d.err = Nil /\ d.reason = out.reason
  BY <1>8 DEF On, Off
<1>10. ~IsSuspended(d)
  BY <1>4, <1>9 DEF IsSuspended
<1> QED  BY <1>1, <1>2, <1>6, <1>7, <1>8, <1>9, <1>10 DEF d, out, res

-----------------------------------------------------------------------------
\* A property of all features, if each has it whenever its prerequisites do.
LEMMA FromPrerequisites ==
    ASSUME NEW features, ValidPrerequisites(features), NEW Good,
           \A k \in DOMAIN features :
              (\A i \in DOMAIN features[k].dependsOn : features[k].dependsOn[i] \in Good)
                 => k \in Good
    PROVE  DOMAIN features \in SUBSET Good
<1> DEFINE Bad == DOMAIN features \ Good
<1> SUFFICES ASSUME Bad # {} PROVE FALSE
  OBVIOUS
<1>1. PICK k \in Bad : \A i \in DOMAIN features[k].dependsOn : features[k].dependsOn[i] \notin Bad
  BY DEF ValidPrerequisites
<1>2. \A i \in DOMAIN features[k].dependsOn : features[k].dependsOn[i] \in DOMAIN features
  <2>1. features[k].dependsOn \in Seq(DOMAIN features)
    BY DEF ValidPrerequisites
  <2> QED  BY <2>1
<1> QED  BY <1>1, <1>2

\* A verdict reached without the subscription is the verdict with any, and an
\* enabled one carries no entitlement.
LEMMA LazyVerdict ==
    ASSUME NEW content, NEW ec, NEW t, NEW sub, ValidPrerequisites(content.features),
           NEW k \in DOMAIN content.features,
           ~IsSuspended(Verdicts(content, ec, NotLoaded, t)[k])
    PROVE  /\ Verdicts(content, ec, Loaded(sub), t)[k] = Verdicts(content, ec, NotLoaded, t)[k]
           /\ Verdicts(content, ec, NotLoaded, t)[k].enabled
                => Verdicts(content, ec, NotLoaded, t)[k].entitlement = Nil
<1> DEFINE D == DOMAIN content.features
           before == Verdicts(content, ec, NotLoaded, t)
           after == Verdicts(content, ec, Loaded(sub), t)
           Same(j) == ~IsSuspended(before[j]) =>
                         after[j] = before[j] /\ (before[j].enabled => before[j].entitlement = Nil)
           Good == {j \in D : Same(j)}
<1>1. ASSUME NEW j \in D,
             \A i \in DOMAIN content.features[j].dependsOn :
                content.features[j].dependsOn[i] \in Good
      PROVE  Same(j)
  <2> DEFINE P == Prerequisites(content, j, before)
             Q == Prerequisites(content, j, after)
  <2>1. /\ before[j] = EvaluateFeature(content, j, ec, NotLoaded, t, P)
        /\ after[j] = EvaluateFeature(content, j, ec, Loaded(sub), t, Q)
    BY Unfold
  <2>2. /\ DOMAIN P = DOMAIN Q
        /\ \A i \in DOMAIN P : ~IsSuspended(P[i]) => Q[i] = P[i]
    BY <1>1 DEF Prerequisites
  <2>3. \A i \in DOMAIN P : P[i].enabled => ~IsSuspended(P[i])
    <3> SUFFICES ASSUME NEW i \in DOMAIN P, P[i].enabled PROVE ~IsSuspended(P[i])
      OBVIOUS
    <3> DEFINE dep == content.features[j].dependsOn[i]
    <3>1. dep \in D /\ P[i] = before[dep]
      BY <1>1 DEF Prerequisites
    <3>2. before[dep] = EvaluateFeature(content, dep, ec, NotLoaded, t,
                                        Prerequisites(content, dep, before))
      BY <3>1, Unfold
    <3> HIDE DEF P, before
    <3> QED  BY <3>1, <3>2, EnabledIs
  <2>4. (\E S : P \in Seq(S)) /\ (\E S : Q \in Seq(S))
    BY PrerequisitesType
  <2> HIDE DEF P, Q, before, after
  <2>5. CASE Shut(content, j, t)
    <3>1. PICK reason \in {"lifecycle", "flag_off", "flag_window"} :
              \A sc, pre : EvaluateFeature(content, j, ec, sc, t, pre) = Off(j, reason, Nil, Nil)
      BY <2>5, ShutIs
    <3>2. before[j] = Off(j, reason, Nil, Nil) /\ after[j] = Off(j, reason, Nil, Nil)
      BY <2>1, <3>1
    <3>3. ~Off(j, reason, Nil, Nil).enabled
      BY DEF Off
    <3> QED  BY <3>2, <3>3
  <2>6. CASE ~Shut(content, j, t) /\ Gated(content.features[j])
    <3>1. ~Passes(content, j, ec, NotLoaded, t)
      BY <2>6 DEF Passes, Cleared, NotLoaded
    <3>2. before[j] = Refused(j, ec.tenant, NotLoaded, ResolutionFor(content, j, NotLoaded, t))
      BY <2>1, <2>6, <3>1, RefusedIs
    <3>3. CASE ec.tenant = Nil
      <4>1. ~Passes(content, j, ec, Loaded(sub), t)
        BY <2>6, <3>3 DEF Passes, Cleared
      <4>2. after[j] = Refused(j, ec.tenant, Loaded(sub), ResolutionFor(content, j, Loaded(sub), t))
        BY <2>1, <2>6, <4>1, RefusedIs
      <4> QED  BY <3>2, <3>3, <4>2 DEF Refused, Off
    <3>4. CASE ec.tenant # Nil
      BY <3>2, <3>4 DEF Refused, NotLoaded, IsSuspended, Suspended, Off
    <3> QED  BY <3>3, <3>4
  <2>7. CASE ~Shut(content, j, t) /\ ~Gated(content.features[j])
    <3> DEFINE out == Served(content, j, ec, Nil, t)
               on == On(j, out, Nil)
    <3>1. \A sc : /\ Passes(content, j, ec, sc, t)
                  /\ ResolutionFor(content, j, sc, t) = Nil
                  /\ SubFor(content, j, sc) = Nil
      BY <2>7 DEF Passes, ResolutionFor, SubFor
    <3> DEFINE Passed(pre) == IF ~out.on THEN Off(j, out.reason, Nil, Nil)
                              ELSE AfterPrerequisites(j, pre, Nil, on)
    <3>2. \A sc, pre : EvaluateFeature(content, j, ec, sc, t, pre) = Passed(pre)
      BY <2>7, <3>1, PassedIs
    <3>3. before[j] = Passed(P) /\ after[j] = Passed(Q)
      BY <2>1, <3>2
    <3>4. on.entitlement = Nil
      BY DEF On, Off
    <3> HIDE DEF out, on
    <3>5. CASE ~out.on
      BY <3>3, <3>5 DEF Off
    <3>6. CASE out.on /\ FirstOff(P) = 0
      <4>1. \A i \in DOMAIN P : P[i].enabled
        BY <2>4, <3>6, FirstOffIs
      <4>2. \A i \in DOMAIN Q : Q[i].enabled
        BY <2>2, <2>3, <4>1
      <4>3. FirstOff(Q) = 0
        BY <2>4, <4>2, FirstOffIs
      <4>4. before[j] = on /\ after[j] = on
        BY <3>3, <3>6, <4>3 DEF AfterPrerequisites, FirstOff
      <4> QED  BY <3>4, <4>4
    <3>7. CASE out.on /\ FirstOff(P) # 0
      <4> DEFINE n == FirstOff(P)
      <4>1. n \in DOMAIN P /\ ~P[n].enabled /\ \A i \in DOMAIN P : i < n => P[i].enabled
        BY <2>4, <3>7, FirstOffIs
      <4>2. before[j] = IF IsSuspended(P[n]) THEN Suspended(j) ELSE Off(j, "prerequisite", Nil, P[n].err)
        BY <3>3, <3>7 DEF AfterPrerequisites, FirstOff
      <4>3. CASE IsSuspended(P[n])
        BY <4>2, <4>3 DEF IsSuspended, Suspended, Off
      <4>4. CASE ~IsSuspended(P[n])
        <5>1. n \in DOMAIN Q /\ Q[n] = P[n] /\ \A i \in DOMAIN Q : i < n => Q[i].enabled
          BY <2>2, <2>3, <4>1, <4>4
        <5>2. FirstOff(Q) = n
          BY <2>4, <4>1, <5>1, FirstOffIs
        <5>3. after[j] = Off(j, "prerequisite", Nil, P[n].err)
          BY <3>3, <3>7, <4>4, <5>1, <5>2 DEF AfterPrerequisites, FirstOff
        <5> QED  BY <4>2, <4>4, <5>3 DEF Off
      <4> QED  BY <4>3, <4>4
    <3> QED  BY <3>5, <3>6, <3>7
  <2> QED  BY <2>5, <2>6, <2>7
<1>2. D \in SUBSET Good
  <2> HIDE DEF Same
  <2>1. \A j \in D : (\A i \in DOMAIN content.features[j].dependsOn :
                         content.features[j].dependsOn[i] \in Good) => j \in Good
    BY <1>1
  <2> HIDE DEF Good
  <2> QED  BY <2>1, FromPrerequisites
<1> QED  BY <1>2

\* A verdict that was suspended for want of the subscription does not turn the
\* feature on when the subscription cannot be loaded.
LEMMA FailedVerdict ==
    ASSUME NEW content, NEW ec, NEW t, ValidPrerequisites(content.features),
           NEW k \in DOMAIN content.features,
           Verdicts(content, ec, LoadFailed, t)[k].enabled
    PROVE  ~IsSuspended(Verdicts(content, ec, NotLoaded, t)[k])
<1> DEFINE D == DOMAIN content.features
           before == Verdicts(content, ec, NotLoaded, t)
           after == Verdicts(content, ec, LoadFailed, t)
           Kept(j) == after[j].enabled => ~IsSuspended(before[j])
           Good == {j \in D : Kept(j)}
<1>1. ASSUME NEW j \in D,
             \A i \in DOMAIN content.features[j].dependsOn :
                content.features[j].dependsOn[i] \in Good
      PROVE  Kept(j)
  <2> DEFINE P == Prerequisites(content, j, before)
             Q == Prerequisites(content, j, after)
  <2> SUFFICES ASSUME after[j].enabled PROVE ~IsSuspended(before[j])
    OBVIOUS
  <2>1. /\ before[j] = EvaluateFeature(content, j, ec, NotLoaded, t, P)
        /\ after[j] = EvaluateFeature(content, j, ec, LoadFailed, t, Q)
    BY Unfold
  <2>2. /\ DOMAIN P = DOMAIN Q
        /\ \A i \in DOMAIN P : Q[i].enabled => ~IsSuspended(P[i])
    BY <1>1 DEF Prerequisites
  <2>3. (\E S : P \in Seq(S)) /\ (\E S : Q \in Seq(S))
    BY PrerequisitesType
  <2> HIDE DEF P, Q, before, after
  <2>4. /\ ~Shut(content, j, t) /\ Passes(content, j, ec, LoadFailed, t) /\ FirstOff(Q) = 0
    BY <2>1, EnabledIs
  <2>5. ~Gated(content.features[j])
    BY <2>4 DEF Passes, Cleared, LoadFailed
  <2> DEFINE out == Served(content, j, ec, Nil, t)
  <2>6. before[j] = IF ~out.on THEN Off(j, out.reason, Nil, Nil)
                    ELSE AfterPrerequisites(j, P, Nil, On(j, out, Nil))
    <3>1. /\ Passes(content, j, ec, NotLoaded, t)
          /\ ResolutionFor(content, j, NotLoaded, t) = Nil
          /\ SubFor(content, j, NotLoaded) = Nil
      BY <2>5 DEF Passes, ResolutionFor, SubFor
    <3> QED  BY <2>1, <2>4, <3>1, PassedIs
  <2>7. out.reason \in {"no_flag", "flag_rule", "flag_default", "flag_rollout"}
    BY ServedReason
  <2>8. \A i \in DOMAIN P : ~IsSuspended(P[i])
    <3>1. \A i \in DOMAIN Q : Q[i].enabled
      BY <2>3, <2>4, FirstOffIs
    <3> QED  BY <2>2, <3>1
  <2>9. FirstOff(P) # 0 => ~IsSuspended(P[FirstOff(P)])
    BY <2>3, <2>8, FirstOffIs
  <2> HIDE DEF out
  <2>10. before[j].reason \in {out.reason, "prerequisite"}
    BY <2>6, <2>9 DEF AfterPrerequisites, FirstOff, On, Off
  <2> QED  BY <2>7, <2>10 DEF IsSuspended
<1>2. D \in SUBSET Good
  <2> HIDE DEF Kept
  <2>1. \A j \in D : (\A i \in DOMAIN content.features[j].dependsOn :
                         content.features[j].dependsOn[i] \in Good) => j \in Good
    BY <1>1
  <2> HIDE DEF Good
  <2> QED  BY <2>1, FromPrerequisites
<1> QED  BY <1>2

-----------------------------------------------------------------------------
\* A call decides at one of the moments.
LEMMA MomentOf ==
    ASSUME NEW r \in Requests, NEW time \in Times
    PROVE  (IF r.ec.now # Nil THEN r.ec.now ELSE time) \in Moments
BY DEF Moments

\* Whatever the snapshots, subscriptions and requests: a call that never needed
\* the subscription decides and charges as if it had loaded it.
THEOREM LazyLoadingHolds == LazyLoading
<1> SUFFICES ASSUME NEW s \in Snapshots, NEW r \in Requests, NEW sub \in Optional(Subscriptions),
                    NEW time \in Times
             PROVE  LET t == IF r.ec.now # Nil THEN r.ec.now ELSE time
                        d == Evaluate(Contents[s], r.key, r.ec, NotLoaded, t)
                    IN ~IsSuspended(d) =>
                         /\ Evaluate(Contents[s], r.key, r.ec, Loaded(sub), t) = d
                         /\ d.enabled => Meter(d, r.ec, Loaded(sub), t) = Meter(d, r.ec, NotLoaded, t)
  BY DEF LazyLoading
<1> DEFINE t == IF r.ec.now # Nil THEN r.ec.now ELSE time
           content == Contents[s]
           d == Evaluate(content, r.key, r.ec, NotLoaded, t)
           e == Evaluate(content, r.key, r.ec, Loaded(sub), t)
<1>1. ValidPrerequisites(content.features)
  BY ContentsAssumption
<1> HIDE DEF t, content
<1>2. CASE r.key \notin DOMAIN content.features
  <2>1. d = Off(r.key, "unknown_feature", Nil, Nil) /\ e = d
    BY <1>2 DEF Evaluate
  <2>2. ~d.enabled
    BY <2>1 DEF Off
  <2> QED  BY <2>1, <2>2 DEF t, content
<1>3. CASE r.key \in DOMAIN content.features
  <2>1. d = Verdicts(content, r.ec, NotLoaded, t)[r.key]
        /\ e = Verdicts(content, r.ec, Loaded(sub), t)[r.key]
    BY <1>1, <1>3, Unfold
  <2> HIDE DEF d, e
  <2>2. ~IsSuspended(d) => e = d /\ (d.enabled => d.entitlement = Nil)
    BY <1>1, <1>3, <2>1, LazyVerdict
  <2>3. d.entitlement = Nil => Meter(d, r.ec, Loaded(sub), t) = Meter(d, r.ec, NotLoaded, t)
    <3> SUFFICES ASSUME d.entitlement = Nil
                 PROVE  Meter(d, r.ec, Loaded(sub), t) = Meter(d, r.ec, NotLoaded, t)
      OBVIOUS
    <3>1. Limit(d) = Unlimited
      BY DEF Limit
    <3>2. \A anchor : PeriodBounds("none", anchor, t) = Bounds(Nil, Nil)
      BY DEF PeriodBounds
    <3>3. \A sc : /\ PeriodBounds(Limit(d).period, Anchor(sc), t) = Bounds(Nil, Nil)
                  /\ PeriodKey(Limit(d).period, Anchor(sc), t) = Bounds(Nil, Nil).start
      BY <3>1, <3>2 DEF Unlimited, PeriodKey, PeriodStart
    <3> QED  BY <3>3 DEF Meter
  <2> QED  BY <2>2, <2>3 DEF d, e, t, content
<1> QED  BY <1>2, <1>3

\* Whatever the snapshots, subscriptions and requests: no verdict blames the
\* usage store, and a failure to load the subscription turns nothing on.
THEOREM NeedsSubscriptionHolds == NeedsSubscription
<1> SUFFICES ASSUME NEW s \in Snapshots, NEW r \in Requests, NEW sc \in Caches, NEW time \in Times
             PROVE  LET t == IF r.ec.now # Nil THEN r.ec.now ELSE time
                        d == Evaluate(Contents[s], r.key, r.ec, sc, t)
                    IN /\ d.enabled => d.err # "usage_store"
                       /\ sc = LoadFailed /\ IsSuspended(Evaluate(Contents[s], r.key, r.ec, NotLoaded, t))
                            => ~d.enabled
  BY DEF NeedsSubscription
<1> DEFINE t == IF r.ec.now # Nil THEN r.ec.now ELSE time
           content == Contents[s]
           d == Evaluate(content, r.key, r.ec, sc, t)
           e == Evaluate(content, r.key, r.ec, NotLoaded, t)
<1>1. ValidPrerequisites(content.features) /\ Nil # "usage_store"
  BY ContentsAssumption
<1> HIDE DEF t, content
<1>2. CASE r.key \notin DOMAIN content.features
  <2>1. ~d.enabled
    BY <1>2 DEF Evaluate, Off
  <2> QED  BY <2>1 DEF t, content
<1>3. CASE r.key \in DOMAIN content.features
  <2>1. /\ d = Verdicts(content, r.ec, sc, t)[r.key]
        /\ d = EvaluateFeature(content, r.key, r.ec, sc, t,
                               Prerequisites(content, r.key, Verdicts(content, r.ec, sc, t)))
        /\ e = Verdicts(content, r.ec, NotLoaded, t)[r.key]
    BY <1>1, <1>3, Unfold
  <2> HIDE DEF d, e
  <2>2. d.enabled => d.err # "usage_store"
    BY <1>1, <2>1, EnabledIs
  <2>3. sc = LoadFailed /\ IsSuspended(e) => ~d.enabled
    BY <1>1, <1>3, <2>1, FailedVerdict
  <2> QED  BY <2>2, <2>3 DEF d, e, t, content
<1> QED  BY <1>2, <1>3

\* Whatever the snapshots, subscriptions and requests: a call is metered with a
\* limit that its feature has.
THEOREM CapsAreLimitsHolds == CapsAreLimits
<1> SUFFICES ASSUME NEW s \in Snapshots, NEW r \in Requests, NEW sc \in Caches, NEW time \in Times
             PROVE  LET t == IF r.ec.now # Nil THEN r.ec.now ELSE time
                        d == Evaluate(Contents[s], r.key, r.ec, sc, t)
                        m == Meter(d, r.ec, sc, t)
                    IN d.enabled => \E limit \in LimitsOn[m.key.feature] :
                                       limit = Nil \/ m.max = limit.max
  BY DEF CapsAreLimits
<1> DEFINE t == IF r.ec.now # Nil THEN r.ec.now ELSE time
           content == Contents[s]
           k == r.key
           f == content.features[k]
           d == Evaluate(content, k, r.ec, sc, t)
           m == Meter(d, r.ec, sc, t)
<1>1. ValidPrerequisites(content.features) /\ t \in Moments
  BY ContentsAssumption, MomentOf
<1> HIDE DEF t
<1> SUFFICES ASSUME d.enabled
             PROVE  \E limit \in LimitsOn[m.key.feature] : limit = Nil \/ m.max = limit.max
  BY DEF t
<1>2. k \in DOMAIN content.features
  BY DEF Evaluate, Off
<1>3. /\ d.feature = k /\ d.entitlement = ResolutionFor(content, k, sc, t)
      /\ Passes(content, k, r.ec, sc, t)
  <2>1. d = EvaluateFeature(content, k, r.ec, sc, t,
                            Prerequisites(content, k, Verdicts(content, r.ec, sc, t)))
    BY <1>1, <1>2, Unfold
  <2> HIDE DEF d, content
  <2> QED  BY <2>1, EnabledIs
<1>4. m.key.feature = k /\ m.max = Limit(d).max
  BY <1>3 DEF Meter
<1> DEFINE Resolutions(g) == {Resolve(Contents[z].resolver, sub, g, u) :
                                z \in Snapshots, sub \in Optional(Subscriptions), u \in Moments}
           Free(g) == \E z \in Snapshots : g \in DOMAIN Contents[z].features
                                             /\ ~Gated(Contents[z].features[g])
           Limits(g) == {res.limit : res \in {res \in Resolutions(g) : Entitled(res)}}
                          \cup (IF Free(g) THEN {Nil} ELSE {})
<1>5. /\ \A res \in Resolutions(k) : Entitled(res) => res.limit \in LimitsOn[k]
      /\ Free(k) => Nil \in LimitsOn[k]
  <2>1. k \in UNION {DOMAIN Contents[z].features : z \in Snapshots}
    BY <1>2
  <2>2. LimitsOn = [g \in UNION {DOMAIN Contents[z].features : z \in Snapshots} |-> Limits(g)]
    BY DEF LimitsOn
  <2> HIDE DEF Limits
  <2>3. LimitsOn[k] = Limits(k)
    BY <2>1, <2>2
  <2> HIDE DEF Resolutions, Free
  <2>4. /\ \A res \in Resolutions(k) : Entitled(res) => res.limit \in Limits(k)
        /\ Free(k) => Nil \in Limits(k)
    BY DEF Limits
  <2> QED  BY <2>3, <2>4
<1>6. CASE Gated(f)
  <2> DEFINE res == Resolve(content.resolver, sc.sub, k, t)
  <2>1. d.entitlement = res /\ Entitled(res)
    BY <1>3, <1>6 DEF ResolutionFor, Passes, Cleared
  <2>2. sc.sub \in Optional(Subscriptions)
    BY DEF Caches, NotLoaded, LoadFailed, Loaded, Optional
  <2>3. res \in Resolutions(k) /\ res # Nil
    BY <1>1, <1>2, <2>2, ContentsAssumption
  <2>4. res.limit \in LimitsOn[k]
    BY <1>5, <2>1, <2>3
  <2>5. res.limit = Nil \/ Limit(d).max = res.limit.max
    BY <2>1, <2>3 DEF Limit
  <2> QED  BY <1>4, <2>4, <2>5
<1>7. CASE ~Gated(f)
  <2>1. Free(k)
    BY <1>2, <1>7
  <2>2. Nil \in LimitsOn[k]
    BY <1>5, <2>1
  <2> QED  BY <1>4, <2>2
<1> QED  BY <1>6, <1>7

-----------------------------------------------------------------------------
\* If at most one of the three moved, one instant has all that was read.
LEMMA OneInstant ==
    ASSUME NEW instants, AtMostOneMoved(instants),
           NEW i \in instants, NEW j \in instants, NEW k \in instants
    PROVE  \E l \in instants : l.snap = i.snap /\ l.sub = j.sub /\ l.time = k.time
<1>1. PICK moved \in {"snap", "sub", "time"} :
          \A kept \in {"snap", "sub", "time"} \ {moved} :
              \A a, b \in instants : a[kept] = b[kept]
  BY DEF AtMostOneMoved
<1>2. CASE moved = "snap"
  BY <1>1, <1>2
<1>3. CASE moved = "sub"
  BY <1>1, <1>3
<1>4. CASE moved = "time"
  BY <1>1, <1>4
<1> QED  BY <1>2, <1>3, <1>4

\* A decision on what was current is the decision of one instant.
LEMMA CurrentIsAtomic ==
    ASSUME TypeOK, CurrentInv
    PROVE  AtomicUnlessTwoMove
<1> SUFFICES ASSUME NEW c \in Callers, Decided(c), cache[c] # LoadFailed, AtMostOneMoved(seen[c])
             PROVE  \E i \in seen[c] :
                       LET r == req[c]
                           sc == Loaded(i.sub)
                           t == TimeOf(r, i)
                           d == Evaluate(Contents[i.snap], r.key, r.ec, sc, t)
                       IN decision[c] = d /\ (d.enabled => meter[c] = Meter(d, r.ec, sc, t))
  BY DEF AtomicUnlessTwoMove
<1>0. Verdict(c)
  BY DEF CurrentInv
<1>1. PICK i \in seen[c] : view[c] = i.snap
  BY <1>0 DEF Verdict
<1>2. PICK k \in seen[c] : now[c] = TimeOf(req[c], k)
  BY <1>0 DEF Verdict
<1>3. /\ cache[c] \in {NotLoaded} \cup {Loaded(j.sub) : j \in seen[c]}
      /\ decision[c] = Evaluate(Contents[view[c]], req[c].key, req[c].ec, cache[c], now[c])
      /\ ~IsSuspended(decision[c])
      /\ decision[c].enabled => meter[c] = Meter(decision[c], req[c].ec, cache[c], now[c])
  BY <1>0 DEF Verdict
<1>4. CASE \E j \in seen[c] : cache[c] = Loaded(j.sub)
  <2>1. PICK j \in seen[c] : cache[c] = Loaded(j.sub)
    BY <1>4
  <2>2. PICK l \in seen[c] : l.snap = i.snap /\ l.sub = j.sub /\ l.time = k.time
    BY OneInstant
  <2>3. now[c] = TimeOf(req[c], l) /\ cache[c] = Loaded(l.sub) /\ view[c] = l.snap
    BY <1>1, <1>2, <2>1, <2>2 DEF TimeOf
  <2> QED  BY <1>3, <2>3
<1>5. CASE cache[c] = NotLoaded
  <2>1. PICK l \in seen[c] : l.snap = i.snap /\ l.time = k.time
    BY OneInstant
  <2>2. now[c] = TimeOf(req[c], l) /\ view[c] = l.snap
    BY <1>1, <1>2, <2>1 DEF TimeOf
  <2>3. /\ l.snap \in Snapshots /\ l.sub \in Optional(Subscriptions) /\ l.time \in Times
        /\ req[c] \in Requests
    <3>1. l \in [snap : Snapshots, sub : Optional(Subscriptions), time : Times]
      BY DEF TypeOK
    <3>2. req[c] \in Requests
      BY DEF TypeOK, Decided
    <3> QED  BY <3>1, <3>2
  <2> DEFINE r == req[c]
             t == TimeOf(r, l)
             d == Evaluate(Contents[l.snap], r.key, r.ec, NotLoaded, t)
  <2>4. decision[c] = d /\ ~IsSuspended(d)
        /\ (d.enabled => meter[c] = Meter(d, r.ec, NotLoaded, t))
    BY <1>3, <1>5, <2>2
  <2>5. /\ Evaluate(Contents[l.snap], r.key, r.ec, Loaded(l.sub), t) = d
        /\ d.enabled => Meter(d, r.ec, Loaded(l.sub), t) = Meter(d, r.ec, NotLoaded, t)
    BY <2>3, <2>4, LazyLoadingHolds DEF LazyLoading, TimeOf
  <2> QED  BY <2>4, <2>5
<1> QED  BY <1>3, <1>4, <1>5

\* A call is atomic unless two of snapshot, subscription and clock move while
\* it evaluates.
THEOREM AtomicHolds == Spec => []AtomicUnlessTwoMove
<1>1. TypeOK /\ CurrentInv => AtomicUnlessTwoMove
  BY CurrentIsAtomic
<1>2. Init => TypeOK /\ CurrentInv
  BY TypeInit, CurrentInit
<1>3. TypeOK /\ CurrentInv /\ [Next]_vars => (TypeOK /\ CurrentInv)'
  BY TypeStep, CurrentStep
<1> QED  BY <1>1, <1>2, <1>3, PTL DEF Spec

-----------------------------------------------------------------------------
(***************************************************************************)
(* What one call of the engine does besides deciding: it charges the       *)
(* tenant once if and only if it says yes to a Consume, and it tells every *)
(* decision hook once what it answers.                                     *)
(***************************************************************************)

\* Every other step leaves the callers' own state alone, but for what they see.
LEMMA NotOurs ==
    ASSUME [Next]_vars, \A c \in Callers : ~Step(c)
    PROVE  UNCHANGED callVars
<1>1. CASE \E a \in Appliers : Apply(a) \/ TellHook(a) \/ ApplyReturn(a)
  BY <1>1 DEF Apply, TellHook, ApplyReturn
<1>2. CASE \E t \in Tenants, s \in Optional(Subscriptions) : Store(t, s)
  BY <1>2 DEF Store
<1>3. CASE Tick
  BY <1>3 DEF Tick
<1>4. CASE UNCHANGED vars
  BY <1>4 DEF vars
<1> QED  BY <1>1, <1>2, <1>3, <1>4 DEF Next, Step

-----------------------------------------------------------------------------
(***************************************************************************)
(* Nothing is charged before the store is asked, which happens only in a   *)
(* Consume whose verdict is yes; the answer settles both.                  *)
(***************************************************************************)
Settled(c) ==
    LET granted == req[c].op = "consume" /\ decision[c].enabled
    IN /\ charged[c] <= 1
       /\ granted => charged[c] = 1
       /\ ~granted /\ decision[c].err # "usage_store" => charged[c] = 0

Charges(c) ==
    /\ pc[c] # "hooks" => charged[c] = 0
    /\ pc[c] = "charge" => req[c].op = "consume" /\ decision[c].enabled
    /\ pc[c] = "get" => req[c].op = "usage"
    /\ pc[c] = "hooks" => Settled(c)

ChargeInv == \A c \in Callers : Charges(c)

\* Deciding charges nothing and goes to the store only with a yes.
LEMMA ChargeDecide ==
    ASSUME TypeOK, NEW c \in Callers, NEW s, NEW sc, NEW t, Decide(c, s, sc, t),
           Evaluating(c), Charges(c), req[c] \in Requests, UNCHANGED <<req, charged>>
    PROVE  Charges(c)'
<1> DEFINE d == Evaluate(Contents[s], req[c].key, req[c].ec, sc, t)
<1>0. charged'[c] = 0 /\ req[c].op \in Ops
  BY EngineAssumption DEF Evaluating, Charges
<1>1. CASE IsSuspended(d)
  <2>1. pc'[c] = "load_sub"
    BY <1>1 DEF Decide, Goto, TypeOK
  <2> QED  BY <1>0, <2>1 DEF Charges
<1>2. CASE ~IsSuspended(d)
  <2>1. pc'[c] = AfterVerdict(req[c], d) /\ decision'[c] = d
    <3> HIDE DEF d
    <3>1. Goto(c, AfterVerdict(req[c], d)) /\ decision' = [decision EXCEPT ![c] = d]
      BY <1>2 DEF Decide, d
    <3> QED  BY <3>1 DEF Goto, TypeOK
  <2> HIDE DEF d
  <2> QED  BY <1>0, <2>1 DEF AfterVerdict, Ops, Charges, Settled
<1> QED  BY <1>1, <1>2

\* Every step keeps the invariant of charging.
LEMMA ChargeStep == TypeOK /\ ChargeInv /\ [Next]_vars => ChargeInv'
<1> SUFFICES ASSUME TypeOK, ChargeInv, [Next]_vars PROVE ChargeInv'
  OBVIOUS
<1>1. ASSUME NEW c \in Callers, Invoke(c) PROVE Charges(c)'
  <2>1. charged'[c] = 0
    BY <1>1 DEF Invoke, ChargeInv, Charges
  <2>2. pc'[c] = "load_snap" \/ (pc'[c] = "hooks" /\ ~decision'[c].enabled)
    BY <1>1 DEF Invoke, Goto, Off, TypeOK
  <2> QED  BY <2>1, <2>2 DEF Charges, Settled
<1>2. ASSUME NEW c \in Callers, LoadSnap(c) PROVE Charges(c)'
  BY <1>2 DEF LoadSnap, Goto, TypeOK, ChargeInv, Charges
<1>3. ASSUME NEW c \in Callers, ReadClock(c) \/ LoadSub(c) PROVE Charges(c)'
  <2>1. req[c] \in Requests /\ Evaluating(c) /\ Charges(c) /\ UNCHANGED <<req, charged>>
    BY <1>3 DEF ReadClock, LoadSub, TypeOK, Evaluating, ChargeInv
  <2>2. CASE ReadClock(c)
    <3>1. PICK t : Decide(c, view[c], cache[c], t)
      BY <2>2 DEF ReadClock
    <3> QED  BY <2>1, <3>1, ChargeDecide
  <2>3. CASE LoadSub(c)
    <3>1. PICK sc : Decide(c, view[c], sc, now[c])
      BY <2>3 DEF LoadSub
    <3> QED  BY <2>1, <3>1, ChargeDecide
  <2> QED  BY <1>3, <2>2, <2>3
<1>4. ASSUME NEW c \in Callers, ChargeAdded(c) PROVE Charges(c)'
  <2>0. PICK info : Finish(c, Amended(decision[c], decision[c].enabled, decision[c].variant,
                                       decision[c].reason, info, decision[c].err))
    BY <1>4 DEF ChargeAdded, Metered
  <2>1. /\ pc'[c] = "hooks" /\ charged'[c] = 1
        /\ decision'[c].enabled = decision[c].enabled /\ req' = req
    <3>1. charged' = [charged EXCEPT ![c] = @ + 1] /\ charged[c] = 0 /\ req' = req
      BY <1>4 DEF ChargeAdded, Add, ChargeInv, Charges
    <3>2. pc'[c] = "hooks" /\ decision'[c].enabled = decision[c].enabled
      BY <2>0 DEF Finish, Amended, Goto, TypeOK
    <3> QED  BY <3>1, <3>2 DEF TypeOK
  <2>2. req[c].op = "consume" /\ decision[c].enabled
    BY <1>4 DEF ChargeAdded, ChargeInv, Charges
  <2> QED  BY <2>1, <2>2 DEF Charges, Settled
<1>5. ASSUME NEW c \in Callers, ChargeRefused(c) PROVE Charges(c)'
  <2>1. pc'[c] = "hooks" /\ charged'[c] = 0 /\ ~decision'[c].enabled
    BY <1>5 DEF ChargeRefused, Finish, LimitReached, Amended, Goto, TypeOK, ChargeInv, Charges
  <2> QED  BY <2>1 DEF Charges, Settled
<1>6. ASSUME NEW c \in Callers, ChargeFailed(c) PROVE Charges(c)'
  <2>1. pc'[c] = "hooks" /\ ~decision'[c].enabled /\ decision'[c].err = "usage_store"
    BY <1>6 DEF ChargeFailed, Finish, UsageFailed, Amended, Goto, TypeOK
  <2>2. charged'[c] \in {0, 1}
    BY <1>6 DEF ChargeFailed, Add, TypeOK, ChargeInv, Charges
  <2> QED  BY <2>1, <2>2 DEF Charges, Settled
<1>7. ASSUME NEW c \in Callers, Get(c) PROVE Charges(c)'
  <2>1. pc'[c] = "hooks" /\ charged'[c] = 0 /\ req'[c].op = "usage"
    BY <1>7 DEF Get, Finish, Goto, TypeOK, ChargeInv, Charges
  <2> QED  BY <2>1 DEF Charges, Settled
<1>8. ASSUME NEW c \in Callers, FireHook(c) PROVE Charges(c)'
  BY <1>8 DEF FireHook, ChargeInv, Charges, Settled
<1>9. ASSUME NEW c \in Callers, Return(c) PROVE Charges(c)'
  <2>1. pc'[c] = "idle" /\ charged'[c] = 0
    BY <1>9 DEF Return, Goto, TypeOK
  <2> QED  BY <2>1 DEF Charges
<1>10. ASSUME NEW c \in Callers, Step(c) PROVE ChargeInv'
  <2>1. Charges(c)'
    BY <1>1, <1>2, <1>3, <1>4, <1>5, <1>6, <1>7, <1>8, <1>9, <1>10 DEF Step
  <2>2. ASSUME NEW d \in Callers, d # c PROVE Charges(d)'
    <3>1. pc'[d] = pc[d] /\ req'[d] = req[d] /\ decision'[d] = decision[d]
          /\ charged'[d] = charged[d]
      BY <1>10, <2>2, OthersKept DEF Step
    <3> QED  BY <3>1 DEF ChargeInv, Charges, Settled
  <2> QED  BY <2>1, <2>2 DEF ChargeInv
<1>11. CASE \A c \in Callers : ~Step(c)
  BY <1>11, NotOurs DEF callVars, ChargeInv, Charges, Settled
<1> QED  BY <1>10, <1>11

\* A call charges its tenant once if it grants a Consume, and never if it
\* refuses or only reads, unless the usage store itself failed: for any number
\* of concurrent calls.
THEOREM ChargedOnceHolds == Spec => []ChargedOnce
<1>1. Init => TypeOK /\ ChargeInv
  <2>1. Init => ChargeInv
    BY DEF Init, ChargeInv, Charges
  <2> QED  BY <2>1, TypeInit
<1>2. TypeOK /\ ChargeInv /\ [Next]_vars => (TypeOK /\ ChargeInv)'
  BY TypeStep, ChargeStep
<1>3. ChargeInv => ChargedOnce
  BY DEF ChargeInv, Charges, Settled, ChargedOnce
<1> QED  BY <1>1, <1>2, <1>3, PTL DEF Spec

-----------------------------------------------------------------------------
(***************************************************************************)
(* Only a call that has decided has told hooks of it: the first n of them, *)
(* and all the same decision.                                              *)
(***************************************************************************)
Telling(c, h) == [hook |-> h, op |-> req[c].op, decision |-> decision[c]]

Tells(c) ==
    /\ pc[c] # "hooks" => events[c] = <<>>
    /\ pc[c] = "hooks" =>
         \E n \in 0 .. DecisionHooks : events[c] = [h \in 1 .. n |-> Telling(c, h)]

HookInv == \A c \in Callers : Tells(c)

\* Telling one more hook.
LEMMA OneMore ==
    ASSUME NEW n \in Nat, NEW op, NEW d, NEW s, NEW e,
           s = [h \in 1 .. n |-> [hook |-> h, op |-> op, decision |-> d]],
           e = [hook |-> n + 1, op |-> op, decision |-> d]
    PROVE  /\ Len(s) = n
           /\ Append(s, e) = [h \in 1 .. n + 1 |-> [hook |-> h, op |-> op, decision |-> d]]
<1> DEFINE S == [hook : Nat, op : {op}, decision : {d}]
<1>1. s \in Seq(S) /\ Len(s) = n
  <2>1. s \in [1 .. n -> S]
    OBVIOUS
  <2> HIDE DEF S
  <2> QED  BY <2>1
<1>2. e \in S
  OBVIOUS
<1>3. /\ Append(s, e) \in Seq(S) /\ Len(Append(s, e)) = n + 1
      /\ \A h \in 1 .. n : Append(s, e)[h] = s[h]
      /\ Append(s, e)[n + 1] = e
  <2> HIDE DEF S
  <2> QED  BY <1>1, <1>2
<1>4. Append(s, e) = [h \in 1 .. n + 1 |-> Append(s, e)[h]]
  <2> HIDE DEF S
  <2> QED  BY <1>3
<1>5. ASSUME NEW h \in 1 .. n + 1
      PROVE  Append(s, e)[h] = [hook |-> h, op |-> op, decision |-> d]
  <2>1. CASE h \in 1 .. n
    BY <1>3, <2>1
  <2>2. CASE h = n + 1
    BY <1>3, <2>2
  <2> QED  BY <2>1, <2>2
<1> QED  BY <1>1, <1>4, <1>5

\* Every step keeps the invariant of the hooks.
LEMMA HookStep == TypeOK /\ HookInv /\ [Next]_vars => HookInv'
<1> SUFFICES ASSUME TypeOK, HookInv, [Next]_vars PROVE HookInv'
  OBVIOUS
<1>0. ASSUME NEW c \in Callers, pc[c] # "hooks", events'[c] = events[c] PROVE Tells(c)'
  <2>1. events'[c] = <<>>
    BY <1>0 DEF HookInv, Tells
  <2>2. <<>> = [h \in 1 .. 0 |-> Telling(c, h)']
    OBVIOUS
  <2>3. 0 \in 0 .. DecisionHooks
    BY EngineAssumption
  <2> QED  BY <2>1, <2>2, <2>3 DEF Tells
<1>1. ASSUME NEW c \in Callers, FireHook(c) PROVE Tells(c)'
  <2>1. PICK n \in 0 .. DecisionHooks : events[c] = [h \in 1 .. n |-> Telling(c, h)]
    BY <1>1 DEF FireHook, HookInv, Tells
  <2>2. /\ Len(events[c]) = n
        /\ Append(events[c], Telling(c, n + 1)) = [h \in 1 .. n + 1 |-> Telling(c, h)]
    BY <2>1, OneMore, EngineAssumption DEF Telling
  <2>3. events'[c] = Append(events[c], Telling(c, n + 1))
    BY <1>1, <2>2 DEF FireHook, Telling, TypeOK
  <2>4. n + 1 \in 0 .. DecisionHooks
    BY <1>1, <2>2, EngineAssumption DEF FireHook, HooksFor
  <2>5. events'[c] = [h \in 1 .. n + 1 |-> Telling(c, h)']
    BY <1>1, <2>2, <2>3 DEF FireHook, Telling
  <2>6. pc'[c] = "hooks"
    BY <1>1 DEF FireHook
  <2> QED  BY <2>4, <2>5, <2>6 DEF Tells
<1>2. ASSUME NEW c \in Callers, Return(c) PROVE Tells(c)'
  BY <1>2 DEF Return, Goto, Tells, TypeOK
<1>3. ASSUME NEW c \in Callers, Step(c) PROVE HookInv'
  <2>1. ASSUME ~FireHook(c), ~Return(c) PROVE Tells(c)'
    <3>1. pc[c] # "hooks" /\ events' = events
      BY <1>3, <2>1 DEF Step, Invoke, LoadSnap, ReadClock, LoadSub, ChargeAdded,
                        ChargeRefused, ChargeFailed, Get
    <3> QED  BY <1>0, <3>1
  <2>3. Tells(c)'
    BY <1>1, <1>2, <2>1
  <2>4. ASSUME NEW d \in Callers, d # c PROVE Tells(d)'
    <3>1. pc'[d] = pc[d] /\ req'[d] = req[d] /\ decision'[d] = decision[d]
          /\ events'[d] = events[d]
      BY <1>3, <2>4, OthersKept DEF Step
    <3>2. Tells(d)
      BY DEF HookInv
    <3>3. CASE pc[d] = "hooks"
      <4>1. PICK n \in 0 .. DecisionHooks : events[d] = [h \in 1 .. n |-> Telling(d, h)]
        BY <3>2, <3>3 DEF Tells
      <4>2. events'[d] = [h \in 1 .. n |-> Telling(d, h)']
        BY <3>1, <4>1 DEF Telling
      <4> QED  BY <3>1, <3>3, <4>2 DEF Tells
    <3>4. CASE pc[d] # "hooks"
      BY <3>1, <3>2, <3>4 DEF Tells
    <3> QED  BY <3>3, <3>4
  <2> QED  BY <2>3, <2>4 DEF HookInv
<1>4. CASE \A c \in Callers : ~Step(c)
  BY <1>4, NotOurs DEF callVars, HookInv, Tells, Telling
<1> QED  BY <1>3, <1>4

\* When a call returns, each hook was told of it, once, in order, with the
\* decision the caller gets: also after a failure and a refused misuse.
THEOREM HooksToldHolds == Spec => HooksTold
<1>1. Init => TypeOK /\ HookInv
  <2>1. Init => HookInv
    BY DEF Init, HookInv, Tells
  <2> QED  BY <2>1, TypeInit
<1>2. TypeOK /\ HookInv /\ [Next]_vars => (TypeOK /\ HookInv)'
  BY TypeStep, HookStep
<1> DEFINE Complete(c) ==
      Return(c) => events[c] = [h \in 1 .. DecisionHooks |->
                                 [hook |-> h, op |-> req[c].op, decision |-> decision[c]]]
<1>3. HookInv => [\A c \in Callers : Complete(c)]_vars
  <2> SUFFICES ASSUME HookInv, NEW c \in Callers, Return(c) PROVE Complete(c)
    OBVIOUS
  <2>1. PICK n \in 0 .. DecisionHooks : events[c] = [h \in 1 .. n |-> Telling(c, h)]
    BY DEF Return, HookInv, Tells
  <2>2. Len(events[c]) = n
    BY <2>1, OneMore, EngineAssumption DEF Telling
  <2>3. n = DecisionHooks
    BY <2>2 DEF Return, HooksFor
  <2> QED  BY <2>1, <2>3 DEF Telling
<1> QED  BY <1>1, <1>2, <1>3, PTL DEF Spec, HooksTold

-----------------------------------------------------------------------------
(***************************************************************************)
(* What the engine keeps when stores fail, quotas are raced for and        *)
(* snapshots are applied by several goroutines at once: no failure turns a *)
(* feature on, no counter outgrows its limit, and no change is lost.       *)
(***************************************************************************)

(***************************************************************************)
(* A call that goes on to the usage store was granted, and not by a failed *)
(* subscription store; one that needs the subscription is one that         *)
(* Evaluate suspends without it, which is when a failure counts.           *)
(***************************************************************************)
Unloaded(c) == Evaluate(Contents[view[c]], req[c].key, req[c].ec, NotLoaded, now[c])

TimeFor(r, t) == \E time \in Times : t = IF r.ec.now # Nil THEN r.ec.now ELSE time

Closed(c) ==
    /\ pc[c] = "load_sub" => TimeFor(req[c], now[c]) /\ IsSuspended(Unloaded(c))
    /\ pc[c] \in {"charge", "get"} =>
         decision[c].enabled /\ decision[c].err # "usage_store" /\ cache[c] # LoadFailed
    /\ pc[c] = "hooks" =>
         /\ cache[c] = LoadFailed => ~decision[c].enabled /\ charged[c] = 0
         /\ decision[c].err = "usage_store" => ~decision[c].enabled

ClosedInv == \A c \in Callers : Closed(c)

\* Deciding on a cache that is failed only where Evaluate was suspended.
LEMMA ClosedDecide ==
    ASSUME TypeOK, NEW c \in Callers,
           Decide(c, view[c], cache'[c], now'[c]), UNCHANGED <<req, view, charged>>,
           req[c] \in Requests, view[c] \in Snapshots, cache'[c] \in Caches,
           TimeFor(req[c], now'[c]), charged[c] = 0,
           cache'[c] = NotLoaded \/ IsSuspended(Unloaded(c)')
    PROVE  Closed(c)'
<1> DEFINE E(sc) == Evaluate(Contents[view[c]], req[c].key, req[c].ec, sc, now'[c])
           d == E(cache'[c])
<1>1. d.enabled => d.err # "usage_store"
  BY NeedsSubscriptionHolds DEF NeedsSubscription, TimeFor
<1>2. IsSuspended(E(NotLoaded)) /\ cache'[c] = LoadFailed => ~d.enabled
  BY NeedsSubscriptionHolds DEF NeedsSubscription, TimeFor
<1>3. Unloaded(c)' = E(NotLoaded)
  BY DEF Unloaded
<1> HIDE DEF E
<1>4. CASE IsSuspended(d)
  <2>1. pc'[c] = "load_sub"
    BY <1>4 DEF Decide, Goto, TypeOK, E
  <2>2. cache'[c] = NotLoaded => IsSuspended(Unloaded(c)')
    BY <1>3, <1>4
  <2> QED  BY <2>1, <2>2 DEF Closed, TimeFor
<1>5. CASE ~IsSuspended(d)
  <2>1. pc'[c] = AfterVerdict(req[c], d) /\ decision'[c] = d
    <3>1. Goto(c, AfterVerdict(req[c], d)) /\ decision' = [decision EXCEPT ![c] = d]
      BY <1>5 DEF Decide, E
    <3> QED  BY <3>1 DEF Goto, TypeOK
  <2>2. pc'[c] \in {"hooks", "charge", "get"} /\ (pc'[c] # "hooks" => d.enabled)
    BY <2>1 DEF AfterVerdict
  <2>3. NotLoaded # LoadFailed
    BY DEF NotLoaded, LoadFailed
  <2>4. cache'[c] = LoadFailed => ~d.enabled
    BY <1>2, <1>3, <2>3
  <2> QED  BY <1>1, <2>1, <2>2, <2>4 DEF Closed
<1> QED  BY <1>4, <1>5

\* Every step keeps failures closed.
LEMMA ClosedStep ==
    ASSUME TypeOK, CurrentInv, ChargeInv, ClosedInv, [Next]_vars
    PROVE  ClosedInv'
<1>0. ASSUME NEW c \in Callers, Evaluating(c)
      PROVE  req[c] \in Requests /\ charged[c] = 0 /\ seen[c] \in SUBSET Instants
    BY <1>0 DEF Evaluating, TypeOK, ChargeInv, Charges, Instants
<1>1. ASSUME NEW c \in Callers, Invoke(c) PROVE Closed(c)'
  <2>1. cache'[c] = NotLoaded /\ NotLoaded # LoadFailed
    BY <1>1 DEF Invoke, CurrentInv, Reads, NotLoaded, LoadFailed
  <2>2. pc'[c] = "load_snap" \/ (pc'[c] = "hooks" /\ ~decision'[c].enabled)
    BY <1>1 DEF Invoke, Goto, Off, TypeOK
  <2> QED  BY <2>1, <2>2 DEF Closed
<1>2. ASSUME NEW c \in Callers, LoadSnap(c) PROVE Closed(c)'
  <2>1. pc'[c] = "read_clock"
    BY <1>2 DEF LoadSnap, Goto, TypeOK
  <2> QED  BY <2>1 DEF Closed
<1>3. ASSUME NEW c \in Callers, ReadClock(c) PROVE Closed(c)'
  <2>1. Evaluating(c) /\ cache[c] = NotLoaded /\ \E i \in seen[c] : view[c] = i.snap
    BY <1>3 DEF ReadClock, Evaluating, CurrentInv, Reads
  <2>2. view[c] \in Snapshots
    BY <1>0, <2>1 DEF Instants
  <2>3. /\ now'[c] = IF req[c].ec.now # Nil THEN req[c].ec.now ELSE clock
        /\ cache' = cache /\ UNCHANGED <<req, view, charged>>
        /\ Decide(c, view[c], cache'[c], now'[c])
    BY <1>3 DEF ReadClock, TypeOK
  <2>4. TimeFor(req[c], now'[c])
    BY <2>3 DEF TimeFor, TypeOK
  <2>5. cache'[c] = NotLoaded /\ cache'[c] \in Caches
    BY <2>1, <2>3 DEF Caches
  <2> QED  BY <1>0, <2>1, <2>2, <2>3, <2>4, <2>5, ClosedDecide
<1>4. ASSUME NEW c \in Callers, LoadSub(c) PROVE Closed(c)'
  <2>1. Evaluating(c) /\ \E i \in seen[c] : view[c] = i.snap
    BY <1>4 DEF LoadSub, Evaluating, CurrentInv, Reads
  <2>2. view[c] \in Snapshots
    BY <1>0, <2>1 DEF Instants
  <2>3. UNCHANGED <<req, view, now, charged>> /\ Decide(c, view[c], cache'[c], now'[c])
    BY <1>4 DEF LoadSub, TypeOK
  <2>4. cache'[c] \in Caches
    <3>1. cache' \in [Callers -> Caches]
      BY TypeStep DEF TypeOK
    <3> QED  BY <3>1
  <2>5. TimeFor(req[c], now'[c]) /\ IsSuspended(Unloaded(c))
    BY <1>4, <2>3 DEF LoadSub, ClosedInv, Closed
  <2>6. Unloaded(c)' = Unloaded(c)
    BY <2>3 DEF Unloaded
  <2> QED  BY <1>0, <2>1, <2>2, <2>3, <2>4, <2>5, <2>6, ClosedDecide
<1>5. ASSUME NEW c \in Callers, ChargeAdded(c) \/ Get(c) PROVE Closed(c)'
  <2>1. /\ decision[c].enabled /\ decision[c].err # "usage_store" /\ cache[c] # LoadFailed
        /\ cache' = cache
    BY <1>5 DEF ChargeAdded, Get, ClosedInv, Closed
  <2>2. \/ \E total, m : Finish(c, Metered(decision[c], total, m))
        \/ Finish(c, UsageFailed(decision[c]))
    BY <1>5 DEF ChargeAdded, Get
  <2>3. pc'[c] = "hooks" /\ (decision'[c].err = "usage_store" => ~decision'[c].enabled)
    <3>1. ASSUME NEW total, NEW m, Finish(c, Metered(decision[c], total, m))
          PROVE  pc'[c] = "hooks" /\ decision'[c].err # "usage_store"
      <4>1. Metered(decision[c], total, m).err = decision[c].err
        BY DEF Metered, Amended
      <4> HIDE DEF Metered
      <4>2. decision'[c] = Metered(decision[c], total, m) /\ pc'[c] = "hooks"
        BY <3>1 DEF Finish, Goto, TypeOK
      <4> QED  BY <2>1, <4>1, <4>2
    <3>2. CASE Finish(c, UsageFailed(decision[c]))
      BY <3>2 DEF Finish, UsageFailed, Amended, Goto, TypeOK
    <3> QED  BY <2>2, <3>1, <3>2
  <2> QED  BY <2>1, <2>3 DEF Closed
<1>6. ASSUME NEW c \in Callers, ChargeRefused(c) \/ ChargeFailed(c) PROVE Closed(c)'
  <2>1. cache[c] # LoadFailed /\ cache' = cache
    BY <1>6 DEF ChargeRefused, ChargeFailed, ClosedInv, Closed
  <2>2. pc'[c] = "hooks" /\ ~decision'[c].enabled
    BY <1>6 DEF ChargeRefused, ChargeFailed, Finish, LimitReached, UsageFailed, Amended, Goto,
                TypeOK
  <2> QED  BY <2>1, <2>2 DEF Closed
<1>7. ASSUME NEW c \in Callers, FireHook(c) PROVE Closed(c)'
  <2>1. pc'[c] = "hooks" /\ UNCHANGED <<cache, decision, charged>>
    BY <1>7 DEF FireHook
  <2> QED  BY <1>7, <2>1 DEF FireHook, ClosedInv, Closed
<1>8. ASSUME NEW c \in Callers, Return(c) PROVE Closed(c)'
  <2>1. pc'[c] = "idle"
    BY <1>8 DEF Return, Goto, TypeOK
  <2> QED  BY <2>1 DEF Closed
<1>9. ASSUME NEW c \in Callers, Step(c) PROVE ClosedInv'
  <2>1. Closed(c)'
    BY <1>1, <1>2, <1>3, <1>4, <1>5, <1>6, <1>7, <1>8, <1>9 DEF Step
  <2>2. ASSUME NEW d \in Callers, d # c PROVE Closed(d)'
    <3>1. pc'[d] = pc[d] /\ req'[d] = req[d] /\ view'[d] = view[d] /\ now'[d] = now[d]
          /\ cache'[d] = cache[d] /\ decision'[d] = decision[d] /\ charged'[d] = charged[d]
      BY <1>9, <2>2, OthersKept
    <3> QED  BY <3>1 DEF ClosedInv, Closed, Unloaded, TimeFor
  <2> QED  BY <2>1, <2>2 DEF ClosedInv
<1>10. CASE \A c \in Callers : ~Step(c)
  BY <1>10, NotOurs DEF callVars, ClosedInv, Closed, Unloaded, TimeFor
<1> QED  BY <1>9, <1>10

\* A store that fails never turns a feature on and charges nothing when it is
\* the subscription that could not be loaded: for any stores, callers and edits.
THEOREM FailClosedHolds == Spec => []FailClosed
<1> DEFINE I == TypeOK /\ CurrentInv /\ ChargeInv /\ ClosedInv
<1>1. Init => I
  BY TypeInit, CurrentInit DEF Init, ChargeInv, Charges, ClosedInv, Closed
<1>2. I /\ [Next]_vars => I'
  BY TypeStep, CurrentStep, ChargeStep, ClosedStep
<1>3. I => FailClosed
  BY DEF ClosedInv, Closed, FailClosed
<1> QED  BY <1>1, <1>2, <1>3, PTL DEF Spec

-----------------------------------------------------------------------------
(***************************************************************************)
(* A caller about to charge holds a cap that some snapshot and             *)
(* subscription allow, and the store compares with it what it adds to.     *)
(***************************************************************************)
Capped(c) ==
    /\ pc[c] = "load_sub" => TimeFor(req[c], now[c])
    /\ pc[c] = "charge" =>
         \E limit \in LimitsOn[meter[c].key.feature] : limit = Nil \/ meter[c].max = limit.max

CapInv == \A c \in Callers : Capped(c)

\* Deciding leaves a cap that is a limit.
LEMMA CappedDecide ==
    ASSUME TypeOK, NEW c \in Callers,
           Decide(c, view[c], cache'[c], now'[c]), UNCHANGED req,
           req[c] \in Requests, view[c] \in Snapshots, cache'[c] \in Caches,
           TimeFor(req[c], now'[c])
    PROVE  Capped(c)'
<1> DEFINE d == Evaluate(Contents[view[c]], req[c].key, req[c].ec, cache'[c], now'[c])
           m == Meter(d, req[c].ec, cache'[c], now'[c])
<1>1. d.enabled => \E limit \in LimitsOn[m.key.feature] : limit = Nil \/ m.max = limit.max
  BY CapsAreLimitsHolds DEF CapsAreLimits, TimeFor
<1>2. CASE IsSuspended(d)
  <2>1. pc'[c] = "load_sub"
    BY <1>2 DEF Decide, Goto, TypeOK
  <2> QED  BY <2>1 DEF Capped, TimeFor
<1>3. CASE ~IsSuspended(d)
  <2>1. pc'[c] = AfterVerdict(req[c], d) /\ (d.enabled => meter'[c] = m)
    <3> HIDE DEF d
    <3>1. /\ Goto(c, AfterVerdict(req[c], d))
          /\ meter' = [meter EXCEPT ![c] =
                        IF d.enabled THEN Meter(d, req[c].ec, cache'[c], ChargedTime(now'[c]))
                        ELSE Nil]
      BY <1>3 DEF Decide, d
    <3> QED  BY <3>1 DEF Goto, ChargedTime, TypeOK
  <2>2. pc'[c] # "load_sub" /\ (pc'[c] = "charge" => d.enabled)
    BY <2>1 DEF AfterVerdict
  <2> HIDE DEF d, m
  <2> QED  BY <1>1, <2>1, <2>2 DEF Capped
<1> QED  BY <1>2, <1>3

\* What a call that fits adds stays within the limits.
LEMMA AddWithinLimits ==
    ASSUME TypeOK, NEW c \in Callers, pc[c] = "charge", FitsNow(c), Add(c), Capped(c), LimitHeld
    PROVE  LimitHeld'
<1> DEFINE k == meter[c].key
           total == Wrap(Count(usage, k) + req[c].n)
<1>1. usage' = [j \in DOMAIN usage \cup {k} |-> IF j = k THEN total ELSE usage[j]]
  BY DEF Add, FitsNow, Increment
<1>2. total \in Int
  <2>1. Count(usage, k) \in Int64 /\ req[c].n \in Int64
    BY MaxIntAssumption, EngineAssumption DEF TypeOK, Count, Int64
  <2>2. Count(usage, k) + req[c].n \in Int
    BY <2>1, MaxIntAssumption DEF Int64
  <2> QED  BY <2>2, WrapType, MaxIntAssumption DEF Int64
<1>3. meter[c].max < 0 \/ total <= meter[c].max
  BY DEF FitsNow, Fits
<1>4. PICK limit \in LimitsOn[k.feature] : limit = Nil \/ meter[c].max = limit.max
  BY DEF Capped
<1> HIDE DEF k, total
<1>5. limit = Nil \/ limit.max < 0 \/ total <= limit.max
  BY <1>3, <1>4
<1> QED  BY <1>1, <1>4, <1>5 DEF LimitHeld

\* Every step keeps the counters within the limits.
LEMMA CapStep ==
    ASSUME TypeOK, CurrentInv, CapInv, LimitHeld, [Next]_vars
    PROVE  CapInv' /\ LimitHeld'
<1>1. ASSUME NEW c \in Callers, ReadClock(c) PROVE Capped(c)'
  <2>1. req[c] \in Requests /\ view[c] \in Snapshots /\ cache[c] \in Caches
    <3>1. seen[c] \in SUBSET Instants /\ \E i \in seen[c] : view[c] = i.snap
      BY <1>1 DEF ReadClock, TypeOK, CurrentInv, Reads, Instants
    <3> QED  BY <1>1, <3>1 DEF ReadClock, TypeOK, Instants
  <2>2. /\ now'[c] = IF req[c].ec.now # Nil THEN req[c].ec.now ELSE clock
        /\ cache' = cache /\ UNCHANGED <<req, view>>
        /\ Decide(c, view[c], cache'[c], now'[c])
    BY <1>1 DEF ReadClock, TypeOK
  <2>3. TimeFor(req[c], now'[c])
    BY <2>2 DEF TimeFor, TypeOK
  <2> QED  BY <2>1, <2>2, <2>3, CappedDecide
<1>2. ASSUME NEW c \in Callers, LoadSub(c) PROVE Capped(c)'
  <2>1. req[c] \in Requests /\ view[c] \in Snapshots
    <3>1. seen[c] \in SUBSET Instants /\ \E i \in seen[c] : view[c] = i.snap
      BY <1>2 DEF LoadSub, TypeOK, CurrentInv, Reads, Instants
    <3> QED  BY <1>2, <3>1 DEF LoadSub, TypeOK, Instants
  <2>2. cache' \in [Callers -> Caches]
    BY TypeStep DEF TypeOK
  <2>3. /\ now' = now /\ UNCHANGED <<req, view>>
        /\ Decide(c, view[c], cache'[c], now'[c])
    BY <1>2 DEF LoadSub, TypeOK
  <2>4. TimeFor(req[c], now'[c])
    BY <1>2, <2>3 DEF LoadSub, CapInv, Capped
  <2> QED  BY <2>1, <2>2, <2>3, <2>4, CappedDecide
<1>3. ASSUME NEW c \in Callers, Step(c), ~ReadClock(c), ~LoadSub(c) PROVE Capped(c)'
  <2>1. pc'[c] \notin {"load_sub", "charge"} \/ FireHook(c)
    BY <1>3 DEF Step, Invoke, LoadSnap, ChargeAdded, ChargeRefused, ChargeFailed, Get, Finish,
                Return, Goto, TypeOK
  <2>2. FireHook(c) => pc'[c] = "hooks"
    BY DEF FireHook
  <2> QED  BY <2>1, <2>2 DEF Capped
<1>4. ASSUME NEW c \in Callers, Step(c) PROVE CapInv' /\ LimitHeld'
  <2>1. ASSUME NEW d \in Callers, d # c PROVE Capped(d)'
    <3>1. pc'[d] = pc[d] /\ req'[d] = req[d] /\ now'[d] = now[d] /\ meter'[d] = meter[d]
      BY <1>4, <2>1, OthersKept
    <3> QED  BY <3>1 DEF CapInv, Capped, TimeFor
  <2>2. Capped(c)'
    BY <1>1, <1>2, <1>3, <1>4
  <2>3. ASSUME pc[c] = "charge", FitsNow(c), Add(c) PROVE LimitHeld'
    BY <2>3, AddWithinLimits DEF CapInv
  <2>4. ASSUME usage' = usage PROVE LimitHeld'
    BY <2>4 DEF LimitHeld
  <2>5. usage' = usage \/ (pc[c] = "charge" /\ FitsNow(c) /\ Add(c))
    BY <1>4 DEF Step, Invoke, LoadSnap, ReadClock, LoadSub, ChargeAdded, ChargeRefused,
                ChargeFailed, Get, FireHook, Return
  <2> QED  BY <2>1, <2>2, <2>3, <2>4, <2>5 DEF CapInv
<1>5. CASE \A c \in Callers : ~Step(c)
  <2>1. usage' = usage
    BY <1>5 DEF Next, Apply, TellHook, ApplyReturn, Store, Tick, vars
  <2> QED  BY <1>5, <2>1, NotOurs DEF callVars, CapInv, Capped, TimeFor, LimitHeld
<1> QED  BY <1>4, <1>5

\* No counter outgrows what some snapshot and subscription allow, however many
\* callers charge it at once, with the snapshot replaced under them.
THEOREM LimitHeldHolds == Spec => []LimitHeld
<1> DEFINE I == TypeOK /\ CurrentInv /\ CapInv /\ LimitHeld
<1>1. Init => I
  BY TypeInit, CurrentInit DEF Init, CapInv, Capped, LimitHeld
<1>2. I /\ [Next]_vars => I'
  BY TypeStep, CurrentStep, CapStep
<1> QED  BY <1>1, <1>2, PTL DEF Spec

-----------------------------------------------------------------------------
(***************************************************************************)
(* The events a hook has been told, and those it is still to be told: an   *)
(* Apply moves its event from nowhere to the second, telling the hook      *)
(* moves it to the first, and nothing else touches either.                 *)
(***************************************************************************)
Ends == {"prev", "next"}

Positions(q, end, s) == {i \in DOMAIN q : q[i][end] = s}

ToldSet(h, end, s) == Positions(heard[h], end, s)

UntoldSet(h, end, s) == {a \in Untold(h) : applying[a][end] = s}

One(condition) == IF condition THEN 1 ELSE 0

\* An applier between two Applies has told no hook.
IdleTold == \A a \in Appliers : applying[a] = Nil => told[a] = 0

\* One more event in a history is one more mention of its ends.
LEMMA CountAppend ==
    ASSUME NEW q \in Seq(Events), NEW e \in Events, NEW end \in Ends, NEW s
    PROVE  Cardinality(Positions(Append(q, e), end, s))
             = Cardinality(Positions(q, end, s)) + One(e[end] = s)
<1> DEFINE before == Positions(q, end, s)
           r == Append(q, e)
           after == Positions(r, end, s)
           n == Len(q)
<1> USE DEF Positions
<1>1. /\ n \in Nat /\ DOMAIN q = 1 .. n /\ DOMAIN r = 1 .. n + 1
      /\ \A i \in 1 .. n : r[i] = q[i]
      /\ r[n + 1] = e
  BY LenProperties, AppendProperties
<1>2. IsFiniteSet(before) /\ n + 1 \notin before
  <2> HIDE DEF n
  <2>1. IsFiniteSet(1 .. n)
    <3>1. n \in Int
      BY <1>1
    <3> QED  BY <3>1, FS_Interval
  <2>2. before \in SUBSET (1 .. n) /\ n + 1 \notin 1 .. n
    BY <1>1
  <2> QED  BY <2>1, <2>2, FS_Subset
<1>3. Cardinality(before) \in Nat
  BY <1>2, FS_CardinalityType
<1> HIDE DEF n, r
<1>4. CASE e[end] = s
  <2>1. after = before \cup {n + 1}
    BY <1>1, <1>4
  <2>2. Cardinality(before \cup {n + 1}) = Cardinality(before) + 1
    BY <1>2, FS_AddElement
  <2> QED  BY <1>3, <1>4, <2>1, <2>2 DEF One, r
<1>5. CASE e[end] # s
  <2>1. after = before
    BY <1>1, <1>5
  <2>2. One(e[end] = s) = 0
    BY <1>5 DEF One
  <2>3. Cardinality(after) = Cardinality(before)
    BY <2>1
  <2>4. Cardinality(before) = Cardinality(before) + 0
    BY <1>3
  <2> QED  BY <1>3, <2>2, <2>3, <2>4 DEF r
<1> QED  BY <1>4, <1>5

\* Mentions counts the two sets, and both are finite.
LEMMA MentionsType ==
    ASSUME IsFiniteSet(Appliers), TypeOK, NEW h \in 1 .. ApplyHooks, NEW end \in Ends, NEW s
    PROVE  /\ Cardinality(ToldSet(h, end, s)) \in Nat
           /\ Cardinality(UntoldSet(h, end, s)) \in Nat
           /\ IsFiniteSet(UntoldSet(h, end, s))
           /\ Mentions(h, end, s)
                = Cardinality(ToldSet(h, end, s)) + Cardinality(UntoldSet(h, end, s))
<1>1. heard[h] \in Seq(Events)
  BY DEF TypeOK, Events
<1>2. IsFiniteSet(1 .. Len(heard[h])) /\ DOMAIN heard[h] = 1 .. Len(heard[h])
  <2>1. Len(heard[h]) \in Int /\ DOMAIN heard[h] = 1 .. Len(heard[h])
    BY <1>1, LenProperties
  <2> QED  BY <2>1, FS_Interval
<1>3. ToldSet(h, end, s) \in SUBSET (1 .. Len(heard[h]))
  BY <1>2 DEF ToldSet, Positions
<1>4. IsFiniteSet(ToldSet(h, end, s))
  BY <1>2, <1>3, FS_Subset
<1>5. UntoldSet(h, end, s) \in SUBSET Appliers
  BY DEF UntoldSet, Untold
<1>6. IsFiniteSet(UntoldSet(h, end, s))
  BY <1>5, FS_Subset
<1> QED  BY <1>4, <1>6, FS_CardinalityType DEF Mentions, ToldSet, Positions, UntoldSet

\* An Apply puts one more event among those still to be told to each hook.
LEMMA ApplyMentions ==
    ASSUME IsFiniteSet(Appliers), TypeOK, IdleTold, NEW a \in Appliers, Apply(a),
           NEW h \in 1 .. ApplyHooks, NEW end \in Ends, NEW s
    PROVE  Mentions(h, end, s)' = Mentions(h, end, s) + One(applying'[a][end] = s)
<1>1. PICK new \in Snapshots : applying' = [applying EXCEPT ![a] = Event(snap, new)]
  BY DEF Apply
<1>2. applying[a] = Nil /\ told' = told /\ heard' = heard /\ told[a] = 0
  BY DEF Apply, IdleTold
<1>3. applying'[a] = Event(snap, new) /\ applying'[a] # Nil
  <2>1. applying'[a] = Event(snap, new)
    BY <1>1 DEF TypeOK
  <2>2. applying'[a] # Nil
    BY <1>1, <2>1, EngineAssumption DEF Event, TypeOK
  <2> QED  BY <2>1, <2>2
<1>4. Untold(h)' = Untold(h) \cup {a} /\ a \notin Untold(h)
  BY <1>1, <1>2, <1>3, EngineAssumption DEF Untold, TypeOK
<1>5. UntoldSet(h, end, s)'
        = UntoldSet(h, end, s) \cup (IF applying'[a][end] = s THEN {a} ELSE {})
  BY <1>1, <1>4 DEF UntoldSet, Untold, TypeOK
<1>6. Cardinality(UntoldSet(h, end, s))'
        = Cardinality(UntoldSet(h, end, s)) + One(applying'[a][end] = s)
  <2>1. a \notin UntoldSet(h, end, s) /\ IsFiniteSet(UntoldSet(h, end, s))
        /\ Cardinality(UntoldSet(h, end, s)) \in Nat
    BY <1>4, MentionsType DEF UntoldSet
  <2>2. CASE applying'[a][end] = s
    <3>1. UntoldSet(h, end, s)' = UntoldSet(h, end, s) \cup {a}
      BY <1>5, <2>2
    <3>2. Cardinality(UntoldSet(h, end, s) \cup {a}) = Cardinality(UntoldSet(h, end, s)) + 1
      BY <2>1, FS_AddElement
    <3> QED  BY <2>2, <3>1, <3>2 DEF One
  <2>3. CASE applying'[a][end] # s
    <3>1. UntoldSet(h, end, s)' = UntoldSet(h, end, s) /\ One(applying'[a][end] = s) = 0
      BY <1>5, <2>3 DEF One
    <3> QED  BY <2>1, <3>1
  <2> QED  BY <2>2, <2>3
<1>7. ToldSet(h, end, s)' = ToldSet(h, end, s)
  BY <1>2 DEF ToldSet, Positions
<1>8. TypeOK'
  BY TypeStep DEF Next
<1>9. Mentions(h, end, s)'
        = Cardinality(ToldSet(h, end, s)') + Cardinality(UntoldSet(h, end, s)')
  BY <1>8 DEF Mentions, ToldSet, Positions, UntoldSet
<1> QED  BY <1>6, <1>7, <1>9, MentionsType DEF One

\* Telling hook moves the event from those it is still to be told.
LEMMA TellMentions ==
    ASSUME IsFiniteSet(Appliers), TypeOK, NEW a \in Appliers, TellHook(a),
           NEW h \in 1 .. ApplyHooks, NEW end \in Ends, NEW s
    PROVE  Mentions(h, end, s)' = Mentions(h, end, s)
<1> DEFINE g == told[a] + 1
           one == One(applying[a][end] = s)
<1>1. /\ applying' = applying /\ applying[a] # Nil /\ told[a] < ApplyHooks
      /\ told' = [told EXCEPT ![a] = g]
      /\ heard' = [heard EXCEPT ![g] = Append(@, applying[a])]
  BY DEF TellHook
<1>2. /\ applying[a] \in Events /\ told[a] \in Nat /\ ApplyHooks \in Nat /\ g \in 1 .. ApplyHooks
      /\ \A b \in Appliers : told[b] \in Nat
  BY <1>1, EngineAssumption DEF TypeOK, Optional, Events
<1>3. told'[a] = g /\ \A b \in Appliers : b # a => told'[b] = told[b]
  BY <1>1 DEF TypeOK
<1>4. TypeOK'
  BY TypeStep DEF Next
<1>5. Mentions(h, end, s)'
        = Cardinality(ToldSet(h, end, s)') + Cardinality(UntoldSet(h, end, s)')
  BY DEF Mentions, ToldSet, Positions, UntoldSet
<1>6. /\ Cardinality(ToldSet(h, end, s)) \in Nat
      /\ Cardinality(UntoldSet(h, end, s)) \in Nat
      /\ IsFiniteSet(UntoldSet(h, end, s))
      /\ Mentions(h, end, s)
           = Cardinality(ToldSet(h, end, s)) + Cardinality(UntoldSet(h, end, s))
  BY MentionsType
<1>7. CASE h = g
  <2>1. heard'[h] = Append(heard[h], applying[a]) /\ heard[h] \in Seq(Events)
    BY <1>1, <1>7 DEF TypeOK, Events
  <2>2. Cardinality(ToldSet(h, end, s)') = Cardinality(ToldSet(h, end, s)) + one
    <3>1. ToldSet(h, end, s)' = Positions(Append(heard[h], applying[a]), end, s)
      BY <2>1 DEF ToldSet
    <3>2. applying[a] \in Events /\ heard[h] \in Seq(Events)
      BY <1>2, <2>1
    <3> QED  BY <3>1, <3>2, CountAppend DEF ToldSet
  <2>3. Untold(h)' = Untold(h) \ {a} /\ a \in Untold(h)
    BY <1>1, <1>2, <1>3, <1>7 DEF Untold
  <2>4. UntoldSet(h, end, s)' = UntoldSet(h, end, s) \ {a}
        /\ (a \in UntoldSet(h, end, s) <=> applying[a][end] = s)
    BY <1>1, <2>3 DEF UntoldSet
  <2>5. Cardinality(UntoldSet(h, end, s)') = Cardinality(UntoldSet(h, end, s)) - one
    <3>1. Cardinality(UntoldSet(h, end, s) \ {a})
            = IF a \in UntoldSet(h, end, s) THEN Cardinality(UntoldSet(h, end, s)) - 1
              ELSE Cardinality(UntoldSet(h, end, s))
      BY <1>6, FS_RemoveElement
    <3>2. CASE applying[a][end] = s
      BY <2>4, <3>1, <3>2 DEF One
    <3>3. CASE applying[a][end] # s
      <4>1. one = 0
        BY <3>3 DEF One
      <4>2. Cardinality(UntoldSet(h, end, s)') = Cardinality(UntoldSet(h, end, s))
        BY <2>4, <3>1, <3>3
      <4> QED  BY <1>6, <4>1, <4>2
    <3> QED  BY <3>2, <3>3
  <2>6. one \in {0, 1}
    BY DEF One
  <2> HIDE DEF one
  <2> QED  BY <1>5, <1>6, <2>2, <2>5, <2>6
<1>8. CASE h # g
  <2>1. heard'[h] = heard[h]
    BY <1>1, <1>8 DEF TypeOK
  <2>2. ToldSet(h, end, s)' = ToldSet(h, end, s)
    BY <2>1 DEF ToldSet
  <2>3. told'[a] < h <=> told[a] < h
    BY <1>2, <1>3, <1>8
  <2>4. Untold(h)' = Untold(h)
    BY <1>1, <1>3, <2>3 DEF Untold
  <2>5. UntoldSet(h, end, s)' = UntoldSet(h, end, s)
    BY <1>1, <2>4 DEF UntoldSet
  <2> QED  BY <1>5, <1>6, <2>2, <2>5
<1> QED  BY <1>7, <1>8

\* An Apply that returns has told its event to every hook.
LEMMA ReturnMentions ==
    ASSUME TypeOK, NEW a \in Appliers, ApplyReturn(a),
           NEW h \in 1 .. ApplyHooks, NEW end \in Ends, NEW s
    PROVE  Mentions(h, end, s)' = Mentions(h, end, s)
<1>1. /\ applying' = [applying EXCEPT ![a] = Nil] /\ told' = [told EXCEPT ![a] = 0]
      /\ heard' = heard /\ told[a] = ApplyHooks
  BY DEF ApplyReturn
<1>2. /\ applying'[a] = Nil /\ a \notin Untold(h)
      /\ \A b \in Appliers : b # a => applying'[b] = applying[b] /\ told'[b] = told[b]
  BY <1>1, EngineAssumption DEF TypeOK, Untold
<1>3. Untold(h)' = Untold(h)
  BY <1>2 DEF Untold
<1>4. UntoldSet(h, end, s)' = UntoldSet(h, end, s)
  <2>1. UntoldSet(h, end, s)' = {b \in Untold(h)' : applying'[b][end] = s}
    BY DEF UntoldSet
  <2>2. \A b \in Untold(h) : applying'[b] = applying[b]
    BY <1>2 DEF Untold
  <2> QED  BY <1>3, <2>1, <2>2 DEF UntoldSet
<1>5. ToldSet(h, end, s)' = ToldSet(h, end, s)
  BY <1>1 DEF ToldSet
<1> QED  BY <1>4, <1>5 DEF Mentions, ToldSet, Positions, UntoldSet

\* Every step keeps the chain.
LEMMA ChainStep ==
    ASSUME IsFiniteSet(Appliers), TypeOK, IdleTold, ApplyChain, [Next]_vars
    PROVE  IdleTold' /\ ApplyChain'
<1>1. ASSUME NEW a \in Appliers, Apply(a) PROVE IdleTold' /\ ApplyChain'
  <2>1. PICK new \in Snapshots :
            snap' = new /\ applying' = [applying EXCEPT ![a] = Event(snap, new)]
    BY <1>1 DEF Apply
  <2>2. applying'[a].prev = snap /\ applying'[a].next = snap'
    BY <2>1 DEF Event, TypeOK
  <2>3. IdleTold'
    BY <1>1, <2>1 DEF Apply, IdleTold, TypeOK
  <2>4. ASSUME NEW h \in 1 .. ApplyHooks, NEW s \in Snapshots
        PROVE  Mentions(h, "prev", s)' + One(s = snap')
                 = Mentions(h, "next", s)' + One(s = Initial)
    <3>1. /\ Mentions(h, "prev", s)' = Mentions(h, "prev", s) + One(snap = s)
          /\ Mentions(h, "next", s)' = Mentions(h, "next", s) + One(snap' = s)
      <4>1. "prev" \in Ends /\ "next" \in Ends
        BY DEF Ends
      <4> QED  BY <1>1, <2>2, <4>1, ApplyMentions
    <3>2. Mentions(h, "prev", s) \in Nat /\ Mentions(h, "next", s) \in Nat
      BY MentionsType DEF Ends
    <3>3. Mentions(h, "prev", s) + One(s = snap) = Mentions(h, "next", s) + One(s = Initial)
      BY DEF ApplyChain, One
    <3>4. /\ One(s = snap) \in Nat /\ One(s = snap') \in Nat /\ One(s = Initial) \in Nat
          /\ One(snap = s) = One(s = snap) /\ One(snap' = s) = One(s = snap')
      BY DEF One
    <3> QED  BY <3>1, <3>2, <3>3, <3>4
  <2> QED  BY <2>3, <2>4 DEF ApplyChain, One
<1>2. ASSUME NEW a \in Appliers, TellHook(a) \/ ApplyReturn(a) PROVE IdleTold' /\ ApplyChain'
  <2>1. IdleTold' /\ snap' = snap
    BY <1>2 DEF TellHook, ApplyReturn, IdleTold, TypeOK
  <2>2. ASSUME NEW h \in 1 .. ApplyHooks, NEW end \in Ends, NEW s
        PROVE  Mentions(h, end, s)' = Mentions(h, end, s)
    BY <1>2, TellMentions, ReturnMentions
  <2>3. "prev" \in Ends /\ "next" \in Ends
    BY DEF Ends
  <2> QED  BY <2>1, <2>2, <2>3 DEF ApplyChain
<1>3. CASE UNCHANGED <<snap, applyVars>>
  BY <1>3 DEF applyVars, IdleTold, ApplyChain, Mentions, Untold
<1>4. ASSUME NEW c \in Callers, Step(c) PROVE UNCHANGED <<snap, applyVars>>
  BY <1>4 DEF Step, Invoke, LoadSnap, ReadClock, LoadSub, ChargeAdded, ChargeRefused,
              ChargeFailed, Get, FireHook, Return
<1>5. (\E t \in Tenants, s \in Optional(Subscriptions) : Store(t, s)) \/ Tick \/ UNCHANGED vars
        => UNCHANGED <<snap, applyVars>>
  BY DEF Store, Tick, vars
<1> QED  BY <1>1, <1>2, <1>3, <1>4, <1>5 DEF Next

\* However many goroutines Apply at once, and in whatever order the hooks hear
\* of it, what each hook is told is one chain of replacements from the first
\* snapshot to the current one.
THEOREM ApplyChainHolds == ASSUME IsFiniteSet(Appliers) PROVE Spec => []ApplyChain
<1> DEFINE I == TypeOK /\ IdleTold /\ ApplyChain
<1>1. Init => I
  <2> SUFFICES ASSUME Init PROVE IdleTold /\ ApplyChain
    BY TypeInit
  <2>1. IdleTold
    BY DEF Init, IdleTold
  <2>2. ASSUME NEW h \in 1 .. ApplyHooks, NEW end \in Ends, NEW s PROVE Mentions(h, end, s) = 0
    <3>1. ToldSet(h, end, s) = {} /\ UntoldSet(h, end, s) = {}
      BY DEF Init, ToldSet, Positions, UntoldSet, Untold
    <3>2. Mentions(h, end, s) = Cardinality(ToldSet(h, end, s)) + Cardinality(UntoldSet(h, end, s))
      BY DEF Mentions, ToldSet, Positions, UntoldSet
    <3>3. Cardinality({}) = 0
      BY FS_EmptySet
    <3> QED  BY <3>1, <3>2, <3>3
  <2>3. "prev" \in Ends /\ "next" \in Ends /\ snap = Initial
    BY DEF Ends, Init
  <2> QED  BY <2>1, <2>2, <2>3 DEF ApplyChain
<1>2. I /\ [Next]_vars => I'
  BY TypeStep, ChainStep
<1> QED  BY <1>1, <1>2, PTL DEF Spec
=============================================================================
