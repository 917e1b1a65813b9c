------------------------------- MODULE Engine -------------------------------
(***************************************************************************)
(* The engine (engine.go, evaluate.go, meter.go) between its callers, its  *)
(* two stores and the goroutines that Apply snapshots.  A call reads the   *)
(* snapshot, the clock and the subscription one after the other and then   *)
(* asks the usage store; every such read or write is a step of its own, so *)
(* anything may happen in between.  The stores are taken at their          *)
(* interfaces: a call of theirs is one step (MemUsage shows this for the   *)
(* in-memory usage store), and a remote one may fail.                      *)
(***************************************************************************)
EXTENDS Evaluation

CONSTANTS
    Callers, Appliers,        \* goroutines
    Tenants, Subscriptions,
    Snapshots, Contents,      \* pointers, and the snapshots they point to
    Initial,                  \* the one New was given
    Requests,                 \* [op, key, ec, n]
    HasUsage,                 \* built WithUsage
    DecisionHooks, ApplyHooks,  \* how many are registered
    FailingStores,            \* subset of {"subs", "usage"}
    FirstTime, LastTime,      \* bound on the clock
    MaxEdits                  \* bound on applied snapshots and stored subscriptions

Ops == {"evaluate", "consume", "usage"}

Times == FirstTime .. LastTime

ASSUME EngineAssumption ==
    /\ HasUsage \in BOOLEAN
    /\ DecisionHooks \in Nat /\ ApplyHooks \in Nat /\ MaxEdits \in Nat
    /\ FirstTime \in Int /\ LastTime \in Int /\ FirstTime <= LastTime
    /\ \A r \in Requests : r.op \in Ops /\ r.n \in Int64
                           /\ r.ec.tenant \in Optional(Tenants)
    /\ Initial \in Snapshots /\ Nil \notin Snapshots /\ Nil \notin Subscriptions
    /\ Nil \notin Requests
    /\ Nil \notin Tenants /\ Nil \notin Int /\ Nil \notin [prev : Snapshots, next : Snapshots]

\* The instants that a call may be decided at.
Moments == Times \cup ({r.ec.now : r \in Requests} \ {Nil})

\* Snapshots are validated: prerequisites exist and every chain of them ends.
ValidPrerequisites(features) ==
    /\ \A k \in DOMAIN features : features[k].dependsOn \in Seq(DOMAIN features)
    /\ \A K \in (SUBSET DOMAIN features) \ {{}} :
          \E k \in K : \A i \in DOMAIN features[k].dependsOn : features[k].dependsOn[i] \notin K

\* No resolution and no error of a store is nil.
ASSUME ContentsAssumption ==
    /\ \A s \in Snapshots : ValidPrerequisites(Contents[s].features)
    /\ \A s \in Snapshots : \A k \in DOMAIN Contents[s].features :
          \A sub \in Optional(Subscriptions), t \in Moments :
             Resolve(Contents[s].resolver, sub, k, t) # Nil
    /\ Nil # "usage_store"

VARIABLES
    snap,      \* the atomic snapshot pointer
    subs,      \* the subscription store: tenant -> subscription or Nil
    usage,     \* the usage store: a map, missing counters read as 0
    clock,     \* the engine's time source
    edits,     \* snapshots applied and subscriptions stored so far
    \* per caller, the locals of the call it makes
    pc, req, view, now, cache, decision, meter,
    charged,   \* how many times the store added this call's delta
    events,    \* what the decision hooks were told of this call
    seen,      \* every <<snapshot, subscription, time>> current meanwhile
    \* per applier
    applying,  \* the event of the Apply in progress, or Nil
    told,      \* how many apply hooks have been told of it
    heard      \* per apply hook, the events it was told, in order

callVars == <<pc, req, view, now, cache, decision, meter, charged, events>>
applyVars == <<applying, told, heard>>
vars == <<snap, subs, usage, clock, edits, callVars, seen, applyVars>>

Count(u, k) == IF k \in DOMAIN u THEN u[k] ELSE 0

SubscriptionOf(store, tenant) == IF tenant = Nil THEN Nil ELSE store[tenant]

-----------------------------------------------------------------------------
\* What caller c would read if it read everything now.
Instant(c) == [snap |-> snap, sub |-> SubscriptionOf(subs, req[c].ec.tenant), time |-> clock]

Evaluating(c) == pc[c] \in {"load_snap", "read_clock", "load_sub"}

\* History only: the evaluating callers note what is now current.
Observe ==
    seen' = [c \in Callers |-> IF Evaluating(c) THEN seen[c] \cup {Instant(c)'} ELSE seen[c]]

Init ==
    /\ snap = Initial
    /\ subs \in [Tenants -> Optional(Subscriptions)]
    /\ usage = <<>>
    /\ clock = FirstTime
    /\ edits = 0
    /\ pc = [c \in Callers |-> "idle"]
    /\ req = [c \in Callers |-> Nil]
    /\ view = [c \in Callers |-> Nil]
    /\ now = [c \in Callers |-> Nil]
    /\ cache = [c \in Callers |-> NotLoaded]
    /\ decision = [c \in Callers |-> Nil]
    /\ meter = [c \in Callers |-> Nil]
    /\ charged = [c \in Callers |-> 0]
    /\ events = [c \in Callers |-> <<>>]
    /\ seen = [c \in Callers |-> {}]
    /\ applying = [a \in Appliers |-> Nil]
    /\ told = [a \in Appliers |-> 0]
    /\ heard = [h \in 1 .. ApplyHooks |-> <<>>]

Goto(c, label) == pc' = [pc EXCEPT ![c] = label]

-----------------------------------------------------------------------------
\* Consume and Usage are refused outright without a usage store, Consume also
\* for a delta that is not positive.
Misuse(r) ==
    IF r.op # "evaluate" /\ ~HasUsage THEN "no_usage_store"
    ELSE IF r.op = "consume" /\ r.n <= 0 THEN "invalid_delta"
    ELSE Nil

Invoke(c) ==
    /\ pc[c] = "idle"
    /\ UNCHANGED <<snap, subs, usage, clock, edits, applyVars>>
    /\ UNCHANGED <<view, now, cache, meter, charged, events>>
    /\ \E r \in Requests :
         /\ req' = [req EXCEPT ![c] = r]
         /\ IF Misuse(r) = Nil
            THEN /\ Goto(c, "load_snap")
                 /\ UNCHANGED decision
                 /\ seen' = [seen EXCEPT ![c] = {Instant(c)'}]
            ELSE /\ Goto(c, "hooks")
                 /\ decision' = [decision EXCEPT ![c] = Off(r.key, Nil, Nil, Nil)]
                 /\ UNCHANGED seen

LoadSnap(c) ==
    /\ pc[c] = "load_snap"
    /\ view' = [view EXCEPT ![c] = snap]
    /\ Goto(c, "read_clock")
    /\ UNCHANGED <<snap, subs, usage, clock, edits, seen, applyVars>>
    /\ UNCHANGED <<req, now, cache, decision, meter, charged, events>>

\* What an evaluation that was not suspended goes on with.
AfterVerdict(r, d) ==
    IF ~d.enabled \/ r.op = "evaluate" THEN "hooks"
    ELSE IF r.op = "consume" THEN "charge" ELSE "get"

\* The instant whose period a call charges.
CurrentTime(t) == clock

ChargedTime(t) == t

\* Evaluate as far as the call's own copies allow.
Decide(c, s, sc, t) ==
    LET r == req[c]
        d == Evaluate(Contents[s], r.key, r.ec, sc, t)
    IN IF IsSuspended(d)
       THEN Goto(c, "load_sub") /\ UNCHANGED <<decision, meter>>
       ELSE /\ Goto(c, AfterVerdict(r, d))
            /\ decision' = [decision EXCEPT ![c] = d]
            /\ meter' = [meter EXCEPT ![c] =
                           IF d.enabled THEN Meter(d, r.ec, sc, ChargedTime(t)) ELSE Nil]

ReadClock(c) ==
    /\ pc[c] = "read_clock"
    /\ LET t == IF req[c].ec.now # Nil THEN req[c].ec.now ELSE clock
       IN /\ now' = [now EXCEPT ![c] = t]
          /\ Decide(c, view[c], cache[c], t)
    /\ UNCHANGED <<snap, subs, usage, clock, edits, seen, applyVars>>
    /\ UNCHANGED <<req, view, cache, charged, events>>

LoadSub(c) ==
    /\ pc[c] = "load_sub"
    /\ \E sc \in {Loaded(SubscriptionOf(subs, req[c].ec.tenant))}
                   \cup (IF "subs" \in FailingStores THEN {LoadFailed} ELSE {}) :
         /\ cache' = [cache EXCEPT ![c] = sc]
         /\ Decide(c, view[c], sc, now[c])
    /\ UNCHANGED <<snap, subs, usage, clock, edits, seen, applyVars>>
    /\ UNCHANGED <<req, view, now, charged, events>>

-----------------------------------------------------------------------------
\* d with the answer of the usage store.
Amended(d, enabled, variant, reason, info, err) ==
    [feature |-> d.feature, enabled |-> enabled, variant |-> variant, reason |-> reason,
     entitlement |-> d.entitlement, usage |-> info, err |-> err]

UsageFailedOpen(d) == Amended(d, d.enabled, d.variant, "store_error", Nil, "usage_store")

UsageFailed(d) == Amended(d, FALSE, d.variant, "store_error", Nil, "usage_store")

Metered(d, total, m) ==
    Amended(d, d.enabled, d.variant, d.reason, UsageInfo(total, m), d.err)

LimitReachedOpen(d, total, m) ==
    Amended(d, d.enabled, Nil, "limit_reached", UsageInfo(total, m), d.err)

LimitReached(d, total, m) ==
    Amended(d, FALSE, Nil, "limit_reached", UsageInfo(total, m), d.err)

Finish(c, d) ==
    /\ decision' = [decision EXCEPT ![c] = d]
    /\ seen' = [seen EXCEPT ![c] = {}]
    /\ Goto(c, "hooks")

\* The store's part of Consume: refuse or add.
Add(c) ==
    LET k == meter[c].key
        total == Increment(Count(usage, k), req[c].n, meter[c].max)
    IN /\ usage' = [j \in DOMAIN usage \cup {k} |-> IF j = k THEN total ELSE usage[j]]
       /\ charged' = [charged EXCEPT ![c] = @ + 1]

FitsNow(c) == Fits(Count(usage, meter[c].key), req[c].n, meter[c].max)

ChargeAdded(c) ==
    /\ pc[c] = "charge" /\ FitsNow(c)
    /\ Add(c)
    /\ Finish(c, Metered(decision[c], usage'[meter[c].key], meter[c]))
    /\ UNCHANGED <<snap, subs, clock, edits, applyVars>>
    /\ UNCHANGED <<req, view, now, cache, meter, events>>

ChargeRefused(c) ==
    /\ pc[c] = "charge" /\ ~FitsNow(c)
    /\ Finish(c, LimitReached(decision[c], Count(usage, meter[c].key), meter[c]))
    /\ UNCHANGED <<snap, subs, usage, clock, edits, applyVars>>
    /\ UNCHANGED <<req, view, now, cache, meter, charged, events>>

\* The call of the store fails; a remote one may have added before it failed.
ChargeFailed(c) ==
    /\ pc[c] = "charge" /\ "usage" \in FailingStores
    /\ \/ FitsNow(c) /\ Add(c)
       \/ UNCHANGED <<usage, charged>>
    /\ Finish(c, UsageFailed(decision[c]))
    /\ UNCHANGED <<snap, subs, clock, edits, applyVars>>
    /\ UNCHANGED <<req, view, now, cache, meter, events>>

Get(c) ==
    /\ pc[c] = "get"
    /\ \/ Finish(c, Metered(decision[c], Count(usage, meter[c].key), meter[c]))
       \/ "usage" \in FailingStores /\ Finish(c, UsageFailed(decision[c]))
    /\ UNCHANGED <<snap, subs, usage, clock, edits, applyVars>>
    /\ UNCHANGED <<req, view, now, cache, meter, charged, events>>

HooksUnlessMisuse(c) == IF Misuse(req[c]) = Nil THEN DecisionHooks ELSE 0

\* Every top-level call tells every hook, also when it ends in an error.
HooksFor(c) == DecisionHooks

\* The decision hooks run one after the other before the call returns.
FireHook(c) ==
    /\ pc[c] = "hooks" /\ Len(events[c]) < HooksFor(c)
    /\ events' = [events EXCEPT ![c] =
                    Append(@, [hook |-> Len(@) + 1, op |-> req[c].op, decision |-> decision[c]])]
    /\ UNCHANGED <<snap, subs, usage, clock, edits, seen, applyVars>>
    /\ UNCHANGED <<pc, req, view, now, cache, decision, meter, charged>>

CacheKept(c) == cache[c]

\* The subscription cache lives for one call.
CacheForNextCall(c) == NotLoaded

Return(c) ==
    /\ pc[c] = "hooks" /\ Len(events[c]) = HooksFor(c)
    /\ Goto(c, "idle")
    /\ req' = [req EXCEPT ![c] = Nil]
    /\ view' = [view EXCEPT ![c] = Nil]
    /\ now' = [now EXCEPT ![c] = Nil]
    /\ cache' = [cache EXCEPT ![c] = CacheForNextCall(c)]
    /\ decision' = [decision EXCEPT ![c] = Nil]
    /\ meter' = [meter EXCEPT ![c] = Nil]
    /\ charged' = [charged EXCEPT ![c] = 0]
    /\ events' = [events EXCEPT ![c] = <<>>]
    /\ seen' = [seen EXCEPT ![c] = {}]
    /\ UNCHANGED <<snap, subs, usage, clock, edits, applyVars>>

-----------------------------------------------------------------------------
EventAfterSwap(old, new) == [prev |-> new, next |-> new]

\* Swap returns the snapshot it replaced.  (The event's time is left out.)
Event(old, new) == [prev |-> old, next |-> new]

Apply(a) ==
    /\ applying[a] = Nil /\ edits < MaxEdits
    /\ \E s \in Snapshots :
         /\ snap' = s
         /\ applying' = [applying EXCEPT ![a] = Event(snap, s)]
    /\ edits' = edits + 1
    /\ UNCHANGED <<subs, usage, clock, callVars, told, heard>>
    /\ Observe

TellHookAfterLast(a) ==
    /\ applying[a] # Nil /\ told[a] <= ApplyHooks
    /\ LET h == told[a] + 1
       IN /\ told' = [told EXCEPT ![a] = h]
          /\ heard' = [heard EXCEPT ![h] = Append(@, applying[a])]
    /\ UNCHANGED <<snap, subs, usage, clock, edits, callVars, seen, applying>>

\* for _, h := range e.applyHooks { h(ev) }
TellHook(a) ==
    /\ applying[a] # Nil /\ told[a] < ApplyHooks
    /\ LET h == told[a] + 1
       IN /\ told' = [told EXCEPT ![a] = h]
          /\ heard' = [heard EXCEPT ![h] = Append(@, applying[a])]
    /\ UNCHANGED <<snap, subs, usage, clock, edits, callVars, seen, applying>>

ApplyReturn(a) ==
    /\ applying[a] # Nil /\ told[a] = ApplyHooks
    /\ applying' = [applying EXCEPT ![a] = Nil]
    /\ told' = [told EXCEPT ![a] = 0]
    /\ UNCHANGED <<snap, subs, usage, clock, edits, callVars, seen, heard>>

\* MemSubscriptions.Set, or Delete for Nil, by the application.
Store(t, s) ==
    /\ edits < MaxEdits
    /\ subs' = [subs EXCEPT ![t] = s]
    /\ edits' = edits + 1
    /\ UNCHANGED <<snap, usage, clock, callVars, applyVars>>
    /\ Observe

Tick ==
    /\ clock < LastTime
    /\ clock' = clock + 1
    /\ UNCHANGED <<snap, subs, usage, edits, callVars, applyVars>>
    /\ Observe

\* A step of the call that c makes.
Step(c) ==
    \/ Invoke(c) \/ LoadSnap(c) \/ ReadClock(c) \/ LoadSub(c)
    \/ ChargeAdded(c) \/ ChargeRefused(c) \/ ChargeFailed(c) \/ Get(c)
    \/ FireHook(c) \/ Return(c)

Next ==
    \/ \E c \in Callers : Step(c)
    \/ \E a \in Appliers : Apply(a) \/ TellHook(a) \/ ApplyReturn(a)
    \/ \E t \in Tenants, s \in Optional(Subscriptions) : Store(t, s)
    \/ Tick

Spec == Init /\ [][Next]_vars

-----------------------------------------------------------------------------
Labels == {"idle", "load_snap", "read_clock", "load_sub", "charge", "get", "hooks"}

Caches == {NotLoaded, LoadFailed} \cup {Loaded(s) : s \in Optional(Subscriptions)}

\* The types of the variables; a function that holds decisions or meters is
\* only said to be one on the callers.
TypeOK ==
    /\ snap \in Snapshots
    /\ subs \in [Tenants -> Optional(Subscriptions)]
    /\ usage = [k \in DOMAIN usage |-> usage[k]]
    /\ \A k \in DOMAIN usage : usage[k] \in Int64
    /\ clock \in Times /\ edits \in 0 .. MaxEdits
    /\ pc \in [Callers -> Labels]
    /\ req \in [Callers -> Optional(Requests)]
    /\ \A c \in Callers : pc[c] # "idle" => req[c] \in Requests
    /\ view \in [Callers -> Optional(Snapshots)]
    /\ DOMAIN now = Callers
    /\ cache \in [Callers -> Caches]
    /\ DOMAIN decision = Callers /\ DOMAIN meter = Callers
    /\ charged \in [Callers -> Nat]
    /\ DOMAIN events = Callers
    /\ seen \in [Callers -> SUBSET [snap : Snapshots, sub : Optional(Subscriptions),
                                   time : Times]]
    /\ applying \in [Appliers -> Optional([prev : Snapshots, next : Snapshots])]
    /\ told \in [Appliers -> 0 .. ApplyHooks]
    /\ heard \in [1 .. ApplyHooks -> Seq([prev : Snapshots, next : Snapshots])]

TimeOf(r, i) == IF r.ec.now # Nil THEN r.ec.now ELSE i.time

\* c holds what Evaluate decided, as it decided it.
Decided(c) == pc[c] \in {"charge", "get", "hooks"} /\ seen[c] # {}

\* A decision is the pipeline's answer for a snapshot, a subscription and a
\* time that were each current at some instant of the call: nothing older is
\* used, however the call is interleaved with Apply, with edits of the
\* subscription and with the clock (evaluate.go:24-29, engine.go:67-68).
ReadsCurrent ==
    \A c \in Callers : Decided(c) =>
        /\ \E i \in seen[c] : view[c] = i.snap
        /\ \E i \in seen[c] : now[c] = TimeOf(req[c], i)
        /\ cache[c] \in {NotLoaded, LoadFailed} \cup {Loaded(i.sub) : i \in seen[c]}
        /\ decision[c] = Evaluate(Contents[view[c]], req[c].key, req[c].ec, cache[c], now[c])

AtMostOneMoved(instants) ==
    \E moved \in {"snap", "sub", "time"} :
        \A kept \in {"snap", "sub", "time"} \ {moved} :
            \A i, j \in instants : i[kept] = j[kept]

\* Unless two of snapshot, subscription and clock move during the evaluation,
\* the call is atomic: its decision, and the counter and cap it then charges,
\* are those of one single instant (evaluate.go:26, 77-80; meter.go:37-45).
AtomicUnlessTwoMove ==
    \A c \in Callers :
        Decided(c) /\ cache[c] # LoadFailed /\ AtMostOneMoved(seen[c]) =>
            \E i \in seen[c] :
                LET r == req[c]
                    sc == Loaded(i.sub)
                    t == TimeOf(r, i)
                    d == Evaluate(Contents[i.snap], r.key, r.ec, sc, t)
                IN decision[c] = d /\ (d.enabled => meter[c] = Meter(d, r.ec, sc, t))

\* A Consume that says yes has charged exactly once; a call that says no, or
\* only reads, has charged nothing, unless the store failed after it added
\* (meter.go:40-55).
ChargedOnce ==
    \A c \in Callers : pc[c] = "hooks" =>
        LET granted == req[c].op = "consume" /\ decision[c].enabled
        IN /\ charged[c] <= 1
           /\ granted => charged[c] = 1
           /\ ~granted /\ decision[c].err # "usage_store" => charged[c] = 0

\* Per feature, the limits some snapshot and subscription give it, Nil for none.
LimitsOn ==
    [f \in UNION {DOMAIN Contents[s].features : s \in Snapshots} |->
       LET resolutions == {Resolve(Contents[s].resolver, sub, f, t) :
                             s \in Snapshots, sub \in Optional(Subscriptions), t \in Moments}
       IN {res.limit : res \in {res \in resolutions : Entitled(res)}}
            \cup (IF \E s \in Snapshots : f \in DOMAIN Contents[s].features
                                         /\ ~Gated(Contents[s].features[f])
                  THEN {Nil} ELSE {})]

\* No counter outgrows what some snapshot and subscription allow its tenant,
\* however many callers charge it at once (meter.go:44-46, memstore.go:59-69).
LimitHeld ==
    \A k \in DOMAIN usage : \E limit \in LimitsOn[k.feature] :
        limit = Nil \/ limit.max < 0 \/ usage[k] <= limit.max

\* A store that fails never turns a feature on, and a decision that could not
\* load the subscription charges nothing, at whatever depth of prerequisites
\* the failure was met (evaluate.go:77-84, 129-134; meter.go:47-50).
FailClosed ==
    \A c \in Callers : pc[c] = "hooks" =>
        /\ cache[c] = LoadFailed => ~decision[c].enabled /\ charged[c] = 0
        /\ decision[c].err = "usage_store" => ~decision[c].enabled

\* When a call returns, every decision hook has been told of it once, in
\* registration order, with the decision the caller gets (engine.go:41-44,
\* 83-91).
HooksTold ==
    [][\A c \in Callers : Return(c) =>
          events[c] = [h \in 1 .. DecisionHooks |->
                         [hook |-> h, op |-> req[c].op, decision |-> decision[c]]]]_vars

\* Applies that hook h has not been told of yet.
Untold(h) == {a \in Appliers : applying[a] # Nil /\ told[a] < h}

Mentions(h, end, s) ==
    Cardinality({i \in DOMAIN heard[h] : heard[h][i][end] = s})
      + Cardinality({a \in Untold(h) : applying[a][end] = s})

\* The events each apply hook is told, with those still to be told, form one
\* chain from the first snapshot to the current one: a snapshot is replaced as
\* often as it was put in place, so concurrent Applies neither lose nor invent
\* a change, though a hook may hear of them out of order (engine.go:73-77).
ApplyChain ==
    \A h \in 1 .. ApplyHooks : \A s \in Snapshots :
        Mentions(h, "prev", s) + (IF s = snap THEN 1 ELSE 0)
            = Mentions(h, "next", s) + (IF s = Initial THEN 1 ELSE 0)

\* What Evaluate decides without the subscription it decides the same, and
\* meters the same, with any: the subscription is read only where it matters
\* (evaluate.go:13-19, 72-80).
LazyLoading ==
    \A s \in Snapshots, r \in Requests, sub \in Optional(Subscriptions), time \in Times :
        LET t == IF r.ec.now # Nil THEN r.ec.now ELSE time
            d == Evaluate(Contents[s], r.key, r.ec, NotLoaded, t)
        IN ~IsSuspended(d) =>
             /\ Evaluate(Contents[s], r.key, r.ec, Loaded(sub), t) = d
             /\ d.enabled => Meter(d, r.ec, Loaded(sub), t) = Meter(d, r.ec, NotLoaded, t)

\* Whatever Evaluate decides, it blames no usage store, and it does not turn a
\* feature on for which it lacks the subscription (evaluate.go:77-84, 129-134).
NeedsSubscription ==
    \A s \in Snapshots, r \in Requests, sc \in Caches, time \in Times :
        LET t == IF r.ec.now # Nil THEN r.ec.now ELSE time
            d == Evaluate(Contents[s], r.key, r.ec, sc, t)
        IN /\ d.enabled => d.err # "usage_store"
           /\ sc = LoadFailed /\ IsSuspended(Evaluate(Contents[s], r.key, r.ec, NotLoaded, t))
                => ~d.enabled

\* The cap an enabled decision is metered with is a limit some snapshot and
\* subscription give the feature (meter.go:96-107).
CapsAreLimits ==
    \A s \in Snapshots, r \in Requests, sc \in Caches, time \in Times :
        LET t == IF r.ec.now # Nil THEN r.ec.now ELSE time
            d == Evaluate(Contents[s], r.key, r.ec, sc, t)
            m == Meter(d, r.ec, sc, t)
        IN d.enabled => \E limit \in LimitsOn[m.key.feature] : limit = Nil \/ m.max = limit.max

-----------------------------------------------------------------------------
\* evaluate.go:21-23: "failures surface as an off decision with Reason
\* store_error and Err set".
StoreErrorSurfaces ==
    \A c \in Callers : pc[c] = "hooks" /\ cache[c] = LoadFailed =>
        decision[c].reason = "store_error" /\ decision[c].err # Nil
=============================================================================
