# A verification of featurelayer

featurelayer is a Go library that answers one question: may tenant T use feature F
now, with which variant and limit? This directory models it in TLA+, checks the
models with TLC and proves the main results with TLAPS. Each definition's place in the
source is in `PROJECT.json` under `map`.

## The system

| component | state | operations | hard part |
|---|---|---|---|
| `Engine` (`engine.go`, `evaluate.go`, `meter.go`) | an atomic snapshot pointer; per call: a subscription cache | `Evaluate`, `Consume`, `Usage`, `Apply`, `Snapshot`; hooks | a call reads snapshot, clock and subscription at different instants, and charges later still |
| decision pipeline (`evaluate.go`) | none | `evaluate`, `meterParams`, `usageInfo` | prerequisites recurse; the subscription is loaded lazily; every branch must fail closed |
| flag evaluation (`flags/flag.go`, `evaluator.go`, `condition.go`) | compiled regexps | `Active`, `Serve`, `InSegment` | missing attributes, nested segments, rollout shares that move |
| semantic versions (`flags/semver.go`) | none | `matchSemver` | pre-releases, numbers against text, unequal lengths |
| entitlements (`entitlement/resolver.go`, `subscription.go`) | flattened plans | `Resolve`, `EffectivePlan`, `EffectiveAddOns` | denies, trials, grants, add-ons and inheritance interact over time |
| periods (`entitlement/period.go`) | none | `PeriodStart`, `PeriodEnd`, `PeriodKey` | month ends, leap years, instants before the anchor |
| `UsageStore`, `MemUsage` | a map of counters, a mutex | `Get`, `Increment` | check-and-add under concurrency; overflow |
| `SubscriptionStore`, `MemSubscriptions` | a map, an RW mutex | `Subscription`, `Set`, `Delete` | edits during calls |
| validation (`validate.go`) | none | `validate`, in `NewSnapshot` | what the others rely on without a check: no cycles, agreeing periods, known keys |
| snapshot and copies (`snapshot.go`, `clone.go`) | immutable maps | `NewSnapshot`, accessors | nothing the application holds may alias what a snapshot reads |
| catalog keys, JSON configuration | none | parsing | text only |

The engine calls the two stores through interfaces, which may be remote and fail. The
application calls the engine, `Apply` and the subscription store from any goroutine.
Hooks are called synchronously from the goroutine that made the call.

What makes each component correct: the engine decides on values that were current during
the call, charges once and tells its hooks; the pipeline fails closed; the resolver lets
a deny win and never punishes an upgrade or a purchase; periods tile time; the usage
store is atomic and respects caps; the subscription store never touches its map while
another does; shares are right to one bucket and a ramp takes the feature from nobody;
versions order as
semver orders them; validation accepts only what the rest can run; no write of the
application reaches a snapshot. `PROJECT.json` lists the hazards at their lines with
the properties that would catch them.

## Modules

`GoValues` (absent values, int64) is under everything.

* **`Counters`, `UsageStore`, `MemUsage`.** `Counters` has the arithmetic of a counter.
  `UsageStore` is the abstract specification: a call of the store takes effect at one
  instant (`TakeEffect`) between call and return. `MemUsage` is `memstore.go` statement
  by statement: `Lock`, `Read`, `Check`, `Write`, `Unlock`, with the locals `cur` and
  `allowed` per caller. `Promise` maps it to `UsageStore`: a call has taken effect when
  its answer is decided, still under the lock. `MemUsageProofs` has the theorems.
* **`Period`, `PeriodClock`.** `Period` is `period.go` on Gregorian dates; the two search
  loops are the recursive functions `back` and `forward`. A `time.Duration` saturates or
  wraps at `MaxDuration`. `PeriodClock` lets a clock run under each period and anchor.
  `PeriodProofs` has the theorems.
* **`Entitlement`, `SubscriptionLife`.** `Entitlement` is the resolver. `SubscriptionLife`
  stores one tenant's successive subscriptions: every action is a `Set` or `Delete` of
  the subscription store with the value an application would store, and time passes.
  `ValidationProofs` has the theorems, since they rest on what validation accepts.
* **`FlagEvaluation`, `Evaluation`.** Pure functions: `Serve` and `Match`, then `Evaluate`,
  which is `evaluate` over a snapshot, a context, the subscription cache and a time. The
  lazy load is modelled by suspension: `Evaluate` without a loaded subscription yields
  `Suspended` exactly where the code would call the store. `EvaluateFeature` is one
  level of the recursion, given the decisions on the prerequisites.
* **`Engine`.** Callers, appliers, stores and clock. A call is `Invoke`, `LoadSnap`,
  `ReadClock` (which also runs the pipeline up to the point where the subscription is
  needed), perhaps `LoadSub`, then `ChargeAdded`, `ChargeRefused`, `ChargeFailed` or
  `Get`, one `FireHook` per hook, and `Return`. Steps that only compute on the call's own
  copies are joined to the read before them, which nobody can observe. `Apply` is
  the swap; `TellHook` and `ApplyReturn` follow it. `Store` is `Set` and `Delete`.
  The usage store is taken at its interface: `Add` is one step, which `MemUsage` justifies
  for the in-memory one. `seen` and `charged` are history variables of the properties.
  `EngineProofs` has the theorems.
* **`SubscriptionStore`, `MemSubscriptions`.** As for the usage store: the abstract promise,
  and `memstore.go`'s `Set`, `Delete` and `Subscription` over the `sync.RWMutex`.
  The lock is external code and modelled as Go documents it: `Announce` takes the
  writers' mutex, `Exclusive` is the wait for the readers of the moment, later readers
  wait in `waiting` and are let in by the writer's unlock. `MemSubscriptionsProofs` has the theorems.
* **`DependencyCycles`.** `checkDependencyCycles`, one action per turn of its loops: `Scan`
  over the features, and for the innermost visit `Pass`, `Descend`, `Report`, `Finish`.
  `stack` is the recursion of `visit`, `at` the position of each visit in `DependsOn`.
  `DependencyCyclesProofs` has the theorems.
* **`Validation`, `RolloutLife`.** `Validation` has every check of `validate`; the state is the
  `Config` a team edits part by part, and its properties say what the resolver, the
  pipeline and the flags may assume once it is accepted. There `HasCycle` stands for the
  search, which `DependencyCycles` and its theorems justify; the chain of a plan's `Extends`
  is followed step by step, as `validate.go` does (`Walk`). `RolloutLife` has a team widen,
  narrow and shift the portions of a split through `NewSnapshot`; each edit is `Submit`ted and
  refused or put in force, and tenants are served by `FlagEvaluation`. Its assumptions say what
  IEEE 754 says of `Round`: the result is a nearest float. `ValidationProofs`
  has the theorems of the first, `FlagProofs` those of the second.
* **`Isolation`.** A value is the set of memory cells it reaches; a cell has a path of fields,
  and `References` lists the paths of each type. Each `Clone...` operator is the set of paths
  that clone function renews, and shares the rest. The application writes any
  cell it reaches (`Write`), through its `Config`, a copy an accessor returned, or a
  decision, and builds its next `Config` from copies (`Reuse`). `IsolationProofs` has the
  theorems.
* **`Semver`.** `parseSemver`, `compareSemver` and `matchSemver`, beside a reference order
  written from semver 2.0; a client's version goes up along its releases. `FlagProofs` has
  the theorems.

Names ending in what went wrong (`TruncatedPeriods`, `CacheKept`, ...) stand before the
definition they would replace. No specification uses them: each is a bug that the
property named with it in `PROJECT.json` under `mutants` must find.

### What is abstracted

* Decision fields that only explain: `Detail`, `Lifecycle`, `Elapsed`, and `ApplyEvent.At`.
* Attribute values are triples: what `str` renders, what `toFloat` yields, and the list.
* `TextTest` (substring, prefix, suffix, regexp, version) and `Hash` (FNV, modulo 10000) are
  constant operators. The regexp cache is left out: it stores what a compilation returns.
* Percentages, buckets and their sums are float64. A number is counted in a unit so small that
  every float and a hundredth of a percent are multiples of it, and `Round` takes a quotient
  (`BucketOf`) or a sum (`Shares`) to a nearest float, wherever the code divides or adds.
  So 1.1 and 2.2 add up to more than 3.3, as in Go. Not in the model: a percentage that is
  infinite or no number, which JSON cannot write; and a sum above the largest float, which Go makes
  infinite and the model the largest float: validation refuses both as more than 100.
* Instants are ticks; `PeriodKey` is the start of the period, so two instants that RFC 3339
  renders alike (a difference below a second) do not occur. The key of period none, `""`,
  is `Nil`.
* In `Entitlement` and `Evaluation`, `ents` of a plan is a function of the feature, `Extends`
  chains end, prerequisites have no cycle. `Validation` shows that other configurations are refused.
* Key syntax is the constant set `ValidKeys`, well-formed regexps and versions the constant
  `Compiles`; an error is the field it names. A version is what is between its dots.
* A failing subscription store yields any error but `ErrNoSubscription`; contexts are not
  cancelled otherwise. Panics are left out.

## Runs

| run | question | bounds, and why they are enough |
|---|---|---|
| `MemUsage` | is the in-memory store atomic, and does every call return? | two callers suffice for each race on one lock; two counters; 3-bit integers, so that the uncapped one wraps; two caps on one counter, as after a plan change |
| `MemSubscriptions` | does the RW mutex keep the map safe, is the store atomic, and does every call return? | three callers: two readers that keep the lock between them, or two writers that queue; one tenant, since the lock is shared by all |
| `PeriodClock` | do periods tile time? | half-day ticks over 2¼ years, with a leap day, anchors on the 31st, on 29 February, in the future, and none |
| `SubscriptionLife` | do entitlements follow the rules of sale? | three plans in a chain, two add-ons, four grants, two trials (one of a plan that is gone), lists of two |
| `EngineCalls` | do concurrent calls decide on current values and keep the limits? | two callers, two snapshots that differ in every way the call can see, two subscriptions, two edits, a clock step that ends a month, a day and a trial |
| `EngineFaults` | is every outcome charged and told right when stores fail, and is the trail of applied snapshots complete? | one caller, since no other is in its path; sixteen requests; two appliers, three Applies, two hooks of each kind |
| `DependencyCycles` | is every cyclic part reported, nothing else, in linear time? | all catalogs of four features with up to two prerequisites each in every order, and all of three with duplicate keys, unknown and own ones |
| `Validation` | may the rest rely on what validation accepts; do rollouts serve what they say and stay stable although sums are rounded? | for each part lists that are right and one that is wrong for every check; three arms over eight buckets, floats of seven bits with a hundredth of 31 units, chosen so that a boundary falls beyond a bucket as with 1.1 and 2.2; every number of hundredths and two percentages in between |
| `Isolation` | does any write reach a snapshot? | one definition of each kind and a second plan that extends the first; two snapshots, two copies held, four copies made: enough for a copy of a copy of a snapshot to become a Config |
| `Semver` | do version conditions follow precedence, and never close on an upgrade? | identifiers whose order as text differs from that of their numbers, pre-releases of up to two, one to four parts |
| `UnknownPlan`, `StoreError` | what the source says that the code does not do | as the run of the same module |

`MaxEdits`, `LastTime`, `LastTick`, `MaxList`, `MaxMade`, `MaxSnapshots`, `MaxCopies`,
`MaxPart` and `MaxPre` bound what would grow for ever, and are guards of the actions that count.
`MaxInt` and `MaxDuration` are the code's own: the largest int64 and the largest
`time.Duration`, small in the runs. The
constraint `MCBound` of `EngineFaults` follows the second and third edit only while nobody
calls: a call is affected by what it finds and not by how it came about, while the chain
of Applies concerns no call. Where a bound lets the system stop (`PeriodClock`,
`Isolation`, `Semver`) the run does not check for deadlock; in the others it does.
Callers and appliers are symmetric in the engine's runs, which check no liveness.

### Findings

* `UnknownPlan`: `resolver.go:11-12` says resolution fails closed on an unknown plan; an
  add-on without `Requires` still entitles.
* `StoreError`: `evaluate.go:21-23` says failures surface with reason `store_error`; below
  a prerequisite the reason is `prerequisite`, though `Err` is set. The feature is
  off in both cases (`FailClosed`).

More statements of the source are stated as properties and refuted by TLC. They are kept
beside the runs, each with its configuration (`tlc -config <name>.cfg <module>`):

* `MemUsageOverflow` (`MCMemUsage`, `AddsExactly`): `store.go:31` promises the total of what was
  added; `memstore.go:63` adds without an overflow check, so the counter wraps to a negative
  total. `AddsExactlyHolds` proves that nothing else can break the property.
* `FarAnchor` (`MCPeriodClock`, `InsidePeriod`): `period.go:5` promises the period that contains
  now; `now.Sub` at `period.go:47` saturates at 292 years, and the product of the period with its
  number wraps, so the period of an anchor farther off than that lies elsewhere.
* `LimitsOverflow` (`MCSubscriptionLife`, `LimitsSummed`): `resolver.go:224` sums limits in
  int64; a negative sum reads as uncapped.
* `OverReported` (`MCDependencyCycles`, `OneErrorPerComponent`): `validate.go:308` says one error
  per disjoint cyclic component. With a needing c, b needing d, c needing a and b, d
  needing b and c, all in one component, two errors are added: the scan blackens only what was on
  the stack when the first cycle closed.
* `SharedVariant` (`MCIsolation`, `VariantReadOnly`): `snapshot.go:12` calls the snapshot
  immutable; `Decision.Variant` (`evaluate.go:125`, `flag.go:109`) points into it.
* `SharedElements` (`MCIsolation`, `OneException`): `snapshot.go:27-28` names `Variant.Value` and
  `Condition.Value` as the exception; the elements of `Condition.Values` are shared too
  (`clone.go:26`).
* `HyphenedVersions` (`MCSemver`, `FollowsPrecedence`): `semver.go:64` reads the identifier `-5`
  as the number −5, which the precedence of semver, cited at `semver.go:43`, does not.

### Fairness

The two in-memory stores claim liveness: each call returns, as part of `KeepsPromise`. Weak
fairness of a caller's steps says that a goroutine that can run does. `Lock` of `MemUsage` and
`Announce` of `MemSubscriptions` are strongly fair: `sync.Mutex`, which is also the
writers' mutex of an `RWMutex`, hands itself to a waiter that has starved for a
millisecond, so it is not overtaken for ever. A reader needs no more than weak
fairness: the writer it waits for lets it in. Invoking is not fair: nobody need call. The
engine's calls contain no waiting of their own. That the search for cycles ends needs no
fairness but that it runs: by `LinearSearch` every step leaves less to do.

## Proofs

The theorems hold for all values of the constants that satisfy the named assumptions,
which TLC evaluates in the runs.

**`MemUsageProofs`.** `Inv` conjoins types, `FreshUnderLock`, `Checked` and `CapHeld`.
`CapHeld` alone is not inductive: a write may pass the cap unless what is written was
checked (`Checked`), and the check means nothing unless the counter is still what was
read (`FreshUnderLock`), which is where mutual exclusion enters. `Linearizable` maps each
step to a step of `UsageStore` or a stutter. `AddsExactlyHolds` assumes that no sum
overflows.

**`MemSubscriptionsProofs`.** The invariant says who may be at which label given `writer`,
`readers` and `waiting`; `NoRace` is a part, and `Linearizable` maps each step to one of
`SubscriptionStore` or a stutter.

**`EngineProofs`.** For every set of callers, snapshots, subscriptions and requests. Of the
snapshots it assumes what `NewSnapshot` enforces and `PrerequisitesEndHolds` proves of it: that
prerequisites exist and their chains end (`ContentsAssumption`, with the convention that `Nil` is no
record and no text).

* The pipeline first. `Evaluate` recurs along the prerequisites: two solutions of its equation agree on the
  features both decide (`SolutionsAgree`, by a least feature on which they differ), and the union
  of the sets that can be decided is all of them (`SolutionExists`), so `Unfold` may expand `Evaluate`
  one level. `ShutIs`, `RefusedIs` and `PassedIs` say where one feature's evaluation ends and
  `FirstOffIs` which prerequisite decides. From the prerequisites to the feature, a verdict that
  was not suspended stays the same with any subscription (`LazyVerdict`), and one that the failed
  load turned on was not suspended (`FailedVerdict`). They give `LazyLoading`, `NeedsSubscription` and
  `CapsAreLimits`; below, `Evaluate`, `Meter` and `UsageInfo` are not expanded any more.

* `CurrentInv` says of each caller (`Reads`) that the present instant has been seen while it
  evaluates, that what it read is among the instants seen, and that the cache is empty
  before the load; and (`Verdict`) that what it decided is the pipeline's answer on these.
  `ReadsCurrent` is a part of it. For `AtomicUnlessTwoMove`, `OneInstant` finds the instant that
  has all three values, and `LazyLoading` covers a call that never loaded
  the subscription.
* `ChargeInv`: nothing is charged before the store is asked, and it is asked only by a Consume
  with a yes. `HookInv`: a call that has decided has told the first n hooks, all the same.
  They give `ChargedOnce` and the action property `HooksTold`.
* `ClosedInv`: a call that goes on to the usage store holds a yes, not blamed on that store, and
  no failed load; one that waits for the subscription was suspended for the very time and
  snapshot it will decide with. `CapInv`: a call about to charge holds a cap that is some
  snapshot's limit; `AddWithinLimits` shows that what fits under it stays within `LimitHeld`.
  They rest on `NeedsSubscription` and `CapsAreLimits`.
* For `ApplyChain`, which counts, the events of a hook are split into those it was told and those
  it is still to be told: `ApplyMentions` adds one to the second, `TellMentions` moves it to the
  first, by the cardinality of finite sets; `IdleTold` says that an applier starts from
  none told.

**`DependencyCyclesProofs`.** For every catalog. `Path` says that the visits in progress form a
path from the entry; `Gray` that they are the gray features; `Looked` and `Scanned` that
what is behind a position is finished; `Inside` that the path never leaves the part of
the catalog it entered. `Finishes` is the core: in a part with no report, a finished feature
depends only on finished ones, and among any set of them one depends on none of the set.
When the scan is done everything is finished, so the part is acyclic: `CyclesReported`.
`NoFalseAlarm` is proved along: at a report the path itself is a set in
which everything depends on another of the set. For `LinearSearch`, `VisitPays` and `MoveOnPays`
count by cardinality: a visit makes one white feature gray, every look reads one entry.

**`IsolationProofs`.** For every set of definitions and any number of snapshots, copies and
decisions. First about paths: `Covers` relates what a clone function renews to what its type
refers to; `CoversBehind` and `CoversUnion` carry it up field by field, to `AllCovered`: no kind of
definition has a reference that its clone function forgets, but for what interfaces hold.
Then about steps: `WritesStayOut` is not inductive, being about the last write while the
next goes wherever what is held reaches; `Separate` says that the Config, the copies and
the decisions share no cell with what snapshots read nor with one another, and `Typed`
that every cell is one its definition refers to. A copy is apart because it is new (`CopyNew`).

**`PeriodProofs`.** For every anchor and clock. The calendar first: `MonthLength` (28 to 31 days),
`EveryDay` and `OneMonth` make `MonthOf` the month a day is in, for every day of the Gregorian
calendar. `ClampedOrder` says that the anchor's instants of successive months rise. The two loops
are recursive functions on the integers; `Rewind` and `Advance` show that the function
that jumps to the one period containing the instant satisfies their recursive equation.
`PeriodIs` collects the cases: a reported period lies between two neighbours of the grid `Boundary`.
With the invariant `Clock`, that the report is computed from the clock's own state, it gives
`InsidePeriod` and `Seamless`, the latter because two periods of the grid that hold successive
instants are the same or adjoin. Their hypothesis `InReach` keeps the clock within 292 years of the
anchor; `FarAnchor` shows that it is needed. `OnAnchorDay` needs none.

**`ValidationProofs`.** For every list a team may submit.

* `ConfigOK`: the configuration is one of the edited ones. From it and `Accepted`, each check that found
  nothing says something of the lists (`NoError`, `FlagOK`, `ConditionOK`, `KeysOK`); these give
  `SegmentsExist`, `VariantsExist`, `WindowOpens` and `PrerequisitesEnd`.
* That `Extends` chains end: a chain followed for as many steps as there are plans has met a plan
  twice or left the catalog (`WalkRepeats`, the pigeonhole principle), and a repetition is what the
  check reports (`WalkEnds`). `PlansEnd` states it as `ValidPlans`, which is the assumption on plans
  of `Entitlement` and `SubscriptionLife`: what is assumed there is proved here of accepted ones.
* On such plans the recursive flattening has a closed form, `FlatIs`: a plan gives what the nearest plan
  `Above` it gives. `ResolverBuilds` and, by `LimitCompared`, `PeriodsAgree` follow.
* Entitlements: `TypeOK` is inductive. `ResolvedIs` reduces `Resolve` to three questions, whether a grant
  denies, whether one allows, and which sources give a limit; `DenyWins`, `ExpiredIsAbsent` and
  `UpgradeKeepsFeatures` compare these between two subscriptions. For `AddOnNeverHurts` the sum of limits is
  a function of how many are added (`Sums`); its bound and its growth are found by a least
  counterexample. The hypothesis `LimitsFit` says that no sum of the snapshot's limits can
  wrap, which `validate.go:261` does not check (it refuses negative limits only);
  `LimitsOverflow` shows that it is needed.

**`FlagProofs`.** For any arms, percentages, tenants and floats that `RolloutAssumption`,
`FloatsAssumption` and `FlagAssumption` allow, and for every version.

* `RolloutOK`: while a rollout is on, the split has its arms in their order, and it is empty or
  what validation let through. Of `Round` the proofs use that it is monotone, keeps floats, and
  is off by at most `Error` up to 100 percent. `SharesAre` and `BoundariesRise` make the boundaries
  the rounded running sums of the shares, so a bucket falls in the one portion whose
  boundaries enclose it (`HitBetween`). A boundary is one share above the last but for an error
  (`BoundaryNear`), so the buckets between them are the share's, give or take one: `SharesWithinOne`.
* When a portion widens, its boundary and every later one can only rise, rounded or not
  (`Joins`, `Widens`): `RampKeepsTenants`. When a share goes to the next portion, the boundaries
  before it stay, its own falls, and each later one is rounded anew: it moves by no more than the errors made on
  the way (`GivenAfter`), which are less than a bucket together, so at most one tenant crosses it
  (`OneCrosses`, `FewCross`): `ShiftIsLocal`.
* `TotalsNear` compares the float sum with the sum as written. A sum of 100 as written is within the
  tolerance of `validate.go:244`, and short of 100 by less than a bucket, so the last bucket is
  below it (`LetIn`): `FullRolloutServesAll`.
* What this takes of the floats is `FloatsAssumption`: all errors of a rollout together are within the
  tolerance and less than a bucket. Up to 128 a float64 is off by at most 7.2e-15, the tolerance is 1e-9 and
  a bucket 0.01, so it holds of rollouts of tens of thousands of portions. That nothing more can be
  said is seen in the run: with `Error` 1, portions do get a bucket more than their share, and
  shifts do move a tenant of a third portion.
* Versions: `DifferenceIs` says what the first difference of two lists tells;
  `VersionsCompared` makes `compareSemver` the order of semver 2.0 (`FollowsPrecedence`);
  `BelowOrder` that this order is transitive, and `Upgrades` that a release is above the one before it
  (`UpgradesNeverRevert`). The hypothesis `Plain`, that the identifiers which read as int64 are those
  made of digits, fails for a hyphen before digits and for numbers beyond int64;
  `HyphenedVersions` shows that it is needed.

The hypotheses on parameters (`NoOverflow`, `InReach`, `LimitsFit`, `Plain`) each exclude what a counterexample
kept beside the runs shows.

Only model-checked: the liveness in `KeepsPromise` (its safety is `Linearizable`), which is beyond the
prover. Recursive definitions are proved about where the recursion is a function on numbers, plans
or features whose end is known: the prover has no induction over data,
so the proofs take the least counterexample, or exhibit the closed form that satisfies the equation.

## Not modelled

* JSON decoding is `encoding/json`'s; the struct tags have no behaviour of their own.
* The syntax of keys, the splitting of version texts, the FNV hash and the regexp engine
  are text processing: constants stand for their results.
* The regexp cache (`evaluator.go:43`): two goroutines may both compile a pattern and store equal
  results, which nothing can tell apart.
* `ApplyEvent.At` is read after the swap, so the times of two events may be the other way
  round than the swaps; no doc promises their order.
* The memory a stored subscription shares with its callers (`memstore.go:31-32`, `40`), which the
  documentation leaves to them: subscriptions are values here.
* Wording and order of validation errors; panics.

## Plan

Done: the stores with their refinements, periods, entitlements, the engine, validation with
the search for cycles, rollouts, isolation, semver; and a theorem for each safety and action
property that the runs check.

Left, in this order:

1. An abstract engine, in which a call takes effect at one instant, refined by `Engine` where
   at most one value moves; `AtomicUnlessTwoMove` says this of one state.
2. The sharing of stored subscriptions between store and callers, as `Isolation` does for snapshots.
