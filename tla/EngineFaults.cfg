CONSTANTS
    Nil = Nil
    MaxInt = 3
    TicksPerDay = 1
    MaxDuration = 106751
    Hash <- MCHash
    Hundredth = 1
    Round <- MCRound
    TextTest <- MCTextTest
    HasSubscriptions = TRUE
    HasUsage = TRUE
    Callers = {c1}
    Appliers = {a1, a2}
    Tenants = {"acme"}
    Snapshots = {"old", "new"}
    Contents <- MCContents
    Initial = "old"
    Subscriptions <- MCSubscriptionsFaults
    Requests <- MCRequestsFaults
    DecisionHooks = 2
    ApplyHooks = 2
    FailingStores = {"subs", "usage"}
    FirstTime = 30
    LastTime = 31
    MaxEdits = 3
SYMMETRY MCSymmetry
SPECIFICATION Spec
CONSTRAINT MCBound
INVARIANTS TypeOK ChargedOnce FailClosed ApplyChain
PROPERTIES HooksTold
