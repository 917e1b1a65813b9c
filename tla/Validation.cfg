CONSTANTS
    Nil = Nil
    MaxInt = 7
    ValidKeys <- MCValidKeys
    LimitPeriods <- MCPeriods
    Compiles <- MCCompiles
    Whole = 248
    Tolerance = 6
    Buckets = 8
    Hundredth = 31
    Error = 1
    Arms <- MCArms
    Percents <- MCPercents
    Floats <- MCFloats
    Round <- MCRound
    Hash <- MCHash
    TextTest <- MCTextTest
    FeatureLists <- MCFeatureLists
    SegmentLists <- MCSegmentLists
    FlagLists <- MCFlagLists
    PlanLists <- MCPlanLists
    AddOnLists <- MCAddOnLists
SPECIFICATION TeamSpec
INVARIANTS ResolverBuilds PeriodsAgree PrerequisitesEnd SegmentsExist VariantsExist WindowOpens SharesWithinOne FullRolloutServesAll
PROPERTIES RampKeepsTenants ShiftIsLocal
