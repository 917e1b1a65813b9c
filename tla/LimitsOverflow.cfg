CONSTANTS
    Nil = Nil
    MaxInt = 3
    api = api
    audit = audit
    export = export
    free = free
    pro = pro
    team = team
    gone = gone
    packs = packs
    seats = seats
    Plans <- MCPlans
    AddOns <- MCAddOns
    Features = {api, audit, export}
    PlanIDs = {free, pro, team, gone}
    AddOnIDs = {packs, seats}
    Grants <- MCGrants
    Trials <- MCTrials
    MaxList = 2
    LastTime = 3
SPECIFICATION Spec
INVARIANTS LimitsSummed
