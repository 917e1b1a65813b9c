CONSTANTS
    Nil = Nil
    acme = acme
    basic = basic
    pro = pro
    Callers = {c1, c2, c3}
    Tenants <- MCTenants
    Subs <- MCSubs
    Requests <- MCRequests
SPECIFICATION Spec
INVARIANTS TypeOK NoRace
PROPERTIES KeepsPromise
