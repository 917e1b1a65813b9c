CONSTANTS
    Nil = Nil
    calls = calls
    emails = emails
    MaxInt = 3
    Callers = {c1, c2}
    Keys <- MCKeys
    Requests <- MCNearMax
SPECIFICATION Spec
PROPERTIES AddsExactly
