CONSTANTS
    a = a
    b = b
    c = c
    d = d
    ghost = ghost
    Keys <- MCKeys
    Catalogs <- MCCatalogs
SPECIFICATION Spec
INVARIANTS TypeOK CyclesReported NoFalseAlarm
PROPERTIES LinearSearch
