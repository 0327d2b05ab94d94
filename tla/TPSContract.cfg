SPECIFICATION Spec
CONSTANTS
    a = a
    b = b
    Callers = {a, b}
    Catalogue <- MCCatalogue
    MaxObjects = 2
    Queries <- MCQueries
    Quirks = {"read_fails"}
INVARIANT SelectionSound
INVARIANT SelectionBest
INVARIANT SettledOnOne
CHECK_DEADLOCK FALSE
