SPECIFICATION Spec
CONSTANTS
    Threads = {t1, t2}
    Sessions = {a, b}
    a = a
    b = b
    Serial <- WaitingClients
    Requests <- MCRequests
    Sources = {v1}
    Capacity = 2
    Rate = 1
    Limit = 1
    MaxCost = 1
    TopK = 1
    MaxMessages = 2
    DayLength = 1
    MaxClock = 1
    MaxRequests = 3
    MaxChanges = 1
    NULL = NULL
SYMMETRY Symmetry
INVARIANTS RateBounded BudgetBounded PriorIsAnswered HistoryBounded
PROPERTIES NoStaleEvidence TrimKeepsWindow ImplementsHistoryStore
