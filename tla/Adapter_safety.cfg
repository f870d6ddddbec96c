SPECIFICATION Spec
CONSTANTS
    Brokers = {"kite", "kotak"}
    Refs = {a, b}
    Qtys = {1, 2}
    kMaxPendingIntents = 2
    MaxOrders = 3
    Budgets <- MCBudgets
    AbsentFill = FALSE
SYMMETRY RefSymmetry
CHECK_DEADLOCK FALSE
INVARIANTS
    FlattenIsSafe
    AnswersAreTrue
