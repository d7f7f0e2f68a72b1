CONSTANTS
    NodeBudget = 3
    Nil = Nil
SPECIFICATION Spec
PROPERTY RejectedAppendKeepsParent
CHECK_DEADLOCK FALSE
