\* Five nodes: the root, a second parent, and three siblings to insert
\* between, or a chain below the root to close a cycle over; a deep clone
\* of a parent with one child fits as well.
CONSTANTS
    NodeBudget = 5
    Nil = Nil
SPECIFICATION Spec
INVARIANTS
    LinksAgree
    Acyclic
PROPERTY ImplementsOrderedForest
CHECK_DEADLOCK FALSE
