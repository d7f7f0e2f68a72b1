\* Two origins and two containers, so that a move has a bystander on both
\* sides; with one key of two values, a move finds under it no value, the
\* same value or another one to overwrite.  Two tabs share a partition.
CONSTANTS
    Default = Default
    Containers = {Default, c1}
    Origins = {o1, o2}
    Keys = {k1}
    Values = {v1, v2}
    Missing = Missing
    NoPage = NoPage
    Tabs = {t1, t2}
SPECIFICATION Spec
INVARIANTS
    TypeOK
    InSync
PROPERTIES
    ImplementsRecoverableStore
    MovesKeepKeys
