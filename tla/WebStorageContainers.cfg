CONSTANTS
    Default = Default
    Containers = {Default, c1}
    Origins = {o1, o2}
    Keys = {k1}
    Values = {v1}
    Missing = Missing
    NoPage = NoPage
    Tabs = {t1, t2}
SPECIFICATION Spec
INVARIANT ContainersIsolatePages
