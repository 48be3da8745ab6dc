CONSTANTS
    p1 = p1
    p2 = p2
    m1 = m1
    m2 = m2
    core = core
    redis = redis
    Absent = Absent
    None = None
    Proc = {p1}
    Module = {m1, m2}
    Segment = {core, redis}
    Seg <- Apart
    Longer = {}
    Shapes <- Created
    Version = {1, 2}
    Descriptors <- Described
    Shown <- Details
    Denials <- Denied
    Faults = {"stop", "request"}
    MaxCommands = 5
    MaxWorld = 1
SPECIFICATION Spec
INVARIANTS TypeOK EnabledIsWired PublishReportIsTrue KnownFieldsSurvive LookupIsTrue
PROPERTY EnablesOneByOne
