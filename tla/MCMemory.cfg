SPECIFICATION FairSpec
CONSTANTS
    o1 = o1
    o2 = o2
    c1 = c1
    c2 = c2
    d = d
    p = p
    f1 = f1
    f2 = f2
    Owner = {o1, o2}
    Conv = {c1, c2, d}
    Project = {p}
    NoConv = NoConv
    NoProject = NoProject
    Fact = {f1, f2}
    OwnerOf <- MCOwnerOf
    ProjectOf <- MCProjectOf
    Cascade = TRUE
    MaxRequests = 1
    Every = 2
    MaxTrack = 1
    Answers <- MCAnswers
    Setups <- MCSetups
    Flips <- MCFlips
    ToolConv = {d}
    Slots = 2
    MaxId = 2
INVARIANTS
    RowsBelong
    Debounced
    TwiceOnlyIfOverlapped
PROPERTIES
    Fades
CHECK_DEADLOCK FALSE
