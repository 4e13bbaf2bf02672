CONSTANTS
    a = a  a_ = a_  b = b  x = x  e = e  pj = pj
    t1 = t1  t2 = t2  t3 = t3  t4 = t4
    Content <- MCContent
    Trim <- MCTrim
    Terms <- MCTerms
    AutoCategory <- MCAutoCategory
    Category <- MCCategory
    Unknown = "unknown"
    Rejected = {e}
    Project = {pj}
    NoProject = NoProject
    None = None
    Status = {"accepted"}
    Request <- MCRequest
    Id = {i1, i2}
    Proc = {p1, p2}
    MaxClock = 2
    MaxFaults = 0
SPECIFICATION Spec
CHECK_DEADLOCK FALSE
PROPERTIES OnlyPatchedKeysChange
