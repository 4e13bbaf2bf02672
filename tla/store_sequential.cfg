CONSTANTS
    a = a  a_ = a_  b = b  x = x  e = e  pj = pj
    t1 = t1  t2 = t2  t3 = t3  t4 = t4
    Content <- MCContent
    Trim <- MCTrim
    Terms <- MCTerms
    AutoCategory <- MCAutoCategory
    Category <- MCCategory
    Unknown = "unknown"
    Rejected = {e}
    Project = {pj}
    NoProject = NoProject
    None = None
    Status = {"accepted", "pending"}
    Request <- MCRequestSequential
    Id = {i1, i2, i3}
    Proc = {p1}
    MaxClock = 3
    MaxFaults = 0
SYMMETRY Permute
SPECIFICATION Spec
CHECK_DEADLOCK FALSE
INVARIANTS SupersedeComplete
