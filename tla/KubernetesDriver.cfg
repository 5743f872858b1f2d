SPECIFICATION Spec
CONSTANTS
    m1 = m1
    m2 = m2
    i1 = i1
    i2 = i2
    Managers = {m1, m2}
    NoOne = NoOne
    Names = {client}
    Ids = {i1, i2}
    NoId = NoId
    RunIds <- MCRunIds
INVARIANTS
    RunsKeepApart
    StopFreesName
    
CHECK_DEADLOCK FALSE
