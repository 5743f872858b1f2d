SPECIFICATION UnbrokenSpec
CONSTANTS
    Ids = {r1}
    NoId = NoId
    PodInits = {TRUE}
    MaxReplaced = 0
    MaxAdrift = 0
INVARIANTS
    StatusIsTrue
