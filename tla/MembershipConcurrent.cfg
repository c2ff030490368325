SPECIFICATION Spec
CONSTANTS
    joe = joe
    Workers = {w1, w2}
    Users = {u1}
    Entities = {n1, n2}
    Emails = {joe}
    Lower <- MCLower
    Blank = Blank
    NoUser = NoUser
    NoEntity = NoEntity
    StoresFail = TRUE
SYMMETRY Symmetry
INVARIANTS ListsAgree DeletedUserActsForNone ListedEntitiesLive
CHECK_DEADLOCK FALSE
