SPECIFICATION Spec
CONSTANTS
    food = food  art = art  Food = Food
    Workers = {w1}
    Entities = {n1, n2}
    Names = {food, art, Food}
    Format <- MCFormat
    Ids = {c1, c2}
    NoName = NoName
    NoId = NoId
    NoEntity = NoEntity
    Copies = 2
    StoresFail = TRUE
SYMMETRY MCSymmetry
INVARIANTS TypeOK NamesUnique ListedExist
PROPERTIES RenamesKeepListed
CHECK_DEADLOCK FALSE
