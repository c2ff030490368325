SPECIFICATION Spec
CONSTANTS
    Dog = Dog
    Workers = {w1}
    Entities = {n1}
    Names = {dog, cat, Dog}
    Formatted = {dog, cat}
    TagIds = {t1, t2}
    NoName = NoName
    NoTag = NoTag
    NoEntity = NoEntity
    Signups <- MCWantAsTyped
    Copies = 1
    StoresFail = TRUE
SYMMETRY Symmetry
VIEW View
INVARIANTS TypeOK NamesUnique TagsIndexed ListedNamesAreTags OffersAnnounced DatesBacked
CHECK_DEADLOCK FALSE
