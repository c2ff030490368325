SPECIFICATION Spec
CONSTANTS
    old = old  new = new
    Workers = {w1, w2}
    Users = {u1}
    Admins = {a1}
    Entries = {e1, e2}
    IPs = {ip1}
    NoIP = NoIP
    LogIn = {u1}
    Values = {old, new}
    Typed = old
    Blank = Blank
    Asks <- MCAsks
    NoOne = NoOne
    NoEntry = NoEntry
    StoresFail = TRUE
SYMMETRY Symmetry
INVARIANTS TypeOK LogBacked Attributed ShownTrue LastLoginTrue ChangesLogged
CHECK_DEADLOCK FALSE
