SPECIFICATION Spec
CONSTANTS
    a1 = a1  a2 = a2  u1 = u1  u2 = u2
    Accounts = {a1, a2}
    Users = {u1, u2}
    Members <- MCMembers
    Journals = {j1, j2}
    NoAccount = NoAccount
    NoJournal = NoJournal
    Admin = Admin
    Workers = {w1}
    Amounts = {1}
    LimitRows <- MCTwoRows
    DefaultLimit <- MCDefaultLimit
    StoresFail = TRUE
SYMMETRY Symmetry
INVARIANT DeletedAtZero
PROPERTIES PromiseKept WithinLimits MirrorsRepaired
CHECK_DEADLOCK FALSE
