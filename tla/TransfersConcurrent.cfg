SPECIFICATION Spec
CONSTANTS
    a1 = a1  a2 = a2  u1 = u1  u2 = u2
    Accounts = {a1, a2}
    Users = {u1, u2}
    Members <- MCMembers
    Journals = {j1}
    NoAccount = NoAccount
    NoJournal = NoJournal
    Admin = Admin
    Workers = {w1, w2}
    Amounts = {1}
    LimitRows <- MCOneRow
    DefaultLimit <- MCDefaultLimit
    StoresFail = TRUE
SYMMETRY Symmetry
INVARIANTS BalanceIsPostingTotal StatusMatchesPostings IndexNeverAhead
PROPERTIES CounterpartyConsents
CHECK_DEADLOCK FALSE
