SPECIFICATION BalanceSpec
CONSTANTS
    x1 = x1  x2 = x2  y1 = y1
    i1 = i1  j1 = j1  j2 = j2
    A = A  B = B
    Transactions = {x1, x2, y1}
    Journal <- MCJournal
    Accounts = {A, B}
    From <- MCFrom
    To <- MCTo
    Together <- MCTogether
    Disputed = {j1}
    Closing = {B}
    Slips = {i1}
    Amount <- MCAmount
    Significands = 8
    Window = 0
    Due <- MCDue
    Clock = 1
INVARIANTS CheckTrue
PROPERTIES LedgerAtomic TransactionsEnd
CHECK_DEADLOCK FALSE
