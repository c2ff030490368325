SPECIFICATION Spec
CONSTANTS
    Workers = {w1, w2}
    Emails = {e1, e2}
    Tokens = {t1, t2, t3}
    NoToken = NoToken
    NoEmail = NoEmail
    Uses = 2
    StoresFail = TRUE
SYMMETRY Symmetry
INVARIANTS SpentOnlyWhenRedeemed SentTokensHonoured RedeemedOnce
CHECK_DEADLOCK FALSE
