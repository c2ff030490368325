SPECIFICATION Spec
CONSTANTS
    n1 = n1  n2 = n2
    web = web  bread = bread
    Entities = {n1, n2}
    Tags = {web, bread}
    Runs = {r1, r2}
    Slots = {s1}
    Searches <- MCSearches
    HitLimit = 1
    CallsFail = TRUE
INVARIANTS NothingMissed MailsTellNews
PROPERTIES RunsEnd
