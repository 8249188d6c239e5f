\* One auction, one page of the list, two concurrent requests of any kind,
\* under fairness.
SPECIFICATION FairSpec
CONSTANTS
    a1 = a1
    r1 = r1
    r2 = r2
    k1 = k1
    None = None
    Auctions = {a1}
    Requests = {r1, r2}
    Keys = {k1}
    MaxPrice = 2
    MaxText = 1
\* Nobody has to come: the system may rest once the entries are gone.
CHECK_DEADLOCK FALSE
PROPERTIES
    DetailKept
    ListsKept
    CachesConverge
