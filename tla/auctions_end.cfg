\* One auction, two closer instances, an editor and one bid request after another,
\* under fairness.
SPECIFICATION FairSpec
CONSTANTS
    u1 = u1
    u2 = u2
    a1 = a1
    r1 = r1
    e1 = e1
    c1 = c1
    c2 = c2
    Users = {u1, u2}
    Sellers = {u1, u2}
    Auctions = {a1}
    BidReqs = {r1}
    EditReqs = {e1}
    Closers = {c1, c2}
    OtherTxns = {}
    Amounts = {1, 2, 3}
    MaxTime = 2
    MinLead = 1
    Cents = 4
    StartBalance <- MCStartBalance
    NoOne = NoOne
\* The bounded clock stops, and nobody has to bid: the system may rest.
CHECK_DEADLOCK FALSE
PROPERTIES
    EveryAuctionEnds
