\* One closer; a bid commits between the scan and the closing.
SPECIFICATION Spec
CONSTANTS
    u1 = u1
    u2 = u2
    a1 = a1
    r1 = r1
    c1 = c1
    Users = {u1, u2}
    Sellers = {u1, u2}
    Auctions = {a1}
    BidReqs = {r1}
    EditReqs = {}
    Closers = {c1}
    OtherTxns = {}
    Amounts = {1, 2}
    MaxTime = 1
    MinLead = 1
    Cents = 2
    StartBalance <- MCStartBalance
    NoOne = NoOne
SYMMETRY Symmetry
\* The bounded clock stops, and nobody has to bid: the system may rest.
CHECK_DEADLOCK FALSE
INVARIANTS
    WinningBidReachesSeller
