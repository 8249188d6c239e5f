\* Two auctions of one seller and two concurrent bids that may lock the two
\* bidders in opposite orders, under fairness; nothing is closed.
SPECIFICATION FairSpec
CONSTANTS
    u1 = u1
    u2 = u2
    u3 = u3
    a1 = a1
    a2 = a2
    r1 = r1
    r2 = r2
    Users = {u1, u2, u3}
    Sellers = {u3}
    Auctions = {a1, a2}
    BidReqs = {r1, r2}
    EditReqs = {}
    Closers = {}
    OtherTxns = {}
    Amounts = {1, 2, 3}
    MaxTime = 1
    MinLead = 1
    Cents = 5
    StartBalance <- MCStartBalance
    NoOne = NoOne
\* The bounded clock stops, and nobody has to bid: the system may rest.
CHECK_DEADLOCK FALSE
INVARIANTS
    MoneyConserved
PROPERTIES
    EveryBidAnswered
