\* One auction, two closer instances, one editor, two concurrent bids.
SPECIFICATION Spec
CONSTANTS
    u1 = u1
    u2 = u2
    u3 = u3
    a1 = a1
    r1 = r1
    r2 = r2
    e1 = e1
    c1 = c1
    c2 = c2
    Users = {u1, u2, u3}
    Sellers = {u1, u2, u3}
    Auctions = {a1}
    BidReqs = {r1, r2}
    EditReqs = {e1}
    Closers = {c1, c2}
    OtherTxns = {}
    Amounts = {1, 2, 3, 4}
    MaxTime = 3
    MinLead = 1
    Cents = 5
    StartBalance <- MCStartBalance
    NoOne = NoOne
SYMMETRY Symmetry
\* The bounded clock stops, and nobody has to bid: the system may rest.
CHECK_DEADLOCK FALSE
INVARIANTS
    TypeOK
    EscrowExact
    HistoryTop
    SettledExactly
PROPERTIES
    FrozenOnceEnded
    EndsOnTime
    ImplementsHouse
