\* One auction with two concurrent bids and a closer, one deposit and one
\* withdrawal, two users who do all of it.
SPECIFICATION Spec
CONSTANTS
    u1 = u1
    u2 = u2
    a1 = a1
    r1 = r1
    r2 = r2
    c1 = c1
    s1 = s1
    h1 = h1
    w1 = w1
    Users = {u1, u2}
    Sellers = {u1}
    Auctions = {a1}
    BidReqs = {r1, r2}
    EditReqs = {}
    Closers = {c1}
    Sessions = {s1}
    Hooks = {h1}
    Withdrawers = {w1}
    Amounts = {1, 2, 3}
    MinWithdrawal = 2
    MaxTime = 1
    MinLead = 1
    Cents = 2
    StartBalance <- MCStartBalance
    NoOne = NoOne
SYMMETRY Symmetry
\* The bounded clock stops, and nobody has to act: the system may rest.
CHECK_DEADLOCK FALSE
INVARIANTS
    NonNegativeBalance
    BooksBalance
