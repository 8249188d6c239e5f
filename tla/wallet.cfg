\* One user, two checkout sessions whose events may arrive twice at once,
\* two concurrent withdrawals, under fairness.
SPECIFICATION FairSpec
CONSTANTS
    u1 = u1
    s1 = s1
    s2 = s2
    h1 = h1
    h2 = h2
    w1 = w1
    w2 = w2
    Users = {u1}
    Sessions = {s1, s2}
    Hooks = {h1, h2}
    Withdrawers = {w1, w2}
    OtherTxns = {}
    Amounts = {1, 2}
    MinWithdrawal = 2
    Cents = 1
    StartBalance <- MCStartBalance
    NoOne = NoOne
INVARIANTS
    TypeOK
    CreditedOnce
    CreditedWasPaid
    AckedIsCredited
    OnePendingWithdrawal
    WalletBalanced
PROPERTIES
    PaidIsCredited
    ExpiredIsFailed
