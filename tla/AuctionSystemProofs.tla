------------------------- MODULE AuctionSystemProofs -------------------------
(***************************************************************************)
(* Theorems about the whole market, for every set of users, auctions,      *)
(* sessions and goroutines.  The two components share table users, so each *)
(* is the other's environment: a step of one leaves alone the rows that    *)
(* transactions of the other have locked (LeavesOthers), and that is all   *)
(* the invariant of the other needs of it (OthersInv).                     *)
(***************************************************************************)
EXTENDS AuctionSystem, Sums, TLAPS

MarketProofs == INSTANCE BiddingProofs WITH OtherTxns <- Hooks \cup Withdrawers
BankProofs   == INSTANCE WalletProofs WITH OtherTxns <- BidReqs \cup Closers

(* The constants of the system satisfy what the components assume.         *)
LEMMA Assumptions == MarketProofs!BiddingAssumption /\ BankProofs!WalletAssumption
  <1>1. /\ NoOne \notin Users \cup Auctions \cup BidReqs \cup Closers \cup (Hooks \cup Withdrawers)
        /\ NoOne \notin Users \cup Sessions \cup Hooks \cup Withdrawers \cup (BidReqs \cup Closers)
        /\ (Hooks \cup Withdrawers) \cap (BidReqs \cup Closers) = {}
        /\ (BidReqs \cup Closers) \cap (Hooks \cup Withdrawers) = {}
    BY SystemAssumption
  <1>2. MarketProofs!BiddingAssumption
    BY <1>1, SystemAssumption DEF MarketProofs!BiddingAssumption, MarketProofs!IsFiniteSet, IsFiniteSet
  <1>3. BankProofs!WalletAssumption
    BY <1>1, SystemAssumption DEF BankProofs!WalletAssumption, BankProofs!IsFiniteSet, IsFiniteSet
  <1> QED
    BY <1>2, <1>3

(* The theorems are about the same Init and Next as the system's.          *)
LEMMA SameMarket ==
  /\ Market!Init <=> MarketProofs!Init
  /\ Market!Next <=> MarketProofs!Next
  BY DEF
      Market!rowVars, MarketProofs!rowVars, Market!lockVars, MarketProofs!lockVars,
      Market!bidVars, MarketProofs!bidVars, Market!closerVars, MarketProofs!closerVars,
      Market!vars, MarketProofs!vars, Market!Absent, MarketProofs!Absent,
      Market!Active, MarketProofs!Active, Market!Ended, MarketProofs!Ended,
      Market!AbsentRow, MarketProofs!AbsentRow, Market!NoRow, MarketProofs!NoRow,
      Market!NoRequest, MarketProofs!NoRequest, Market!NoEdit, MarketProofs!NoEdit,
      Market!FreeFor, MarketProofs!FreeFor, Market!Without, MarketProofs!Without,
      Market!ReleaseLocks, MarketProofs!ReleaseLocks, Market!Transfer, MarketProofs!Transfer,
      Market!Listed, MarketProofs!Listed, Market!Init, MarketProofs!Init,
      Market!Tick, MarketProofs!Tick, Market!ValidEndTime, MarketProofs!ValidEndTime,
      Market!Create, MarketProofs!Create, Market!EditCheck, MarketProofs!EditCheck,
      Market!EditWrite, MarketProofs!EditWrite, Market!EditFail, MarketProofs!EditFail,
      Market!BidAccepted, MarketProofs!BidAccepted, Market!BidMoves, MarketProofs!BidMoves,
      Market!EndBid, MarketProofs!EndBid, Market!BidLock, MarketProofs!BidLock,
      Market!BidDeduct, MarketProofs!BidDeduct, Market!BidRefuse, MarketProofs!BidRefuse,
      Market!BidRefund, MarketProofs!BidRefund, Market!BidCommit, MarketProofs!BidCommit,
      Market!BidAbort, MarketProofs!BidAbort, Market!BidWaitsFor, MarketProofs!BidWaitsFor,
      Market!DeadlockVictim, MarketProofs!DeadlockVictim, Market!Payout, MarketProofs!Payout,
      Market!CloseMoves, MarketProofs!CloseMoves, Market!EndClose, MarketProofs!EndClose,
      Market!Overdue, MarketProofs!Overdue, Market!Scan, MarketProofs!Scan,
      Market!CloseStatus, MarketProofs!CloseStatus, Market!CloseSkip, MarketProofs!CloseSkip,
      Market!PaySeller, MarketProofs!PaySeller, Market!CloseCommit, MarketProofs!CloseCommit,
      Market!CloseFail, MarketProofs!CloseFail, Market!ScanDone, MarketProofs!ScanDone,
      Market!CloserCrash, MarketProofs!CloserCrash, Market!BidStep, MarketProofs!BidStep,
      Market!EditStep, MarketProofs!EditStep, Market!CloserStep, MarketProofs!CloserStep,
      Market!Next, MarketProofs!Next

LEMMA SameBank ==
  /\ Bank!Init <=> BankProofs!Init
  /\ Bank!Next <=> BankProofs!Next
  BY DEF
      Bank!moneyVars, BankProofs!moneyVars, Bank!stripeVars, BankProofs!stripeVars,
      Bank!depositVars, BankProofs!depositVars, Bank!hookVars, BankProofs!hookVars,
      Bank!drawVars, BankProofs!drawVars, Bank!vars, BankProofs!vars,
      Bank!Completed, BankProofs!Completed, Bank!NoDraw, BankProofs!NoDraw,
      Bank!FreeFor, BankProofs!FreeFor, Bank!Without, BankProofs!Without,
      Bank!Init, BankProofs!Init, Bank!OpenSession, BankProofs!OpenSession,
      Bank!InsertDeposit, BankProofs!InsertDeposit, Bank!InsertFail, BankProofs!InsertFail,
      Bank!Payable, BankProofs!Payable, Bank!Pay, BankProofs!Pay,
      Bank!Expire, BankProofs!Expire, Bank!Settles, BankProofs!Settles,
      Bank!Creditable, BankProofs!Creditable, Bank!EndHook, BankProofs!EndHook,
      Bank!HookLock, BankProofs!HookLock, Bank!HookSkip, BankProofs!HookSkip,
      Bank!HookCredit, BankProofs!HookCredit, Bank!HookCommit, BankProofs!HookCommit,
      Bank!HookAbort, BankProofs!HookAbort, Bank!FailRead, BankProofs!FailRead,
      Bank!FailSkip, BankProofs!FailSkip, Bank!FailWrite, BankProofs!FailWrite,
      Bank!EndDraw, BankProofs!EndDraw, Bank!DrawLock, BankProofs!DrawLock,
      Bank!DrawCount, BankProofs!DrawCount, Bank!Covered, BankProofs!Covered,
      Bank!DrawDeduct, BankProofs!DrawDeduct, Bank!DrawRefuse, BankProofs!DrawRefuse,
      Bank!DrawCommit, BankProofs!DrawCommit, Bank!DrawAbort, BankProofs!DrawAbort,
      Bank!SessionStep, BankProofs!SessionStep, Bank!HookStep, BankProofs!HookStep,
      Bank!DrawStep, BankProofs!DrawStep, Bank!Next, BankProofs!Next
-----------------------------------------------------------------------------
SystemInv == MarketProofs!Inv /\ MarketProofs!HistoryInv /\ BankProofs!Inv

LEMMA SystemInit == Init => SystemInv
  <1> SUFFICES ASSUME Init PROVE SystemInv
    OBVIOUS
  <1>1. MarketProofs!Init /\ BankProofs!Init
    BY SameMarket, SameBank DEF Init
  <1>2. MarketProofs!Inv
    BY <1>1, Assumptions, MarketProofs!InitInv
  <1>3. BankProofs!Inv
    BY <1>1, Assumptions, BankProofs!InitInv
  <1>4. MarketProofs!HistoryInv
    BY <1>1 DEF MarketProofs!Init, MarketProofs!HistoryInv, MarketProofs!HistoryTop, MarketProofs!AbsentRow
  <1> QED
    BY <1>2, <1>3, <1>4 DEF SystemInv

(* A step of the market is one of the bank's environment.                  *)
LEMMA MarketStep == ASSUME SystemInv, Market!Next, UNCHANGED bankVars PROVE SystemInv'
  <1>1. MarketProofs!Inv /\ MarketProofs!HistoryInv /\ BankProofs!Inv /\ MarketProofs!Next
    BY SameMarket DEF SystemInv
  <1>2. MarketProofs!Inv'
    BY <1>1, Assumptions, MarketProofs!NextInv
  <1>3. MarketProofs!HistoryInv'
    BY <1>1, Assumptions, MarketProofs!HistoryStep
  <1>4. ASSUME NEW u \in Users, userLock[u] \in Hooks \cup Withdrawers
        PROVE  userLock'[u] = userLock[u] /\ balance'[u] >= balance[u]
    BY <1>1, <1>4, Assumptions, MarketProofs!LeavesOthers
  <1>5. BankProofs!Inv'
    <2>1. UNCHANGED <<credited, withdrawals, paidOut, depositLock, BankProofs!stripeVars,
                      BankProofs!depositVars, BankProofs!hookVars, BankProofs!drawVars>>
      BY DEF bankVars, BankProofs!stripeVars, BankProofs!depositVars, BankProofs!hookVars,
             BankProofs!drawVars
    <2>2. /\ balance' \in [Users -> Int] /\ BankProofs!NonNegativeBalance'
          /\ userLock' \in [Users -> BankProofs!Txns \cup {NoOne}]
      BY <1>2 DEF MarketProofs!Inv, MarketProofs!TypeOK, MarketProofs!NonNegativeBalance,
                  MarketProofs!Txns, BankProofs!NonNegativeBalance, BankProofs!Txns
    <2> QED
      BY <1>1, <1>4, <2>1, <2>2, Assumptions, BankProofs!OthersInv
  <1> QED
    BY <1>2, <1>3, <1>5 DEF SystemInv

(* A step of the bank is one of the market's environment.                  *)
LEMMA BankStep == ASSUME SystemInv, Bank!Next, UNCHANGED marketVars PROVE SystemInv'
  <1>1. MarketProofs!Inv /\ MarketProofs!HistoryInv /\ BankProofs!Inv /\ BankProofs!Next
    BY SameBank DEF SystemInv
  <1>2. BankProofs!Inv'
    BY <1>1, Assumptions, BankProofs!NextInv
  <1>3. MarketProofs!HistoryInv'
    BY <1>1 DEF marketVars, MarketProofs!HistoryInv, MarketProofs!HistoryTop
  <1>4. ASSUME NEW u \in Users, userLock[u] \in BidReqs \cup Closers
        PROVE  userLock'[u] = userLock[u] /\ balance'[u] >= balance[u]
    BY <1>1, <1>4, Assumptions, BankProofs!LeavesOthers
  <1>5. MarketProofs!Inv'
    <2>1. UNCHANGED <<now, auction, bids, ledger, raced, retimed, auctionLock,
                      MarketProofs!bidVars, edit, MarketProofs!closerVars>>
      BY DEF marketVars, MarketProofs!bidVars, MarketProofs!closerVars
    <2>2. /\ balance' \in [Users -> Int] /\ MarketProofs!NonNegativeBalance'
          /\ userLock' \in [Users -> MarketProofs!Txns \cup {NoOne}]
      BY <1>2 DEF BankProofs!Inv, BankProofs!TypeOK, BankProofs!NonNegativeBalance,
                  BankProofs!Txns, MarketProofs!NonNegativeBalance, MarketProofs!Txns
    <2> QED
      BY <1>1, <1>4, <2>1, <2>2, Assumptions, MarketProofs!OthersInv
  <1> QED
    BY <1>2, <1>3, <1>5 DEF SystemInv

LEMMA SystemStutter == ASSUME SystemInv, UNCHANGED vars PROVE SystemInv'
  <1>1. UNCHANGED <<balance, userLock>> /\ UNCHANGED marketVars /\ UNCHANGED bankVars
    BY DEF vars
  <1>2. MarketProofs!Inv' /\ BankProofs!Inv'
    <2>1. UNCHANGED MarketProofs!vars
      BY <1>1 DEF marketVars, MarketProofs!vars, MarketProofs!rowVars, MarketProofs!lockVars,
                  MarketProofs!bidVars, MarketProofs!closerVars
    <2>2. UNCHANGED BankProofs!vars
      BY <1>1 DEF bankVars, BankProofs!vars, BankProofs!moneyVars, BankProofs!stripeVars,
                  BankProofs!depositVars, BankProofs!hookVars, BankProofs!drawVars
    <2> QED
      BY <2>1, <2>2, Assumptions, MarketProofs!NextInv, BankProofs!NextInv DEF SystemInv
  <1>3. MarketProofs!HistoryInv'
    BY <1>1 DEF SystemInv, marketVars, MarketProofs!HistoryInv, MarketProofs!HistoryTop
  <1> QED
    BY <1>2, <1>3 DEF SystemInv

(* Both components keep their invariants side by side.                     *)
THEOREM SystemInvariance == Spec => []SystemInv
  <1>1. SystemInv /\ [Next]_vars => SystemInv'
    BY MarketStep, BankStep, SystemStutter DEF Next
  <1> QED
    BY <1>1, SystemInit, PTL DEF Spec

(* No balance is spent twice, by a bid here and a withdrawal there.        *)
THEOREM BalancesNeverNegative == Spec => []NonNegativeBalance
  <1>1. SystemInv => NonNegativeBalance
    BY DEF SystemInv, MarketProofs!Inv, MarketProofs!NonNegativeBalance, NonNegativeBalance
  <1> QED
    BY <1>1, SystemInvariance, PTL

(* Deposits and withdrawals disturb nothing that was shown of auctions:    *)
(* escrow, settlement and the history of bids.                             *)
THEOREM AuctionsUndisturbed ==
  Spec => [](Market!EscrowExact /\ Market!SettledExactly /\ Market!HistoryTop)
  <1>1. SystemInv => Market!EscrowExact
    BY DEF SystemInv, MarketProofs!Inv, MarketProofs!EscrowExact, Market!EscrowExact
  <1>2. SystemInv => Market!SettledExactly
    BY DEF SystemInv, MarketProofs!Inv, MarketProofs!SettledExactly, Market!SettledExactly,
           MarketProofs!Absent, Market!Absent, MarketProofs!Ended, Market!Ended,
           MarketProofs!Escrow, Market!Escrow
  <1>3. SystemInv => Market!HistoryTop
    BY DEF SystemInv, MarketProofs!HistoryInv, MarketProofs!HistoryTop, Market!HistoryTop
  <1> QED
    BY <1>1, <1>2, <1>3, SystemInvariance, PTL

(* Nor do bids and closings disturb deposits and withdrawals.              *)
THEOREM WalletUndisturbed ==
  Spec => [](Bank!CreditedOnce /\ Bank!AckedIsCredited /\ Bank!OnePendingWithdrawal)
  <1>1. SystemInv => Bank!CreditedOnce /\ Bank!AckedIsCredited /\ Bank!OnePendingWithdrawal
    BY DEF SystemInv, BankProofs!Inv, BankProofs!CreditedOnce, Bank!CreditedOnce,
           BankProofs!AckedIsCredited, Bank!AckedIsCredited,
           BankProofs!OnePendingWithdrawal, Bank!OnePendingWithdrawal
  <1> QED
    BY <1>1, SystemInvariance, PTL
-----------------------------------------------------------------------------
(* The books.                                                              *)

(* Every module's sum is the same.                                         *)
LEMMA SameSums ==
  \A f, S : /\ MarketProofs!SumFunctionOnSet(f, S) = SumFunctionOnSet(f, S)
            /\ BankProofs!SumFunctionOnSet(f, S) = SumFunctionOnSet(f, S)
            /\ Bank!SumFunctionOnSet(f, S) = SumFunctionOnSet(f, S)
  BY DEF SumFunctionOnSet, FoldFunctionOnSet, MapThenFoldSet,
         MarketProofs!SumFunctionOnSet, MarketProofs!FoldFunctionOnSet, MarketProofs!MapThenFoldSet,
         BankProofs!SumFunctionOnSet, BankProofs!FoldFunctionOnSet, BankProofs!MapThenFoldSet,
         Bank!SumFunctionOnSet, Bank!FoldFunctionOnSet, Bank!MapThenFoldSet

(* Whatever changes a balance is in the ledger of an auction, in a         *)
(* completed deposit or in a withdrawal.                                   *)
Explained ==
  \A u \in Users :
      balance[u] = StartBalance[u] + MarketProofs!Moved(u)
                   + BankProofs!Deposited(u) - BankProofs!Withdrawn(u)

LEMMA BooksTyped ==
  ASSUME SystemInv, NEW u \in Users
  PROVE  /\ balance[u] \in Int /\ StartBalance[u] \in Int /\ MarketProofs!Moved(u) \in Int
         /\ BankProofs!Deposited(u) \in Int /\ BankProofs!Withdrawn(u) \in Int
  <1>1. /\ balance[u] \in Int /\ BankProofs!Deposited(u) \in Int /\ BankProofs!Withdrawn(u) \in Int
    BY Assumptions, BankProofs!BooksAreInt DEF SystemInv
  <1>2. MarketProofs!Moved(u) \in Int
    <2> DEFINE f == [a \in Auctions |-> ledger[a][u]]
    <2>1. \A a \in Auctions : f[a] \in Int
      BY DEF SystemInv, MarketProofs!Inv, MarketProofs!TypeOK
    <2> HIDE DEF f
    <2>2. SumFunctionOnSet(f, Auctions) \in Int
      BY <2>1, SumType, SystemAssumption
    <2> QED
      BY <2>2, SameSums DEF MarketProofs!Moved, f
  <1> QED
    BY <1>1, <1>2, SystemAssumption

LEMMA ExplainedInit == Init => Explained
  <1> SUFFICES ASSUME Init, NEW u \in Users
               PROVE  balance[u] = StartBalance[u] + MarketProofs!Moved(u)
                                   + BankProofs!Deposited(u) - BankProofs!Withdrawn(u)
    BY DEF Explained
  <1>1. MarketProofs!Init /\ BankProofs!Init
    BY SameMarket, SameBank DEF Init
  <1>2. MarketProofs!Moved(u) = 0
    BY <1>1, Assumptions, MarketProofs!LedgerStart
  <1>3. BankProofs!Deposited(u) = 0 /\ BankProofs!Withdrawn(u) = 0 /\ balance[u] = StartBalance[u]
    BY <1>1, Assumptions, BankProofs!BooksStart
  <1>4. StartBalance[u] \in Int
    BY SystemAssumption
  <1> QED
    BY <1>2, <1>3, <1>4

LEMMA ExplainedStep == SystemInv /\ Explained /\ [Next]_vars => Explained'
  <1> SUFFICES ASSUME SystemInv, Explained, [Next]_vars, NEW u \in Users
               PROVE  balance'[u] = StartBalance[u] + MarketProofs!Moved(u)'
                                    + BankProofs!Deposited(u)' - BankProofs!Withdrawn(u)'
    BY DEF Explained
  <1>0. balance[u] = StartBalance[u] + MarketProofs!Moved(u)
                     + BankProofs!Deposited(u) - BankProofs!Withdrawn(u)
    BY DEF Explained
  <1>1. MarketProofs!Inv /\ BankProofs!Inv
    BY DEF SystemInv
  <1>2. CASE Market!Next /\ UNCHANGED bankVars
    <2>1. MarketProofs!Next
      BY <1>2, SameMarket
    <2>2. PICK d \in Int : balance'[u] = balance[u] + d /\ MarketProofs!Moved(u)' = MarketProofs!Moved(u) + d
      BY <1>1, <2>1, Assumptions, MarketProofs!LedgerMoves
    <2>3. /\ BankProofs!Deposited(u)' = BankProofs!Deposited(u)
          /\ BankProofs!Withdrawn(u)' = BankProofs!Withdrawn(u)
      BY <1>2 DEF bankVars, BankProofs!Deposited, BankProofs!Withdrawn
    <2> QED
      BY <1>0, <2>2, <2>3, BooksTyped
  <1>3. CASE Bank!Next /\ UNCHANGED marketVars
    <2>1. BankProofs!Next
      BY <1>3, SameBank
    <2>2. PICK d \in Int, e \in Int :
             /\ balance'[u] = balance[u] + d - e
             /\ BankProofs!Deposited(u)' = BankProofs!Deposited(u) + d
             /\ BankProofs!Withdrawn(u)' = BankProofs!Withdrawn(u) + e
      BY <1>1, <2>1, Assumptions, BankProofs!BooksMove
    <2>3. MarketProofs!Moved(u)' = MarketProofs!Moved(u)
      BY <1>3 DEF marketVars, MarketProofs!Moved
    <2> QED
      BY <1>0, <2>2, <2>3, BooksTyped
  <1>4. CASE UNCHANGED vars
    <2>1. /\ balance' = balance /\ MarketProofs!Moved(u)' = MarketProofs!Moved(u)
          /\ BankProofs!Deposited(u)' = BankProofs!Deposited(u)
          /\ BankProofs!Withdrawn(u)' = BankProofs!Withdrawn(u)
      BY <1>4 DEF vars, marketVars, bankVars, MarketProofs!Moved, BankProofs!Deposited, BankProofs!Withdrawn
    <2> QED
      BY <1>0, <2>1
  <1> QED
    BY <1>2, <1>3, <1>4 DEF Next

(* What auctions have moved to a user, as long as none raced with its      *)
(* closing, is in their rows.                                              *)
LEMMA RowsExplain ==
  ASSUME SystemInv, raced = {}, NEW u \in Users
  PROVE  /\ MarketProofs!Moved(u) = Prices(Sold(u)) - Prices(Leads(u))
         /\ Prices(Sold(u)) \in Int /\ Prices(Leads(u)) \in Int
  <1> DEFINE f == [a \in Auctions |-> ledger[a][u]]
             p == [a \in Auctions |-> auction[a].price]
  <1>1. \A a \in Auctions : p[a] \in Int
    <2>1. ASSUME NEW a \in Auctions PROVE auction[a].price \in Int
      <3>1. auction[a] \in MarketProofs!Row
        BY DEF SystemInv, MarketProofs!Inv, MarketProofs!TypeOK
      <3>2. auction[a].price \in Amounts \cup {0}
        BY <3>1 DEF MarketProofs!Row, MarketProofs!Price
      <3> QED
        <4>1. \A m \in Amounts \cup {0} : m \in Int
          BY SystemAssumption
        <4> QED
          BY <3>2, <4>1
    <2> QED
      BY <2>1
  <1>2. Leads(u) \in SUBSET Auctions /\ Sold(u) \in SUBSET Auctions
    BY DEF Leads, Sold
  <1>3. ASSUME NEW a \in Auctions
        PROVE  /\ ~(a \in Leads(u) /\ a \in Sold(u))
               /\ ledger[a][u] = IF a \in Leads(u) THEN -auction[a].price
                                 ELSE IF a \in Sold(u) THEN auction[a].price ELSE 0
    <2>1. /\ auction[a].status = MarketProofs!Absent =>
                auction[a].winner = NoOne /\ ledger[a][u] = 0
          /\ auction[a].status # MarketProofs!Absent =>
                auction[a].seller \in Users /\ auction[a].winner # auction[a].seller
      BY DEF SystemInv, MarketProofs!Inv, MarketProofs!RowsSound
    <2>2. u # auction[a].seller =>
             ledger[a][u] = IF auction[a].winner = u THEN -auction[a].price ELSE 0
      BY DEF SystemInv, MarketProofs!Inv, MarketProofs!EscrowExact
    <2>3. auction[a].status # MarketProofs!Absent =>
             ledger[a][auction[a].seller] =
                 IF auction[a].status = MarketProofs!Ended
                 THEN (IF auction[a].winner = NoOne THEN 0 ELSE auction[a].price) ELSE 0
      BY DEF SystemInv, MarketProofs!Inv, MarketProofs!SettledExactly, MarketProofs!Escrow
    <2>4. MarketProofs!Absent = 0 /\ MarketProofs!Ended = 2 /\ Market!Ended = 2 /\ u # NoOne
      BY SystemAssumption DEF MarketProofs!Absent, MarketProofs!Ended, Market!Ended
    <2>5. /\ a \in Leads(u) <=> auction[a].winner = u
          /\ a \in Sold(u) <=> /\ auction[a].seller = u
                               /\ auction[a].status = Market!Ended
                               /\ auction[a].winner # NoOne
      BY DEF Leads, Sold
    <2> QED
      BY <2>1, <2>2, <2>3, <2>4, <2>5
  <1>4. \A a \in Auctions : f[a] = IF a \in Leads(u) THEN -p[a] ELSE IF a \in Sold(u) THEN p[a] ELSE 0
    BY <1>3
  <1>5. Leads(u) \cap Sold(u) = {}
    BY <1>2, <1>3
  <1>6. /\ MarketProofs!Moved(u) = SumFunctionOnSet(f, Auctions)
        /\ Prices(Sold(u)) = SumFunctionOnSet(p, Sold(u))
        /\ Prices(Leads(u)) = SumFunctionOnSet(p, Leads(u))
    BY SameSums DEF MarketProofs!Moved, Prices
  <1> HIDE DEF f, p
  <1>7. SumFunctionOnSet(f, Auctions) = SumFunctionOnSet(p, Sold(u)) - SumFunctionOnSet(p, Leads(u))
    BY <1>1, <1>2, <1>4, <1>5, SumSplit, SystemAssumption
  <1>8. SumFunctionOnSet(p, Sold(u)) \in Int /\ SumFunctionOnSet(p, Leads(u)) \in Int
    <2>1. IsFiniteSet(Sold(u)) /\ IsFiniteSet(Leads(u))
      BY <1>2, FS_Subset, SystemAssumption
    <2>2. (\A a \in Sold(u) : p[a] \in Int) /\ (\A a \in Leads(u) : p[a] \in Int)
      BY <1>1, <1>2
    <2> QED
      BY <2>1, <2>2, SumType
  <1> QED
    BY <1>6, <1>7, <1>8

(* The books balance: what a user has is explained by the tables alone.    *)
THEOREM BooksAlwaysBalance == Spec => []BooksBalance
  <1>1. SystemInv /\ Explained => BooksBalance
    <2> SUFFICES ASSUME SystemInv, Explained, raced = {}, NEW u \in Users
                 PROVE  balance[u] = StartBalance[u] + Bank!Deposited(u) - Bank!Withdrawn(u)
                                     - Prices(Leads(u)) + Prices(Sold(u))
      BY DEF BooksBalance
    <2>1. balance[u] = StartBalance[u] + MarketProofs!Moved(u)
                       + BankProofs!Deposited(u) - BankProofs!Withdrawn(u)
      BY DEF Explained
    <2>2. Bank!Deposited(u) = BankProofs!Deposited(u) /\ Bank!Withdrawn(u) = BankProofs!Withdrawn(u)
      BY SameSums DEF Bank!Deposited, BankProofs!Deposited, Bank!Withdrawn, BankProofs!Withdrawn,
                      Bank!SumFunction, BankProofs!SumFunction
    <2> QED
      BY <2>1, <2>2, RowsExplain, BooksTyped
  <1>2. SystemInv /\ [Next]_vars => SystemInv'
    BY MarketStep, BankStep, SystemStutter DEF Next
  <1> QED
    BY <1>1, <1>2, SystemInit, ExplainedInit, ExplainedStep, PTL DEF Spec
=============================================================================
