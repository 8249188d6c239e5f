------------------------------ MODULE Bidding ------------------------------
(***************************************************************************)
(* Auctions, bids and the money they hold: BidService.PlaceBid,            *)
(* AuctionService.Create and Update, and the AuctionCloser worker, as they *)
(* interleave on one MySQL database (InnoDB row locks).                    *)
(*                                                                         *)
(* A bid and the closing of one auction are transactions.  The rows a      *)
(* transaction has written or read FOR UPDATE stay locked until it ends;   *)
(* what it wrote becomes visible when it commits, and a plain SELECT (the  *)
(* closer's scan, the editor's ownership check) sees committed rows only.  *)
(* So the steps of a transaction take locks, and its last step, the        *)
(* commit, writes all rows at once.  An error, a cancelled request or a    *)
(* crash before the commit is a rollback.                                  *)
(***************************************************************************)
EXTENDS Integers, Sequences, FiniteSets, Functions

CONSTANTS
    Users,         \* rows of table users
    Sellers,       \* the users who offer something
    Auctions,      \* ids of table auctions; a row is Absent until created
    BidReqs,       \* request goroutines that may run PlaceBid
    EditReqs,      \* request goroutines that may run AuctionService.Update
    Closers,       \* running AuctionCloser workers, one per server instance
    OtherTxns,     \* transactions of other components that lock user rows
    Amounts,       \* cents a bid or a starting price may be
    MaxTime,       \* bound: the clock stops here
    MinLead,       \* an auction ends at least this long after it is written
    StartBalance,  \* balance of each user before the first auction
    NoOne          \* no user (NULL winner_id), no auction, no lock holder

ASSUME BiddingAssumption ==
    /\ IsFiniteSet(Users) /\ IsFiniteSet(Auctions)
    /\ Sellers \subseteq Users
    /\ Amounts \subseteq Nat \ {0}
    /\ MaxTime \in Nat
    /\ MinLead \in Nat \ {0}
    /\ StartBalance \in [Users -> Nat]
    /\ NoOne \notin Users \cup Auctions \cup BidReqs \cup Closers \cup OtherTxns
    /\ BidReqs \cap Closers = {}
    /\ OtherTxns \cap (BidReqs \cup Closers) = {}

VARIABLES
    now,          \* the clock of the servers and of the database
    auction,      \* table auctions
    bids,         \* table bids: per auction, in the order they committed
    balance,      \* users.balance
    ledger,       \* history: net cents each auction has moved to each user
    raced,        \* history: auctions a bid or a closer changed while (another)
                  \* closer held an older reading of the row
    retimed,      \* history: auctions whose end time was edited while listed
    auctionLock,  \* transaction holding the row lock of each auction
    userLock,     \* transaction holding the row lock of each user
    bidPc,        \* where each PlaceBid transaction is
    bidReq,       \* its arguments and the auction row it locked
    edit,         \* an Update between its ownership check and its write
    closerPc,     \* where each closer is
    todo,         \* rows its last scan returned and it has not yet handled
    closing       \* the row it is closing

clockVars == now
rowVars    == <<auction, bids, balance, ledger, raced, retimed>>
lockVars   == <<auctionLock, userLock>>
bidVars    == <<bidPc, bidReq>>
closerVars == <<closerPc, todo, closing>>
vars == <<now, rowVars, lockVars, bidVars, edit, closerVars>>
-----------------------------------------------------------------------------
(* Rows.  The statuses are those of model.AuctionStatus, and 0 for no row; *)
(* no code assigns AuctionStatusCancelled (3), so it does not occur.       *)
Absent == 0
Active == 1
EndedAsCancelled == 3
Ended  == 2

Person == Users \cup {NoOne}
Price  == Amounts \cup {0}
Txns   == BidReqs \cup Closers \cup OtherTxns

Row == [seller: Person, price: Price, winner: Person,
        status: 0..2, endTime: 0..MaxTime]

AbsentRow == [seller |-> NoOne, price |-> 0, winner |-> NoOne,
              status |-> Absent, endTime |-> 0]

(* What GetExpiredActiveAuctions returns of a row.                         *)
Expired == [id: Auctions, seller: Person, price: Price, winner: Person]
NoRow   == [id |-> NoOne, seller |-> NoOne, price |-> 0, winner |-> NoOne]

(* A bid request and the columns LockAuctionForBid read under the lock.    *)
Request == [auction: Auctions, user: Users, amount: Amounts,
            price: Price, winner: Person]
NoRequest == [auction |-> NoOne, user |-> NoOne, amount |-> 0,
              price |-> 0, winner |-> NoOne]

NoEdit == [auction |-> NoOne, endTime |-> 0]

BidPcs    == {"idle", "locked", "deducted", "refunded"}
CloserPcs == {"idle", "loop", "closed", "paid"}

(* Cents that auction row a holds in escrow: the price its winner paid.    *)
Escrow(a) == IF auction[a].winner = NoOne THEN 0 ELSE auction[a].price
-----------------------------------------------------------------------------
(* Row locks: waiting for one is the action being disabled.                *)
FreeFor(lock, row, t) == lock[row] \in {NoOne, t}
Without(lock, t)      == [row \in DOMAIN lock |-> IF lock[row] = t THEN NoOne ELSE lock[row]]

(* The end of transaction t, committed or rolled back.                     *)
ReleaseLocks(t) ==
    /\ auctionLock' = Without(auctionLock, t)
    /\ userLock'    = Without(userLock, t)

(* Money moved for user u is recorded per auction as it is applied.        *)
Transfer(a, moves) ==
    /\ balance' = [u \in Users |-> balance[u] + moves[u]]
    /\ ledger'  = [ledger EXCEPT ![a] = [u \in Users |-> ledger[a][u] + moves[u]]]
(* Some closer has read row a and not yet locked it.                       *)
Listed(a) == \E c \in Closers : \E s \in todo[c] : s.id = a
-----------------------------------------------------------------------------
Init ==
    /\ now = 0
    /\ auction = [a \in Auctions |-> AbsentRow]
    /\ bids = [a \in Auctions |-> <<>>]
    /\ balance = StartBalance
    /\ ledger = [a \in Auctions |-> [u \in Users |-> 0]]
    /\ raced = {}
    /\ retimed = {}
    /\ auctionLock = [a \in Auctions |-> NoOne]
    /\ userLock = [u \in Users |-> NoOne]
    /\ bidPc = [r \in BidReqs |-> "idle"]
    /\ bidReq = [r \in BidReqs |-> NoRequest]
    /\ edit = [e \in EditReqs |-> NoEdit]
    /\ closerPc = [c \in Closers |-> "idle"]
    /\ todo = [c \in Closers |-> {}]
    /\ closing = [c \in Closers |-> NoRow]

Tick ==
    /\ now < MaxTime
    /\ now' = now + 1
    /\ UNCHANGED <<rowVars, lockVars, bidVars, edit, closerVars>>
-----------------------------------------------------------------------------
(* AuctionService.Create and Update.                                       *)

ValidEndTime(t) == t >= now + MinLead

Create(a, u, price, t) ==
    /\ auction[a].status = Absent
    /\ ValidEndTime(t)
    /\ auction' = [auction EXCEPT ![a] =
            [seller |-> u, price |-> price, winner |-> NoOne,
             status |-> Active, endTime |-> t]]
    /\ UNCHANGED <<now, bids, balance, ledger, raced, retimed, lockVars, bidVars, edit, closerVars>>

(* Update, first half: the owner's request passes the checks, which read   *)
(* the row without a lock.                                                 *)
EditCheck(e, a, t) ==
    /\ edit[e] = NoEdit
    /\ auction[a].status = Active
    /\ ValidEndTime(t)
    /\ edit' = [edit EXCEPT ![e] = [auction |-> a, endTime |-> t]]
    /\ UNCHANGED <<now, rowVars, lockVars, bidVars, closerVars>>

(* Update, second half: UpdateAuction, one statement of its own; it waits  *)
(* for the row lock and does not look at the status again.                 *)
EditWrite(e) ==
    /\ edit[e] # NoEdit
    /\ auctionLock[edit[e].auction] = NoOne
    /\ auction' = [auction EXCEPT ![edit[e].auction].endTime = edit[e].endTime]
    /\ edit' = [edit EXCEPT ![e] = NoEdit]
    /\ retimed' = IF Listed(edit[e].auction) THEN retimed \cup {edit[e].auction} ELSE retimed
    /\ UNCHANGED <<now, bids, balance, ledger, raced, lockVars, bidVars, closerVars>>

(* The request is cancelled, the statement fails or the server dies.       *)
EditFail(e) ==
    /\ edit[e] # NoEdit
    /\ edit' = [edit EXCEPT ![e] = NoEdit]
    /\ UNCHANGED <<now, rowVars, lockVars, bidVars, closerVars>>
-----------------------------------------------------------------------------
(* BidService.PlaceBid.                                                    *)

(* Mutants: a check of PlaceBid or of LockAuctionForBid dropped or off by one. *)
BidAcceptedAnyStatus(row, u, m) == row.seller # u /\ row.endTime >= now /\ m > row.price
BidAcceptedFromSeller(row, u, m) == row.status = Active /\ row.endTime >= now /\ m > row.price
BidAcceptedAtPrice(row, u, m) ==
    row.status = Active /\ row.seller # u /\ row.endTime >= now /\ m >= row.price

(* LockAuctionForBid's WHERE clause and the checks that follow it; a bid   *)
(* they refuse rolls back having changed nothing, so it takes no step.     *)
BidAccepted(row, u, m) ==
    /\ row.status = Active
    /\ row.seller # u
    /\ row.endTime >= now
    /\ m > row.price

(* Mutants: the previous winner is not refunded, or is refunded the new bid. *)
BidMovesNoRefund(q) == [u \in Users |-> IF u = q.user THEN -q.amount ELSE 0]
BidMovesWrongRefund(q) == [u \in Users |->
    (IF u = q.winner THEN q.amount ELSE 0) - (IF u = q.user THEN q.amount ELSE 0)]

(* What the transaction does to balances: the bidder pays the bid, the     *)
(* previous winner gets back the price read under the lock.                *)
BidMoves(q) == [u \in Users |->
    (IF u = q.winner THEN q.price ELSE 0) - (IF u = q.user THEN q.amount ELSE 0)]

(* Mutant: PlaceBid returns without ending its transaction.                *)
EndBidOpen(r) ==
    /\ bidPc' = [bidPc EXCEPT ![r] = "idle"]
    /\ bidReq' = [bidReq EXCEPT ![r] = NoRequest]
    /\ UNCHANGED <<now, lockVars, edit, closerVars>>

(* A bid request is over and its transaction has ended.                    *)
EndBid(r) ==
    /\ ReleaseLocks(r)
    /\ bidPc' = [bidPc EXCEPT ![r] = "idle"]
    /\ bidReq' = [bidReq EXCEPT ![r] = NoRequest]
    /\ UNCHANGED <<now, edit, closerVars>>

(* The row of the auction is locked and read, and the bid is acceptable.   *)
BidLock(r, a, u, m) ==
    /\ bidPc[r] = "idle"
    /\ FreeFor(auctionLock, a, r)
    /\ BidAccepted(auction[a], u, m)
    /\ auctionLock' = [auctionLock EXCEPT ![a] = r]
    /\ bidPc' = [bidPc EXCEPT ![r] = "locked"]
    /\ bidReq' = [bidReq EXCEPT ![r] =
            [auction |-> a, user |-> u, amount |-> m,
             price |-> auction[a].price, winner |-> auction[a].winner]]
    /\ UNCHANGED <<now, rowVars, userLock, edit, closerVars>>

(* Mutant: the balance is tested by a plain SELECT and deducted later.     *)
BidDeductUnlocked(r) ==
    /\ bidPc[r] = "locked"
    /\ balance[bidReq[r].user] >= bidReq[r].amount
    /\ bidPc' = [bidPc EXCEPT ![r] = "deducted"]
    /\ UNCHANGED <<now, rowVars, lockVars, bidReq, edit, closerVars>>

(* DeductBalance: it waits for the bidder's row, and matches it only when  *)
(* the balance covers the bid.                                             *)
BidDeduct(r) ==
    LET q == bidReq[r] IN
    /\ bidPc[r] = "locked"
    /\ FreeFor(userLock, q.user, r)
    /\ balance[q.user] >= q.amount
    /\ userLock' = [userLock EXCEPT ![q.user] = r]
    /\ bidPc' = [bidPc EXCEPT ![r] = "deducted"]
    /\ UNCHANGED <<now, rowVars, auctionLock, bidReq, edit, closerVars>>

(* DeductBalance matched no row: insufficient funds, rollback.             *)
BidRefuse(r) ==
    LET q == bidReq[r] IN
    /\ bidPc[r] = "locked"
    /\ FreeFor(userLock, q.user, r)
    /\ balance[q.user] < q.amount
    /\ EndBid(r)
    /\ UNCHANGED rowVars

(* RefundBalance: the previous winner, when there is one, may be the       *)
(* bidder, whose row the transaction already holds.                        *)
BidRefund(r) ==
    LET w == bidReq[r].winner IN
    /\ bidPc[r] = "deducted"
    /\ \/ /\ w = NoOne
          /\ UNCHANGED userLock
       \/ /\ w # NoOne
          /\ FreeFor(userLock, w, r)
          /\ userLock' = [userLock EXCEPT ![w] = r]
    /\ bidPc' = [bidPc EXCEPT ![r] = "refunded"]
    /\ UNCHANGED <<now, rowVars, auctionLock, bidReq, edit, closerVars>>

(* UpdateAuctionBid and CreateBid on rows already locked, then Commit.     *)
BidCommit(r) ==
    LET q == bidReq[r]
        a == q.auction IN
    /\ bidPc[r] = "refunded"
    /\ auction' = [auction EXCEPT ![a].price = q.amount, ![a].winner = q.user]
    /\ bids' = [bids EXCEPT ![a] = Append(@, [user |-> q.user, amount |-> q.amount])]
    /\ Transfer(a, BidMoves(q))
    /\ raced' = IF Listed(a) THEN raced \cup {a} ELSE raced
    /\ EndBid(r)
    /\ UNCHANGED retimed

(* A statement or the commit fails, the client or the server goes away.    *)
BidAbort(r) ==
    /\ bidPc[r] # "idle"
    /\ EndBid(r)
    /\ UNCHANGED rowVars

(* The transactions a bid is waiting for: at most one.                     *)
BidWaitsFor(r) ==
    LET wanted == CASE bidPc[r] = "locked"   -> {bidReq[r].user}
                    [] bidPc[r] = "deducted" -> {bidReq[r].winner} \ {NoOne}
                    [] OTHER                 -> {}
    IN {userLock[u] : u \in wanted} \ {NoOne, r}

(* InnoDB finds a cycle of waiting transactions and rolls one of it back.  *)
DeadlockVictim(r) ==
    /\ \E S \in SUBSET BidReqs :
          /\ r \in S
          /\ \A q \in S : BidWaitsFor(q) \cap S # {}
    /\ EndBid(r)
    /\ UNCHANGED rowVars
-----------------------------------------------------------------------------
(* AuctionCloser.                                                          *)

(* Mutant: closeOne without its test of the winner.                        *)
PayoutAlways(s) == s.price

(* What closeOne pays: the price of the row the SCAN returned.             *)
Payout(s) == IF s.winner # NoOne /\ s.price > 0 THEN s.price ELSE 0

CloseMoves(s) == [u \in Users |-> IF u = s.seller THEN Payout(s) ELSE 0]

(* The transaction of closeOne has ended; the loop goes on.                *)
EndClose(c) ==
    /\ ReleaseLocks(c)
    /\ closerPc' = [closerPc EXCEPT ![c] = "loop"]
    /\ closing' = [closing EXCEPT ![c] = NoRow]
    /\ UNCHANGED <<now, bidVars, edit, todo>>

(* Mutant: the scan without its test of the end time.                      *)
OverdueWhenActive(row) == row.status = Active

(* GetExpiredActiveAuctions' WHERE clause.                                 *)
Overdue(row) == row.status = Active /\ row.endTime <= now

(* The ticker fires and GetExpiredActiveAuctions returns some rows.        *)
Scan(c) ==
    LET due == {a \in Auctions : Overdue(auction[a])} IN
    /\ closerPc[c] = "idle"
    /\ due # {}
    /\ todo' = [todo EXCEPT ![c] =
            {[id |-> a, seller |-> auction[a].seller,
              price |-> auction[a].price, winner |-> auction[a].winner] : a \in due}]
    /\ closerPc' = [closerPc EXCEPT ![c] = "loop"]
    /\ UNCHANGED <<now, rowVars, lockVars, bidVars, edit, closing>>

(* BeginTx, then CloseAuctionByID: it waits for the row, whatever status   *)
(* the row has by then.  The query has no ORDER BY: any row may be next.   *)
CloseStatus(c) ==
    /\ closerPc[c] = "loop"
    /\ \E s \in todo[c] :
          /\ FreeFor(auctionLock, s.id, c)
          /\ auctionLock' = [auctionLock EXCEPT ![s.id] = c]
          /\ closing' = [closing EXCEPT ![c] = s]
          /\ todo' = [todo EXCEPT ![c] = @ \ {s}]
    /\ closerPc' = [closerPc EXCEPT ![c] = "closed"]
    /\ UNCHANGED <<now, rowVars, userLock, bidVars, edit>>

(* BeginTx or CloseAuctionByID fails: logged, and the row is left to a     *)
(* later scan.                                                             *)
CloseSkip(c) ==
    /\ closerPc[c] = "loop"
    /\ \E s \in todo[c] : todo' = [todo EXCEPT ![c] = @ \ {s}]
    /\ UNCHANGED <<now, rowVars, lockVars, bidVars, edit, closerPc, closing>>

(* RefundBalance to the seller, when there is something to pay.            *)
PaySeller(c) ==
    LET s == closing[c] IN
    /\ closerPc[c] = "closed"
    /\ \/ /\ Payout(s) = 0
          /\ UNCHANGED userLock
       \/ /\ Payout(s) > 0
          /\ FreeFor(userLock, s.seller, c)
          /\ userLock' = [userLock EXCEPT ![s.seller] = c]
    /\ closerPc' = [closerPc EXCEPT ![c] = "paid"]
    /\ UNCHANGED <<now, rowVars, auctionLock, bidVars, edit, todo, closing>>

CloseCommit(c) ==
    LET s == closing[c] IN
    /\ closerPc[c] = "paid"
    /\ auction' = [auction EXCEPT ![s.id].status = Ended]
    /\ Transfer(s.id, CloseMoves(s))
    /\ raced' = IF auction[s.id].status = Ended THEN raced \cup {s.id} ELSE raced
    /\ EndClose(c)
    /\ UNCHANGED <<bids, retimed>>

(* A later statement or the commit fails: rollback, logged, next row.      *)
CloseFail(c) ==
    /\ closerPc[c] \in {"closed", "paid"}
    /\ EndClose(c)
    /\ UNCHANGED rowVars

ScanDone(c) ==
    /\ closerPc[c] = "loop"
    /\ todo[c] = {}
    /\ closerPc' = [closerPc EXCEPT ![c] = "idle"]
    /\ UNCHANGED <<now, rowVars, lockVars, bidVars, edit, todo, closing>>

(* The instance stops or dies and is started again.                        *)
CloserCrash(c) ==
    /\ closerPc[c] # "idle"
    /\ ReleaseLocks(c)
    /\ closerPc' = [closerPc EXCEPT ![c] = "idle"]
    /\ todo' = [todo EXCEPT ![c] = {}]
    /\ closing' = [closing EXCEPT ![c] = NoRow]
    /\ UNCHANGED <<now, rowVars, bidVars, edit>>
-----------------------------------------------------------------------------
BidStep(r) ==
    \/ \E a \in Auctions, u \in Users, m \in Amounts : BidLock(r, a, u, m)
    \/ BidDeduct(r) \/ BidRefuse(r) \/ BidRefund(r) \/ BidCommit(r)
    \/ BidAbort(r) \/ DeadlockVictim(r)

EditStep(e) ==
    \/ \E a \in Auctions, t \in 0..MaxTime : EditCheck(e, a, t)
    \/ EditWrite(e) \/ EditFail(e)

CloserStep(c) ==
    \/ Scan(c) \/ CloseStatus(c) \/ CloseSkip(c) \/ PaySeller(c)
    \/ CloseCommit(c) \/ CloseFail(c) \/ ScanDone(c) \/ CloserCrash(c)

Next ==
    \/ Tick
    \/ \E a \in Auctions, u \in Sellers, p \in Amounts, t \in 0..MaxTime : Create(a, u, p, t)
    \/ \E r \in BidReqs : BidStep(r)
    \/ \E e \in EditReqs : EditStep(e)
    \/ \E c \in Closers : CloserStep(c)

Spec == Init /\ [][Next]_vars

(* A statement that waits for a row lock gets it in its turn (InnoDB keeps *)
(* a queue of waiters), InnoDB breaks every deadlock, and a goroutine that *)
(* can go on does.  The closers meet only finitely many faults.  Nobody    *)
(* has to bid, create or edit, and bids may be aborted for ever.           *)
CloserFault == \E c \in Closers : CloseSkip(c) \/ CloseFail(c) \/ CloserCrash(c)

Fairness ==
    /\ WF_vars(Tick)
    /\ \A r \in BidReqs : /\ SF_vars(BidDeduct(r) \/ BidRefuse(r))
                          /\ SF_vars(BidRefund(r))
                          /\ WF_vars(BidCommit(r))
                          /\ WF_vars(DeadlockVictim(r))
    /\ \A c \in Closers : /\ WF_vars(Scan(c) \/ CloseCommit(c) \/ ScanDone(c))
                          /\ SF_vars(CloseStatus(c))
                          /\ SF_vars(PaySeller(c))
    /\ <>[][~CloserFault]_vars

FairSpec == Spec /\ Fairness
-----------------------------------------------------------------------------
TypeOK ==
    /\ now \in 0..MaxTime
    /\ auction \in [Auctions -> Row]
    /\ bids \in [Auctions -> Seq([user: Users, amount: Amounts])]
    /\ balance \in [Users -> Int]
    /\ ledger \in [Auctions -> [Users -> Int]]
    /\ raced \subseteq Auctions
    /\ retimed \subseteq Auctions
    /\ auctionLock \in [Auctions -> Txns \cup {NoOne}]
    /\ userLock \in [Users -> Txns \cup {NoOne}]
    /\ bidPc \in [BidReqs -> BidPcs]
    /\ bidReq \in [BidReqs -> Request \cup {NoRequest}]
    /\ edit \in [EditReqs -> [auction: Auctions \cup {NoOne}, endTime: 0..MaxTime]]
    /\ closerPc \in [Closers -> CloserPcs]
    /\ todo \in [Closers -> SUBSET Expired]
    /\ closing \in [Closers -> Expired \cup {NoRow}]

(* A user never owes the house: no interleaving of bids in any auctions    *)
(* spends the same balance twice.  (DeductBalance's WHERE balance >= ?,    *)
(* with the row locked until the commit.)                                  *)
NonNegativeBalance == \A u \in Users : balance[u] >= 0

(* What an auction has taken from its bidders is exactly the price of its  *)
(* standing winner: whoever was outbid, by others or by a raise of their   *)
(* own, has been given back precisely what they paid, whatever rollbacks,  *)
(* deadlocks or closings came between.                                     *)
EscrowExact ==
    \A a \in Auctions : \A u \in Users \ {auction[a].seller} :
        ledger[a][u] = IF auction[a].winner = u THEN -auction[a].price ELSE 0

(* The bids table and the auction row agree: bids of one auction strictly  *)
(* increase in commit order, the seller has none, and the last one is the  *)
(* winner and price of the row.                                            *)
HistoryTop ==
    \A a \in Auctions :
        LET b == bids[a] IN
        /\ \A i, j \in 1..Len(b) : i < j => b[i].amount < b[j].amount
        /\ \A i \in 1..Len(b) : b[i].user # auction[a].seller
        /\ IF b = <<>> THEN auction[a].winner = NoOne
           ELSE /\ auction[a].winner = b[Len(b)].user
                /\ auction[a].price = b[Len(b)].amount

(* The seller of an ended auction has received its final price, once, and  *)
(* the seller of a running one nothing yet, unless a bid committed while   *)
(* some closer held an older reading of the row, or two closers closed it. *)
SettledExactly ==
    \A a \in Auctions \ raced : auction[a].status # Absent =>
        ledger[a][auction[a].seller] = IF auction[a].status = Ended THEN Escrow(a) ELSE 0

(* What each auction still running holds.                                  *)
Held == [a \in Auctions |-> IF auction[a].status = Active THEN Escrow(a) ELSE 0]

(* Money is neither made nor lost: what users have and what the auctions   *)
(* still running hold in escrow add up to what users started with, as long *)
(* as no auction raced with its closing.                                   *)
MoneyConserved ==
    raced = {} => SumFunction(balance) + SumFunction(Held) = SumFunction(StartBalance)

(* An ended auction is over: no transaction that was under way when it     *)
(* closed changes its winner, its price or its bids, or reopens it.        *)
FrozenOnceEnded ==
    [][\A a \in Auctions : auction[a].status = Ended =>
          /\ auction'[a].status = Ended
          /\ auction'[a].winner = auction[a].winner
          /\ auction'[a].price = auction[a].price
          /\ bids'[a] = bids[a]]_vars

(* No auction is closed before its end time, unless its owner moved that   *)
(* time while a closer already had the auction on its list.                *)
EndsOnTime ==
    [][\A a \in Auctions \ retimed :
          auction[a].status = Active /\ auction'[a].status = Ended
              => auction[a].endTime <= now]_vars

(* Every auction past its end time is closed, whatever bids are in flight  *)
(* and however often closers are interrupted.                              *)
EveryAuctionEnds ==
    \A a \in Auctions :
        (auction[a].status = Active /\ auction[a].endTime <= now) ~> (auction[a].status = Ended)

(* Every bid is answered: no bid waits for ever for a row lock.            *)
EveryBidAnswered == \A r \in BidReqs : (bidPc[r] # "idle") ~> (bidPc[r] = "idle")
-----------------------------------------------------------------------------
(* The transactions implement the abstract house: each bid and each        *)
(* closing takes effect at its commit, at once, and everything else        *)
(* (locks, checks, rollbacks, deadlocks, edits of end times) is invisible. *)
House == INSTANCE AuctionHouse WITH
    lot <- [a \in Auctions |->
        [seller |-> auction[a].seller, price |-> auction[a].price,
         winner |-> auction[a].winner, status |-> auction[a].status]],
    offered <- [a \in Auctions |-> {bids[a][i].amount : i \in 1..Len(bids[a])}],
    disputed <- raced

ImplementsHouse == House!HouseSpec

(***************************************************************************)
(* What the documentation says and the code does not do.                   *)
(***************************************************************************)

(* README.md, Seller payment on close: the winning bid amount is           *)
(* transferred to the seller when the auction ends.                        *)
WinningBidReachesSeller ==
    \A a \in Auctions : auction[a].status = Ended =>
        ledger[a][auction[a].seller] >= Escrow(a)
=============================================================================
