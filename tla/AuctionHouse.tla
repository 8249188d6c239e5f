---------------------------- MODULE AuctionHouse ----------------------------
(***************************************************************************)
(* What bidding and closing promise, without transactions, locks or        *)
(* workers: a bid is one atomic exchange between the bidder, the previous  *)
(* winner and the auction, and closing an auction pays its seller.         *)
(***************************************************************************)
EXTENDS Integers

CONSTANTS Users, Auctions, Amounts, StartBalance, NoOne

VARIABLES
    lot,       \* what is on sale: seller, price, winner, status
    balance,   \* the purse of each user
    offered,   \* every amount ever bid for each lot
    disputed   \* lots whose closing overlapped a bid or another closing

houseVars == <<lot, balance, offered, disputed>>

Unlisted == 0
Open     == 1
Sold     == 2

HouseInit ==
    /\ lot = [a \in Auctions |->
            [seller |-> NoOne, price |-> 0, winner |-> NoOne, status |-> Unlisted]]
    /\ balance = StartBalance
    /\ offered = [a \in Auctions |-> {}]
    /\ disputed = {}

List(a, u, p) ==
    /\ lot[a].status = Unlisted
    /\ lot' = [lot EXCEPT ![a] =
            [seller |-> u, price |-> p, winner |-> NoOne, status |-> Open]]
    /\ UNCHANGED <<balance, offered, disputed>>

(* A bid above the price, by someone who can pay all of it, replaces the   *)
(* winner, who is given the price back, in the same instant.               *)
Bid(a, u, m) ==
    /\ lot[a].status = Open
    /\ u # lot[a].seller
    /\ m > lot[a].price
    /\ balance[u] >= m
    /\ lot' = [lot EXCEPT ![a].price = m, ![a].winner = u]
    /\ balance' = [v \in Users |->
            balance[v] - (IF v = u THEN m ELSE 0)
                       + (IF v = lot[a].winner THEN lot[a].price ELSE 0)]
    /\ offered' = [offered EXCEPT ![a] = @ \cup {m}]
    /\ disputed' \in {disputed, disputed \cup {a}}

Due(a) == IF lot[a].winner = NoOne THEN 0 ELSE lot[a].price

(* An undisputed lot is closed once, and its seller is paid what the       *)
(* winner paid.  A disputed one may pay any amount bid before, or nothing, *)
(* and may be closed again.                                                *)
Settle(a) ==
    /\ lot[a].status # Unlisted
    /\ disputed' = IF lot[a].status = Sold THEN disputed \cup {a} ELSE disputed
    /\ \E pay \in IF a \in disputed' THEN {0} \cup offered[a] ELSE {Due(a)} :
          balance' = [balance EXCEPT ![lot[a].seller] = @ + pay]
    /\ lot' = [lot EXCEPT ![a].status = Sold]
    /\ UNCHANGED offered

HouseNext ==
    \E a \in Auctions :
        \/ \E u \in Users, p \in Amounts : List(a, u, p) \/ Bid(a, u, p)
        \/ Settle(a)

HouseSpec == HouseInit /\ [][HouseNext]_houseVars
=============================================================================
