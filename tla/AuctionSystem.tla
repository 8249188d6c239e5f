--------------------------- MODULE AuctionSystem ---------------------------
(***************************************************************************)
(* The whole market: bids, edits and closings (module Bidding) beside      *)
(* deposits and withdrawals (module Wallet), in one database.  The two     *)
(* share the rows of table users: their balances and their locks.  To each *)
(* module the transactions of the other are OtherTxns.                     *)
(***************************************************************************)
EXTENDS Integers, Sequences, FiniteSets, Functions

CONSTANTS
    Users, Sellers, Auctions, BidReqs, EditReqs, Closers, MaxTime, MinLead,
    Sessions, Hooks, Withdrawers, MinWithdrawal,
    Amounts, StartBalance, NoOne

VARIABLES
    balance, userLock,                                   \* table users
    now, auction, bids, ledger, raced, retimed, auctionLock,
    bidPc, bidReq, edit, closerPc, todo, closing,        \* Bidding
    stripe, acked, request, asking, deposit, depositLock, credited,
    hookPc, hookFor, withdrawals, paidOut, drawPc, drawReq  \* Wallet

Market == INSTANCE Bidding WITH OtherTxns <- Hooks \cup Withdrawers
Bank   == INSTANCE Wallet WITH OtherTxns <- BidReqs \cup Closers

(* The goroutines of one server do not do two things at once; the rest is  *)
(* what each module assumes of its own constants.                          *)
ASSUME SystemAssumption ==
    /\ IsFiniteSet(Users) /\ IsFiniteSet(Auctions) /\ IsFiniteSet(Sessions)
    /\ (BidReqs \cup Closers) \cap (Hooks \cup Withdrawers) = {}
    /\ BidReqs \cap Closers = {} /\ Hooks \cap Withdrawers = {}
    /\ NoOne \notin UNION {Users, Auctions, Sessions, BidReqs, Closers, Hooks, Withdrawers}
    /\ Sellers \subseteq Users
    /\ Amounts \subseteq Nat \ {0}
    /\ MaxTime \in Nat /\ MinWithdrawal \in Nat
    /\ MinLead \in Nat \ {0}
    /\ StartBalance \in [Users -> Nat]

marketVars == <<now, auction, bids, ledger, raced, retimed, auctionLock,
                bidPc, bidReq, edit, closerPc, todo, closing>>
bankVars   == <<stripe, acked, request, asking, deposit, depositLock, credited,
                hookPc, hookFor, withdrawals, paidOut, drawPc, drawReq>>
vars == <<balance, userLock, marketVars, bankVars>>

Init == Market!Init /\ Bank!Init

Next ==
    \/ Market!Next /\ UNCHANGED bankVars
    \/ Bank!Next /\ UNCHANGED marketVars

Spec == Init /\ [][Next]_vars
-----------------------------------------------------------------------------
(* No balance is spent twice, by a bid here and a withdrawal or another    *)
(* bid there: all of them go through the one locked row.                   *)
NonNegativeBalance == \A u \in Users : balance[u] >= 0

(* Rows of table auctions that concern a user's money.                     *)
Leads(u) == {a \in Auctions : auction[a].winner = u}
Sold(u)  == {a \in Auctions : /\ auction[a].seller = u
                              /\ auction[a].status = Market!Ended
                              /\ auction[a].winner # NoOne}
Prices(S) == SumFunctionOnSet([a \in Auctions |-> auction[a].price], S)

(* The books balance: what a user has is explained by the tables alone.    *)
(* Start, plus completed deposits, less withdrawals, less the prices of    *)
(* auctions they lead or won, plus the prices of those they sold.          *)
(* (Auctions that raced with their closing are the findings of Bidding.)   *)
BooksBalance ==
    raced = {} => \A u \in Users :
        balance[u] = StartBalance[u] + Bank!Deposited(u) - Bank!Withdrawn(u)
                     - Prices(Leads(u)) + Prices(Sold(u))
=============================================================================
