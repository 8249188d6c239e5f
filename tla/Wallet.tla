------------------------------- MODULE Wallet -------------------------------
(***************************************************************************)
(* Money entering and leaving: DepositService (Stripe checkout sessions    *)
(* and the webhook that settles them) and WithdrawalService, as their      *)
(* requests interleave on one MySQL database.                              *)
(*                                                                         *)
(* As in module Bidding, the steps of a transaction take row locks and its *)
(* commit writes all rows at once.  Stripe is external: it decides what    *)
(* becomes of a session, and delivers the event that says so again and     *)
(* again, several copies at a time, until one is answered 200 (and perhaps *)
(* after that).                                                            *)
(***************************************************************************)
EXTENDS Integers, Sequences, FiniteSets, Functions

CONSTANTS
    Users,         \* rows of table users
    Sessions,      \* ids of Stripe checkout sessions
    Hooks,         \* request goroutines that serve the webhook
    Withdrawers,   \* request goroutines that may run CreateWithdrawal
    OtherTxns,     \* transactions of other components that lock user rows
    Amounts,       \* cents a deposit or a withdrawal may be
    MinWithdrawal, \* minWithdrawalAmount
    StartBalance,  \* balance of each user before the first deposit
    NoOne          \* no session, no lock holder

ASSUME WalletAssumption ==
    /\ IsFiniteSet(Users) /\ IsFiniteSet(Sessions)
    /\ Amounts \subseteq Nat \ {0}
    /\ MinWithdrawal \in Nat
    /\ StartBalance \in [Users -> Nat]
    /\ NoOne \notin Users \cup Sessions \cup Hooks \cup Withdrawers \cup OtherTxns
    /\ Hooks \cap Withdrawers = {}
    /\ OtherTxns \cap (Hooks \cup Withdrawers) = {}

VARIABLES
    balance,      \* users.balance
    userLock,     \* transaction holding the row lock of each user
    stripe,       \* what became of each session at Stripe
    acked,        \* sessions whose event was answered 200
    request,      \* user and amount of the CreateDeposit call of each session
    asking,       \* where that call is
    deposit,      \* deposits.status of the row with this stripe_payment_id
    depositLock,  \* transaction holding that row's lock
    credited,     \* history: cents each deposit row has added to its user
    hookPc,       \* where each webhook request is
    hookFor,      \* the session its event is about
    withdrawals,  \* table withdrawals: amounts per user, all of them pending
    paidOut,      \* history: cents deducted from each user for withdrawals
    drawPc,       \* where each CreateWithdrawal transaction is
    drawReq       \* its arguments

moneyVars   == <<balance, credited, withdrawals, paidOut>>
stripeVars  == <<stripe, acked>>
depositVars == <<request, asking, deposit>>
hookVars    == <<hookPc, hookFor>>
drawVars    == <<drawPc, drawReq>>
vars == <<moneyVars, userLock, depositLock, stripeVars, depositVars, hookVars, drawVars>>
-----------------------------------------------------------------------------
Txns     == Hooks \cup Withdrawers \cup OtherTxns
HookPcs  == {"idle", "locked", "credited", "failing"}
DrawPcs  == {"idle", "locked", "counted", "deducted"}
Statuses == {"none", "pending", "completed", "failed"}
CompletedMisspelt == "complete"  \* mutant: the status strings disagree
Completed == "completed"
Outcomes == {"none", "open", "paid", "unpaid", "expired"}


(* A CreateDeposit or CreateWithdrawal call.                               *)
Draw   == [user: Users, amount: Amounts]
NoDraw == [user |-> NoOne, amount |-> 0]

(* Row locks: waiting for one is the action being disabled.                *)
FreeFor(lock, row, t) == lock[row] \in {NoOne, t}
Without(lock, t)      == [row \in DOMAIN lock |-> IF lock[row] = t THEN NoOne ELSE lock[row]]

Init ==
    /\ balance = StartBalance
    /\ userLock = [u \in Users |-> NoOne]
    /\ stripe = [s \in Sessions |-> "none"]
    /\ acked = {}
    /\ request = [s \in Sessions |-> NoDraw]
    /\ asking = [s \in Sessions |-> "none"]
    /\ deposit = [s \in Sessions |-> "none"]
    /\ depositLock = [s \in Sessions |-> NoOne]
    /\ credited = [s \in Sessions |-> 0]
    /\ hookPc = [h \in Hooks |-> "idle"]
    /\ hookFor = [h \in Hooks |-> NoOne]
    /\ withdrawals = [u \in Users |-> <<>>]
    /\ paidOut = [u \in Users |-> 0]
    /\ drawPc = [w \in Withdrawers |-> "idle"]
    /\ drawReq = [w \in Withdrawers |-> NoDraw]
-----------------------------------------------------------------------------
(* DepositService.CreateDeposit and Stripe.                                *)

(* session.New returns a checkout session for user u and amount m.         *)
OpenSession(s, u, m) ==
    /\ stripe[s] = "none"
    /\ stripe' = [stripe EXCEPT ![s] = "open"]
    /\ request' = [request EXCEPT ![s] = [user |-> u, amount |-> m]]
    /\ asking' = [asking EXCEPT ![s] = "opened"]
    /\ UNCHANGED <<moneyVars, userLock, depositLock, acked, deposit, hookVars, drawVars>>

(* CreateDeposit inserts the row (its foreign key reads the user's row, so *)
(* it waits for the lock), and the user is sent the checkout URL.          *)
InsertDeposit(s) ==
    /\ asking[s] = "opened"
    /\ userLock[request[s].user] = NoOne
    /\ deposit' = [deposit EXCEPT ![s] = "pending"]
    /\ asking' = [asking EXCEPT ![s] = "answered"]
    /\ UNCHANGED <<moneyVars, userLock, depositLock, stripeVars, request, hookVars, drawVars>>

(* The insert fails, or its reply is lost: the user gets no URL.           *)
InsertFail(s) ==
    /\ asking[s] = "opened"
    /\ \/ UNCHANGED deposit
       \/ /\ userLock[request[s].user] = NoOne
          /\ deposit' = [deposit EXCEPT ![s] = "pending"]
    /\ asking' = [asking EXCEPT ![s] = "refused"]
    /\ UNCHANGED <<moneyVars, userLock, depositLock, stripeVars, request, hookVars, drawVars>>

(* Mutant: the checkout URL is answered before the row is inserted.        *)
PayableOnceOpened(s) == asking[s] \in {"opened", "answered"}

(* Only who has the URL can pay.                                           *)
Payable(s) == asking[s] = "answered"

(* The user completes the checkout: paid at once, or by a delayed method   *)
(* whose money is not there yet.                                           *)
Pay(s) ==
    /\ stripe[s] = "open"
    /\ Payable(s)
    /\ \E o \in {"paid", "unpaid"} : stripe' = [stripe EXCEPT ![s] = o]
    /\ UNCHANGED <<moneyVars, userLock, depositLock, acked, depositVars, hookVars, drawVars>>

(* Stripe expires a session nobody completed, a day after it was opened.   *)
Expire(s) ==
    /\ stripe[s] = "open"
    /\ asking[s] \in {"answered", "refused"}
    /\ stripe' = [stripe EXCEPT ![s] = "expired"]
    /\ UNCHANGED <<moneyVars, userLock, depositLock, acked, depositVars, hookVars, drawVars>>
-----------------------------------------------------------------------------
(* The webhook: HandleStripeWebhook, HandlePaymentSuccess and              *)
(* HandlePaymentFailed.                                                    *)

(* Mutant: a completed session is credited whatever its payment status.    *)
SettlesUnpaid(s) == stripe[s] \in {"paid", "unpaid"}

(* The event says the session was completed and its payment_status is paid. *)
Settles(s) == stripe[s] = "paid"

(* Mutant: the status of the locked row is not looked at.                  *)
CreditableTwice(s) == deposit[s] # "none"

(* The row exists and is pending.                                          *)
Creditable(s) == deposit[s] = "pending"

(* The request has ended, its transaction with it.                         *)
EndHook(h) ==
    /\ depositLock' = Without(depositLock, h)
    /\ userLock' = Without(userLock, h)
    /\ hookPc' = [hookPc EXCEPT ![h] = "idle"]
    /\ hookFor' = [hookFor EXCEPT ![h] = NoOne]

(* LockDepositByStripeID waits for the row and finds it pending.           *)
HookLock(h, s) ==
    /\ hookPc[h] = "idle"
    /\ Settles(s)
    /\ FreeFor(depositLock, s, h)
    /\ Creditable(s)
    /\ depositLock' = [depositLock EXCEPT ![s] = h]
    /\ hookPc' = [hookPc EXCEPT ![h] = "locked"]
    /\ hookFor' = [hookFor EXCEPT ![h] = s]
    /\ UNCHANGED <<moneyVars, userLock, stripeVars, depositVars, drawVars>>

(* No row, or a row already settled: answered 200, nothing done.  So is a  *)
(* completed session that is not paid.                                     *)
HookSkip(h, s) ==
    /\ hookPc[h] = "idle"
    /\ \/ /\ Settles(s)
          /\ FreeFor(depositLock, s, h)
          /\ ~Creditable(s)
       \/ /\ stripe[s] = "unpaid"
          /\ ~Settles(s)
    /\ acked' = acked \cup {s}
    /\ UNCHANGED <<moneyVars, userLock, depositLock, stripe, depositVars, hookVars, drawVars>>

(* UpdateDepositStatus on the locked row, and DepositBalance, which waits  *)
(* for the user's row.                                                     *)
HookCredit(h) ==
    LET u == request[hookFor[h]].user IN
    /\ hookPc[h] = "locked"
    /\ FreeFor(userLock, u, h)
    /\ userLock' = [userLock EXCEPT ![u] = h]
    /\ hookPc' = [hookPc EXCEPT ![h] = "credited"]
    /\ UNCHANGED <<moneyVars, depositLock, stripeVars, depositVars, hookFor, drawVars>>

(* The commit; when its reply is lost the event is answered 500 although   *)
(* the deposit is completed.                                               *)
HookCommit(h) ==
    LET s == hookFor[h]
        q == request[s] IN
    /\ hookPc[h] = "credited"
    /\ deposit' = [deposit EXCEPT ![s] = Completed]
    /\ balance' = [balance EXCEPT ![q.user] = @ + q.amount]
    /\ credited' = [credited EXCEPT ![s] = @ + q.amount]
    /\ acked' \in {acked, acked \cup {s}}
    /\ EndHook(h)
    /\ UNCHANGED <<withdrawals, paidOut, stripe, request, asking, drawVars>>

(* Mutant: the webhook answers 200 although its handler failed.            *)
HookAbortAcked(h) ==
    /\ hookPc[h] # "idle"
    /\ acked' = acked \cup {hookFor[h]}
    /\ EndHook(h)
    /\ UNCHANGED <<moneyVars, stripe, depositVars, drawVars>>

(* A statement or the commit fails, or the server dies: rollback, and the  *)
(* event is answered 500 or not at all.                                    *)
HookAbort(h) ==
    /\ hookPc[h] # "idle"
    /\ EndHook(h)
    /\ UNCHANGED <<moneyVars, stripeVars, depositVars, drawVars>>

(* HandlePaymentFailed reads the row without a lock: it is pending.        *)
FailRead(h, s) ==
    /\ hookPc[h] = "idle"
    /\ stripe[s] = "expired"
    /\ deposit[s] = "pending"
    /\ hookPc' = [hookPc EXCEPT ![h] = "failing"]
    /\ hookFor' = [hookFor EXCEPT ![h] = s]
    /\ UNCHANGED <<moneyVars, userLock, depositLock, stripeVars, depositVars, drawVars>>

(* It reads no row, or one that is settled: answered 200.                  *)
FailSkip(h, s) ==
    /\ hookPc[h] = "idle"
    /\ stripe[s] = "expired"
    /\ deposit[s] # "pending"
    /\ acked' = acked \cup {s}
    /\ UNCHANGED <<moneyVars, userLock, depositLock, stripe, depositVars, hookVars, drawVars>>

(* UpdateDepositStatus, whatever the row's status has become.              *)
FailWrite(h) ==
    LET s == hookFor[h] IN
    /\ hookPc[h] = "failing"
    /\ FreeFor(depositLock, s, h)
    /\ deposit' = [deposit EXCEPT ![s] = "failed"]
    /\ acked' \in {acked, acked \cup {s}}
    /\ EndHook(h)
    /\ UNCHANGED <<moneyVars, stripe, request, asking, drawVars>>
-----------------------------------------------------------------------------
(* WithdrawalService.CreateWithdrawal.                                     *)

(* Mutant: CreateWithdrawal returns without ending its transaction.        *)
EndDrawOpen(w) ==
    /\ drawPc' = [drawPc EXCEPT ![w] = "idle"]
    /\ drawReq' = [drawReq EXCEPT ![w] = NoDraw]
    /\ UNCHANGED <<userLock, depositLock, stripeVars, depositVars, hookVars>>

(* A withdrawal request is over and its transaction has ended.             *)
EndDraw(w) ==
    /\ userLock' = Without(userLock, w)
    /\ drawPc' = [drawPc EXCEPT ![w] = "idle"]
    /\ drawReq' = [drawReq EXCEPT ![w] = NoDraw]
    /\ UNCHANGED <<depositLock, stripeVars, depositVars, hookVars>>

(* Mutant: the user is read without FOR UPDATE.                            *)
DrawLockPlain(w, u, m) ==
    /\ drawPc[w] = "idle"
    /\ m >= MinWithdrawal
    /\ drawPc' = [drawPc EXCEPT ![w] = "locked"]
    /\ drawReq' = [drawReq EXCEPT ![w] = [user |-> u, amount |-> m]]
    /\ UNCHANGED <<moneyVars, userLock, depositLock, stripeVars, depositVars, hookVars>>

(* The amount is large enough; LockUserForWithdrawal gets the user's row.  *)
DrawLock(w, u, m) ==
    /\ drawPc[w] = "idle"
    /\ m >= MinWithdrawal
    /\ FreeFor(userLock, u, w)
    /\ userLock' = [userLock EXCEPT ![u] = w]
    /\ drawPc' = [drawPc EXCEPT ![w] = "locked"]
    /\ drawReq' = [drawReq EXCEPT ![w] = [user |-> u, amount |-> m]]
    /\ UNCHANGED <<moneyVars, depositLock, stripeVars, depositVars, hookVars>>

(* CountPendingWithdrawalsByUser is 0.  It is the first plain read of its  *)
(* transaction, so its snapshot is taken here, after the lock.             *)
DrawCount(w) ==
    /\ drawPc[w] = "locked"
    /\ Len(withdrawals[drawReq[w].user]) = 0
    /\ drawPc' = [drawPc EXCEPT ![w] = "counted"]
    /\ UNCHANGED <<moneyVars, userLock, depositLock, stripeVars, depositVars, hookVars, drawReq>>

(* DeductBalance matches the row only when the balance covers the amount.  *)
Covered(q) == balance[q.user] >= q.amount

DrawDeduct(w) ==
    /\ drawPc[w] = "counted"
    /\ Covered(drawReq[w])
    /\ drawPc' = [drawPc EXCEPT ![w] = "deducted"]
    /\ UNCHANGED <<moneyVars, userLock, depositLock, stripeVars, depositVars, hookVars, drawReq>>

(* A withdrawal is pending, or the funds do not suffice: rollback.         *)
DrawRefuse(w) ==
    /\ \/ drawPc[w] = "locked" /\ Len(withdrawals[drawReq[w].user]) > 0
       \/ drawPc[w] = "counted" /\ ~Covered(drawReq[w])
    /\ EndDraw(w)
    /\ UNCHANGED moneyVars

(* CreateWithdrawal, then Commit.                                          *)
DrawCommit(w) ==
    LET q == drawReq[w] IN
    /\ drawPc[w] = "deducted"
    /\ balance' = [balance EXCEPT ![q.user] = @ - q.amount]
    /\ paidOut' = [paidOut EXCEPT ![q.user] = @ + q.amount]
    /\ withdrawals' = [withdrawals EXCEPT ![q.user] = Append(@, q.amount)]
    /\ EndDraw(w)
    /\ UNCHANGED credited

(* A statement or the commit fails, the client or the server goes away.    *)
DrawAbort(w) ==
    /\ drawPc[w] # "idle"
    /\ EndDraw(w)
    /\ UNCHANGED moneyVars
-----------------------------------------------------------------------------
SessionStep(s) ==
    \/ \E u \in Users, m \in Amounts : OpenSession(s, u, m)
    \/ InsertDeposit(s) \/ InsertFail(s) \/ Pay(s) \/ Expire(s)

HookStep(h) ==
    \/ \E s \in Sessions : HookLock(h, s) \/ HookSkip(h, s) \/ FailRead(h, s) \/ FailSkip(h, s)
    \/ HookCredit(h) \/ HookCommit(h) \/ HookAbort(h) \/ FailWrite(h)

DrawStep(w) ==
    \/ \E u \in Users, m \in Amounts : DrawLock(w, u, m)
    \/ DrawCount(w) \/ DrawDeduct(w) \/ DrawRefuse(w) \/ DrawCommit(w) \/ DrawAbort(w)

Next ==
    \/ \E s \in Sessions : SessionStep(s)
    \/ \E h \in Hooks : HookStep(h)
    \/ \E w \in Withdrawers : DrawStep(w)

Spec == Init /\ [][Next]_vars

(* Stripe delivers an event until it is answered 200, and the webhook      *)
(* fails finitely often (Stripe gives up after three days of failures).  A *)
(* statement that waits for a row lock gets it in its turn.                *)
HookFault == \E h \in Hooks : HookAbort(h)

Fairness ==
    /\ \A s \in Sessions :
          /\ WF_vars(s \notin acked /\ \E h \in Hooks : FailRead(h, s) \/ FailSkip(h, s))
          /\ SF_vars(s \notin acked /\ \E h \in Hooks : HookLock(h, s) \/ HookSkip(h, s))
    /\ \A h \in Hooks : /\ SF_vars(HookCredit(h))
                        /\ WF_vars(HookCommit(h))
                        /\ SF_vars(FailWrite(h))
    /\ \A w \in Withdrawers :
          WF_vars(DrawCount(w) \/ DrawDeduct(w) \/ DrawRefuse(w) \/ DrawCommit(w))
    /\ <>[][~HookFault]_vars

FairSpec == Spec /\ Fairness
-----------------------------------------------------------------------------
TypeOK ==
    /\ balance \in [Users -> Int]
    /\ userLock \in [Users -> Txns \cup {NoOne}]
    /\ stripe \in [Sessions -> Outcomes]
    /\ acked \subseteq Sessions
    /\ request \in [Sessions -> Draw \cup {NoDraw}]
    /\ asking \in [Sessions -> {"none", "opened", "answered", "refused"}]
    /\ deposit \in [Sessions -> Statuses]
    /\ depositLock \in [Sessions -> Txns \cup {NoOne}]
    /\ credited \in [Sessions -> Int]
    /\ hookPc \in [Hooks -> HookPcs]
    /\ hookFor \in [Hooks -> Sessions \cup {NoOne}]
    /\ withdrawals \in [Users -> Seq(Amounts)]
    /\ paidOut \in [Users -> Int]
    /\ drawPc \in [Withdrawers -> DrawPcs]
    /\ drawReq \in [Withdrawers -> Draw \cup {NoDraw}]

(* A deposit is credited exactly when its row says completed, in full and  *)
(* once, however many copies of its event run side by side and whichever   *)
(* of them fail or lose the reply of their commit.                         *)
CreditedOnce ==
    \A s \in Sessions :
        credited[s] = IF deposit[s] = "completed" THEN request[s].amount ELSE 0

(* Only money that Stripe has is credited: never for a session that was    *)
(* abandoned, expired, or completed by a method still to be paid.          *)
CreditedWasPaid == \A s \in Sessions : credited[s] # 0 => stripe[s] = "paid"

(* The webhook may answer 200 to a paid session only once it is credited:  *)
(* after that answer Stripe does not send the event again.                 *)
AckedIsCredited ==
    \A s \in acked : stripe[s] = "paid" => deposit[s] = "completed"

(* A user has at most one pending withdrawal, and its amount, no more and  *)
(* no less, has left the balance: concurrent requests of one user do not   *)
(* both pass the pending check.                                            *)
OnePendingWithdrawal ==
    \A u \in Users :
        \/ withdrawals[u] = <<>> /\ paidOut[u] = 0
        \/ Len(withdrawals[u]) = 1 /\ paidOut[u] = withdrawals[u][1]

(* Sums over the rows of tables deposits and withdrawals.                  *)
Deposited(u) ==
    SumFunctionOnSet([s \in Sessions |-> request[s].amount],
                     {s \in Sessions : deposit[s] = "completed" /\ request[s].user = u})
Withdrawn(u) == SumFunction(withdrawals[u])

(* A user's balance is what they began with, plus their completed          *)
(* deposits, less their withdrawals: the three tables always add up.       *)
WalletBalanced == \A u \in Users : balance[u] = StartBalance[u] + Deposited(u) - Withdrawn(u)

(* A withdrawal never takes more than the balance, whatever commits        *)
(* between its checks and its deduction.                                   *)
NonNegativeBalance == \A u \in Users : balance[u] >= 0

(* Every paid session is credited in the end, though the webhook fails,    *)
(* its rows are locked by other requests, or its copies collide.           *)
PaidIsCredited == \A s \in Sessions : (stripe[s] = "paid") ~> (deposit[s] = "completed")

(* The row of every expired session is marked failed in the end.           *)
ExpiredIsFailed ==
    \A s \in Sessions : (stripe[s] = "expired" /\ deposit[s] = "pending") ~> (deposit[s] = "failed")
=============================================================================
