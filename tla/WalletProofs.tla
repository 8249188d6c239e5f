--------------------------- MODULE WalletProofs ----------------------------
(***************************************************************************)
(* Theorems about Wallet, for every set of users, sessions and requests.   *)
(* They follow from one inductive invariant, Inv: what a request may rely  *)
(* on about the rows it has locked, and about the session of its event.    *)
(***************************************************************************)
EXTENDS Wallet, Sums, TLAPS

(* A session, the call that opened it and its deposit row advance in step. *)
SessionsSound ==
    \A s \in Sessions :
        /\ stripe[s] = "none" => asking[s] = "none" /\ deposit[s] = "none"
        /\ stripe[s] # "none" => request[s] \in Draw
        /\ asking[s] = "opened" => stripe[s] = "open" /\ deposit[s] = "none"
        /\ asking[s] = "answered" => deposit[s] # "none"
        /\ stripe[s] \in {"paid", "unpaid"} => asking[s] = "answered"
        /\ deposit[s] = "completed" => stripe[s] = "paid"
        /\ deposit[s] = "failed" => stripe[s] = "expired"
        /\ s \in acked => stripe[s] \in {"paid", "unpaid", "expired"}

(* A webhook request that settles a deposit holds its row, still pending,  *)
(* and then the user's row.                                                *)
HookHolds ==
    \A h \in Hooks :
        LET s == hookFor[h] IN
        /\ hookPc[h] \in {"locked", "credited"} =>
              s \in Sessions /\ depositLock[s] = h /\ deposit[s] = "pending" /\ stripe[s] = "paid"
        /\ hookPc[h] = "credited" => userLock[request[s].user] = h
        /\ hookPc[h] = "failing" =>
              s \in Sessions /\ deposit[s] \in {"pending", "failed"} /\ stripe[s] = "expired"

(* A withdrawal under way holds its user's row; what it counted and what   *)
(* it deducted from stay so.                                               *)
DrawHolds ==
    \A w \in Withdrawers :
        LET q == drawReq[w] IN
        /\ drawPc[w] # "idle" => q \in Draw /\ userLock[q.user] = w
        /\ drawPc[w] \in {"counted", "deducted"} => withdrawals[q.user] = <<>>
        /\ drawPc[w] = "deducted" => balance[q.user] >= q.amount

Inv ==
    /\ TypeOK
    /\ SessionsSound
    /\ HookHolds
    /\ DrawHolds
    /\ CreditedOnce
    /\ AckedIsCredited
    /\ OnePendingWithdrawal
    /\ NonNegativeBalance
-----------------------------------------------------------------------------
LEMMA InitInv == Init => Inv
  <1> SUFFICES ASSUME Init PROVE Inv
    OBVIOUS
  <1> USE WalletAssumption
  <1>1. TypeOK
    BY DEF Init, TypeOK, Txns, HookPcs, DrawPcs, Statuses, Outcomes
  <1>2. SessionsSound /\ HookHolds /\ DrawHolds
    BY DEF Init, SessionsSound, HookHolds, DrawHolds
  <1>3. CreditedOnce /\ AckedIsCredited /\ OnePendingWithdrawal /\ NonNegativeBalance
    BY DEF Init, CreditedOnce, AckedIsCredited, OnePendingWithdrawal, NonNegativeBalance
  <1> QED
    BY <1>1, <1>2, <1>3 DEF Inv

(* Requests of different kinds are different transactions.                 *)
LEMMA TxnsDiffer ==
  /\ \A h \in Hooks : h \in Txns /\ h # NoOne /\ h \notin Withdrawers
  /\ \A w \in Withdrawers : w \in Txns /\ w # NoOne /\ w \notin Hooks
  BY WalletAssumption DEF Txns

(* What a call asked for is known by its fields.                           *)
LEMMA DrawFields ==
  ASSUME NEW q \in Draw
  PROVE  q.user \in Users /\ q.amount \in Nat /\ q.amount > 0 /\ q.amount \in Amounts
  <1>1. q.user \in Users /\ q.amount \in Amounts
    BY DEF Draw
  <1>2. \A m \in Amounts : m \in Nat /\ m # 0
    BY WalletAssumption
  <1> QED
    BY <1>1, <1>2
-----------------------------------------------------------------------------
(* CreateDeposit and Stripe.                                               *)

LEMMA OpenSessionInv ==
  ASSUME Inv, NEW s \in Sessions, NEW u \in Users, NEW m \in Amounts, OpenSession(s, u, m)
  PROVE  Inv'
  <1> USE DEF OpenSession, moneyVars, hookVars, drawVars
  <1>0. [user |-> u, amount |-> m] \in Draw
    BY DEF Draw
  <1>1. TypeOK'
    BY <1>0 DEF Inv, TypeOK, Outcomes
  <1>2. SessionsSound'
    BY <1>0 DEF Inv, TypeOK, SessionsSound
  <1>3. HookHolds'
    BY DEF Inv, TypeOK, HookHolds
  <1>4. DrawHolds'
    BY DEF Inv, DrawHolds
  <1>5. (CreditedOnce /\ AckedIsCredited)'
    BY DEF Inv, TypeOK, SessionsSound, CreditedOnce, AckedIsCredited
  <1>6. (OnePendingWithdrawal /\ NonNegativeBalance)'
    BY DEF Inv, OnePendingWithdrawal, NonNegativeBalance
  <1> QED
    BY <1>1, <1>2, <1>3, <1>4, <1>5, <1>6 DEF Inv

LEMMA InsertInv ==
  ASSUME Inv, NEW s \in Sessions, InsertDeposit(s) \/ InsertFail(s)
  PROVE  Inv'
  <1> USE DEF InsertDeposit, InsertFail, moneyVars, stripeVars, hookVars, drawVars
  <1>0. /\ asking[s] = "opened"
        /\ deposit' \in {deposit, [deposit EXCEPT ![s] = "pending"]}
        /\ InsertDeposit(s) => deposit' = [deposit EXCEPT ![s] = "pending"]
    OBVIOUS
  <1>1. TypeOK'
    BY <1>0 DEF Inv, TypeOK, Statuses
  <1>2. SessionsSound'
    BY <1>0 DEF Inv, TypeOK, SessionsSound
  <1>3. HookHolds'
    <2>1. ASSUME NEW k \in Hooks, hookPc[k] \in {"locked", "credited", "failing"}
          PROVE  hookFor[k] \in Sessions /\ stripe[hookFor[k]] \in {"paid", "expired"}
      BY <2>1 DEF Inv, HookHolds
    <2>2. stripe[s] = "open"
      BY <1>0 DEF Inv, SessionsSound
    <2>3. ASSUME NEW k \in Hooks, hookPc[k] \in {"locked", "credited", "failing"}
          PROVE  deposit'[hookFor[k]] = deposit[hookFor[k]]
      BY <1>0, <2>1, <2>2, <2>3 DEF Inv, TypeOK
    <2> QED
      BY <2>1, <2>3 DEF Inv, HookHolds
  <1>4. DrawHolds'
    BY DEF Inv, DrawHolds
  <1>5. (CreditedOnce /\ AckedIsCredited)'
    BY <1>0 DEF Inv, TypeOK, SessionsSound, CreditedOnce, AckedIsCredited
  <1>6. (OnePendingWithdrawal /\ NonNegativeBalance)'
    BY DEF Inv, OnePendingWithdrawal, NonNegativeBalance
  <1> QED
    BY <1>1, <1>2, <1>3, <1>4, <1>5, <1>6 DEF Inv

LEMMA StripeInv ==
  ASSUME Inv, NEW s \in Sessions, Pay(s) \/ Expire(s)
  PROVE  Inv'
  <1> USE DEF Pay, Expire, Payable, moneyVars, depositVars, hookVars, drawVars
  <1>0. /\ stripe[s] = "open"
        /\ \/ stripe' = [stripe EXCEPT ![s] = "expired"]
              /\ asking[s] \in {"answered", "refused"}
           \/ asking[s] = "answered" /\ \E o \in {"paid", "unpaid"} : stripe' = [stripe EXCEPT ![s] = o]
    OBVIOUS
  <1>1. TypeOK'
    BY <1>0 DEF Inv, TypeOK, Outcomes
  <1>2. SessionsSound'
    BY <1>0 DEF Inv, TypeOK, SessionsSound
  <1>3. HookHolds'
    BY <1>0 DEF Inv, TypeOK, HookHolds
  <1>4. DrawHolds'
    BY DEF Inv, DrawHolds
  <1>5. CreditedOnce'
    BY DEF Inv, CreditedOnce
  <1>6. AckedIsCredited'
    <2>1. s \notin acked
      BY <1>0 DEF Inv, SessionsSound
    <2>2. \A z \in acked : z # s /\ stripe'[z] = stripe[z]
      BY <1>0, <2>1 DEF Inv, TypeOK
    <2> QED
      BY <2>2 DEF Inv, AckedIsCredited
  <1>7. (OnePendingWithdrawal /\ NonNegativeBalance)'
    BY DEF Inv, OnePendingWithdrawal, NonNegativeBalance
  <1> QED
    BY <1>1, <1>2, <1>3, <1>4, <1>5, <1>6, <1>7 DEF Inv
-----------------------------------------------------------------------------
(* The webhook.                                                            *)

LEMMA HookLockInv ==
  ASSUME Inv, NEW h \in Hooks, NEW s \in Sessions, HookLock(h, s)
  PROVE  Inv'
  <1> USE TxnsDiffer DEF HookLock, Settles, Creditable, FreeFor, moneyVars, stripeVars, depositVars, drawVars
  <1>1. TypeOK'
    BY DEF Inv, TypeOK, HookPcs
  <1>2. SessionsSound'
    BY DEF Inv, SessionsSound
  <1>3. HookHolds'
    BY DEF Inv, TypeOK, HookHolds
  <1>4. DrawHolds'
    BY DEF Inv, DrawHolds
  <1>5. (CreditedOnce /\ AckedIsCredited /\ OnePendingWithdrawal /\ NonNegativeBalance)'
    BY DEF Inv, CreditedOnce, AckedIsCredited, OnePendingWithdrawal, NonNegativeBalance
  <1> QED
    BY <1>1, <1>2, <1>3, <1>4, <1>5 DEF Inv

LEMMA SkipInv ==
  ASSUME Inv, NEW h \in Hooks, NEW s \in Sessions, HookSkip(h, s) \/ FailSkip(h, s)
  PROVE  Inv'
  <1> USE DEF HookSkip, FailSkip, Settles, Creditable, moneyVars, depositVars, hookVars, drawVars
  <1>0. /\ acked' = acked \cup {s}
        /\ stripe[s] \in {"paid", "unpaid", "expired"}
        /\ stripe[s] = "paid" => deposit[s] # "pending"
    OBVIOUS
  <1>1. stripe[s] = "paid" => deposit[s] = "completed"
    BY <1>0 DEF Inv, TypeOK, SessionsSound, Statuses
  <1>2. TypeOK'
    BY <1>0 DEF Inv, TypeOK
  <1>3. (SessionsSound /\ HookHolds /\ DrawHolds)'
    BY <1>0 DEF Inv, SessionsSound, HookHolds, DrawHolds
  <1>4. AckedIsCredited'
    BY <1>0, <1>1 DEF Inv, AckedIsCredited
  <1>5. (CreditedOnce /\ OnePendingWithdrawal /\ NonNegativeBalance)'
    BY DEF Inv, CreditedOnce, OnePendingWithdrawal, NonNegativeBalance
  <1> QED
    BY <1>2, <1>3, <1>4, <1>5 DEF Inv

LEMMA HookCreditInv ==
  ASSUME Inv, NEW h \in Hooks, HookCredit(h)
  PROVE  Inv'
  <1> USE TxnsDiffer DEF HookCredit, FreeFor, moneyVars, stripeVars, depositVars, drawVars
  <1> DEFINE u == request[hookFor[h]].user
  <1>0. hookFor[h] \in Sessions /\ u \in Users
    BY DrawFields DEF Inv, HookHolds, SessionsSound
  <1>1. TypeOK'
    BY <1>0 DEF Inv, TypeOK, HookPcs
  <1>2. SessionsSound'
    BY DEF Inv, SessionsSound
  <1>3. HookHolds'
    BY <1>0 DEF Inv, TypeOK, HookHolds
  <1>4. DrawHolds'
    BY <1>0 DEF Inv, TypeOK, DrawHolds
  <1>5. (CreditedOnce /\ AckedIsCredited /\ OnePendingWithdrawal /\ NonNegativeBalance)'
    BY DEF Inv, CreditedOnce, AckedIsCredited, OnePendingWithdrawal, NonNegativeBalance
  <1> QED
    BY <1>1, <1>2, <1>3, <1>4, <1>5 DEF Inv

(* The end of a webhook request takes no lock from another.                *)
LEMMA EndHookFrees ==
  ASSUME TypeOK, NEW h \in Hooks, EndHook(h)
  PROVE  /\ depositLock' \in [Sessions -> Txns \cup {NoOne}]
         /\ userLock' \in [Users -> Txns \cup {NoOne}]
         /\ \A s \in Sessions : depositLock[s] # h => depositLock'[s] = depositLock[s]
         /\ \A u \in Users : userLock[u] # h => userLock'[u] = userLock[u]
         /\ hookPc' \in [Hooks -> HookPcs] /\ hookPc'[h] = "idle"
         /\ hookFor' \in [Hooks -> Sessions \cup {NoOne}]
         /\ \A k \in Hooks \ {h} : hookPc'[k] = hookPc[k] /\ hookFor'[k] = hookFor[k]
  BY DEF TypeOK, EndHook, HookPcs, Without

(* It disturbs no withdrawal.                                              *)
LEMMA EndHookDraws ==
  ASSUME Inv, NEW h \in Hooks, EndHook(h), UNCHANGED drawVars, withdrawals' = withdrawals,
         \A w \in Withdrawers : drawPc[w] = "deducted" => balance'[drawReq[w].user] = balance[drawReq[w].user]
  PROVE  DrawHolds'
  <1>1. \A w \in Withdrawers : drawPc[w] # "idle" => userLock'[drawReq[w].user] = w
    BY EndHookFrees, TxnsDiffer, DrawFields DEF Inv, DrawHolds
  <1> QED
    BY <1>1 DEF Inv, DrawHolds, drawVars

LEMMA HookCommitInv ==
  ASSUME Inv, NEW h \in Hooks, HookCommit(h)
  PROVE  Inv'
  <1> DEFINE s == hookFor[h]
             q == request[s]
  <1>0. /\ hookPc[h] = "credited"
        /\ deposit' = [deposit EXCEPT ![s] = "completed"]
        /\ balance' = [balance EXCEPT ![q.user] = @ + q.amount]
        /\ credited' = [credited EXCEPT ![s] = @ + q.amount]
        /\ acked' \in {acked, acked \cup {s}}
        /\ EndHook(h)
        /\ UNCHANGED <<withdrawals, paidOut, stripe, request, asking, drawPc, drawReq>>
    BY DEF HookCommit, Completed, drawVars
  <1>1. /\ s \in Sessions /\ depositLock[s] = h /\ deposit[s] = "pending" /\ stripe[s] = "paid"
        /\ userLock[q.user] = h /\ q \in Draw
    BY <1>0 DEF Inv, HookHolds, SessionsSound
  <1>2. q.user \in Users /\ q.amount \in Nat /\ q.amount > 0
    BY <1>1, DrawFields
  <1> HIDE DEF s, q
  <1>3. TypeOK'
    BY <1>0, <1>1, <1>2, EndHookFrees DEF Inv, TypeOK, Statuses
  <1>4. SessionsSound'
    BY <1>0, <1>1 DEF Inv, TypeOK, SessionsSound
  <1>5. HookHolds'
    <2>1. ASSUME NEW k \in Hooks, hookPc'[k] # "idle"
          PROVE  /\ k # h /\ hookPc'[k] = hookPc[k] /\ hookFor'[k] = hookFor[k]
                 /\ hookFor[k] \in Sessions /\ hookFor[k] # s
      BY <1>0, <1>1, <2>1, EndHookFrees DEF Inv, TypeOK, HookHolds, HookPcs
    <2>2. ASSUME NEW k \in Hooks, hookPc'[k] \in {"locked", "credited"}
          PROVE  depositLock'[hookFor[k]] = k /\ deposit'[hookFor[k]] = deposit[hookFor[k]]
      BY <1>0, <2>1, <2>2, EndHookFrees DEF Inv, TypeOK, HookHolds
    <2>3. ASSUME NEW k \in Hooks, hookPc'[k] = "credited"
          PROVE  userLock'[request[hookFor[k]].user] = k
      BY <1>0, <2>1, <2>3, EndHookFrees, DrawFields DEF Inv, HookHolds, SessionsSound
    <2>4. ASSUME NEW k \in Hooks, hookPc'[k] = "failing"
          PROVE  deposit'[hookFor[k]] = deposit[hookFor[k]]
      BY <1>0, <2>1, <2>4 DEF Inv, TypeOK
    <2> QED
      BY <1>0, <2>1, <2>2, <2>3, <2>4 DEF Inv, HookHolds
  <1>6. DrawHolds'
    <2>1. ASSUME NEW w \in Withdrawers, drawPc[w] = "deducted"
          PROVE  balance'[drawReq[w].user] = balance[drawReq[w].user]
      BY <1>0, <1>1, <1>2, <2>1, TxnsDiffer, DrawFields, ZenonT(60) DEF Inv, TypeOK, DrawHolds
    <2> QED
      BY <1>0, <2>1, EndHookDraws DEF drawVars
  <1>7. (CreditedOnce /\ AckedIsCredited)'
    BY <1>0, <1>1, <1>2 DEF Inv, TypeOK, CreditedOnce, AckedIsCredited, q
  <1>8. OnePendingWithdrawal'
    BY <1>0 DEF Inv, OnePendingWithdrawal
  <1>9. NonNegativeBalance'
    BY <1>0, <1>2 DEF Inv, TypeOK, NonNegativeBalance
  <1> QED
    BY <1>3, <1>4, <1>5, <1>6, <1>7, <1>8, <1>9 DEF Inv

LEMMA HookAbortInv ==
  ASSUME Inv, NEW h \in Hooks, HookAbort(h)
  PROVE  Inv'
  <1>0. EndHook(h) /\ UNCHANGED <<moneyVars, stripeVars, depositVars, drawVars>>
    BY DEF HookAbort
  <1> USE DEF moneyVars, stripeVars, depositVars, drawVars
  <1>1. TypeOK'
    BY <1>0, EndHookFrees DEF Inv, TypeOK
  <1>2. HookHolds'
    <2>1. ASSUME NEW k \in Hooks, hookPc'[k] # "idle"
          PROVE  k # h /\ hookPc'[k] = hookPc[k] /\ hookFor'[k] = hookFor[k]
      BY <1>0, <2>1, EndHookFrees DEF Inv
    <2>2. ASSUME NEW k \in Hooks, hookPc'[k] \in {"locked", "credited"}
          PROVE  depositLock'[hookFor[k]] = k
      BY <1>0, <2>1, <2>2, EndHookFrees DEF Inv, HookHolds
    <2>3. ASSUME NEW k \in Hooks, hookPc'[k] = "credited"
          PROVE  userLock'[request[hookFor[k]].user] = k
      BY <1>0, <2>1, <2>3, EndHookFrees, DrawFields DEF Inv, HookHolds, SessionsSound
    <2> QED
      BY <1>0, <2>1, <2>2, <2>3 DEF Inv, HookHolds
  <1>3. DrawHolds'
    BY <1>0, EndHookDraws
  <1>4. SessionsSound'
    BY <1>0 DEF Inv, SessionsSound
  <1>5. (CreditedOnce /\ AckedIsCredited /\ OnePendingWithdrawal /\ NonNegativeBalance)'
    BY <1>0 DEF Inv, CreditedOnce, AckedIsCredited, OnePendingWithdrawal, NonNegativeBalance
  <1> QED
    BY <1>1, <1>2, <1>3, <1>4, <1>5 DEF Inv

LEMMA FailReadInv ==
  ASSUME Inv, NEW h \in Hooks, NEW s \in Sessions, FailRead(h, s)
  PROVE  Inv'
  <1> USE DEF FailRead, moneyVars, stripeVars, depositVars, drawVars
  <1>1. TypeOK'
    BY DEF Inv, TypeOK, HookPcs
  <1>2. HookHolds'
    BY DEF Inv, TypeOK, HookHolds
  <1>3. (SessionsSound /\ DrawHolds)'
    BY DEF Inv, SessionsSound, DrawHolds
  <1>4. (CreditedOnce /\ AckedIsCredited /\ OnePendingWithdrawal /\ NonNegativeBalance)'
    BY DEF Inv, CreditedOnce, AckedIsCredited, OnePendingWithdrawal, NonNegativeBalance
  <1> QED
    BY <1>1, <1>2, <1>3, <1>4 DEF Inv

LEMMA FailWriteInv ==
  ASSUME Inv, NEW h \in Hooks, FailWrite(h)
  PROVE  Inv'
  <1> DEFINE s == hookFor[h]
  <1>0. /\ hookPc[h] = "failing"
        /\ deposit' = [deposit EXCEPT ![s] = "failed"]
        /\ acked' \in {acked, acked \cup {s}}
        /\ EndHook(h)
        /\ UNCHANGED <<moneyVars, stripe, request, asking, drawVars>>
    BY DEF FailWrite
  <1>1. s \in Sessions /\ deposit[s] \in {"pending", "failed"} /\ stripe[s] = "expired"
    BY <1>0 DEF Inv, HookHolds
  <1> HIDE DEF s
  <1> USE DEF moneyVars, drawVars
  <1>2. TypeOK'
    BY <1>0, <1>1, EndHookFrees DEF Inv, TypeOK, Statuses
  <1>3. SessionsSound'
    BY <1>0, <1>1 DEF Inv, TypeOK, SessionsSound
  <1>4. HookHolds'
    <2>1. ASSUME NEW k \in Hooks, hookPc'[k] # "idle"
          PROVE  /\ k # h /\ hookPc'[k] = hookPc[k] /\ hookFor'[k] = hookFor[k]
                 /\ hookFor[k] \in Sessions
      BY <1>0, <2>1, EndHookFrees DEF Inv, TypeOK, HookHolds, HookPcs
    <2>2. ASSUME NEW k \in Hooks, hookPc'[k] \in {"locked", "credited"}
          PROVE  depositLock'[hookFor[k]] = k /\ deposit'[hookFor[k]] = deposit[hookFor[k]]
      BY <1>0, <1>1, <2>1, <2>2, EndHookFrees DEF Inv, TypeOK, HookHolds
    <2>3. ASSUME NEW k \in Hooks, hookPc'[k] = "credited"
          PROVE  userLock'[request[hookFor[k]].user] = k
      BY <1>0, <2>1, <2>3, EndHookFrees, DrawFields DEF Inv, HookHolds, SessionsSound
    <2>4. ASSUME NEW k \in Hooks, hookPc'[k] = "failing"
          PROVE  deposit'[hookFor[k]] \in {"pending", "failed"}
      BY <1>0, <2>1, <2>4 DEF Inv, TypeOK, HookHolds
    <2> QED
      BY <1>0, <2>1, <2>2, <2>3, <2>4 DEF Inv, HookHolds
  <1>5. DrawHolds'
    BY <1>0, EndHookDraws
  <1>6. (CreditedOnce /\ AckedIsCredited)'
    BY <1>0, <1>1 DEF Inv, TypeOK, CreditedOnce, AckedIsCredited
  <1>7. (OnePendingWithdrawal /\ NonNegativeBalance)'
    BY <1>0 DEF Inv, OnePendingWithdrawal, NonNegativeBalance
  <1> QED
    BY <1>2, <1>3, <1>4, <1>5, <1>6, <1>7 DEF Inv
-----------------------------------------------------------------------------
(* Withdrawals.                                                            *)

LEMMA DrawLockInv ==
  ASSUME Inv, NEW w \in Withdrawers, NEW u \in Users, NEW m \in Amounts, DrawLock(w, u, m)
  PROVE  Inv'
  <1> USE TxnsDiffer DEF DrawLock, FreeFor, moneyVars, stripeVars, depositVars, hookVars
  <1>0. [user |-> u, amount |-> m] \in Draw
    BY DEF Draw
  <1>1. TypeOK'
    BY <1>0 DEF Inv, TypeOK, DrawPcs
  <1>2. SessionsSound'
    BY DEF Inv, SessionsSound
  <1>3. HookHolds'
    BY DrawFields DEF Inv, TypeOK, HookHolds, SessionsSound
  <1>4. DrawHolds'
    BY <1>0, DrawFields DEF Inv, TypeOK, DrawHolds
  <1>5. (CreditedOnce /\ AckedIsCredited /\ OnePendingWithdrawal /\ NonNegativeBalance)'
    BY DEF Inv, CreditedOnce, AckedIsCredited, OnePendingWithdrawal, NonNegativeBalance
  <1> QED
    BY <1>1, <1>2, <1>3, <1>4, <1>5 DEF Inv

(* The count and the deduction read rows the lock protects.                *)
LEMMA DrawReadInv ==
  ASSUME Inv, NEW w \in Withdrawers, DrawCount(w) \/ DrawDeduct(w)
  PROVE  Inv'
  <1> USE DEF DrawCount, DrawDeduct, Covered, moneyVars, stripeVars, depositVars, hookVars
  <1>1. TypeOK'
    BY DEF Inv, TypeOK, DrawPcs
  <1>2. (SessionsSound /\ HookHolds)'
    BY DEF Inv, SessionsSound, HookHolds
  <1>3. DrawHolds'
    <2>1. drawPc[w] # "idle" /\ drawReq[w].user \in Users
      BY DrawFields DEF Inv, DrawHolds
    <2>2. Len(withdrawals[drawReq[w].user]) = 0 => withdrawals[drawReq[w].user] = <<>>
      BY <2>1 DEF Inv, TypeOK
    <2> QED
      BY <2>1, <2>2 DEF Inv, TypeOK, DrawHolds
  <1>4. (CreditedOnce /\ AckedIsCredited /\ OnePendingWithdrawal /\ NonNegativeBalance)'
    BY DEF Inv, CreditedOnce, AckedIsCredited, OnePendingWithdrawal, NonNegativeBalance
  <1> QED
    BY <1>1, <1>2, <1>3, <1>4 DEF Inv

(* The end of a withdrawal takes no lock from another request.             *)
LEMMA EndDrawFrees ==
  ASSUME Inv, NEW w \in Withdrawers, EndDraw(w)
  PROVE  /\ userLock' \in [Users -> Txns \cup {NoOne}]
         /\ \A u \in Users : userLock[u] # w => userLock'[u] = userLock[u]
         /\ drawPc' \in [Withdrawers -> DrawPcs] /\ drawPc'[w] = "idle"
         /\ drawReq' \in [Withdrawers -> Draw \cup {NoDraw}]
         /\ \A k \in Withdrawers \ {w} : drawPc'[k] = drawPc[k] /\ drawReq'[k] = drawReq[k]
         /\ UNCHANGED <<depositLock, stripe, acked, request, asking, deposit, hookPc, hookFor>>
         /\ HookHolds'
  <1>1. userLock' = Without(userLock, w)
        /\ drawPc' = [drawPc EXCEPT ![w] = "idle"] /\ drawReq' = [drawReq EXCEPT ![w] = NoDraw]
        /\ UNCHANGED <<depositLock, stripe, acked, request, asking, deposit, hookPc, hookFor>>
    BY DEF EndDraw, stripeVars, depositVars, hookVars
  <1>2. /\ userLock' \in [Users -> Txns \cup {NoOne}]
        /\ \A u \in Users : userLock[u] # w => userLock'[u] = userLock[u]
    BY <1>1 DEF Inv, TypeOK, Without
  <1>3. HookHolds'
    BY <1>1, <1>2, TxnsDiffer, DrawFields DEF Inv, HookHolds, SessionsSound
  <1> QED
    BY <1>1, <1>2, <1>3 DEF Inv, TypeOK, DrawPcs

LEMMA DrawRollbackInv ==
  ASSUME Inv, NEW w \in Withdrawers, DrawRefuse(w) \/ DrawAbort(w)
  PROVE  Inv'
  <1>0. EndDraw(w) /\ UNCHANGED <<balance, credited, withdrawals, paidOut>>
    BY DEF DrawRefuse, DrawAbort, moneyVars
  <1>1. TypeOK'
    BY <1>0, EndDrawFrees DEF Inv, TypeOK
  <1>2. SessionsSound'
    BY <1>0, EndDrawFrees DEF Inv, SessionsSound
  <1>3. DrawHolds'
    <2>1. ASSUME NEW k \in Withdrawers, drawPc'[k] # "idle"
          PROVE  /\ k # w /\ drawPc'[k] = drawPc[k] /\ drawReq'[k] = drawReq[k]
                 /\ userLock'[drawReq[k].user] = k
      BY <1>0, <2>1, EndDrawFrees, DrawFields DEF Inv, DrawHolds
    <2> QED
      BY <1>0, <2>1 DEF Inv, DrawHolds
  <1>4. (CreditedOnce /\ AckedIsCredited)'
    BY <1>0, EndDrawFrees DEF Inv, CreditedOnce, AckedIsCredited
  <1>5. (OnePendingWithdrawal /\ NonNegativeBalance)'
    BY <1>0 DEF Inv, OnePendingWithdrawal, NonNegativeBalance
  <1> QED
    BY <1>0, <1>1, <1>2, <1>3, <1>4, <1>5, EndDrawFrees DEF Inv

LEMMA DrawCommitInv ==
  ASSUME Inv, NEW w \in Withdrawers, DrawCommit(w)
  PROVE  Inv'
  <1> DEFINE q == drawReq[w]
  <1>0. /\ drawPc[w] = "deducted"
        /\ balance' = [balance EXCEPT ![q.user] = @ - q.amount]
        /\ paidOut' = [paidOut EXCEPT ![q.user] = @ + q.amount]
        /\ withdrawals' = [withdrawals EXCEPT ![q.user] = Append(@, q.amount)]
        /\ EndDraw(w)
        /\ credited' = credited
    BY DEF DrawCommit
  <1>1. /\ q \in Draw /\ userLock[q.user] = w
        /\ withdrawals[q.user] = <<>> /\ balance[q.user] >= q.amount
    BY <1>0 DEF Inv, DrawHolds
  <1>2. q.user \in Users /\ q.amount \in Nat /\ q.amount > 0 /\ q.amount \in Amounts
    BY <1>1, DrawFields
  <1> HIDE DEF q
  <1>3. withdrawals' = [withdrawals EXCEPT ![q.user] = <<q.amount>>]
    BY <1>0, <1>1
  <1>4. TypeOK'
    BY <1>0, <1>2, <1>3, EndDrawFrees DEF Inv, TypeOK
  <1>5. SessionsSound'
    BY <1>0, EndDrawFrees DEF Inv, SessionsSound
  <1>6. DrawHolds'
    <2>1. ASSUME NEW k \in Withdrawers, drawPc'[k] # "idle"
          PROVE  /\ k # w /\ drawPc'[k] = drawPc[k] /\ drawReq'[k] = drawReq[k]
                 /\ drawReq[k] \in Draw /\ drawReq[k].user # q.user
                 /\ userLock'[drawReq[k].user] = k
      BY <1>0, <1>1, <2>1, EndDrawFrees, DrawFields DEF Inv, DrawHolds
    <2>2. ASSUME NEW k \in Withdrawers, drawPc'[k] # "idle"
          PROVE  /\ withdrawals'[drawReq[k].user] = withdrawals[drawReq[k].user]
                 /\ balance'[drawReq[k].user] = balance[drawReq[k].user]
      BY <1>0, <1>3, <2>1, <2>2, DrawFields DEF Inv, TypeOK
    <2> QED
      BY <2>1, <2>2 DEF Inv, DrawHolds
  <1>7. (CreditedOnce /\ AckedIsCredited)'
    BY <1>0, EndDrawFrees DEF Inv, CreditedOnce, AckedIsCredited
  <1>8. OnePendingWithdrawal'
    <2> SUFFICES ASSUME NEW u \in Users
                 PROVE  \/ withdrawals'[u] = <<>> /\ paidOut'[u] = 0
                        \/ Len(withdrawals'[u]) = 1 /\ paidOut'[u] = withdrawals'[u][1]
      BY DEF OnePendingWithdrawal
    <2>1. CASE u = q.user
      <3>1. paidOut[u] = 0
        BY <1>1, <2>1 DEF Inv, OnePendingWithdrawal
      <3>2. paidOut'[u] = paidOut[u] + q.amount
        BY <1>0, <2>1 DEF Inv, TypeOK
      <3>3. withdrawals'[u] = <<q.amount>>
        BY <1>3, <2>1 DEF Inv, TypeOK
      <3>4. paidOut'[u] = q.amount
        BY <1>2, <3>1, <3>2
      <3> QED
        BY <3>3, <3>4
    <2>2. CASE u # q.user
      BY <1>0, <1>2, <1>3, <2>2 DEF Inv, TypeOK, OnePendingWithdrawal
    <2> QED
      BY <2>1, <2>2
  <1>9. NonNegativeBalance'
    BY <1>0, <1>1, <1>2 DEF Inv, TypeOK, NonNegativeBalance
  <1> QED
    BY <1>0, <1>4, <1>5, <1>6, <1>7, <1>8, <1>9, EndDrawFrees DEF Inv
-----------------------------------------------------------------------------
LEMMA NextInv == Inv /\ [Next]_vars => Inv'
  <1> SUFFICES ASSUME Inv, [Next]_vars PROVE Inv'
    OBVIOUS
  <1>1. CASE UNCHANGED vars
    BY <1>1 DEF vars, moneyVars, stripeVars, depositVars, hookVars, drawVars, Inv, TypeOK,
        SessionsSound, HookHolds, DrawHolds, CreditedOnce, AckedIsCredited,
        OnePendingWithdrawal, NonNegativeBalance
  <1>2. CASE \E s \in Sessions : SessionStep(s)
    BY <1>2, OpenSessionInv, InsertInv, StripeInv DEF SessionStep
  <1>3. CASE \E h \in Hooks : HookStep(h)
    BY <1>3, HookLockInv, SkipInv, HookCreditInv, HookCommitInv, HookAbortInv, FailReadInv,
       FailWriteInv DEF HookStep
  <1>4. CASE \E w \in Withdrawers : DrawStep(w)
    BY <1>4, DrawLockInv, DrawReadInv, DrawRollbackInv, DrawCommitInv DEF DrawStep
  <1> QED
    BY <1>1, <1>2, <1>3, <1>4 DEF Next

(* The inductive invariant holds of every behaviour.                       *)
THEOREM Invariance == Spec => []Inv
  <1> QED
    BY InitInv, NextInv, PTL DEF Spec

(* Every variable keeps its type.                                          *)
THEOREM TypeCorrect == Spec => []TypeOK
  <1>1. Inv => TypeOK
    BY DEF Inv
  <1> QED
    BY <1>1, Invariance, PTL

(* Copies, failures and retries of an event credit its deposit once.       *)
THEOREM CreditIsOnce == Spec => []CreditedOnce
  <1>1. Inv => CreditedOnce
    BY DEF Inv
  <1> QED
    BY <1>1, Invariance, PTL

(* Nothing is credited that Stripe has not got.                            *)
THEOREM CreditIsPaid == Spec => []CreditedWasPaid
  <1>1. Inv => CreditedWasPaid
    BY DEF Inv, CreditedOnce, SessionsSound, CreditedWasPaid
  <1> QED
    BY <1>1, Invariance, PTL

(* An event that is answered 200 needs no further delivery.                *)
THEOREM AckIsSafe == Spec => []AckedIsCredited
  <1>1. Inv => AckedIsCredited
    BY DEF Inv
  <1> QED
    BY <1>1, Invariance, PTL

(* Concurrent requests of one user leave one pending withdrawal.           *)
THEOREM PendingIsOne == Spec => []OnePendingWithdrawal
  <1>1. Inv => OnePendingWithdrawal
    BY DEF Inv
  <1> QED
    BY <1>1, Invariance, PTL

(* No interleaving of deposits and withdrawals makes a balance negative.   *)
THEOREM BalancesNeverNegative == Spec => []NonNegativeBalance
  <1>1. Inv => NonNegativeBalance
    BY DEF Inv
  <1> QED
    BY <1>1, Invariance, PTL
-----------------------------------------------------------------------------
(* The wallet beside other components: what each side keeps to on the rows *)
(* of table users, which is all they share.                                *)

(* A step here leaves alone the rows that others have locked.              *)
LEMMA LeavesOthers ==
  ASSUME Inv, [Next]_vars, NEW u \in Users, userLock[u] \in OtherTxns
  PROVE  userLock'[u] = userLock[u] /\ balance'[u] >= balance[u]
  <1> USE WalletAssumption
  <1>0. /\ userLock \in [Users -> Txns \cup {NoOne}]
        /\ balance \in [Users -> Int] /\ balance[u] \in Int
        /\ userLock[u] \notin Hooks \cup Withdrawers \cup {NoOne}
    BY DEF Inv, TypeOK
  <1>1. CASE UNCHANGED <<userLock, balance>>
    BY <1>0, <1>1
  <1>2. CASE \E s \in Sessions : SessionStep(s)
    BY <1>1, <1>2 DEF SessionStep, OpenSession, InsertDeposit, InsertFail, Pay, Expire, moneyVars
  <1>3. CASE \E h \in Hooks : HookStep(h)
    <2>1. PICK h \in Hooks : HookStep(h)
      BY <1>3
    <2>2. EndHook(h) => userLock'[u] = userLock[u]
      BY <1>0 DEF EndHook, Without
    <2>3. CASE HookCommit(h)
      <3>1. /\ userLock[request[hookFor[h]].user] = h
            /\ balance' = [balance EXCEPT ![request[hookFor[h]].user] = @ + request[hookFor[h]].amount]
        BY <2>3 DEF HookCommit, Inv, HookHolds
      <3>2. balance'[u] = balance[u]
        BY <1>0, <3>1
      <3> QED
        BY <1>0, <2>2, <2>3, <3>2 DEF HookCommit
    <2>4. CASE HookAbort(h) \/ FailWrite(h)
      BY <1>0, <2>2, <2>4 DEF HookAbort, FailWrite, moneyVars
    <2>5. CASE HookCredit(h)
      BY <1>0, <2>5 DEF HookCredit, FreeFor, moneyVars
    <2>6. CASE \E s \in Sessions : HookLock(h, s) \/ HookSkip(h, s) \/ FailRead(h, s) \/ FailSkip(h, s)
      BY <1>1, <2>6 DEF HookLock, HookSkip, FailRead, FailSkip, moneyVars
    <2> QED
      BY <2>1, <2>3, <2>4, <2>5, <2>6 DEF HookStep
  <1>4. CASE \E w \in Withdrawers : DrawStep(w)
    <2>1. PICK w \in Withdrawers : DrawStep(w)
      BY <1>4
    <2>2. EndDraw(w) => userLock'[u] = userLock[u]
      BY <1>0 DEF EndDraw, Without
    <2>3. CASE DrawCommit(w)
      <3>1. /\ userLock[drawReq[w].user] = w
            /\ balance' = [balance EXCEPT ![drawReq[w].user] = @ - drawReq[w].amount]
        BY <2>3 DEF DrawCommit, Inv, DrawHolds
      <3>2. balance'[u] = balance[u]
        BY <1>0, <3>1
      <3> QED
        BY <1>0, <2>2, <2>3, <3>2 DEF DrawCommit
    <2>4. CASE DrawRefuse(w) \/ DrawAbort(w)
      BY <1>0, <2>2, <2>4 DEF DrawRefuse, DrawAbort, moneyVars
    <2>5. CASE \E v \in Users, m \in Amounts : DrawLock(w, v, m)
      BY <1>0, <2>5 DEF DrawLock, FreeFor, moneyVars
    <2>6. CASE DrawCount(w) \/ DrawDeduct(w)
      BY <1>1, <2>6 DEF DrawCount, DrawDeduct, moneyVars
    <2> QED
      BY <2>1, <2>3, <2>4, <2>5, <2>6 DEF DrawStep
  <1> QED
    BY <1>1, <1>2, <1>3, <1>4 DEF Next, vars, moneyVars

(* The invariant outlives every step of others that keeps to the same.     *)
LEMMA OthersInv ==
  ASSUME Inv,
         UNCHANGED <<credited, withdrawals, paidOut, depositLock, stripeVars, depositVars, hookVars, drawVars>>,
         balance' \in [Users -> Int], NonNegativeBalance',
         userLock' \in [Users -> Txns \cup {NoOne}],
         \A u \in Users : userLock[u] \in Hooks \cup Withdrawers =>
             userLock'[u] = userLock[u] /\ balance'[u] >= balance[u]
  PROVE  Inv'
  <1> USE DEF Inv, stripeVars, depositVars, hookVars, drawVars
  <1>1. TypeOK'
    BY DEF TypeOK
  <1>2. (SessionsSound /\ CreditedOnce /\ AckedIsCredited /\ OnePendingWithdrawal)'
    BY DEF SessionsSound, CreditedOnce, AckedIsCredited, OnePendingWithdrawal
  <1>3. HookHolds'
    <2> SUFFICES ASSUME NEW h \in Hooks, hookPc[h] = "credited"
                 PROVE  userLock'[request[hookFor[h]].user] = h
      BY DEF HookHolds
    <2>1. userLock[request[hookFor[h]].user] = h /\ hookFor[h] \in Sessions
      BY DEF HookHolds
    <2>2. request[hookFor[h]].user \in Users
      <3>1. request[hookFor[h]] \in Draw
        BY <2>1 DEF HookHolds, SessionsSound
      <3> QED
        BY <3>1, DrawFields
    <2> QED
      BY <2>1, <2>2
  <1>4. DrawHolds'
    <2> SUFFICES ASSUME NEW w \in Withdrawers, drawPc[w] # "idle"
                 PROVE  /\ userLock'[drawReq[w].user] = w
                        /\ drawPc[w] = "deducted" => balance'[drawReq[w].user] >= drawReq[w].amount
      BY DEF DrawHolds
    <2>1. /\ drawReq[w].user \in Users /\ drawReq[w].amount \in Nat
          /\ userLock[drawReq[w].user] = w
          /\ drawPc[w] = "deducted" => balance[drawReq[w].user] >= drawReq[w].amount
      BY DrawFields DEF DrawHolds
    <2> QED
      BY <2>1 DEF TypeOK
  <1> QED
    BY <1>1, <1>2, <1>3, <1>4
-----------------------------------------------------------------------------
(* The books: what the tables of deposits and withdrawals add up to.       *)

CompletedOf(u) == {s \in Sessions : deposit[s] = "completed" /\ request[s].user = u}

(* A completed deposit was asked for.                                      *)
LEMMA CompletedAsked ==
  ASSUME Inv, NEW s \in Sessions, deposit[s] = "completed"
  PROVE  request[s].user \in Users /\ request[s].amount \in Nat
  <1>1. request[s] \in Draw
    BY DEF Inv, SessionsSound
  <1> QED
    BY <1>1, DrawFields

LEMMA BooksAreInt ==
  ASSUME Inv, NEW u \in Users
  PROVE  Deposited(u) \in Int /\ Withdrawn(u) \in Int /\ balance[u] \in Int
  <1>1. Deposited(u) \in Int
    <2> DEFINE f == [s \in Sessions |-> request[s].amount]
    <2>1. IsFiniteSet(CompletedOf(u))
      BY WalletAssumption, FS_Subset DEF CompletedOf
    <2>2. \A s \in CompletedOf(u) : f[s] \in Int
      BY CompletedAsked DEF CompletedOf
    <2> HIDE DEF f
    <2>3. SumFunctionOnSet(f, CompletedOf(u)) \in Int
      BY <2>1, <2>2, SumType
    <2> QED
      BY <2>3 DEF Deposited, CompletedOf, f
  <1>2. Withdrawn(u) \in Int
    <2> DEFINE w == withdrawals[u]
    <2>1. w \in Seq(Amounts)
      BY DEF Inv, TypeOK
    <2> HIDE DEF w
    <2>2. Len(w) \in Nat /\ DOMAIN w = 1..Len(w) /\ \A i \in 1..Len(w) : w[i] \in Int
      <3>1. \A i \in 1..Len(w) : w[i] \in Amounts
        BY <2>1
      <3>2. \A m \in Amounts : m \in Int
        BY WalletAssumption
      <3>3. Len(w) \in Nat /\ DOMAIN w = 1..Len(w)
        BY <2>1
      <3> QED
        BY <3>1, <3>2, <3>3
    <2>3. IsFiniteSet(1..Len(w))
      BY <2>2, FS_Interval
    <2>4. SumFunctionOnSet(w, 1..Len(w)) \in Int
      BY <2>2, <2>3, SumType
    <2> QED
      BY <2>2, <2>4 DEF Withdrawn, SumFunction, w
  <1> QED
    BY <1>1, <1>2 DEF Inv, TypeOK

(* The same deposits add up to the same.                                   *)
LEMMA DepositedSame ==
  ASSUME NEW u \in Users, CompletedOf(u)' = CompletedOf(u),
         \A s \in CompletedOf(u) : request'[s] = request[s]
  PROVE  Deposited(u)' = Deposited(u)
  <1> DEFINE f == [s \in Sessions |-> request[s].amount]
             e == [s \in Sessions |-> request'[s].amount]
  <1>1. IsFiniteSet(CompletedOf(u)) /\ CompletedOf(u) \subseteq Sessions
    BY WalletAssumption, FS_Subset DEF CompletedOf
  <1>2. \A s \in CompletedOf(u) : e[s] = f[s]
    BY <1>1
  <1>3. Deposited(u) = SumFunctionOnSet(f, CompletedOf(u)) /\ Deposited(u)' = SumFunctionOnSet(e, CompletedOf(u)')
    BY DEF Deposited, CompletedOf
  <1> HIDE DEF f, e
  <1>4. SumFunctionOnSet(e, CompletedOf(u)) = SumFunctionOnSet(f, CompletedOf(u))
    BY <1>1, <1>2, SumSame
  <1> QED
    BY <1>3, <1>4

(* What a webhook that commits adds.                                       *)
LEMMA HookCommitBooks ==
  ASSUME Inv, NEW h \in Hooks, HookCommit(h), NEW u \in Users
  PROVE  \E d \in Int : /\ balance'[u] = balance[u] + d
                        /\ Deposited(u)' = Deposited(u) + d
                        /\ Withdrawn(u)' = Withdrawn(u)
  <1> DEFINE s == hookFor[h]
             f == [t \in Sessions |-> request[t].amount]
  <1>1. s \in Sessions /\ deposit[s] = "pending" /\ stripe[s] = "paid"
    BY DEF Inv, HookHolds, HookCommit
  <1>2. request[s].user \in Users /\ request[s].amount \in Nat
    <2>1. request[s] \in Draw
      BY <1>1 DEF Inv, SessionsSound
    <2> QED
      BY <2>1, DrawFields
  <1>3. /\ balance' = [balance EXCEPT ![request[s].user] = @ + request[s].amount]
        /\ deposit' = [deposit EXCEPT ![s] = "completed"]
        /\ request' = request /\ withdrawals' = withdrawals
    BY DEF HookCommit, Completed
  <1>4. Withdrawn(u)' = Withdrawn(u)
    BY <1>3 DEF Withdrawn
  <1>5. balance \in [Users -> Int] /\ deposit \in [Sessions -> Statuses]
    BY DEF Inv, TypeOK
  <1> HIDE DEF s
  <1>6. CompletedOf(u)' = IF request[s].user = u THEN CompletedOf(u) \cup {s} ELSE CompletedOf(u)
    BY <1>1, <1>3, <1>5 DEF CompletedOf
  <1>7. CASE request[s].user = u
    <2>1. IsFiniteSet(CompletedOf(u)) /\ s \notin CompletedOf(u)
      BY <1>1, WalletAssumption, FS_Subset DEF CompletedOf
    <2>2. (\A t \in CompletedOf(u) : f[t] \in Int) /\ f[s] = request[s].amount /\ f[s] \in Int
      BY <1>1, <1>2, CompletedAsked DEF CompletedOf
    <2>3. Deposited(u) = SumFunctionOnSet(f, CompletedOf(u)) /\ Deposited(u)' = SumFunctionOnSet(f, CompletedOf(u)')
      BY <1>3 DEF Deposited, CompletedOf
    <2> HIDE DEF f
    <2>4. SumFunctionOnSet(f, CompletedOf(u) \cup {s}) = SumFunctionOnSet(f, CompletedOf(u)) + f[s]
      BY <2>1, <2>2, SumAdd
    <2>5. Deposited(u)' = Deposited(u) + request[s].amount
      BY <1>6, <1>7, <2>2, <2>3, <2>4
    <2>6. balance'[u] = balance[u] + request[s].amount
      BY <1>3, <1>5, <1>7
    <2>7. request[s].amount \in Int
      BY <1>2
    <2> QED
      BY <1>4, <2>5, <2>6, <2>7
  <1>8. CASE request[s].user # u
    <2>1. Deposited(u)' = Deposited(u)
      BY <1>3, <1>6, <1>8, DepositedSame
    <2>2. balance'[u] = balance[u]
      BY <1>3, <1>5, <1>8
    <2>3. balance[u] \in Int /\ Deposited(u) \in Int
      BY BooksAreInt
    <2> HIDE DEF f
    <2>4. balance'[u] = balance[u] + 0 /\ Deposited(u)' = Deposited(u) + 0
      BY <2>1, <2>2, <2>3
    <2> QED
      BY <1>4, <2>4
  <1> QED
    BY <1>7, <1>8

(* What a withdrawal that commits takes.                                   *)
LEMMA DrawCommitBooks ==
  ASSUME Inv, NEW w \in Withdrawers, DrawCommit(w), NEW u \in Users
  PROVE  \E d \in Int : /\ balance'[u] = balance[u] - d
                        /\ Deposited(u)' = Deposited(u)
                        /\ Withdrawn(u)' = Withdrawn(u) + d
  <1> DEFINE q == drawReq[w]
  <1>1. q.user \in Users /\ q.amount \in Nat /\ withdrawals[q.user] = <<>>
    <2>1. q \in Draw /\ withdrawals[q.user] = <<>>
      BY DEF Inv, DrawHolds, DrawCommit
    <2> QED
      BY <2>1, DrawFields
  <1>2. /\ balance' = [balance EXCEPT ![q.user] = @ - q.amount]
        /\ withdrawals' = [withdrawals EXCEPT ![q.user] = Append(@, q.amount)]
        /\ request' = request /\ deposit' = deposit
    BY DEF DrawCommit, EndDraw, depositVars
  <1>3. balance \in [Users -> Int] /\ withdrawals \in [Users -> Seq(Amounts)]
    BY DEF Inv, TypeOK
  <1> HIDE DEF q
  <1>4. Deposited(u)' = Deposited(u)
    BY <1>2 DEF Deposited
  <1>5. CASE u = q.user
    <2>1. withdrawals'[u] = <<q.amount>> /\ withdrawals[u] = <<>>
      BY <1>1, <1>2, <1>3, <1>5
    <2>2. Withdrawn(u) = 0
      <3>1. DOMAIN withdrawals[u] = {}
        BY <2>1
      <3> QED
        BY <3>1, SumEmpty DEF Withdrawn, SumFunction
    <2>3. Withdrawn(u)' = q.amount
      <3> DEFINE one == <<q.amount>>
      <3>1. one[1] = q.amount /\ q.amount \in Int /\ DOMAIN one = {} \cup {1}
        BY <1>1
      <3>2. SumFunction(one) = SumFunctionOnSet(one, {} \cup {1})
        BY <3>1 DEF SumFunction
      <3> HIDE DEF one
      <3>3. SumFunctionOnSet(one, {} \cup {1}) = SumFunctionOnSet(one, {}) + one[1]
        BY <3>1, SumAdd, FS_EmptySet
      <3>4. SumFunction(one) = q.amount
        BY <3>1, <3>2, <3>3, SumEmpty
      <3> QED
        BY <2>1, <3>4 DEF Withdrawn, one
    <2>4. balance'[u] = balance[u] - q.amount
      BY <1>2, <1>3, <1>5
    <2>5. q.amount \in Int /\ Withdrawn(u)' = Withdrawn(u) + q.amount
      BY <1>1, <2>2, <2>3
    <2> QED
      BY <1>4, <2>4, <2>5
  <1>6. CASE u # q.user
    <2>1. balance'[u] = balance[u] /\ withdrawals'[u] = withdrawals[u]
      BY <1>2, <1>3, <1>6
    <2>2. Withdrawn(u)' = Withdrawn(u)
      BY <2>1 DEF Withdrawn
    <2> QED
      BY <1>4, <2>1, <2>2, BooksAreInt
  <1> QED
    BY <1>5, <1>6

(* Steps that leave balances alone complete no deposit and withdraw        *)
(* nothing.                                                                *)
LEMMA OtherStepBooks ==
  ASSUME Inv, [Next]_vars, NEW u \in Users
  PROVE  \/ \E h \in Hooks : HookCommit(h)
         \/ \E w \in Withdrawers : DrawCommit(w)
         \/ balance'[u] = balance[u] /\ Deposited(u)' = Deposited(u) /\ Withdrawn(u)' = Withdrawn(u)
  <1> USE DEF moneyVars, depositVars
  <1>0. deposit \in [Sessions -> Statuses] /\ request \in [Sessions -> Draw \cup {NoDraw}]
    BY DEF Inv, TypeOK
  <1>s. ASSUME balance' = balance, withdrawals' = withdrawals, NEW s \in Sessions,
               \A t \in Sessions \ {s} : deposit'[t] = deposit[t] /\ request'[t] = request[t],
               deposit[s] # "completed", deposit'[s] # "completed"
        PROVE  balance'[u] = balance[u] /\ Deposited(u)' = Deposited(u) /\ Withdrawn(u)' = Withdrawn(u)
    <2>1. CompletedOf(u)' = CompletedOf(u) /\ \A t \in CompletedOf(u) : request'[t] = request[t]
      BY <1>s DEF CompletedOf
    <2>2. Deposited(u)' = Deposited(u)
      BY <2>1, DepositedSame
    <2> QED
      BY <1>s, <2>2 DEF Withdrawn
  <1>1. CASE UNCHANGED <<balance, withdrawals, request, deposit>>
    BY <1>1 DEF Deposited, Withdrawn
  <1>2. CASE \E s \in Sessions : SessionStep(s)
    <2>1. PICK s \in Sessions : SessionStep(s)
      BY <1>2
    <2>2. CASE \E v \in Users, m \in Amounts : OpenSession(s, v, m)
      <3>1. deposit[s] = "none"
        BY <2>2 DEF OpenSession, Inv, SessionsSound
      <3>2. /\ balance' = balance /\ withdrawals' = withdrawals /\ deposit' = deposit
            /\ \A t \in Sessions \ {s} : request'[t] = request[t]
        BY <1>0, <2>2 DEF OpenSession
      <3> QED
        BY <1>s, <3>1, <3>2
    <2>3. CASE InsertDeposit(s) \/ InsertFail(s)
      <3>1. deposit[s] = "none"
        BY <2>3 DEF InsertDeposit, InsertFail, Inv, SessionsSound
      <3>2. deposit' = deposit \/ deposit' = [deposit EXCEPT ![s] = "pending"]
        BY <2>3 DEF InsertDeposit, InsertFail
      <3>3. deposit'[s] # "completed" /\ \A t \in Sessions \ {s} : deposit'[t] = deposit[t]
        BY <1>0, <3>1, <3>2
      <3>4. balance' = balance /\ withdrawals' = withdrawals /\ request' = request
        BY <2>3 DEF InsertDeposit, InsertFail
      <3> QED
        BY <1>s, <3>1, <3>3, <3>4
    <2>4. CASE Pay(s) \/ Expire(s)
      BY <1>1, <2>4 DEF Pay, Expire
    <2> QED
      BY <2>1, <2>2, <2>3, <2>4 DEF SessionStep
  <1>3. CASE \E h \in Hooks : HookStep(h)
    <2>1. PICK h \in Hooks : HookStep(h)
      BY <1>3
    <2>2. CASE FailWrite(h)
      <3>1. hookFor[h] \in Sessions /\ deposit[hookFor[h]] # "completed"
        BY <2>2 DEF FailWrite, Inv, HookHolds
      <3>2. /\ deposit'[hookFor[h]] # "completed"
            /\ \A t \in Sessions \ {hookFor[h]} : deposit'[t] = deposit[t]
            /\ balance' = balance /\ withdrawals' = withdrawals /\ request' = request
        BY <1>0, <2>2, <3>1 DEF FailWrite
      <3> QED
        BY <1>s, <3>1, <3>2
    <2>3. CASE ~FailWrite(h) /\ ~HookCommit(h)
      BY <1>1, <2>1, <2>3 DEF HookStep, HookLock, HookSkip, FailRead, FailSkip, HookCredit, HookAbort
    <2> QED
      BY <2>2, <2>3
  <1>4. CASE \E w \in Withdrawers : DrawStep(w)
    <2>1. PICK w \in Withdrawers : DrawStep(w)
      BY <1>4
    <2>2. CASE ~DrawCommit(w)
      BY <1>1, <2>1, <2>2 DEF DrawStep, DrawLock, DrawCount, DrawDeduct, DrawRefuse, DrawAbort, EndDraw
    <2> QED
      BY <2>2
  <1> QED
    BY <1>1, <1>2, <1>3, <1>4 DEF Next, vars

(* Balance and books move together: d cents in, e cents out.               *)
LEMMA BooksMove ==
  ASSUME Inv, [Next]_vars, NEW u \in Users
  PROVE  \E d, e \in Int : /\ balance'[u] = balance[u] + d - e
                           /\ Deposited(u)' = Deposited(u) + d
                           /\ Withdrawn(u)' = Withdrawn(u) + e
  <1>1. Deposited(u) \in Int /\ Withdrawn(u) \in Int /\ balance[u] \in Int
    BY BooksAreInt
  <1>2. CASE \E h \in Hooks : HookCommit(h)
    <2>1. PICK d \in Int : /\ balance'[u] = balance[u] + d
                           /\ Deposited(u)' = Deposited(u) + d
                           /\ Withdrawn(u)' = Withdrawn(u)
      BY <1>2, HookCommitBooks
    <2>2. balance'[u] = balance[u] + d - 0 /\ Withdrawn(u)' = Withdrawn(u) + 0
      BY <1>1, <2>1
    <2> QED
      BY <2>1, <2>2
  <1>3. CASE \E w \in Withdrawers : DrawCommit(w)
    <2>1. PICK e \in Int : /\ balance'[u] = balance[u] - e
                           /\ Deposited(u)' = Deposited(u)
                           /\ Withdrawn(u)' = Withdrawn(u) + e
      BY <1>3, DrawCommitBooks
    <2>2. balance'[u] = balance[u] + 0 - e /\ Deposited(u)' = Deposited(u) + 0
      BY <1>1, <2>1
    <2> QED
      BY <2>1, <2>2
  <1>4. CASE balance'[u] = balance[u] /\ Deposited(u)' = Deposited(u) /\ Withdrawn(u)' = Withdrawn(u)
    <2>1. /\ balance'[u] = balance[u] + 0 - 0 /\ Deposited(u)' = Deposited(u) + 0
          /\ Withdrawn(u)' = Withdrawn(u) + 0
      BY <1>1, <1>4
    <2> QED
      BY <2>1
  <1> QED
    BY <1>2, <1>3, <1>4, OtherStepBooks

(* At the start the books are empty.                                       *)
LEMMA BooksStart ==
  ASSUME Init, NEW u \in Users
  PROVE  Deposited(u) = 0 /\ Withdrawn(u) = 0 /\ balance[u] = StartBalance[u]
  <1>1. {s \in Sessions : deposit[s] = "completed" /\ request[s].user = u} = {}
    BY DEF Init
  <1>2. withdrawals[u] = <<>> /\ DOMAIN withdrawals[u] = {}
    BY DEF Init
  <1> QED
    BY <1>1, <1>2, SumEmpty DEF Init, Deposited, Withdrawn, SumFunction

(* Balance, deposits and withdrawals always add up, for every user.        *)
THEOREM WalletAlwaysBalanced == Spec => []WalletBalanced
  <1>1. Init => WalletBalanced
    <2> SUFFICES ASSUME Init, NEW u \in Users
                 PROVE  balance[u] = StartBalance[u] + Deposited(u) - Withdrawn(u)
      BY DEF WalletBalanced
    <2>1. StartBalance[u] \in Int
      BY WalletAssumption
    <2> QED
      BY <2>1, BooksStart
  <1>2. Inv /\ WalletBalanced /\ [Next]_vars => WalletBalanced'
    <2> SUFFICES ASSUME Inv, WalletBalanced, [Next]_vars, NEW u \in Users
                 PROVE  balance'[u] = StartBalance[u] + Deposited(u)' - Withdrawn(u)'
      BY DEF WalletBalanced
    <2>1. PICK d \in Int, e \in Int : /\ balance'[u] = balance[u] + d - e
                                    /\ Deposited(u)' = Deposited(u) + d
                                    /\ Withdrawn(u)' = Withdrawn(u) + e
      BY BooksMove
    <2>2. Deposited(u) \in Int /\ Withdrawn(u) \in Int /\ balance[u] \in Int
      BY BooksAreInt
    <2>3. balance[u] = StartBalance[u] + Deposited(u) - Withdrawn(u) /\ StartBalance[u] \in Int
      BY WalletAssumption DEF WalletBalanced
    <2> QED
      BY <2>1, <2>2, <2>3
  <1> QED
    BY <1>1, <1>2, Invariance, PTL DEF Spec
=============================================================================
