--------------------------- MODULE BiddingProofs ---------------------------
(***************************************************************************)
(* Theorems about Bidding, for every set of users, auctions, requests and  *)
(* closers.  They follow from one inductive invariant, Inv: which rows a   *)
(* transaction has locked and what it may rely on about them meanwhile.    *)
(***************************************************************************)
EXTENDS Bidding, Sums, SequenceTheorems, TLAPS

(* A bid under way holds the lock of its auction, which is still running,  *)
(* and what it read of the row is still so.                                *)
BidHoldsAuction ==
    \A r \in BidReqs : bidPc[r] # "idle" =>
        LET q == bidReq[r]
            row == auction[q.auction] IN
        /\ q \in Request
        /\ auctionLock[q.auction] = r
        /\ row.status = Active
        /\ row.price = q.price /\ row.winner = q.winner
        /\ row.seller # q.user
        /\ q.amount > q.price

(* Once DeductBalance has matched, the bidder's row stays locked and keeps *)
(* covering the bid.                                                       *)
BidHoldsPayer ==
    \A r \in BidReqs : bidPc[r] \in {"deducted", "refunded"} =>
        /\ userLock[bidReq[r].user] = r
        /\ balance[bidReq[r].user] >= bidReq[r].amount

CloserHoldsAuction ==
    \A c \in Closers : closerPc[c] \in {"closed", "paid"} =>
        closing[c] \in Expired /\ auctionLock[closing[c].id] = c

(* The readings a closer has yet to act on.                                *)
Readings(c) ==
    todo[c] \cup (IF closerPc[c] \in {"closed", "paid"} THEN {closing[c]} ELSE {})

(* A reading is of an auction that exists; it is out of date only for an   *)
(* auction that raced, or one whose end time was edited meanwhile.         *)
ReadingsCurrent ==
    \A c \in Closers : \A s \in Readings(c) :
        LET row == auction[s.id] IN
        /\ s \in Expired
        /\ row.status # Absent
        /\ s.seller = row.seller
        /\ s.id \notin raced => s.price = row.price /\ s.winner = row.winner
        /\ s.id \notin retimed /\ row.status = Active => row.endTime <= now

(* A row not created holds no money; a created one has a seller, who is    *)
(* not its winner.                                                         *)
RowsSound ==
    \A a \in Auctions :
        /\ auction[a].status = Absent =>
              auction[a].winner = NoOne /\ \A u \in Users : ledger[a][u] = 0
        /\ auction[a].status # Absent =>
              auction[a].seller \in Users /\ auction[a].winner # auction[a].seller

Inv ==
    /\ TypeOK
    /\ BidHoldsAuction
    /\ BidHoldsPayer
    /\ CloserHoldsAuction
    /\ ReadingsCurrent
    /\ RowsSound
    /\ NonNegativeBalance
    /\ EscrowExact
    /\ SettledExactly
-----------------------------------------------------------------------------
LEMMA InitInv == Init => Inv
  <1> SUFFICES ASSUME Init PROVE Inv
    OBVIOUS
  <1> USE BiddingAssumption
  <1>1. TypeOK
    BY DEF Init, TypeOK, AbsentRow, Row, Absent, Person, Price, Txns, BidPcs, CloserPcs, NoEdit
  <1>2. BidHoldsAuction /\ BidHoldsPayer /\ CloserHoldsAuction
    BY DEF Init, BidHoldsAuction, BidHoldsPayer, CloserHoldsAuction
  <1>3. ReadingsCurrent
    BY DEF Init, ReadingsCurrent, Readings
  <1>4. RowsSound
    BY DEF Init, RowsSound, AbsentRow, Absent
  <1>5. NonNegativeBalance /\ EscrowExact /\ SettledExactly
    BY DEF Init, NonNegativeBalance, EscrowExact, SettledExactly, AbsentRow, Absent, Ended
  <1> QED
    BY <1>1, <1>2, <1>3, <1>4, <1>5 DEF Inv

(* A transaction's end frees its rows and no other.                        *)
LEMMA ReleaseLocksFrees ==
  ASSUME TypeOK, NEW t \in Txns, ReleaseLocks(t)
  PROVE  /\ auctionLock' \in [Auctions -> Txns \cup {NoOne}]
         /\ userLock' \in [Users -> Txns \cup {NoOne}]
         /\ \A a \in Auctions : auctionLock[a] # t => auctionLock'[a] = auctionLock[a]
         /\ \A u \in Users : userLock[u] # t => userLock'[u] = userLock[u]
  BY DEF TypeOK, ReleaseLocks, Without

(* A bid that ends without committing.                                     *)
LEMMA BidRollbackInv ==
  ASSUME Inv, NEW r \in BidReqs, EndBid(r), UNCHANGED rowVars
  PROVE  Inv'
  <1> USE BiddingAssumption DEF rowVars, closerVars, Inv
  <1>1. r \in Txns
    BY DEF Txns
  <1>2. /\ auctionLock' \in [Auctions -> Txns \cup {NoOne}]
        /\ userLock' \in [Users -> Txns \cup {NoOne}]
        /\ \A a \in Auctions : auctionLock[a] # r => auctionLock'[a] = auctionLock[a]
        /\ \A u \in Users : userLock[u] # r => userLock'[u] = userLock[u]
    BY <1>1, ReleaseLocksFrees DEF EndBid
  <1>3. TypeOK'
    BY <1>2 DEF EndBid, TypeOK, BidPcs
  <1>4. ASSUME NEW q \in BidReqs, bidPc'[q] # "idle"
        PROVE  q # r /\ bidPc'[q] = bidPc[q] /\ bidReq'[q] = bidReq[q]
    BY <1>4 DEF EndBid, TypeOK
  <1>5. BidHoldsAuction'
    BY <1>2, <1>4 DEF BidHoldsAuction, Request
  <1>6. BidHoldsPayer'
    BY <1>2, <1>4 DEF BidHoldsPayer, BidHoldsAuction, Request
  <1>7. CloserHoldsAuction'
    BY <1>2 DEF EndBid, CloserHoldsAuction, Expired
  <1>8. ReadingsCurrent'
    BY DEF EndBid, ReadingsCurrent, Readings
  <1>9. (RowsSound /\ NonNegativeBalance /\ EscrowExact /\ SettledExactly)'
    BY DEF RowsSound, NonNegativeBalance, EscrowExact, SettledExactly, Escrow
  <1> QED
    BY <1>3, <1>5, <1>6, <1>7, <1>8, <1>9
-----------------------------------------------------------------------------
LEMMA TickInv == ASSUME Inv, Tick PROVE Inv'
  <1> USE BiddingAssumption DEF Inv, Tick, rowVars, lockVars, bidVars, closerVars
  <1>1. TypeOK'
    <2>1. now' \in 0..MaxTime
      BY DEF TypeOK
    <2> QED
      BY <2>1 DEF TypeOK
  <1>2. (BidHoldsAuction /\ BidHoldsPayer /\ CloserHoldsAuction)'
    BY DEF BidHoldsAuction, BidHoldsPayer, CloserHoldsAuction
  <1>3. ReadingsCurrent'
    <2>1. ASSUME NEW c \in Closers, NEW s \in Readings(c)
          PROVE  auction[s.id].endTime <= now => auction[s.id].endTime <= now'
      BY DEF TypeOK, ReadingsCurrent, Expired, Row
    <2> QED
      BY <2>1 DEF ReadingsCurrent, Readings
  <1>4. (RowsSound /\ NonNegativeBalance /\ EscrowExact /\ SettledExactly)'
    BY DEF RowsSound, NonNegativeBalance, EscrowExact, SettledExactly, Escrow
  <1> QED
    BY <1>1, <1>2, <1>3, <1>4

LEMMA CreateInv ==
  ASSUME Inv, NEW a \in Auctions, NEW u \in Sellers, NEW p \in Amounts,
         NEW t \in 0..MaxTime, Create(a, u, p, t)
  PROVE  Inv'
  <1> USE BiddingAssumption DEF Inv, Create, lockVars, bidVars, closerVars
  <1>1. /\ auction' \in [Auctions -> Row]
        /\ auction'[a] = [seller |-> u, price |-> p, winner |-> NoOne,
                          status |-> Active, endTime |-> t]
        /\ \A b \in Auctions \ {a} : auction'[b] = auction[b]
    BY DEF TypeOK, Row, Person, Price, Active
  <1>2. TypeOK'
    BY <1>1 DEF TypeOK
  <1>3. (BidHoldsAuction /\ BidHoldsPayer /\ CloserHoldsAuction)'
    BY <1>1 DEF BidHoldsAuction, BidHoldsPayer, CloserHoldsAuction, Request, Active, Absent
  <1>4. ReadingsCurrent'
    BY <1>1 DEF ReadingsCurrent, Readings, Expired
  <1>5. RowsSound'
    BY <1>1 DEF RowsSound, Active, Absent
  <1>6. (NonNegativeBalance /\ EscrowExact)'
    BY <1>1 DEF NonNegativeBalance, EscrowExact, RowsSound
  <1>7. SettledExactly'
    BY <1>1 DEF SettledExactly, Escrow, RowsSound, Active, Ended, Absent
  <1> QED
    BY <1>2, <1>3, <1>4, <1>5, <1>6, <1>7

LEMMA EditCheckInv ==
  ASSUME Inv, NEW e \in EditReqs, NEW a \in Auctions, NEW t \in 0..MaxTime,
         EditCheck(e, a, t)
  PROVE  Inv'
  <1> USE BiddingAssumption DEF Inv, EditCheck, rowVars, lockVars, bidVars, closerVars
  <1>1. TypeOK'
    BY DEF TypeOK
  <1>2. (BidHoldsAuction /\ BidHoldsPayer /\ CloserHoldsAuction /\ ReadingsCurrent)'
    BY DEF BidHoldsAuction, BidHoldsPayer, CloserHoldsAuction, ReadingsCurrent, Readings
  <1>3. (RowsSound /\ NonNegativeBalance /\ EscrowExact /\ SettledExactly)'
    BY DEF RowsSound, NonNegativeBalance, EscrowExact, SettledExactly, Escrow
  <1> QED
    BY <1>1, <1>2, <1>3

LEMMA EditFailInv == ASSUME Inv, NEW e \in EditReqs, EditFail(e) PROVE Inv'
  <1> USE BiddingAssumption DEF Inv, EditFail, rowVars, lockVars, bidVars, closerVars
  <1>1. TypeOK'
    <2>1. NoEdit \in [auction: Auctions \cup {NoOne}, endTime: 0..MaxTime]
      BY DEF NoEdit
    <2> QED
      BY <2>1 DEF TypeOK
  <1>2. (BidHoldsAuction /\ BidHoldsPayer /\ CloserHoldsAuction /\ ReadingsCurrent)'
    BY DEF BidHoldsAuction, BidHoldsPayer, CloserHoldsAuction, ReadingsCurrent, Readings
  <1>3. (RowsSound /\ NonNegativeBalance /\ EscrowExact /\ SettledExactly)'
    BY DEF RowsSound, NonNegativeBalance, EscrowExact, SettledExactly, Escrow
  <1> QED
    BY <1>1, <1>2, <1>3

LEMMA EditWriteInv == ASSUME Inv, NEW e \in EditReqs, EditWrite(e) PROVE Inv'
  <1> DEFINE a == edit[e].auction
  <1> USE BiddingAssumption DEF Inv, EditWrite, lockVars, bidVars, closerVars
  <1>1. Listed(a) => a \in Auctions
    BY DEF Listed, TypeOK, Expired
  <1>2. /\ auction' \in [Auctions -> Row]
        /\ \A b \in Auctions :
              /\ auction'[b].seller = auction[b].seller
              /\ auction'[b].price = auction[b].price
              /\ auction'[b].winner = auction[b].winner
              /\ auction'[b].status = auction[b].status
              /\ b # a => auction'[b].endTime = auction[b].endTime
    <2>1. auction \in [Auctions -> Row] /\ edit[e].endTime \in 0..MaxTime
      BY DEF TypeOK
    <2>2. \A b \in Auctions : auction'[b] =
              IF b = a THEN [auction[b] EXCEPT !.endTime = edit[e].endTime] ELSE auction[b]
      BY <2>1
    <2>3. \A b \in Auctions : auction'[b] \in Row
      BY <2>1, <2>2 DEF Row
    <2> QED
      BY <2>1, <2>2, <2>3 DEF Row
  <1>3. TypeOK'
    <2>1. NoEdit \in [auction: Auctions \cup {NoOne}, endTime: 0..MaxTime]
      BY DEF NoEdit
    <2> QED
      BY <1>1, <1>2, <2>1 DEF TypeOK
  <1>4. (BidHoldsAuction /\ BidHoldsPayer /\ CloserHoldsAuction)'
    BY <1>2 DEF BidHoldsAuction, BidHoldsPayer, CloserHoldsAuction, Request
  <1>5. ReadingsCurrent'
    <2> SUFFICES ASSUME NEW c \in Closers, NEW s \in Readings(c)
                 PROVE  /\ s \in Expired
                        /\ auction'[s.id].status # Absent
                        /\ s.seller = auction'[s.id].seller
                        /\ s.id \notin raced => /\ s.price = auction'[s.id].price
                                                /\ s.winner = auction'[s.id].winner
                        /\ s.id \notin retimed' /\ auction'[s.id].status = Active
                              => auction'[s.id].endTime <= now
      BY DEF ReadingsCurrent, Readings
    <2>1. s \in Expired /\ s.id \in Auctions
      BY DEF ReadingsCurrent, Expired
    <2>2. s.id = a => s.id \in retimed'
      <3>1. CASE s \in todo[c]
        BY <3>1, <2>1 DEF Listed
      <3>2. CASE s \notin todo[c]
        <4>1. auctionLock[s.id] = c
          BY <3>2 DEF Readings, CloserHoldsAuction
        <4> QED
          BY <4>1
      <3> QED
        BY <3>1, <3>2
    <2>3. s.id \notin retimed' => s.id \notin retimed
      OBVIOUS
    <2> QED
      BY <1>2, <2>1, <2>2, <2>3 DEF ReadingsCurrent
  <1>6. (RowsSound /\ NonNegativeBalance /\ EscrowExact /\ SettledExactly)'
    BY <1>2 DEF RowsSound, NonNegativeBalance, EscrowExact, SettledExactly, Escrow
  <1> QED
    BY <1>3, <1>4, <1>5, <1>6
-----------------------------------------------------------------------------
LEMMA BidLockInv ==
  ASSUME Inv, NEW r \in BidReqs, NEW a \in Auctions, NEW u \in Users, NEW m \in Amounts,
         BidLock(r, a, u, m)
  PROVE  Inv'
  <1> USE BiddingAssumption DEF Inv, BidLock, rowVars, closerVars
  <1>1. /\ bidReq'[r] = [auction |-> a, user |-> u, amount |-> m,
                         price |-> auction[a].price, winner |-> auction[a].winner]
        /\ bidReq'[r] \in Request
        /\ \A q \in BidReqs \ {r} : bidReq'[q] = bidReq[q] /\ bidPc'[q] = bidPc[q]
        /\ bidPc'[r] = "locked"
    BY DEF TypeOK, Request, Row
  <1>2. auctionLock' \in [Auctions -> Txns \cup {NoOne}]
    BY DEF TypeOK, Txns
  <1>3. /\ auctionLock'[a] = r
        /\ \A b \in Auctions : auctionLock[b] \notin {NoOne, r} => auctionLock'[b] = auctionLock[b]
    BY DEF TypeOK, FreeFor
  <1>4. TypeOK'
    BY <1>1, <1>2 DEF TypeOK, BidPcs
  <1>5. BidHoldsAuction'
    <2> SUFFICES ASSUME NEW q \in BidReqs, bidPc'[q] # "idle"
                 PROVE  /\ bidReq'[q] \in Request
                        /\ auctionLock'[bidReq'[q].auction] = q
                        /\ auction[bidReq'[q].auction].status = Active
                        /\ auction[bidReq'[q].auction].price = bidReq'[q].price
                        /\ auction[bidReq'[q].auction].winner = bidReq'[q].winner
                        /\ auction[bidReq'[q].auction].seller # bidReq'[q].user
                        /\ bidReq'[q].amount > bidReq'[q].price
      BY DEF BidHoldsAuction
    <2>1. CASE q = r
      BY <1>1, <1>3, <2>1 DEF BidAccepted
    <2>2. CASE q # r
      BY <1>1, <1>3, <2>2 DEF BidHoldsAuction, Request
    <2> QED
      BY <2>1, <2>2
  <1>6. BidHoldsPayer'
    BY <1>1 DEF BidHoldsPayer
  <1>7. CloserHoldsAuction'
    BY <1>3 DEF CloserHoldsAuction, Expired
  <1>8. ReadingsCurrent'
    BY DEF ReadingsCurrent, Readings
  <1>9. (RowsSound /\ NonNegativeBalance /\ EscrowExact /\ SettledExactly)'
    BY DEF RowsSound, NonNegativeBalance, EscrowExact, SettledExactly, Escrow
  <1> QED
    BY <1>4, <1>5, <1>6, <1>7, <1>8, <1>9

(* DeductBalance and RefundBalance lock the row of one user, unless it is  *)
(* another transaction's.                                                  *)
LEMMA UserLockTaken ==
  ASSUME TypeOK, NEW u \in Users, NEW t \in Txns, FreeFor(userLock, u, t),
         userLock' = [userLock EXCEPT ![u] = t]
  PROVE  /\ userLock' \in [Users -> Txns \cup {NoOne}]
         /\ userLock'[u] = t
         /\ \A v \in Users : userLock[v] # NoOne => userLock'[v] = userLock[v]
  BY DEF TypeOK, FreeFor

LEMMA BidDeductInv == ASSUME Inv, NEW r \in BidReqs, BidDeduct(r) PROVE Inv'
  <1> USE BiddingAssumption DEF Inv, BidDeduct, rowVars, closerVars
  <1>1. bidReq[r] \in Request /\ bidReq[r].user \in Users
    BY DEF BidHoldsAuction, Request
  <1>2. r \in Txns
    BY DEF Txns
  <1>3. /\ userLock' \in [Users -> Txns \cup {NoOne}]
        /\ userLock'[bidReq[r].user] = r
        /\ \A v \in Users : userLock[v] # NoOne => userLock'[v] = userLock[v]
    BY <1>1, <1>2, UserLockTaken
  <1>4. TypeOK'
    BY <1>3 DEF TypeOK, BidPcs
  <1>5. BidHoldsAuction'
    BY DEF BidHoldsAuction, TypeOK
  <1>6. BidHoldsPayer'
    BY <1>3 DEF BidHoldsPayer, BidHoldsAuction, Request, TypeOK
  <1>7. CloserHoldsAuction'
    BY DEF CloserHoldsAuction
  <1>8. ReadingsCurrent'
    BY DEF ReadingsCurrent, Readings
  <1>9. (RowsSound /\ NonNegativeBalance /\ EscrowExact /\ SettledExactly)'
    BY DEF RowsSound, NonNegativeBalance, EscrowExact, SettledExactly, Escrow
  <1> QED
    BY <1>4, <1>5, <1>6, <1>7, <1>8, <1>9

LEMMA BidRefundInv == ASSUME Inv, NEW r \in BidReqs, BidRefund(r) PROVE Inv'
  <1> USE BiddingAssumption DEF Inv, BidRefund, rowVars, closerVars
  <1>1. bidReq[r] \in Request /\ bidReq[r].winner \in Users \cup {NoOne}
    BY DEF BidHoldsAuction, Request, Person
  <1>2. r \in Txns
    BY DEF Txns
  <1>3. /\ userLock' \in [Users -> Txns \cup {NoOne}]
        /\ \A v \in Users : userLock[v] # NoOne => userLock'[v] = userLock[v]
    BY <1>1, <1>2, UserLockTaken DEF TypeOK
  <1>4. TypeOK'
    BY <1>3 DEF TypeOK, BidPcs
  <1>5. BidHoldsAuction'
    BY DEF BidHoldsAuction, TypeOK
  <1>6. BidHoldsPayer'
    BY <1>3 DEF BidHoldsPayer, BidHoldsAuction, Request, TypeOK
  <1>7. CloserHoldsAuction'
    BY DEF CloserHoldsAuction
  <1>8. ReadingsCurrent'
    BY DEF ReadingsCurrent, Readings
  <1>9. (RowsSound /\ NonNegativeBalance /\ EscrowExact /\ SettledExactly)'
    BY DEF RowsSound, NonNegativeBalance, EscrowExact, SettledExactly, Escrow
  <1> QED
    BY <1>4, <1>5, <1>6, <1>7, <1>8, <1>9

LEMMA PricesAreNat == Amounts \subseteq Nat /\ Price \subseteq Nat
  BY BiddingAssumption DEF Price

LEMMA SeqElement ==
  ASSUME NEW S, NEW s \in Seq(S), NEW i \in 1..Len(s)
  PROVE  s[i] \in S
  OBVIOUS

LEMMA AppendIsSeq ==
  ASSUME NEW S, NEW s \in Seq(S), NEW e \in S
  PROVE  Append(s, e) \in Seq(S)
  OBVIOUS

(* The commit of a bid: the only step that changes a price, a winner or    *)
(* what an auction holds of its bidders.                                   *)
LEMMA BidCommitInv == ASSUME Inv, NEW r \in BidReqs, BidCommit(r) PROVE Inv'
  <1> DEFINE q == bidReq[r]
             a == q.auction
             row == auction[a]
             newRow == [row EXCEPT !.price = q.amount, !.winner = q.user]
  <1> USE BiddingAssumption
  <1>1. /\ TypeOK /\ BidHoldsAuction /\ BidHoldsPayer /\ CloserHoldsAuction
        /\ ReadingsCurrent /\ RowsSound
        /\ NonNegativeBalance /\ EscrowExact /\ SettledExactly
    BY DEF Inv
  <1>2. /\ bidPc[r] = "refunded"
        /\ auction' = [auction EXCEPT ![a].price = q.amount, ![a].winner = q.user]
        /\ bids' = [bids EXCEPT ![a] = Append(@, [user |-> q.user, amount |-> q.amount])]
        /\ Transfer(a, BidMoves(q))
        /\ raced' = IF Listed(a) THEN raced \cup {a} ELSE raced
        /\ EndBid(r)
        /\ retimed' = retimed
    BY DEF BidCommit
  <1>3. /\ q \in Request /\ a \in Auctions /\ q.user \in Users /\ q.amount \in Amounts
        /\ auctionLock[a] = r /\ row.status = Active
        /\ row.price = q.price /\ row.winner = q.winner
        /\ row.seller # q.user /\ q.amount > q.price
        /\ userLock[q.user] = r /\ balance[q.user] >= q.amount
    BY <1>1, <1>2 DEF BidHoldsAuction, BidHoldsPayer, Request
  <1>4. row \in Row /\ auction \in [Auctions -> Row]
    BY <1>1, <1>3 DEF TypeOK
  <1>5. q.amount \in Nat /\ q.price \in Nat /\ q.winner \in Person
    BY <1>3, PricesAreNat DEF Request
  <1>6. newRow \in Row
    BY <1>3, <1>4 DEF Row, Price, Person
  <1>7. auction' = [auction EXCEPT ![a] = newRow]
    BY <1>2, <1>3, <1>4
  <1>8. /\ auction' \in [Auctions -> Row]
        /\ auction'[a] = newRow
        /\ \A b \in Auctions \ {a} : auction'[b] = auction[b]
    BY <1>3, <1>4, <1>6, <1>7
  <1>9. /\ newRow.price = q.amount /\ newRow.winner = q.user
        /\ newRow.seller = row.seller /\ newRow.status = Active
        /\ newRow.endTime = row.endTime
    BY <1>3, <1>4 DEF Row
  <1>10. /\ auctionLock' \in [Auctions -> Txns \cup {NoOne}]
         /\ userLock' \in [Users -> Txns \cup {NoOne}]
         /\ \A b \in Auctions : auctionLock[b] # r => auctionLock'[b] = auctionLock[b]
         /\ \A u \in Users : userLock[u] # r => userLock'[u] = userLock[u]
    <2>1. r \in Txns
      BY DEF Txns
    <2> QED
      BY <1>1, <1>2, <2>1, ReleaseLocksFrees DEF EndBid
  <1>11. /\ now' = now /\ edit' = edit
         /\ closerPc' = closerPc /\ todo' = todo /\ closing' = closing
         /\ bidPc' = [bidPc EXCEPT ![r] = "idle"]
         /\ bidReq' = [bidReq EXCEPT ![r] = NoRequest]
    BY <1>2 DEF EndBid, closerVars
  <1>12. ASSUME NEW p \in BidReqs, bidPc'[p] # "idle"
         PROVE  p # r /\ bidPc'[p] = bidPc[p] /\ bidReq'[p] = bidReq[p]
    BY <1>1, <1>11, <1>12 DEF TypeOK
  <1>13. \A u \in Users : BidMoves(q)[u] =
             (IF u = q.winner THEN q.price ELSE 0) - (IF u = q.user THEN q.amount ELSE 0)
    BY DEF BidMoves
  <1>14. BidMoves(q) \in [Users -> Int]
    BY <1>5 DEF BidMoves
  <1>15. /\ balance \in [Users -> Int] /\ ledger \in [Auctions -> [Users -> Int]]
         /\ balance' \in [Users -> Int]
         /\ \A u \in Users : balance'[u] = balance[u] + BidMoves(q)[u]
    BY <1>1, <1>2, <1>14 DEF Transfer, TypeOK
  <1>16. /\ ledger' \in [Auctions -> [Users -> Int]]
         /\ \A u \in Users : ledger'[a][u] = ledger[a][u] + BidMoves(q)[u]
         /\ \A b \in Auctions \ {a} : ledger'[b] = ledger[b]
    BY <1>2, <1>3, <1>14, <1>15, SMTT(30) DEF Transfer
  <1>17. bids' \in [Auctions -> Seq([user: Users, amount: Amounts])]
    <2>1. bids \in [Auctions -> Seq([user: Users, amount: Amounts])]
      BY <1>1 DEF TypeOK
    <2>2. [user |-> q.user, amount |-> q.amount] \in [user: Users, amount: Amounts]
      BY <1>3
    <2>3. Append(bids[a], [user |-> q.user, amount |-> q.amount])
              \in Seq([user: Users, amount: Amounts])
      BY <1>3, <2>1, <2>2, AppendIsSeq
    <2> QED
      BY <1>2, <2>1, <2>3
  <1> HIDE DEF q, a, row, newRow
  <1>18. TypeOK'
    BY <1>1, <1>2, <1>3, <1>8, <1>10, <1>11, <1>15, <1>16, <1>17 DEF TypeOK, BidPcs
  <1>19. BidHoldsAuction'
    BY <1>1, <1>3, <1>8, <1>10, <1>12 DEF BidHoldsAuction, Request
  <1>20. BidHoldsPayer'
    <2> SUFFICES ASSUME NEW p \in BidReqs, bidPc'[p] \in {"deducted", "refunded"}
                 PROVE  /\ userLock'[bidReq'[p].user] = p
                        /\ balance'[bidReq'[p].user] >= bidReq'[p].amount
      BY DEF BidHoldsPayer
    <2>1. p # r /\ bidPc'[p] = bidPc[p] /\ bidReq'[p] = bidReq[p]
      BY <1>12
    <2>2. /\ bidReq[p].user \in Users /\ bidReq[p].amount \in Nat
          /\ userLock[bidReq[p].user] = p
          /\ balance[bidReq[p].user] >= bidReq[p].amount
      BY <1>1, <2>1 DEF BidHoldsAuction, BidHoldsPayer, Request
    <2>3. bidReq[p].user # q.user
      BY <1>3, <2>1, <2>2
    <2>4. balance'[bidReq[p].user] >= balance[bidReq[p].user]
      BY <1>5, <1>13, <1>15, <2>2, <2>3
    <2>5. userLock'[bidReq[p].user] = p
      BY <1>10, <2>1, <2>2
    <2> QED
      BY <1>15, <2>1, <2>2, <2>4, <2>5
  <1>21. CloserHoldsAuction'
    BY <1>1, <1>10, <1>11 DEF CloserHoldsAuction, Expired
  <1>22. ReadingsCurrent'
    <2>0. retimed' = retimed
      BY <1>2
    <2> SUFFICES ASSUME NEW c \in Closers, NEW s \in Readings(c)
                 PROVE  /\ s \in Expired
                        /\ auction'[s.id].status # Absent
                        /\ s.seller = auction'[s.id].seller
                        /\ s.id \notin raced' => /\ s.price = auction'[s.id].price
                                                 /\ s.winner = auction'[s.id].winner
                        /\ s.id \notin retimed /\ auction'[s.id].status = Active
                              => auction'[s.id].endTime <= now
      BY <1>11, <2>0 DEF ReadingsCurrent, Readings
    <2>1. s \in Expired /\ s.id \in Auctions
      BY <1>1 DEF ReadingsCurrent, Expired
    <2>2. s.id = a => s.id \in raced'
      <3>1. CASE s \in todo[c]
        BY <1>2, <3>1 DEF Listed
      <3>2. CASE s \notin todo[c]
        BY <1>1, <1>3, <3>2 DEF Readings, CloserHoldsAuction
      <3> QED
        BY <3>1, <3>2
    <2>3. s.id \notin raced' => s.id \notin raced
      BY <1>2
    <2>4. CASE s.id = a
      BY <1>1, <1>3, <1>8, <1>9, <2>1, <2>2, <2>4 DEF ReadingsCurrent, row, Active, Absent
    <2>5. CASE s.id # a
      BY <1>1, <1>8, <2>1, <2>3, <2>5 DEF ReadingsCurrent
    <2> QED
      BY <2>4, <2>5
  <1>23. RowsSound'
    <2> SUFFICES ASSUME NEW b \in Auctions
                 PROVE  /\ auction'[b].status = Absent =>
                              /\ auction'[b].winner = NoOne
                              /\ \A u \in Users : ledger'[b][u] = 0
                        /\ auction'[b].status # Absent =>
                              /\ auction'[b].seller \in Users
                              /\ auction'[b].winner # auction'[b].seller
      BY DEF RowsSound
    <2>1. CASE b = a
      BY <1>1, <1>3, <1>8, <1>9, <2>1 DEF RowsSound, Active, Absent, row
    <2>2. CASE b # a
      BY <1>1, <1>8, <1>16, <2>2 DEF RowsSound
    <2> QED
      BY <2>1, <2>2
  <1>24. NonNegativeBalance'
    <2> SUFFICES ASSUME NEW u \in Users PROVE balance'[u] >= 0
      BY DEF NonNegativeBalance
    <2>1. balance[u] \in Int /\ balance[u] >= 0
      BY <1>1, <1>15 DEF NonNegativeBalance
    <2> QED
      BY <1>3, <1>5, <1>13, <1>15, <2>1
  <1>25. EscrowExact'
    <2> SUFFICES ASSUME NEW b \in Auctions, NEW u \in Users \ {auction'[b].seller}
                 PROVE  ledger'[b][u] = IF auction'[b].winner = u THEN -auction'[b].price ELSE 0
      BY DEF EscrowExact
    <2>1. CASE b = a
      <3>1. ledger[a][u] = IF q.winner = u THEN -q.price ELSE 0
        BY <1>1, <1>3, <1>8, <1>9, <2>1 DEF EscrowExact, row
      <3>2. ledger'[a][u] = ledger[a][u] + BidMoves(q)[u]
        BY <1>16
      <3> QED
        BY <1>5, <1>8, <1>9, <1>13, <2>1, <3>1, <3>2
    <2>2. CASE b # a
      BY <1>1, <1>8, <1>16, <2>2 DEF EscrowExact
    <2> QED
      BY <2>1, <2>2
  <1>26. SettledExactly'
    <2> SUFFICES ASSUME NEW b \in Auctions \ raced', auction'[b].status # Absent
                 PROVE  ledger'[b][auction'[b].seller] =
                            IF auction'[b].status = Ended THEN Escrow(b)' ELSE 0
      BY DEF SettledExactly
    <2>1. CASE b = a
      <3>1. row.seller \in Users /\ row.seller # q.winner
        BY <1>1, <1>3 DEF RowsSound, Active, Absent, row
      <3>2. ledger[a][row.seller] = 0
        BY <1>1, <1>2, <1>3, <2>1 DEF SettledExactly, Active, Ended, Absent, row
      <3>3. BidMoves(q)[row.seller] = 0
        BY <1>3, <1>13, <3>1
      <3> QED
        BY <1>8, <1>9, <1>16, <2>1, <3>1, <3>2, <3>3 DEF Active, Ended
    <2>2. CASE b # a
      BY <1>1, <1>2, <1>8, <1>16, <2>2, ZenonT(60) DEF SettledExactly, Escrow
    <2> QED
      BY <2>1, <2>2
  <1> QED
    BY <1>18, <1>19, <1>20, <1>21, <1>22, <1>23, <1>24, <1>25, <1>26 DEF Inv
-----------------------------------------------------------------------------
(* Steps of a closer that write no row.                                    *)
LEMMA ScanInv == ASSUME Inv, NEW c \in Closers, Scan(c) PROVE Inv'
  <1> USE BiddingAssumption DEF Inv, Scan, rowVars, lockVars, bidVars
  <1>1. todo'[c] \subseteq Expired
    BY DEF TypeOK, Expired, Row
  <1>2. TypeOK'
    BY <1>1 DEF TypeOK, CloserPcs
  <1>3. (BidHoldsAuction /\ BidHoldsPayer)'
    BY DEF BidHoldsAuction, BidHoldsPayer
  <1>4. CloserHoldsAuction'
    BY DEF CloserHoldsAuction, TypeOK
  <1>5. ReadingsCurrent'
    <2> SUFFICES ASSUME NEW d \in Closers, NEW s \in Readings(d)'
                 PROVE  /\ s \in Expired
                        /\ auction[s.id].status # Absent
                        /\ s.seller = auction[s.id].seller
                        /\ s.id \notin raced => /\ s.price = auction[s.id].price
                                                /\ s.winner = auction[s.id].winner
                        /\ s.id \notin retimed /\ auction[s.id].status = Active
                              => auction[s.id].endTime <= now
      BY DEF ReadingsCurrent
    <2>1. CASE d = c
      <3>1. s \in todo'[c]
        BY <2>1 DEF Readings, TypeOK
      <3>2. PICK a \in Auctions : /\ Overdue(auction[a])
                                  /\ s = [id |-> a, seller |-> auction[a].seller,
                                          price |-> auction[a].price,
                                          winner |-> auction[a].winner]
        BY <3>1 DEF TypeOK
      <3> QED
        BY <1>1, <3>1, <3>2 DEF Overdue, Active, Absent
    <2>2. CASE d # c
      <3>1. s \in Readings(d)
        BY <2>2 DEF Readings, TypeOK
      <3> QED
        BY <3>1 DEF ReadingsCurrent
    <2> QED
      BY <2>1, <2>2
  <1>6. (RowsSound /\ NonNegativeBalance /\ EscrowExact /\ SettledExactly)'
    BY DEF RowsSound, NonNegativeBalance, EscrowExact, SettledExactly, Escrow
  <1> QED
    BY <1>2, <1>3, <1>4, <1>5, <1>6

(* A step of a closer that neither writes rows nor reads more of them, and *)
(* keeps every lock but its own, preserves all that is said of rows.       *)
LEMMA FewerReadings ==
  ASSUME Inv, NEW c \in Closers, UNCHANGED <<now, rowVars>>,
         \A d \in Closers : Readings(d)' \subseteq Readings(d)
  PROVE  /\ ReadingsCurrent'
         /\ (RowsSound /\ NonNegativeBalance /\ EscrowExact /\ SettledExactly)'
  <1> USE DEF Inv, rowVars
  <1>1. ReadingsCurrent'
    BY DEF ReadingsCurrent
  <1>2. (RowsSound /\ NonNegativeBalance /\ EscrowExact /\ SettledExactly)'
    BY DEF RowsSound, NonNegativeBalance, EscrowExact, SettledExactly, Escrow
  <1> QED
    BY <1>1, <1>2

LEMMA CloseStatusInv == ASSUME Inv, NEW c \in Closers, CloseStatus(c) PROVE Inv'
  <1> USE BiddingAssumption DEF Inv
  <1>1. PICK s \in todo[c] :
          /\ FreeFor(auctionLock, s.id, c)
          /\ auctionLock' = [auctionLock EXCEPT ![s.id] = c]
          /\ closing' = [closing EXCEPT ![c] = s]
          /\ todo' = [todo EXCEPT ![c] = @ \ {s}]
    BY DEF CloseStatus
  <1>2. /\ closerPc' = [closerPc EXCEPT ![c] = "closed"]
        /\ closerPc[c] = "loop"
        /\ UNCHANGED <<now, rowVars, userLock, bidVars, edit>>
    BY DEF CloseStatus
  <1>3. s \in Expired /\ s.id \in Auctions /\ c \in Txns
    BY DEF TypeOK, Expired, Txns
  <1>4. /\ auctionLock' \in [Auctions -> Txns \cup {NoOne}]
        /\ auctionLock'[s.id] = c
        /\ \A a \in Auctions : auctionLock[a] \notin {NoOne, c} => auctionLock'[a] = auctionLock[a]
    BY <1>1, <1>3 DEF TypeOK, FreeFor
  <1>5. TypeOK'
    BY <1>1, <1>2, <1>3, <1>4 DEF TypeOK, CloserPcs, rowVars, bidVars
  <1>6. BidHoldsAuction'
    BY <1>2, <1>4 DEF BidHoldsAuction, Request, rowVars, bidVars
  <1>7. BidHoldsPayer'
    BY <1>2 DEF BidHoldsPayer, rowVars, bidVars
  <1>8. CloserHoldsAuction'
    <2> SUFFICES ASSUME NEW d \in Closers, closerPc'[d] \in {"closed", "paid"}
                 PROVE  closing'[d] \in Expired /\ auctionLock'[closing'[d].id] = d
      BY DEF CloserHoldsAuction
    <2>1. CASE d = c
      BY <1>1, <1>3, <1>4, <2>1 DEF TypeOK
    <2>2. CASE d # c
      BY <1>1, <1>2, <1>4, <2>2 DEF CloserHoldsAuction, Expired, TypeOK
    <2> QED
      BY <2>1, <2>2
  <1>9. \A d \in Closers : Readings(d)' \subseteq Readings(d)
    BY <1>1, <1>2 DEF Readings, TypeOK
  <1> QED
    BY <1>2, <1>5, <1>6, <1>7, <1>8, <1>9, FewerReadings

LEMMA CloseSkipInv == ASSUME Inv, NEW c \in Closers, CloseSkip(c) PROVE Inv'
  <1> USE BiddingAssumption DEF Inv
  <1>1. UNCHANGED <<now, rowVars, lockVars, bidVars, edit, closerPc, closing>>
    BY DEF CloseSkip
  <1>2. PICK s \in todo[c] : todo' = [todo EXCEPT ![c] = @ \ {s}]
    BY DEF CloseSkip
  <1>3. TypeOK'
    BY <1>1, <1>2 DEF TypeOK, rowVars, lockVars, bidVars
  <1>4. (BidHoldsAuction /\ BidHoldsPayer /\ CloserHoldsAuction)'
    BY <1>1 DEF BidHoldsAuction, BidHoldsPayer, CloserHoldsAuction, rowVars, lockVars, bidVars
  <1>5. \A d \in Closers : Readings(d)' \subseteq Readings(d)
    BY <1>1, <1>2 DEF Readings, TypeOK
  <1> QED
    BY <1>1, <1>3, <1>4, <1>5, FewerReadings

LEMMA ScanDoneInv == ASSUME Inv, NEW c \in Closers, ScanDone(c) PROVE Inv'
  <1> USE BiddingAssumption DEF Inv, ScanDone
  <1>1. TypeOK'
    BY DEF TypeOK, CloserPcs, rowVars, lockVars, bidVars
  <1>2. (BidHoldsAuction /\ BidHoldsPayer)'
    BY DEF BidHoldsAuction, BidHoldsPayer, rowVars, lockVars, bidVars
  <1>3. CloserHoldsAuction'
    BY DEF CloserHoldsAuction, lockVars, TypeOK
  <1>4. \A d \in Closers : Readings(d)' \subseteq Readings(d)
    BY DEF Readings, TypeOK
  <1> QED
    BY <1>1, <1>2, <1>3, <1>4, FewerReadings

LEMMA PaySellerInv == ASSUME Inv, NEW c \in Closers, PaySeller(c) PROVE Inv'
  <1> DEFINE s == closing[c]
  <1> USE BiddingAssumption DEF Inv
  <1>1. /\ closerPc[c] = "closed"
        /\ closerPc' = [closerPc EXCEPT ![c] = "paid"]
        /\ UNCHANGED <<now, rowVars, auctionLock, bidVars, edit, todo, closing>>
    BY DEF PaySeller
  <1>2. s \in Expired /\ s.seller \in Users /\ c \in Txns
    <2>1. s \in Readings(c)
      BY <1>1 DEF Readings
    <2> QED
      BY <2>1 DEF ReadingsCurrent, RowsSound, Expired, Txns
  <1>3. /\ userLock' \in [Users -> Txns \cup {NoOne}]
        /\ \A v \in Users : userLock[v] # NoOne => userLock'[v] = userLock[v]
    <2>1. CASE Payout(s) = 0 /\ UNCHANGED userLock
      BY <2>1 DEF TypeOK
    <2>2. CASE /\ Payout(s) > 0
               /\ FreeFor(userLock, s.seller, c)
               /\ userLock' = [userLock EXCEPT ![s.seller] = c]
      BY <1>2, <2>2, UserLockTaken
    <2> QED
      BY <2>1, <2>2 DEF PaySeller
  <1>4. TypeOK'
    BY <1>1, <1>3 DEF TypeOK, CloserPcs, rowVars, bidVars
  <1>5. BidHoldsAuction'
    BY <1>1 DEF BidHoldsAuction, rowVars, bidVars
  <1>6. BidHoldsPayer'
    BY <1>1, <1>3 DEF BidHoldsPayer, BidHoldsAuction, Request, rowVars, bidVars
  <1>7. CloserHoldsAuction'
    BY <1>1 DEF CloserHoldsAuction, TypeOK
  <1>8. \A d \in Closers : Readings(d)' \subseteq Readings(d)
    BY <1>1 DEF Readings, TypeOK
  <1> QED
    BY <1>1, <1>4, <1>5, <1>6, <1>7, <1>8, FewerReadings

(* A closing rolled back by an error, or by the end of its process.        *)
LEMMA CloserRollbackInv ==
  ASSUME Inv, NEW c \in Closers, ReleaseLocks(c),
         NEW pc \in {"idle", "loop"}, closerPc' = [closerPc EXCEPT ![c] = pc],
         NEW T \in SUBSET todo[c], todo' = [todo EXCEPT ![c] = T],
         closing' = [closing EXCEPT ![c] = NoRow],
         UNCHANGED <<now, rowVars, bidVars, edit>>
  PROVE  Inv'
  <1> USE BiddingAssumption DEF Inv, rowVars, bidVars
  <1>1. c \in Txns
    BY DEF Txns
  <1>2. /\ auctionLock' \in [Auctions -> Txns \cup {NoOne}]
        /\ userLock' \in [Users -> Txns \cup {NoOne}]
        /\ \A a \in Auctions : auctionLock[a] # c => auctionLock'[a] = auctionLock[a]
        /\ \A u \in Users : userLock[u] # c => userLock'[u] = userLock[u]
    BY <1>1, ReleaseLocksFrees
  <1>3. TypeOK'
    BY <1>2 DEF TypeOK, CloserPcs
  <1>4. BidHoldsAuction'
    BY <1>2 DEF BidHoldsAuction, Request
  <1>5. BidHoldsPayer'
    BY <1>2 DEF BidHoldsPayer, BidHoldsAuction, Request
  <1>6. CloserHoldsAuction'
    BY <1>2 DEF CloserHoldsAuction, Expired, TypeOK
  <1>7. \A d \in Closers : Readings(d)' \subseteq Readings(d)
    BY DEF Readings, TypeOK
  <1> QED
    BY <1>3, <1>4, <1>5, <1>6, <1>7, FewerReadings

LEMMA CloseFailInv == ASSUME Inv, NEW c \in Closers, CloseFail(c) PROVE Inv'
  <1>1. todo' = [todo EXCEPT ![c] = todo[c]]
    BY DEF CloseFail, EndClose, Inv, TypeOK
  <1> QED
    BY <1>1, CloserRollbackInv DEF CloseFail, EndClose, rowVars, bidVars

LEMMA CloserCrashInv == ASSUME Inv, NEW c \in Closers, CloserCrash(c) PROVE Inv'
  <1>1. {} \in SUBSET todo[c]
    OBVIOUS
  <1> QED
    BY <1>1, CloserRollbackInv DEF CloserCrash

(* The commit of a closing: the only step that ends an auction or pays its *)
(* seller.                                                                 *)
LEMMA CloseCommitInv == ASSUME Inv, NEW c \in Closers, CloseCommit(c) PROVE Inv'
  <1> DEFINE s == closing[c]
             a == s.id
             row == auction[a]
             newRow == [row EXCEPT !.status = Ended]
  <1> USE BiddingAssumption
  <1>1. /\ TypeOK /\ BidHoldsAuction /\ BidHoldsPayer /\ CloserHoldsAuction
        /\ ReadingsCurrent /\ RowsSound
        /\ NonNegativeBalance /\ EscrowExact /\ SettledExactly
    BY DEF Inv
  <1>2. /\ closerPc[c] = "paid"
        /\ auction' = [auction EXCEPT ![a].status = Ended]
        /\ Transfer(a, CloseMoves(s))
        /\ raced' = IF row.status = Ended THEN raced \cup {a} ELSE raced
        /\ EndClose(c)
        /\ bids' = bids
        /\ retimed' = retimed
    BY DEF CloseCommit
  <1>3. s \in Readings(c)
    BY <1>2 DEF Readings
  <1>4. /\ s \in Expired /\ a \in Auctions /\ auctionLock[a] = c
        /\ row.status # Absent /\ s.seller = row.seller
        /\ row.seller \in Users /\ row.winner # row.seller
        /\ a \notin raced => s.price = row.price /\ s.winner = row.winner
    BY <1>1, <1>2, <1>3 DEF ReadingsCurrent, CloserHoldsAuction, RowsSound, Expired
  <1>5. row \in Row /\ newRow \in Row /\ auction \in [Auctions -> Row]
    <2>1. row \in Row /\ auction \in [Auctions -> Row]
      BY <1>1, <1>4 DEF TypeOK
    <2>2. newRow \in Row
      BY <2>1 DEF Row, Ended
    <2> QED
      BY <2>1, <2>2
  <1>6. auction' = [auction EXCEPT ![a] = newRow]
    BY <1>2, <1>4, <1>5
  <1>7. /\ auction' \in [Auctions -> Row]
        /\ auction'[a] = newRow
        /\ \A b \in Auctions \ {a} : auction'[b] = auction[b]
    BY <1>4, <1>5, <1>6
  <1>8. /\ newRow.price = row.price /\ newRow.winner = row.winner
        /\ newRow.seller = row.seller /\ newRow.status = Ended
    BY <1>5 DEF Row
  <1>9. /\ auctionLock' \in [Auctions -> Txns \cup {NoOne}]
        /\ userLock' \in [Users -> Txns \cup {NoOne}]
        /\ \A b \in Auctions : auctionLock[b] # c => auctionLock'[b] = auctionLock[b]
        /\ \A u \in Users : userLock[u] # c => userLock'[u] = userLock[u]
    <2>1. c \in Txns
      BY DEF Txns
    <2> QED
      BY <1>1, <1>2, <2>1, ReleaseLocksFrees DEF EndClose
  <1>10. /\ now' = now /\ edit' = edit /\ bidPc' = bidPc /\ bidReq' = bidReq
         /\ todo' = todo
         /\ closerPc' = [closerPc EXCEPT ![c] = "loop"]
         /\ closing' = [closing EXCEPT ![c] = NoRow]
    BY <1>2 DEF EndClose, bidVars
  <1>11. Payout(s) \in Nat /\ (a \notin raced => Payout(s) = Escrow(a))
    <2>1. s.price \in Nat /\ row.price \in Nat
      BY <1>4, <1>5, PricesAreNat DEF Expired, Row
    <2> QED
      BY <1>4, <2>1 DEF Payout, Escrow
  <1>12. /\ CloseMoves(s) \in [Users -> Int]
         /\ \A u \in Users : CloseMoves(s)[u] = IF u = row.seller THEN Payout(s) ELSE 0
    BY <1>4, <1>11 DEF CloseMoves
  <1>13. /\ balance \in [Users -> Int] /\ ledger \in [Auctions -> [Users -> Int]]
         /\ balance' \in [Users -> Int]
         /\ \A u \in Users : balance'[u] = balance[u] + CloseMoves(s)[u]
    BY <1>1, <1>2, <1>12 DEF Transfer, TypeOK
  <1>14. /\ ledger' \in [Auctions -> [Users -> Int]]
         /\ \A u \in Users : ledger'[a][u] = ledger[a][u] + CloseMoves(s)[u]
         /\ \A b \in Auctions \ {a} : ledger'[b] = ledger[b]
    BY <1>2, <1>4, <1>12, <1>13 DEF Transfer
  <1> HIDE DEF s, a, row, newRow
  <1>15. TypeOK'
    BY <1>1, <1>2, <1>4, <1>7, <1>9, <1>10, <1>13, <1>14 DEF TypeOK, CloserPcs
  <1>16. BidHoldsAuction'
    <2>1. \A r \in BidReqs : bidPc[r] # "idle" =>
              /\ bidReq[r].auction \in Auctions /\ bidReq[r].auction # a
              /\ auctionLock[bidReq[r].auction] # c
      BY <1>1, <1>4 DEF BidHoldsAuction, Request
    <2> QED
      BY <1>1, <1>7, <1>9, <1>10, <2>1 DEF BidHoldsAuction
  <1>17. BidHoldsPayer'
    <2> SUFFICES ASSUME NEW r \in BidReqs, bidPc[r] \in {"deducted", "refunded"}
                 PROVE  /\ userLock'[bidReq[r].user] = r
                        /\ balance'[bidReq[r].user] >= bidReq[r].amount
      BY <1>10 DEF BidHoldsPayer
    <2>1. /\ bidReq[r].user \in Users /\ bidReq[r].amount \in Nat
          /\ userLock[bidReq[r].user] = r
          /\ balance[bidReq[r].user] >= bidReq[r].amount
      BY <1>1, PricesAreNat DEF BidHoldsAuction, BidHoldsPayer, Request
    <2>2. userLock'[bidReq[r].user] = r
      BY <1>9, <2>1
    <2>3. balance'[bidReq[r].user] >= balance[bidReq[r].user]
      BY <1>11, <1>12, <1>13, <2>1
    <2> QED
      BY <1>13, <2>1, <2>2, <2>3
  <1>18. CloserHoldsAuction'
    BY <1>1, <1>9, <1>10 DEF CloserHoldsAuction, Expired, TypeOK
  <1>19. ReadingsCurrent'
    <2>1. \A d \in Closers : Readings(d)' \subseteq Readings(d)
      BY <1>1, <1>10 DEF Readings, TypeOK
    <2> SUFFICES ASSUME NEW d \in Closers, NEW x \in Readings(d)
                 PROVE  /\ x \in Expired
                        /\ auction'[x.id].status # Absent
                        /\ x.seller = auction'[x.id].seller
                        /\ x.id \notin raced' => /\ x.price = auction'[x.id].price
                                                 /\ x.winner = auction'[x.id].winner
                        /\ x.id \notin retimed' /\ auction'[x.id].status = Active
                              => auction'[x.id].endTime <= now'
      BY <2>1 DEF ReadingsCurrent
    <2>2. x \in Expired /\ x.id \in Auctions
      BY <1>1 DEF ReadingsCurrent, Expired
    <2>3. (x.id \notin raced' => x.id \notin raced) /\ retimed' = retimed /\ now' = now
      BY <1>2, <1>10
    <2>4. CASE x.id = a
      BY <1>1, <1>7, <1>8, <2>2, <2>3, <2>4 DEF ReadingsCurrent, row, Ended, Absent, Active
    <2>5. CASE x.id # a
      BY <1>1, <1>7, <2>2, <2>3, <2>5 DEF ReadingsCurrent
    <2> QED
      BY <2>4, <2>5
  <1>20. RowsSound'
    <2> SUFFICES ASSUME NEW b \in Auctions
                 PROVE  /\ auction'[b].status = Absent =>
                              /\ auction'[b].winner = NoOne
                              /\ \A u \in Users : ledger'[b][u] = 0
                        /\ auction'[b].status # Absent =>
                              /\ auction'[b].seller \in Users
                              /\ auction'[b].winner # auction'[b].seller
      BY DEF RowsSound
    <2>1. CASE b = a
      BY <1>4, <1>7, <1>8, <2>1 DEF Ended, Absent
    <2>2. CASE b # a
      BY <1>1, <1>7, <1>14, <2>2 DEF RowsSound
    <2> QED
      BY <2>1, <2>2
  <1>21. NonNegativeBalance'
    BY <1>1, <1>11, <1>12, <1>13 DEF NonNegativeBalance
  <1>22. EscrowExact'
    <2> SUFFICES ASSUME NEW b \in Auctions, NEW u \in Users \ {auction'[b].seller}
                 PROVE  ledger'[b][u] = IF auction'[b].winner = u THEN -auction'[b].price ELSE 0
      BY DEF EscrowExact
    <2>1. CASE b = a
      <3>1. u # row.seller
        BY <1>7, <1>8, <2>1
      <3>2. ledger[a][u] = IF row.winner = u THEN -row.price ELSE 0
        BY <1>1, <1>4, <3>1 DEF EscrowExact, row
      <3>3. ledger'[a][u] = ledger[a][u]
        BY <1>4, <1>12, <1>13, <1>14, <3>1
      <3> QED
        BY <1>7, <1>8, <2>1, <3>2, <3>3
    <2>2. CASE b # a
      BY <1>1, <1>7, <1>14, <2>2 DEF EscrowExact
    <2> QED
      BY <2>1, <2>2
  <1>23. SettledExactly'
    <2> SUFFICES ASSUME NEW b \in Auctions \ raced', auction'[b].status # Absent
                 PROVE  ledger'[b][auction'[b].seller] =
                            IF auction'[b].status = Ended THEN Escrow(b)' ELSE 0
      BY DEF SettledExactly
    <2>1. CASE b = a
      <3>1. row.status # Ended /\ a \notin raced
        BY <1>2, <2>1
      <3>2. ledger[a][row.seller] = 0
        BY <1>1, <1>4, <3>1 DEF SettledExactly, row
      <3>3. Escrow(b)' = Escrow(a)
        BY <1>7, <1>8, <2>1 DEF Escrow, row
      <3> QED
        BY <1>4, <1>7, <1>8, <1>11, <1>12, <1>14, <2>1, <3>1, <3>2, <3>3
    <2>2. CASE b # a
      BY <1>1, <1>2, <1>7, <1>14, <2>2 DEF SettledExactly, Escrow
    <2> QED
      BY <2>1, <2>2
  <1> QED
    BY <1>15, <1>16, <1>17, <1>18, <1>19, <1>20, <1>21, <1>22, <1>23 DEF Inv
-----------------------------------------------------------------------------
LEMMA NextInv == Inv /\ [Next]_vars => Inv'
  <1> SUFFICES ASSUME Inv, [Next]_vars PROVE Inv'
    OBVIOUS
  <1>1. CASE Tick
    BY <1>1, TickInv
  <1>2. CASE \E a \in Auctions, u \in Sellers, p \in Amounts, t \in 0..MaxTime : Create(a, u, p, t)
    BY <1>2, CreateInv
  <1>3. CASE \E r \in BidReqs : BidStep(r)
    <2>1. PICK r \in BidReqs : BidStep(r)
      BY <1>3
    <2>2. CASE \E a \in Auctions, u \in Users, m \in Amounts : BidLock(r, a, u, m)
      BY <2>2, BidLockInv
    <2>3. CASE BidDeduct(r)
      BY <2>3, BidDeductInv
    <2>4. CASE BidRefund(r)
      BY <2>4, BidRefundInv
    <2>5. CASE BidCommit(r)
      BY <2>5, BidCommitInv
    <2>6. CASE BidRefuse(r) \/ BidAbort(r) \/ DeadlockVictim(r)
      BY <2>6, BidRollbackInv DEF BidRefuse, BidAbort, DeadlockVictim
    <2> QED
      BY <2>1, <2>2, <2>3, <2>4, <2>5, <2>6 DEF BidStep
  <1>4. CASE \E e \in EditReqs : EditStep(e)
    <2>1. PICK e \in EditReqs : EditStep(e)
      BY <1>4
    <2> QED
      BY <2>1, EditCheckInv, EditWriteInv, EditFailInv DEF EditStep
  <1>5. CASE \E c \in Closers : CloserStep(c)
    <2>1. PICK c \in Closers : CloserStep(c)
      BY <1>5
    <2> QED
      BY <2>1, ScanInv, CloseStatusInv, CloseSkipInv, PaySellerInv, CloseCommitInv,
         CloseFailInv, ScanDoneInv, CloserCrashInv DEF CloserStep
  <1>6. CASE UNCHANGED vars
    <2>1. UNCHANGED <<now, rowVars, lockVars, bidVars, edit, closerVars>>
      BY <1>6 DEF vars
    <2>2. TypeOK'
      BY <2>1 DEF Inv, TypeOK, rowVars, lockVars, bidVars, closerVars
    <2>3. (BidHoldsAuction /\ BidHoldsPayer /\ CloserHoldsAuction /\ ReadingsCurrent)'
      BY <2>1 DEF Inv, BidHoldsAuction, BidHoldsPayer, CloserHoldsAuction, ReadingsCurrent,
                  Readings, rowVars, lockVars, bidVars, closerVars
    <2>4. (RowsSound /\ NonNegativeBalance /\ EscrowExact /\ SettledExactly)'
      BY <2>1 DEF Inv, RowsSound, NonNegativeBalance, EscrowExact, SettledExactly, Escrow, rowVars
    <2> QED
      BY <2>2, <2>3, <2>4 DEF Inv
  <1> QED
    BY <1>1, <1>2, <1>3, <1>4, <1>5, <1>6 DEF Next

(* Only a creation, an edit and a commit write the tables auctions or bids. *)
LEMMA NextWrites ==
  ASSUME [Next]_vars
  PROVE  \/ UNCHANGED <<auction, bids>>
         \/ \E b \in Auctions, u \in Sellers, p \in Amounts, t \in 0..MaxTime : Create(b, u, p, t)
         \/ \E e \in EditReqs : EditWrite(e)
         \/ \E r \in BidReqs : BidCommit(r)
         \/ \E c \in Closers : CloseCommit(c)
  BY DEF Next, Tick, BidStep, EditStep, CloserStep, BidLock, BidDeduct, BidRefuse, BidRefund,
         BidAbort, DeadlockVictim, EditCheck, EditFail, Scan, CloseStatus, CloseSkip,
         PaySeller, CloseFail, ScanDone, CloserCrash, vars, rowVars

(* The inductive invariant holds of every behaviour.                       *)
THEOREM Invariance == Spec => []Inv
  <1> QED
    BY InitInv, NextInv, PTL DEF Spec

(* Every variable keeps its type.                                          *)
THEOREM TypeCorrect == Spec => []TypeOK
  <1>1. Inv => TypeOK
    BY DEF Inv
  <1> QED
    BY <1>1, Invariance, PTL

(* No interleaving of bids and closings makes a balance negative.          *)
THEOREM BalancesNeverNegative == Spec => []NonNegativeBalance
  <1>1. Inv => NonNegativeBalance
    BY DEF Inv
  <1> QED
    BY <1>1, Invariance, PTL

(* An auction holds of its bidders exactly the price of its winner.        *)
THEOREM EscrowIsExact == Spec => []EscrowExact
  <1>1. Inv => EscrowExact
    BY DEF Inv
  <1> QED
    BY <1>1, Invariance, PTL

(* A seller whose auction did not race with its closing is paid the final  *)
(* price, once.                                                            *)
THEOREM SettlementIsExact == Spec => []SettledExactly
  <1>1. Inv => SettledExactly
    BY DEF Inv
  <1> QED
    BY <1>1, Invariance, PTL

(* An ended auction keeps its winner, its price and its bids.              *)
THEOREM EndedIsFrozen == Spec => FrozenOnceEnded
  <1> DEFINE Frozen == \A a \in Auctions : auction[a].status = Ended =>
                /\ auction'[a].status = Ended
                /\ auction'[a].winner = auction[a].winner
                /\ auction'[a].price = auction[a].price
                /\ bids'[a] = bids[a]
  <1>1. Inv /\ [Next]_vars => Frozen
    <2> SUFFICES ASSUME Inv, [Next]_vars, NEW a \in Auctions, auction[a].status = Ended
                 PROVE  /\ auction'[a].status = Ended
                        /\ auction'[a].winner = auction[a].winner
                        /\ auction'[a].price = auction[a].price
                        /\ bids'[a] = bids[a]
      OBVIOUS
    <2>0. auction \in [Auctions -> Row] /\ auction[a] \in Row
      BY DEF Inv, TypeOK
    <2>1. CASE UNCHANGED <<auction, bids>>
      BY <2>1
    <2>2. CASE \E b \in Auctions, u \in Sellers, p \in Amounts, t \in 0..MaxTime : Create(b, u, p, t)
      BY <2>0, <2>2 DEF Create, Absent, Ended
    <2>3. CASE \E e \in EditReqs : EditWrite(e)
      BY <2>0, <2>3 DEF EditWrite, Row
    <2>4. CASE \E r \in BidReqs : BidCommit(r)
      <3>1. PICK r \in BidReqs : BidCommit(r)
        BY <2>4
      <3>2. bidReq[r].auction # a
        BY <3>1 DEF BidCommit, Inv, BidHoldsAuction, Active, Ended
      <3> QED
        BY <2>0, <3>1, <3>2 DEF BidCommit, Inv, TypeOK
    <2>5. CASE \E c \in Closers : CloseCommit(c)
      BY <2>0, <2>5 DEF CloseCommit, Row
    <2> QED
      BY <2>1, <2>2, <2>3, <2>4, <2>5, NextWrites
  <1>2. Spec => [][Frozen]_vars
    BY <1>1, Invariance, PTL DEF Spec
  <1> QED
    BY <1>2 DEF FrozenOnceEnded

(* No auction ends early, unless its end time was edited while listed.     *)
THEOREM NeverEndsEarly == Spec => EndsOnTime
  <1> DEFINE OnTime == \A a \in Auctions \ retimed :
                auction[a].status = Active /\ auction'[a].status = Ended
                    => auction[a].endTime <= now
  <1>1. Inv /\ [Next]_vars => OnTime
    <2> SUFFICES ASSUME Inv, [Next]_vars, NEW a \in Auctions \ retimed,
                        auction[a].status = Active, auction'[a].status = Ended
                 PROVE  auction[a].endTime <= now
      OBVIOUS
    <2>0. auction \in [Auctions -> Row] /\ auction[a] \in Row
      BY DEF Inv, TypeOK
    <2>1. ~ UNCHANGED auction
      BY DEF Active, Ended
    <2>2. ~ \E b \in Auctions, u \in Sellers, p \in Amounts, t \in 0..MaxTime : Create(b, u, p, t)
      BY <2>0 DEF Create, Active, Ended
    <2>3. ASSUME NEW e \in EditReqs, EditWrite(e) PROVE FALSE
      <3>1. auction'[a].status = auction[a].status
        BY <2>0, <2>3 DEF EditWrite, Row
      <3> QED
        BY <3>1 DEF Active, Ended
    <2>4. ASSUME NEW r \in BidReqs, BidCommit(r) PROVE FALSE
      <3>1. auction'[a].status = auction[a].status
        BY <2>0, <2>4 DEF BidCommit, Row
      <3> QED
        BY <3>1 DEF Active, Ended
    <2>5. PICK c \in Closers : CloseCommit(c)
      BY <2>1, <2>2, <2>3, <2>4, NextWrites
    <2>6. closing[c] \in Readings(c)
      BY <2>5 DEF CloseCommit, Readings
    <2>7. closing[c].id = a
      BY <2>0, <2>5 DEF CloseCommit, Active, Ended
    <2> QED
      BY <2>6, <2>7 DEF Inv, ReadingsCurrent
  <1>2. Spec => [][OnTime]_vars
    BY <1>1, Invariance, PTL DEF Spec
  <1> QED
    BY <1>2 DEF EndsOnTime

(* The bids of an auction rise, and the last of them is its winner and     *)
(* price.  A row not created has no bids.                                  *)
HistoryInv ==
    /\ HistoryTop
    /\ \A a \in Auctions : auction[a].status = Absent => bids[a] = <<>>

LEMMA HistoryStep == Inv /\ HistoryInv /\ [Next]_vars => HistoryInv'
  <1> SUFFICES ASSUME Inv, HistoryInv, [Next]_vars, NEW a \in Auctions
               PROVE  /\ auction'[a].status = Absent => bids'[a] = <<>>
                      /\ \A i, j \in 1..Len(bids'[a]) :
                            i < j => bids'[a][i].amount < bids'[a][j].amount
                      /\ \A i \in 1..Len(bids'[a]) : bids'[a][i].user # auction'[a].seller
                      /\ IF bids'[a] = <<>> THEN auction'[a].winner = NoOne
                         ELSE /\ auction'[a].winner = bids'[a][Len(bids'[a])].user
                              /\ auction'[a].price = bids'[a][Len(bids'[a])].amount
    BY DEF HistoryInv, HistoryTop
  <1>0. /\ auction \in [Auctions -> Row] /\ auction[a] \in Row
        /\ bids \in [Auctions -> Seq([user: Users, amount: Amounts])]
        /\ bids[a] \in Seq([user: Users, amount: Amounts])
    BY DEF Inv, TypeOK
  <1>1. CASE UNCHANGED <<auction, bids>>
    BY <1>1 DEF HistoryInv, HistoryTop
  <1>2. CASE \E b \in Auctions, u \in Sellers, p \in Amounts, t \in 0..MaxTime : Create(b, u, p, t)
    BY <1>0, <1>2 DEF Create, HistoryInv, HistoryTop, Absent, Active
  <1>3. CASE \E e \in EditReqs : EditWrite(e)
    <2>1. /\ auction'[a].seller = auction[a].seller /\ auction'[a].winner = auction[a].winner
          /\ auction'[a].price = auction[a].price /\ auction'[a].status = auction[a].status
          /\ bids' = bids
      BY <1>0, <1>3 DEF EditWrite, Row
    <2> QED
      BY <2>1 DEF HistoryInv, HistoryTop
  <1>4. CASE \E c \in Closers : CloseCommit(c)
    <2>1. /\ auction'[a].seller = auction[a].seller /\ auction'[a].winner = auction[a].winner
          /\ auction'[a].price = auction[a].price
          /\ auction'[a].status \in {auction[a].status, Ended}
          /\ bids' = bids
      BY <1>0, <1>4 DEF CloseCommit, Row
    <2> QED
      BY <2>1 DEF HistoryInv, HistoryTop, Absent, Ended
  <1>5. CASE \E r \in BidReqs : BidCommit(r)
    <2> PICK r \in BidReqs : BidCommit(r)
      BY <1>5
    <2> DEFINE q == bidReq[r]
               b == bids[a]
               e == [user |-> q.user, amount |-> q.amount]
    <2>1. /\ q \in Request /\ q.auction \in Auctions /\ q.amount \in Amounts
          /\ auction[q.auction].status = Active
          /\ auction[q.auction].price = q.price /\ q.amount > q.price
          /\ auction[q.auction].seller # q.user /\ q.user \in Users
      BY DEF BidCommit, Inv, BidHoldsAuction, Request
    <2>2. CASE q.auction # a
      <3>1. auction'[a] = auction[a] /\ bids'[a] = bids[a]
        BY <1>0, <2>2 DEF BidCommit
      <3> QED
        BY <3>1 DEF HistoryInv, HistoryTop
    <2>3. CASE q.auction = a
      <3>1. /\ auction'[a].seller = auction[a].seller /\ auction'[a].status = auction[a].status
            /\ auction'[a].winner = q.user /\ auction'[a].price = q.amount
            /\ bids'[a] = Append(b, e)
        BY <1>0, <2>1, <2>3 DEF BidCommit, Row
      <3>2. /\ Len(b) \in Nat /\ e \in [user: Users, amount: Amounts]
            /\ Len(Append(b, e)) = Len(b) + 1
            /\ Append(b, e)[Len(b) + 1] = e
            /\ \A i \in 1..Len(b) : Append(b, e)[i] = b[i]
        BY <1>0, <2>1
      <3>3. /\ \A i, j \in 1..Len(b) : i < j => b[i].amount < b[j].amount
            /\ \A i \in 1..Len(b) : b[i].user # auction[a].seller
            /\ b # <<>> => b[Len(b)].amount = auction[a].price
        BY DEF HistoryInv, HistoryTop
      <3>4. \A i \in 1..Len(b) : b[i].amount \in Nat /\ b[i].amount < q.amount
        <4> SUFFICES ASSUME NEW i \in 1..Len(b)
                     PROVE  b[i].amount \in Nat /\ b[i].amount < q.amount
          OBVIOUS
        <4>1. b # <<>> /\ Len(b) \in 1..Len(b) /\ (i < Len(b) \/ i = Len(b))
          BY <1>0, <3>2
        <4>2. b[i].amount \in Nat /\ b[Len(b)].amount \in Nat
          <5>1. b[i] \in [user: Users, amount: Amounts] /\ b[Len(b)] \in [user: Users, amount: Amounts]
            BY <1>0, <4>1, SeqElement
          <5> QED
            BY <5>1, PricesAreNat
        <4>3. q.amount \in Nat /\ b[Len(b)].amount < q.amount
          BY <2>1, <2>3, <3>3, <4>1, PricesAreNat
        <4> QED
          BY <3>3, <4>1, <4>2, <4>3
      <3>5. ASSUME NEW i \in 1..Len(b) + 1, NEW j \in 1..Len(b) + 1, i < j
            PROVE  Append(b, e)[i].amount < Append(b, e)[j].amount
        <4>1. i \in 1..Len(b)
          BY <3>2, <3>5
        <4>2. CASE j = Len(b) + 1
          BY <3>2, <3>4, <4>1, <4>2
        <4>3. CASE j # Len(b) + 1
          BY <3>2, <3>3, <3>5, <4>1, <4>3, SMTT(30)
        <4> QED
          BY <4>2, <4>3
      <3>6. ASSUME NEW i \in 1..Len(b) + 1
            PROVE  Append(b, e)[i].user # auction[a].seller
        BY <2>1, <2>3, <3>2, <3>3
      <3>7. Append(b, e) # <<>>
        <4>1. b \in Seq([user: Users, amount: Amounts])
          BY <1>0
        <4> HIDE DEF b, e
        <4> QED
          BY <3>2, <4>1, AppendProperties
      <3> HIDE DEF b, e
      <3> QED
        BY <2>1, <2>3, <3>1, <3>2, <3>5, <3>6, <3>7 DEF e, Active, Absent
    <2> QED
      BY <2>2, <2>3
  <1> QED
    BY <1>1, <1>2, <1>3, <1>4, <1>5, NextWrites

(* The bids of an auction increase, none is its seller's, and the last one *)
(* is its winner and its price.                                            *)
THEOREM HistoryIsSound == Spec => []HistoryTop
  <1>1. Init => HistoryInv
    BY DEF Init, HistoryInv, HistoryTop, AbsentRow
  <1>2. HistoryInv => HistoryTop
    BY DEF HistoryInv
  <1> QED
    BY <1>1, <1>2, HistoryStep, Invariance, PTL DEF Spec
-----------------------------------------------------------------------------
(* Bidding beside other components: what each side keeps to on the rows of *)
(* table users, which is all they share.                                   *)

(* A step here leaves alone the rows that others have locked, except that  *)
(* it may add to their balances.                                           *)
LEMMA LeavesOthers ==
  ASSUME Inv, [Next]_vars, NEW u \in Users, userLock[u] \in OtherTxns
  PROVE  userLock'[u] = userLock[u] /\ balance'[u] >= balance[u]
  <1> USE BiddingAssumption
  <1>0. /\ userLock \in [Users -> Txns \cup {NoOne}] /\ balance[u] \in Int
        /\ userLock[u] \notin BidReqs \cup Closers \cup {NoOne}
    BY DEF Inv, TypeOK
  <1>1. CASE UNCHANGED <<userLock, balance>>
    BY <1>0, <1>1
  <1>2. CASE \E r \in BidReqs : BidStep(r)
    <2>1. PICK r \in BidReqs : BidStep(r)
      BY <1>2
    <2>2. ReleaseLocks(r) => userLock'[u] = userLock[u]
      BY <1>0 DEF ReleaseLocks, Without
    <2>3. CASE BidCommit(r)
      <3>1. /\ bidReq[r] \in Request /\ userLock[bidReq[r].user] = r
            /\ bidReq[r].price \in Nat
        BY <2>3, PricesAreNat DEF BidCommit, Inv, BidHoldsAuction, BidHoldsPayer, Request
      <3>2. balance'[u] = balance[u] + BidMoves(bidReq[r])[u]
        BY <2>3 DEF BidCommit, Transfer
      <3>3. u # bidReq[r].user
        BY <1>0, <3>1
      <3>4. BidMoves(bidReq[r])[u] = IF u = bidReq[r].winner THEN bidReq[r].price ELSE 0
        BY <3>1, <3>3 DEF BidMoves
      <3> QED
        BY <1>0, <2>2, <2>3, <3>1, <3>2, <3>4 DEF BidCommit, EndBid
    <2>4. CASE BidRefuse(r) \/ BidAbort(r) \/ DeadlockVictim(r)
      BY <1>0, <2>2, <2>4 DEF BidRefuse, BidAbort, DeadlockVictim, EndBid, rowVars
    <2>5. CASE \E a \in Auctions, v \in Users, m \in Amounts : BidLock(r, a, v, m)
      BY <1>1, <2>5 DEF BidLock, rowVars
    <2>6. CASE BidDeduct(r) \/ BidRefund(r)
      BY <1>0, <2>6 DEF BidDeduct, BidRefund, FreeFor, rowVars
    <2> QED
      BY <2>1, <2>3, <2>4, <2>5, <2>6 DEF BidStep
  <1>3. CASE \E c \in Closers : CloserStep(c)
    <2>1. PICK c \in Closers : CloserStep(c)
      BY <1>3
    <2>2. ReleaseLocks(c) => userLock'[u] = userLock[u]
      BY <1>0 DEF ReleaseLocks, Without
    <2>3. CASE CloseCommit(c)
      <3>1. closing[c].price \in Nat
        BY <2>3, PricesAreNat DEF CloseCommit, Inv, CloserHoldsAuction, Expired
      <3>2. balance'[u] = balance[u] + CloseMoves(closing[c])[u]
        BY <2>3 DEF CloseCommit, Transfer
      <3>3. CloseMoves(closing[c])[u] \in Nat
        BY <3>1 DEF CloseMoves, Payout
      <3> QED
        BY <1>0, <2>2, <2>3, <3>2, <3>3 DEF CloseCommit, EndClose
    <2>4. CASE CloseFail(c) \/ CloserCrash(c)
      BY <1>0, <2>2, <2>4 DEF CloseFail, CloserCrash, EndClose, rowVars
    <2>5. CASE PaySeller(c)
      BY <1>0, <2>5 DEF PaySeller, FreeFor, rowVars
    <2>6. CASE Scan(c) \/ CloseStatus(c) \/ CloseSkip(c) \/ ScanDone(c)
      BY <1>1, <2>6 DEF Scan, CloseStatus, CloseSkip, ScanDone, rowVars, lockVars
    <2> QED
      BY <2>1, <2>3, <2>4, <2>5, <2>6 DEF CloserStep
  <1>4. CASE Tick \/ (\E e \in EditReqs : EditStep(e))
    BY <1>1, <1>4 DEF Tick, EditStep, EditCheck, EditWrite, EditFail, rowVars, lockVars
  <1> QED
    BY <1>1, <1>2, <1>3, <1>4 DEF Next, Create, vars, rowVars, lockVars

(* The invariant outlives every step of others that keeps to the same.     *)
LEMMA OthersInv ==
  ASSUME Inv,
         UNCHANGED <<now, auction, bids, ledger, raced, retimed, auctionLock, bidVars, edit, closerVars>>,
         balance' \in [Users -> Int], NonNegativeBalance',
         userLock' \in [Users -> Txns \cup {NoOne}],
         \A u \in Users : userLock[u] \in BidReqs \cup Closers =>
             userLock'[u] = userLock[u] /\ balance'[u] >= balance[u]
  PROVE  Inv'
  <1> USE DEF Inv, bidVars, closerVars
  <1>1. TypeOK'
    BY DEF TypeOK
  <1>2. (BidHoldsAuction /\ CloserHoldsAuction /\ ReadingsCurrent)'
    BY DEF BidHoldsAuction, CloserHoldsAuction, ReadingsCurrent, Readings
  <1>3. BidHoldsPayer'
    <2> SUFFICES ASSUME NEW r \in BidReqs, bidPc[r] \in {"deducted", "refunded"}
                 PROVE  /\ userLock'[bidReq[r].user] = r
                        /\ balance'[bidReq[r].user] >= bidReq[r].amount
      BY DEF BidHoldsPayer
    <2>1. /\ bidReq[r].user \in Users /\ bidReq[r].amount \in Nat
          /\ userLock[bidReq[r].user] = r
          /\ balance[bidReq[r].user] >= bidReq[r].amount
      BY PricesAreNat DEF BidHoldsPayer, BidHoldsAuction, Request
    <2> QED
      BY <2>1 DEF TypeOK
  <1>4. (RowsSound /\ EscrowExact /\ SettledExactly)'
    BY DEF RowsSound, EscrowExact, SettledExactly, Escrow
  <1> QED
    BY <1>1, <1>2, <1>3, <1>4
-----------------------------------------------------------------------------
(* The transactions implement the atomic exchanges of AuctionHouse.  A     *)
(* commit of a bid or of a closing, and a creation, are the steps of the   *)
(* house; every other step, the edit of an end time included, stutters.    *)
(* To Inv and HistoryInv the refinement adds one invariant: what a closer  *)
(* is going to pay has once been bid.                                      *)

(* The amounts ever bid for a: what the mapping calls offered.             *)
Offered(a) == {bids[a][i].amount : i \in 1..Len(bids[a])}

(* What a closer will pay for a reading, however old, is nothing or an     *)
(* amount bid for that auction.                                            *)
PayoutsOffered ==
    \A c \in Closers : \A s \in Readings(c) : Payout(s) \in {0} \cup Offered(s.id)

HouseInv == Inv /\ HistoryInv /\ PayoutsOffered

Lot(a) == [seller |-> auction[a].seller, price |-> auction[a].price,
           winner |-> auction[a].winner, status |-> auction[a].status]
-----------------------------------------------------------------------------
(* A step that leaves what users own and what auctions hold as they are,   *)
(* or one that is a creation, an edit or a commit.                         *)
LEMMA NextMoney ==
  ASSUME [Next]_vars
  PROVE  \/ UNCHANGED rowVars
         \/ \E b \in Auctions, u \in Sellers, p \in Amounts, t \in 0..MaxTime : Create(b, u, p, t)
         \/ \E e \in EditReqs : EditWrite(e)
         \/ \E r \in BidReqs : BidCommit(r)
         \/ \E c \in Closers : CloseCommit(c)
  BY DEF Next, Tick, BidStep, EditStep, CloserStep, BidLock, BidDeduct, BidRefuse, BidRefund,
         BidAbort, DeadlockVictim, EditCheck, EditFail, Scan, CloseStatus, CloseSkip,
         PaySeller, CloseFail, ScanDone, CloserCrash, vars

(* A committed bid adds its amount to those offered for its auction.       *)
LEMMA CommitOffers ==
  ASSUME Inv, NEW r \in BidReqs, BidCommit(r), NEW a \in Auctions
  PROVE  Offered(a)' = IF a = bidReq[r].auction THEN Offered(a) \cup {bidReq[r].amount}
                       ELSE Offered(a)
  <1> DEFINE q == bidReq[r]
             b == bids[a]
             e == [user |-> q.user, amount |-> q.amount]
  <1>1. /\ bids \in [Auctions -> Seq([user: Users, amount: Amounts])]
        /\ b \in Seq([user: Users, amount: Amounts])
        /\ e \in [user: Users, amount: Amounts]
    BY DEF Inv, TypeOK, BidCommit, BidHoldsAuction, Request
  <1>2. CASE a # q.auction
    <2>1. bids'[a] = bids[a]
      BY <1>1, <1>2 DEF BidCommit
    <2> QED
      BY <1>2, <2>1 DEF Offered
  <1>3. CASE a = q.auction
    <2>1. bids'[a] = Append(b, e)
      BY <1>1, <1>3 DEF BidCommit
    <2>2. /\ Len(b) \in Nat /\ Len(Append(b, e)) = Len(b) + 1
          /\ Append(b, e)[Len(b) + 1] = e
          /\ \A i \in 1..Len(b) : Append(b, e)[i] = b[i]
      BY <1>1
    <2>3. e.amount = q.amount
      OBVIOUS
    <2> HIDE DEF b, e
    <2>4. {Append(b, e)[i].amount : i \in 1..Len(Append(b, e))}
            = {b[i].amount : i \in 1..Len(b)} \cup {q.amount}
      BY <2>2, <2>3
    <2> QED
      BY <1>3, <2>1, <2>4, ZenonT(60) DEF Offered, b
  <1> QED
    BY <1>2, <1>3

(* Nothing is ever struck from the bids of an auction.                     *)
LEMMA OffersGrow ==
  ASSUME Inv, [Next]_vars, NEW a \in Auctions
  PROVE  Offered(a) \subseteq Offered(a)'
  <1>1. CASE \E r \in BidReqs : BidCommit(r)
    BY <1>1, CommitOffers
  <1>2. CASE bids' = bids
    BY <1>2 DEF Offered
  <1> QED
    BY <1>1, <1>2, NextWrites DEF Create, EditWrite, CloseCommit

(* Only a scan adds to what a closer has yet to act on.                    *)
LEMMA ReadingsFromScan ==
  ASSUME Inv, [Next]_vars, NEW c \in Closers
  PROVE  Scan(c) \/ Readings(c)' \subseteq Readings(c)
  <1> USE DEF Readings
  <1>1. CASE UNCHANGED closerVars
    BY <1>1 DEF closerVars
  <1>2. CASE \E d \in Closers : CloserStep(d)
    <2>1. PICK d \in Closers : CloserStep(d)
      BY <1>2
    <2>2. /\ todo \in [Closers -> SUBSET Expired]
          /\ closerPc \in [Closers -> CloserPcs]
          /\ closing \in [Closers -> Expired \cup {NoRow}]
      BY DEF Inv, TypeOK
    <2>3. CASE Scan(d)
      BY <2>2, <2>3 DEF Scan
    <2>4. CASE CloseStatus(d)
      BY <2>2, <2>4 DEF CloseStatus
    <2>5. CASE CloseSkip(d)
      BY <2>2, <2>5 DEF CloseSkip
    <2>6. CASE PaySeller(d)
      BY <2>2, <2>6 DEF PaySeller
    <2>7. CASE CloseCommit(d) \/ CloseFail(d)
      BY <2>2, <2>7 DEF CloseCommit, CloseFail, EndClose
    <2>8. CASE ScanDone(d) \/ CloserCrash(d)
      BY <2>2, <2>8 DEF ScanDone, CloserCrash
    <2> QED
      BY <2>1, <2>3, <2>4, <2>5, <2>6, <2>7, <2>8 DEF CloserStep
  <1>3. CASE \E r \in BidReqs : BidStep(r)
    BY <1>1, <1>3 DEF BidStep, BidLock, BidDeduct, BidRefuse, BidRefund, BidCommit, BidAbort,
                      DeadlockVictim, EndBid, closerVars
  <1>4. CASE Tick \/ (\E e \in EditReqs : EditStep(e))
    BY <1>1, <1>4 DEF Tick, EditStep, EditCheck, EditWrite, EditFail, closerVars
  <1> QED
    BY <1>1, <1>2, <1>3, <1>4 DEF Next, Create, vars, closerVars

(* What a scan reads of a row is what its last bid wrote.                  *)
LEMMA ScanOffered ==
  ASSUME Inv, HistoryInv, NEW c \in Closers, Scan(c), NEW s \in Readings(c)'
  PROVE  Payout(s) \in {0} \cup Offered(s.id)
  <1>1. PICK a \in Auctions : s = [id |-> a, seller |-> auction[a].seller,
                                   price |-> auction[a].price, winner |-> auction[a].winner]
    BY DEF Scan, Readings, Inv, TypeOK
  <1>2. CASE auction[a].winner = NoOne
    BY <1>1, <1>2 DEF Payout
  <1>3. CASE auction[a].winner # NoOne
    <2>1. bids[a] # <<>> /\ auction[a].price = bids[a][Len(bids[a])].amount
      BY <1>3 DEF HistoryInv, HistoryTop
    <2>2. bids[a] \in Seq([user: Users, amount: Amounts])
      BY DEF Inv, TypeOK
    <2>3. Len(bids[a]) \in 1..Len(bids[a])
      BY <2>1, <2>2
    <2>4. auction[a].price \in Offered(a)
      BY <2>1, <2>3 DEF Offered
    <2> QED
      BY <1>1, <2>4 DEF Payout
  <1> QED
    BY <1>2, <1>3

LEMMA HouseInvStep == HouseInv /\ [Next]_vars => HouseInv'
  <1> SUFFICES ASSUME HouseInv, [Next]_vars PROVE HouseInv'
    OBVIOUS
  <1>1. Inv' /\ HistoryInv'
    BY NextInv, HistoryStep DEF HouseInv
  <1>2. ASSUME NEW c \in Closers, NEW s \in Readings(c)'
        PROVE  Payout(s) \in {0} \cup Offered(s.id)'
    <2>1. s.id \in Auctions
      BY <1>1 DEF Inv, ReadingsCurrent, Expired
    <2>2. Payout(s) \in {0} \cup Offered(s.id)
      BY ReadingsFromScan, ScanOffered DEF HouseInv, PayoutsOffered
    <2> QED
      BY <2>1, <2>2, OffersGrow DEF HouseInv
  <1> QED
    BY <1>1, <1>2 DEF HouseInv, PayoutsOffered, Payout
-----------------------------------------------------------------------------
(* The initial state of the tables is that of the house.                   *)
LEMMA InitRefines == Init => House!HouseInit
  BY DEF Init, House!HouseInit, AbsentRow, House!Unlisted, Absent

(* A creation puts a lot on sale.                                          *)
LEMMA CreateRefines ==
  ASSUME HouseInv, NEW a \in Auctions, NEW u \in Sellers, NEW p \in Amounts,
         NEW t \in 0..MaxTime, Create(a, u, p, t)
  PROVE  House!List(a, u, p)
  <1>1. auction \in [Auctions -> Row]
    BY DEF HouseInv, Inv, TypeOK
  <1>2. \A b \in Auctions : Lot(b)' = IF b = a THEN [seller |-> u, price |-> p, winner |-> NoOne,
                                                     status |-> Active]
                                      ELSE Lot(b)
    BY <1>1 DEF Create, Lot
  <1> QED
    BY <1>2 DEF Create, Lot, House!List, House!Unlisted, House!Open, Absent, Active

(* A committed bid is the exchange of the house.                           *)
LEMMA BidRefines ==
  ASSUME HouseInv, NEW r \in BidReqs, BidCommit(r),
         NEW a \in Auctions, NEW u \in Users, NEW m \in Amounts,
         bidReq[r].auction = a, bidReq[r].user = u, bidReq[r].amount = m
  PROVE  House!Bid(a, u, m)
  <1> DEFINE q == bidReq[r]
  <1>1. /\ q \in Request /\ q.auction = a /\ q.user = u /\ q.amount = m
        /\ auction[a].status = Active
        /\ auction[a].price = q.price /\ auction[a].winner = q.winner
        /\ auction[a].seller # u /\ m > q.price
        /\ balance[u] >= m
    BY DEF BidCommit, HouseInv, Inv, BidHoldsAuction, BidHoldsPayer, Request
  <1>2. auction \in [Auctions -> Row]
    BY DEF HouseInv, Inv, TypeOK
  <1>3. \A b \in Auctions : Lot(b)' = IF b = a THEN [Lot(a) EXCEPT !.price = m, !.winner = u]
                                      ELSE Lot(b)
    <2>1. auction' = [auction EXCEPT ![a].price = m, ![a].winner = u]
      BY <1>1 DEF BidCommit
    <2>2. /\ auction'[a].seller = auction[a].seller /\ auction'[a].status = auction[a].status
          /\ auction'[a].price = m /\ auction'[a].winner = u
          /\ \A b \in Auctions \ {a} : auction'[b] = auction[b]
      BY <1>2, <2>1 DEF Row
    <2> QED
      BY <2>2 DEF Lot
  <1>4. \A b \in Auctions : Offered(b)' = IF b = a THEN Offered(a) \cup {m} ELSE Offered(b)
    BY CommitOffers DEF HouseInv
  <1>5. balance' = [v \in Users |-> balance[v] - (IF v = u THEN m ELSE 0)
                                      + (IF v = auction[a].winner THEN auction[a].price ELSE 0)]
    <2>1. \A v \in Users : balance[v] \in Int
      BY DEF HouseInv, Inv, TypeOK
    <2>2. m \in Int /\ q.price \in Int
      <3>1. m \in Nat /\ q.price \in Nat
        BY <1>1, PricesAreNat DEF Request
      <3> QED
        BY <3>1
    <2>3. balance' = [v \in Users |-> balance[v] + BidMoves(q)[v]]
      BY DEF BidCommit, Transfer
    <2>4. ASSUME NEW v \in Users
          PROVE  balance[v] + BidMoves(q)[v]
                   = balance[v] - (IF v = u THEN m ELSE 0)
                       + (IF v = auction[a].winner THEN auction[a].price ELSE 0)
      <3> HIDE DEF q
      <3>1. BidMoves(q)[v] = (IF v = q.winner THEN q.price ELSE 0) - (IF v = u THEN m ELSE 0)
        BY <1>1 DEF BidMoves
      <3> QED
        BY <1>1, <2>1, <2>2, <3>1
    <2> HIDE DEF q
    <2> QED
      BY <2>3, <2>4
  <1>6. raced' \in {raced, raced \cup {a}}
    BY DEF BidCommit
  <1> HIDE DEF q
  <1> QED
    BY <1>1, <1>3, <1>4, <1>5, <1>6 DEF House!Bid, House!Open, Active, Lot, Offered

(* A closing that commits settles its lot: with the price of the row,      *)
(* unless it raced.                                                        *)
LEMMA CloseRefines ==
  ASSUME HouseInv, NEW c \in Closers, CloseCommit(c), NEW a \in Auctions, closing[c].id = a
  PROVE  House!Settle(a)
  <1> DEFINE s == closing[c]
  <1>1. s \in Readings(c)
    BY DEF CloseCommit, Readings
  <1>2. /\ s \in Expired /\ s.price \in Nat
        /\ auction[a].status # Absent /\ s.seller = auction[a].seller
        /\ a \notin raced => s.price = auction[a].price /\ s.winner = auction[a].winner
        /\ auction[a].seller \in Users
    BY <1>1, PricesAreNat DEF HouseInv, Inv, ReadingsCurrent, RowsSound, Expired
  <1>3. auction \in [Auctions -> Row]
    BY DEF HouseInv, Inv, TypeOK
  <1>4. \A b \in Auctions : Lot(b)' = IF b = a THEN [Lot(a) EXCEPT !.status = Ended] ELSE Lot(b)
    BY <1>2, <1>3 DEF CloseCommit, Lot, Row
  <1>5. balance' = [balance EXCEPT ![auction[a].seller] = @ + Payout(s)]
    <2>1. balance \in [Users -> Int]
      BY DEF HouseInv, Inv, TypeOK
    <2>2. balance' = [u \in Users |-> balance[u] + CloseMoves(s)[u]]
      BY DEF CloseCommit, Transfer
    <2>3. Payout(s) \in Int
      BY <1>2 DEF Payout
    <2>4. \A u \in Users : CloseMoves(s)[u] = IF u = auction[a].seller THEN Payout(s) ELSE 0
      BY <1>2 DEF CloseMoves
    <2> HIDE DEF s
    <2>5. \A u \in Users : balance[u] + CloseMoves(s)[u]
                              = [balance EXCEPT ![auction[a].seller] = @ + Payout(s)][u]
      BY <1>2, <2>1, <2>3, <2>4
    <2> QED
      BY <2>1, <2>2, <2>5
  <1>6. Payout(s) \in {0} \cup Offered(a)
    BY <1>1 DEF HouseInv, PayoutsOffered
  <1>7. a \notin raced' => Payout(s) = Escrow(a)
    BY <1>2 DEF CloseCommit, Payout, Escrow
  <1>8. raced' = IF auction[a].status = Ended THEN raced \cup {a} ELSE raced
    BY DEF CloseCommit
  <1>9. bids' = bids
    BY DEF CloseCommit
  <1>10. House!Due(a) = Escrow(a)
    BY <1>2 DEF House!Due, Escrow
  <1>11. Payout(s) \in IF a \in raced' THEN {0} \cup Offered(a) ELSE {House!Due(a)}
    BY <1>6, <1>7, <1>10
  <1> HIDE DEF s
  <1>12. \E pay \in IF a \in raced' THEN {0} \cup Offered(a) ELSE {House!Due(a)} :
            balance' = [balance EXCEPT ![auction[a].seller] = @ + pay]
    BY <1>5, <1>11
  <1> DEFINE lot == [b \in Auctions |-> Lot(b)]
             offered == [b \in Auctions |-> Offered(b)]
  <1>13. lot[a].status # House!Unlisted
    BY <1>2 DEF Lot, House!Unlisted, Absent
  <1>14. raced' = IF lot[a].status = House!Sold THEN raced \cup {a} ELSE raced
    BY <1>8 DEF Lot, House!Sold, Ended
  <1>15. \E pay \in IF a \in raced' THEN {0} \cup offered[a] ELSE {House!Due(a)} :
            balance' = [balance EXCEPT ![lot[a].seller] = @ + pay]
    BY <1>12 DEF Lot
  <1>16. lot' = [lot EXCEPT ![a].status = House!Sold]
    BY <1>4, ZenonT(60) DEF Lot, House!Sold, Ended
  <1>17. offered' = offered
    BY <1>9 DEF Offered
  <1> QED
    BY <1>13, <1>14, <1>15, <1>16, <1>17 DEF House!Settle, Lot, Offered

LEMMA StepRefines == HouseInv /\ [Next]_vars => [House!HouseNext]_(House!houseVars)
  <1> SUFFICES ASSUME HouseInv, [Next]_vars PROVE [House!HouseNext]_(House!houseVars)
    OBVIOUS
  <1>1. CASE UNCHANGED rowVars
    BY <1>1 DEF rowVars, House!houseVars
  <1>2. CASE \E a \in Auctions, u \in Sellers, p \in Amounts, t \in 0..MaxTime : Create(a, u, p, t)
    BY <1>2, CreateRefines, BiddingAssumption DEF House!HouseNext
  <1>3. CASE \E e \in EditReqs : EditWrite(e)
    <2>1. PICK e \in EditReqs : EditWrite(e)
      BY <1>3
    <2>2. auction \in [Auctions -> Row]
      BY DEF HouseInv, Inv, TypeOK
    <2>3. \A a \in Auctions :
            /\ auction'[a].seller = auction[a].seller /\ auction'[a].price = auction[a].price
            /\ auction'[a].winner = auction[a].winner /\ auction'[a].status = auction[a].status
      BY <2>1, <2>2 DEF EditWrite, Row
    <2>4. bids' = bids /\ balance' = balance /\ raced' = raced
      BY <2>1 DEF EditWrite
    <2> QED
      BY <2>3, <2>4 DEF House!houseVars
  <1>4. CASE \E r \in BidReqs : BidCommit(r)
    <2>1. PICK r \in BidReqs : BidCommit(r)
      BY <1>4
    <2>2. PICK a \in Auctions, u \in Users, m \in Amounts :
            bidReq[r].auction = a /\ bidReq[r].user = u /\ bidReq[r].amount = m
      BY <2>1 DEF BidCommit, HouseInv, Inv, BidHoldsAuction, Request
    <2>3. House!Bid(a, u, m)
      BY <2>1, <2>2, BidRefines
    <2> QED
      BY <2>3 DEF House!HouseNext
  <1>5. CASE \E c \in Closers : CloseCommit(c)
    <2>1. PICK c \in Closers : CloseCommit(c)
      BY <1>5
    <2>2. PICK a \in Auctions : closing[c].id = a
      BY <2>1 DEF CloseCommit, HouseInv, Inv, CloserHoldsAuction, Expired
    <2>3. House!Settle(a)
      BY <2>1, <2>2, CloseRefines
    <2> QED
      BY <2>3 DEF House!HouseNext
  <1> QED
    BY <1>1, <1>2, <1>3, <1>4, <1>5, NextMoney

(* Bidding by transactions implements bidding by atomic exchanges.         *)
THEOREM BiddingImplementsHouse == Spec => ImplementsHouse
  <1>1. Init => HouseInv
    <2>1. Init => HistoryInv /\ PayoutsOffered
      BY DEF Init, HistoryInv, HistoryTop, AbsentRow, PayoutsOffered, Readings
    <2> QED
      BY <2>1, InitInv DEF HouseInv
  <1> QED
    BY <1>1, InitRefines, HouseInvStep, StepRefines, PTL DEF Spec, ImplementsHouse, House!HouseSpec
-----------------------------------------------------------------------------
(* Money: what the ledger of each auction says adds up, user by user, to   *)
(* what balances have gained, and over all users to what auctions hold.    *)

(* What all auctions together have moved to a user.                        *)
Moved(u) == SumFunctionOnSet([a \in Auctions |-> ledger[a][u]], Auctions)

(* A transfer for one auction moves the same money in both books.          *)
LEMMA TransferMoves ==
  ASSUME TypeOK, NEW b \in Auctions, NEW moves \in [Users -> Int], Transfer(b, moves), NEW u \in Users
  PROVE  /\ balance'[u] = balance[u] + moves[u]
         /\ Moved(u)' = Moved(u) + moves[u]
  <1> DEFINE f == [a \in Auctions |-> ledger[a][u]]
             e == [a \in Auctions |-> ledger'[a][u]]
  <1>1. balance'[u] = balance[u] + moves[u]
    BY DEF Transfer
  <1>2. /\ \A a \in Auctions : ledger[a][u] \in Int
        /\ ledger'[b][u] = ledger[b][u] + moves[u]
        /\ \A a \in Auctions \ {b} : ledger'[a] = ledger[a]
    BY DEF TypeOK, Transfer
  <1>3. /\ \A a \in Auctions : f[a] \in Int /\ e[a] \in Int
        /\ \A a \in Auctions : a # b => e[a] = f[a]
        /\ e[b] - f[b] = moves[u]
    BY <1>2
  <1>4. Moved(u) = SumFunctionOnSet(f, Auctions) /\ Moved(u)' = SumFunctionOnSet(e, Auctions)
    BY DEF Moved
  <1>5. IsFiniteSet(Auctions)
    BY BiddingAssumption
  <1> HIDE DEF f, e
  <1>6. SumFunctionOnSet(e, Auctions) = SumFunctionOnSet(f, Auctions) + (e[b] - f[b])
    BY <1>3, <1>5, SumChange
  <1> QED
    BY <1>1, <1>3, <1>4, <1>6

(* What a commit does to balances.                                         *)
LEMMA MovesAreInt ==
  ASSUME Inv
  PROVE  /\ \A r \in BidReqs : BidCommit(r) =>
              /\ bidReq[r].auction \in Auctions
              /\ BidMoves(bidReq[r]) \in [Users -> Int]
         /\ \A c \in Closers : CloseCommit(c) =>
              /\ closing[c].id \in Auctions
              /\ CloseMoves(closing[c]) \in [Users -> Int]
  <1>1. ASSUME NEW r \in BidReqs, BidCommit(r)
        PROVE  bidReq[r].auction \in Auctions /\ BidMoves(bidReq[r]) \in [Users -> Int]
    <2> DEFINE q == bidReq[r]
    <2>1. q \in Request
      BY <1>1 DEF BidCommit, Inv, BidHoldsAuction
    <2>2. q.amount \in Nat /\ q.price \in Nat /\ q.auction \in Auctions
      BY <2>1, PricesAreNat DEF Request
    <2> HIDE DEF q
    <2>3. BidMoves(q) \in [Users -> Int]
      BY <2>2 DEF BidMoves
    <2> QED
      BY <2>2, <2>3 DEF q
  <1>2. ASSUME NEW c \in Closers, CloseCommit(c)
        PROVE  closing[c].id \in Auctions /\ CloseMoves(closing[c]) \in [Users -> Int]
    <2> DEFINE s == closing[c]
    <2>1. s \in Expired
      BY <1>2 DEF CloseCommit, Inv, CloserHoldsAuction
    <2>2. s.price \in Nat /\ s.id \in Auctions
      BY <2>1, PricesAreNat DEF Expired
    <2> HIDE DEF s
    <2>3. CloseMoves(s) \in [Users -> Int]
      BY <2>2 DEF CloseMoves, Payout
    <2> QED
      BY <2>2, <2>3 DEF s
  <1> QED
    BY <1>1, <1>2

(* A balance and what the ledgers say of it move together, at every step.  *)
LEMMA LedgerMoves ==
  ASSUME Inv, [Next]_vars, NEW u \in Users
  PROVE  \E d \in Int : balance'[u] = balance[u] + d /\ Moved(u)' = Moved(u) + d
  <1>0. balance[u] \in Int /\ Moved(u) \in Int
    <2>1. \A a \in Auctions : [b \in Auctions |-> ledger[b][u]][a] \in Int
      BY DEF Inv, TypeOK
    <2> QED
      BY <2>1, SumType, BiddingAssumption DEF Moved, Inv, TypeOK
  <1>1. CASE UNCHANGED <<balance, ledger>>
    <2>1. balance'[u] = balance[u] + 0 /\ Moved(u)' = Moved(u) + 0
      BY <1>0, <1>1 DEF Moved
    <2> QED
      BY <2>1
  <1>2. CASE \E r \in BidReqs : BidCommit(r)
    <2>1. PICK r \in BidReqs : BidCommit(r)
      BY <1>2
    <2> DEFINE moves == BidMoves(bidReq[r])
    <2>2. moves \in [Users -> Int] /\ bidReq[r].auction \in Auctions /\ Transfer(bidReq[r].auction, moves)
      BY <2>1, MovesAreInt DEF BidCommit
    <2> HIDE DEF moves
    <2>3. balance'[u] = balance[u] + moves[u] /\ Moved(u)' = Moved(u) + moves[u]
      BY <2>2, TransferMoves DEF Inv
    <2> QED
      BY <2>2, <2>3
  <1>3. CASE \E c \in Closers : CloseCommit(c)
    <2>1. PICK c \in Closers : CloseCommit(c)
      BY <1>3
    <2> DEFINE moves == CloseMoves(closing[c])
    <2>2. moves \in [Users -> Int] /\ closing[c].id \in Auctions /\ Transfer(closing[c].id, moves)
      BY <2>1, MovesAreInt DEF CloseCommit
    <2> HIDE DEF moves
    <2>3. balance'[u] = balance[u] + moves[u] /\ Moved(u)' = Moved(u) + moves[u]
      BY <2>2, TransferMoves DEF Inv
    <2> QED
      BY <2>2, <2>3
  <1> QED
    BY <1>1, <1>2, <1>3, NextMoney DEF Create, EditWrite, rowVars

(* What the ledgers said of a balance at the start is nothing.             *)
LEMMA LedgerStart == ASSUME Init, NEW u \in Users PROVE Moved(u) = 0
  <1> DEFINE f == [a \in Auctions |-> ledger[a][u]]
  <1>1. \A a \in Auctions : f[a] = 0
    BY DEF Init
  <1> HIDE DEF f
  <1>2. SumFunctionOnSet(f, Auctions) = 0
    BY <1>1, SumZero, BiddingAssumption
  <1> QED
    BY <1>2 DEF Moved, f

(* Sums of balances and of escrows, where one user's or one auction's      *)
(* changes by d.                                                           *)
LEMMA BalancesChange ==
  ASSUME NEW f \in [Users -> Int], NEW e \in [Users -> Int], NEW u \in Users, NEW d \in Int,
         \A v \in Users : e[v] = f[v] + (IF v = u THEN d ELSE 0)
  PROVE  SumFunction(e) = SumFunction(f) + d
  <1>1. IsFiniteSet(Users)
    BY BiddingAssumption
  <1>2. /\ \A v \in Users : f[v] \in Int /\ e[v] \in Int
        /\ \A v \in Users : v # u => e[v] = f[v]
        /\ e[u] - f[u] = d
    OBVIOUS
  <1>3. SumFunctionOnSet(e, Users) = SumFunctionOnSet(f, Users) + (e[u] - f[u])
    BY <1>1, <1>2, SumChange
  <1> QED
    BY <1>2, <1>3 DEF SumFunction

LEMMA HeldIsNat == /\ TypeOK => Held \in [Auctions -> Nat]
                   /\ TypeOK' => Held' \in [Auctions -> Nat]
  <1>1. ASSUME TypeOK PROVE Held \in [Auctions -> Nat]
    <2>1. ASSUME NEW b \in Auctions PROVE auction[b].price \in Nat
      <3>1. auction[b] \in Row
        BY <1>1 DEF TypeOK
      <3> QED
        BY <3>1, PricesAreNat DEF Row
    <2> QED
      BY <2>1 DEF Held, Escrow
  <1>2. ASSUME TypeOK' PROVE Held' \in [Auctions -> Nat]
    <2>1. ASSUME NEW b \in Auctions PROVE auction'[b].price \in Nat
      <3>1. auction'[b] \in Row
        BY <1>2 DEF TypeOK
      <3> QED
        BY <3>1, PricesAreNat DEF Row
    <2> QED
      BY <2>1 DEF Held, Escrow
  <1> QED
    BY <1>1, <1>2

LEMMA HeldChanges ==
  ASSUME Inv, Inv', NEW a \in Auctions, \A b \in Auctions \ {a} : auction'[b] = auction[b]
  PROVE  SumFunction(Held') = SumFunction(Held) + (Held'[a] - Held[a])
  <1>1. Held \in [Auctions -> Int] /\ Held' \in [Auctions -> Int]
    BY HeldIsNat DEF Inv
  <1>2. \A b \in Auctions : b # a => Held'[b] = Held[b]
    BY DEF Held, Escrow
  <1>3. SumFunctionOnSet(Held', Auctions) = SumFunctionOnSet(Held, Auctions) + (Held'[a] - Held[a])
    BY <1>1, <1>2, SumChange, BiddingAssumption
  <1> QED
    BY <1>1, <1>3 DEF SumFunction

(* A bid: the bidder's money goes into escrow, what was there goes back.   *)
LEMMA BidConserves ==
  ASSUME Inv, Inv', NEW r \in BidReqs, BidCommit(r)
  PROVE  SumFunction(balance') + SumFunction(Held') = SumFunction(balance) + SumFunction(Held)
  <1> DEFINE q == bidReq[r]
             a == q.auction
             mid == [u \in Users |-> balance[u] + (IF u = q.user THEN -q.amount ELSE 0)]
             back == IF q.winner = NoOne THEN 0 ELSE q.price
  <1>1. /\ q.auction \in Auctions /\ q.user \in Users /\ q.amount \in Nat /\ q.price \in Nat
        /\ q.winner \in Users \cup {NoOne}
        /\ auction[q.auction].status = Active
        /\ auction[q.auction].price = q.price /\ auction[q.auction].winner = q.winner
    BY PricesAreNat DEF BidCommit, Inv, BidHoldsAuction, Request, Person
  <1>2. balance \in [Users -> Int] /\ balance' \in [Users -> Int] /\ auction \in [Auctions -> Row]
    BY DEF Inv, TypeOK
  <1>3. /\ balance' = [u \in Users |-> balance[u] + BidMoves(q)[u]]
        /\ auction' = [auction EXCEPT ![q.auction].price = q.amount, ![q.auction].winner = q.user]
    BY DEF BidCommit, Transfer
  <1>4. /\ \A b \in Auctions \ {q.auction} : auction'[b] = auction[b]
        /\ auction'[q.auction].status = Active /\ auction'[q.auction].winner = q.user
        /\ auction'[q.auction].price = q.amount
    BY <1>1, <1>2, <1>3 DEF Row
  <1>5. BidMoves(q) = [u \in Users |->
            (IF u = q.winner THEN q.price ELSE 0) - (IF u = q.user THEN q.amount ELSE 0)]
    BY DEF BidMoves
  <1> HIDE DEF q
  <1>6. mid \in [Users -> Int] /\ SumFunction(mid) = SumFunction(balance) - q.amount
    <2>1. mid \in [Users -> Int] /\ -q.amount \in Int
      BY <1>1, <1>2
    <2>2. \A u \in Users : mid[u] = balance[u] + (IF u = q.user THEN -q.amount ELSE 0)
      OBVIOUS
    <2> HIDE DEF mid
    <2>3. SumFunction(mid) = SumFunction(balance) + (-q.amount)
      BY <1>1, <1>2, <2>1, <2>2, BalancesChange
    <2>4. SumFunction(balance) \in Int
      BY <1>2, SumType, BiddingAssumption DEF SumFunction
    <2> QED
      BY <1>1, <2>1, <2>3, <2>4
  <1>7. \A u \in Users : balance'[u] = mid[u] + (IF u = q.winner THEN q.price ELSE 0)
    BY <1>1, <1>2, <1>3, <1>5
  <1> HIDE DEF mid
  <1>8. SumFunction(balance') = SumFunction(mid) + back
    <2>1. CASE q.winner = NoOne
      <3>1. \A u \in Users : balance'[u] = mid[u]
        BY <1>6, <1>7, <2>1, BiddingAssumption
      <3>2. balance' = mid
        BY <1>2, <1>6, <3>1
      <3>3. SumFunction(mid) \in Int
        BY <1>6, SumType, BiddingAssumption DEF SumFunction
      <3> QED
        BY <2>1, <3>2, <3>3
    <2>2. CASE q.winner # NoOne
      <3>1. q.winner \in Users /\ q.price \in Int
        BY <1>1, <2>2
      <3>2. SumFunction(balance') = SumFunction(mid) + q.price
        BY <1>2, <1>6, <1>7, <3>1, BalancesChange
      <3> QED
        BY <2>2, <3>2
    <2> QED
      BY <2>1, <2>2
  <1>9. SumFunction(Held') = SumFunction(Held) + (q.amount - back)
    <2>1. Held[q.auction] = back /\ Held'[q.auction] = q.amount
      BY <1>1, <1>4, BiddingAssumption DEF Held, Escrow
    <2> QED
      BY <1>1, <1>4, <2>1, HeldChanges
  <1>10. SumFunction(balance) \in Int /\ SumFunction(Held) \in Int /\ back \in Int
    <2>1. Held \in [Auctions -> Int]
      BY HeldIsNat DEF Inv
    <2> QED
      BY <1>1, <1>2, <2>1, SumType, BiddingAssumption DEF SumFunction
  <1> HIDE DEF back
  <1> QED
    BY <1>1, <1>6, <1>8, <1>9, <1>10

(* A closing that does not race: what was held goes to the seller.         *)
LEMMA CloseConserves ==
  ASSUME Inv, Inv', NEW c \in Closers, CloseCommit(c), raced' = {}
  PROVE  SumFunction(balance') + SumFunction(Held') = SumFunction(balance) + SumFunction(Held)
  <1> DEFINE s == closing[c]
  <1>1. /\ s.id \in Auctions /\ s.id \notin raced
        /\ auction[s.id].status = Active
        /\ s.price = auction[s.id].price /\ s.winner = auction[s.id].winner
        /\ s.seller \in Users /\ s.price \in Nat
    <2>1. s \in Readings(c) /\ s \in Expired
      BY DEF CloseCommit, Inv, CloserHoldsAuction, Readings
    <2>2. s.id \in Auctions /\ s.price \in Nat
      BY <2>1, PricesAreNat DEF Expired
    <2>3. s.id \notin raced /\ auction[s.id].status # Ended
      BY DEF CloseCommit
    <2>4. /\ auction[s.id].status # Absent /\ s.seller = auction[s.id].seller
          /\ s.price = auction[s.id].price /\ s.winner = auction[s.id].winner
      BY <2>1, <2>3 DEF Inv, ReadingsCurrent
    <2>5. s.seller \in Users
      BY <2>2, <2>4 DEF Inv, RowsSound
    <2>6. auction[s.id].status = Active
      BY <2>2, <2>3, <2>4 DEF Inv, TypeOK, Row, Active, Absent, Ended
    <2> QED
      BY <2>2, <2>3, <2>4, <2>5, <2>6
  <1>2. balance \in [Users -> Int] /\ balance' \in [Users -> Int] /\ auction \in [Auctions -> Row]
    BY DEF Inv, TypeOK
  <1>3. /\ balance' = [u \in Users |-> balance[u] + CloseMoves(s)[u]]
        /\ auction' = [auction EXCEPT ![s.id].status = Ended]
    BY DEF CloseCommit, Transfer
  <1>4. Payout(s) = Held[s.id] /\ Held[s.id] \in Nat
    BY <1>1 DEF Payout, Held, Escrow
  <1>5. \A u \in Users : CloseMoves(s)[u] = IF u = s.seller THEN Payout(s) ELSE 0
    BY DEF CloseMoves
  <1> HIDE DEF s
  <1>6. SumFunction(balance') = SumFunction(balance) + Held[s.id]
    <2>1. \A u \in Users : balance'[u] = balance[u] + (IF u = s.seller THEN Held[s.id] ELSE 0)
      BY <1>2, <1>3, <1>4, <1>5
    <2> DEFINE d == Held[s.id]
    <2>2. d \in Int /\ \A u \in Users : balance'[u] = balance[u] + (IF u = s.seller THEN d ELSE 0)
      BY <1>4, <2>1
    <2> HIDE DEF d
    <2>3. SumFunction(balance') = SumFunction(balance) + d
      BY <1>1, <1>2, <2>2, BalancesChange
    <2> QED
      BY <2>3 DEF d
  <1>7. SumFunction(Held') = SumFunction(Held) + (0 - Held[s.id])
    <2>1. (\A b \in Auctions \ {s.id} : auction'[b] = auction[b]) /\ auction'[s.id].status = Ended
      BY <1>1, <1>2, <1>3 DEF Row
    <2>2. Held'[s.id] = 0
      BY <1>1, <2>1 DEF Held, Active, Ended
    <2> QED
      BY <1>1, <2>1, <2>2, HeldChanges
  <1>8. SumFunction(balance) \in Int /\ SumFunction(Held) \in Int
    <2>1. Held \in [Auctions -> Int]
      BY HeldIsNat DEF Inv
    <2> QED
      BY <1>2, <2>1, SumType, BiddingAssumption DEF SumFunction
  <1> QED
    BY <1>4, <1>6, <1>7, <1>8

LEMMA MoneyStep == ASSUME Inv, Inv', MoneyConserved, [Next]_vars PROVE MoneyConserved'
  <1> SUFFICES ASSUME raced' = {}
               PROVE  SumFunction(balance') + SumFunction(Held') = SumFunction(StartBalance)
    BY DEF MoneyConserved
  <1>0. raced = {} /\ auction \in [Auctions -> Row]
    <2>1. raced \subseteq raced'
      BY NextMoney DEF rowVars, Create, EditWrite, BidCommit, CloseCommit
    <2> QED
      BY <2>1 DEF Inv, TypeOK
  <1>1. CASE \E r \in BidReqs : BidCommit(r)
    BY <1>0, <1>1, BidConserves DEF MoneyConserved
  <1>2. CASE \E c \in Closers : CloseCommit(c)
    BY <1>0, <1>2, CloseConserves DEF MoneyConserved
  <1>3. CASE balance' = balance /\ Held' = Held
    BY <1>0, <1>3 DEF MoneyConserved
  <1>4. CASE UNCHANGED rowVars
    BY <1>3, <1>4 DEF rowVars, Held, Escrow
  <1>5. CASE \E b \in Auctions, u \in Sellers, p \in Amounts, t \in 0..MaxTime : Create(b, u, p, t)
    <2>1. PICK b \in Auctions, u \in Sellers, p \in Amounts, t \in 0..MaxTime : Create(b, u, p, t)
      BY <1>5
    <2>2. /\ auction[b].status = Absent /\ auction'[b].winner = NoOne
          /\ \A a \in Auctions \ {b} : auction'[a] = auction[a]
      BY <1>0, <2>1 DEF Create
    <2>3. \A a \in Auctions : (IF auction'[a].status = Active THEN Escrow(a)' ELSE 0)
                                = IF auction[a].status = Active THEN Escrow(a) ELSE 0
      BY <2>2 DEF Escrow, Active, Absent
    <2> QED
      BY <1>3, <2>1, <2>3 DEF Create, Held
  <1>6. CASE \E e \in EditReqs : EditWrite(e)
    <2>1. PICK e \in EditReqs : EditWrite(e)
      BY <1>6
    <2>2. \A a \in Auctions : /\ auction'[a].status = auction[a].status
                              /\ auction'[a].price = auction[a].price
                              /\ auction'[a].winner = auction[a].winner
      BY <1>0, <2>1 DEF EditWrite, Row
    <2> QED
      BY <1>3, <2>1, <2>2 DEF EditWrite, Held, Escrow
  <1> QED
    BY <1>1, <1>2, <1>4, <1>5, <1>6, NextMoney

(* Whatever bids, rollbacks and closings interleave, money is neither made *)
(* nor lost as long as no closing has raced.                               *)
THEOREM MoneyIsConserved == Spec => []MoneyConserved
  <1>1. Init => MoneyConserved
    <2> SUFFICES ASSUME Init PROVE SumFunction(balance) + SumFunction(Held) = SumFunction(StartBalance)
      BY DEF MoneyConserved
    <2>1. balance = StartBalance /\ Held = [a \in Auctions |-> 0]
      BY DEF Init, Held, Escrow, AbsentRow
    <2>2. SumFunction(Held) = 0
      <3> DEFINE z == [a \in Auctions |-> 0]
      <3>1. \A a \in Auctions : z[a] = 0
        OBVIOUS
      <3> HIDE DEF z
      <3>2. SumFunctionOnSet(z, Auctions) = 0
        BY <3>1, SumZero, BiddingAssumption
      <3> QED
        BY <2>1, <3>2 DEF SumFunction, z
    <2>3. SumFunction(StartBalance) \in Int
      BY SumType, BiddingAssumption DEF SumFunction
    <2> QED
      BY <2>1, <2>2, <2>3
  <1>2. Inv /\ Inv' /\ MoneyConserved /\ [Next]_vars => MoneyConserved'
    BY MoneyStep
  <1> QED
    BY <1>1, <1>2, Invariance, PTL DEF Spec
=============================================================================
