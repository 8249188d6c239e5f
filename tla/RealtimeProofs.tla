---------------------------- MODULE RealtimeProofs ----------------------------
(***************************************************************************)
(* Proofs about modules Catalogue and Realtime, for any number of          *)
(* auctions, requests, pages of the list and messages on their way.        *)
(*                                                                         *)
(* Of the catalogue: what is in the table and in the cache has its type,   *)
(* every request that has passed its first query has its auction, and in   *)
(* which steps the cache may come to hold what is no longer true.          *)
(*                                                                         *)
(* Of the page: it shows nothing that has not been committed, and ends up  *)
(* with the auction as it is unless one of the things has happened that    *)
(* "spoiled" stands for.                                                   *)
(***************************************************************************)
EXTENDS Realtime, FiniteSetTheorems, TLAPS

(* Requests at these points have found their auction in the table.         *)
Found == {"set", "answer", "write", "end", "feed", "cast", "del", "scan", "dellist", "get"}

(* No row is ever deleted, so what a request has found stays: no update of *)
(* a later step can be of a row that is not there.                         *)
Exists ==
    /\ \A r \in Requests : req[r].pc \in Found => req[r].id \in Auctions /\ row[req[r].id].status # 0
    /\ \A r \in Requests : req[r].pc \in {"set", "answer", "end", "feed", "cast"} => req[r].val \in Row
    /\ \A a \in Auctions : detail[a] # None => row[a].status # 0

Inv == TypeOK /\ Exists
-----------------------------------------------------------------------------
(* What a step of a request is: the request moves, and no other.           *)
LEMMA GotoFacts ==
    ASSUME NEW r \in Requests, NEW q \in Request, TypeOK, Goto(r, q)
    PROVE  /\ req' \in [Requests -> Request]
           /\ req'[r] = q
           /\ \A x \in Requests : x # r => req'[x] = req[x]
  BY DEF TypeOK, Goto

LEMMA IdleIsRequest == Idle \in Request
<1>1. NoList \in Listing
  <2>1. Cardinality(Auctions) \in Nat
    BY CatalogueAssumption, FS_CardinalityType
  <2>. QED  BY <2>1 DEF NoList, Listing
<1>. QED  BY <1>1 DEF Idle, Request, Ops, Pcs

(* The count of the active auctions is never more than the auctions.       *)
LEMMA CountBounded == CountActiveAuctions \in 0..Cardinality(Auctions)
<1>. DEFINE A == {a \in Auctions : row[a].status = 1}
<1>1. A \subseteq Auctions
  OBVIOUS
<1>2. /\ IsFiniteSet(A) /\ Cardinality(A) <= Cardinality(Auctions)
  BY <1>1, CatalogueAssumption, FS_Subset
<1>3. Cardinality(A) \in Nat /\ Cardinality(Auctions) \in Nat
  BY <1>2, CatalogueAssumption, FS_CardinalityType
<1>. QED  BY <1>2, <1>3 DEF CountActiveAuctions

LEMMA RowFacts ==
    ASSUME NEW x \in Row \cup {Absent}
    PROVE  /\ x.status \in 0..2 /\ x.price \in 0..MaxPrice /\ x.text \in 0..MaxText
           /\ x = [status |-> x.status, price |-> x.price, text |-> x.text]
           /\ x.status = 0 <=> x = Absent
           /\ x.status # 0 => x \in Row
  BY CatalogueAssumption DEF Row, Absent

LEMMA RowUpdates ==
    ASSUME NEW x \in Row \cup {Absent}, x.status # 0
    PROVE  /\ x.text < MaxText => [x EXCEPT !.text = @ + 1] \in Row
           /\ x.price < MaxPrice => [x EXCEPT !.price = @ + 1] \in Row
           /\ [x EXCEPT !.status = 2] \in Row
<1>1. x \in Row
  BY RowFacts
<1>. QED  BY <1>1, CatalogueAssumption DEF Row

LEMMA NewIsRow == New \in Row
  BY CatalogueAssumption DEF New, Absent, Row
-----------------------------------------------------------------------------
LEMMA InitInv == Init => Inv
<1>. SUFFICES ASSUME Init PROVE Inv
  OBVIOUS
<1>1. row \in [Auctions -> Row \cup {Absent}]
  BY NewIsRow DEF Init
<1>2. TypeOK
  BY <1>1, IdleIsRequest DEF Init, TypeOK
<1>3. Exists
  BY DEF Init, Exists, Found, Idle
<1>. QED  BY <1>2, <1>3 DEF Inv
-----------------------------------------------------------------------------
(* What there is to show of a step of request r, which becomes q.          *)
LEMMA StepKeeps ==
    ASSUME Inv,
           NEW r \in Requests, NEW q \in Request, Goto(r, q),
           row' \in [Auctions -> Row \cup {Absent}],
           detail' \in [Auctions -> Row \cup {None}],
           lists' \in [Keys -> Listing \cup {None}],
           \A a \in Auctions : row[a].status # 0 => row'[a].status # 0,
           \A a \in Auctions : detail'[a] # None => row'[a].status # 0,
           q.pc \in Found => q.id \in Auctions /\ row'[q.id].status # 0,
           q.pc \in {"set", "answer", "end", "feed", "cast"} => q.val \in Row
    PROVE  Inv'
<1>. USE DEF Inv
<1>1. /\ req' \in [Requests -> Request]
      /\ req'[r] = q
      /\ \A x \in Requests : x # r => req'[x] = req[x]
  BY GotoFacts
<1>2. TypeOK'
  BY <1>1 DEF TypeOK
<1>3. ASSUME NEW x \in Requests, req'[x].pc \in Found
      PROVE  req'[x].id \in Auctions /\ row'[req'[x].id].status # 0
  BY <1>1, <1>3 DEF Exists
<1>4. ASSUME NEW x \in Requests, req'[x].pc \in {"set", "answer", "end", "feed", "cast"}
      PROVE  req'[x].val \in Row
  BY <1>1, <1>4 DEF Exists
<1>. QED  BY <1>2, <1>3, <1>4 DEF Exists

(* The same, when no row changes.                                          *)
LEMMA ReadKeeps ==
    ASSUME Inv,
           NEW r \in Requests, NEW q \in Request, Goto(r, q),
           UNCHANGED row,
           detail' \in [Auctions -> Row \cup {None}],
           lists' \in [Keys -> Listing \cup {None}],
           \A a \in Auctions : detail'[a] # None => row[a].status # 0,
           q.pc \in Found => q.id \in Auctions /\ row[q.id].status # 0,
           q.pc \in {"set", "answer", "end", "feed", "cast"} => q.val \in Row
    PROVE  Inv'
<1>1. row' \in [Auctions -> Row \cup {Absent}]
  BY DEF Inv, TypeOK
<1>. QED  BY <1>1, StepKeeps

(* The same, when nothing but the request changes.                         *)
LEMMA MoveKeeps ==
    ASSUME Inv,
           NEW r \in Requests, NEW q \in Request, Goto(r, q),
           UNCHANGED <<row, detail, lists>>,
           q.pc \in Found => q.id \in Auctions /\ row[q.id].status # 0,
           q.pc \in {"set", "answer", "end", "feed", "cast"} => q.val \in Row
    PROVE  Inv'
<1>1. /\ detail' \in [Auctions -> Row \cup {None}]
      /\ lists' \in [Keys -> Listing \cup {None}]
      /\ \A a \in Auctions : detail'[a] # None => row[a].status # 0
  BY DEF Inv, TypeOK, Exists
<1>. QED  BY <1>1, ReadKeeps

(* GetByID, of an auction of which something is known already to exist or  *)
(* that is looked up now.                                                  *)
LEMMA GetByIDKeeps ==
    ASSUME Inv, NEW r \in Requests, NEW q \in Request, q.id \in Auctions,
           NEW hit \in {"answer", "feed"}, GetByID(r, q, hit), UNCHANGED <<row, detail, lists>>
    PROVE  Inv'
<1>. USE DEF Inv
<1>1. CASE /\ detail[q.id] # None
           /\ Goto(r, [q EXCEPT !.pc = hit, !.val = detail[q.id]])
  <2>. DEFINE p == [q EXCEPT !.pc = hit, !.val = detail[q.id]]
  <2>1. detail[q.id] \in Row
    BY <1>1 DEF TypeOK
  <2>2. p \in Request /\ p.id = q.id /\ p.val \in Row
    BY <2>1 DEF Request, Pcs
  <2>3. row[q.id].status # 0
    BY <1>1 DEF Exists
  <2>. HIDE DEF p
  <2>. QED  BY <1>1, <2>2, <2>3, MoveKeeps DEF p
<1>2. CASE /\ GetAuctionByID(q.id).status # 0
           /\ Goto(r, [q EXCEPT !.pc = "set", !.val = GetAuctionByID(q.id)])
  <2>. DEFINE p == [q EXCEPT !.pc = "set", !.val = row[q.id]]
  <2>1. row[q.id] \in Row /\ row[q.id].status # 0
    BY <1>2, RowFacts DEF TypeOK, GetAuctionByID
  <2>2. p \in Request /\ p.id = q.id /\ p.val \in Row
    BY <2>1 DEF Request, Pcs
  <2>3. Goto(r, p)
    BY <1>2 DEF GetAuctionByID
  <2>. HIDE DEF p
  <2>. QED  BY <2>1, <2>2, <2>3, MoveKeeps
<1>. QED  BY <1>1, <1>2 DEF GetByID
-----------------------------------------------------------------------------
(* Every step keeps the invariant: the steps of a request, by its point.   *)
LEMMA BeginKeeps ==
    ASSUME Inv, NEW r \in Requests, NEW a \in Auctions, NEW op \in Ops, NEW pc \in {"write", "scan"},
           Begin(r, op, pc, a), UNCHANGED <<detail, lists>>,
           row' \in [Auctions -> Row \cup {Absent}],
           \A x \in Auctions : row[x].status # 0 => row'[x].status # 0,
           row'[a].status # 0
    PROVE  Inv'
<1>. DEFINE q == [Idle EXCEPT !.op = op, !.pc = pc, !.id = a]
<1>1. q \in Request /\ q.id = a /\ q.pc = pc
  BY IdleIsRequest DEF Request, Pcs
<1>2. Goto(r, q)
  BY DEF Begin
<1>3. /\ detail' \in [Auctions -> Row \cup {None}]
      /\ lists' \in [Keys -> Listing \cup {None}]
      /\ \A x \in Auctions : detail'[x] # None => row'[x].status # 0
  BY DEF Inv, TypeOK, Exists
<1>. HIDE DEF q
<1>. QED  BY <1>1, <1>2, <1>3, StepKeeps

LEMMA BeginsKeeps == ASSUME Inv, NEW r \in Requests, Begins(r) PROVE Inv'
<1>. USE DEF Inv
<1>1. ASSUME NEW a \in Auctions, ReadDetail(r, a) PROVE Inv'
  <2>. DEFINE q == [Idle EXCEPT !.id = a]
  <2>1. q \in Request /\ q.id = a
    BY IdleIsRequest DEF Request
  <2>2. GetByID(r, q, "answer") /\ UNCHANGED <<row, detail, lists>>
    BY <1>1 DEF ReadDetail
  <2>. HIDE DEF q
  <2>. QED  BY <2>1, <2>2, GetByIDKeeps
<1>2. ASSUME NEW a \in Auctions, Bid(r, a) PROVE Inv'
  <2>1. row[a].price < MaxPrice /\ row[a].status = 1 /\ UNCHANGED <<detail, lists>>
    BY <1>2 DEF Bid
  <2>2. [row[a] EXCEPT !.price = @ + 1] \in Row
    <3>1. row[a] \in Row \cup {Absent} /\ row[a].status # 0
      BY <2>1 DEF TypeOK
    <3>. HIDE DEF Inv
    <3>. QED  BY <3>1, <2>1, RowUpdates
  <2>3. row' = [row EXCEPT ![a] = [row[a] EXCEPT !.price = @ + 1]]
    BY <1>2 DEF Bid, UpdateAuctionBid
  <2>4. row' \in [Auctions -> Row \cup {Absent}] /\ row'[a] \in Row
    BY <2>2, <2>3 DEF TypeOK
  <2>5. \A x \in Auctions : row[x].status # 0 => row'[x].status # 0
    BY <2>2, <2>3, RowFacts DEF TypeOK, Row
  <2>. DEFINE q == [Idle EXCEPT !.op = "bid", !.pc = "cast", !.id = a, !.val = row'[a]]
  <2>6. q \in Request /\ q.id = a /\ q.val \in Row
    BY <2>4, IdleIsRequest DEF Request, Ops, Pcs
  <2>7. Goto(r, q)
    BY <1>2 DEF Bid
  <2>8. row'[a].status # 0
    BY <2>4 DEF Row
  <2>9. /\ detail' \in [Auctions -> Row \cup {None}]
        /\ lists' \in [Keys -> Listing \cup {None}]
        /\ \A x \in Auctions : detail'[x] # None => row'[x].status # 0
    BY <2>1, <2>5 DEF TypeOK, Exists
  <2>. HIDE DEF q
  <2>. QED  BY <2>4, <2>5, <2>6, <2>7, <2>8, <2>9, StepKeeps
<1>3. ASSUME NEW a \in Auctions, EditCheck(r, a) PROVE Inv'
  BY <1>3, BeginKeeps DEF EditCheck, TypeOK, Ops
<1>4. ASSUME NEW a \in Auctions, Create(r, a) PROVE Inv'
  <2>1. row' = [row EXCEPT ![a] = New] /\ row[a] = Absent
    BY <1>4 DEF Create, CreateAuction
  <2>2. row' \in [Auctions -> Row \cup {Absent}]
    BY <2>1, NewIsRow DEF TypeOK
  <2>3. New.status # 0
    BY DEF New, Absent
  <2>. QED  BY <1>4, <2>1, <2>2, <2>3, BeginKeeps DEF Create, TypeOK, Ops
<1>5. ASSUME NEW a \in Auctions, CloseScan(r, a) PROVE Inv'
  <2>. DEFINE q == [Idle EXCEPT !.op = "close", !.pc = "end", !.id = a, !.val = [row[a] EXCEPT !.status = 2]]
  <2>1. Goto(r, q) /\ row[a].status # 0 /\ UNCHANGED <<row, detail, lists>>
    BY <1>5 DEF CloseScan
  <2>2. [row[a] EXCEPT !.status = 2] \in Row
    BY <2>1, RowUpdates DEF TypeOK
  <2>3. q \in Request /\ q.id = a /\ q.val \in Row
    BY <2>2, IdleIsRequest DEF Request, Ops, Pcs
  <2>. HIDE DEF q
  <2>. QED  BY <2>1, <2>3, MoveKeeps
<1>6. ASSUME NEW k \in Keys, ReadList(r, k) PROVE Inv'
  <2>. DEFINE q == [Idle EXCEPT !.op = "list", !.pc = "count", !.keys = {k}, !.listing.rows = ListActiveAuctions]
  <2>1. Goto(r, q) /\ UNCHANGED <<row, detail, lists>>
    BY <1>6 DEF ReadList
  <2>2. ListActiveAuctions \in SUBSET Listed /\ Idle.listing \in Listing
    BY IdleIsRequest DEF ListActiveAuctions, Request
  <2>3. [Idle.listing EXCEPT !.rows = ListActiveAuctions] \in Listing
    BY <2>2 DEF Listing
  <2>4. q \in Request /\ q.pc = "count"
    BY <2>3, IdleIsRequest DEF Request, Ops, Pcs
  <2>. HIDE DEF q
  <2>. QED  BY <2>1, <2>4, MoveKeeps DEF Found
<1>. QED  BY <1>1, <1>2, <1>3, <1>4, <1>5, <1>6 DEF Begins

(* A request only goes on to another point.                                *)
LEMMA StepIsRequest ==
    ASSUME TypeOK, NEW r \in Requests, NEW pc \in Pcs
    PROVE  /\ Step(r, pc) \in Request
           /\ Step(r, pc) = [req[r] EXCEPT !.pc = pc]
           /\ Step(r, pc).pc = pc
           /\ Step(r, pc).id = req[r].id
           /\ Step(r, pc).op = req[r].op
           /\ Step(r, pc).val = req[r].val
           /\ Step(r, pc).keys = req[r].keys
           /\ Step(r, pc).listing = req[r].listing
  BY DEF TypeOK, Request, Step

LEMMA WorksKeeps == ASSUME Inv, NEW r \in Requests, Works(r) PROVE Inv'
<1>. USE DEF Inv
<1>0. /\ req[r] \in Request
      /\ detail \in [Auctions -> Row \cup {None}]
      /\ lists \in [Keys -> Listing \cup {None}]
      /\ \A a \in Auctions : detail[a] # None => row[a].status # 0
      /\ req[r].pc \in Found => req[r].id \in Auctions /\ row[req[r].id].status # 0
      /\ req[r].pc \in {"set", "answer", "end", "feed", "cast"} => req[r].val \in Row
  BY DEF TypeOK, Exists
<1>1. ASSUME FillDetail(r) PROVE Inv'
  <2>1. Answering(r) \in Pcs /\ Answering(r) \in {"answer", "feed"}
    BY DEF Answering, Pcs
  <2>2. /\ At(r, "set") /\ Goto(r, Step(r, Answering(r))) /\ UNCHANGED <<row, lists>>
        /\ \/ detail' = [detail EXCEPT ![req[r].id] = req[r].val]
           \/ UNCHANGED detail
    BY <1>1 DEF FillDetail, CacheSet
  <2>3. req[r].pc = "set" /\ req[r].id \in Auctions /\ row[req[r].id].status # 0 /\ req[r].val \in Row
    BY <1>0, <2>2 DEF At, Found
  <2>4. /\ detail' \in [Auctions -> Row \cup {None}]
        /\ \A a \in Auctions : detail'[a] # None => row[a].status # 0
    BY <1>0, <2>2, <2>3
  <2>. QED  BY <1>0, <2>1, <2>2, <2>3, <2>4, StepIsRequest, ReadKeeps
<1>2. ASSUME CountList(r) PROVE Inv'
  <2>. DEFINE q == [Step(r, "setlist") EXCEPT !.listing.count = CountActiveAuctions]
  <2>1. Step(r, "setlist") \in Request /\ Step(r, "setlist").pc = "setlist"
    BY StepIsRequest DEF Pcs
  <2>2. [Step(r, "setlist").listing EXCEPT !.count = CountActiveAuctions] \in Listing
    BY <2>1, CountBounded DEF Request, Listing
  <2>3. q \in Request /\ q.pc = "setlist"
    BY <2>1, <2>2 DEF Request
  <2>4. Goto(r, q) /\ UNCHANGED <<row, detail, lists>>
    BY <1>2 DEF CountList
  <2>. HIDE DEF q
  <2>. QED  BY <2>3, <2>4, MoveKeeps DEF Found
<1>3. ASSUME FillList(r) PROVE Inv'
  <2>1. /\ Goto(r, Idle) /\ UNCHANGED <<row, detail>>
        /\ \E k \in Keys : lists' = [lists EXCEPT ![k] = req[r].listing] \/ UNCHANGED lists
    BY <1>0, <1>3 DEF FillList, CacheSetList, Request
  <2>2. lists' \in [Keys -> Listing \cup {None}]
    BY <1>0, <2>1 DEF Request
  <2>3. Idle.pc = "idle"
    BY DEF Idle
  <2>. QED  BY <1>0, <2>1, <2>2, <2>3, IdleIsRequest, ReadKeeps DEF Found
<1>4. ASSUME EditWrite(r) PROVE Inv'
  <2>1. /\ At(r, "write") /\ row[req[r].id].text < MaxText
        /\ row' = [row EXCEPT ![req[r].id] = [row[req[r].id] EXCEPT !.text = @ + 1]]
        /\ Goto(r, Step(r, "del")) /\ UNCHANGED <<detail, lists>>
    BY <1>4 DEF EditWrite, UpdateAuction
  <2>2. req[r].id \in Auctions /\ row[req[r].id].status # 0
    BY <1>0, <2>1 DEF At, Found
  <2>3. [row[req[r].id] EXCEPT !.text = @ + 1] \in Row
    <3>1. row[req[r].id] \in Row \cup {Absent}
      BY <2>2 DEF TypeOK
    <3>. HIDE DEF Inv
    <3>. QED  BY <3>1, <2>1, <2>2, RowUpdates
  <2>4. /\ row' \in [Auctions -> Row \cup {Absent}]
        /\ \A x \in Auctions : row[x].status # 0 => row'[x].status # 0
    BY <2>1, <2>2, <2>3 DEF TypeOK, Row
  <2>5. \A a \in Auctions : detail'[a] # None => row'[a].status # 0
    BY <1>0, <2>1, <2>4
  <2>6. /\ Step(r, "del") \in Request /\ Step(r, "del").pc = "del"
        /\ Step(r, "del").id = req[r].id
    BY StepIsRequest DEF Pcs
  <2>. QED  BY <1>0, <2>1, <2>2, <2>4, <2>5, <2>6, StepKeeps
<1>5. ASSUME CloseCommit(r) PROVE Inv'
  <2>1. /\ At(r, "end")
        /\ row' = [row EXCEPT ![req[r].id] = [row[req[r].id] EXCEPT !.status = 2]]
        /\ Goto(r, Step(r, "cast")) /\ UNCHANGED <<detail, lists>>
    BY <1>5 DEF CloseCommit, CloseAuctionByID
  <2>2. req[r].id \in Auctions /\ row[req[r].id].status # 0 /\ req[r].val \in Row
    BY <1>0, <2>1 DEF At, Found
  <2>3. [row[req[r].id] EXCEPT !.status = 2] \in Row
    <3>1. row[req[r].id] \in Row \cup {Absent}
      BY <2>2 DEF TypeOK
    <3>. HIDE DEF Inv
    <3>. QED  BY <3>1, <2>2, RowUpdates
  <2>4. /\ row' \in [Auctions -> Row \cup {Absent}]
        /\ \A x \in Auctions : row[x].status # 0 => row'[x].status # 0
    BY <2>1, <2>2, <2>3 DEF TypeOK, Row
  <2>5. \A a \in Auctions : detail'[a] # None => row'[a].status # 0
    BY <1>0, <2>1, <2>4
  <2>6. /\ Step(r, "cast") \in Request /\ Step(r, "cast").pc = "cast"
        /\ Step(r, "cast").id = req[r].id /\ Step(r, "cast").val = req[r].val
    BY StepIsRequest DEF Pcs
  <2>. QED  BY <1>0, <2>1, <2>2, <2>4, <2>5, <2>6, StepKeeps
<1>6. ASSUME Invalidate(r) PROVE Inv'
  <2>1. /\ At(r, "del") /\ Goto(r, Step(r, "scan")) /\ UNCHANGED <<row, lists>>
        /\ detail' = [detail EXCEPT ![req[r].id] = None] \/ UNCHANGED detail
    BY <1>6 DEF Invalidate, CacheDel
  <2>2. req[r].id \in Auctions /\ row[req[r].id].status # 0
    BY <1>0, <2>1 DEF At, Found
  <2>3. /\ detail' \in [Auctions -> Row \cup {None}]
        /\ \A a \in Auctions : detail'[a] # None => row[a].status # 0
    BY <1>0, <2>1, <2>2
  <2>4. /\ Step(r, "scan") \in Request /\ Step(r, "scan").pc = "scan"
        /\ Step(r, "scan").id = req[r].id
    BY StepIsRequest DEF Pcs
  <2>. QED  BY <1>0, <2>1, <2>2, <2>3, <2>4, ReadKeeps
<1>7. ASSUME ScanLists(r) PROVE Inv'
  <2>. DEFINE q == [Step(r, "dellist") EXCEPT !.keys = CacheScan]
  <2>1. /\ At(r, "scan") /\ Goto(r, q) /\ UNCHANGED <<row, detail, lists>>
    BY <1>7 DEF ScanLists
  <2>2. /\ Step(r, "dellist") \in Request /\ Step(r, "dellist").pc = "dellist"
        /\ Step(r, "dellist").id = req[r].id
    BY StepIsRequest DEF Pcs
  <2>3. q \in Request /\ q.pc = "dellist" /\ q.id = req[r].id
    BY <2>2 DEF Request, CacheScan
  <2>4. req[r].id \in Auctions /\ row[req[r].id].status # 0
    BY <1>0, <2>1 DEF At, Found
  <2>. HIDE DEF q
  <2>. QED  BY <2>1, <2>3, <2>4, MoveKeeps
<1>8. ASSUME DelLists(r) PROVE Inv'
  <2>. DEFINE p == [Step(r, "get") EXCEPT !.keys = {}]
  <2>. DEFINE q == IF req[r].op = "bid" THEN Idle ELSE p
  <2>1. /\ At(r, "dellist") /\ Goto(r, q) /\ UNCHANGED <<row, detail>>
        /\ \/ lists' = [k \in Keys |-> IF k \in req[r].keys THEN None ELSE lists[k]]
           \/ UNCHANGED lists
    BY <1>8 DEF DelLists, CacheDelKeys
  <2>2. /\ Step(r, "get") \in Request /\ Step(r, "get").pc = "get"
        /\ Step(r, "get").id = req[r].id
    BY StepIsRequest DEF Pcs
  <2>3. p \in Request /\ p.pc = "get" /\ p.id = req[r].id
    BY <2>2 DEF Request
  <2>4. req[r].id \in Auctions /\ row[req[r].id].status # 0
    BY <1>0, <2>1 DEF At, Found
  <2>5. Idle.pc = "idle"
    BY DEF Idle
  <2>6. /\ q \in Request
        /\ q.pc \in Found => q.id \in Auctions /\ row[q.id].status # 0
        /\ q.pc \notin {"set", "answer", "end", "feed", "cast"}
    <3>. HIDE DEF p
    <3>. QED  BY <2>3, <2>4, <2>5, IdleIsRequest DEF Found
  <2>7. lists' \in [Keys -> Listing \cup {None}]
    BY <1>0, <2>1
  <2>. HIDE DEF q
  <2>. QED  BY <1>0, <2>1, <2>6, <2>7, ReadKeeps
<1>9. ASSUME ReadBack(r) PROVE Inv'
  <2>1. At(r, "get") /\ GetByID(r, req[r], "feed") /\ UNCHANGED <<row, detail, lists>>
    BY <1>9 DEF ReadBack
  <2>2. req[r].id \in Auctions
    BY <1>0, <2>1 DEF At, Found
  <2>. QED  BY <1>0, <2>1, <2>2, GetByIDKeeps
<1>. QED  BY <1>1, <1>2, <1>3, <1>4, <1>5, <1>6, <1>7, <1>8, <1>9 DEF Works

LEMMA CastKeeps == ASSUME Inv, NEW r \in Requests, Cast(r) PROVE Inv'
<1>. USE DEF Inv
<1>. DEFINE q == IF req[r].op = "bid" THEN Step(r, "del") ELSE Idle
<1>1. At(r, "cast") /\ Goto(r, q) /\ UNCHANGED <<row, detail, lists>>
  BY DEF Cast
<1>2. req[r].id \in Auctions /\ row[req[r].id].status # 0
  BY <1>1 DEF Exists, At, Found
<1>3. /\ Step(r, "del") \in Request /\ Step(r, "del").pc = "del"
      /\ Step(r, "del").id = req[r].id
  BY StepIsRequest DEF Pcs
<1>4. Idle.pc = "idle"
  BY DEF Idle
<1>5. /\ q \in Request
      /\ q.pc \in Found => q.id \in Auctions /\ row[q.id].status # 0
      /\ q.pc \notin {"set", "answer", "end", "feed", "cast"}
  BY <1>2, <1>3, <1>4, IdleIsRequest DEF Found
<1>. HIDE DEF q
<1>. QED  BY <1>1, <1>5, MoveKeeps

LEMMA CastFeedKeeps == ASSUME Inv, NEW r \in Requests, CastFeed(r) PROVE Inv'
<1>. USE DEF Inv
<1>. DEFINE q == IF req[r].op = "edit" THEN Step(r, "cast") ELSE Idle
<1>1. At(r, "feed") /\ Goto(r, q) /\ UNCHANGED <<row, detail, lists>>
  BY DEF CastFeed
<1>2. req[r].id \in Auctions /\ row[req[r].id].status # 0 /\ req[r].val \in Row
  BY <1>1 DEF Exists, At, Found
<1>3. /\ Step(r, "cast") \in Request /\ Step(r, "cast").pc = "cast"
      /\ Step(r, "cast").id = req[r].id /\ Step(r, "cast").val = req[r].val
  BY StepIsRequest DEF Pcs
<1>4. Idle.pc = "idle"
  BY DEF Idle
<1>5. /\ q \in Request
      /\ q.pc \in Found => q.id \in Auctions /\ row[q.id].status # 0
      /\ q.pc \in {"set", "answer", "end", "feed", "cast"} => q.val \in Row
  BY <1>2, <1>3, <1>4, IdleIsRequest DEF Found
<1>. HIDE DEF q
<1>. QED  BY <1>1, <1>5, MoveKeeps

LEMMA EndKeeps == ASSUME Inv, NEW r \in Requests, Answer(r) \/ Abort(r) PROVE Inv'
<1>1. Goto(r, Idle) /\ UNCHANGED <<row, detail, lists>>
  BY DEF Answer, Abort
<1>2. Idle.pc = "idle"
  BY DEF Idle
<1>. QED  BY <1>1, <1>2, IdleIsRequest, MoveKeeps DEF Found

LEMMA ExpiresKeeps == ASSUME Inv, Expires PROVE Inv'
<1>. USE DEF Inv
<1>1. ASSUME NEW a \in Auctions, ExpireDetail(a) PROVE Inv'
  <2>1. detail' \in [Auctions -> Row \cup {None}]
    BY <1>1 DEF ExpireDetail, TypeOK
  <2>2. \A x \in Auctions : detail'[x] # None => row[x].status # 0
    BY <1>1 DEF ExpireDetail, TypeOK, Exists
  <2>. QED  BY <1>1, <2>1, <2>2 DEF ExpireDetail, TypeOK, Exists
<1>2. ASSUME NEW k \in Keys, ExpireList(k) PROVE Inv'
  BY <1>2 DEF ExpireList, TypeOK, Exists
<1>. QED  BY <1>1, <1>2 DEF Expires

LEMMA NextInv == Inv /\ [Next]_vars => Inv'
<1>. SUFFICES ASSUME Inv, [Next]_vars PROVE Inv'
  OBVIOUS
<1>1. ASSUME NEW r \in Requests,
             Begins(r) \/ Works(r) \/ CastFeed(r) \/ Cast(r) \/ Answer(r) \/ Abort(r)
      PROVE  Inv'
  BY <1>1, BeginsKeeps, WorksKeeps, CastFeedKeeps, CastKeeps, EndKeeps
<1>2. CASE Expires
  BY <1>2, ExpiresKeeps
<1>3. CASE UNCHANGED vars
  BY <1>3 DEF vars, Inv, TypeOK, Exists
<1>. QED  BY <1>1, <1>2, <1>3 DEF Next

LEMMA SpecInv == Spec => []Inv
<1>. QED  BY InitInv, NextInv, PTL DEF Spec
-----------------------------------------------------------------------------
(* A request that is at one of these points is going to delete the entry   *)
(* of its auction, or that of page k of the list.                          *)
Announced(q)      == q.pc = "del" \/ (q.pc = "cast" /\ q.op = "bid")
AnnouncedOf(q, k) == Announced(q) \/ q.pc = "scan" \/ (q.pc = "dellist" /\ k \in q.keys)

(* It stays so while others move, and while it comes nearer.               *)
LEMMA StaysInvalidating ==
    ASSUME TypeOK, NEW a, Invalidating(a), NEW r \in Requests, NEW q, Goto(r, q),
           Announced(req[r]) => Announced(q) /\ q.id = req[r].id
    PROVE  Invalidating(a)'
<1>1. req'[r] = q /\ \A x \in Requests : x # r => req'[x] = req[x]
  BY DEF Goto, TypeOK
<1>2. PICK x \in Requests : req[x].id = a /\ Announced(req[x])
  BY DEF Invalidating, Announced
<1>3. req'[x].id = a /\ Announced(req'[x])
  BY <1>1, <1>2
<1>. QED  BY <1>3 DEF Invalidating, Announced

LEMMA StaysListInvalidating ==
    ASSUME TypeOK, NEW k, ListInvalidating(k), NEW r \in Requests, NEW q, Goto(r, q),
           AnnouncedOf(req[r], k) => AnnouncedOf(q, k)
    PROVE  ListInvalidating(k)'
<1>1. req'[r] = q /\ \A x \in Requests : x # r => req'[x] = req[x]
  BY DEF Goto, TypeOK
<1>2. PICK x \in Requests : AnnouncedOf(req[x], k)
  BY DEF ListInvalidating, Announced, AnnouncedOf
<1>3. AnnouncedOf(req'[x], k)
  BY <1>1, <1>2
<1>. QED  BY <1>3 DEF ListInvalidating, Announced, AnnouncedOf

LEMMA StaysCurrent ==
    ASSUME TypeOK, NEW a, Current(a), NEW r \in Requests, NEW q, Goto(r, q),
           Announced(req[r]) => Announced(q) /\ q.id = req[r].id,
           detail'[a] = detail[a], row'[a] = row[a]
    PROVE  Current(a)'
<1>1. Invalidating(a) => Invalidating(a)'
  BY StaysInvalidating
<1>. QED  BY <1>1 DEF Current

LEMMA NowInvalidating ==
    ASSUME TypeOK, NEW a, NEW r \in Requests, NEW q, Goto(r, q), Announced(q), q.id = a
    PROVE  Current(a)'
<1>1. req'[r] = q
  BY DEF Goto, TypeOK
<1>. QED  BY <1>1 DEF Current, Invalidating, Announced

(* The entry of an auction is kept true in every step but those that are   *)
(* named in Outdates.                                                      *)
LEMMA DetailBegins ==
    ASSUME Inv, NEW a \in Auctions, Current(a), NEW r \in Requests, Begins(r)
    PROVE  Current(a)'
<1>. USE DEF Inv
<1>0. row \in [Auctions -> Row \cup {Absent}]
  BY DEF TypeOK
<1>1. ASSUME NEW b \in Auctions, ReadDetail(r, b) PROVE Current(a)'
  <2>1. /\ req[r].pc = "idle" /\ UNCHANGED <<row, detail>>
        /\ \E q : Goto(r, q)
    BY <1>1 DEF ReadDetail, GetByID, At
  <2>. QED  BY <2>1, StaysCurrent DEF Announced
<1>2. ASSUME NEW b \in Auctions, Bid(r, b) PROVE Current(a)'
  <2>. DEFINE q == [Idle EXCEPT !.op = "bid", !.pc = "cast", !.id = b, !.val = row'[b]]
  <2>1. /\ req[r].pc = "idle" /\ UNCHANGED detail /\ Goto(r, q)
        /\ a # b => row'[a] = row[a]
    BY <1>0, <1>2 DEF Bid, UpdateAuctionBid, At
  <2>2. Announced(q) /\ q.id = b
    BY DEF Announced, Idle
  <2>. HIDE DEF q
  <2>. QED  BY <2>1, <2>2, StaysCurrent, NowInvalidating DEF Announced
<1>3. ASSUME NEW b \in Auctions, EditCheck(r, b) PROVE Current(a)'
  <2>1. /\ req[r].pc = "idle" /\ UNCHANGED <<row, detail>>
        /\ \E q : Goto(r, q)
    BY <1>3 DEF EditCheck, Begin, At
  <2>. QED  BY <2>1, StaysCurrent DEF Announced
<1>4. ASSUME NEW b \in Auctions, Create(r, b) PROVE Current(a)'
  <2>1. /\ req[r].pc = "idle" /\ UNCHANGED detail /\ row[b] = Absent
        /\ a # b => row'[a] = row[a]
        /\ \E q : Goto(r, q)
    BY <1>0, <1>4 DEF Create, CreateAuction, Begin, At
  <2>2. CASE a = b
    BY <2>1, <2>2 DEF Exists, Absent, Current
  <2>. QED  BY <2>1, <2>2, StaysCurrent DEF Announced
<1>5. ASSUME NEW b \in Auctions, CloseScan(r, b) PROVE Current(a)'
  <2>1. /\ req[r].pc = "idle" /\ UNCHANGED <<row, detail>>
        /\ \E q : Goto(r, q)
    BY <1>5 DEF CloseScan, At
  <2>. QED  BY <2>1, StaysCurrent DEF Announced
<1>6. ASSUME NEW k \in Keys, ReadList(r, k) PROVE Current(a)'
  <2>1. /\ req[r].pc = "idle" /\ UNCHANGED <<row, detail>>
        /\ \E q : Goto(r, q)
    BY <1>6 DEF ReadList, At
  <2>. QED  BY <2>1, StaysCurrent DEF Announced
<1>. QED  BY <1>1, <1>2, <1>3, <1>4, <1>5, <1>6 DEF Begins

LEMMA DetailWorks ==
    ASSUME Inv, NEW a \in Auctions, Current(a), NEW r \in Requests, Works(r), ~Outdates(r)
    PROVE  Current(a)'
<1>. USE DEF Inv
<1>0. /\ row \in [Auctions -> Row \cup {Absent}]
      /\ detail \in [Auctions -> Row \cup {None}]
      /\ ~StoredLate(r) /\ ~Lost(r) /\ ~CloseCommit(r)
  BY DEF TypeOK, Outdates
<1>1. ASSUME FillDetail(r) PROVE Current(a)'
  <2>1. /\ req[r].pc = "set" /\ UNCHANGED row /\ Goto(r, Step(r, Answering(r)))
        /\ detail' = [detail EXCEPT ![req[r].id] = req[r].val] \/ UNCHANGED detail
    BY <1>1 DEF FillDetail, CacheSet, At
  <2>2. req[r].val = row[req[r].id]
    BY <1>0, <1>1 DEF StoredLate
  <2>3. detail'[a] = detail[a] \/ detail'[a] = row'[a]
    BY <1>0, <2>1, <2>2
  <2>4. CASE detail'[a] = row'[a]
    BY <2>4 DEF Current
  <2>. QED  BY <2>1, <2>3, <2>4, StaysCurrent DEF Announced
<1>2. ASSUME CountList(r) PROVE Current(a)'
  <2>1. /\ req[r].pc = "count" /\ UNCHANGED <<row, detail>>
        /\ \E q : Goto(r, q)
    BY <1>2 DEF CountList, At
  <2>. QED  BY <2>1, StaysCurrent DEF Announced
<1>3. ASSUME FillList(r) PROVE Current(a)'
  <2>1. /\ req[r].pc = "setlist" /\ UNCHANGED <<row, detail>>
        /\ \E q : Goto(r, q)
    BY <1>3 DEF FillList, At
  <2>. QED  BY <2>1, StaysCurrent DEF Announced
<1>4. ASSUME EditWrite(r) PROVE Current(a)'
  <2>1. /\ req[r].pc = "write" /\ UNCHANGED detail /\ Goto(r, Step(r, "del"))
        /\ a # req[r].id => row'[a] = row[a]
    BY <1>0, <1>4 DEF EditWrite, UpdateAuction, At
  <2>2. Announced(Step(r, "del")) /\ Step(r, "del").id = req[r].id
    BY StepIsRequest DEF Announced, Pcs
  <2>. QED  BY <2>1, <2>2, StaysCurrent, NowInvalidating DEF Announced
<1>6. ASSUME Invalidate(r) PROVE Current(a)'
  <2>1. /\ UNCHANGED row /\ Goto(r, Step(r, "scan"))
        /\ detail' = [detail EXCEPT ![req[r].id] = None]
    BY <1>0, <1>6 DEF Invalidate, CacheDel, Lost
  <2>2. CASE a = req[r].id
    BY <1>0, <2>1, <2>2 DEF Current
  <2>3. CASE a # req[r].id
    <3>1. detail'[a] = detail[a]
      BY <1>0, <2>1, <2>3
    <3>2. ASSUME Invalidating(a) PROVE Invalidating(a)'
      <4>1. PICK x \in Requests : req[x].id = a /\ Announced(req[x])
        BY <3>2 DEF Invalidating, Announced
      <4>2. req'[x] = req[x]
        BY <2>1, <2>3, <4>1 DEF Goto, TypeOK
      <4>. QED  BY <4>1, <4>2 DEF Invalidating, Announced
    <3>. QED  BY <2>1, <3>1, <3>2 DEF Current
  <2>. QED  BY <2>2, <2>3
<1>7. ASSUME ScanLists(r) PROVE Current(a)'
  <2>1. /\ req[r].pc = "scan" /\ UNCHANGED <<row, detail>>
        /\ \E q : Goto(r, q)
    BY <1>7 DEF ScanLists, At
  <2>. QED  BY <2>1, StaysCurrent DEF Announced
<1>8. ASSUME DelLists(r) PROVE Current(a)'
  <2>1. /\ req[r].pc = "dellist" /\ UNCHANGED <<row, detail>>
        /\ \E q : Goto(r, q)
    BY <1>8 DEF DelLists, At
  <2>. QED  BY <2>1, StaysCurrent DEF Announced
<1>9. ASSUME ReadBack(r) PROVE Current(a)'
  <2>1. /\ req[r].pc = "get" /\ UNCHANGED <<row, detail>>
        /\ \E q : Goto(r, q)
    BY <1>9 DEF ReadBack, GetByID, At
  <2>. QED  BY <2>1, StaysCurrent DEF Announced
<1>. QED  BY <1>0, <1>1, <1>2, <1>3, <1>4, <1>6, <1>7, <1>8, <1>9 DEF Works

LEMMA DetailStep ==
    ASSUME Inv, NEW a \in Auctions, Current(a), [Next]_vars, ~\E r \in Requests : Outdates(r)
    PROVE  Current(a)'
<1>. USE DEF Inv
<1>1. ASSUME NEW r \in Requests, Begins(r) \/ Works(r) PROVE Current(a)'
  BY <1>1, DetailBegins, DetailWorks
<1>2. ASSUME NEW r \in Requests, Cast(r) PROVE Current(a)'
  <2>1. /\ req[r].pc = "cast" /\ UNCHANGED <<row, detail>>
        /\ Goto(r, IF req[r].op = "bid" THEN Step(r, "del") ELSE Idle)
    BY <1>2 DEF Cast, At
  <2>2. Announced(Step(r, "del")) /\ Step(r, "del").id = req[r].id
    BY StepIsRequest DEF Announced, Pcs
  <2>. QED  BY <2>1, <2>2, StaysCurrent DEF Announced
<1>3. ASSUME NEW r \in Requests, CastFeed(r) \/ Answer(r) PROVE Current(a)'
  BY <1>3, StaysCurrent DEF CastFeed, Answer, At, Announced
<1>4. ASSUME NEW r \in Requests, Abort(r) PROVE Current(a)'
  BY <1>4 DEF Outdates, Lost
<1>5. CASE Expires
  <2>1. /\ UNCHANGED <<row, req>>
        /\ detail'[a] = detail[a] \/ detail'[a] = None
    BY <1>5 DEF Expires, ExpireDetail, ExpireList, TypeOK
  <2>. QED  BY <2>1 DEF Current, Invalidating
<1>6. CASE UNCHANGED vars
  BY <1>6 DEF vars, Current, Invalidating
<1>. QED  BY <1>1, <1>2, <1>3, <1>4, <1>5, <1>6 DEF Next
-----------------------------------------------------------------------------
(* The same of the pages of the list.                                      *)
LEMMA SameFresh == row' = row => Fresh' = Fresh
  BY DEF Fresh, ListActiveAuctions, CountActiveAuctions

LEMMA StaysListCurrent ==
    ASSUME TypeOK, NEW k, ListCurrent(k), NEW r \in Requests, NEW q, Goto(r, q),
           AnnouncedOf(req[r], k) => AnnouncedOf(q, k),
           lists'[k] = lists[k], row' = row
    PROVE  ListCurrent(k)'
<1>1. ListInvalidating(k) => ListInvalidating(k)'
  BY StaysListInvalidating
<1>. QED  BY <1>1, SameFresh DEF ListCurrent

LEMMA NowListInvalidating ==
    ASSUME TypeOK, NEW k, NEW r \in Requests, NEW q, Goto(r, q), AnnouncedOf(q, k)
    PROVE  ListCurrent(k)'
<1>1. req'[r] = q
  BY DEF Goto, TypeOK
<1>. QED  BY <1>1 DEF ListCurrent, ListInvalidating, Announced, AnnouncedOf

(* A reader, a request that has yet to write and the closer's scan.        *)
LEMMA ListBegins ==
    ASSUME Inv, NEW k \in Keys, ListCurrent(k), NEW r \in Requests, Begins(r)
    PROVE  ListCurrent(k)'
<1>. USE DEF Inv
<1>1. ASSUME NEW b \in Auctions, Bid(r, b) PROVE ListCurrent(k)'
  <2>. DEFINE q == [Idle EXCEPT !.op = "bid", !.pc = "cast", !.id = b, !.val = row'[b]]
  <2>1. Goto(r, q)
    BY <1>1 DEF Bid
  <2>2. AnnouncedOf(q, k)
    BY DEF AnnouncedOf, Announced, Idle
  <2>. HIDE DEF q
  <2>. QED  BY <2>1, <2>2, NowListInvalidating
<1>2. ASSUME NEW b \in Auctions, Create(r, b) PROVE ListCurrent(k)'
  <2>. DEFINE q == [Idle EXCEPT !.op = "create", !.pc = "scan", !.id = b]
  <2>1. Goto(r, q)
    BY <1>2 DEF Create, Begin
  <2>2. AnnouncedOf(q, k)
    BY DEF AnnouncedOf, Idle
  <2>. HIDE DEF q
  <2>. QED  BY <2>1, <2>2, NowListInvalidating
<1>3. ASSUME \/ \E b \in Auctions : ReadDetail(r, b) \/ EditCheck(r, b) \/ CloseScan(r, b)
             \/ \E p \in Keys : ReadList(r, p)
      PROVE  ListCurrent(k)'
  <2>1. /\ req[r].pc = "idle" /\ UNCHANGED <<row, lists>>
        /\ \E q : Goto(r, q)
    BY <1>3 DEF ReadDetail, GetByID, EditCheck, CloseScan, ReadList, Begin, At
  <2>. QED  BY <2>1, StaysListCurrent DEF Announced, AnnouncedOf
<1>. QED  BY <1>1, <1>2, <1>3 DEF Begins

LEMMA ListWorks ==
    ASSUME Inv, NEW k \in Keys, ListCurrent(k), NEW r \in Requests, Works(r), ~Outdates(r)
    PROVE  ListCurrent(k)'
<1>. USE DEF Inv
<1>0. /\ lists \in [Keys -> Listing \cup {None}]
      /\ ~StoredLate(r) /\ ~Lost(r) /\ ~CloseCommit(r)
      /\ \A pc \in Pcs : Step(r, pc).pc = pc
  BY StepIsRequest DEF TypeOK, Outdates
<1>1. ASSUME FillDetail(r) \/ CountList(r) \/ ReadBack(r) PROVE ListCurrent(k)'
  <2>1. /\ req[r].pc \in {"set", "count", "get"} /\ UNCHANGED <<row, lists>>
        /\ \E q : Goto(r, q)
    BY <1>1 DEF FillDetail, CountList, ReadBack, GetByID, At
  <2>. QED  BY <2>1, StaysListCurrent DEF Announced, AnnouncedOf
<1>2. ASSUME FillList(r) PROVE ListCurrent(k)'
  <2>1. /\ req[r].pc = "setlist" /\ UNCHANGED row /\ Goto(r, Idle)
        /\ \E p \in req[r].keys : lists' = [lists EXCEPT ![p] = req[r].listing] \/ UNCHANGED lists
    BY <1>2 DEF FillList, CacheSetList, At
  <2>2. req[r].listing = Fresh
    BY <1>0, <1>2 DEF StoredLate
  <2>3. lists'[k] = lists[k] \/ lists'[k] = Fresh'
    BY <1>0, <2>1, <2>2, SameFresh
  <2>4. CASE lists'[k] = Fresh'
    BY <2>4 DEF ListCurrent
  <2>. QED  BY <2>1, <2>3, <2>4, StaysListCurrent DEF Announced, AnnouncedOf
<1>3. ASSUME EditWrite(r) PROVE ListCurrent(k)'
  <2>1. Goto(r, Step(r, "del"))
    BY <1>3 DEF EditWrite
  <2>2. AnnouncedOf(Step(r, "del"), k)
    BY <1>0 DEF Announced, AnnouncedOf, Pcs
  <2>. QED  BY <2>1, <2>2, NowListInvalidating
<1>4. ASSUME Invalidate(r) PROVE ListCurrent(k)'
  <2>1. Goto(r, Step(r, "scan"))
    BY <1>4 DEF Invalidate
  <2>2. AnnouncedOf(Step(r, "scan"), k)
    BY <1>0 DEF AnnouncedOf, Pcs
  <2>. QED  BY <2>1, <2>2, NowListInvalidating
<1>5. ASSUME ScanLists(r) PROVE ListCurrent(k)'
  <2>. DEFINE q == [Step(r, "dellist") EXCEPT !.keys = CacheScan]
  <2>1. Goto(r, q) /\ UNCHANGED <<row, lists>>
    BY <1>5 DEF ScanLists
  <2>2. CASE lists[k] = None
    BY <2>1, <2>2 DEF ListCurrent
  <2>3. CASE lists[k] # None
    <3>1. Step(r, "dellist") \in Request /\ Step(r, "dellist").pc = "dellist"
      BY StepIsRequest DEF Pcs
    <3>2. q.pc = "dellist" /\ q.keys = CacheScan
      BY <3>1 DEF Request
    <3>3. AnnouncedOf(q, k)
      BY <2>3, <3>2 DEF AnnouncedOf, CacheScan
    <3>. HIDE DEF q
    <3>. QED  BY <2>1, <3>3, NowListInvalidating
  <2>. QED  BY <2>2, <2>3
<1>6. ASSUME DelLists(r) PROVE ListCurrent(k)'
  <2>1. /\ req[r].pc = "dellist" /\ UNCHANGED row
        /\ \E q : Goto(r, q)
        /\ lists' = [p \in Keys |-> IF p \in req[r].keys THEN None ELSE lists[p]]
    BY <1>0, <1>6 DEF DelLists, CacheDelKeys, Lost, At
  <2>2. CASE k \in req[r].keys
    BY <2>1, <2>2 DEF ListCurrent
  <2>3. CASE k \notin req[r].keys
    <3>1. lists'[k] = lists[k]
      BY <2>1, <2>3
    <3>2. ~AnnouncedOf(req[r], k)
      BY <2>1, <2>3 DEF Announced, AnnouncedOf
    <3>. QED  BY <2>1, <3>1, <3>2, StaysListCurrent
  <2>. QED  BY <2>2, <2>3
<1>. QED  BY <1>0, <1>1, <1>2, <1>3, <1>4, <1>5, <1>6 DEF Works

LEMMA ListStep ==
    ASSUME Inv, NEW k \in Keys, ListCurrent(k), [Next]_vars, ~\E r \in Requests : Outdates(r)
    PROVE  ListCurrent(k)'
<1>. USE DEF Inv
<1>1. ASSUME NEW r \in Requests, Begins(r) \/ Works(r) PROVE ListCurrent(k)'
  BY <1>1, ListBegins, ListWorks
<1>2. ASSUME NEW r \in Requests, Cast(r) PROVE ListCurrent(k)'
  <2>1. /\ req[r].pc = "cast" /\ UNCHANGED <<row, lists>>
        /\ Goto(r, IF req[r].op = "bid" THEN Step(r, "del") ELSE Idle)
    BY <1>2 DEF Cast, At
  <2>2. AnnouncedOf(Step(r, "del"), k)
    BY StepIsRequest DEF Announced, AnnouncedOf, Pcs
  <2>. QED  BY <2>1, <2>2, StaysListCurrent DEF Announced, AnnouncedOf
<1>3. ASSUME NEW r \in Requests, CastFeed(r) \/ Answer(r) PROVE ListCurrent(k)'
  BY <1>3, StaysListCurrent DEF CastFeed, Answer, At, Announced, AnnouncedOf
<1>4. ASSUME NEW r \in Requests, Abort(r) PROVE ListCurrent(k)'
  BY <1>4 DEF Outdates, Lost
<1>5. CASE Expires
  <2>1. /\ UNCHANGED <<row, req>>
        /\ lists'[k] = lists[k] \/ lists'[k] = None
    BY <1>5 DEF Expires, ExpireDetail, ExpireList, TypeOK
  <2>. QED  BY <2>1, SameFresh DEF ListCurrent, ListInvalidating
<1>6. CASE UNCHANGED vars
  BY <1>6, SameFresh DEF vars, ListCurrent, ListInvalidating
<1>. QED  BY <1>1, <1>2, <1>3, <1>4, <1>5, <1>6 DEF Next
-----------------------------------------------------------------------------
(* Table, cache and requests hold what they are meant to hold, and every   *)
(* UPDATE of a request finds the row it means: none is ever removed.       *)
THEOREM TypeCorrect == Spec => [](TypeOK /\ Exists)
  BY SpecInv, PTL DEF Inv

(* Only a late reader, a lost invalidation or the closer can bring about   *)
(* that GET /api/auctions/:id is answered from an outdated entry that      *)
(* nobody is about to delete: every other step keeps the entry true.       *)
THEOREM DetailAlwaysKept == Spec => DetailKept
<1>1. Inv /\ [Next]_vars => (\E r \in Requests : Outdates(r)) \/ (\A a \in Auctions : Current(a) => Current(a)')
  BY DetailStep
<1>2. Inv /\ [Next]_vars =>
        [(\E r \in Requests : Outdates(r)) \/ (\A a \in Auctions : Current(a) => Current(a)')]_vars
  BY <1>1
<1>. QED  BY <1>2, SpecInv, PTL DEF Spec, DetailKept

(* The same of every page of the list of active auctions: bids, edits and  *)
(* new auctions never leave a page of the list outdated and unattended.    *)
THEOREM ListsAlwaysKept == Spec => ListsKept
<1>1. Inv /\ [Next]_vars => (\E r \in Requests : Outdates(r)) \/ (\A k \in Keys : ListCurrent(k) => ListCurrent(k)')
  BY ListStep
<1>2. Inv /\ [Next]_vars =>
        [(\E r \in Requests : Outdates(r)) \/ (\A k \in Keys : ListCurrent(k) => ListCurrent(k)')]_vars
  BY <1>1
<1>. QED  BY <1>2, SpecInv, PTL DEF Spec, ListsKept
-----------------------------------------------------------------------------
(* The page that shows an auction as it happens.                           *)

Records == Row \cup {Absent}

(* A request never knows more of an auction than its row says.  Before its *)
(* commit the closer only knows better that the auction has ended.         *)
KnownOf(q, table) ==
    /\ q.pc \in {"set", "answer", "feed", "cast"} => ~Behind(table[q.id], q.val)
    /\ q.pc = "end" => q.val.price <= table[q.id].price /\ q.val.text <= table[q.id].text

(* Who is at the points that several kinds of requests pass, or only one.  *)
Role(q) ==
    /\ q.pc = "end" => q.op = "close"
    /\ q.pc = "write" => q.op = "edit"
    /\ q.pc \in {"write", "del", "scan", "dellist", "get", "set", "feed"} => q.op # "close"
    /\ q.pc \in {"end", "cast"} /\ q.op = "close" => q.val.status = 2

Known ==
    /\ \A a \in Auctions : detail[a] # None => ~Behind(row[a], detail[a])
    /\ \A r \in Requests : KnownOf(req[r], row) /\ Role(req[r])
-----------------------------------------------------------------------------
LEMMA RecordFacts ==
    ASSUME NEW x \in Records
    PROVE  x.status \in 0..2 /\ x.price \in Nat /\ x.text \in Nat
<1>1. x.price \in 0..MaxPrice /\ x.text \in 0..MaxText /\ x.status \in 0..2
  BY RowFacts DEF Records
<1>. QED  BY <1>1, CatalogueAssumption

LEMMA BehindTransitive ==
    ASSUME NEW x \in Records, NEW y \in Records, NEW z \in Records, ~Behind(x, y), ~Behind(y, z)
    PROVE  ~Behind(x, z)
<1>1. /\ x.status \in Nat /\ x.price \in Nat /\ x.text \in Nat
      /\ y.status \in Nat /\ y.price \in Nat /\ y.text \in Nat
      /\ z.status \in Nat /\ z.price \in Nat /\ z.text \in Nat
  BY RecordFacts
<1>. QED  BY <1>1 DEF Behind

LEMMA BehindReflexive == ASSUME NEW x \in Records PROVE ~Behind(x, x)
  BY RecordFacts DEF Behind

(* No step takes anything back from a row.                                 *)
RowsGrow == \A a \in Auctions : ~Behind(row'[a], row[a])

LEMMA GrowsIfSame == TypeOK /\ UNCHANGED row => RowsGrow
  BY BehindReflexive DEF TypeOK, RowsGrow, Records

LEMMA RowsOnlyGrow == ASSUME Inv, [Next]_vars PROVE RowsGrow
<1>. USE DEF Inv
<1>0. row \in [Auctions -> Records]
  BY DEF TypeOK, Records
<1>1. ASSUME NEW r \in Requests, NEW a \in Auctions, Bid(r, a) PROVE RowsGrow
  <2>1. row' = [row EXCEPT ![a].price = @ + 1]
    BY <1>1 DEF Bid, UpdateAuctionBid
  <2>2. row[a] \in Row
    BY <1>1, RowFacts DEF Bid, TypeOK
  <2>3. row'[a] = [row[a] EXCEPT !.price = row[a].price + 1] /\ \A b \in Auctions : b # a => row'[b] = row[b]
    BY <1>0, <2>1
  <2>4. row'[a].price = row[a].price + 1 /\ row'[a].status = row[a].status /\ row'[a].text = row[a].text
    BY <2>2, <2>3 DEF Row
  <2>5. ~Behind(row'[a], row[a])
    BY <1>0, <2>4, RecordFacts DEF Behind
  <2>. QED  BY <1>0, <2>3, <2>5, BehindReflexive DEF RowsGrow
<1>2. ASSUME NEW r \in Requests, NEW a \in Auctions, Create(r, a) PROVE RowsGrow
  <2>1. row' = [row EXCEPT ![a] = New] /\ row[a] = Absent
    BY <1>2 DEF Create, CreateAuction
  <2>2. ~Behind(New, Absent)
    BY DEF New, Absent, Behind
  <2>. QED  BY <1>0, <2>1, <2>2, BehindReflexive DEF RowsGrow
<1>3. ASSUME NEW r \in Requests, EditWrite(r) PROVE RowsGrow
  <2>. DEFINE a == req[r].id
  <2>1. row' = [row EXCEPT ![a].text = @ + 1] /\ a \in Auctions /\ row[a].status # 0
    BY <1>3 DEF EditWrite, UpdateAuction, At, Exists, Found
  <2>2. row[a] \in Row
    BY <2>1, RowFacts DEF TypeOK
  <2>3. row'[a] = [row[a] EXCEPT !.text = row[a].text + 1] /\ \A b \in Auctions : b # a => row'[b] = row[b]
    BY <1>0, <2>1
  <2>4. row'[a].text = row[a].text + 1 /\ row'[a].status = row[a].status /\ row'[a].price = row[a].price
    BY <2>2, <2>3 DEF Row
  <2>. HIDE DEF a
  <2>5. ~Behind(row'[a], row[a])
    BY <1>0, <2>1, <2>4, RecordFacts DEF Behind
  <2>. QED  BY <1>0, <2>3, <2>5, BehindReflexive DEF RowsGrow
<1>4. ASSUME NEW r \in Requests, CloseCommit(r) PROVE RowsGrow
  <2>. DEFINE a == req[r].id
  <2>1. row' = [row EXCEPT ![a].status = 2] /\ a \in Auctions /\ row[a].status # 0
    BY <1>4 DEF CloseCommit, CloseAuctionByID, At, Exists, Found
  <2>2. row[a] \in Row
    BY <2>1, RowFacts DEF TypeOK
  <2>3. row'[a] = [row[a] EXCEPT !.status = 2] /\ \A b \in Auctions : b # a => row'[b] = row[b]
    BY <1>0, <2>1
  <2>4. row'[a].status = 2 /\ row'[a].text = row[a].text /\ row'[a].price = row[a].price
    BY <2>2, <2>3 DEF Row
  <2>. HIDE DEF a
  <2>5. ~Behind(row'[a], row[a])
    BY <1>0, <2>1, <2>4, RecordFacts DEF Behind
  <2>. QED  BY <1>0, <2>3, <2>5, BehindReflexive DEF RowsGrow
<1>5. CASE UNCHANGED row
  BY <1>5, GrowsIfSame
<1>6. ASSUME NEW r \in Requests, Begins(r) PROVE RowsGrow
  <2>1. ASSUME NEW a \in Auctions, ReadDetail(r, a) \/ EditCheck(r, a) \/ CloseScan(r, a) PROVE UNCHANGED row
    BY <2>1 DEF ReadDetail, EditCheck, CloseScan
  <2>2. ASSUME NEW k \in Keys, ReadList(r, k) PROVE UNCHANGED row
    BY <2>2 DEF ReadList
  <2>. QED  BY <1>1, <1>2, <1>5, <1>6, <2>1, <2>2 DEF Begins
<1>7. ASSUME NEW r \in Requests, Works(r) PROVE RowsGrow
  <2>1. EditWrite(r) \/ CloseCommit(r) \/ UNCHANGED row
    BY <1>7 DEF Works, FillDetail, CountList, FillList, Invalidate, ScanLists, DelLists, ReadBack
  <2>. QED  BY <1>3, <1>4, <1>5, <2>1
<1>8. ASSUME NEW r \in Requests, CastFeed(r) \/ Cast(r) \/ Answer(r) \/ Abort(r) PROVE RowsGrow
  BY <1>5, <1>8 DEF CastFeed, Cast, Answer, Abort
<1>9. CASE Expires
  BY <1>5, <1>9 DEF Expires, ExpireDetail, ExpireList
<1>. QED  BY <1>5, <1>6, <1>7, <1>8, <1>9 DEF Next, vars
-----------------------------------------------------------------------------
(* What a request knows stays true while rows grow.                        *)
LEMMA StaysKnown ==
    ASSUME Inv, Inv', RowsGrow, NEW r \in Requests, KnownOf(req[r], row)
    PROVE  KnownOf(req[r], row')
<1>. DEFINE q == req[r]
<1>1. /\ q.pc \in Found => q.id \in Auctions
      /\ q.pc \in {"set", "answer", "end", "feed", "cast"} => q.val \in Records
      /\ \A a \in Auctions : row[a] \in Records /\ row'[a] \in Records /\ ~Behind(row'[a], row[a])
  BY DEF Inv, TypeOK, Exists, Records, RowsGrow
<1>. HIDE DEF q
<1>2. KnownOf(q, row)
  BY DEF q
<1>3. ASSUME q.pc \in {"set", "answer", "feed", "cast"} PROVE ~Behind(row'[q.id], q.val)
  <2>1. q.id \in Auctions /\ q.val \in Records /\ ~Behind(row[q.id], q.val)
    BY <1>1, <1>2, <1>3 DEF Found, KnownOf
  <2>. QED  BY <1>1, <2>1, BehindTransitive
<1>4. ASSUME q.pc = "end" PROVE q.val.price <= row'[q.id].price /\ q.val.text <= row'[q.id].text
  <2>1. q.id \in Auctions /\ q.val \in Records
    BY <1>1, <1>4 DEF Found
  <2>2. /\ q.val.price \in Nat /\ q.val.text \in Nat
        /\ row[q.id].price \in Nat /\ row[q.id].text \in Nat
        /\ row'[q.id].price \in Nat /\ row'[q.id].text \in Nat
    BY <1>1, <2>1, RecordFacts
  <2>3. row[q.id].price <= row'[q.id].price /\ row[q.id].text <= row'[q.id].text
    BY <1>1, <2>1, <2>2 DEF Behind
  <2>4. q.val.price <= row[q.id].price /\ q.val.text <= row[q.id].text
    BY <1>2, <1>4 DEF KnownOf
  <2>. QED  BY <2>2, <2>3, <2>4
<1>5. KnownOf(q, row')
  BY <1>3, <1>4 DEF KnownOf
<1>. QED  BY <1>5 DEF q

LEMMA KnownKeeps ==
    ASSUME Inv, Inv', RowsGrow, Known,
           NEW r \in Requests, NEW q, Goto(r, q), KnownOf(q, row'), Role(q),
           \A a \in Auctions : detail'[a] \in {None, detail[a]} \/ ~Behind(row'[a], detail'[a])
    PROVE  Known'
<1>1. req'[r] = q /\ \A x \in Requests : x # r => req'[x] = req[x]
  BY DEF Goto, Inv, TypeOK
<1>2. ASSUME NEW x \in Requests PROVE KnownOf(req'[x], row') /\ Role(req'[x])
  BY <1>1, StaysKnown DEF Known
<1>3. ASSUME NEW a \in Auctions, detail'[a] # None PROVE ~Behind(row'[a], detail'[a])
  <2>1. CASE detail'[a] = detail[a]
    <3>1. ~Behind(row[a], detail[a]) /\ ~Behind(row'[a], row[a])
      BY <1>3, <2>1 DEF Known, RowsGrow
    <3>2. detail[a] \in Records /\ row[a] \in Records /\ row'[a] \in Records
      BY <1>3, <2>1 DEF Inv, TypeOK, Records
    <3>. QED  BY <2>1, <3>1, <3>2, BehindTransitive
  <2>. QED  BY <1>3, <2>1
<1>4. \A x \in Requests : (KnownOf(req[x], row) /\ Role(req[x]))'
  BY <1>2 DEF KnownOf, Role
<1>. QED  BY <1>3, <1>4 DEF Known

LEMMA KnownGetByID ==
    ASSUME Inv, Inv', RowsGrow, Known, NEW r \in Requests, NEW q \in Request, q.id \in Auctions,
           NEW hit \in {"answer", "feed"}, GetByID(r, q, hit), UNCHANGED <<row, detail, lists>>,
           q.op # "close"
    PROVE  Known'
<1>1. CASE /\ detail[q.id] # None
           /\ Goto(r, [q EXCEPT !.pc = hit, !.val = detail[q.id]])
  <2>. DEFINE p == [q EXCEPT !.pc = hit, !.val = detail[q.id]]
  <2>1. p.pc = hit /\ p.val = detail[q.id] /\ p.id = q.id /\ p.op = q.op
    BY DEF Request
  <2>2. ~Behind(row[q.id], detail[q.id])
    BY <1>1 DEF Known
  <2>3. Goto(r, p)
    BY <1>1
  <2>. HIDE DEF p
  <2>4. KnownOf(p, row') /\ Role(p)
    BY <2>1, <2>2 DEF KnownOf, Role
  <2>. QED  BY <2>3, <2>4, KnownKeeps
<1>2. CASE /\ GetAuctionByID(q.id).status # 0
           /\ Goto(r, [q EXCEPT !.pc = "set", !.val = GetAuctionByID(q.id)])
  <2>. DEFINE p == [q EXCEPT !.pc = "set", !.val = GetAuctionByID(q.id)]
  <2>1. p.pc = "set" /\ p.val = row[q.id] /\ p.id = q.id /\ p.op = q.op
    BY DEF Request, GetAuctionByID
  <2>2. ~Behind(row[q.id], row[q.id])
    BY BehindReflexive DEF Inv, TypeOK, Records
  <2>3. Goto(r, p)
    BY <1>2
  <2>. HIDE DEF p
  <2>4. KnownOf(p, row') /\ Role(p)
    BY <2>1, <2>2 DEF KnownOf, Role
  <2>. QED  BY <2>3, <2>4, KnownKeeps
<1>. QED  BY <1>1, <1>2 DEF GetByID

LEMMA KnownBegins == ASSUME Inv, Inv', RowsGrow, Known, NEW r \in Requests, Begins(r) PROVE Known'
<1>0. row \in [Auctions -> Records] /\ row' \in [Auctions -> Records]
  BY DEF Inv, TypeOK, Records
<1>1. ASSUME NEW a \in Auctions, ReadDetail(r, a) PROVE Known'
  <2>. DEFINE q == [Idle EXCEPT !.id = a]
  <2>1. q \in Request /\ q.id = a /\ q.op # "close"
    BY IdleIsRequest DEF Request, Idle
  <2>2. GetByID(r, q, "answer") /\ UNCHANGED <<row, detail, lists>>
    BY <1>1 DEF ReadDetail
  <2>. HIDE DEF q
  <2>. QED  BY <2>1, <2>2, KnownGetByID
<1>2. ASSUME NEW a \in Auctions, Bid(r, a) PROVE Known'
  <2>. DEFINE q == [Idle EXCEPT !.op = "bid", !.pc = "cast", !.id = a, !.val = row'[a]]
  <2>1. Goto(r, q) /\ UNCHANGED detail
    BY <1>2 DEF Bid
  <2>2. q.pc = "cast" /\ q.op = "bid" /\ q.id = a /\ q.val = row'[a]
    BY DEF Idle
  <2>. HIDE DEF q
  <2>3. KnownOf(q, row') /\ Role(q)
    BY <1>0, <2>2, BehindReflexive DEF KnownOf, Role
  <2>. QED  BY <2>1, <2>3, KnownKeeps
<1>3. ASSUME NEW a \in Auctions, EditCheck(r, a) PROVE Known'
  <2>. DEFINE q == [Idle EXCEPT !.op = "edit", !.pc = "write", !.id = a]
  <2>1. Goto(r, q) /\ UNCHANGED detail
    BY <1>3 DEF EditCheck, Begin
  <2>2. q.pc = "write" /\ q.op = "edit"
    BY DEF Idle
  <2>. HIDE DEF q
  <2>. QED  BY <2>1, <2>2, KnownKeeps DEF KnownOf, Role
<1>4. ASSUME NEW a \in Auctions, Create(r, a) PROVE Known'
  <2>. DEFINE q == [Idle EXCEPT !.op = "create", !.pc = "scan", !.id = a]
  <2>1. Goto(r, q) /\ UNCHANGED detail
    BY <1>4 DEF Create, Begin
  <2>2. q.pc = "scan" /\ q.op = "create"
    BY DEF Idle
  <2>. HIDE DEF q
  <2>. QED  BY <2>1, <2>2, KnownKeeps DEF KnownOf, Role
<1>5. ASSUME NEW a \in Auctions, CloseScan(r, a) PROVE Known'
  <2>. DEFINE v == [row[a] EXCEPT !.status = 2]
  <2>. DEFINE q == [Idle EXCEPT !.op = "close", !.pc = "end", !.id = a, !.val = v]
  <2>1. Goto(r, q) /\ UNCHANGED <<row, detail>> /\ row[a].status # 0
    BY <1>5 DEF CloseScan
  <2>2. row[a] \in Row
    BY <2>1, RowFacts DEF Inv, TypeOK
  <2>3. v.status = 2 /\ v.price = row[a].price /\ v.text = row[a].text
    BY <2>2 DEF Row
  <2>4. q.pc = "end" /\ q.op = "close" /\ q.id = a /\ q.val = v
    BY DEF Idle
  <2>. HIDE DEF q, v
  <2>5. row[a].price \in Nat /\ row[a].text \in Nat
    BY <1>0, RecordFacts
  <2>6. KnownOf(q, row') /\ Role(q)
    BY <2>1, <2>3, <2>4, <2>5 DEF KnownOf, Role
  <2>. QED  BY <2>1, <2>6, KnownKeeps
<1>6. ASSUME NEW k \in Keys, ReadList(r, k) PROVE Known'
  <2>. DEFINE q == [Idle EXCEPT !.op = "list", !.pc = "count", !.keys = {k}, !.listing.rows = ListActiveAuctions]
  <2>1. Goto(r, q) /\ UNCHANGED detail
    BY <1>6 DEF ReadList
  <2>2. q.pc = "count"
    BY DEF Idle
  <2>. HIDE DEF q
  <2>. QED  BY <2>1, <2>2, KnownKeeps DEF KnownOf, Role
<1>. QED  BY <1>1, <1>2, <1>3, <1>4, <1>5, <1>6 DEF Begins

LEMMA KnownWorks == ASSUME Inv, Inv', RowsGrow, Known, NEW r \in Requests, Works(r) PROVE Known'
<1>0. /\ row \in [Auctions -> Records] /\ row' \in [Auctions -> Records]
      /\ detail \in [Auctions -> Row \cup {None}]
      /\ KnownOf(req[r], row) /\ KnownOf(req[r], row') /\ Role(req[r])
      /\ req[r].pc \in Found => req[r].id \in Auctions
      /\ req[r].pc \in {"set", "answer", "end", "feed", "cast"} => req[r].val \in Records
  BY StaysKnown DEF Inv, TypeOK, Exists, Records, Known
<1>s. \A pc \in Pcs : /\ Step(r, pc).pc = pc /\ Step(r, pc).id = req[r].id
                      /\ Step(r, pc).op = req[r].op /\ Step(r, pc).val = req[r].val
                      /\ Step(r, pc) \in Request
  BY StepIsRequest DEF Inv
<1>1. ASSUME FillDetail(r) PROVE Known'
  <2>. DEFINE q == Step(r, Answering(r))
  <2>1. /\ req[r].pc = "set" /\ Goto(r, q) /\ UNCHANGED row
        /\ detail' = [detail EXCEPT ![req[r].id] = req[r].val] \/ UNCHANGED detail
    BY <1>1 DEF FillDetail, CacheSet, At
  <2>2. Answering(r) \in {"answer", "feed"} /\ Answering(r) \in Pcs
    BY DEF Answering, Pcs
  <2>3. q.pc \in {"answer", "feed"} /\ q.id = req[r].id /\ q.op = req[r].op /\ q.val = req[r].val
    BY <1>s, <2>2
  <2>. HIDE DEF q
  <2>4. KnownOf(q, row') /\ Role(q)
    BY <1>0, <2>1, <2>3 DEF KnownOf, Role
  <2>5. \A a \in Auctions : detail'[a] \in {None, detail[a]} \/ ~Behind(row'[a], detail'[a])
    BY <1>0, <2>1 DEF KnownOf
  <2>. QED  BY <2>1, <2>4, <2>5, KnownKeeps
<1>2. ASSUME CountList(r) PROVE Known'
  <2>. DEFINE q == [Step(r, "setlist") EXCEPT !.listing.count = CountActiveAuctions]
  <2>1. Goto(r, q) /\ UNCHANGED detail
    BY <1>2 DEF CountList
  <2>2. q.pc = "setlist"
    BY <1>s DEF Request, Pcs
  <2>. HIDE DEF q
  <2>. QED  BY <2>1, <2>2, KnownKeeps DEF KnownOf, Role
<1>3. ASSUME FillList(r) PROVE Known'
  <2>1. Goto(r, Idle) /\ UNCHANGED detail
    BY <1>3 DEF FillList
  <2>2. Idle.pc = "idle"
    BY DEF Idle
  <2>. QED  BY <2>1, <2>2, KnownKeeps DEF KnownOf, Role
<1>4. ASSUME EditWrite(r) PROVE Known'
  <2>1. Goto(r, Step(r, "del")) /\ UNCHANGED detail /\ req[r].pc = "write"
    BY <1>4 DEF EditWrite, At
  <2>2. Step(r, "del").pc = "del" /\ Step(r, "del").op # "close"
    BY <1>0, <1>s, <2>1 DEF Pcs, Role
  <2>3. KnownOf(Step(r, "del"), row') /\ Role(Step(r, "del"))
    BY <2>2 DEF KnownOf, Role
  <2>. QED  BY <2>1, <2>3, KnownKeeps
<1>5. ASSUME CloseCommit(r) PROVE Known'
  <2>. DEFINE q == Step(r, "cast")
  <2>1. /\ Goto(r, q) /\ UNCHANGED detail /\ req[r].pc = "end"
        /\ row' = [row EXCEPT ![req[r].id].status = 2]
    BY <1>5 DEF CloseCommit, CloseAuctionByID, At
  <2>2. q.pc = "cast" /\ q.op = req[r].op /\ q.id = req[r].id /\ q.val = req[r].val
    BY <1>s DEF Pcs
  <2>. HIDE DEF q
  <2>3. /\ req[r].id \in Auctions /\ row[req[r].id].status # 0 /\ req[r].val \in Records
        /\ row[req[r].id] \in Row
    BY <2>1, RowFacts DEF Inv, TypeOK, Exists, Found, Records
  <2>4. row'[req[r].id].status = 2
    BY <1>0, <2>1, <2>3 DEF Row
  <2>5. req[r].val.status = 2 /\ req[r].op = "close"
    BY <1>0, <2>1 DEF Role
  <2>6. req[r].val.price <= row'[req[r].id].price /\ req[r].val.text <= row'[req[r].id].text
    BY <1>0, <2>1 DEF KnownOf
  <2>7. ~Behind(row'[req[r].id], req[r].val)
    BY <1>0, <2>3, <2>4, <2>5, <2>6, RecordFacts DEF Behind
  <2>8. KnownOf(q, row') /\ Role(q)
    BY <2>2, <2>5, <2>7 DEF KnownOf, Role
  <2>. QED  BY <2>1, <2>8, KnownKeeps
<1>6. ASSUME Invalidate(r) PROVE Known'
  <2>1. /\ Goto(r, Step(r, "scan")) /\ req[r].pc = "del"
        /\ \A a \in Auctions : detail'[a] \in {None, detail[a]}
    BY <1>0, <1>6 DEF Invalidate, CacheDel, At
  <2>2. Step(r, "scan").pc = "scan" /\ Step(r, "scan").op # "close"
    BY <1>0, <1>s, <2>1 DEF Pcs, Role
  <2>3. KnownOf(Step(r, "scan"), row') /\ Role(Step(r, "scan"))
    BY <2>2 DEF KnownOf, Role
  <2>. QED  BY <2>1, <2>3, KnownKeeps
<1>7. ASSUME ScanLists(r) PROVE Known'
  <2>. DEFINE q == [Step(r, "dellist") EXCEPT !.keys = CacheScan]
  <2>1. Goto(r, q) /\ UNCHANGED detail /\ req[r].pc = "scan"
    BY <1>7 DEF ScanLists, At
  <2>2. q.pc = "dellist" /\ q.op # "close"
    BY <1>0, <1>s, <2>1 DEF Pcs, Request, Role
  <2>. HIDE DEF q
  <2>3. KnownOf(q, row') /\ Role(q)
    BY <2>2 DEF KnownOf, Role
  <2>. QED  BY <2>1, <2>3, KnownKeeps
<1>8. ASSUME DelLists(r) PROVE Known'
  <2>. DEFINE p == [Step(r, "get") EXCEPT !.keys = {}]
  <2>. DEFINE q == IF req[r].op = "bid" THEN Idle ELSE p
  <2>1. Goto(r, q) /\ UNCHANGED detail /\ req[r].pc = "dellist"
    BY <1>8 DEF DelLists, At
  <2>2. p.pc = "get" /\ p.op # "close"
    BY <1>0, <1>s, <2>1 DEF Pcs, Request, Role
  <2>3. Idle.pc = "idle"
    BY DEF Idle
  <2>4. KnownOf(q, row') /\ Role(q)
    <3>. HIDE DEF p
    <3>. QED  BY <2>2, <2>3 DEF KnownOf, Role
  <2>. HIDE DEF q
  <2>. QED  BY <2>1, <2>4, KnownKeeps
<1>9. ASSUME ReadBack(r) PROVE Known'
  <2>1. req[r].pc = "get" /\ GetByID(r, req[r], "feed") /\ UNCHANGED <<row, detail, lists>>
    BY <1>9 DEF ReadBack, At
  <2>2. req[r] \in Request /\ req[r].id \in Auctions /\ req[r].op # "close"
    BY <1>0, <2>1 DEF Inv, TypeOK, Found, Role
  <2>. QED  BY <2>1, <2>2, KnownGetByID
<1>. QED  BY <1>1, <1>2, <1>3, <1>4, <1>5, <1>6, <1>7, <1>8, <1>9 DEF Works

LEMMA KnownStep == ASSUME Inv, Inv', Known, [Next]_vars PROVE Known'
<1>0. RowsGrow
  BY RowsOnlyGrow
<1>1. ASSUME NEW r \in Requests, Begins(r) \/ Works(r) PROVE Known'
  BY <1>0, <1>1, KnownBegins, KnownWorks
<1>2. ASSUME NEW r \in Requests, Cast(r) PROVE Known'
  <2>. DEFINE q == IF req[r].op = "bid" THEN Step(r, "del") ELSE Idle
  <2>1. Goto(r, q) /\ UNCHANGED detail
    BY <1>2 DEF Cast
  <2>2. Step(r, "del").pc = "del" /\ Step(r, "del").op = req[r].op
    BY StepIsRequest DEF Inv, Pcs
  <2>3. Idle.pc = "idle"
    BY DEF Idle
  <2>4. KnownOf(q, row') /\ Role(q)
    BY <2>2, <2>3 DEF KnownOf, Role
  <2>. HIDE DEF q
  <2>. QED  BY <1>0, <2>1, <2>4, KnownKeeps
<1>f. ASSUME NEW r \in Requests, CastFeed(r) PROVE Known'
  <2>. DEFINE q == IF req[r].op = "edit" THEN Step(r, "cast") ELSE Idle
  <2>1. Goto(r, q) /\ UNCHANGED detail /\ req[r].pc = "feed"
    BY <1>f DEF CastFeed, At
  <2>2. /\ Step(r, "cast").pc = "cast" /\ Step(r, "cast").op = req[r].op
        /\ Step(r, "cast").id = req[r].id /\ Step(r, "cast").val = req[r].val
    BY StepIsRequest DEF Inv, Pcs
  <2>3. Idle.pc = "idle"
    BY DEF Idle
  <2>4. ~Behind(row'[req[r].id], req[r].val)
    BY <1>0, <2>1, StaysKnown DEF Known, KnownOf
  <2>5. KnownOf(q, row') /\ Role(q)
    BY <2>2, <2>3, <2>4 DEF KnownOf, Role
  <2>. HIDE DEF q
  <2>. QED  BY <1>0, <2>1, <2>5, KnownKeeps
<1>3. ASSUME NEW r \in Requests, Answer(r) \/ Abort(r) PROVE Known'
  <2>1. Goto(r, Idle) /\ UNCHANGED detail
    BY <1>3 DEF Answer, Abort
  <2>2. Idle.pc = "idle"
    BY DEF Idle
  <2>. QED  BY <1>0, <2>1, <2>2, KnownKeeps DEF KnownOf, Role
<1>4. CASE Expires
  <2>1. /\ UNCHANGED <<row, req>>
        /\ \A a \in Auctions : detail'[a] \in {None, detail[a]}
    BY <1>4 DEF Expires, ExpireDetail, ExpireList, Inv, TypeOK
  <2>. QED  BY <2>1 DEF Known, KnownOf, Role
<1>5. CASE UNCHANGED vars
  BY <1>5 DEF vars, Known, KnownOf, Role
<1>. QED  BY <1>1, <1>2, <1>f, <1>3, <1>4, <1>5 DEF Next

LEMMA InitKnown == Init => Known
  BY DEF Init, Known, KnownOf, Role, Idle
-----------------------------------------------------------------------------
(* The page's handler and the history of what was published.               *)
LEMMA ApplyCases ==
    ASSUME NEW m \in Message, NEW a \in Row
    PROVE  /\ Apply(m, a) \in Row
           /\ m.type = "new_bid" => /\ Apply(m, a).price = m.data.price
                                    /\ Apply(m, a).status = a.status /\ Apply(m, a).text = a.text
           /\ m.type = "auction_ended" => /\ Apply(m, a).price = m.data.price
                                          /\ Apply(m, a).status = 2 /\ Apply(m, a).text = a.text
           /\ m.type = "auction_updated" => Apply(m, a) = m.data
  BY DEF Apply, Message, Kinds, Row

(* Nothing is shown that the message and the page did not both know.       *)
LEMMA ApplyBounded ==
    ASSUME NEW t \in Records, NEW m \in Message, NEW a \in Row,
           ~Behind(t, m.data), ~Behind(t, a), m.type = "auction_ended" => m.data.status = 2
    PROVE  ~Behind(t, Apply(m, a))
<1>1. m.type \in Kinds /\ m.data \in Records /\ a \in Records /\ Apply(m, a) \in Records
  BY ApplyCases DEF Message, Records
<1>. QED  BY <1>1, ApplyCases, RecordFacts DEF Behind, Kinds

(* A page that knows more still does so after the same message.            *)
LEMMA ApplyMonotone ==
    ASSUME NEW m \in Message, NEW a \in Row, NEW b \in Row, ~Behind(a, b)
    PROVE  ~Behind(Apply(m, a), Apply(m, b))
<1>1. /\ m.type \in Kinds /\ m.data \in Records /\ a \in Records /\ b \in Records
      /\ Apply(m, a) \in Records /\ Apply(m, b) \in Records
  BY ApplyCases DEF Message, Records
<1>. QED  BY <1>1, ApplyCases, RecordFacts DEF Behind, Kinds

LEMMA NewestFacts ==
    ASSUME NEW a \in Row, NEW b \in Row
    PROVE  /\ Newest(a, b) \in Row
           /\ ~Behind(Newest(a, b), a)
           /\ ~Behind(Newest(a, b), b)
           /\ ~Behind(b, a) => ~Behind(b, Newest(a, b))
           /\ \A t \in Records : ~Behind(t, a) /\ ~Behind(t, b) => ~Behind(t, Newest(a, b))
<1>1. /\ a.status \in Nat /\ a.price \in Nat /\ a.text \in Nat
      /\ b.status \in Nat /\ b.price \in Nat /\ b.text \in Nat
      /\ \A t \in Records : t.status \in Nat /\ t.price \in Nat /\ t.text \in Nat
  BY RecordFacts DEF Records
<1>2. /\ Newest(a, b).status \in {a.status, b.status} /\ Newest(a, b).status >= a.status /\ Newest(a, b).status >= b.status
      /\ Newest(a, b).price \in {a.price, b.price} /\ Newest(a, b).price >= a.price /\ Newest(a, b).price >= b.price
      /\ Newest(a, b).text \in {a.text, b.text} /\ Newest(a, b).text >= a.text /\ Newest(a, b).text >= b.text
  BY <1>1 DEF Newest
<1>3. Newest(a, b) \in Row
  BY <1>2 DEF Newest, Row
<1>. QED  BY <1>1, <1>2, <1>3 DEF Behind

LEMMA MessageFacts ==
    ASSUME Inv, Known, NEW r \in Requests, At(r, "cast") \/ At(r, "feed")
    PROVE  /\ MessageOf(r) \in Message
           /\ MessageOf(r).id = req[r].id
           /\ MessageOf(r).data = req[r].val
           /\ MessageOf(r).type = "new_bid" <=> req[r].op = "bid"
           /\ MessageOf(r).type = "auction_ended" <=> req[r].op = "close"
           /\ MessageOf(r).type = "auction_ended" => MessageOf(r).data.status = 2
           /\ ~Behind(row[req[r].id], MessageOf(r).data)
<1>1. req[r].val \in Row /\ req[r].pc \in {"cast", "feed"} /\ req[r].id \in Auctions
  BY DEF Inv, Exists, Found, At
<1>. DEFINE t == CASE req[r].op = "bid" -> "new_bid" [] req[r].op = "close" -> "auction_ended"
                   [] OTHER -> "auction_updated"
<1>2. MessageOf(r) = [type |-> t, id |-> req[r].id, data |-> req[r].val]
  BY DEF MessageOf
<1>3. /\ t \in Kinds
      /\ t = "new_bid" <=> req[r].op = "bid"
      /\ t = "auction_ended" <=> req[r].op = "close"
  <2>1. CASE req[r].op = "bid"
    BY <2>1 DEF Kinds
  <2>2. CASE req[r].op = "close"
    BY <2>2 DEF Kinds
  <2>3. CASE req[r].op # "bid" /\ req[r].op # "close"
    BY <2>3 DEF Kinds
  <2>. QED  BY <2>1, <2>2, <2>3
<1>. HIDE DEF t
<1>4. /\ MessageOf(r) \in Message /\ MessageOf(r).type = t
      /\ MessageOf(r).id = req[r].id /\ MessageOf(r).data = req[r].val
  BY <1>1, <1>2, <1>3 DEF Message
<1>5. ~Behind(row[req[r].id], req[r].val) /\ (req[r].op = "close" => req[r].val.status = 2)
  BY <1>1 DEF Known, KnownOf, Role
<1>. QED  BY <1>3, <1>4, <1>5

(* From which auctions what is shown is taken.                             *)
LEMMA SourceFacts ==
    ASSUME NEW m \in Message, NEW f \in Source
    PROVE  /\ ApplySource(m, f) \in Source
           /\ m.type = "new_bid" => /\ ApplySource(m, f).price = m.id
                                    /\ ApplySource(m, f).status = f.status /\ ApplySource(m, f).text = f.text
           /\ m.type = "auction_ended" => /\ ApplySource(m, f).price = m.id
                                          /\ ApplySource(m, f).status = m.id /\ ApplySource(m, f).text = f.text
           /\ m.type = "auction_updated" => ApplySource(m, f) = Of(m.id)
  BY DEF ApplySource, Message, Kinds, Source, Of

LEMMA OfFacts ==
    ASSUME NEW a \in Auctions
    PROVE  Of(a) \in Source /\ Of(a).status = a /\ Of(a).price = a /\ Of(a).text = a
  BY DEF Of, Source
-----------------------------------------------------------------------------
(* A step of the page is a step of the service or leaves it alone.         *)
LEMMA NextIsNext == [Next2]_allVars => [Next]_vars
<1>1. ASSUME NEW r \in Requests, Proceed(r) PROVE Next
  BY <1>1 DEF Proceed, Next
<1>2. ASSUME NEW r \in Requests, Answer(r) \/ Load(r) PROVE Next
  BY <1>2 DEF Load, Next
<1>3. ASSUME NEW r \in Requests, Publish(r) \/ PublishFeed(r) PROVE Next
  BY <1>3 DEF Publish, PublishFeed, Next
<1>4. ASSUME NEW r \in Requests, Fetch(r) PROVE Next
  BY <1>4, RealtimeAssumption DEF Fetch, Begins, Next
<1>5. ASSUME NEW r \in Requests, Ends(r) PROVE Next
  BY <1>5 DEF Ends, Next
<1>6. CASE Expires
  BY <1>6 DEF Next
<1>7. CASE Open \/ Leave \/ Subscribe \/ Disconnect \/ Receive
  BY <1>7 DEF Open, Leave, Subscribe, Disconnect, Receive, vars
<1>. QED  BY <1>1, <1>2, <1>3, <1>4, <1>5, <1>6, <1>7 DEF Next2, allVars

PageTypeOK ==
    /\ open \in BOOLEAN
    /\ shown \in Row \cup {None}
    /\ from \in Source
    /\ fetching \subseteq Requests
    /\ joined \in 0..Len(Visited)
    /\ wire \in Seq(Message) /\ Len(wire) <= MaxWire
    /\ top \in Row
    /\ spoiled \in BOOLEAN

(* What a message tells of its auction is in its row.                      *)
Truthful(m, table) == ~Behind(table[m.id], m.data) /\ (m.type = "auction_ended" => m.data.status = 2)

(* Messages know no more than the rows, nor does what is shown and what    *)
(* has been published; and how the page stands to its requests.            *)
Page ==
    /\ row[Watched].status # 0
    /\ \A i \in 1..Len(wire) : Truthful(wire[i], row)
    /\ ~Behind(row[Watched], top)
    /\ NeverAhead
    /\ \A f \in fetching : req[f].id = Watched /\ req[f].op = "get" /\ req[f].pc \in {"set", "answer"}
    /\ ~open => shown = None /\ fetching = {}

Safe == Inv /\ Known /\ PageTypeOK /\ Page

LEMMA InitSafe == RealtimeInit => Safe
<1>. SUFFICES ASSUME RealtimeInit PROVE Safe
  OBVIOUS
<1>1. Inv /\ Known
  BY InitInv, InitKnown DEF RealtimeInit
<1>2. /\ open = FALSE /\ shown = None /\ from = Of(Watched) /\ fetching = {}
      /\ joined \in 0..Len(Visited) /\ wire = <<>> /\ top = New /\ spoiled = FALSE
      /\ row[Watched] = New
  BY DEF RealtimeInit, InitPage
<1>3. wire \in Seq(Message) /\ Len(wire) = 0 /\ 1..Len(wire) = {}
  BY <1>2
<1>4. PageTypeOK
  <2>1. Len(wire) <= MaxWire
    BY <1>3, RealtimeAssumption
  <2>2. from \in Source
    BY <1>2, OfFacts, RealtimeAssumption
  <2>. QED  BY <1>2, <1>3, <2>1, <2>2, NewIsRow DEF PageTypeOK
<1>5. New \in Records /\ New.status = 1
  BY NewIsRow DEF Records, New, Absent
<1>6. ~Behind(row[Watched], top) /\ row[Watched].status # 0
  BY <1>2, <1>5, BehindReflexive
<1>7. NeverAhead
  BY <1>2 DEF NeverAhead
<1>8. Page
  BY <1>2, <1>3, <1>6, <1>7 DEF Page
<1>. QED  BY <1>1, <1>4, <1>8 DEF Safe
(* What is known of an auction stays known.                                *)
LEMMA StaysBehind ==
    ASSUME Inv, Inv', RowsGrow, NEW a \in Auctions, NEW x \in Row, ~Behind(row[a], x)
    PROVE  ~Behind(row'[a], x)
<1>1. /\ row[a] \in Records /\ row'[a] \in Records /\ x \in Records
      /\ ~Behind(row'[a], row[a])
  BY DEF Inv, TypeOK, Records, RowsGrow
<1>. QED  BY <1>1, BehindTransitive

LEMMA StaysTruthful ==
    ASSUME Inv, Inv', RowsGrow, NEW m \in Message, Truthful(m, row)
    PROVE  Truthful(m, row')
<1>1. m.id \in Auctions /\ m.data \in Row
  BY DEF Message
<1>. QED  BY <1>1, StaysBehind DEF Truthful

LEMMA StaysThere ==
    ASSUME Inv, Inv', RowsGrow, row[Watched].status # 0
    PROVE  row'[Watched].status # 0
<1>1. Watched \in Auctions
  BY RealtimeAssumption
<1>2. /\ row[Watched].status \in 0..2 /\ row'[Watched].status \in 0..2
      /\ ~Behind(row'[Watched], row[Watched])
  BY <1>1, RecordFacts DEF Inv, TypeOK, Records, RowsGrow
<1>. QED  BY <1>2 DEF Behind

LEMMA NeverAheadStays ==
    ASSUME Inv, Inv', RowsGrow, PageTypeOK, NeverAhead, UNCHANGED <<shown, from>>
    PROVE  NeverAhead'
<1>. SUFFICES ASSUME shown # None
              PROVE  /\ shown.status <= row'[from.status].status
                     /\ shown.price <= row'[from.price].price
                     /\ shown.text <= row'[from.text].text
  BY DEF NeverAhead
<1>1. from.status \in Auctions /\ from.price \in Auctions /\ from.text \in Auctions /\ shown \in Records
  BY DEF PageTypeOK, Source, Records
<1>2. ASSUME NEW a \in Auctions
      PROVE  /\ row[a].status \in Nat /\ row[a].price \in Nat /\ row[a].text \in Nat
             /\ row'[a].status \in Nat /\ row'[a].price \in Nat /\ row'[a].text \in Nat
             /\ row[a].status <= row'[a].status /\ row[a].price <= row'[a].price /\ row[a].text <= row'[a].text
  <2>1. row[a] \in Records /\ row'[a] \in Records /\ ~Behind(row'[a], row[a])
    BY DEF Inv, TypeOK, Records, RowsGrow
  <2>2. /\ row[a].status \in Nat /\ row[a].price \in Nat /\ row[a].text \in Nat
        /\ row'[a].status \in Nat /\ row'[a].price \in Nat /\ row'[a].text \in Nat
    BY <2>1, RecordFacts
  <2>. QED  BY <2>1, <2>2 DEF Behind
<1>3. shown.status \in Nat /\ shown.price \in Nat /\ shown.text \in Nat
  BY <1>1, RecordFacts
<1>4. /\ shown.status <= row[from.status].status /\ shown.price <= row[from.price].price
      /\ shown.text <= row[from.text].text
  BY DEF NeverAhead
<1>. QED  BY <1>1, <1>2, <1>3, <1>4

LEMMA WireFacts ==
    ASSUME PageTypeOK, NEW i \in 1..Len(wire)
    PROVE  wire[i] \in Message /\ wire[i].type \in Kinds /\ wire[i].id \in Auctions /\ wire[i].data \in Row
<1>1. wire[i] \in Message
  BY DEF PageTypeOK
<1>. QED  BY <1>1 DEF Message

(* A step of some request, seen by another one.                            *)
LEMMA OthersStay ==
    ASSUME TypeOK, NEW r \in Requests,
           Begins(r) \/ Works(r) \/ CastFeed(r) \/ Cast(r) \/ Answer(r) \/ Abort(r),
           NEW x \in Requests, x # r
    PROVE  req'[x] = req[x]
<1>1. \E q : Goto(r, q)
  <2>1. CASE Begins(r)
    BY <2>1 DEF Begins, Begin, ReadDetail, GetByID, Bid, EditCheck, Create, CloseScan, ReadList
  <2>2. CASE Works(r)
    BY <2>2 DEF Works, FillDetail, CountList, FillList, EditWrite, CloseCommit, Invalidate,
                ScanLists, DelLists, ReadBack, GetByID
  <2>3. CASE CastFeed(r) \/ Cast(r) \/ Answer(r) \/ Abort(r)
    BY <2>3 DEF CastFeed, Cast, Answer, Abort
  <2>. QED  BY <2>1, <2>2, <2>3
<1>. QED  BY <1>1 DEF Goto, TypeOK

(* The requests of the page go on, and keep what they have read.           *)
LEMMA FetchesGoOn ==
    ASSUME Safe, NEW f \in fetching, NEW r \in Requests,
           \/ Begins(r) \/ Works(r) \/ CastFeed(r) \/ Cast(r)
           \/ f # r /\ (Answer(r) \/ Abort(r))
    PROVE  /\ req'[f].id = Watched /\ req'[f].op = "get"
           /\ req'[f].pc \in {"set", "answer"}
           /\ req'[f].val = req[f].val
<1>0. /\ req[f].id = Watched /\ req[f].op = "get"
      /\ req[f].pc \in {"set", "answer"}
      /\ TypeOK /\ f \in Requests
  BY DEF Safe, Inv, Page, PageTypeOK
<1>1. CASE f # r
  BY <1>0, <1>1, OthersStay
<1>2. CASE f = r
  <2>1. ~Begins(r) /\ ~Cast(r) /\ ~CastFeed(r)
    BY <1>0, <1>2 DEF Begins, Begin, ReadDetail, Bid, EditCheck, Create, CloseScan, ReadList, Cast, CastFeed, At
  <2>2. FillDetail(r)
    BY <1>0, <1>2, <2>1 DEF Works, CountList, FillList, EditWrite, CloseCommit, Invalidate,
                            ScanLists, DelLists, ReadBack, At
  <2>3. req'[r] = Step(r, "answer")
    BY <1>0, <1>2, <2>2 DEF FillDetail, Answering, Goto, TypeOK
  <2>. QED  BY <1>0, <1>2, <2>3, StepIsRequest DEF Pcs
<1>. QED  BY <1>1, <1>2

(* Steps that put nothing on the wire and publish nothing, and leave the   *)
(* page as it is or close it.                                              *)
LEMMA PageStays ==
    ASSUME Safe, Inv', RowsGrow, UNCHANGED <<wire, top>>,
           open' \in BOOLEAN, joined' \in 0..Len(Visited), spoiled' \in BOOLEAN,
           \/ UNCHANGED <<shown, from, fetching>> /\ (open => open')
           \/ shown' = None /\ from' = Of(Watched) /\ fetching' = {},
           \A f \in fetching' : /\ req'[f].id = Watched /\ req'[f].op = "get"
                                /\ req'[f].pc \in {"set", "answer"}
    PROVE  PageTypeOK' /\ Page'
<1>. USE DEF Safe
<1>1. /\ shown' \in Row \cup {None} /\ from' \in Source /\ fetching' \subseteq Requests
      /\ NeverAhead'
      /\ ~open' => shown' = None /\ fetching' = {}
  <2>1. CASE UNCHANGED <<shown, from, fetching>> /\ (open => open')
    BY <2>1, NeverAheadStays DEF PageTypeOK, Page
  <2>2. CASE shown' = None /\ from' = Of(Watched) /\ fetching' = {}
    BY <2>2, OfFacts, RealtimeAssumption DEF NeverAhead
  <2>. QED  BY <2>1, <2>2
<1>2. PageTypeOK'
  BY <1>1 DEF PageTypeOK
<1>3. row'[Watched].status # 0
  BY StaysThere DEF Page
<1>4. ~Behind(row'[Watched], top)
  BY StaysBehind, RealtimeAssumption DEF Page, PageTypeOK
<1>5. \A i \in 1..Len(wire) : Truthful(wire[i], row')
  BY StaysTruthful, WireFacts DEF Page
<1>. QED  BY <1>1, <1>2, <1>3, <1>4, <1>5 DEF Page

(* A message is put on the wire, or lost on the way, or of no concern.     *)
LEMMA SendSafe ==
    ASSUME Safe, Inv', RowsGrow, UNCHANGED <<open, shown, from, fetching, joined>>, spoiled' \in BOOLEAN,
           \A f \in fetching : /\ req'[f].id = Watched /\ req'[f].op = "get"
                               /\ req'[f].pc \in {"set", "answer"},
           NEW m \in Message, Truthful(m, row),
           wire' = wire \/ (Len(wire) < MaxWire /\ wire' = Append(wire, m)),
           top' = top \/ (m.id = Watched /\ top' = Newest(top, Apply(m, top)))
    PROVE  PageTypeOK' /\ Page'
<1>. USE DEF Safe
<1>1. /\ top \in Row /\ row[Watched] \in Records /\ ~Behind(row[Watched], top)
      /\ Watched \in Auctions
  BY RealtimeAssumption DEF Inv, TypeOK, PageTypeOK, Page, Records
<1>2. top' \in Row /\ ~Behind(row[Watched], top')
  <2>1. CASE top' = top
    BY <1>1, <2>1
  <2>2. CASE m.id = Watched /\ top' = Newest(top, Apply(m, top))
    <3>. DEFINE now == Apply(m, top)
    <3>1. now \in Row /\ ~Behind(row[Watched], now)
      BY <1>1, <2>2, ApplyCases, ApplyBounded DEF Truthful
    <3>. HIDE DEF now
    <3>. QED  BY <1>1, <2>2, <3>1, NewestFacts DEF now
  <2>. QED  BY <2>1, <2>2
<1>3. ~Behind(row'[Watched], top')
  <2>. DEFINE n == top'
  <2>1. n \in Row /\ ~Behind(row[Watched], n)
    BY <1>2
  <2>. HIDE DEF n
  <2>2. ~Behind(row'[Watched], n)
    BY <1>1, <2>1, StaysBehind
  <2>. QED  BY <2>2 DEF n
<1>4. /\ wire' \in Seq(Message) /\ Len(wire') <= MaxWire
      /\ \A i \in 1..Len(wire') : wire'[i] = m \/ (i \in 1..Len(wire) /\ wire'[i] = wire[i])
  <2>1. CASE wire' = wire
    BY <2>1 DEF PageTypeOK
  <2>2. CASE Len(wire) < MaxWire /\ wire' = Append(wire, m)
    <3>1. wire \in Seq(Message) /\ Len(wire) \in Nat
      BY DEF PageTypeOK
    <3>2. /\ wire' \in Seq(Message) /\ Len(wire') = Len(wire) + 1
          /\ \A i \in 1..Len(wire) : wire'[i] = wire[i]
          /\ wire'[Len(wire) + 1] = m
      BY <2>2, <3>1
    <3>. QED  BY <2>2, <3>1, <3>2, RealtimeAssumption
  <2>. QED  BY <2>1, <2>2
<1>5. ASSUME NEW i \in 1..Len(wire') PROVE Truthful(wire'[i], row')
  <2>1. Truthful(m, row')
    BY StaysTruthful
  <2>2. ASSUME i \in 1..Len(wire) PROVE Truthful(wire[i], row')
    BY <2>2, StaysTruthful, WireFacts DEF Page
  <2>. QED  BY <1>4, <2>1, <2>2
<1>6. PageTypeOK'
  BY <1>2, <1>4 DEF PageTypeOK
<1>7. row'[Watched].status # 0 /\ NeverAhead' /\ (~open' => shown' = None /\ fetching' = {})
  BY StaysThere, NeverAheadStays DEF Page
<1>. QED  BY <1>3, <1>5, <1>6, <1>7 DEF Page

LEMMA PublishSafe ==
    ASSUME Safe, Inv', RowsGrow, NEW r \in Requests, Publish(r) \/ PublishFeed(r)
    PROVE  PageTypeOK' /\ Page'
<1>. DEFINE m == MessageOf(r)
<1>1. /\ Cast(r) \/ CastFeed(r)
      /\ At(r, "cast") \/ At(r, "feed")
      /\ UNCHANGED <<open, shown, from, fetching, joined>>
  BY DEF Publish, PublishFeed, Cast, CastFeed
<1>2. /\ wire' = wire \/ (Len(wire) < MaxWire /\ wire' = Append(wire, m))
      /\ top' = top \/ (m.id = Watched /\ top' = Newest(top, Apply(m, top)))
      /\ spoiled' \in BOOLEAN
  BY DEF Publish, PublishFeed, Reaches, Counts, Safe, PageTypeOK
<1>3. m \in Message /\ Truthful(m, row)
  BY <1>1, MessageFacts DEF Safe, Truthful
<1>4. \A f \in fetching : /\ req'[f].id = Watched /\ req'[f].op = "get"
                          /\ req'[f].pc \in {"set", "answer"}
  BY <1>1, FetchesGoOn
<1>. HIDE DEF m
<1>. QED  BY <1>1, <1>2, <1>3, <1>4, SendSafe

LEMMA FetchSafe ==
    ASSUME Safe, Inv', RowsGrow, NEW r \in Requests, Fetch(r)
    PROVE  PageTypeOK' /\ Page'
<1>. USE DEF Safe
<1>1. /\ fetching' = fetching \cup {r} /\ ReadDetail(r, Watched) /\ open
      /\ UNCHANGED <<open, shown, from, joined, wire, top, row>> /\ spoiled' \in BOOLEAN
  BY DEF Fetch, ReadDetail, PageTypeOK
<1>2. req'[r].id = Watched /\ req'[r].op = "get" /\ req'[r].pc \in {"set", "answer"}
  <2>. DEFINE q == [Idle EXCEPT !.id = Watched]
  <2>1. q \in Request /\ q.id = Watched /\ q.op = "get"
    BY IdleIsRequest, RealtimeAssumption DEF Request, Idle
  <2>2. \/ req'[r] = [q EXCEPT !.pc = "answer", !.val = detail[q.id]]
        \/ req'[r] = [q EXCEPT !.pc = "set", !.val = GetAuctionByID(q.id)]
    BY <1>1 DEF ReadDetail, GetByID, Goto, Inv, TypeOK
  <2>. HIDE DEF q
  <2>. QED  BY <2>1, <2>2 DEF Request
<1>3. Begins(r)
  BY <1>1, RealtimeAssumption DEF Begins
<1>4. \A f \in fetching' : /\ req'[f].id = Watched /\ req'[f].op = "get"
                           /\ req'[f].pc \in {"set", "answer"}
  BY <1>1, <1>2, <1>3, FetchesGoOn
<1>5. PageTypeOK'
  BY <1>1 DEF PageTypeOK
<1>6. NeverAhead'
  BY <1>1 DEF Page, NeverAhead
<1>. QED  BY <1>1, <1>4, <1>5, <1>6 DEF Page

LEMMA LoadSafe ==
    ASSUME Safe, Inv', RowsGrow, NEW r \in Requests, Load(r)
    PROVE  PageTypeOK' /\ Page'
<1>. USE DEF Safe
<1>1. /\ r \in fetching /\ fetching' = fetching \ {r} /\ shown' = req[r].val /\ from' = Of(Watched)
      /\ Answer(r) /\ req[r].pc = "answer"
      /\ UNCHANGED <<open, joined, wire, top, spoiled, row>>
  BY DEF Load, Answer, At
<1>2. req[r].id = Watched /\ req[r].val \in Row /\ ~Behind(row[Watched], req[r].val) /\ Watched \in Auctions
  BY <1>1, RealtimeAssumption DEF Page, Inv, Exists, Known, KnownOf
<1>3. from' \in Source /\ from'.status = Watched /\ from'.price = Watched /\ from'.text = Watched
  BY <1>1, <1>2, OfFacts
<1>4. PageTypeOK'
  BY <1>1, <1>2, <1>3 DEF PageTypeOK
<1>5. NeverAhead'
  <2>1. /\ row[Watched].status \in Nat /\ row[Watched].price \in Nat /\ row[Watched].text \in Nat
        /\ req[r].val.status \in Nat /\ req[r].val.price \in Nat /\ req[r].val.text \in Nat
    BY <1>2, RecordFacts DEF Records, Inv, TypeOK
  <2>2. /\ req[r].val.status <= row[Watched].status /\ req[r].val.price <= row[Watched].price
        /\ req[r].val.text <= row[Watched].text
    BY <1>2, <2>1 DEF Behind
  <2>. QED  BY <1>1, <1>3, <2>2 DEF NeverAhead
<1>6. \A f \in fetching' : /\ req'[f].id = Watched /\ req'[f].op = "get"
                           /\ req'[f].pc \in {"set", "answer"}
  BY <1>1, FetchesGoOn
<1>7. open' /\ row'[Watched].status # 0 /\ ~Behind(row'[Watched], top')
      /\ \A i \in 1..Len(wire') : Truthful(wire'[i], row')
  BY <1>1 DEF Page, PageTypeOK
<1>. QED  BY <1>4, <1>5, <1>6, <1>7 DEF Page

LEMMA EndsSafe ==
    ASSUME Safe, Inv', RowsGrow, NEW r \in Requests, Ends(r)
    PROVE  PageTypeOK' /\ Page'
<1>1. /\ Abort(r) /\ UNCHANGED <<joined, wire, top>>
      /\ open' \in BOOLEAN /\ joined' \in 0..Len(Visited) /\ spoiled' \in BOOLEAN
  BY DEF Ends, Left, Safe, PageTypeOK
<1>2. CASE r \in fetching
  <2>1. shown' = None /\ from' = Of(Watched) /\ fetching' = {}
    BY <1>2 DEF Ends, Left
  <2>. QED  BY <1>1, <2>1, PageStays
<1>3. CASE r \notin fetching
  <2>1. UNCHANGED <<open, shown, from, fetching>>
    BY <1>3 DEF Ends
  <2>2. \A f \in fetching' : /\ req'[f].id = Watched /\ req'[f].op = "get"
                             /\ req'[f].pc \in {"set", "answer"}
    BY <1>1, <1>3, <2>1, FetchesGoOn
  <2>. QED  BY <1>1, <2>1, <2>2, PageStays
<1>. QED  BY <1>2, <1>3

LEMMA ConnectionSafe ==
    ASSUME Safe, Inv', RowsGrow, Open \/ Leave \/ Subscribe \/ Disconnect
    PROVE  PageTypeOK' /\ Page'
<1>1. /\ UNCHANGED <<vars, top>>
      /\ open' \in BOOLEAN /\ joined' \in 0..Len(Visited) /\ spoiled' \in BOOLEAN
  <2>1. joined \in 0..Len(Visited) /\ Len(Visited) \in Nat
    BY RealtimeAssumption DEF Safe, PageTypeOK
  <2>2. joined' \in 0..Len(Visited)
    BY <2>1 DEF Open, Leave, Left, Subscribe, Disconnect
  <2>. QED  BY <2>2 DEF Open, Leave, Left, Subscribe, Disconnect, Safe, PageTypeOK
<1>2. ASSUME NEW f \in fetching
      PROVE  /\ req'[f].id = Watched /\ req'[f].op = "get"
             /\ req'[f].pc \in {"set", "answer"}
  BY <1>1 DEF Safe, Page, vars
<1>3. CASE Open \/ Leave \/ Subscribe
  <2>1. wire' = wire
    BY <1>3 DEF Open, Leave, Subscribe
  <2>2. \/ UNCHANGED <<shown, from, fetching>> /\ (open => open')
        \/ shown' = None /\ from' = Of(Watched) /\ fetching' = {}
    BY <1>3 DEF Open, Leave, Left, Subscribe
  <2>. QED  BY <1>1, <1>2, <2>1, <2>2, PageStays
<1>4. CASE Disconnect
  <2>1. wire' = <<>> /\ UNCHANGED <<vars, open, shown, from, fetching, top>>
    BY <1>4 DEF Disconnect
  <2>2. Len(wire') = 0 /\ 1..Len(wire') = {} /\ wire' \in Seq(Message)
    BY <2>1
  <2>3. PageTypeOK'
    BY <1>1, <2>1, <2>2, RealtimeAssumption DEF Safe, PageTypeOK
  <2>4. NeverAhead'
    BY <2>1 DEF Safe, Page, NeverAhead, vars
  <2>. QED  BY <2>1, <2>2, <2>3, <2>4 DEF Safe, Page, vars
<1>. QED  BY <1>3, <1>4

(* The handler, and where what it shows is taken from.                     *)
LEMMA HandlerFacts ==
    ASSUME Inv, NEW m \in Message, Truthful(m, row), NEW f \in Source,
           NEW a \in Row \cup {None}, a = None => m.type = "auction_updated",
           a # None => /\ a.status <= row[f.status].status /\ a.price <= row[f.price].price
                       /\ a.text <= row[f.text].text
    PROVE  LET b == Apply(m, a)
               g == ApplySource(m, f)
           IN  /\ b \in Row /\ g \in Source
               /\ b.status <= row[g.status].status /\ b.price <= row[g.price].price
               /\ b.text <= row[g.text].text
<1>1. /\ m.type \in Kinds /\ m.id \in Auctions /\ m.data \in Row
      /\ row[m.id] \in Records /\ m.data \in Records /\ ~Behind(row[m.id], m.data)
      /\ m.type = "auction_ended" => m.data.status = 2
  BY DEF Message, Truthful, Inv, TypeOK, Records
<1>2. /\ m.data.status <= row[m.id].status /\ m.data.price <= row[m.id].price /\ m.data.text <= row[m.id].text
  <2>1. /\ m.data.status \in Nat /\ m.data.price \in Nat /\ m.data.text \in Nat
        /\ row[m.id].status \in Nat /\ row[m.id].price \in Nat /\ row[m.id].text \in Nat
    BY <1>1, RecordFacts
  <2>. QED  BY <1>1, <2>1 DEF Behind
<1>3. CASE m.type = "auction_updated"
  <2>1. Apply(m, a) = m.data /\ ApplySource(m, f) = Of(m.id)
    BY <1>3, SourceFacts DEF Apply
  <2>. QED  BY <1>1, <1>2, <2>1, OfFacts
<1>4. CASE m.type # "auction_updated"
  <2>1. a \in Row
    BY <1>4
  <2>2. /\ Apply(m, a) \in Row
        /\ m.type = "new_bid" => /\ Apply(m, a).price = m.data.price
                                 /\ Apply(m, a).status = a.status /\ Apply(m, a).text = a.text
        /\ m.type = "auction_ended" => /\ Apply(m, a).price = m.data.price
                                       /\ Apply(m, a).status = 2 /\ Apply(m, a).text = a.text
    BY <2>1, ApplyCases
  <2>3. a # None
    BY <2>1, RealtimeAssumption
  <2>. QED  BY <1>1, <1>2, <1>4, <2>2, <2>3, SourceFacts DEF Kinds
<1>. QED  BY <1>3, <1>4

LEMMA ReceiveSafe ==
    ASSUME Safe, Inv', RowsGrow, Receive
    PROVE  PageTypeOK' /\ Page'
<1>. USE DEF Safe
<1>1. /\ wire # <<>> /\ wire' = Tail(wire) /\ UNCHANGED <<row, req, open, fetching, joined, top>>
      /\ spoiled' \in BOOLEAN
  BY DEF Receive, PageTypeOK, vars
<1>2. wire \in Seq(Message) /\ Len(wire) <= MaxWire /\ MaxWire \in Nat
  BY RealtimeAssumption DEF PageTypeOK
<1>3. /\ Len(wire) \in Nat /\ Len(wire) > 0
      /\ wire' \in Seq(Message) /\ Len(wire') = Len(wire) - 1
      /\ \A i \in 1..Len(wire') : i + 1 \in 1..Len(wire) /\ wire'[i] = wire[i + 1]
      /\ Head(wire) = wire[1] /\ 1 \in 1..Len(wire)
  BY <1>1, <1>2
<1>. DEFINE m == Head(wire)
            heard == open /\ (shown # None \/ m.type = "auction_updated")
<1>4. m \in Message /\ Truthful(m, row)
  BY <1>3, WireFacts DEF Page
<1>5. /\ shown' = IF heard THEN Apply(m, shown) ELSE shown
      /\ from' = IF heard THEN ApplySource(m, from) ELSE from
  BY DEF Receive
<1>. HIDE DEF m
<1>6. shown' \in Row \cup {None} /\ from' \in Source /\ NeverAhead' /\ (~open => shown' = None)
  <2>1. CASE ~heard
    <3>1. shown' = shown /\ from' = from
      BY <1>5, <2>1
    <3>. QED  BY <1>1, <3>1 DEF PageTypeOK, Page, NeverAhead
  <2>2. CASE heard
    <3>1. shown \in Row \cup {None} /\ from \in Source /\ (shown = None => m.type = "auction_updated")
      BY <2>2 DEF PageTypeOK
    <3>2. shown # None => /\ shown.status <= row[from.status].status /\ shown.price <= row[from.price].price
                          /\ shown.text <= row[from.text].text
      BY DEF Page, NeverAhead
    <3>3. shown' = Apply(m, shown) /\ from' = ApplySource(m, from)
      BY <1>5, <2>2
    <3>4. /\ shown' \in Row /\ from' \in Source
          /\ shown'.status <= row[from'.status].status /\ shown'.price <= row[from'.price].price
          /\ shown'.text <= row[from'.text].text
      BY <1>4, <3>1, <3>2, <3>3, HandlerFacts
    <3>. QED  BY <1>1, <2>2, <3>4 DEF NeverAhead
  <2>. QED  BY <2>1, <2>2
<1>7. PageTypeOK'
  BY <1>1, <1>2, <1>3, <1>6 DEF PageTypeOK
<1>8. ASSUME NEW i \in 1..Len(wire') PROVE Truthful(wire'[i], row')
  BY <1>1, <1>3 DEF Page, Truthful
<1>. QED  BY <1>1, <1>6, <1>7, <1>8 DEF Page

LEMMA SafeStep == Safe /\ [Next2]_allVars => Safe'
<1>. SUFFICES ASSUME Safe, [Next2]_allVars PROVE Safe'
  OBVIOUS
<1>1. Inv' /\ RowsGrow /\ Known'
  BY NextIsNext, NextInv, RowsOnlyGrow, KnownStep DEF Safe
<1>. SUFFICES PageTypeOK' /\ Page'
  BY <1>1 DEF Safe
<1>2. ASSUME NEW r \in Requests, Proceed(r) \/ (Answer(r) /\ r \notin fetching /\ UNCHANGED pageVars)
      PROVE  PageTypeOK' /\ Page'
  <2>1. /\ UNCHANGED <<open, shown, from, fetching, joined, wire, top>> /\ spoiled' \in BOOLEAN
        /\ open \in BOOLEAN /\ joined \in 0..Len(Visited)
    BY <1>2 DEF Proceed, pageVars, Safe, PageTypeOK
  <2>2. \A f \in fetching : /\ req'[f].id = Watched /\ req'[f].op = "get"
                            /\ req'[f].pc \in {"set", "answer"}
    BY <1>2, FetchesGoOn DEF Proceed
  <2>. QED  BY <1>1, <2>1, <2>2, PageStays
<1>3. ASSUME NEW r \in Requests, Publish(r) \/ PublishFeed(r) \/ Fetch(r) \/ Load(r) \/ Ends(r)
      PROVE  PageTypeOK' /\ Page'
  BY <1>1, <1>3, PublishSafe, FetchSafe, LoadSafe, EndsSafe
<1>4. CASE (Expires /\ UNCHANGED pageVars) \/ UNCHANGED allVars
  <2>1. /\ UNCHANGED <<open, shown, from, fetching, joined, wire, top>> /\ spoiled' \in BOOLEAN
        /\ open \in BOOLEAN /\ joined \in 0..Len(Visited)
        /\ UNCHANGED req
    BY <1>4 DEF pageVars, allVars, vars, Expires, ExpireDetail, ExpireList, Safe, PageTypeOK
  <2>2. \A f \in fetching : /\ req'[f].id = Watched /\ req'[f].op = "get"
                            /\ req'[f].pc \in {"set", "answer"}
    BY <2>1 DEF Safe, Page
  <2>. QED  BY <1>1, <2>1, <2>2, PageStays
<1>5. CASE Open \/ Leave \/ Subscribe \/ Disconnect \/ Receive
  BY <1>1, <1>5, ConnectionSafe, ReceiveSafe
<1>. QED  BY <1>2, <1>3, <1>4, <1>5 DEF Next2
-----------------------------------------------------------------------------
(* While nothing has been spoiled, whatever of the row has not been        *)
(* published is still to be published by some request.                     *)
OwesBid(q, t)  == q.op = "bid" /\ q.pc = "cast" /\ q.id = Watched /\ q.val.price = t.price
OwesEnd(q)     == q.op = "close" /\ q.pc = "cast" /\ q.id = Watched
OwesText(q, t) ==
    /\ q.op = "edit" /\ q.id = Watched
    /\ q.pc \in {"del", "scan", "dellist", "get"} \/ (q.pc \in {"set", "feed", "cast"} /\ q.val.text = t.text)

Owed ==
    /\ row[Watched].price > top.price => \E r \in Requests : OwesBid(req[r], row[Watched])
    /\ row[Watched].status > top.status => \E r \in Requests : OwesEnd(req[r])
    /\ row[Watched].text > top.text => \E r \in Requests : OwesText(req[r], row[Watched])

(* What changes the row of the page's auction is then owed by who did it.  *)
LEMMA ChangesAreOwed ==
    ASSUME Safe, Inv', NEW r \in Requests, Begins(r) \/ Works(r)
    PROVE  /\ row'[Watched].price = row[Watched].price \/ OwesBid(req'[r], row'[Watched])
           /\ row'[Watched].status = row[Watched].status \/ OwesEnd(req'[r])
           /\ row'[Watched].text = row[Watched].text \/ OwesText(req'[r], row'[Watched])
<1>. USE DEF Safe
<1>0. /\ row \in [Auctions -> Records] /\ Watched \in Auctions /\ row[Watched] \in Row
      /\ row[Watched] # Absent
      /\ req \in [Requests -> Request]
  BY RealtimeAssumption, RowFacts DEF Inv, TypeOK, Records, Page, Absent
<1>1. CASE UNCHANGED row
  BY <1>1
<1>2. ASSUME NEW a \in Auctions, Bid(r, a) PROVE ~UNCHANGED row =>
         /\ row'[Watched].price = row[Watched].price \/ OwesBid(req'[r], row'[Watched])
         /\ row'[Watched].status = row[Watched].status
         /\ row'[Watched].text = row[Watched].text
  <2>. DEFINE q == [Idle EXCEPT !.op = "bid", !.pc = "cast", !.id = a, !.val = row'[a]]
  <2>1. row' = [row EXCEPT ![a].price = @ + 1] /\ req'[r] = q
    BY <1>0, <1>2 DEF Bid, UpdateAuctionBid, Goto
  <2>2. q.pc = "cast" /\ q.op = "bid" /\ q.id = a /\ q.val = row'[a]
    BY DEF Idle
  <2>. HIDE DEF q
  <2>3. CASE a = Watched
    <3>1. row'[Watched] = [row[Watched] EXCEPT !.price = row[Watched].price + 1]
      BY <1>0, <2>1, <2>3
    <3>2. row'[Watched].status = row[Watched].status /\ row'[Watched].text = row[Watched].text
      BY <1>0, <3>1 DEF Row
    <3>. QED  BY <2>1, <2>2, <2>3, <3>2 DEF OwesBid
  <2>4. CASE a # Watched
    <3>1. row'[Watched] = row[Watched]
      BY <1>0, <2>1, <2>4
    <3>. QED  BY <3>1
  <2>. QED  BY <2>3, <2>4
<1>3. ASSUME NEW a \in Auctions, Create(r, a) PROVE row'[Watched] = row[Watched]
  BY <1>0, <1>3 DEF Create, CreateAuction
<1>4. ASSUME EditWrite(r) PROVE
         /\ row'[Watched].text = row[Watched].text \/ OwesText(req'[r], row'[Watched])
         /\ row'[Watched].status = row[Watched].status
         /\ row'[Watched].price = row[Watched].price
  <2>1. row' = [row EXCEPT ![req[r].id].text = @ + 1] /\ req'[r] = Step(r, "del") /\ req[r].pc = "write"
    BY <1>0, <1>4 DEF EditWrite, UpdateAuction, Goto, At
  <2>2. req'[r].pc = "del" /\ req'[r].op = "edit" /\ req'[r].id = req[r].id
    BY <2>1, StepIsRequest DEF Inv, Known, Role, Pcs
  <2>3. CASE req[r].id = Watched
    <3>1. row'[Watched] = [row[Watched] EXCEPT !.text = row[Watched].text + 1]
      BY <1>0, <2>1, <2>3
    <3>2. row'[Watched].status = row[Watched].status /\ row'[Watched].price = row[Watched].price
      BY <1>0, <3>1 DEF Row
    <3>. QED  BY <2>2, <2>3, <3>2 DEF OwesText
  <2>4. CASE req[r].id # Watched
    <3>1. row'[Watched] = row[Watched]
      BY <1>0, <2>1, <2>4
    <3>. QED  BY <3>1
  <2>. QED  BY <2>3, <2>4
<1>5. ASSUME CloseCommit(r) PROVE
         /\ row'[Watched].text = row[Watched].text
         /\ row'[Watched].status = row[Watched].status \/ OwesEnd(req'[r])
         /\ row'[Watched].price = row[Watched].price
  <2>1. row' = [row EXCEPT ![req[r].id].status = 2] /\ req'[r] = Step(r, "cast") /\ req[r].pc = "end"
    BY <1>0, <1>5 DEF CloseCommit, CloseAuctionByID, Goto, At
  <2>2. req'[r].pc = "cast" /\ req'[r].op = "close" /\ req'[r].id = req[r].id
    BY <2>1, StepIsRequest DEF Inv, Known, Role, Pcs
  <2>3. CASE req[r].id = Watched
    <3>1. row'[Watched] = [row[Watched] EXCEPT !.status = 2]
      BY <1>0, <2>1, <2>3
    <3>2. row'[Watched].text = row[Watched].text /\ row'[Watched].price = row[Watched].price
      BY <1>0, <3>1 DEF Row
    <3>. QED  BY <2>2, <2>3, <3>2 DEF OwesEnd
  <2>4. CASE req[r].id # Watched
    <3>1. row'[Watched] = row[Watched]
      BY <1>0, <2>1, <2>4
    <3>. QED  BY <3>1
  <2>. QED  BY <2>3, <2>4
<1>6. CASE Begins(r)
  <2>1. ASSUME NEW a \in Auctions, ReadDetail(r, a) \/ EditCheck(r, a) \/ CloseScan(r, a) PROVE UNCHANGED row
    BY <2>1 DEF ReadDetail, EditCheck, CloseScan
  <2>2. ASSUME NEW k \in Keys, ReadList(r, k) PROVE UNCHANGED row
    BY <2>2 DEF ReadList
  <2>. QED  BY <1>1, <1>2, <1>3, <1>6, <2>1, <2>2 DEF Begins
<1>7. CASE Works(r)
  <2>1. EditWrite(r) \/ CloseCommit(r) \/ UNCHANGED row
    BY <1>7 DEF Works, FillDetail, CountList, FillList, Invalidate, ScanLists, DelLists, ReadBack
  <2>. QED  BY <1>1, <1>4, <1>5, <2>1
<1>. QED  BY <1>6, <1>7

(* An edit goes on until it has published what it has read back, which is  *)
(* the row unless it spoils the page.                                      *)
LEMMA TextStaysOwed ==
    ASSUME Safe, Inv', NEW r \in Requests, Begins(r) \/ Works(r), OwesText(req[r], row[Watched]),
           At(r, "get") => req'[r].val = row[req[r].id]
    PROVE  OwesText(req'[r], row'[Watched])
<1>. USE DEF Safe
<1>0. /\ req \in [Requests -> Request]
      /\ req[r].op = "edit" /\ req[r].id = Watched
      /\ req[r].pc \in {"del", "scan", "dellist", "get", "set", "feed", "cast"}
      /\ req[r].pc = "set" => req[r].val.text = row[Watched].text
      /\ \A pc \in Pcs : /\ Step(r, pc).pc = pc /\ Step(r, pc).id = req[r].id
                         /\ Step(r, pc).op = req[r].op /\ Step(r, pc).val = req[r].val
                         /\ Step(r, pc) \in Request
  BY StepIsRequest DEF OwesText, Inv, TypeOK
<1>1. ~Begins(r)
  BY <1>0 DEF Begins, Begin, ReadDetail, Bid, EditCheck, Create, CloseScan, ReadList, At
<1>2. FillDetail(r) \/ Invalidate(r) \/ ScanLists(r) \/ DelLists(r) \/ ReadBack(r)
  BY <1>0, <1>1 DEF Works, CountList, FillList, EditWrite, CloseCommit, At
<1>3. row' = row
  BY <1>2 DEF FillDetail, Invalidate, ScanLists, DelLists, ReadBack
<1>4. CASE FillDetail(r)
  <2>1. req'[r] = Step(r, "feed") /\ req[r].pc = "set"
    BY <1>0, <1>4 DEF FillDetail, Answering, Goto, At
  <2>. QED  BY <1>0, <1>3, <2>1 DEF OwesText, Pcs
<1>5. CASE Invalidate(r)
  <2>1. req'[r] = Step(r, "scan")
    BY <1>0, <1>5 DEF Invalidate, Goto
  <2>. QED  BY <1>0, <2>1 DEF OwesText, Pcs
<1>6. CASE ScanLists(r)
  <2>1. req'[r] = [Step(r, "dellist") EXCEPT !.keys = CacheScan]
    BY <1>0, <1>6 DEF ScanLists, Goto
  <2>. QED  BY <1>0, <2>1 DEF OwesText, Pcs, Request
<1>7. CASE DelLists(r)
  <2>1. req'[r] = [Step(r, "get") EXCEPT !.keys = {}]
    BY <1>0, <1>7 DEF DelLists, Goto
  <2>. QED  BY <1>0, <2>1 DEF OwesText, Pcs, Request
<1>8. CASE ReadBack(r)
  <2>. DEFINE q == req[r]
  <2>1. /\ \/ req'[r] = [q EXCEPT !.pc = "feed", !.val = detail[q.id]]
           \/ req'[r] = [q EXCEPT !.pc = "set", !.val = GetAuctionByID(q.id)]
        /\ req'[r].val = row[Watched]
    BY <1>0, <1>8 DEF ReadBack, GetByID, Goto
  <2>2. q \in Request /\ q.op = "edit" /\ q.id = Watched
    BY <1>0
  <2>. HIDE DEF q
  <2>3. req'[r].pc \in {"set", "feed"} /\ req'[r].op = "edit" /\ req'[r].id = Watched
    BY <2>1, <2>2 DEF Request
  <2>. QED  BY <1>3, <2>1, <2>3 DEF OwesText
<1>. QED  BY <1>2, <1>4, <1>5, <1>6, <1>7, <1>8

(* A step of a request that has nothing to publish yet or any more.        *)
LEMMA OwedWorks ==
    ASSUME Safe, Inv', Owed, UNCHANGED top, NEW r \in Requests, Begins(r) \/ Works(r),
           At(r, "get") => req'[r].val = row[req[r].id]
    PROVE  Owed'
<1>0. /\ \A x \in Requests : x # r => req'[x] = req[x]
      /\ req[r].pc # "cast"
  <2>1. CASE Begins(r)
    BY <2>1, OthersStay DEF Safe, Inv, Begins, Begin, ReadDetail, Bid, EditCheck, Create, CloseScan, ReadList, At
  <2>2. CASE Works(r)
    BY <2>2, OthersStay DEF Safe, Inv, Works, FillDetail, CountList, FillList, EditWrite, CloseCommit,
                            Invalidate, ScanLists, DelLists, ReadBack, At
  <2>. QED  BY <2>1, <2>2
<1>1. ASSUME row'[Watched].price > top.price
      PROVE  \E x \in Requests : OwesBid(req'[x], row'[Watched])
  <2>1. CASE row'[Watched].price = row[Watched].price
    <3>1. PICK x \in Requests : OwesBid(req[x], row[Watched])
      BY <1>1, <2>1 DEF Owed
    <3>2. x # r
      BY <1>0, <3>1 DEF OwesBid
    <3>. QED  BY <1>0, <2>1, <3>1, <3>2 DEF OwesBid
  <2>. QED  BY <2>1, ChangesAreOwed
<1>2. ASSUME row'[Watched].status > top.status
      PROVE  \E x \in Requests : OwesEnd(req'[x])
  <2>1. CASE row'[Watched].status = row[Watched].status
    <3>1. PICK x \in Requests : OwesEnd(req[x])
      BY <1>2, <2>1 DEF Owed
    <3>2. x # r
      BY <1>0, <3>1 DEF OwesEnd
    <3>. QED  BY <1>0, <3>1, <3>2 DEF OwesEnd
  <2>. QED  BY <2>1, ChangesAreOwed
<1>3. ASSUME row'[Watched].text > top.text
      PROVE  \E x \in Requests : OwesText(req'[x], row'[Watched])
  <2>1. CASE row'[Watched].text = row[Watched].text
    <3>1. PICK x \in Requests : OwesText(req[x], row[Watched])
      BY <1>3, <2>1 DEF Owed
    <3>2. CASE x = r
      BY <3>1, <3>2, TextStaysOwed
    <3>3. CASE x # r
      BY <1>0, <2>1, <3>1, <3>3 DEF OwesText
    <3>. QED  BY <3>2, <3>3
  <2>. QED  BY <2>1, ChangesAreOwed
<1>4. top' = top
  OBVIOUS
<1>. QED  BY <1>1, <1>2, <1>3, <1>4 DEF Owed, OwesBid, OwesEnd, OwesText

(* Steps that change no row and leave every request with what it owes.     *)
LEMMA OwedStays ==
    ASSUME Safe, Safe', Owed, UNCHANGED row, ~Behind(top', top),
           \A x \in Requests : /\ OwesBid(req[x], row[Watched]) => OwesBid(req'[x], row[Watched])
                               /\ OwesEnd(req[x]) => OwesEnd(req'[x])
                               /\ OwesText(req[x], row[Watched]) => OwesText(req'[x], row[Watched])
    PROVE  Owed'
<1>1. row'[Watched] = row[Watched]
  OBVIOUS
<1>2. /\ top'.price \in Nat /\ top'.status \in Nat /\ top'.text \in Nat
      /\ top.price \in Nat /\ top.status \in Nat /\ top.text \in Nat
      /\ row[Watched].price \in Nat /\ row[Watched].status \in Nat /\ row[Watched].text \in Nat
  <2>1. top \in Records /\ top' \in Records /\ row[Watched] \in Records
    BY RealtimeAssumption DEF Safe, Inv, TypeOK, PageTypeOK, Records
  <2>. QED  BY <2>1, RecordFacts
<1>3. top'.price >= top.price /\ top'.status >= top.status /\ top'.text >= top.text
  BY <1>2 DEF Behind
<1>4. ASSUME row[Watched].price > top'.price PROVE \E x \in Requests : OwesBid(req'[x], row[Watched])
  BY <1>2, <1>3, <1>4 DEF Owed
<1>5. ASSUME row[Watched].status > top'.status PROVE \E x \in Requests : OwesEnd(req'[x])
  BY <1>2, <1>3, <1>5 DEF Owed
<1>6. ASSUME row[Watched].text > top'.text PROVE \E x \in Requests : OwesText(req'[x], row[Watched])
  BY <1>2, <1>3, <1>6 DEF Owed
<1>. QED  BY <1>1, <1>4, <1>5, <1>6 DEF Owed, OwesBid, OwesEnd, OwesText

LEMMA TopSame == ASSUME Safe, UNCHANGED top PROVE ~Behind(top', top)
  BY BehindReflexive DEF Safe, PageTypeOK, Records

(* Steps of requests that owe nothing.                                     *)
LEMMA OwedOther ==
    ASSUME Safe, Safe', Owed, UNCHANGED <<row, top>>,
           \A x \in Requests : req'[x] = req[x] \/ req[x].op \in {"get", "list"} \/ req[x].pc = "answer"
    PROVE  Owed'
<1>1. ~Behind(top', top)
  BY TopSame
<1>2. ASSUME NEW x \in Requests
      PROVE  /\ OwesBid(req[x], row[Watched]) => OwesBid(req'[x], row[Watched])
             /\ OwesEnd(req[x]) => OwesEnd(req'[x])
             /\ OwesText(req[x], row[Watched]) => OwesText(req'[x], row[Watched])
  BY <1>2 DEF OwesBid, OwesEnd, OwesText
<1>. QED  BY <1>1, <1>2, OwedStays

(* What is published is not owed any more.                                 *)
LEMMA OwedPublish ==
    ASSUME Safe, Safe', Owed, NEW r \in Requests, Publish(r)
    PROVE  Owed'
<1>. DEFINE m == MessageOf(r)
            now == Apply(m, top)
<1>0. /\ Cast(r) /\ req[r].pc = "cast" /\ row' = row
      /\ \A x \in Requests : x # r => req'[x] = req[x]
  BY OthersStay DEF Safe, Inv, Publish, Cast, At
<1>1. CASE req[r].id # Watched
  <2>1. m.id = req[r].id
    BY <1>0, MessageFacts DEF Safe, At
  <2>2. top' = top
    BY <1>1, <2>1 DEF Publish, Counts
  <2>3. ASSUME NEW x \in Requests
        PROVE  /\ OwesBid(req[x], row[Watched]) => OwesBid(req'[x], row[Watched])
               /\ OwesEnd(req[x]) => OwesEnd(req'[x])
               /\ OwesText(req[x], row[Watched]) => OwesText(req'[x], row[Watched])
    BY <1>0, <1>1, <2>3 DEF OwesBid, OwesEnd, OwesText
  <2>4. ~Behind(top', top)
    BY <2>2, TopSame
  <2>. QED  BY <1>0, <2>3, <2>4, OwedStays
<1>2. CASE req[r].id = Watched
  <2>1. /\ m \in Message /\ m.id = Watched /\ m.data = req[r].val /\ m.type \in Kinds
        /\ m.type = "new_bid" <=> req[r].op = "bid"
        /\ m.type = "auction_ended" <=> req[r].op = "close"
    BY <1>0, <1>2, MessageFacts DEF Safe, At, Message
  <2>2. top' = Newest(top, now)
    BY <2>1 DEF Publish, Counts
  <2>3. top \in Row /\ row[Watched] \in Records
    BY RealtimeAssumption DEF Safe, Inv, TypeOK, PageTypeOK, Records
  <2>. HIDE DEF m
  <2>4. /\ now \in Row
        /\ m.type = "new_bid" => now.price = req[r].val.price
        /\ m.type = "auction_ended" => now.status = 2
        /\ m.type = "auction_updated" => now = req[r].val
    BY <2>1, <2>3, ApplyCases
  <2>. HIDE DEF now
  <2>5. top' \in Row /\ ~Behind(top', top) /\ ~Behind(top', now)
    BY <2>2, <2>3, <2>4, NewestFacts
  <2>6. /\ top'.price \in Nat /\ top'.status \in 0..2 /\ top'.text \in Nat
        /\ top.price \in Nat /\ top.status \in 0..2 /\ top.text \in Nat
        /\ now.price \in Nat /\ now.status \in 0..2 /\ now.text \in Nat
        /\ row[Watched].price \in Nat /\ row[Watched].status \in 0..2 /\ row[Watched].text \in Nat
    BY <2>3, <2>4, <2>5, RecordFacts DEF Records
  <2>7. /\ top'.price >= top.price /\ top'.status >= top.status /\ top'.text >= top.text
        /\ top'.price >= now.price /\ top'.status >= now.status /\ top'.text >= now.text
    BY <2>5, <2>6 DEF Behind
  <2>8. ASSUME row[Watched].price > top'.price
        PROVE  \E x \in Requests : OwesBid(req'[x], row'[Watched])
    <3>1. row[Watched].price > top.price /\ row[Watched].price > now.price
      BY <2>6, <2>7, <2>8
    <3>2. PICK x \in Requests : OwesBid(req[x], row[Watched])
      BY <3>1 DEF Owed
    <3>3. x # r
      BY <2>1, <2>4, <2>6, <3>1, <3>2 DEF OwesBid
    <3>. QED  BY <1>0, <3>2, <3>3
  <2>9. ASSUME row[Watched].status > top'.status
        PROVE  \E x \in Requests : OwesEnd(req'[x])
    <3>1. row[Watched].status > top.status /\ row[Watched].status > now.status
      BY <2>6, <2>7, <2>9
    <3>2. PICK x \in Requests : OwesEnd(req[x])
      BY <3>1 DEF Owed
    <3>3. x # r
      BY <2>1, <2>4, <2>6, <3>1, <3>2 DEF OwesEnd
    <3>. QED  BY <1>0, <3>2, <3>3
  <2>10. ASSUME row[Watched].text > top'.text
         PROVE  \E x \in Requests : OwesText(req'[x], row'[Watched])
    <3>1. row[Watched].text > top.text /\ row[Watched].text > now.text
      BY <2>6, <2>7, <2>10
    <3>2. PICK x \in Requests : OwesText(req[x], row[Watched])
      BY <3>1 DEF Owed
    <3>3. x # r
      <4>1. ASSUME x = r PROVE FALSE
        <5>1. req[r].op = "edit" /\ req[r].val.text = row[Watched].text
          BY <1>0, <3>2, <4>1 DEF OwesText
        <5>2. m.type = "auction_updated"
          BY <2>1, <5>1 DEF Kinds
        <5>3. now.text = row[Watched].text
          BY <2>4, <5>1, <5>2
        <5>. QED  BY <2>6, <3>1, <5>3
      <4>. QED  BY <4>1
    <3>. QED  BY <1>0, <3>2, <3>3
  <2>. QED  BY <1>0, <2>8, <2>9, <2>10 DEF Owed, OwesBid, OwesEnd, OwesText
<1>. QED  BY <1>1, <1>2
-----------------------------------------------------------------------------
-----------------------------------------------------------------------------
(* What a message does to the page while it shows its own auction.         *)
Effect(m, x) == IF m.id = Watched THEN Apply(m, x) ELSE x

LEMMA EffectCases == ASSUME NEW m \in Message, NEW a \in Row PROVE Effect(m, a) \in Row
  BY ApplyCases DEF Effect

LEMMA EffectMonotone ==
    ASSUME NEW m \in Message, NEW a \in Row, NEW b \in Row, ~Behind(a, b)
    PROVE  ~Behind(Effect(m, a), Effect(m, b))
  BY ApplyMonotone DEF Effect

LEMMA EffectBounded ==
    ASSUME Inv, NEW m \in Message, Truthful(m, row), NEW a \in Row, ~Behind(row[Watched], a)
    PROVE  ~Behind(row[Watched], Effect(m, a))
<1>1. row[Watched] \in Records
  BY RealtimeAssumption DEF Inv, TypeOK, Records
<1>. QED  BY <1>1, ApplyBounded DEF Effect, Truthful

(* The messages on their way complete what the page starts from: some      *)
(* states h it is going to be at least at lead up to all that has been     *)
(* published.                                                              *)
Completes(h, w, t, s) ==
    /\ Len(h) = Len(w) + 1
    /\ \A i \in 1..Len(w) : ~Behind(Effect(w[i], h[i]), h[i + 1])
    /\ ~Behind(h[Len(h)], t)
    /\ ~Behind(s, h[1])

LeadsTo(w, t, s) == \E h \in Seq(Row) : Completes(h, w, t, s)

(* How the states that the messages lead through change.                   *)
LEMMA SequenceFacts ==
    ASSUME NEW h \in Seq(Row), NEW w \in Seq(Message), NEW t, NEW s, Completes(h, w, t, s)
    PROVE  /\ Len(w) \in Nat /\ Len(h) = Len(w) + 1
           /\ \A i \in 1..(Len(w) + 1) : h[i] \in Row
           /\ \A i \in 1..Len(w) : w[i] \in Message /\ i \in 1..(Len(w) + 1) /\ i + 1 \in 1..(Len(w) + 1)
           /\ 1 \in 1..(Len(w) + 1)
<1>1. Len(w) \in Nat /\ Len(h) = Len(w) + 1
  BY DEF Completes
<1>2. \A i \in 1..Len(h) : h[i] \in Row
  OBVIOUS
<1>3. \A i \in 1..Len(w) : w[i] \in Message
  OBVIOUS
<1>. QED  BY <1>1, <1>2, <1>3

LEMMA CompletesFrom ==
    ASSUME NEW h \in Seq(Row), NEW w \in Seq(Message), NEW t, NEW s \in Row, NEW n \in Row,
           Completes(h, w, t, s), ~Behind(n, s)
    PROVE  Completes(h, w, t, n)
<1>1. h[1] \in Row
  BY SequenceFacts
<1>2. ~Behind(s, h[1])
  BY DEF Completes
<1>3. ~Behind(n, h[1])
  BY <1>1, <1>2, BehindTransitive DEF Records
<1>. QED  BY <1>3 DEF Completes

LEMMA CompletesEmpty ==
    ASSUME NEW t \in Row, NEW s \in Row, ~Behind(s, t)
    PROVE  /\ <<t>> \in Seq(Row)
           /\ Completes(<<t>>, <<>>, t, s)
<1>1. Len(<<t>>) = 1 /\ <<t>>[1] = t /\ <<t>> \in Seq(Row)
  OBVIOUS
<1>2. ~Behind(t, t)
  BY BehindReflexive DEF Records
<1>3. Len(<<>>) = 0 /\ 1..0 = {}
  OBVIOUS
<1>. QED  BY <1>1, <1>2, <1>3 DEF Completes

LEMMA CompletesAppend ==
    ASSUME NEW h \in Seq(Row), NEW w \in Seq(Message), NEW t \in Row, NEW s,
           Completes(h, w, t, s),
           NEW m \in Message, NEW n \in Row, ~Behind(Effect(m, t), n)
    PROVE  \E g \in Seq(Row) : Completes(g, Append(w, m), n, s)
<1>. DEFINE l == Len(w)
            z == Effect(m, h[l + 1])
            g == Append(h, z)
            v == Append(w, m)
<1>1. /\ l \in Nat /\ Len(h) = l + 1
      /\ \A i \in 1..(l + 1) : h[i] \in Row
      /\ \A i \in 1..l : i \in 1..(l + 1) /\ i + 1 \in 1..(l + 1)
  BY SequenceFacts
<1>2. h[l + 1] \in Row /\ ~Behind(h[l + 1], t)
  BY <1>1 DEF Completes
<1>3. z \in Row /\ ~Behind(z, Effect(m, t)) /\ Effect(m, t) \in Row
  BY <1>2, EffectCases, EffectMonotone
<1>4. ~Behind(z, n)
  BY <1>3, BehindTransitive DEF Records
<1>. HIDE DEF z
<1>5. /\ g \in Seq(Row) /\ Len(g) = l + 2
      /\ \A i \in 1..(l + 1) : g[i] = h[i]
      /\ g[l + 2] = z
  BY <1>1, <1>3
<1>6. /\ Len(v) = l + 1
      /\ \A i \in 1..l : v[i] = w[i]
      /\ v[l + 1] = m
  BY <1>1
<1>7. ~Behind(z, z)
  BY <1>3, BehindReflexive DEF Records
<1>. HIDE DEF g, v, l
<1>8. ASSUME NEW i \in 1..(l + 1) PROVE ~Behind(Effect(v[i], g[i]), g[i + 1])
  <2>1. CASE i \in 1..l
    <3>1. v[i] = w[i] /\ g[i] = h[i] /\ g[i + 1] = h[i + 1]
      BY <1>1, <1>5, <1>6, <2>1
    <3>2. ~Behind(Effect(w[i], h[i]), h[i + 1])
      BY <2>1 DEF Completes, l
    <3>. QED  BY <3>1, <3>2
  <2>2. CASE i = l + 1
    <3>1. v[i] = m /\ g[i] = h[l + 1] /\ g[i + 1] = z
      BY <1>1, <1>5, <1>6, <2>2
    <3>. QED  BY <3>1, <1>7 DEF z
  <2>. QED  BY <1>1, <2>1, <2>2
<1>9. g[1] = h[1] /\ ~Behind(s, h[1])
  BY <1>1, <1>5 DEF Completes
<1>10. Len(g) = Len(v) + 1 /\ g[Len(g)] = z
  BY <1>1, <1>5, <1>6
<1>11. Completes(g, v, n, s)
  BY <1>4, <1>6, <1>8, <1>9, <1>10 DEF Completes
<1>. QED  BY <1>5, <1>11 DEF v

LEMMA CompletesTail ==
    ASSUME NEW h \in Seq(Row), NEW w \in Seq(Message), w # <<>>, NEW t, NEW s \in Row,
           Completes(h, w, t, s)
    PROVE  \E g \in Seq(Row) : Completes(g, Tail(w), t, Effect(Head(w), s))
<1>. DEFINE l == Len(w)
            g == Tail(h)
            v == Tail(w)
            m == Head(w)
<1>1. /\ l \in Nat /\ l > 0 /\ Len(h) = l + 1
      /\ \A i \in 1..(l + 1) : h[i] \in Row
      /\ \A i \in 1..l : w[i] \in Message /\ i \in 1..(l + 1) /\ i + 1 \in 1..(l + 1)
  BY SequenceFacts
<1>2. /\ g \in Seq(Row) /\ Len(g) = l
      /\ \A i \in 1..l : g[i] = h[i + 1]
  BY <1>1
<1>3. /\ Len(v) = l - 1
      /\ \A i \in 1..(l - 1) : v[i] = w[i + 1]
      /\ m = w[1] /\ m \in Message
  BY <1>1
<1>4. /\ \A i \in 1..l : ~Behind(Effect(w[i], h[i]), h[i + 1])
      /\ ~Behind(h[l + 1], t)
      /\ ~Behind(s, h[1])
  BY <1>1 DEF Completes
<1>. HIDE DEF g, v, l, m
<1>5. ~Behind(Effect(m, s), h[2])
  <2>1. 1 \in 1..l /\ 1 \in 1..(l + 1) /\ 2 \in 1..(l + 1) /\ 1 + 1 = 2
    BY <1>1
  <2>2. h[1] \in Row /\ h[2] \in Row /\ ~Behind(Effect(m, h[1]), h[2])
    BY <1>1, <1>3, <1>4, <2>1
  <2>3. /\ ~Behind(Effect(m, s), Effect(m, h[1]))
        /\ Effect(m, s) \in Records /\ Effect(m, h[1]) \in Records /\ h[2] \in Records
    BY <1>3, <1>4, <2>2, EffectMonotone, EffectCases DEF Records
  <2>. QED  BY <2>2, <2>3, BehindTransitive
<1>6. ASSUME NEW i \in 1..(l - 1) PROVE ~Behind(Effect(v[i], g[i]), g[i + 1])
  <2>1. i \in 1..l /\ i + 1 \in 1..l /\ v[i] = w[i + 1] /\ g[i] = h[i + 1] /\ g[i + 1] = h[(i + 1) + 1]
    BY <1>1, <1>2, <1>3
  <2>. QED  BY <1>4, <2>1
<1>7. g[1] = h[2] /\ g[l] = h[l + 1] /\ Len(g) = Len(v) + 1
  BY <1>1, <1>2, <1>3
<1>8. Completes(g, v, t, Effect(m, s))
  BY <1>2, <1>3, <1>4, <1>5, <1>6, <1>7 DEF Completes
<1>. QED  BY <1>2, <1>8 DEF v, m

LEMMA LeadsFrom ==
    ASSUME NEW w \in Seq(Message), NEW t, NEW s \in Row, NEW n \in Row, LeadsTo(w, t, s), ~Behind(n, s)
    PROVE  LeadsTo(w, t, n)
  BY CompletesFrom DEF LeadsTo

LEMMA LeadsEmpty == ASSUME NEW t \in Row, NEW s \in Row, ~Behind(s, t) PROVE LeadsTo(<<>>, t, s)
<1>1. <<t>> \in Seq(Row) /\ Completes(<<t>>, <<>>, t, s)
  BY CompletesEmpty
<1>. QED  BY <1>1 DEF LeadsTo

LEMMA LeadsAppend ==
    ASSUME NEW w \in Seq(Message), NEW t \in Row, NEW s, LeadsTo(w, t, s),
           NEW m \in Message, NEW n \in Row, ~Behind(Effect(m, t), n)
    PROVE  LeadsTo(Append(w, m), n, s)
  BY CompletesAppend DEF LeadsTo

LEMMA LeadsTail ==
    ASSUME NEW w \in Seq(Message), w # <<>>, NEW t, NEW s \in Row, LeadsTo(w, t, s)
    PROVE  LeadsTo(Tail(w), t, Effect(Head(w), s))
  BY CompletesTail DEF LeadsTo

(* Nothing more is coming.                                                 *)
LEMMA LeadsEnd ==
    ASSUME NEW t \in Row, NEW s \in Row, LeadsTo(<<>>, t, s)
    PROVE  ~Behind(s, t)
<1>1. PICK h \in Seq(Row) : Completes(h, <<>>, t, s)
  BY DEF LeadsTo
<1>2. Len(<<>>) = 0
  OBVIOUS
<1>3. Len(h) = 1
  BY <1>1, <1>2 DEF Completes
<1>4. ~Behind(h[1], t) /\ ~Behind(s, h[1]) /\ h[1] \in Row
  BY <1>1, <1>3 DEF Completes
<1>. QED  BY <1>4, BehindTransitive DEF Records
-----------------------------------------------------------------------------
(* Unless something has spoiled it: what is to come completes the page as  *)
(* it is, as each of its answers would make it, and as a page would be     *)
(* that asked now.                                                         *)
Unspoiled ==
    /\ Owed
    /\ LeadsTo(wire, top, row[Watched])
    /\ shown # None => LeadsTo(wire, top, shown) /\ ~Behind(row[Watched], shown)
    /\ \A f \in fetching : LeadsTo(wire, top, req[f].val)

LEMMA PageFacts ==
    ASSUME Safe
    PROVE  /\ Watched \in Auctions
           /\ row[Watched] \in Row /\ ~Behind(row[Watched], top)
           /\ top \in Row
           /\ wire \in Seq(Message)
           /\ shown # None => shown \in Row
           /\ \A f \in fetching : f \in Requests /\ req[f].val \in Row /\ ~Behind(row[Watched], req[f].val)
<1>1. Watched \in Auctions
  BY RealtimeAssumption
<1>2. row[Watched] \in Row
  BY <1>1, RowFacts DEF Safe, Inv, TypeOK, Page
<1>3. ASSUME NEW f \in fetching
      PROVE  f \in Requests /\ req[f].val \in Row /\ ~Behind(row[Watched], req[f].val)
  <2>1. f \in Requests /\ req[f].pc \in {"set", "answer"} /\ req[f].id = Watched
    BY DEF Safe, Page, PageTypeOK
  <2>. QED  BY <2>1 DEF Safe, Inv, Exists, Known, KnownOf
<1>. QED  BY <1>1, <1>2, <1>3 DEF Safe, PageTypeOK, Page

(* Steps that put nothing on the wire and publish nothing.                 *)
LEMMA UnspoiledStays ==
    ASSUME Safe, Safe', RowsGrow, Unspoiled, Owed', UNCHANGED <<wire, top>>, shown' \in {None, shown},
           \A f \in fetching' : f \in fetching /\ req'[f].val = req[f].val
    PROVE  Unspoiled'
<1>1. /\ Watched \in Auctions /\ row[Watched] \in Row /\ top \in Row /\ wire \in Seq(Message)
      /\ shown # None => shown \in Row
  BY PageFacts
<1>. DEFINE n == row'[Watched]
<1>2. n \in Row
  BY <1>1, RowFacts DEF Safe, Inv, TypeOK, Page
<1>3. ~Behind(n, row[Watched])
  BY <1>1 DEF RowsGrow
<1>. HIDE DEF n
<1>4. LeadsTo(wire, top, n)
  BY <1>1, <1>2, <1>3, LeadsFrom DEF Unspoiled
<1>5. shown' # None => LeadsTo(wire, top, shown) /\ ~Behind(n, shown)
  <2>1. ASSUME shown' # None PROVE ~Behind(n, shown) /\ LeadsTo(wire, top, shown)
    <3>1. shown \in Row /\ ~Behind(row[Watched], shown) /\ LeadsTo(wire, top, shown)
      BY <1>1, <2>1 DEF Unspoiled
    <3>. QED  BY <1>1, <1>2, <1>3, <3>1, BehindTransitive DEF Records
  <2>. QED  BY <2>1
<1>6. \A f \in fetching' : LeadsTo(wire, top, req'[f].val)
  BY DEF Unspoiled
<1>7. shown' # None => shown' = shown
  OBVIOUS
<1>8. Unspoiled' = /\ Owed'
                   /\ LeadsTo(wire', top', row'[Watched])
                   /\ shown' # None => LeadsTo(wire', top', shown') /\ ~Behind(row'[Watched], shown')
                   /\ \A f \in fetching' : LeadsTo(wire', top', req'[f].val)
  BY DEF Unspoiled, LeadsTo
<1>. QED  BY <1>4, <1>5, <1>6, <1>7, <1>8 DEF n

(* A page that has not asked yet will be told all by its answer.           *)
LEMMA UnspoiledFresh ==
    ASSUME Safe, Safe', Owed', wire' = <<>>, shown' = None, fetching' = {}
    PROVE  Unspoiled'
<1>. DEFINE n == row'[Watched]
            t == top'
<1>1. n \in Row /\ t \in Row /\ ~Behind(n, t)
  BY RealtimeAssumption, RowFacts DEF Safe, Inv, TypeOK, PageTypeOK, Page
<1>. HIDE DEF n, t
<1>2. LeadsTo(<<>>, t, n)
  BY <1>1, LeadsEmpty
<1>3. Unspoiled' = /\ Owed'
                   /\ LeadsTo(wire', t, n)
                   /\ shown' # None => LeadsTo(wire', t, shown') /\ ~Behind(n, shown')
                   /\ \A f \in fetching' : LeadsTo(wire', t, req'[f].val)
  BY DEF Unspoiled, LeadsTo, n, t
<1>. QED  BY <1>2, <1>3

(* A message is put on the wire.                                           *)
LEMMA UnspoiledAppend ==
    ASSUME Safe, Safe', Unspoiled, Owed', UNCHANGED <<row, shown, fetching>>,
           \A f \in fetching : req'[f].val = req[f].val,
           NEW m \in Message, wire' = Append(wire, m), ~Behind(Effect(m, top), top')
    PROVE  Unspoiled'
<1>1. top \in Row /\ wire \in Seq(Message)
  BY PageFacts
<1>. DEFINE t == top'
<1>2. t \in Row /\ ~Behind(Effect(m, top), t)
  BY DEF Safe, PageTypeOK
<1>3. Unspoiled' = /\ Owed'
                   /\ LeadsTo(wire', t, row'[Watched])
                   /\ shown' # None => LeadsTo(wire', t, shown') /\ ~Behind(row'[Watched], shown')
                   /\ \A f \in fetching' : LeadsTo(wire', t, req'[f].val)
  BY DEF Unspoiled, LeadsTo
<1>. HIDE DEF t
<1>4. ASSUME NEW s, LeadsTo(wire, top, s) PROVE LeadsTo(wire', t, s)
  BY <1>1, <1>2, <1>4, LeadsAppend
<1>5. row'[Watched] = row[Watched]
  OBVIOUS
<1>. QED  BY <1>3, <1>4, <1>5 DEF Unspoiled

LEMMA UnspoiledPublish ==
    ASSUME Safe, Safe', RowsGrow, ~spoiled', NEW r \in Requests, Publish(r) \/ PublishFeed(r),
           ~spoiled => Unspoiled
    PROVE  Unspoiled'
<1>. DEFINE m == MessageOf(r)
            now == Apply(m, top)
<1>0. /\ Cast(r) \/ CastFeed(r)
      /\ At(r, "cast") \/ At(r, "feed")
      /\ UNCHANGED <<open, row, shown, from, fetching, joined>>
  BY DEF Publish, PublishFeed, Cast, CastFeed
<1>1. \A f \in fetching : req'[f].val = req[f].val
  BY <1>0, FetchesGoOn
<1>2. m \in Message /\ top \in Row
  BY <1>0, MessageFacts, PageFacts DEF Safe
<1>3. \/ UNCHANGED <<wire, top, spoiled>>
      \/ m.id # Watched /\ wire' = Append(wire, m) /\ UNCHANGED <<top, spoiled>>
      \/ /\ m.id = Watched /\ wire' = Append(wire, m) /\ top' = Newest(top, now)
         /\ spoiled' = (spoiled \/ Behind(now, top))
      \/ /\ m.id = Watched /\ wire' = wire /\ top' = Newest(top, now)
         /\ spoiled' = (spoiled \/ Asked \/ wire # <<>>)
  BY DEF Publish, PublishFeed, Reaches, Counts
<1>4. ~spoiled
  BY <1>3 DEF Safe, PageTypeOK
<1>5. Unspoiled
  BY <1>4
<1>6. Owed'
  <2>1. CASE Publish(r)
    BY <1>5, <2>1, OwedPublish DEF Unspoiled
  <2>2. CASE PublishFeed(r)
    <3>1. CastFeed(r) /\ req[r].pc = "feed"
      BY <2>2 DEF PublishFeed, CastFeed, At
    <3>2. /\ \A x \in Requests : x # r => req'[x] = req[x]
          /\ req[r].op = "edit" => req'[r] = Step(r, "cast")
      BY <3>1, OthersStay DEF Safe, Inv, TypeOK, CastFeed, Goto
    <3>3. /\ Step(r, "cast").op = req[r].op /\ Step(r, "cast").id = req[r].id
          /\ Step(r, "cast").val = req[r].val /\ Step(r, "cast").pc = "cast"
      BY StepIsRequest DEF Safe, Inv, Pcs
    <3>4. ASSUME NEW x \in Requests
          PROVE  /\ OwesBid(req[x], row[Watched]) => OwesBid(req'[x], row[Watched])
                 /\ OwesEnd(req[x]) => OwesEnd(req'[x])
                 /\ OwesText(req[x], row[Watched]) => OwesText(req'[x], row[Watched])
      BY <3>1, <3>2, <3>3 DEF OwesBid, OwesEnd, OwesText
    <3>5. ~Behind(top', top)
      <4>1. top' = top \/ top' = Newest(top, now)
        BY <1>3
      <4>. HIDE DEF m
      <4>2. now \in Row
        BY <1>2, ApplyCases
      <4>. HIDE DEF now
      <4>. QED  BY <1>2, <4>1, <4>2, TopSame, NewestFacts
    <3>. QED  BY <1>0, <1>5, <3>4, <3>5, OwedStays DEF Unspoiled
  <2>. QED  BY <2>1, <2>2
<1>. HIDE DEF m
<1>7. now \in Row
  BY <1>2, ApplyCases
<1>8. CASE UNCHANGED <<wire, top, spoiled>>
  BY <1>0, <1>1, <1>5, <1>6, <1>8, UnspoiledStays
<1>9. CASE m.id # Watched /\ wire' = Append(wire, m) /\ UNCHANGED <<top, spoiled>>
  <2>1. ~Behind(Effect(m, top), top')
    BY <1>2, <1>9, BehindReflexive DEF Effect, Records
  <2>. QED  BY <1>0, <1>1, <1>2, <1>5, <1>6, <1>9, <2>1, UnspoiledAppend
<1>10. CASE /\ m.id = Watched /\ wire' = Append(wire, m) /\ top' = Newest(top, now)
            /\ spoiled' = (spoiled \/ Behind(now, top))
  <2>1. ~Behind(now, top) /\ Effect(m, top) = now
    BY <1>10 DEF Effect
  <2>2. ~Behind(Effect(m, top), top')
    <3>. HIDE DEF now
    <3>. QED  BY <1>2, <1>7, <1>10, <2>1, NewestFacts
  <2>. QED  BY <1>0, <1>1, <1>2, <1>5, <1>6, <1>10, <2>2, UnspoiledAppend
<1>11. CASE /\ m.id = Watched /\ wire' = wire /\ top' = Newest(top, now)
            /\ spoiled' = (spoiled \/ Asked \/ wire # <<>>)
  <2>1. wire' = <<>> /\ shown' = None /\ fetching' = {}
    BY <1>0, <1>11 DEF Asked
  <2>. QED  BY <1>6, <2>1, UnspoiledFresh
<1>. QED  BY <1>3, <1>8, <1>9, <1>10, <1>11

LEMMA UnspoiledProceed ==
    ASSUME Safe, Safe', RowsGrow, ~spoiled', NEW r \in Requests, Proceed(r), ~spoiled => Unspoiled
    PROVE  Unspoiled'
<1>1. /\ Begins(r) \/ Works(r)
      /\ UNCHANGED <<shown, fetching, wire, top>>
      /\ At(r, "get") => req'[r].val = row[req[r].id]
      /\ Unspoiled
  BY DEF Proceed
<1>2. \A f \in fetching : req'[f].val = req[f].val
  BY <1>1, FetchesGoOn
<1>3. Owed'
  BY <1>1, OwedWorks DEF Unspoiled, Safe
<1>. QED  BY <1>1, <1>2, <1>3, UnspoiledStays

LEMMA UnspoiledFetch ==
    ASSUME Safe, Safe', RowsGrow, ~spoiled', NEW r \in Requests, Fetch(r), ~spoiled => Unspoiled
    PROVE  Unspoiled'
<1>1. /\ fetching' = fetching \cup {r} /\ ReadDetail(r, Watched) /\ UNCHANGED <<shown, wire, top, row>>
      /\ req'[r].val = row[Watched]
      /\ Unspoiled
      /\ req[r].pc = "idle"
  BY DEF Fetch, ReadDetail, At
<1>2. Begins(r)
  BY <1>1, RealtimeAssumption DEF Begins
<1>3. Owed'
  BY <1>1, <1>2, OwedWorks DEF Unspoiled, Safe, At
<1>4. \A f \in fetching : req'[f].val = req[f].val
  BY <1>2, FetchesGoOn
<1>5. row'[Watched] = row[Watched] /\ LeadsTo(wire, top, row[Watched])
  BY <1>1 DEF Unspoiled
<1>6. \A f \in fetching' : LeadsTo(wire, top, req'[f].val)
  BY <1>1, <1>4, <1>5 DEF Unspoiled
<1>7. shown # None => LeadsTo(wire, top, shown) /\ ~Behind(row[Watched], shown)
  BY <1>1 DEF Unspoiled
<1>8. Unspoiled' = /\ Owed'
                   /\ LeadsTo(wire', top', row'[Watched])
                   /\ shown' # None => LeadsTo(wire', top', shown') /\ ~Behind(row'[Watched], shown')
                   /\ \A f \in fetching' : LeadsTo(wire', top', req'[f].val)
  BY DEF Unspoiled, LeadsTo
<1>. QED  BY <1>1, <1>3, <1>5, <1>6, <1>7, <1>8

LEMMA UnspoiledLoad ==
    ASSUME Safe, Safe', RowsGrow, NEW r \in Requests, Load(r), Unspoiled
    PROVE  Unspoiled'
<1>1. /\ r \in fetching /\ fetching' = fetching \ {r} /\ Answer(r) /\ shown' = req[r].val
      /\ UNCHANGED <<row, wire, top>> /\ req[r].pc = "answer"
  BY DEF Load, Answer, At
<1>2. \A x \in Requests : req'[x] = req[x] \/ req[x].pc = "answer"
  BY <1>1, OthersStay DEF Safe, Inv
<1>3. Owed'
  BY <1>1, <1>2, OwedOther DEF Unspoiled
<1>4. row'[Watched] = row[Watched] /\ LeadsTo(wire, top, row[Watched])
  BY <1>1 DEF Unspoiled
<1>5. LeadsTo(wire, top, shown') /\ ~Behind(row[Watched], shown')
  BY <1>1, PageFacts DEF Unspoiled
<1>6. \A f \in fetching' : LeadsTo(wire, top, req'[f].val)
  <2>1. \A f \in fetching' : req'[f] = req[f]
    BY <1>1, OthersStay DEF Safe, Inv, PageTypeOK
  <2>. QED  BY <1>1, <2>1 DEF Unspoiled
<1>7. Unspoiled' = /\ Owed'
                   /\ LeadsTo(wire', top', row'[Watched])
                   /\ shown' # None => LeadsTo(wire', top', shown') /\ ~Behind(row'[Watched], shown')
                   /\ \A f \in fetching' : LeadsTo(wire', top', req'[f].val)
  BY DEF Unspoiled, LeadsTo
<1>. QED  BY <1>1, <1>3, <1>4, <1>5, <1>6, <1>7

(* A message of the page's auction does to the page what it was going to   *)
(* do; one of another auction has no effect.                               *)
LEMMA UnspoiledReceive ==
    ASSUME Safe, Safe', RowsGrow, ~spoiled', Receive, ~spoiled => Unspoiled
    PROVE  Unspoiled'
<1>. DEFINE m == Head(wire)
            heard == open /\ (shown # None \/ m.type = "auction_updated")
<1>1. /\ wire # <<>> /\ wire' = Tail(wire) /\ Unspoiled
      /\ UNCHANGED <<row, req, open, fetching, top>>
      /\ shown' = IF heard THEN Apply(m, shown) ELSE shown
      /\ m.id = Watched => \A f \in fetching : ~Behind(req[f].val, Apply(m, req[f].val))
      /\ m.id # Watched => shown' = shown
  BY DEF Receive, vars
<1>2. /\ row[Watched] \in Row /\ top \in Row /\ wire \in Seq(Message)
      /\ shown # None => shown \in Row
      /\ \A f \in fetching : req[f].val \in Row
  BY PageFacts
<1>3. m \in Message /\ Truthful(m, row)
  <2>1. 1 \in 1..Len(wire) /\ m = wire[1]
    BY <1>1, <1>2
  <2>. QED  BY <2>1, WireFacts DEF Safe, Page
<1>4. ASSUME NEW s \in Row, LeadsTo(wire, top, s)
      PROVE  LeadsTo(wire', top, Effect(m, s)) /\ Effect(m, s) \in Row
  BY <1>1, <1>2, <1>3, <1>4, LeadsTail, EffectCases
<1>5. wire' \in Seq(Message)
  BY <1>1, <1>2
<1>. HIDE DEF m
<1>6. LeadsTo(wire', top, row[Watched])
  <2>. DEFINE s == row[Watched]
              z == Effect(m, s)
  <2>1. s \in Row /\ ~Behind(s, s)
    BY <1>2, BehindReflexive DEF Records
  <2>2. z \in Row /\ LeadsTo(wire', top, z)
    BY <1>1, <1>4, <2>1 DEF Unspoiled
  <2>3. ~Behind(s, z)
    BY <1>3, <2>1, EffectBounded DEF Safe
  <2>. HIDE DEF z, s
  <2>4. LeadsTo(wire', top, s)
    BY <1>5, <2>1, <2>2, <2>3, LeadsFrom
  <2>. QED  BY <2>4 DEF s
<1>7. ASSUME NEW f \in fetching PROVE LeadsTo(wire', top, req[f].val)
  <2>. DEFINE s == req[f].val
              z == Effect(m, s)
  <2>1. s \in Row /\ ~Behind(s, s)
    BY <1>2, BehindReflexive DEF Records
  <2>2. z \in Row /\ LeadsTo(wire', top, z)
    BY <1>1, <1>4, <2>1 DEF Unspoiled
  <2>3. ~Behind(s, z)
    BY <1>1, <2>1 DEF Effect
  <2>. HIDE DEF z, s
  <2>4. LeadsTo(wire', top, s)
    BY <1>5, <2>1, <2>2, <2>3, LeadsFrom
  <2>. QED  BY <2>4 DEF s
<1>8. ASSUME shown' # None PROVE LeadsTo(wire', top, shown') /\ ~Behind(row[Watched], shown')
  <2>1. CASE shown # None
    <3>1. shown \in Row /\ LeadsTo(wire, top, shown) /\ ~Behind(row[Watched], shown)
      BY <1>1, <1>2, <2>1 DEF Unspoiled
    <3>2. open
      BY <2>1 DEF Safe, Page
    <3>3. shown' = Effect(m, shown)
      BY <1>1, <2>1, <3>2 DEF Effect
    <3>4. LeadsTo(wire', top, Effect(m, shown)) /\ ~Behind(row[Watched], Effect(m, shown))
      BY <1>3, <1>4, <3>1, EffectBounded DEF Safe
    <3>. QED  BY <3>3, <3>4
  <2>2. CASE shown = None
    <3>1. m.id = Watched /\ m.type = "auction_updated" /\ shown' = Apply(m, shown)
      BY <1>1, <1>8, <2>2
    <3>2. shown' = m.data /\ Effect(m, row[Watched]) = m.data
      BY <3>1 DEF Apply, Effect
    <3>3. LeadsTo(wire', top, Effect(m, row[Watched]))
      BY <1>1, <1>2, <1>4 DEF Unspoiled
    <3>4. ~Behind(row[Watched], m.data)
      BY <1>3, <3>1 DEF Truthful
    <3>. QED  BY <3>2, <3>3, <3>4
  <2>. QED  BY <2>1, <2>2
<1>9. Owed'
  BY <1>1, OwedOther DEF Unspoiled
<1>10. Unspoiled' = /\ Owed'
                    /\ LeadsTo(wire', top', row'[Watched])
                    /\ shown' # None => LeadsTo(wire', top', shown') /\ ~Behind(row'[Watched], shown')
                    /\ \A f \in fetching' : LeadsTo(wire', top', req'[f].val)
  BY DEF Unspoiled, LeadsTo
<1>11. row'[Watched] = row[Watched] /\ top' = top /\ fetching' = fetching /\ req' = req
  BY <1>1
<1>. QED  BY <1>6, <1>7, <1>8, <1>9, <1>10, <1>11

LEMMA UnspoiledConnection ==
    ASSUME Safe, Safe', RowsGrow, ~spoiled', Open \/ Leave \/ Subscribe \/ Disconnect, ~spoiled => Unspoiled
    PROVE  Unspoiled'
<1>1. /\ UNCHANGED <<row, req, top>> /\ shown' \in {None, shown}
      /\ fetching' = {} \/ fetching' = fetching
      /\ ~spoiled
  BY DEF Open, Leave, Left, Subscribe, Disconnect, vars, Safe, PageTypeOK
<1>2. Owed'
  BY <1>1, OwedOther DEF Unspoiled
<1>3. wire' = wire \/ (wire' = <<>> /\ shown' = None /\ fetching' = {})
  BY DEF Open, Leave, Subscribe, Disconnect, Asked
<1>4. CASE wire' = wire
  BY <1>1, <1>2, <1>4, UnspoiledStays
<1>5. CASE wire' = <<>> /\ shown' = None /\ fetching' = {}
  BY <1>2, <1>5, UnspoiledFresh
<1>. QED  BY <1>3, <1>4, <1>5

LEMMA UnspoiledEnds ==
    ASSUME Safe, Safe', RowsGrow, ~spoiled', NEW r \in Requests, Ends(r), ~spoiled => Unspoiled
    PROVE  Unspoiled'
<1>1. /\ Abort(r) /\ UNCHANGED <<row, wire, top>> /\ shown' \in {None, shown}
      /\ ~spoiled /\ req[r].op \in {"get", "list"}
      /\ fetching' = {} \/ (fetching' = fetching /\ r \notin fetching)
  BY DEF Ends, Left, Abort, Safe, PageTypeOK
<1>2. \A x \in Requests : req'[x] = req[x] \/ req[x].op \in {"get", "list"}
  BY <1>1, OthersStay DEF Safe, Inv
<1>3. Owed'
  BY <1>1, <1>2, OwedOther DEF Unspoiled
<1>4. \A f \in fetching' : f \in fetching /\ req'[f].val = req[f].val
  BY <1>1, FetchesGoOn
<1>. QED  BY <1>1, <1>3, <1>4, UnspoiledStays

LEMMA UnspoiledStep ==
    ASSUME Safe, Safe', [Next2]_allVars, ~spoiled => Unspoiled, ~spoiled'
    PROVE  Unspoiled'
<1>0. RowsGrow
  BY NextIsNext, RowsOnlyGrow DEF Safe
<1>1. ASSUME NEW r \in Requests, Proceed(r) \/ Publish(r) \/ PublishFeed(r) \/ Fetch(r) \/ Ends(r)
      PROVE  Unspoiled'
  BY <1>0, <1>1, UnspoiledProceed, UnspoiledPublish, UnspoiledFetch, UnspoiledEnds
<1>2. ASSUME NEW r \in Requests, Load(r) PROVE Unspoiled'
  <2>1. ~spoiled
    BY <1>2 DEF Load
  <2>. QED  BY <1>0, <1>2, <2>1, UnspoiledLoad
<1>3. ASSUME NEW r \in Requests, Answer(r), r \notin fetching, UNCHANGED pageVars PROVE Unspoiled'
  <2>1. /\ UNCHANGED <<row, shown, fetching, wire, top, spoiled>> /\ req[r].pc = "answer"
    BY <1>3 DEF Answer, At, pageVars
  <2>2. \A x \in Requests : req'[x] = req[x] \/ x = r
    BY <1>3, OthersStay DEF Safe, Inv
  <2>3. Unspoiled /\ Owed'
    BY <2>1, <2>2, OwedOther DEF Unspoiled
  <2>4. \A f \in fetching : req'[f] = req[f]
    BY <1>3, <2>2 DEF Safe, PageTypeOK
  <2>. QED  BY <1>0, <2>1, <2>3, <2>4, UnspoiledStays
<1>4. CASE (Expires /\ UNCHANGED pageVars) \/ UNCHANGED allVars
  <2>1. UNCHANGED <<row, req, shown, fetching, wire, top, spoiled>>
    BY <1>4 DEF Expires, ExpireDetail, ExpireList, allVars, vars, pageVars
  <2>2. Unspoiled /\ Owed'
    BY <2>1, OwedOther DEF Unspoiled
  <2>. QED  BY <1>0, <2>1, <2>2, UnspoiledStays
<1>5. CASE Open \/ Leave \/ Subscribe \/ Disconnect \/ Receive
  BY <1>0, <1>5, UnspoiledConnection, UnspoiledReceive
<1>. QED  BY <1>1, <1>2, <1>3, <1>4, <1>5 DEF Next2

LEMMA InitUnspoiled == RealtimeInit => Unspoiled
<1>. SUFFICES ASSUME RealtimeInit PROVE Unspoiled
  OBVIOUS
<1>1. shown = None /\ fetching = {} /\ wire = <<>> /\ top = New /\ row[Watched] = New
  BY DEF RealtimeInit, InitPage
<1>2. New \in Row /\ New \in Records /\ New.status = 1 /\ New.price = 0 /\ New.text = 0
  BY NewIsRow DEF New, Absent, Records
<1>3. Owed
  BY <1>1, <1>2 DEF Owed
<1>4. LeadsTo(wire, top, row[Watched])
  BY <1>1, <1>2, BehindReflexive, LeadsEmpty
<1>. QED  BY <1>1, <1>3, <1>4 DEF Unspoiled
-----------------------------------------------------------------------------
RealtimeInv == Safe /\ (~spoiled => Unspoiled)

LEMMA SpecRealtimeInv == RealtimeSpec => []RealtimeInv
<1>1. RealtimeInit => RealtimeInv
  BY InitSafe, InitUnspoiled DEF RealtimeInv
<1>2. RealtimeInv /\ [Next2]_allVars => RealtimeInv'
  <2>. SUFFICES ASSUME RealtimeInv, [Next2]_allVars PROVE RealtimeInv'
    OBVIOUS
  <2>1. Safe /\ Safe'
    BY SafeStep DEF RealtimeInv
  <2>2. ASSUME ~spoiled' PROVE Unspoiled'
    BY <2>1, <2>2, UnspoiledStep DEF RealtimeInv
  <2>. QED  BY <2>1, <2>2 DEF RealtimeInv
<1>. QED  BY <1>1, <1>2, PTL DEF RealtimeSpec

(* The page's state, its rooms and its messages have their types, and so   *)
(* do the table, the cache and the requests beneath.                       *)
THEOREM RealtimeTypeCorrect == RealtimeSpec => []RealtimeTypeOK
<1>1. RealtimeInv => RealtimeTypeOK
  BY DEF RealtimeInv, Safe, Inv, PageTypeOK, RealtimeTypeOK
<1>. QED  BY <1>1, SpecRealtimeInv, PTL

(* Nothing the page of page.tsx shows is ahead of the table: each part of  *)
(* it has been committed to the auction it was taken from, for any number  *)
(* of auctions, rooms, requests and messages on their way.                 *)
THEOREM PageNeverAhead == RealtimeSpec => []NeverAhead
<1>1. RealtimeInv => NeverAhead
  BY DEF RealtimeInv, Safe, Page
<1>. QED  BY <1>1, SpecRealtimeInv, PTL

(* At rest the page shows its auction as it is, unless one of the things   *)
(* has happened that set "spoiled", which are all seen in the code: there  *)
(* is no other way for the page to be left outdated.                       *)
THEOREM PageShowsTheAuction == RealtimeSpec => []ShowsTheAuction
<1>1. RealtimeInv => ShowsTheAuction
  <2>. SUFFICES ASSUME RealtimeInv, AtRest, shown # None, ~spoiled PROVE shown = row[Watched]
    BY DEF ShowsTheAuction
  <2>1. Safe /\ Unspoiled
    BY DEF RealtimeInv
  <2>2. Owed /\ LeadsTo(<<>>, top, shown) /\ ~Behind(row[Watched], shown)
    BY <2>1 DEF Unspoiled, AtRest
  <2>3. /\ ~(row[Watched].price > top.price) /\ ~(row[Watched].status > top.status)
        /\ ~(row[Watched].text > top.text)
    BY <2>2 DEF Owed, OwesBid, OwesEnd, OwesText, AtRest, At
  <2>4. shown \in Row /\ top \in Row /\ row[Watched] \in Row
    BY <2>1, PageFacts
  <2>5. ~Behind(shown, top)
    BY <2>2, <2>4, LeadsEnd
  <2>6. /\ shown.status = row[Watched].status /\ shown.price = row[Watched].price /\ shown.text = row[Watched].text
    BY <2>2, <2>3, <2>4, <2>5, RecordFacts DEF Behind, Records
  <2>. QED  BY <2>4, <2>6 DEF Row
<1>. QED  BY <1>1, SpecRealtimeInv, PTL
===============================================================================
