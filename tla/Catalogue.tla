----------------------------- MODULE Catalogue -----------------------------
(***************************************************************************)
(* The auctions as they are read: AuctionService over table auctions and a *)
(* Redis cache that is filled by readers and emptied by writers.           *)
(*                                                                         *)
(* Nothing ties a row to its cache entry: a reader loads a row and stores  *)
(* it later, a writer commits and deletes the entry later, and any call to *)
(* Redis may fail unnoticed (also because the client hung up: the calls    *)
(* use the context of the request).  Requests of every kind interleave,    *)
(* one access to MySQL or Redis at a time; the closer is one of them.      *)
(* Bids are judged in module Bidding: here a bid is its commit and what    *)
(* PlaceBid and its handler do afterwards.                                 *)
(***************************************************************************)
EXTENDS Integers, FiniteSets

CONSTANTS
    Auctions,
    Requests,   \* goroutines: HTTP requests and the closer
    Keys,       \* pages of the list: its pairs of limit and offset
    None,       \* no cache entry
    MaxPrice,   \* bound: bids on an auction
    MaxText     \* bound: edits of an auction

ASSUME CatalogueAssumption ==
    /\ IsFiniteSet(Auctions)
    /\ MaxPrice \in Nat
    /\ MaxText \in Nat

VARIABLES
    row,    \* table auctions
    detail, \* Redis: cache:auction:<id>
    lists,  \* Redis: cache:auctions:list:<limit>:<offset>
    req     \* what each request is doing

vars == <<row, detail, lists, req>>
-----------------------------------------------------------------------------
(* A row is told by what changes in it: its status (0: no such row, then   *)
(* AuctionStatusActive, AuctionStatusEnded), how many bids have raised its *)
(* price, and how often the owner has edited title, images and end time.   *)
Row     == [status: {1, 2}, price: 0..MaxPrice, text: 0..MaxText]
Absent  == [status |-> 0, price |-> 0, text |-> 0]
New     == [Absent EXCEPT !.status = 1]
Listed  == [id: Auctions, row: Row]
Listing == [rows: SUBSET Listed, count: 0..Cardinality(Auctions)]

Ops == {"get", "list", "bid", "edit", "create", "close"}
Pcs == {"idle", "set", "answer", "count", "setlist", "write", "end", "feed", "cast",
        "del", "scan", "dellist", "get"}

Request == [op: Ops, pc: Pcs, id: Auctions \cup {None}, val: Row \cup {None},
            keys: SUBSET Keys, listing: Listing]
NoList  == [rows |-> {}, count |-> 0]
Idle    == [op |-> "get", pc |-> "idle", id |-> None, val |-> None, keys |-> {}, listing |-> NoList]

Init ==
    /\ row \in [Auctions -> {Absent, New}]
    /\ detail = [a \in Auctions |-> None]
    /\ lists = [k \in Keys |-> None]
    /\ req = [r \in Requests |-> Idle]

At(r, pc)  == req[r].pc = pc
Goto(r, q) == req' = [req EXCEPT ![r] = q]
Step(r, pc) == [req[r] EXCEPT !.pc = pc]
Begin(r, op, pc, a) == At(r, "idle") /\ Goto(r, [Idle EXCEPT !.op = op, !.pc = pc, !.id = a])
-----------------------------------------------------------------------------
(* Queries.                                                                *)
GetAuctionByID(a)   == row[a]
ListActiveAuctions  == {l \in Listed : l.row = row[l.id] /\ l.row.status = 1}
CountActiveAuctions == Cardinality({a \in Auctions : row[a].status = 1})
CreateAuction(a)    == row[a] = Absent /\ row' = [row EXCEPT ![a] = New]
UpdateAuction(a)    == row' = [row EXCEPT ![a].text = @ + 1]
UpdateAuctionBid(a) == row' = [row EXCEPT ![a].price = @ + 1]
CancelAuctionByID(a) == row' = [row EXCEPT ![a].status = 3]   (* Mutant: the wrong constant *)
CloseAuctionByID(a) == row' = [row EXCEPT ![a].status = 2]

(* Cache.  No call reports an error; a failed Get is a miss.               *)
CacheSet(a, val)     == detail' = [detail EXCEPT ![a] = val] \/ UNCHANGED detail
CacheDel(a)          == detail' = [detail EXCEPT ![a] = None] \/ UNCHANGED detail
CacheSetList(k, val) == lists' = [lists EXCEPT ![k] = val] \/ UNCHANGED lists
CacheScanNothing     == {}   (* Mutant: a pattern that misses the prefix of the keys *)
CacheScan            == {k \in Keys : lists[k] # None}
CacheDelKeys(keys)   ==
    \/ lists' = [k \in Keys |-> IF k \in keys THEN None ELSE lists[k]]
    \/ UNCHANGED lists
-----------------------------------------------------------------------------
(* GetByID, for a request that is at q and goes on at hit if the entry is  *)
(* there, else loads the row to store it.                                  *)
GetByID(r, q, hit) ==
    \/ /\ detail[q.id] # None
       /\ Goto(r, [q EXCEPT !.pc = hit, !.val = detail[q.id]])
    \/ /\ GetAuctionByID(q.id).status # 0
       /\ Goto(r, [q EXCEPT !.pc = "set", !.val = GetAuctionByID(q.id)])

Answering(r) == IF req[r].op = "get" THEN "answer" ELSE "feed"

ReadDetail(r, a) ==
    /\ At(r, "idle")
    /\ GetByID(r, [Idle EXCEPT !.id = a], "answer")
    /\ UNCHANGED <<row, detail, lists>>

FillDetail(r) ==
    /\ At(r, "set")
    /\ CacheSet(req[r].id, req[r].val)
    /\ Goto(r, Step(r, Answering(r)))
    /\ UNCHANGED <<row, lists>>

Answer(r) ==
    /\ At(r, "answer")
    /\ Goto(r, Idle)
    /\ UNCHANGED <<row, detail, lists>>

(* ListActive that misses: rows and count are two queries.  (A hit changes *)
(* nothing.)                                                               *)
ReadList(r, k) ==
    /\ At(r, "idle")
    /\ Goto(r, [Idle EXCEPT !.op = "list", !.pc = "count", !.keys = {k}, !.listing.rows = ListActiveAuctions])
    /\ UNCHANGED <<row, detail, lists>>

CountList(r) ==
    /\ At(r, "count")
    /\ Goto(r, [Step(r, "setlist") EXCEPT !.listing.count = CountActiveAuctions])
    /\ UNCHANGED <<row, detail, lists>>

FillList(r) ==
    /\ At(r, "setlist")
    /\ \E k \in req[r].keys : CacheSetList(k, req[r].listing)
    /\ Goto(r, Idle)
    /\ UNCHANGED <<row, detail>>
-----------------------------------------------------------------------------
(* Writers.  A bid is broadcast and then invalidates; Update and Create    *)
(* invalidate, read the auction back and broadcast it to the feed, Update  *)
(* then also to the auction's room; the closer broadcasts what it listed,  *)
(* and invalidates nothing.                                                *)
Bid(r, a) ==
    /\ row[a].status = 1 /\ row[a].price < MaxPrice
    /\ UpdateAuctionBid(a)
    /\ At(r, "idle")
    /\ Goto(r, [Idle EXCEPT !.op = "bid", !.pc = "cast", !.id = a, !.val = row'[a]])
    /\ UNCHANGED <<detail, lists>>

EditCheck(r, a) ==
    /\ row[a].status = 1
    /\ Begin(r, "edit", "write", a)
    /\ UNCHANGED <<row, detail, lists>>

EditWriteOnly(r) ==   (* Mutant: Update does not invalidate *)
    /\ At(r, "write") /\ row[req[r].id].text < MaxText
    /\ UpdateAuction(req[r].id)
    /\ Goto(r, Step(r, "get"))
    /\ UNCHANGED <<detail, lists>>

EditWrite(r) ==
    /\ At(r, "write") /\ row[req[r].id].text < MaxText
    /\ UpdateAuction(req[r].id)
    /\ Goto(r, Step(r, "del"))
    /\ UNCHANGED <<detail, lists>>

Create(r, a) ==
    /\ CreateAuction(a)
    /\ Begin(r, "create", "scan", a)
    /\ UNCHANGED <<detail, lists>>

CloseScan(r, a) ==
    /\ row[a].status = 1
    /\ At(r, "idle")
    /\ Goto(r, [Idle EXCEPT !.op = "close", !.pc = "end", !.id = a, !.val = [row[a] EXCEPT !.status = 2]])
    /\ UNCHANGED <<row, detail, lists>>

CloseAnyway(r) ==   (* Mutant: a failed commit is announced *)
    /\ At(r, "end")
    /\ CloseAuctionByID(req[r].id) \/ UNCHANGED row
    /\ Goto(r, Step(r, "cast"))
    /\ UNCHANGED <<detail, lists>>

CloseCommit(r) ==
    /\ At(r, "end")
    /\ CloseAuctionByID(req[r].id)
    /\ Goto(r, Step(r, "cast"))
    /\ UNCHANGED <<detail, lists>>

CastFeed(r) ==
    /\ At(r, "feed")
    /\ Goto(r, IF req[r].op = "edit" THEN Step(r, "cast") ELSE Idle)
    /\ UNCHANGED <<row, detail, lists>>

Cast(r) ==
    /\ At(r, "cast")
    /\ Goto(r, IF req[r].op = "bid" THEN Step(r, "del") ELSE Idle)
    /\ UNCHANGED <<row, detail, lists>>

(* InvalidateAuction: the entry, then the keys of lists that a SCAN finds. *)
Invalidate(r) ==
    /\ At(r, "del")
    /\ CacheDel(req[r].id)
    /\ Goto(r, Step(r, "scan"))
    /\ UNCHANGED <<row, lists>>

ScanLists(r) ==
    /\ At(r, "scan")
    /\ Goto(r, [Step(r, "dellist") EXCEPT !.keys = CacheScan])
    /\ UNCHANGED <<row, detail, lists>>

DelLists(r) ==
    /\ At(r, "dellist")
    /\ CacheDelKeys(req[r].keys)
    /\ Goto(r, IF req[r].op = "bid" THEN Idle ELSE [Step(r, "get") EXCEPT !.keys = {}])
    /\ UNCHANGED <<row, detail>>

ReadBack(r) ==
    /\ At(r, "get")
    /\ GetByID(r, req[r], "feed")
    /\ UNCHANGED <<row, detail, lists>>
-----------------------------------------------------------------------------
(* The request fails, is cancelled, or its server stops.                   *)
Abort(r) ==
    /\ ~At(r, "idle")
    /\ Goto(r, Idle)
    /\ UNCHANGED <<row, detail, lists>>

(* The time to live of an entry is over.                                   *)
NeverExpires(a) == FALSE   (* Mutant: entries are stored without one *)
ExpireDetail(a) ==
    /\ detail[a] # None
    /\ detail' = [detail EXCEPT ![a] = None]
    /\ UNCHANGED <<row, lists, req>>

ExpireList(k) ==
    /\ lists[k] # None
    /\ lists' = [lists EXCEPT ![k] = None]
    /\ UNCHANGED <<row, detail, req>>

Begins(r) ==
    \/ \E a \in Auctions :
          ReadDetail(r, a) \/ Bid(r, a) \/ EditCheck(r, a) \/ Create(r, a) \/ CloseScan(r, a)
    \/ \E k \in Keys : ReadList(r, k)

(* What a request does between its start and its broadcasts or answer.     *)
Works(r) ==
    \/ FillDetail(r) \/ CountList(r) \/ FillList(r)
    \/ EditWrite(r) \/ CloseCommit(r) \/ Invalidate(r) \/ ScanLists(r) \/ DelLists(r) \/ ReadBack(r)

Expires == (\E a \in Auctions : ExpireDetail(a)) \/ (\E k \in Keys : ExpireList(k))

Next ==
    \/ \E r \in Requests : Begins(r) \/ Works(r) \/ CastFeed(r) \/ Cast(r) \/ Answer(r) \/ Abort(r)
    \/ Expires

Spec == Init /\ [][Next]_vars

(* Requests go on or are aborted; Redis expires what it was given a time   *)
(* to live for.                                                            *)
Fairness ==
    /\ \A r \in Requests : WF_vars(Works(r) \/ CastFeed(r) \/ Cast(r) \/ Answer(r) \/ Abort(r))
    /\ \A a \in Auctions : WF_vars(ExpireDetail(a))
    /\ \A k \in Keys : WF_vars(ExpireList(k))

FairSpec == Spec /\ Fairness
-----------------------------------------------------------------------------
TypeOK ==
    /\ row \in [Auctions -> Row \cup {Absent}]
    /\ detail \in [Auctions -> Row \cup {None}]
    /\ lists \in [Keys -> Listing \cup {None}]
    /\ req \in [Requests -> Request]

(* The entry of an auction, if there is one, holds its row, or a request   *)
(* is about to delete it.                                                  *)
Invalidating(a) == \E r \in Requests :
    /\ req[r].id = a
    /\ req[r].pc = "del" \/ (req[r].pc = "cast" /\ req[r].op = "bid")
Current(a) == detail[a] \in {None, row[a]} \/ Invalidating(a)

Fresh == [rows |-> ListActiveAuctions, count |-> CountActiveAuctions]
ListInvalidating(k) == \E r \in Requests :
    \/ req[r].pc \in {"del", "scan"} \/ (req[r].pc = "cast" /\ req[r].op = "bid")
    \/ req[r].pc = "dellist" /\ k \in req[r].keys
ListCurrent(k) == lists[k] \in {None, Fresh} \/ ListInvalidating(k)

(* How entries come to hold what is no longer true, until they expire: a   *)
(* reader stores what it loaded before a write, the closer ends an auction *)
(* without telling the cache, or an invalidation is lost.                  *)
StoredLate(r) == (FillDetail(r) /\ req[r].val # row[req[r].id]) \/ (FillList(r) /\ req[r].listing # Fresh)
Lost(r)       == Abort(r) \/ (Invalidate(r) /\ UNCHANGED detail) \/ (DelLists(r) /\ UNCHANGED lists)
Outdates(r)   == StoredLate(r) \/ Lost(r) \/ CloseCommit(r)

(* In no other way: whoever changes an auction otherwise sees to it that   *)
(* nobody is served the old row for the time to live of an entry.          *)
DetailKept ==
    [][(\E r \in Requests : Outdates(r)) \/ (\A a \in Auctions : Current(a) => Current(a)')]_vars

(* The same of the pages of the list, which every change of an active      *)
(* auction concerns (README: "invalidation on write").                     *)
ListsKept ==
    [][(\E r \in Requests : Outdates(r)) \/ (\A k \in Keys : ListCurrent(k) => ListCurrent(k)')]_vars

(* Whatever went wrong, after the last change both caches come to agree    *)
(* with the table, and stay so: entries expire, and late readers end.      *)
CachesConverge ==
    <>[](/\ \A a \in Auctions : detail[a] \in {None, row[a]}
         /\ \A k \in Keys : lists[k] \in {None, Fresh})
=============================================================================
