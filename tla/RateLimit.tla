----------------------------- MODULE RateLimit -----------------------------
(***************************************************************************)
(* A request before its handler does anything: middleware RateLimit counts *)
(* it against its address, and, if it is admitted, ParsePaginationFromQuery*)
(* turns its query into a page, here of the active auctions, whose rows    *)
(* and number ListActive asks for one after the other.  The limiter's      *)
(* mutex makes each count, and each cleanup, one step.  The cache that     *)
(* ListActive looks into first is in module Catalogue: what it has is such *)
(* an answer, given before.                                                *)
(*                                                                         *)
(* Time is told only by how long ago an address was last seen.             *)
(***************************************************************************)
EXTENDS Pagination, Functions, SequencesExt

CONSTANTS
    Addresses,
    Requests,   \* request goroutines
    Rate,       \* requests per window
    Window,     \* ticks of a window
    None,       \* an address that is not in the map, a total not known yet
    Numbers,    \* bound: numbers in query strings
    MaxRows     \* bound: length of the list

ASSUME RateLimitAssumption ==
    /\ Rate \in Nat \ {0}
    /\ Window \in Nat
    /\ MaxRows \in Nat
    /\ Numbers \subseteq Int
    /\ None \notin [count: Nat, ago: Nat] \cup Nat

VARIABLES
    visitors,   \* rateLimiter.visitors: count, and ticks since lastSeen
    rows,       \* the list, as the query orders it: each row is its place in it
    answer,     \* of each goroutine's last request: what it has read, or answered
    recent      \* history: requests admitted that many ticks ago

vars == <<visitors, rows, answer, recent>>

Long == 2 * Window + 1   \* ago: longer is all the same
Visitor == [count: 1..Rate + 1, ago: 0..Long]

(* A page, its rows and the total; history: the length of the list when    *)
(* the rows were read, and whether the list changed before it was counted. *)
Answer == [page: [page: Nat \ {0}, size: 1..MaxSize], rows: Seq(1..MaxRows) \cup {Error},
           total: 0..MaxRows \cup {None}, seen: 0..MaxRows, changed: BOOLEAN]
NoAnswer == [page |-> NewPaginationRequest, rows |-> <<>>, total |-> 0, seen |-> 0, changed |-> FALSE]

Init ==
    /\ visitors = [ip \in Addresses |-> None]
    /\ rows = <<>>
    /\ answer = [g \in Requests |-> NoAnswer]
    /\ recent = [ip \in Addresses |-> [t \in 0..Window |-> 0]]
-----------------------------------------------------------------------------
(* The first request of an address, or the first after more than a window  *)
(* without one, starts the count.                                          *)
Starts(ip) == visitors[ip] = None \/ visitors[ip].ago > Window

(* Every further request counts and is seen, also one that is refused.     *)
CountSinceFirst(ip) ==   (* Mutant: lastSeen stays that of the first request *)
    [count |-> IF visitors[ip].count > Rate THEN Rate + 1 ELSE visitors[ip].count + 1,
     ago   |-> visitors[ip].ago]
Count(ip) == [count |-> IF visitors[ip].count > Rate THEN Rate + 1 ELSE visitors[ip].count + 1,
              ago   |-> 0]

Visit(ip) == visitors' = [visitors EXCEPT ![ip] = IF Starts(ip) THEN [count |-> 1, ago |-> 0] ELSE Count(ip)]

Admitted(ip) == visitors'[ip].count <= Rate

(* The rows of the page.  A query that MySQL refuses is the answer.        *)
ListActiveAuctions(g, page, size) ==
    LET p     == ParsePaginationFromQuery(page, size)
        found == PageOf(rows, p)
    IN  answer' = [answer EXCEPT ![g] =
            [page |-> p, rows |-> found, total |-> IF found = Error THEN 0 ELSE None,
             seen |-> Len(rows), changed |-> FALSE]]

Counting(g) == answer[g].total = None

Request(g, ip, page, size) ==
    /\ ~Counting(g)
    /\ Visit(ip)
    /\ IF Admitted(ip)
       THEN ListActiveAuctions(g, page, size) /\ recent' = [recent EXCEPT ![ip][0] = @ + 1]
       ELSE UNCHANGED <<answer, recent>>
    /\ UNCHANGED rows

(* The total.  If this query fails there is no answer.                     *)
CountActiveAuctions(g) ==
    /\ Counting(g)
    /\ \E next \in {[answer[g] EXCEPT !.total = Len(rows)], NoAnswer} :
          answer' = [answer EXCEPT ![g] = next]
    /\ UNCHANGED <<visitors, rows, recent>>

(* Every minute, what has not been seen for two windows is forgotten.      *)
Cleanup ==
    /\ visitors' = [ip \in Addresses |->
            IF visitors[ip] # None /\ visitors[ip].ago > 2 * Window THEN None ELSE visitors[ip]]
    /\ UNCHANGED <<rows, answer, recent>>

Tick ==
    /\ visitors' = [ip \in Addresses |->
            IF visitors[ip] = None \/ visitors[ip].ago = Long THEN visitors[ip]
            ELSE [visitors[ip] EXCEPT !.ago = @ + 1]]
    /\ recent' = [ip \in Addresses |-> [t \in 0..Window |-> IF t = 0 THEN 0 ELSE recent[ip][t - 1]]]
    /\ UNCHANGED <<rows, answer>>

(* An auction is created, or ends: the others move up or down.             *)
Changed(list) ==
    /\ rows' = list
    /\ answer' = [g \in Requests |->
            IF Counting(g) THEN [answer[g] EXCEPT !.changed = TRUE] ELSE answer[g]]
    /\ UNCHANGED <<visitors, recent>>

Insert == Len(rows) < MaxRows /\ Changed(Append(rows, Len(rows) + 1))
End    == rows # <<>> /\ Changed(Front(rows))

Next ==
    \/ \E g \in Requests, ip \in Addresses, page, size \in Numbers \cup {NoNumber} :
          Request(g, ip, page, size)
    \/ \E g \in Requests : CountActiveAuctions(g)
    \/ Cleanup \/ Tick \/ Insert \/ End

Spec == Init /\ [][Next]_vars
-----------------------------------------------------------------------------
TypeOK ==
    /\ visitors \in [Addresses -> Visitor \cup {None}]
    /\ rows \in Seq(1..MaxRows) /\ Len(rows) <= MaxRows
    /\ answer \in [Requests -> Answer]
    /\ recent \in [Addresses -> [0..Window -> Nat]]

(* In no window of time are more than Rate requests of an address          *)
(* admitted, wherever the window begins and whatever is forgotten (README: *)
(* "10 req/min").                                                          *)
WindowBounded == \A ip \in Addresses : SumFunction(recent[ip]) <= Rate

(* Every answer of ListActive holds the rows that had the number of its    *)
(* page when rows were counted off by size from the first, as long as the  *)
(* offset fits its parameter, in the list as it was at the first of the    *)
(* two queries; and its total is the length of that list, unless an        *)
(* auction was created or ended between the two.                           *)
PageExact ==
    \A g \in Requests :
        LET p    == answer[g].page
            page == answer[g].rows
        IN  /\ GetOffset(p) < Half =>
                  /\ page # Error
                  /\ {page[k] : k \in 1..Len(page)} =
                        {i \in 1..answer[g].seen : (i - 1) \div p.size + 1 = p.page}
                  /\ \A j, k \in 1..Len(page) : j < k => page[j] < page[k]
            /\ page # Error /\ ~Counting(g) /\ ~answer[g].changed => answer[g].total = answer[g].seen

(* The pages that a total counts are all there is to see: one after the    *)
(* other, of one list, they give the whole list, and none of them is empty.*)
PagesComplete ==
    \A size \in 1..MaxSize :
        LET last == TotalPages(Len(rows), size)
            page == [n \in 1..last |-> PageOf(rows, [page |-> n, size |-> size])]
        IN  /\ \A n \in 1..last : page[n] # <<>>
            /\ GetOffset([page |-> last, size |-> size]) < Half => FlattenSeq(page) = rows
=============================================================================
