------------------------------ MODULE Realtime ------------------------------
(***************************************************************************)
(* What the page of one auction shows.  The browser has one connection for *)
(* all its pages, and never leaves a room again: the rooms of the pages it *)
(* has been on, and the feed, stay joined.  The page asks for the auction  *)
(* when it is opened and again whenever the language is switched, each     *)
(* time as a request of module Catalogue, and applies every message that   *)
(* reaches the browser, of whatever auction it is.  Messages are published *)
(* after the commit they report, each by its request in its own time; what *)
(* Redis, the hub and the connection carry stays in order but may be lost  *)
(* (module Hub), and a browser that has lost its connection joins its      *)
(* rooms again without asking for what it missed.                          *)
(***************************************************************************)
EXTENDS Catalogue, Sequences, FiniteSetsExt

CONSTANTS
    Watched,    \* the auction of the page
    Feed,       \* the room auction:feed; the others are called by their auctions
    Visited,    \* subscribedRooms: in the order in which pages first joined them
    MaxWire,    \* bound: messages on their way
    MaxWrites,  \* bound: bids, edits and closings of all auctions
    Cached      \* bound: auctions whose entries Redis stores

Rooms == Auctions \cup {Feed}

ASSUME RealtimeAssumption ==
    /\ Watched \in Auctions
    /\ Feed \notin Auctions
    /\ Visited \in Seq(Rooms)
    /\ \E i \in 1..Len(Visited) : Visited[i] = Watched
    /\ MaxWire \in Nat
    /\ None \notin Row

VARIABLES
    open,       \* the page is mounted
    shown,      \* its state variable auction; None until loaded
    from,       \* history: the auction each part of what is shown is taken from
    fetching,   \* its requests that are not answered
    joined,     \* how many of its rooms the connection of the browser is in
    wire,       \* messages between BroadcastToRoom and the browser
    top,        \* history: the newest of everything published of the auction
    spoiled     \* history: something has happened that may leave the page wrong

pageVars == <<open, shown, from, fetching, joined, wire, top, spoiled>>
allVars  == <<vars, pageVars>>

Kinds   == {"new_bid", "auction_ended", "auction_updated"}
Message == [type: Kinds, id: Auctions, data: Row]
Source  == [status: Auctions, price: Auctions, text: Auctions]
Of(a)   == [status |-> a, price |-> a, text |-> a]

InitPage ==
    /\ open = FALSE /\ shown = None /\ from = Of(Watched) /\ fetching = {}
    /\ joined \in 0..Len(Visited)
    /\ wire = <<>>
    /\ top = New
    /\ spoiled = FALSE
-----------------------------------------------------------------------------
(* The handler of useWebSocket on the page, which looks at the type of a   *)
(* message only.                                                           *)
ApplySum(m, a) ==    (* Mutant: amounts taken for increments *)
    IF m.type = "new_bid" THEN [a EXCEPT !.price = @ + m.data.price] ELSE m.data
ApplyOpen(m, a) ==   (* Mutant: the end changes the price only *)
    IF m.type = "auction_updated" THEN m.data ELSE [a EXCEPT !.price = m.data.price]
Apply(m, a) ==
    CASE m.type = "new_bid"         -> [a EXCEPT !.price = m.data.price]
      [] m.type = "auction_ended"   -> [a EXCEPT !.status = 2, !.price = m.data.price]
      [] m.type = "auction_updated" -> m.data

(* Whose then is what the page shows.                                      *)
ApplySource(m, f) ==
    CASE m.type = "new_bid"         -> [f EXCEPT !.price = m.id]
      [] m.type = "auction_ended"   -> [f EXCEPT !.status = m.id, !.price = m.id]
      [] m.type = "auction_updated" -> Of(m.id)

(* Does what a carries fall short of b?                                    *)
Behind(a, b) == a.status < b.status \/ a.price < b.price \/ a.text < b.text

Newest(a, b) ==
    LET Larger(i, j) == IF i < j THEN j ELSE i
    IN  [status |-> Larger(a.status, b.status), price |-> Larger(a.price, b.price),
         text |-> Larger(a.text, b.text)]

MessageOf(r) ==
    [type |-> CASE req[r].op = "bid" -> "new_bid" [] req[r].op = "close" -> "auction_ended"
                [] OTHER -> "auction_updated",
     id |-> req[r].id, data |-> req[r].val]

(* BroadcastToRoom reaches the browser if it is in the room and nothing on *)
(* the way is full or failing.                                             *)
InRoom(room)     == \E i \in 1..joined : Visited[i] = room
Reaches(room, m) == InRoom(room) /\ Len(wire) < MaxWire /\ wire' = Append(wire, m)

(* A message of the auction is now out; the page that has asked for the    *)
(* auction, or has messages coming, must not miss it.                      *)
Counts(m, wrong) ==
    IF m.id = Watched
    THEN top' = Newest(top, Apply(m, top)) /\ spoiled' = (spoiled \/ wrong)
    ELSE UNCHANGED <<top, spoiled>>
Asked == shown # None \/ fetching # {}

Publish(r) ==
    LET m == MessageOf(r)
    IN  /\ Cast(r)
        /\ \/ Reaches(m.id, m) /\ Counts(m, Behind(Apply(m, top), top))
           \/ UNCHANGED wire /\ Counts(m, Asked \/ wire # <<>>)
        /\ UNCHANGED <<open, shown, from, fetching, joined>>

(* An edit goes to the feed first.  What Create announces there the page   *)
(* ignores.                                                                *)
PublishFeed(r) ==
    LET m == MessageOf(r)
    IN  /\ CastFeed(r)
        /\ \/ req[r].op = "edit" /\ Reaches(Feed, m) /\ Counts(m, Behind(Apply(m, top), top))
           \/ UNCHANGED <<wire, top, spoiled>>
        /\ UNCHANGED <<open, shown, from, fetching, joined>>
-----------------------------------------------------------------------------
(* The effects of the page: GET /api/auctions/:id, sent when the page is   *)
(* mounted and when the function t changes with the language; and the      *)
(* hook, which joins the room of the page.  A new connection joins all     *)
(* rooms, one after the other; none is ever left, as the handler of the    *)
(* Navbar is always there.                                                 *)
Open ==
    /\ ~open
    /\ open' = TRUE
    /\ UNCHANGED <<vars, shown, from, fetching, joined, wire, top, spoiled>>

Fetch(r) ==
    /\ open
    /\ ReadDetail(r, Watched)
    /\ fetching' = fetching \cup {r}
    /\ spoiled' = (spoiled \/ req'[r].val # row[Watched])
    /\ UNCHANGED <<open, shown, from, joined, wire, top>>

Load(r) ==
    /\ r \in fetching
    /\ Answer(r)
    /\ fetching' = fetching \ {r}
    /\ shown' = req[r].val /\ from' = Of(Watched)
    /\ UNCHANGED <<open, joined, wire, top, spoiled>>

Left == open' = FALSE /\ shown' = None /\ from' = Of(Watched) /\ fetching' = {}

Leave ==
    /\ open
    /\ Left
    /\ UNCHANGED <<vars, joined, wire, top, spoiled>>

Subscribe ==
    /\ joined < Len(Visited)
    /\ joined' = joined + 1
    /\ UNCHANGED <<vars, open, shown, from, fetching, wire, top, spoiled>>

Disconnect ==
    /\ joined # 0
    /\ joined' = 0 /\ wire' = <<>>
    /\ spoiled' = (spoiled \/ (Asked /\ wire # <<>>))
    /\ UNCHANGED <<vars, open, shown, from, fetching, top>>

(* Handlers get every message, if the page is mounted.  Before the auction *)
(* is loaded only one that brings a whole auction has an effect.  An       *)
(* answer that is still to come replaces what the message has brought.     *)
Receive ==
    LET m == Head(wire)
        heard == open /\ (shown # None \/ m.type = "auction_updated")
    IN  /\ wire # <<>>
        /\ wire' = Tail(wire)
        /\ shown' = IF heard THEN Apply(m, shown) ELSE shown
        /\ from' = IF heard THEN ApplySource(m, from) ELSE from
        /\ spoiled' = (spoiled \/ IF m.id = Watched
                                  THEN \E r \in fetching : Behind(req[r].val, Apply(m, req[r].val))
                                  ELSE shown' # shown)
        /\ UNCHANGED <<vars, open, fetching, joined, top>>
-----------------------------------------------------------------------------
Writes ==
    MapThenSumSet(LAMBDA a : row[a].price + row[a].text + (IF row[a].status = 2 THEN 1 ELSE 0), Auctions)
WithinBounds ==
    /\ row' # row => Writes < MaxWrites
    /\ \A a \in Auctions \ Cached : detail'[a] = None

(* An Update that reads back an outdated entry announces that.             *)
Proceed(r) ==
    /\ Begins(r) \/ Works(r)
    /\ WithinBounds
    /\ spoiled' = (spoiled \/ (At(r, "get") /\ req'[r].val # row[req[r].id]))
    /\ UNCHANGED <<open, shown, from, fetching, joined, wire, top>>

(* A writer that ends early may leave its change unannounced.  A page      *)
(* whose request failed is left.                                           *)
Ends(r) ==
    /\ Abort(r)
    /\ spoiled' = (spoiled \/ req[r].op \notin {"get", "list"})
    /\ IF r \in fetching THEN Left ELSE UNCHANGED <<open, shown, from, fetching>>
    /\ UNCHANGED <<joined, wire, top>>

Next2 ==
    \/ \E r \in Requests :
          \/ Proceed(r)
          \/ Answer(r) /\ r \notin fetching /\ UNCHANGED pageVars
          \/ Publish(r) \/ PublishFeed(r) \/ Fetch(r) \/ Load(r) \/ Ends(r)
    \/ Expires /\ UNCHANGED pageVars
    \/ Open \/ Leave \/ Subscribe \/ Disconnect \/ Receive

RealtimeInit == Init /\ row[Watched] = New /\ InitPage
RealtimeSpec == RealtimeInit /\ [][Next2]_allVars
-----------------------------------------------------------------------------
RealtimeTypeOK ==
    /\ TypeOK
    /\ open \in BOOLEAN
    /\ shown \in Row \cup {None}
    /\ from \in Source
    /\ fetching \subseteq Requests
    /\ joined \in 0..Len(Visited)
    /\ wire \in Seq(Message) /\ Len(wire) <= MaxWire
    /\ top \in Row
    /\ spoiled \in BOOLEAN

(* Whatever is late, lost, cached or out of order, the page shows no bid,  *)
(* edit or end that has not been committed to the auction it was taken     *)
(* from.  That need not be the auction of the page: the handler does not   *)
(* compare the auction of a message with its own.                          *)
NeverAhead == shown # None =>
    /\ shown.status <= row[from.status].status
    /\ shown.price <= row[from.price].price
    /\ shown.text <= row[from.text].text

(* At rest the page shows its auction as it is, unless one of these things *)
(* has happened: a message was lost after the page had asked, an older one *)
(* was published after a newer one, an answer replaced what a message had  *)
(* brought since it was read, a message of another auction was applied,    *)
(* the page or an edit read an outdated entry, or a writer was cut short.  *)
AtRest == wire = <<>> /\ \A r \in Requests : At(r, "idle")
ShowsTheAuction == AtRest /\ shown # None /\ ~spoiled => shown = row[Watched]
=============================================================================
