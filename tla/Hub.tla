-------------------------------- MODULE Hub --------------------------------
(***************************************************************************)
(* The websocket hub of one server instance (internal/ws): Hub.Run and its *)
(* three channels, the two pumps of each connection, the goroutine that    *)
(* listens to Redis, and requests that broadcast by themselves when Redis  *)
(* does not take their message.  A Go panic, and the runtime's fatal error *)
(* on a map that is iterated and written at once, end the process.         *)
(***************************************************************************)
EXTENDS Integers, Sequences, FiniteSets

CONSTANTS
    Clients,      \* websocket connections; each is accepted at most once
    Rooms,        \* rooms of auctions and of users
    UserOf,       \* the user in a connection's token, or NoOne
    OwnerOf,      \* the user a room is private to, or NoOne for an auction's
    Requests,     \* goroutines that call BroadcastToRoom
    Redis,        \* the goroutine subscribeRedis
    ChanCap,      \* capacity of the hub's channels (256 in the code)
    SendCap,      \* sendBufSize (256 in the code)
    MaxMessages,  \* bound of the model: broadcasts in a behaviour
    NoOne

ASSUME HubAssumption ==
    /\ ChanCap \in Nat \ {0} /\ SendCap \in Nat \ {0} /\ MaxMessages \in Nat
    /\ NoOne \notin Clients \cup Rooms
    /\ Redis \notin Requests

VARIABLES
    rooms,       \* Hub.rooms; a room without clients has no entry
    register, unregister, disconnect,  \* the hub's channels
    hubPc,       \* where Hub.Run is
    leaver,      \* the client whose channel Run is about to close
    readPc,      \* where each ReadPump is
    readRoom,    \* the room it is about to send to the hub
    joined,      \* Client.rooms: what the ReadPump takes itself to be in
    writePc,     \* where each WritePump is
    send,        \* Client.send, a buffered channel
    closed,      \* clients whose send channel is closed
    inbox,       \* messages Redis has delivered to this instance
    listening,   \* subscribeRedis has not returned
    castMsg,     \* per broadcasting goroutine: its message
    castLeft,    \* and the clients its range over the room has still to visit
    published,   \* number of broadcasts so far
    stopping,    \* the context is cancelled
    crashed      \* the process has died of a panic or a fatal error

chanVars  == <<register, unregister, disconnect>>
hubVars   == <<hubPc, leaver>>
readVars  == <<readPc, readRoom, joined>>
castVars  == <<castMsg, castLeft>>
redisVars == <<inbox, listening, published>>
vars == <<rooms, chanVars, hubVars, readVars, writePc, send, closed,
          castVars, redisVars, stopping, crashed>>

Casters == Requests \cup {Redis}
Message == [n: 1..MaxMessages, room: Rooms, direct: BOOLEAN]
NoMessage == [n |-> 0, room |-> NoOne, direct |-> FALSE]

Init ==
    /\ rooms = [r \in Rooms |-> {}]
    /\ register = <<>> /\ unregister = <<>> /\ disconnect = <<>>
    /\ hubPc = "select" /\ leaver = NoOne
    /\ readPc = [c \in Clients |-> "new"]
    /\ readRoom = [c \in Clients |-> NoOne]
    /\ joined = [c \in Clients |-> {}]
    /\ writePc = [c \in Clients |-> "new"]
    /\ send = [c \in Clients |-> <<>>]
    /\ closed = {}
    /\ inbox = <<>> /\ listening = TRUE /\ published = 0
    /\ castMsg = [b \in Casters |-> NoMessage]
    /\ castLeft = [b \in Casters |-> {}]
    /\ stopping = FALSE /\ crashed = FALSE
-----------------------------------------------------------------------------
(* The goroutines of a connection.                                         *)

(* HandleWS: the connection is upgraded and its pumps start.               *)
Connect(c) ==
    /\ readPc[c] = "new"
    /\ readPc' = [readPc EXCEPT ![c] = "reading"]
    /\ writePc' = [writePc EXCEPT ![c] = "running"]
    /\ UNCHANGED <<rooms, chanVars, hubVars, readRoom, joined, send, closed,
                   castVars, redisVars, stopping, crashed>>

(* Mutant: every well-formed room may be subscribed to.                    *)
AnyRoom(c, r) == TRUE

(* Auctions are public; a user's room is for that user.                    *)
CanSubscribe(c, r) == OwnerOf[r] \in {NoOne, UserOf[c]}

(* ReadPump reads a message that makes it call Register or Unregister;     *)
(* other messages change nothing.                                          *)
ReadSubscribe(c, r) ==
    /\ readPc[c] = "reading"
    /\ r \notin joined[c] /\ CanSubscribe(c, r)
    /\ joined' = [joined EXCEPT ![c] = @ \cup {r}]
    /\ readPc' = [readPc EXCEPT ![c] = "register"]
    /\ readRoom' = [readRoom EXCEPT ![c] = r]
    /\ UNCHANGED <<rooms, chanVars, hubVars, writePc, send, closed,
                   castVars, redisVars, stopping, crashed>>

ReadUnsubscribe(c, r) ==
    /\ readPc[c] = "reading"
    /\ r \in joined[c]
    /\ joined' = [joined EXCEPT ![c] = @ \ {r}]
    /\ readPc' = [readPc EXCEPT ![c] = "unregister"]
    /\ readRoom' = [readRoom EXCEPT ![c] = r]
    /\ UNCHANGED <<rooms, chanVars, hubVars, writePc, send, closed,
                   castVars, redisVars, stopping, crashed>>

(* The pump waits until the hub's channel has room for what it sends.      *)
Register(c) ==
    /\ readPc[c] = "register" /\ Len(register) < ChanCap
    /\ register' = Append(register, <<readRoom[c], c>>)
    /\ readPc' = [readPc EXCEPT ![c] = "reading"]
    /\ readRoom' = [readRoom EXCEPT ![c] = NoOne]
    /\ UNCHANGED <<rooms, unregister, disconnect, hubVars, joined, writePc, send, closed,
                   castVars, redisVars, stopping, crashed>>

Unregister(c) ==
    /\ readPc[c] = "unregister" /\ Len(unregister) < ChanCap
    /\ unregister' = Append(unregister, <<readRoom[c], c>>)
    /\ readPc' = [readPc EXCEPT ![c] = "reading"]
    /\ readRoom' = [readRoom EXCEPT ![c] = NoOne]
    /\ UNCHANGED <<rooms, register, disconnect, hubVars, joined, writePc, send, closed,
                   castVars, redisVars, stopping, crashed>>

(* ReadMessage fails: the peer left, was silent too long, or the           *)
(* connection was closed by the WritePump.                                 *)
ReadFails(c) ==
    /\ readPc[c] = "reading"
    /\ readPc' = [readPc EXCEPT ![c] = "disconnect"]
    /\ UNCHANGED <<rooms, chanVars, hubVars, readRoom, joined, writePc, send, closed,
                   castVars, redisVars, stopping, crashed>>

(* The deferred unregisterAll and Close.                                   *)
UnregisterAll(c) ==
    /\ readPc[c] = "disconnect" /\ Len(disconnect) < ChanCap
    /\ disconnect' = Append(disconnect, c)
    /\ readPc' = [readPc EXCEPT ![c] = "done"]
    /\ UNCHANGED <<rooms, register, unregister, hubVars, readRoom, joined, writePc, send, closed,
                   castVars, redisVars, stopping, crashed>>

(* WritePump takes the next message off the channel and writes it.         *)
WriteMessage(c) ==
    /\ writePc[c] = "running" /\ send[c] # <<>>
    /\ send' = [send EXCEPT ![c] = Tail(@)]
    /\ UNCHANGED <<rooms, chanVars, hubVars, readVars, writePc, closed,
                   castVars, redisVars, stopping, crashed>>

(* Its channel is closed and drained, or a message or a ping fails.        *)
WriteEnds(c) ==
    /\ writePc[c] = "running"
    /\ writePc' = [writePc EXCEPT ![c] = "done"]
    /\ \/ c \in closed /\ send[c] = <<>> /\ UNCHANGED send
       \/ send[c] # <<>> /\ send' = [send EXCEPT ![c] = Tail(@)]
       \/ UNCHANGED send
    /\ UNCHANGED <<rooms, chanVars, hubVars, readVars, closed,
                   castVars, redisVars, stopping, crashed>>
-----------------------------------------------------------------------------
(* Broadcasts.                                                             *)

(* localBroadcast finds the room's map under the read lock, which closeAll *)
(* excludes, and ranges over it without the lock.                          *)
StartCast(b, m) ==
    /\ hubPc # "closeAll"
    /\ castMsg' = [castMsg EXCEPT ![b] = m]
    /\ castLeft' = [castLeft EXCEPT ![b] = rooms[m.room]]

(* BroadcastToRoom: Redis takes the message and it arrives here, or is     *)
(* lost; Publish reports an error, perhaps of a message that did arrive,   *)
(* and the request broadcasts it to the clients of this instance.          *)
Publish(b, r) ==
    /\ castLeft[b] = {} /\ published < MaxMessages
    /\ published' = published + 1
    /\ \E arrives, fails \in BOOLEAN :
        /\ inbox' = IF arrives
                    THEN Append(inbox, [n |-> published + 1, room |-> r, direct |-> FALSE])
                    ELSE inbox
        /\ IF fails
           THEN StartCast(b, [n |-> published + 1, room |-> r, direct |-> TRUE])
           ELSE UNCHANGED castVars
    /\ UNCHANGED <<rooms, chanVars, hubVars, readVars, writePc, send, closed,
                   listening, stopping, crashed>>

(* Mutant: subscribeRedis starts a goroutine for each message.             *)
TakeMessageAsync ==
    /\ listening /\ inbox # <<>>
    /\ \E b \in Casters : castLeft[b] = {} /\ StartCast(b, Head(inbox))
    /\ inbox' = Tail(inbox)
    /\ UNCHANGED <<rooms, chanVars, hubVars, readVars, writePc, send, closed,
                   listening, published, stopping, crashed>>

(* subscribeRedis handles one message after the other.                     *)
TakeMessage ==
    /\ listening /\ inbox # <<>> /\ castLeft[Redis] = {}
    /\ StartCast(Redis, Head(inbox))
    /\ inbox' = Tail(inbox)
    /\ UNCHANGED <<rooms, chanVars, hubVars, readVars, writePc, send, closed,
                   listening, published, stopping, crashed>>

StopListening ==
    /\ stopping /\ listening /\ castLeft[Redis] = {}
    /\ listening' = FALSE
    /\ UNCHANGED <<rooms, chanVars, hubVars, readVars, writePc, send, closed,
                   castVars, inbox, published, stopping, crashed>>

(* Mutant: the length is compared after the capacity was reached.          *)
DeliverOneTooMany(c, m) ==
    /\ send' = IF Len(send[c]) <= SendCap THEN [send EXCEPT ![c] = Append(@, m)] ELSE send
    /\ UNCHANGED closed

(* Mutant: a client whose buffer is full is closed.                        *)
DeliverOrClose(c, m) ==
    IF Len(send[c]) < SendCap
    THEN send' = [send EXCEPT ![c] = Append(@, m)] /\ UNCHANGED closed
    ELSE closed' = closed \cup {c} /\ UNCHANGED send

(* The select of localBroadcast: a message for a full buffer is dropped.   *)
Deliver(c, m) ==
    /\ send' = IF Len(send[c]) < SendCap THEN [send EXCEPT ![c] = Append(@, m)] ELSE send
    /\ UNCHANGED closed

(* One step of the range.  A send on a closed channel panics; only an HTTP *)
(* handler recovers, the closer and subscribeRedis do not.                 *)
CastTo(b, c) ==
    /\ c \in castLeft[b]
    /\ IF c \in closed
       THEN /\ \/ crashed' = TRUE /\ UNCHANGED castLeft
               \/ b # Redis /\ castLeft' = [castLeft EXCEPT ![b] = {}] /\ UNCHANGED crashed
            /\ UNCHANGED <<send, closed>>
       ELSE /\ Deliver(c, castMsg[b])
            /\ castLeft' = [castLeft EXCEPT ![b] = @ \ {c}]
            /\ UNCHANGED crashed
    /\ UNCHANGED <<rooms, chanVars, hubVars, readVars, writePc, castMsg, redisVars, stopping>>
-----------------------------------------------------------------------------
(* Hub.Run.                                                                *)

(* Run writes the maps of the rooms in R, for client c, while a goroutine  *)
(* may range over them: the runtime may stop the process, and the range    *)
(* may or may not see the change.                                          *)
WriteMaps(R, c, new) ==
    LET ranging == {b \in Casters : castLeft[b] # {} /\ castMsg[b].room \in R} IN
    /\ rooms' = [r \in Rooms |-> IF r \in R THEN new[r] ELSE rooms[r]]
    /\ crashed' \in (IF ranging = {} THEN {FALSE} ELSE BOOLEAN)
    /\ \E seen \in SUBSET ranging :
          castLeft' = [b \in Casters |->
              IF b \notin seen THEN castLeft[b]
              ELSE IF c \in new[castMsg[b].room] THEN castLeft[b] \cup {c}
              ELSE castLeft[b] \ {c}]

(* Run's select takes a pending message of any of the three channels.      *)
TakeRegister ==
    /\ hubPc = "select" /\ register # <<>>
    /\ LET r == Head(register)[1]
           c == Head(register)[2]
       IN WriteMaps({r}, c, [rooms EXCEPT ![r] = @ \cup {c}])
    /\ register' = Tail(register)
    /\ UNCHANGED <<unregister, disconnect, hubVars, readVars, writePc, send, closed,
                   castMsg, redisVars, stopping>>

TakeUnregister ==
    /\ hubPc = "select" /\ unregister # <<>>
    /\ LET r == Head(unregister)[1]
           c == Head(unregister)[2]
       IN WriteMaps(IF rooms[r] = {} THEN {} ELSE {r}, c, [rooms EXCEPT ![r] = @ \ {c}])
    /\ unregister' = Tail(unregister)
    /\ UNCHANGED <<register, disconnect, hubVars, readVars, writePc, send, closed,
                   castMsg, redisVars, stopping>>

(* Mutant: the channel is closed only for a client found in some room.     *)
TakeDisconnectOfMember ==
    /\ hubPc = "select" /\ disconnect # <<>>
    /\ LET c == Head(disconnect)
           R == {r \in Rooms : c \in rooms[r]}
       IN /\ WriteMaps(R, c, [r \in Rooms |-> rooms[r] \ {c}])
          /\ IF R = {} THEN UNCHANGED hubVars ELSE hubPc' = "close" /\ leaver' = c
    /\ disconnect' = Tail(disconnect)
    /\ UNCHANGED <<register, unregister, readVars, writePc, send, closed,
                   castMsg, redisVars, stopping>>

(* The client leaves every room; its channel is closed after the unlock.   *)
TakeDisconnect ==
    /\ hubPc = "select" /\ disconnect # <<>>
    /\ LET c == Head(disconnect) IN
       /\ WriteMaps({r \in Rooms : c \in rooms[r]}, c, [r \in Rooms |-> rooms[r] \ {c}])
       /\ hubPc' = "close" /\ leaver' = c
    /\ disconnect' = Tail(disconnect)
    /\ UNCHANGED <<register, unregister, readVars, writePc, send, closed,
                   castMsg, redisVars, stopping>>

(* close(c.send): of a closed channel it panics.                           *)
CloseChannel(c) ==
    IF c \in closed THEN crashed' = TRUE /\ UNCHANGED closed
                    ELSE closed' = closed \cup {c} /\ UNCHANGED crashed

CloseLeaver ==
    /\ hubPc = "close"
    /\ CloseChannel(leaver)
    /\ hubPc' = "select" /\ leaver' = NoOne
    /\ UNCHANGED <<rooms, chanVars, readVars, writePc, send, castVars, redisVars, stopping>>

(* Application.Run cancels the context.                                    *)
Cancel ==
    /\ ~stopping
    /\ stopping' = TRUE
    /\ UNCHANGED <<rooms, chanVars, hubVars, readVars, writePc, send, closed,
                   castVars, redisVars, crashed>>

(* closeAll, under the write lock, room by room and client by client.      *)
StartCloseAll ==
    /\ hubPc = "select" /\ stopping
    /\ hubPc' = "closeAll"
    /\ UNCHANGED <<rooms, chanVars, leaver, readVars, writePc, send, closed,
                   castVars, redisVars, stopping, crashed>>

CloseAllOne(r, c) ==
    /\ hubPc = "closeAll" /\ c \in rooms[r]
    /\ IF c \in closed
       THEN crashed' = TRUE /\ UNCHANGED <<rooms, closed, castLeft>>
       ELSE closed' = closed \cup {c} /\ WriteMaps({r}, c, [rooms EXCEPT ![r] = @ \ {c}])
    /\ UNCHANGED <<chanVars, hubVars, readVars, writePc, send, castMsg, redisVars, stopping>>

RunReturns ==
    /\ hubPc = "closeAll" /\ \A r \in Rooms : rooms[r] = {}
    /\ hubPc' = "returned"
    /\ UNCHANGED <<rooms, chanVars, leaver, readVars, writePc, send, closed,
                   castVars, redisVars, stopping, crashed>>
-----------------------------------------------------------------------------
ReadPump(c) ==
    \/ \E r \in Rooms : ReadSubscribe(c, r) \/ ReadUnsubscribe(c, r)
    \/ Register(c) \/ Unregister(c) \/ ReadFails(c) \/ UnregisterAll(c)

WritePump(c) == WriteMessage(c) \/ WriteEnds(c)

Run ==
    \/ TakeRegister \/ TakeUnregister \/ TakeDisconnect \/ CloseLeaver
    \/ StartCloseAll \/ RunReturns
    \/ \E r \in Rooms, c \in Clients : CloseAllOne(r, c)

Next ==
    /\ ~crashed
    /\ \/ \E c \in Clients : Connect(c) \/ ReadPump(c) \/ WritePump(c)
       \/ \E b \in Requests, r \in Rooms : Publish(b, r)
       \/ \E b \in Casters, c \in Clients : CastTo(b, c)
       \/ TakeMessage \/ StopListening \/ Run \/ Cancel

Spec == Init /\ [][Next]_vars

(* Run's select is random among what is ready; the pumps are goroutines.   *)
Fairness ==
    /\ SF_vars(~crashed /\ TakeDisconnect)
    /\ WF_vars(~crashed /\ CloseLeaver)
    /\ \A c \in Clients : SF_vars(~crashed /\ UnregisterAll(c))

FairSpec == Spec /\ Fairness
-----------------------------------------------------------------------------
TypeOK ==
    /\ rooms \in [Rooms -> SUBSET Clients]
    /\ register \in Seq(Rooms \X Clients) /\ unregister \in Seq(Rooms \X Clients)
    /\ disconnect \in Seq(Clients)
    /\ hubPc \in {"select", "close", "closeAll", "returned"}
    /\ leaver \in Clients \cup {NoOne}
    /\ readPc \in [Clients -> {"new", "reading", "register", "unregister", "disconnect", "done"}]
    /\ readRoom \in [Clients -> Rooms \cup {NoOne}]
    /\ joined \in [Clients -> SUBSET Rooms]
    /\ writePc \in [Clients -> {"new", "running", "done"}]
    /\ send \in [Clients -> Seq(Message)] /\ \A c \in Clients : Len(send[c]) <= SendCap
    /\ closed \subseteq Clients
    /\ inbox \in Seq(Message)
    /\ castMsg \in [Casters -> Message \cup {NoMessage}]
    /\ castLeft \in [Casters -> SUBSET Clients]
    /\ published \in 0..MaxMessages
    /\ listening \in BOOLEAN /\ stopping \in BOOLEAN /\ crashed \in BOOLEAN

(* What is sent to a user's room reaches connections of that user only,    *)
(* however subscriptions and broadcasts interleave.                        *)
PrivateRooms ==
    \A c \in Clients : \A i \in DOMAIN send[c] :
        OwnerOf[send[c][i].room] \in {NoOne, UserOf[c]}

(* A connection gets the messages that came through Redis in the order in  *)
(* which they came, whatever is dropped in between.                        *)
InOrder ==
    \A c \in Clients : \A i, j \in 1..Len(send[c]) :
        i < j /\ ~send[c][i].direct /\ ~send[c][j].direct => send[c][i].n <= send[c][j].n

(* Until shutdown the hub closes the channel of a connection only after    *)
(* its ReadPump has ended: nobody who is still there is cut off.           *)
ClosedHaveLeft == \A c \in closed : readPc[c] = "done" \/ stopping

(* A connection that ends frees its channel, so its WritePump ends too:    *)
(* no goroutine outlives its connection while the server runs.             *)
LeaversClosed ==
    \A c \in Clients : (readPc[c] = "disconnect") ~> (c \in closed \/ stopping \/ crashed)

(* README.md, WebSocket Events: a client subscribes to a room and gets its *)
(* messages; hub.go: unregisterAll removes a client from all rooms.  Once  *)
(* the hub has handled all it was sent, its rooms are those of the pumps.  *)
SubscriptionsHold ==
    \A c \in Clients :
        (/\ register = <<>> /\ unregister = <<>> /\ disconnect = <<>>
         /\ hubPc = "select"
         /\ readPc[c] \in {"reading", "done"})
        => {r \in Rooms : c \in rooms[r]} = IF readPc[c] = "done" THEN {} ELSE joined[c]
=============================================================================
