----------------------------- MODULE HubProofs ------------------------------
(***************************************************************************)
(* Theorems about Hub, for every number of connections, rooms, messages    *)
(* and capacities.  A subscription passes through a channel, a map and a   *)
(* range before a message reaches a buffer: the invariant says that all of *)
(* them hold only rooms their connection is allowed.  A message that is    *)
(* published passes through Redis, the inbox and a range: the numbers on   *)
(* this way never fall.                                                    *)
(***************************************************************************)
EXTENDS Hub, TLAPS

(* What is on its way to the hub, in its maps and in the ranges over them. *)
RoomsAllowed ==
    /\ \A c \in Clients : readPc[c] = "register" => readRoom[c] \in Rooms /\ CanSubscribe(c, readRoom[c])
    /\ \A c \in Clients : readPc[c] = "unregister" => readRoom[c] \in Rooms
    /\ \A i \in 1..Len(register) : CanSubscribe(register[i][2], register[i][1])
    /\ \A r \in Rooms : \A c \in rooms[r] : CanSubscribe(c, r)
    /\ \A b \in Casters : \A c \in castLeft[b] :
          castMsg[b] \in Message /\ CanSubscribe(c, castMsg[b].room)

(* Whose channel the hub closes, or is about to.                           *)
LeaversLeft ==
    /\ \A i \in 1..Len(disconnect) : readPc[disconnect[i]] = "done"
    /\ hubPc = "close" => leaver \in Clients /\ readPc[leaver] = "done"
    /\ hubPc = "closeAll" => stopping

Inv ==
    /\ TypeOK
    /\ RoomsAllowed
    /\ LeaversLeft
    /\ PrivateRooms
    /\ ClosedHaveLeft
-----------------------------------------------------------------------------
LEMMA InitInv == Init => Inv
  <1> SUFFICES ASSUME Init PROVE Inv
    OBVIOUS
  <1> USE HubAssumption
  <1>1. TypeOK
    <2>1. send \in [Clients -> Seq(Message)] /\ \A c \in Clients : Len(send[c]) <= SendCap
      BY DEF Init
    <2>2. castMsg \in [Casters -> Message \cup {NoMessage}] /\ castLeft \in [Casters -> SUBSET Clients]
      BY DEF Init
    <2>3. rooms \in [Rooms -> SUBSET Clients] /\ joined \in [Clients -> SUBSET Rooms]
      BY DEF Init
    <2>4. published \in 0..MaxMessages /\ inbox \in Seq(Message)
      BY DEF Init
    <2>5. register \in Seq(Rooms \X Clients) /\ unregister \in Seq(Rooms \X Clients) /\ disconnect \in Seq(Clients)
      BY DEF Init
    <2>6. /\ hubPc \in {"select", "close", "closeAll", "returned"}
          /\ readPc \in [Clients -> {"new", "reading", "register", "unregister", "disconnect", "done"}]
          /\ writePc \in [Clients -> {"new", "running", "done"}]
      BY DEF Init
    <2>7. leaver \in Clients \cup {NoOne} /\ readRoom \in [Clients -> Rooms \cup {NoOne}] /\ closed \subseteq Clients
      BY DEF Init
    <2>8. listening \in BOOLEAN /\ stopping \in BOOLEAN /\ crashed \in BOOLEAN
      BY DEF Init
    <2> QED
      BY <2>1, <2>2, <2>3, <2>4, <2>5, <2>6, <2>7, <2>8 DEF TypeOK
  <1>2. RoomsAllowed
    BY DEF Init, RoomsAllowed, Casters
  <1>3. LeaversLeft /\ PrivateRooms /\ ClosedHaveLeft
    BY DEF Init, LeaversLeft, PrivateRooms, ClosedHaveLeft
  <1> QED
    BY <1>1, <1>2, <1>3 DEF Inv

(* Channels, as sequences: what Append and Tail leave.                     *)
LEMMA AppendFacts ==
  ASSUME NEW S, NEW s \in Seq(S), NEW x \in S
  PROVE  /\ Append(s, x) \in Seq(S)
         /\ Len(Append(s, x)) = Len(s) + 1
         /\ \A i \in 1..Len(s) + 1 :
               \/ i \in 1..Len(s) /\ Append(s, x)[i] = s[i]
               \/ i = Len(s) + 1 /\ Append(s, x)[i] = x
  OBVIOUS

LEMMA TailFacts ==
  ASSUME NEW S, NEW s \in Seq(S), s # <<>>
  PROVE  /\ Head(s) \in S /\ Head(s) = s[1] /\ 1 \in 1..Len(s)
         /\ Tail(s) \in Seq(S)
         /\ Len(Tail(s)) = Len(s) - 1
         /\ \A i \in 1..Len(Tail(s)) : i + 1 \in 1..Len(s) /\ Tail(s)[i] = s[i + 1]
  OBVIOUS
-----------------------------------------------------------------------------
(* The pumps.                                                              *)

LEMMA ConnectInv ==
  ASSUME Inv, NEW c \in Clients, Connect(c)
  PROVE  Inv'
  <1> USE DEF Connect, chanVars, hubVars, castVars, redisVars
  <1>1. TypeOK'
    BY DEF Inv, TypeOK
  <1>2. RoomsAllowed'
    BY DEF Inv, TypeOK, RoomsAllowed, CanSubscribe
  <1>3. LeaversLeft'
    BY DEF Inv, TypeOK, LeaversLeft
  <1>4. PrivateRooms' /\ ClosedHaveLeft'
    BY DEF Inv, TypeOK, PrivateRooms, ClosedHaveLeft
  <1> QED
    BY <1>1, <1>2, <1>3, <1>4 DEF Inv

LEMMA ReadInv ==
  ASSUME Inv, NEW c \in Clients, NEW r \in Rooms, ReadSubscribe(c, r) \/ ReadUnsubscribe(c, r)
  PROVE  Inv'
  <1> USE DEF chanVars, hubVars, castVars, redisVars
  <1>1. joined' \in [Clients -> SUBSET Rooms]
    <2>1. joined \in [Clients -> SUBSET Rooms]
      BY DEF Inv, TypeOK
    <2>2. CASE joined' = [joined EXCEPT ![c] = @ \cup {r}]
      BY <2>1, <2>2
    <2>3. CASE joined' = [joined EXCEPT ![c] = @ \ {r}]
      BY <2>1, <2>3
    <2> QED
      BY <2>2, <2>3 DEF ReadSubscribe, ReadUnsubscribe
  <1>2. /\ readRoom' = [readRoom EXCEPT ![c] = r]
        /\ readPc[c] = "reading"
        /\ \/ readPc' = [readPc EXCEPT ![c] = "register"] /\ CanSubscribe(c, r)
           \/ readPc' = [readPc EXCEPT ![c] = "unregister"]
        /\ UNCHANGED <<rooms, chanVars, hubVars, writePc, send, closed, castVars, redisVars, stopping, crashed>>
    BY DEF ReadSubscribe, ReadUnsubscribe
  <1>3. TypeOK'
    BY <1>1, <1>2 DEF Inv, TypeOK
  <1>4. RoomsAllowed'
    BY <1>2 DEF Inv, TypeOK, RoomsAllowed, CanSubscribe
  <1>5. LeaversLeft'
    BY <1>2 DEF Inv, TypeOK, LeaversLeft
  <1>6. PrivateRooms' /\ ClosedHaveLeft'
    BY <1>2 DEF Inv, TypeOK, PrivateRooms, ClosedHaveLeft
  <1> QED
    BY <1>3, <1>4, <1>5, <1>6 DEF Inv

LEMMA RegisterInv ==
  ASSUME Inv, NEW c \in Clients, Register(c)
  PROVE  Inv'
  <1> USE DEF Register, hubVars, castVars, redisVars
  <1>0. /\ <<readRoom[c], c>> \in Rooms \X Clients
        /\ CanSubscribe(c, readRoom[c])
        /\ register \in Seq(Rooms \X Clients)
    BY DEF Inv, TypeOK, RoomsAllowed
  <1>1. TypeOK'
    BY <1>0, AppendFacts DEF Inv, TypeOK
  <1>2. RoomsAllowed'
    <2>1. \A i \in 1..Len(register') : CanSubscribe(register'[i][2], register'[i][1])
      BY <1>0, AppendFacts DEF Inv, RoomsAllowed
    <2> QED
      BY <2>1 DEF Inv, TypeOK, RoomsAllowed, CanSubscribe
  <1>3. LeaversLeft'
    BY DEF Inv, TypeOK, LeaversLeft
  <1>4. PrivateRooms' /\ ClosedHaveLeft'
    BY DEF Inv, TypeOK, PrivateRooms, ClosedHaveLeft
  <1> QED
    BY <1>1, <1>2, <1>3, <1>4 DEF Inv

LEMMA UnregisterInv ==
  ASSUME Inv, NEW c \in Clients, Unregister(c)
  PROVE  Inv'
  <1> USE DEF Unregister, hubVars, castVars, redisVars
  <1>0. /\ <<readRoom[c], c>> \in Rooms \X Clients
        /\ unregister \in Seq(Rooms \X Clients)
    BY DEF Inv, TypeOK, RoomsAllowed
  <1>1. TypeOK'
    BY <1>0, AppendFacts DEF Inv, TypeOK
  <1>2. RoomsAllowed'
    BY DEF Inv, TypeOK, RoomsAllowed, CanSubscribe
  <1>3. LeaversLeft'
    BY DEF Inv, TypeOK, LeaversLeft
  <1>4. PrivateRooms' /\ ClosedHaveLeft'
    BY DEF Inv, TypeOK, PrivateRooms, ClosedHaveLeft
  <1> QED
    BY <1>1, <1>2, <1>3, <1>4 DEF Inv

LEMMA ReadFailsInv ==
  ASSUME Inv, NEW c \in Clients, ReadFails(c)
  PROVE  Inv'
  <1> USE DEF ReadFails, chanVars, hubVars, castVars, redisVars
  <1>1. TypeOK'
    BY DEF Inv, TypeOK
  <1>2. RoomsAllowed'
    BY DEF Inv, TypeOK, RoomsAllowed, CanSubscribe
  <1>3. LeaversLeft'
    BY DEF Inv, TypeOK, LeaversLeft
  <1>4. PrivateRooms' /\ ClosedHaveLeft'
    BY DEF Inv, TypeOK, PrivateRooms, ClosedHaveLeft
  <1> QED
    BY <1>1, <1>2, <1>3, <1>4 DEF Inv

LEMMA UnregisterAllInv ==
  ASSUME Inv, NEW c \in Clients, UnregisterAll(c)
  PROVE  Inv'
  <1> USE DEF UnregisterAll, hubVars, castVars, redisVars
  <1>0. disconnect \in Seq(Clients) /\ readPc' = [readPc EXCEPT ![c] = "done"] /\ readPc'[c] = "done"
    BY DEF Inv, TypeOK
  <1>1. TypeOK'
    BY <1>0, AppendFacts DEF Inv, TypeOK
  <1>2. RoomsAllowed'
    BY DEF Inv, TypeOK, RoomsAllowed, CanSubscribe
  <1>3. LeaversLeft'
    <2>1. \A d \in Clients : readPc[d] = "done" => readPc'[d] = "done"
      BY <1>0 DEF Inv, TypeOK
    <2>2. \A i \in 1..Len(disconnect) : disconnect[i] \in Clients /\ readPc'[disconnect[i]] = "done"
      BY <1>0, <2>1 DEF Inv, LeaversLeft
    <2>3. \A i \in 1..Len(disconnect') : readPc'[disconnect'[i]] = "done"
      BY <1>0, <2>2, AppendFacts
    <2> QED
      BY <2>1, <2>3 DEF Inv, LeaversLeft
  <1>4. PrivateRooms' /\ ClosedHaveLeft'
    BY <1>0 DEF Inv, TypeOK, PrivateRooms, ClosedHaveLeft
  <1> QED
    BY <1>1, <1>2, <1>3, <1>4 DEF Inv

(* The WritePump only takes messages off its buffer.                       *)
LEMMA WritePumpInv ==
  ASSUME Inv, NEW c \in Clients, WritePump(c)
  PROVE  Inv'
  <1> USE DEF chanVars, hubVars, readVars, castVars, redisVars
  <1>0. /\ \/ send' = send
           \/ send[c] # <<>> /\ send' = [send EXCEPT ![c] = Tail(@)]
        /\ writePc' \in {writePc, [writePc EXCEPT ![c] = "done"]}
        /\ UNCHANGED <<rooms, chanVars, hubVars, readVars, closed, castVars, redisVars, stopping, crashed>>
    BY DEF WritePump, WriteMessage, WriteEnds
  <1>1. \A d \in Clients :
           /\ send'[d] \in Seq(Message) /\ Len(send'[d]) <= SendCap
           /\ \A i \in DOMAIN send'[d] : \E j \in DOMAIN send[d] : send'[d][i] = send[d][j]
    <2> SUFFICES ASSUME NEW d \in Clients
                 PROVE  /\ send'[d] \in Seq(Message) /\ Len(send'[d]) <= SendCap
                        /\ \A i \in DOMAIN send'[d] : \E j \in DOMAIN send[d] : send'[d][i] = send[d][j]
      OBVIOUS
    <2>1. send[d] \in Seq(Message) /\ Len(send[d]) <= SendCap /\ SendCap \in Nat
      BY HubAssumption DEF Inv, TypeOK
    <2>2. CASE send'[d] = send[d]
      BY <2>1, <2>2
    <2>3. CASE send[d] # <<>> /\ send'[d] = Tail(send[d])
      BY <2>1, <2>3, TailFacts
    <2> QED
      BY <1>0, <2>2, <2>3 DEF Inv, TypeOK
  <1>2. TypeOK'
    BY <1>0, <1>1 DEF Inv, TypeOK
  <1>3. RoomsAllowed'
    BY <1>0 DEF Inv, RoomsAllowed, CanSubscribe
  <1>4. LeaversLeft'
    BY <1>0 DEF Inv, LeaversLeft
  <1>5. PrivateRooms'
    BY <1>1 DEF Inv, PrivateRooms
  <1>6. ClosedHaveLeft'
    BY <1>0 DEF Inv, ClosedHaveLeft
  <1> QED
    BY <1>2, <1>3, <1>4, <1>5, <1>6 DEF Inv
-----------------------------------------------------------------------------
(* Broadcasts.                                                             *)

(* A range visits clients that were allowed into the room.                 *)
LEMMA StartCastSound ==
  ASSUME Inv, NEW b \in Casters, NEW m \in Message, StartCast(b, m)
  PROVE  /\ castMsg' \in [Casters -> Message \cup {NoMessage}]
         /\ castLeft' \in [Casters -> SUBSET Clients]
         /\ \A e \in Casters : \A c \in castLeft'[e] :
               castMsg'[e] \in Message /\ CanSubscribe(c, castMsg'[e].room)
  <1>1. m.room \in Rooms
    BY DEF Message
  <1>2. rooms[m.room] \subseteq Clients /\ \A c \in rooms[m.room] : CanSubscribe(c, m.room)
    BY <1>1 DEF Inv, TypeOK, RoomsAllowed
  <1>3. castMsg' = [castMsg EXCEPT ![b] = m] /\ castLeft' = [castLeft EXCEPT ![b] = rooms[m.room]]
    BY DEF StartCast
  <1>4. castMsg \in [Casters -> Message \cup {NoMessage}] /\ castLeft \in [Casters -> SUBSET Clients]
    BY DEF Inv, TypeOK
  <1>5. \A e \in Casters : e # b => castMsg'[e] = castMsg[e] /\ castLeft'[e] = castLeft[e]
    BY <1>3, <1>4
  <1>6. castMsg'[b] = m /\ castLeft'[b] = rooms[m.room]
    BY <1>3, <1>4
  <1>7. \A e \in Casters : \A c \in castLeft'[e] :
           castMsg'[e] \in Message /\ CanSubscribe(c, castMsg'[e].room)
    BY <1>2, <1>5, <1>6 DEF Inv, RoomsAllowed
  <1> QED
    BY <1>2, <1>3, <1>4, <1>7

LEMMA PublishInv ==
  ASSUME Inv, NEW b \in Requests, NEW r \in Rooms, Publish(b, r)
  PROVE  Inv'
  <1> DEFINE msg(d) == [n |-> published + 1, room |-> r, direct |-> d]
  <1> USE DEF chanVars, hubVars, readVars, castVars
  <1>0. /\ published' = published + 1 /\ published' \in 0..MaxMessages
        /\ \A d \in BOOLEAN : msg(d) \in Message
        /\ b \in Casters
    BY HubAssumption DEF Inv, TypeOK, Publish, Message, Casters
  <1>1. inbox' \in Seq(Message)
    <2>1. inbox' = inbox \/ inbox' = Append(inbox, msg(FALSE))
      BY DEF Publish
    <2>2. inbox \in Seq(Message) /\ msg(FALSE) \in Message
      BY <1>0 DEF Inv, TypeOK
    <2> HIDE DEF msg
    <2> QED
      BY <2>1, <2>2, AppendFacts
  <1>2. StartCast(b, msg(TRUE)) \/ UNCHANGED castVars
    BY DEF Publish
  <1> HIDE DEF msg
  <1>3. /\ castMsg' \in [Casters -> Message \cup {NoMessage}]
        /\ castLeft' \in [Casters -> SUBSET Clients]
        /\ \A e \in Casters : \A c \in castLeft'[e] :
              castMsg'[e] \in Message /\ CanSubscribe(c, castMsg'[e].room)
    <2>1. CASE StartCast(b, msg(TRUE))
      BY <1>0, <2>1, StartCastSound
    <2>2. CASE UNCHANGED castVars
      BY <2>2 DEF Inv, TypeOK, RoomsAllowed
    <2> QED
      BY <1>2, <2>1, <2>2
  <1>4. UNCHANGED <<rooms, chanVars, hubVars, readVars, writePc, send, closed, listening, stopping, crashed>>
    BY DEF Publish
  <1>5. TypeOK'
    BY <1>0, <1>1, <1>3, <1>4 DEF Inv, TypeOK
  <1>6. RoomsAllowed'
    BY <1>3, <1>4 DEF Inv, RoomsAllowed, CanSubscribe
  <1>7. LeaversLeft' /\ PrivateRooms' /\ ClosedHaveLeft'
    BY <1>4 DEF Inv, LeaversLeft, PrivateRooms, ClosedHaveLeft
  <1> QED
    BY <1>5, <1>6, <1>7 DEF Inv

LEMMA TakeMessageInv ==
  ASSUME Inv, TakeMessage
  PROVE  Inv'
  <1> USE DEF chanVars, hubVars, readVars
  <1>0. inbox \in Seq(Message) /\ inbox # <<>> /\ inbox' = Tail(inbox) /\ StartCast(Redis, Head(inbox))
    BY DEF Inv, TypeOK, TakeMessage
  <1>1. Head(inbox) \in Message /\ inbox' \in Seq(Message) /\ Redis \in Casters
    BY <1>0, TailFacts DEF Casters
  <1>2. /\ castMsg' \in [Casters -> Message \cup {NoMessage}]
        /\ castLeft' \in [Casters -> SUBSET Clients]
        /\ \A e \in Casters : \A c \in castLeft'[e] :
              castMsg'[e] \in Message /\ CanSubscribe(c, castMsg'[e].room)
    BY <1>0, <1>1, StartCastSound
  <1>3. UNCHANGED <<rooms, chanVars, hubVars, readVars, writePc, send, closed, listening, published, stopping, crashed>>
    BY DEF TakeMessage
  <1>4. TypeOK'
    BY <1>1, <1>2, <1>3 DEF Inv, TypeOK
  <1>5. RoomsAllowed'
    BY <1>2, <1>3 DEF Inv, RoomsAllowed, CanSubscribe
  <1>6. LeaversLeft' /\ PrivateRooms' /\ ClosedHaveLeft'
    BY <1>3 DEF Inv, LeaversLeft, PrivateRooms, ClosedHaveLeft
  <1> QED
    BY <1>4, <1>5, <1>6 DEF Inv

(* A message enters a buffer only from a range over its room.              *)
LEMMA CastToInv ==
  ASSUME Inv, NEW b \in Casters, NEW c \in Clients, CastTo(b, c)
  PROVE  Inv'
  <1> USE DEF chanVars, hubVars, readVars, redisVars
  <1>0. /\ closed' = closed
        /\ crashed' \in BOOLEAN
        /\ castLeft' \in {castLeft, [castLeft EXCEPT ![b] = {}], [castLeft EXCEPT ![b] = @ \ {c}]}
        /\ \/ send' = send
           \/ Len(send[c]) < SendCap /\ send' = [send EXCEPT ![c] = Append(@, castMsg[b])]
        /\ c \in castLeft[b]
        /\ UNCHANGED <<rooms, chanVars, hubVars, readVars, writePc, castMsg, redisVars, stopping>>
    BY DEF CastTo, Deliver, Inv, TypeOK
  <1>1. castMsg[b] \in Message /\ CanSubscribe(c, castMsg[b].room)
    BY <1>0 DEF Inv, RoomsAllowed
  <1>2. castLeft' \in [Casters -> SUBSET Clients] /\ \A e \in Casters : castLeft'[e] \subseteq castLeft[e]
    <2>1. castLeft \in [Casters -> SUBSET Clients]
      BY DEF Inv, TypeOK
    <2>2. CASE castLeft' = castLeft
      BY <2>1, <2>2
    <2>3. CASE castLeft' = [castLeft EXCEPT ![b] = {}]
      BY <2>1, <2>3
    <2>4. CASE castLeft' = [castLeft EXCEPT ![b] = @ \ {c}]
      BY <2>1, <2>4
    <2> QED
      BY <1>0, <2>2, <2>3, <2>4
  <1>3. \A d \in Clients :
           /\ send'[d] \in Seq(Message) /\ Len(send'[d]) <= SendCap
           /\ \A i \in DOMAIN send'[d] : CanSubscribe(d, send'[d][i].room)
    <2> SUFFICES ASSUME NEW d \in Clients
                 PROVE  /\ send'[d] \in Seq(Message) /\ Len(send'[d]) <= SendCap
                        /\ \A i \in DOMAIN send'[d] : CanSubscribe(d, send'[d][i].room)
      OBVIOUS
    <2>1. /\ send[d] \in Seq(Message) /\ Len(send[d]) <= SendCap /\ SendCap \in Nat
          /\ \A i \in DOMAIN send[d] : CanSubscribe(d, send[d][i].room)
      BY HubAssumption DEF Inv, TypeOK, PrivateRooms, CanSubscribe
    <2>2. CASE send'[d] = send[d]
      BY <2>1, <2>2
    <2>3. CASE d = c /\ Len(send[c]) < SendCap /\ send'[d] = Append(send[d], castMsg[b])
      BY <1>1, <2>1, <2>3, AppendFacts
    <2> QED
      BY <1>0, <2>2, <2>3 DEF Inv, TypeOK
  <1>4. TypeOK'
    <2>1. send' \in [Clients -> Seq(Message)]
      BY <1>0, <1>3 DEF Inv, TypeOK
    <2> QED
      BY <1>0, <1>2, <1>3, <2>1 DEF Inv, TypeOK
  <1>5. RoomsAllowed'
    BY <1>0, <1>2 DEF Inv, RoomsAllowed, CanSubscribe
  <1>6. LeaversLeft' /\ ClosedHaveLeft'
    BY <1>0 DEF Inv, LeaversLeft, ClosedHaveLeft
  <1>7. PrivateRooms'
    BY <1>3 DEF PrivateRooms, CanSubscribe
  <1> QED
    BY <1>4, <1>5, <1>6, <1>7 DEF Inv
-----------------------------------------------------------------------------
(* Hub.Run.                                                                *)

(* When only allowed clients are in the new maps, the maps and the ranges  *)
(* over them stay sound, whatever a range sees of the change.              *)
LEMMA WriteMapsSound ==
  ASSUME Inv, NEW R \in SUBSET Rooms, NEW c \in Clients, NEW new \in [Rooms -> SUBSET Clients],
         \A r \in Rooms : \A d \in new[r] : CanSubscribe(d, r),
         WriteMaps(R, c, new)
  PROVE  /\ rooms' \in [Rooms -> SUBSET Clients]
         /\ crashed' \in BOOLEAN
         /\ castLeft' \in [Casters -> SUBSET Clients]
         /\ \A r \in Rooms : \A d \in rooms'[r] : CanSubscribe(d, r)
         /\ \A b \in Casters : \A d \in castLeft'[b] :
               castMsg[b] \in Message /\ CanSubscribe(d, castMsg[b].room)
  <1>1. /\ rooms' = [r \in Rooms |-> IF r \in R THEN new[r] ELSE rooms[r]]
        /\ crashed' \in BOOLEAN
    BY DEF WriteMaps
  <1>2. PICK seen : /\ \A b \in seen : castLeft[b] # {} /\ castMsg[b].room \in R
                    /\ castLeft' = [b \in Casters |->
                           IF b \notin seen THEN castLeft[b]
                           ELSE IF c \in new[castMsg[b].room] THEN castLeft[b] \cup {c}
                           ELSE castLeft[b] \ {c}]
    BY DEF WriteMaps
  <1>3. castLeft \in [Casters -> SUBSET Clients]
    BY DEF Inv, TypeOK
  <1>4. ASSUME NEW b \in Casters, NEW d \in castLeft'[b]
        PROVE  castMsg[b] \in Message /\ CanSubscribe(d, castMsg[b].room)
    <2>1. CASE d \in castLeft[b]
      BY <2>1 DEF Inv, RoomsAllowed
    <2>2. CASE d \notin castLeft[b]
      <3>1. b \in seen /\ d = c /\ c \in new[castMsg[b].room]
        BY <1>2, <1>4, <2>2
      <3>2. PICK e \in castLeft[b] : castMsg[b] \in Message
        BY <1>2, <1>3, <3>1 DEF Inv, RoomsAllowed
      <3> QED
        BY <1>2, <3>1, <3>2 DEF Message
    <2> QED
      BY <2>1, <2>2
  <1>5. castLeft' \in [Casters -> SUBSET Clients]
    BY <1>2, <1>3
  <1>6. rooms' \in [Rooms -> SUBSET Clients] /\ \A r \in Rooms : \A d \in rooms'[r] : CanSubscribe(d, r)
    BY <1>1 DEF Inv, TypeOK, RoomsAllowed
  <1> QED
    BY <1>1, <1>4, <1>5, <1>6

LEMMA TakeRegisterInv ==
  ASSUME Inv, TakeRegister
  PROVE  Inv'
  <1> DEFINE r == Head(register)[1]
             c == Head(register)[2]
             new == [rooms EXCEPT ![r] = @ \cup {c}]
  <1> USE DEF hubVars, readVars, redisVars
  <1>0. /\ register \in Seq(Rooms \X Clients) /\ register # <<>> /\ register' = Tail(register)
        /\ WriteMaps({r}, c, new)
        /\ UNCHANGED <<unregister, disconnect, hubVars, readVars, writePc, send, closed, castMsg, redisVars, stopping>>
    BY DEF Inv, TypeOK, TakeRegister
  <1>1. r \in Rooms /\ c \in Clients /\ CanSubscribe(c, r)
    BY <1>0, TailFacts DEF Inv, RoomsAllowed
  <1> HIDE DEF r, c
  <1>2. new \in [Rooms -> SUBSET Clients] /\ \A q \in Rooms : \A d \in new[q] : CanSubscribe(d, q)
    BY <1>1 DEF Inv, TypeOK, RoomsAllowed
  <1> HIDE DEF new
  <1>3. /\ rooms' \in [Rooms -> SUBSET Clients]
        /\ crashed' \in BOOLEAN
        /\ castLeft' \in [Casters -> SUBSET Clients]
        /\ \A q \in Rooms : \A d \in rooms'[q] : CanSubscribe(d, q)
        /\ \A b \in Casters : \A d \in castLeft'[b] :
              castMsg[b] \in Message /\ CanSubscribe(d, castMsg[b].room)
    BY <1>0, <1>1, <1>2, WriteMapsSound
  <1>4. /\ register' \in Seq(Rooms \X Clients)
        /\ \A i \in 1..Len(register') : CanSubscribe(register'[i][2], register'[i][1])
    BY <1>0, TailFacts DEF Inv, RoomsAllowed
  <1>5. TypeOK'
    BY <1>0, <1>3, <1>4 DEF Inv, TypeOK
  <1>6. RoomsAllowed'
    BY <1>0, <1>3, <1>4 DEF Inv, RoomsAllowed, CanSubscribe
  <1>7. LeaversLeft' /\ PrivateRooms' /\ ClosedHaveLeft'
    BY <1>0 DEF Inv, LeaversLeft, PrivateRooms, ClosedHaveLeft
  <1> QED
    BY <1>5, <1>6, <1>7 DEF Inv

LEMMA TakeUnregisterInv ==
  ASSUME Inv, TakeUnregister
  PROVE  Inv'
  <1> DEFINE r == Head(unregister)[1]
             c == Head(unregister)[2]
             new == [rooms EXCEPT ![r] = @ \ {c}]
             R == IF rooms[r] = {} THEN {} ELSE {r}
  <1> USE DEF hubVars, readVars, redisVars
  <1>0. /\ unregister \in Seq(Rooms \X Clients) /\ unregister # <<>> /\ unregister' = Tail(unregister)
        /\ WriteMaps(R, c, new)
        /\ UNCHANGED <<register, disconnect, hubVars, readVars, writePc, send, closed, castMsg, redisVars, stopping>>
    BY DEF Inv, TypeOK, TakeUnregister
  <1>1. r \in Rooms /\ c \in Clients /\ unregister' \in Seq(Rooms \X Clients)
    BY <1>0, TailFacts
  <1> HIDE DEF r, c
  <1>2. /\ new \in [Rooms -> SUBSET Clients] /\ \A q \in Rooms : \A d \in new[q] : CanSubscribe(d, q)
        /\ R \in SUBSET Rooms
    BY <1>1 DEF Inv, TypeOK, RoomsAllowed
  <1> HIDE DEF new, R
  <1>3. /\ rooms' \in [Rooms -> SUBSET Clients]
        /\ crashed' \in BOOLEAN
        /\ castLeft' \in [Casters -> SUBSET Clients]
        /\ \A q \in Rooms : \A d \in rooms'[q] : CanSubscribe(d, q)
        /\ \A b \in Casters : \A d \in castLeft'[b] :
              castMsg[b] \in Message /\ CanSubscribe(d, castMsg[b].room)
    BY <1>0, <1>1, <1>2, WriteMapsSound
  <1>5. TypeOK'
    BY <1>0, <1>1, <1>3 DEF Inv, TypeOK
  <1>6. RoomsAllowed'
    BY <1>0, <1>3 DEF Inv, RoomsAllowed, CanSubscribe
  <1>7. LeaversLeft' /\ PrivateRooms' /\ ClosedHaveLeft'
    BY <1>0 DEF Inv, LeaversLeft, PrivateRooms, ClosedHaveLeft
  <1> QED
    BY <1>5, <1>6, <1>7 DEF Inv

LEMMA TakeDisconnectInv ==
  ASSUME Inv, TakeDisconnect
  PROVE  Inv'
  <1> DEFINE c == Head(disconnect)
             new == [r \in Rooms |-> rooms[r] \ {c}]
             R == {r \in Rooms : c \in rooms[r]}
  <1> USE DEF readVars, redisVars
  <1>0. /\ disconnect \in Seq(Clients) /\ disconnect # <<>> /\ disconnect' = Tail(disconnect)
        /\ hubPc' = "close" /\ leaver' = c
        /\ WriteMaps(R, c, new)
        /\ UNCHANGED <<register, unregister, readVars, writePc, send, closed, castMsg, redisVars, stopping>>
    BY DEF Inv, TypeOK, TakeDisconnect
  <1>1. c \in Clients /\ readPc[c] = "done" /\ disconnect' \in Seq(Clients)
    BY <1>0, TailFacts DEF Inv, LeaversLeft
  <1>2. \A i \in 1..Len(disconnect') : readPc[disconnect'[i]] = "done"
    BY <1>0, TailFacts DEF Inv, LeaversLeft
  <1> HIDE DEF c
  <1>3. /\ new \in [Rooms -> SUBSET Clients] /\ \A q \in Rooms : \A d \in new[q] : CanSubscribe(d, q)
        /\ R \in SUBSET Rooms
    BY <1>1 DEF Inv, TypeOK, RoomsAllowed
  <1> HIDE DEF new, R
  <1>4. /\ rooms' \in [Rooms -> SUBSET Clients]
        /\ crashed' \in BOOLEAN
        /\ castLeft' \in [Casters -> SUBSET Clients]
        /\ \A q \in Rooms : \A d \in rooms'[q] : CanSubscribe(d, q)
        /\ \A b \in Casters : \A d \in castLeft'[b] :
              castMsg[b] \in Message /\ CanSubscribe(d, castMsg[b].room)
    BY <1>0, <1>1, <1>3, WriteMapsSound
  <1>5. TypeOK'
    BY <1>0, <1>1, <1>4 DEF Inv, TypeOK
  <1>6. RoomsAllowed'
    BY <1>0, <1>4 DEF Inv, RoomsAllowed, CanSubscribe
  <1>7. LeaversLeft'
    BY <1>0, <1>1, <1>2 DEF Inv, LeaversLeft
  <1>8. PrivateRooms' /\ ClosedHaveLeft'
    BY <1>0 DEF Inv, PrivateRooms, ClosedHaveLeft
  <1> QED
    BY <1>5, <1>6, <1>7, <1>8 DEF Inv

LEMMA CloseLeaverInv ==
  ASSUME Inv, CloseLeaver
  PROVE  Inv'
  <1> USE DEF chanVars, readVars, castVars, redisVars
  <1>0. /\ leaver \in Clients /\ readPc[leaver] = "done"
        /\ closed' \in {closed, closed \cup {leaver}}
        /\ crashed' \in BOOLEAN
        /\ hubPc' = "select" /\ leaver' = NoOne
        /\ UNCHANGED <<rooms, chanVars, readVars, writePc, send, castVars, redisVars, stopping>>
    BY DEF Inv, TypeOK, LeaversLeft, CloseLeaver, CloseChannel
  <1>1. TypeOK'
    BY <1>0 DEF Inv, TypeOK
  <1>2. RoomsAllowed'
    BY <1>0 DEF Inv, RoomsAllowed, CanSubscribe
  <1>3. LeaversLeft' /\ PrivateRooms' /\ ClosedHaveLeft'
    BY <1>0 DEF Inv, LeaversLeft, PrivateRooms, ClosedHaveLeft
  <1> QED
    BY <1>1, <1>2, <1>3 DEF Inv

(* What only moves a flag or Run's place.                                  *)
LEMMA ControlInv ==
  ASSUME Inv, Cancel \/ StartCloseAll \/ RunReturns \/ StopListening
  PROVE  Inv'
  <1> USE DEF chanVars, hubVars, readVars, castVars, redisVars
  <1>0. /\ UNCHANGED <<rooms, chanVars, leaver, readVars, writePc, send, closed, castVars, inbox, published, crashed>>
        /\ listening' \in BOOLEAN /\ stopping' \in BOOLEAN /\ (stopping => stopping')
        /\ \/ hubPc' = hubPc
           \/ hubPc' = "closeAll" /\ stopping'
           \/ hubPc' = "returned"
    BY DEF Inv, TypeOK, Cancel, StartCloseAll, RunReturns, StopListening
  <1>1. TypeOK'
    BY <1>0 DEF Inv, TypeOK
  <1>2. RoomsAllowed'
    BY <1>0 DEF Inv, RoomsAllowed, CanSubscribe
  <1>3. LeaversLeft' /\ PrivateRooms' /\ ClosedHaveLeft'
    BY <1>0 DEF Inv, LeaversLeft, PrivateRooms, ClosedHaveLeft
  <1> QED
    BY <1>1, <1>2, <1>3 DEF Inv

LEMMA CloseAllOneInv ==
  ASSUME Inv, NEW r \in Rooms, NEW c \in Clients, CloseAllOne(r, c)
  PROVE  Inv'
  <1> DEFINE new == [rooms EXCEPT ![r] = @ \ {c}]
  <1> USE DEF chanVars, hubVars, readVars, redisVars
  <1>0. /\ stopping /\ closed' \in {closed, closed \cup {c}}
        /\ \/ crashed' = TRUE /\ UNCHANGED <<rooms, castLeft>>
           \/ WriteMaps({r}, c, new)
        /\ UNCHANGED <<chanVars, hubVars, readVars, writePc, send, castMsg, redisVars, stopping>>
    BY DEF Inv, LeaversLeft, CloseAllOne
  <1>1. new \in [Rooms -> SUBSET Clients] /\ \A q \in Rooms : \A d \in new[q] : CanSubscribe(d, q)
    BY DEF Inv, TypeOK, RoomsAllowed
  <1> HIDE DEF new
  <1>2. /\ rooms' \in [Rooms -> SUBSET Clients]
        /\ crashed' \in BOOLEAN
        /\ castLeft' \in [Casters -> SUBSET Clients]
        /\ \A q \in Rooms : \A d \in rooms'[q] : CanSubscribe(d, q)
        /\ \A b \in Casters : \A d \in castLeft'[b] :
              castMsg[b] \in Message /\ CanSubscribe(d, castMsg[b].room)
    <2>1. CASE crashed' = TRUE /\ UNCHANGED <<rooms, castLeft>>
      BY <2>1 DEF Inv, TypeOK, RoomsAllowed
    <2>2. CASE WriteMaps({r}, c, new)
      BY <1>1, <2>2, WriteMapsSound
    <2> QED
      BY <1>0, <2>1, <2>2
  <1>3. TypeOK'
    BY <1>0, <1>2 DEF Inv, TypeOK
  <1>4. RoomsAllowed'
    BY <1>0, <1>2 DEF Inv, RoomsAllowed, CanSubscribe
  <1>5. LeaversLeft' /\ PrivateRooms' /\ ClosedHaveLeft'
    BY <1>0 DEF Inv, LeaversLeft, PrivateRooms, ClosedHaveLeft
  <1> QED
    BY <1>3, <1>4, <1>5 DEF Inv
-----------------------------------------------------------------------------
LEMMA NextInv == Inv /\ [Next]_vars => Inv'
  <1> SUFFICES ASSUME Inv, [Next]_vars PROVE Inv'
    OBVIOUS
  <1>1. ASSUME NEW c \in Clients, Connect(c) \/ ReadPump(c) \/ WritePump(c) PROVE Inv'
    BY <1>1, ConnectInv, ReadInv, RegisterInv, UnregisterInv, ReadFailsInv, UnregisterAllInv,
       WritePumpInv DEF ReadPump
  <1>2. ASSUME NEW b \in Requests, NEW r \in Rooms, Publish(b, r) PROVE Inv'
    BY <1>2, PublishInv
  <1>3. ASSUME NEW b \in Casters, NEW c \in Clients, CastTo(b, c) PROVE Inv'
    BY <1>3, CastToInv
  <1>4. CASE TakeMessage \/ StopListening \/ Cancel
    BY <1>4, TakeMessageInv, ControlInv
  <1>5. CASE Run
    BY <1>5, TakeRegisterInv, TakeUnregisterInv, TakeDisconnectInv, CloseLeaverInv, ControlInv,
       CloseAllOneInv DEF Run
  <1>6. CASE UNCHANGED vars
    BY <1>6 DEF Inv, TypeOK, RoomsAllowed, LeaversLeft, PrivateRooms, ClosedHaveLeft, CanSubscribe, vars,
       chanVars, hubVars, readVars, castVars, redisVars
  <1> QED
    BY <1>1, <1>2, <1>3, <1>4, <1>5, <1>6 DEF Next

(* The inductive invariant holds in every behaviour.                       *)
THEOREM Invariance == Spec => []Inv
  <1> QED
    BY InitInv, NextInv, PTL DEF Spec

(* Every variable keeps its type, and no buffer exceeds its capacity.      *)
THEOREM TypeCorrect == Spec => []TypeOK
  <1>1. Inv => TypeOK
    BY DEF Inv
  <1> QED
    BY <1>1, Invariance, PTL

(* A private message never enters the buffer of another user's connection. *)
THEOREM RoomsArePrivate == Spec => []PrivateRooms
  <1>1. Inv => PrivateRooms
    BY DEF Inv
  <1> QED
    BY <1>1, Invariance, PTL

(* The hub cuts nobody off before shutdown.                                *)
THEOREM NobodyCutOff == Spec => []ClosedHaveLeft
  <1>1. Inv => ClosedHaveLeft
    BY DEF Inv
  <1> QED
    BY <1>1, Invariance, PTL
-----------------------------------------------------------------------------
(* Numbers on the way: what waits in the inbox is newer than the message   *)
(* subscribeRedis is at, which is at least as new as what it has sent;     *)
(* and a request ranges only for a message of its own.                     *)
OrderInv ==
    /\ \A b \in Requests : castLeft[b] # {} => castMsg[b].direct
    /\ castMsg[Redis].n <= published
    /\ \A i \in 1..Len(inbox) : castMsg[Redis].n < inbox[i].n /\ inbox[i].n <= published
    /\ \A i, j \in 1..Len(inbox) : i < j => inbox[i].n < inbox[j].n
    /\ \A c \in Clients : \A i \in 1..Len(send[c]) :
          ~send[c][i].direct => send[c][i].n <= castMsg[Redis].n
    /\ InOrder

LEMMA OrderTypes ==
  ASSUME TypeOK
  PROVE  /\ \A b \in Casters : castMsg[b].n \in Int
         /\ published \in Int
         /\ inbox \in Seq(Message) /\ \A i \in 1..Len(inbox) : inbox[i].n \in Int
         /\ \A c \in Clients : send[c] \in Seq(Message) /\ \A i \in 1..Len(send[c]) : send[c][i].n \in Int
  <1>1. \A m \in Message \cup {NoMessage} : m.n \in Int
    BY HubAssumption DEF Message, NoMessage
  <1> QED
    BY <1>1, HubAssumption DEF TypeOK

LEMMA InitOrder == Init => OrderInv
  <1> SUFFICES ASSUME Init PROVE OrderInv
    OBVIOUS
  <1>1. castMsg[Redis].n = 0 /\ published = 0 /\ Len(inbox) = 0
    BY DEF Init, Casters, NoMessage
  <1>2. \A b \in Requests : castLeft[b] = {}
    BY DEF Init, Casters
  <1>3. \A c \in Clients : Len(send[c]) = 0
    BY DEF Init
  <1> QED
    BY <1>1, <1>2, <1>3 DEF OrderInv, InOrder

(* No message moves; a range that is over stays over.                      *)
LEMMA OrderKept ==
  ASSUME OrderInv, UNCHANGED <<send, castMsg, inbox, published>>,
         \A b \in Casters : castLeft[b] = {} => castLeft'[b] = {}
  PROVE  OrderInv'
  BY DEF OrderInv, InOrder, Casters

(* A WritePump takes the oldest message.                                   *)
LEMMA OrderWrite ==
  ASSUME TypeOK, OrderInv, NEW c \in Clients, WritePump(c)
  PROVE  OrderInv'
  <1> USE DEF castVars, redisVars
  <1>1. UNCHANGED <<castVars, redisVars>> /\ (send' = send \/ (send[c] # <<>> /\ send' = [send EXCEPT ![c] = Tail(@)]))
    BY DEF WritePump, WriteMessage, WriteEnds
  <1>2. CASE send' = send
    BY <1>1, <1>2, OrderKept
  <1>3. CASE send[c] # <<>> /\ send' = [send EXCEPT ![c] = Tail(@)]
    <2>1. send \in [Clients -> Seq(Message)]
      BY DEF TypeOK
    <2>2. \A d \in Clients : d # c => send'[d] = send[d]
      BY <1>3, <2>1
    <2>3. send'[c] = Tail(send[c])
      BY <1>3, <2>1
    <2>4. /\ Len(send'[c]) \in Nat
          /\ \A i \in 1..Len(send'[c]) : i + 1 \in 1..Len(send[c]) /\ send'[c][i] = send[c][i + 1]
      BY <1>3, <2>1, <2>3, TailFacts
    <2>5. \A d \in Clients : \A i \in 1..Len(send'[d]) :
             ~send'[d][i].direct => send'[d][i].n <= castMsg[Redis].n
      BY <2>2, <2>4 DEF OrderInv
    <2>6. ASSUME NEW d \in Clients, NEW i \in 1..Len(send'[d]), NEW j \in 1..Len(send'[d]),
                 i < j, ~send'[d][i].direct, ~send'[d][j].direct
          PROVE  send'[d][i].n <= send'[d][j].n
      <3>1. CASE d # c
        BY <2>2, <2>6, <3>1 DEF OrderInv, InOrder
      <3>2. CASE d = c
        <4>1. /\ i + 1 \in 1..Len(send[c]) /\ send'[c][i] = send[c][i + 1]
              /\ j + 1 \in 1..Len(send[c]) /\ send'[c][j] = send[c][j + 1]
              /\ i + 1 < j + 1
          BY <2>4, <2>6, <3>2
        <4> QED
          BY <2>6, <3>2, <4>1 DEF OrderInv, InOrder
      <3> QED
        BY <3>1, <3>2
    <2> QED
      BY <1>1, <2>5, <2>6 DEF OrderInv, InOrder
  <1> QED
    BY <1>1, <1>2, <1>3

(* A request starts a range; it is for its own message, sent directly.     *)
LEMMA OrderPublish ==
  ASSUME TypeOK, OrderInv, NEW b \in Requests, NEW r \in Rooms, Publish(b, r)
  PROVE  OrderInv'
  <1> DEFINE msg(d) == [n |-> published + 1, room |-> r, direct |-> d]
  <1>0. /\ published' = published + 1 /\ send' = send
        /\ inbox' = inbox \/ inbox' = Append(inbox, msg(FALSE))
        /\ StartCast(b, msg(TRUE)) \/ UNCHANGED castVars
    BY DEF Publish
  <1>1. \A d \in BOOLEAN : msg(d).n = published + 1 /\ msg(d).direct = d /\ msg(d) \in Message
    BY HubAssumption DEF Message, TypeOK, Publish
  <1> HIDE DEF msg
  <1>t. /\ castMsg[Redis].n \in Int /\ published \in Int
        /\ inbox \in Seq(Message) /\ \A i \in 1..Len(inbox) : inbox[i].n \in Int
    BY OrderTypes DEF Casters
  <1>2. castMsg'[Redis] = castMsg[Redis]
    BY <1>0, HubAssumption DEF StartCast, castVars, TypeOK, Casters
  <1>3. \A e \in Requests : castLeft'[e] # {} => castMsg'[e].direct
    <2>1. CASE StartCast(b, msg(TRUE))
      <3>1. castMsg'[b] = msg(TRUE) /\ \A e \in Casters : e # b => castMsg'[e] = castMsg[e] /\ castLeft'[e] = castLeft[e]
        BY <2>1 DEF StartCast, TypeOK, Casters
      <3> QED
        BY <1>1, <3>1 DEF OrderInv, Casters
    <2>2. CASE UNCHANGED castVars
      BY <2>2 DEF OrderInv, castVars
    <2> QED
      BY <1>0, <2>1, <2>2
  <1>4. /\ \A i \in 1..Len(inbox') : castMsg[Redis].n < inbox'[i].n /\ inbox'[i].n <= published + 1
        /\ \A i, j \in 1..Len(inbox') : i < j => inbox'[i].n < inbox'[j].n
    <2>1. CASE inbox' = inbox
      BY <1>t, <2>1 DEF OrderInv
    <2>2. CASE inbox' = Append(inbox, msg(FALSE))
      <3>0. PICK m \in Message : m.n = published + 1 /\ inbox' = Append(inbox, m)
        BY <1>1, <2>2
      <3>1. /\ Len(inbox') = Len(inbox) + 1
            /\ \A i \in 1..Len(inbox) + 1 :
                  \/ i \in 1..Len(inbox) /\ inbox'[i] = inbox[i]
                  \/ i = Len(inbox) + 1 /\ inbox'[i] = m
        BY <1>t, <3>0, AppendFacts
      <3>2. m.n = published + 1 /\ Len(inbox) \in Nat
        BY <1>t, <3>0
      <3>3. \A i \in 1..Len(inbox) : castMsg[Redis].n < inbox[i].n /\ inbox[i].n <= published
        BY DEF OrderInv
      <3>4. castMsg[Redis].n <= published /\ \A i, j \in 1..Len(inbox) : i < j => inbox[i].n < inbox[j].n
        BY DEF OrderInv
      <3>5. \A i \in 1..Len(inbox') : castMsg[Redis].n < inbox'[i].n /\ inbox'[i].n <= published + 1
        <4> SUFFICES ASSUME NEW i \in 1..Len(inbox')
                     PROVE  castMsg[Redis].n < inbox'[i].n /\ inbox'[i].n <= published + 1
          OBVIOUS
        <4>1. CASE i \in 1..Len(inbox) /\ inbox'[i] = inbox[i]
          BY <1>t, <3>3, <4>1
        <4>2. CASE inbox'[i] = m
          BY <1>t, <3>2, <3>4, <4>2
        <4> QED
          BY <3>1, <4>1, <4>2
      <3>6. \A i, j \in 1..Len(inbox') : i < j => inbox'[i].n < inbox'[j].n
        <4> SUFFICES ASSUME NEW i \in 1..Len(inbox'), NEW j \in 1..Len(inbox'), i < j
                     PROVE  inbox'[i].n < inbox'[j].n
          OBVIOUS
        <4>1. i \in 1..Len(inbox) /\ inbox'[i] = inbox[i]
          BY <3>1, <3>2
        <4>2. CASE j \in 1..Len(inbox) /\ inbox'[j] = inbox[j]
          BY <3>4, <4>1, <4>2
        <4>3. CASE inbox'[j] = m
          BY <1>t, <3>2, <3>3, <4>1, <4>3
        <4> QED
          BY <3>1, <4>2, <4>3
      <3> QED
        BY <3>5, <3>6
    <2> QED
      BY <1>0, <2>1, <2>2
  <1> QED
    BY <1>0, <1>t, <1>2, <1>3, <1>4 DEF OrderInv, InOrder

(* The oldest message of the inbox becomes the one subscribeRedis is at.   *)
LEMMA OrderTake ==
  ASSUME TypeOK, OrderInv, TakeMessage
  PROVE  OrderInv'
  <1>0. /\ inbox # <<>> /\ inbox' = Tail(inbox)
        /\ StartCast(Redis, Head(inbox))
        /\ UNCHANGED <<send, published>>
    BY DEF TakeMessage
  <1>t. /\ castMsg[Redis].n \in Int /\ published \in Int
        /\ inbox \in Seq(Message) /\ \A i \in 1..Len(inbox) : inbox[i].n \in Int
        /\ \A c \in Clients : \A i \in 1..Len(send[c]) : send[c][i].n \in Int
    BY OrderTypes DEF Casters
  <1>1. /\ Head(inbox) = inbox[1] /\ 1 \in 1..Len(inbox) /\ Len(inbox') \in Nat
        /\ \A i \in 1..Len(inbox') : i + 1 \in 1..Len(inbox) /\ inbox'[i] = inbox[i + 1]
    BY <1>0, <1>t, TailFacts
  <1>2. castMsg'[Redis] = inbox[1]
    BY <1>0, <1>1 DEF StartCast, TypeOK, Casters
  <1>3. \A e \in Requests : castMsg'[e] = castMsg[e] /\ castLeft'[e] = castLeft[e]
    BY <1>0, HubAssumption DEF StartCast, TypeOK, Casters
  <1>4. /\ castMsg[Redis].n < inbox[1].n /\ inbox[1].n <= published
        /\ \A i \in 1..Len(inbox') : inbox'[i].n <= published
    BY <1>1 DEF OrderInv
  <1>5. ASSUME NEW i \in 1..Len(inbox') PROVE inbox[1].n < inbox'[i].n
    <2>1. i + 1 \in 1..Len(inbox) /\ inbox'[i] = inbox[i + 1] /\ 1 < i + 1
      BY <1>1
    <2> QED
      BY <1>1, <2>1 DEF OrderInv
  <1>6. \A i, j \in 1..Len(inbox') : i < j => inbox'[i].n < inbox'[j].n
    <2> SUFFICES ASSUME NEW i \in 1..Len(inbox'), NEW j \in 1..Len(inbox'), i < j
                 PROVE  inbox'[i].n < inbox'[j].n
      OBVIOUS
    <2>1. /\ i + 1 \in 1..Len(inbox) /\ j + 1 \in 1..Len(inbox) /\ i + 1 < j + 1
          /\ inbox'[i] = inbox[i + 1] /\ inbox'[j] = inbox[j + 1]
      BY <1>1
    <2> QED
      BY <2>1 DEF OrderInv
  <1>7. \A c \in Clients : \A i \in 1..Len(send[c]) :
           ~send[c][i].direct => send[c][i].n <= inbox[1].n
    BY <1>t, <1>1, <1>4 DEF OrderInv
  <1> QED
    BY <1>0, <1>2, <1>3, <1>4, <1>5, <1>6, <1>7 DEF OrderInv, InOrder

(* What a buffer gets is as new as anything before it, or direct.          *)
LEMMA OrderCast ==
  ASSUME TypeOK, RoomsAllowed, OrderInv, NEW b \in Casters, NEW c \in Clients, CastTo(b, c)
  PROVE  OrderInv'
  <1> USE DEF redisVars
  <1>0. /\ castLeft' \in {castLeft, [castLeft EXCEPT ![b] = {}], [castLeft EXCEPT ![b] = @ \ {c}]}
        /\ \/ send' = send
           \/ Len(send[c]) < SendCap /\ send' = [send EXCEPT ![c] = Append(@, castMsg[b])]
        /\ c \in castLeft[b]
        /\ UNCHANGED <<castMsg, redisVars>>
    BY DEF CastTo, Deliver
  <1>1. \A e \in Casters : castLeft[e] = {} => castLeft'[e] = {}
    <2>1. castLeft \in [Casters -> SUBSET Clients]
      BY DEF TypeOK
    <2>2. CASE castLeft' = castLeft
      BY <2>2
    <2>3. CASE castLeft' = [castLeft EXCEPT ![b] = {}]
      BY <2>1, <2>3
    <2>4. CASE castLeft' = [castLeft EXCEPT ![b] = @ \ {c}]
      BY <2>1, <2>4
    <2> QED
      BY <1>0, <2>2, <2>3, <2>4
  <1>2. CASE send' = send
    BY <1>0, <1>1, <1>2, OrderKept
  <1>3. CASE send' = [send EXCEPT ![c] = Append(@, castMsg[b])]
    <2>1. castMsg[b] \in Message
      BY <1>0 DEF RoomsAllowed
    <2>2. castMsg[b].direct \/ castMsg[b].n = castMsg[Redis].n
      BY <1>0 DEF OrderInv, Casters
    <2>t. /\ castMsg[Redis].n \in Int
          /\ \A d \in Clients : send[d] \in Seq(Message) /\ \A i \in 1..Len(send[d]) : send[d][i].n \in Int
      BY OrderTypes DEF Casters
    <2>3. send \in [Clients -> Seq(Message)]
      BY DEF TypeOK
    <2>4. \A d \in Clients : d # c => send'[d] = send[d]
      BY <1>3, <2>3
    <2>5. send'[c] = Append(send[c], castMsg[b])
      BY <1>3, <2>3
    <2>6. /\ Len(send[c]) \in Nat /\ Len(send'[c]) = Len(send[c]) + 1
          /\ \A i \in 1..Len(send[c]) + 1 :
                \/ i \in 1..Len(send[c]) /\ send'[c][i] = send[c][i]
                \/ i = Len(send[c]) + 1 /\ send'[c][i] = castMsg[b]
      BY <2>1, <2>t, <2>5, AppendFacts
    <2>7. ASSUME NEW d \in Clients, NEW i \in 1..Len(send'[d]), ~send'[d][i].direct
          PROVE  send'[d][i].n <= castMsg[Redis].n
      <3>1. CASE d # c
        BY <2>4, <2>7, <3>1 DEF OrderInv
      <3>2. CASE d = c /\ i \in 1..Len(send[c]) /\ send'[c][i] = send[c][i]
        BY <2>7, <3>2 DEF OrderInv
      <3>3. CASE d = c /\ send'[c][i] = castMsg[b]
        BY <2>2, <2>7, <2>t, <3>3
      <3> QED
        BY <2>6, <3>1, <3>2, <3>3
    <2>8. ASSUME NEW d \in Clients, NEW i \in 1..Len(send'[d]), NEW j \in 1..Len(send'[d]),
                 i < j, ~send'[d][i].direct, ~send'[d][j].direct
          PROVE  send'[d][i].n <= send'[d][j].n
      <3>1. CASE d # c
        BY <2>4, <2>8, <3>1 DEF OrderInv, InOrder
      <3>2. CASE d = c
        <4>1. i \in 1..Len(send[c]) /\ send'[c][i] = send[c][i]
          BY <2>6, <2>8, <3>2
        <4>2. CASE j \in 1..Len(send[c]) /\ send'[c][j] = send[c][j]
          BY <2>8, <3>2, <4>1, <4>2 DEF OrderInv, InOrder
        <4>3. CASE send'[c][j] = castMsg[b]
          BY <2>2, <2>7, <2>8, <3>2, <4>3
        <4> QED
          BY <2>6, <2>8, <3>2, <4>2, <4>3
      <3> QED
        BY <3>1, <3>2
    <2>9. \A e \in Requests : castLeft'[e] # {} => castMsg[e].direct
      BY <1>1 DEF OrderInv, Casters
    <2> QED
      BY <1>0, <2>7, <2>8, <2>9 DEF OrderInv, InOrder
  <1> QED
    BY <1>0, <1>2, <1>3

(* Run changes ranges that go on, and no message.                          *)
LEMMA OrderMaps ==
  ASSUME TypeOK, OrderInv, NEW R, NEW c, NEW new, WriteMaps(R, c, new),
         UNCHANGED <<send, castMsg, inbox, published>>
  PROVE  OrderInv'
  <1>1. \A b \in Casters : castLeft[b] = {} => castLeft'[b] = {}
    BY DEF WriteMaps
  <1> QED
    BY <1>1, OrderKept

LEMMA OrderRun ==
  ASSUME TypeOK, OrderInv, Run
  PROVE  OrderInv'
  <1> USE DEF castVars, redisVars
  <1>1. CASE TakeRegister \/ TakeUnregister \/ TakeDisconnect
    BY <1>1, OrderMaps DEF TakeRegister, TakeUnregister, TakeDisconnect
  <1>2. CASE CloseLeaver \/ StartCloseAll \/ RunReturns
    BY <1>2, OrderKept DEF CloseLeaver, StartCloseAll, RunReturns
  <1>3. ASSUME NEW r \in Rooms, NEW c \in Clients, CloseAllOne(r, c) PROVE OrderInv'
    BY <1>3, OrderKept, OrderMaps DEF CloseAllOne
  <1> QED
    BY <1>1, <1>2, <1>3 DEF Run

LEMMA NextOrder == Inv /\ OrderInv /\ [Next]_vars => OrderInv'
  <1> SUFFICES ASSUME TypeOK, RoomsAllowed, OrderInv, [Next]_vars PROVE OrderInv'
    BY DEF Inv
  <1> USE DEF castVars, redisVars
  <1>1. ASSUME NEW c \in Clients, Connect(c) \/ ReadPump(c) PROVE OrderInv'
    <2>1. UNCHANGED <<send, castVars, redisVars>>
      BY <1>1 DEF Connect, ReadPump, ReadSubscribe, ReadUnsubscribe, Register, Unregister, ReadFails, UnregisterAll
    <2> QED
      BY <2>1, OrderKept
  <1>2. CASE StopListening \/ Cancel \/ UNCHANGED vars
    BY <1>2, OrderKept DEF StopListening, Cancel, vars
  <1> QED
    BY <1>1, <1>2, OrderWrite, OrderPublish, OrderCast, OrderTake, OrderRun DEF Next

(* Every connection gets what came through Redis in the order in which it  *)
(* came, whatever is dropped for a full buffer or sent directly in between.*)
THEOREM MessagesInOrder == Spec => []InOrder
  <1>1. Init => OrderInv
    BY InitOrder
  <1>2. OrderInv => InOrder
    BY DEF OrderInv
  <1> QED
    BY <1>1, <1>2, Invariance, NextOrder, PTL DEF Spec
=============================================================================
