\* A connection that may join one room and not the other, a request that
\* broadcasts, two broadcasts, under fairness.
SPECIFICATION FairSpec
CONSTANTS
    c1 = c1
    u1 = u1
    q1 = q1
    auctionRoom = auctionRoom
    userRoom = userRoom
    Clients = {c1}
    Rooms = {auctionRoom, userRoom}
    UserOf <- MCUserOf
    OwnerOf <- MCOwnerOf
    Requests = {q1}
    Redis = Redis
    ChanCap = 1
    SendCap = 2
    MaxMessages = 2
    NoOne = NoOne
\* The process may end, and nobody has to connect or to broadcast.
CHECK_DEADLOCK FALSE
INVARIANTS
    TypeOK
    PrivateRooms
    InOrder
    ClosedHaveLeft
PROPERTIES
    LeaversClosed
