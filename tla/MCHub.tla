------------------------------- MODULE MCHub -------------------------------
(* Instances of Hub for TLC: anonymous connections, the room of an auction *)
(* and the private room of a user.                                         *)
EXTENDS Hub, TLC

CONSTANTS auctionRoom, userRoom, u1

MCUserOf  == [c \in Clients |-> NoOne]
MCOwnerOf == [r \in Rooms |-> IF r = userRoom THEN u1 ELSE NoOne]
=============================================================================
