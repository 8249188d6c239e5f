\* One page in a browser that is in the rooms of two auctions and in the feed;
\* two concurrent requests of any kind, two bids, edits or closings in all, two
\* messages on their way at most.
SPECIFICATION RealtimeSpec
CONSTANTS
    a1 = a1
    a2 = a2
    r1 = r1
    r2 = r2
    None = None
    Auctions = {a1, a2}
    Watched = a1
    Feed = Feed
    Visited <- MCVisited
    Requests = {r1, r2}
    Keys = {}
    MaxPrice = 2
    MaxText = 1
    MaxWire = 2
    MaxWrites = 2
    Cached = {a1}
SYMMETRY Symmetry
VIEW View
\* Bids and edits are bounded, and the auction ends.
CHECK_DEADLOCK FALSE
INVARIANTS
    RealtimeTypeOK
    NeverAhead
    ShowsTheAuction
