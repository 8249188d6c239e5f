# Verification of the real-time auction system

TLA+ modules of the Go backend (`src/backend`) and of the page of the browser
that follows an auction live; TLC runs that check them on small instances;
and TLAPS proofs of their safety properties for all instances.

Contents: 1 the system, 2 the modules, 3 modelling decisions, 4 runs,
5 findings, 6 proofs, 7 what is not modelled, 8 plan.

## 1. The system

A marketplace: users deposit money (Stripe Checkout), offer items, bid, and
withdraw. Several instances of one Go server share a MySQL database (InnoDB), a
Redis (cache, pub/sub, counters) and answer HTTP and WebSocket clients. Each
request is a goroutine; each instance also runs one AuctionCloser and one Hub.

| Component | State | Operations | Interacts with |
|---|---|---|---|
| bidding (`service/bid.go`) | rows of `auctions`, `bids`, `users.balance` | PlaceBid, a transaction | auctions and users by row locks; Hub, cache after the commit |
| auction service (`service/auction.go`) | rows of `auctions`, cache keys | Create, Update (check, then write, unlocked), GetByID, ListActive, InvalidateAuction | cache, Hub |
| auction closer (`worker/auction_closer.go`) | its list of rows | every 2 s: scan, then a transaction per row that ends it and pays the seller | auctions and users by row locks; Hub |
| deposits (`service/deposit.go`, `handler/webhook.go`) | rows of `deposits`, `users.balance` | CreateDeposit, HandlePaymentSuccess, HandlePaymentFailed | Stripe (external), users by row locks; Hub |
| withdrawals (`service/withdrawal.go`) | rows of `withdrawals`, `users.balance` | CreateWithdrawal, a transaction | users by row locks; Hub |
| websocket hub (`ws/`) | rooms, per-client channels | register, unregister, disconnect, broadcast, closeAll | Redis pub/sub; two goroutines per client |
| cache (`cache/cache.go`) | Redis keys with a time to live | Get, Set, Del, DelPattern | auction service, bid handler |
| two-factor (`service/totp.go`) | TOTP columns of `users`, Redis counters and replay keys | setup, confirm, verify, disable | MySQL, Redis |
| accounts (`service/auth.go`, browser `lib/api.ts`) | rows of `users`, the browser's tokens | register, login, refresh | MySQL |
| rate limiter (`middleware/ratelimit.go`) | counters per address | count, expire | every request |
| realtime view (`use-websocket.ts`, pages) | what a browser shows | new_bid, auction_ended, auction_updated, balance_update | Hub |

What is hard, and what makes each part correct:

- Money. Balances, escrow, deposits and withdrawals are changed by concurrent
  transactions that fail, deadlock, or lose the reply of their commit. No cent
  may appear or vanish, no balance be spent twice, no deposit credited twice.
- The end of an auction. Bids, edits and several closers race. An ended auction
  is frozen, ends no sooner than its end time, ends eventually, and its seller
  gets the winning bid once.
- Ordering after the commit. Broadcasts and cache writes happen after the
  commit, unordered; what users see may be stale. It must never be ahead of the
  tables, be stale only for reasons one can name, and not for ever.
- Go-level races of the Hub: three channels that overtake each other, maps read
  while they are written, channels sent to after they are closed. What still
  must hold: private rooms stay private, order is kept, nobody is cut off,
  goroutines end.
- Signing in. Requests of one person read the row of `users`, work, and write it
  back, without transactions. A code may open one session, guesses are bounded,
  and codes are asked for only of a secret the person has shown to own.
- Limits and boundaries: attempt counters, sliding windows, page numbers.

`PROJECT.json` lists every component, and under "hazards" every place of this
kind with the properties that cover it or the reason why none does.

## 2. The modules

| Module | Role |
|---|---|
| `Bidding` | bids, auctions, closers as interleaved transactions |
| `AuctionHouse` | abstract: bids and closings as single atomic steps |
| `MCBidding` | instances of `Bidding` for TLC |
| `BiddingProofs` | inductive invariant and theorems of `Bidding`, and that it implements `AuctionHouse` |
| `Wallet` | deposits, the Stripe webhook, withdrawals |
| `MCWallet` | instances of `Wallet` for TLC |
| `WalletProofs` | inductive invariant and theorems of `Wallet` |
| `Hub` | websocket hub of one instance: pumps, channels, broadcasts, shutdown |
| `MCHub` | its instances for TLC |
| `HubProofs` | inductive invariant and theorems of `Hub` |
| `Catalogue` | auctions as they are read: cache-aside readers, writers that invalidate, times to live |
| `Realtime` | extends `Catalogue` by a page that loads an auction and applies what reaches its browser |
| `Accounts` | registration, login, one-time codes, backup codes, attempt counter |
| `Pagination` | operators: query string, limits and offsets of 32 bits, rows, page counts |
| `RateLimit` | extends `Pagination`: an address's requests are counted, admitted ones get a page |
| `MCCatalogue`, `MCRealtime`, `MCAccounts`, `MCRateLimit` | their instances for TLC |
| `AuctionSystem` | composes `Bidding` and `Wallet` over one table of users |
| `MCAuctionSystem` | its instance for TLC |
| `AuctionSystemProofs` | theorems of the composition, from the invariants of both parts |
| `RealtimeProofs` | theorems of `Catalogue` and `Realtime` |
| `AccountsProofs` | theorems of `Accounts` |
| `RateLimitProofs` | theorems of `RateLimit` and `Pagination` |
| `Sums` | lemmas on the sums over finite sets of the community modules, which most of these proofs use |

### Bidding and the code

| State | Code |
|---|---|
| `auction[a]` | row of `auctions`: seller, current_price, winner_id, status, end_time; status 0 before the row exists |
| `bids[a]` | rows of `bids` of auction a, in commit order |
| `balance[u]` | `users.balance` |
| `auctionLock`, `userLock` | InnoDB exclusive row locks, by transaction |
| `bidPc[r]`, `bidReq[r]` | a PlaceBid goroutine: its next statement; its arguments and the row it read FOR UPDATE |
| `edit[e]` | an Update between GetAuctionOwner and UpdateAuction |
| `closerPc[c]`, `todo[c]`, `closing[c]` | a closer: its place, the rows of its scan still to do, the row in closeOne |
| `ledger`, `raced`, `retimed` | history only, read by no action |

| Actions | Code |
|---|---|
| `BidLock` ... `BidCommit` | LockAuctionForBid and its checks; DeductBalance; RefundBalance; UpdateAuctionBid, CreateBid and Commit |
| `BidRefuse`, `BidAbort`, `DeadlockVictim` | insufficient funds; any error, cancellation or crash; InnoDB's choice of a victim. All three are the deferred Rollback |
| `Create`, `EditCheck`, `EditWrite`, `EditFail` | AuctionService.Create; the two halves of Update; its failure |
| `Scan`, `CloseStatus`, `PaySeller`, `CloseCommit` | GetExpiredActiveAuctions; CloseAuctionByID; RefundBalance; Commit |
| `CloseSkip`, `CloseFail`, `ScanDone`, `CloserCrash` | BeginTx or the update fails; a later failure; end of the loop; the instance stops |
| `Tick` | time passes |

A refused bid that has changed nothing (auction missing, seller's own bid, too
late, too low) is the guard of `BidLock`: it locks, reads, and rolls back
without any trace.

### Wallet and the code

| State | Code |
|---|---|
| `stripe[s]`, `acked` | external: what became of checkout session s (this is also what its event says), and whether its event was answered 200 |
| `request[s]`, `asking[s]` | the CreateDeposit call that opened s, and where it is |
| `deposit[s]`, `depositLock[s]` | `status` of the row whose stripe_payment_id is s; its row lock |
| `hookPc[h]`, `hookFor[h]` | a webhook request inside HandlePaymentSuccess or HandlePaymentFailed |
| `withdrawals[u]` | amounts of the rows of `withdrawals`; all are pending, no code changes that |
| `drawPc[w]`, `drawReq[w]` | a CreateWithdrawal transaction |
| `credited`, `paidOut` | history only |

`OpenSession`, `InsertDeposit`, `InsertFail` are CreateDeposit; `Pay` and
`Expire` are Stripe and its user; `HookLock`, `HookSkip`, `HookCredit`,
`HookCommit`, `HookAbort` are HandlePaymentSuccess behind the webhook, and
`FailRead`, `FailSkip`, `FailWrite` HandlePaymentFailed; `Draw...` are
CreateWithdrawal, statement by statement.

### Hub and the code

| State | Code |
|---|---|
| `rooms` | `Hub.rooms`; the code removes a room's map with its last client, so no map is the empty set |
| `register`, `unregister`, `disconnect` | the hub's buffered channels |
| `hubPc`, `leaver` | Run: at its select, between unlock and close of a leaver's channel, in closeAll, returned |
| `readPc[c]`, `readRoom[c]`, `joined[c]` | ReadPump: reading or blocked on a channel; the room it sends; `Client.rooms` |
| `writePc[c]`, `send[c]`, `closed` | WritePump, its buffered channel, and whether that is closed |
| `inbox`, `listening` | what Redis delivered to subscribeRedis; whether that runs |
| `castMsg[b]`, `castLeft[b]` | a goroutine in localBroadcast: its message, and the clients its range has still to visit |
| `stopping`, `crashed` | the context is cancelled; a panic or fatal error has ended the process |

Each case of Run's select is an action (`TakeRegister`, `TakeUnregister`,
`TakeDisconnect` and then `CloseLeaver`, `StartCloseAll` and then `CloseAllOne`);
`Publish` is BroadcastToRoom with Redis's four outcomes (delivered or not, error
or not), `TakeMessage` subscribeRedis, `CastTo` one step of localBroadcast's range.

### Catalogue, Realtime and the code

| State | Code |
|---|---|
| `row[a]` | row of `auctions`, told by its status, the number of bids that raised its price, and of edits |
| `detail[a]`, `lists[k]` | Redis keys `cache:auction:<id>` and `cache:auctions:list:<limit>:<offset>` |
| `req[r]` | a request or the closer: which handler, its next access to MySQL, Redis or the hub, and what it has read |
| `open`, `shown` | the page is mounted; its state variable `auction` |
| `fetching` | its GETs of the auction that are not answered, requests of `req` |
| `Visited`, `joined` | `subscribedRooms`, in their order; how many of them the connection has joined again |
| `wire` | what is on its way to the browser, from any of these rooms |
| `from`, `top`, `spoiled` | history: the auction each part of `shown` is taken from; the newest of what was announced of the page's auction; something happened that may leave the page wrong |

`ReadDetail`, `FillDetail`, `Answer` are GetByID of service and handler, `ReadList`,
`CountList`, `FillList` ListActive after a miss. `Bid` is PlaceBid's commit, which
`Bidding` has in full; `EditCheck` and `EditWrite`, `Create`, `CloseScan` and
`CloseCommit` likewise. What follows a commit is in the order of the code:
a bid broadcasts (`Cast`) and then invalidates (`Invalidate`, `ScanLists`,
`DelLists`); an edit and a creation invalidate, read the auction back through the
cache (`ReadBack`) and broadcast what they got to the feed (`CastFeed`), an edit
then also to the auction's room; the closer only broadcasts.
In `Realtime`, `Publish` and `PublishFeed` are `Cast` and `CastFeed` with what
BroadcastToRoom and the hub do with the message. `Open`, `Fetch` and `Load` are
the page's first effect, which asks again when the language changes; `Subscribe`,
`Disconnect` and `Receive` the hook with its reconnects, `Apply` the handler it
calls. The hook hands every message to every handler, and the handler looks only
at its type.

### Accounts and the code

| State | Code |
|---|---|
| `users`, `row` | the rows of `users` with one name and address; totp_secret, totp_enabled, backup_codes |
| `attempts`, `used` | Redis keys `user:otp_attempts:<id>`, `user:totp_used:<id>:<code>` |
| `tokens` | the kinds of tokens (`totp_setup`, `totp_verify`, access) the person holds |
| `req[r]` | a request: its next access, the code it was sent, what it has read |
| `proved`, `admitted`, `again`, `wrong`, `overwrote` | history |

Each service method is split at its accesses to MySQL and Redis: `RegisterCheck`
and `RegisterInsert`; `SetupRead`, `SetupWrite`; `ConfirmRead`, `ConfirmWrite`;
`VerifyBegin` (INCR), `VerifyRead`, then `VerifyTotpCode` and `StoreUsed` (SET NX),
`VerifyBackupCode` or `VerifyInvalid`; `ClearAttempts` (DEL and the tokens). `Login`
and `DisableTOTP` make one access; the latter asks for any token (section 3).

### RateLimit, Pagination and the code

`visitors` is the limiter's map, with the time since lastSeen instead of the time
of day; its mutex makes a request's count (`Visit`) and a `Cleanup` one step each.
An admitted `Request` reads a page of the active auctions (`ListActiveAuctions`), a
second query counts them (`CountActiveAuctions`), and auctions are created
(`Insert`) and end (`End`) in between; `answer[g]` is what goroutine g has read or
answered, `seen` and `changed` in it are history. `ParsePaginationFromQuery`, `Validate`, `GetLimit`, `GetOffset`, the handlers' `Int32`, the query (`Select`) and
`TotalPages` are the functions of `httputil`. The parameters of the queries go from
`-Half` to `Half - 1`; `Half` is 2^31 in the code.

### AuctionSystem and the code

`Market` and `Bank` are instances of `Bidding` and `Wallet` that share `balance`
and `userLock`, as the services share the table `users`. Each step is a step of
one of them and leaves the other's private state alone. To each, the requests of
the other are `OtherTxns`, the transactions that may hold a user's row.
`Application.Run` starts them side by side.

## 3. Modelling decisions

- **Transactions.** Each statement of a transaction is an action that takes the
  row locks the statement takes. What it writes becomes visible at its commit,
  which is one action that writes every row; nobody else can read those rows in
  between, since they are locked and plain SELECTs read committed rows
  (snapshots). A rollback releases the locks and writes nothing. Waiting for a
  lock is the action being disabled. InnoDB's deadlock detection is an external
  action that rolls back a member of a cycle of waiters.
- **Lost replies.** A commit whose reply is lost has taken effect. For a bid or
  a closing this differs from a success only in broadcasts and logs. For the
  webhook it matters (the event is answered 500 and comes again) and is modelled.
- **Foreign keys.** INSERT INTO deposits reads the user's row under a shared
  lock, so it waits for an exclusive one. The other inserts happen in
  transactions that already hold the exclusive lock.
- **Clock.** One clock serves Go's time.Now() and MySQL's NOW(), and a tick may
  come between any two steps. `MinLead` is the minute that Create and Update
  demand between now and end_time; MaxTime bounds the clock.
- **Amounts** are cents out of a small set of naturals. Requests are limited to
  $100,000, a BIGINT does not overflow here.
- **Cancelled.** No code assigns AuctionStatusCancelled, so it does not occur.
- **Go.** A panic in a goroutine without recover ends the process; gin's recovery
  saves an HTTP handler. A map that is ranged over while Run writes it is
  undefined: the runtime may stop the process, or the range sees the change or
  does not (`WriteMaps`). A select takes any case that is ready.
- **Stripe.** A session ends as paid, completed but unpaid (a delayed method),
  or expired, never two of them. Its event says which. It is delivered any number
  of times, also concurrently, also after a 200. Only a user who was sent the
  URL can pay, and a session lives far longer than the request that opens it.
- **Cache.** No method of `Cache` reports an error, so each call may fail without
  its caller noticing; a failed Get is a miss. Calls use the context of the
  request, so a client that hangs up cancels them. The end of a time to live is
  an action of its own that may come at any time. A hit changes nothing and is
  left out where nothing depends on what it returns.
- **Rooms.** A browser has one connection for all its pages. useWebSocket leaves a
  room only if no hook has a handler any more, and the Navbar's always has one
  (`useBalanceSync`): so the rooms of the auctions that the home page has listed,
  of earlier pages, and the feed stay joined, and `Realtime` has them all, in any
  order given by `Visited`. The user's own room carries only balances, which the
  page ignores; so do `auction_created` messages.
- **Codes.** Distinct codes are taken to differ in their digits, and a typed code
  is one of the latest secret or set, or of no use. Validating a one-time code
  (`VerifyTotpCode`) and storing its key (`StoreUsed`, SET NX) are two steps, and
  the clock may tick between them. The key lives for 90 s, exactly as long as
  the code is good: there is no slack.
- **Tokens.** The middleware accepts every token signed with the server's secret
  that names a user, whatever its purpose, so protected routes (`DisableTOTP`) are
  open to whoever holds any token, a temporary one too (`Authenticated`). The steps
  of signing in do test the purpose. Which tokens have expired is not tracked: a
  person holds a kind of token from when it is first given, and an expired one is
  a request that is not made. The attempt counter may expire at any time or never.
- **Two queries.** ListActive reads the rows of a page and then counts the list. In
  `RateLimit` the list may grow or shrink between the two, and in `Catalogue` the
  pair is also cached. A row is told by its place in the list; that the order of
  auctions with the same end time is MySQL's choice is left out.
- **Widths.** The product of page and size may also overflow Go's 64 bits; the
  conversion to 32 bits depends only on the low 32, so it makes no difference.
- **Snapshots.** CountPendingWithdrawalsByUser is the first consistent read of
  its transaction, after the locking read of the user, so it sees what is
  committed at that moment.

### Fairness

Safety runs assume none. Liveness runs use `FairSpec`:

- strong fairness of each statement that waits for a row lock (InnoDB queues the
  waiters), weak fairness of statements that do not wait, of the clock, and of
  InnoDB's deadlock detection;
- weak fairness of the closer's scan (a ticker of 2 s) and of its loop;
- in the Hub, strong fairness of taking a disconnect (a select chooses at random
  among ready cases) and of a pump that waits for room in a channel, weak
  fairness of closing the leaver's channel;
- Stripe delivers an event as long as it is not answered 200;
- in `Catalogue`, weak fairness of each request (it goes on or is aborted) and of
  the expiry of each entry, which is what a time to live means;
- closers and webhook requests fail finitely often (`<>[][~CloserFault]_vars`,
  `<>[][~HookFault]_vars`): a closing that fails for ever never ends an auction.
  Bids and withdrawals may be aborted for ever.

Nobody has to create, bid, edit, deposit, or withdraw.

## 4. Runs

| Run | Instance | Question |
|---|---|---|
| `bidding_race` | 1 auction, 3 users, 2 bids, 1 editor, 2 closers, prices 1..4 | escrow, history, settlement, frozen end, end time, refinement of `AuctionHouse`, with every failure and restart |
| `bids_answered` | 2 auctions of one seller, 2 bids of shared users that may deadlock | liveness: no bid waits for ever; conservation of money |
| `auctions_end` | 1 auction, 2 closers with faults, a bid, an editor | liveness: every overdue auction ends |
| `wallet` | 1 user, 2 sessions, 2 webhook requests, 2 withdrawals | credit once, only paid sessions, 200 only when done, one pending withdrawal, the tables add up; liveness: paid is credited, expired is failed |
| `system_books` | 1 auction, 2 bids, 1 closer, 1 session, 1 webhook request, 1 withdrawal, 2 users who do all of it | no double spending across the two modules, every balance explained by the tables |
| `hub` | 1 connection that may join one of two rooms, 1 publishing request, 2 broadcasts, channels of 1, buffer of 2 | bounded, private, ordered buffers; nobody cut off; leavers closed (liveness) |
| `catalogue` | 1 auction, 1 page of the list, 2 requests of any kind, 2 bids, 1 edit | which races leave an outdated entry; liveness: both caches come to agree with the table |
| `realtime` | 2 auctions, the page of one; rooms: feed, other auction, own auction; 2 requests of any kind, 2 bids, edits or closings of the two auctions, 2 messages on the way, the page's auction cached | nothing shown that its auction does not hold; right at rest but for named mishaps |
| `accounts` | 1 person, 2 requests, 2 secrets, 1 set of 2 backup codes, 1 attempt, codes of 1 period of 1 tick | one session per code while it is good, bounded guesses, proved secrets, exact backup codes |
| `requests` | 1 address, rate 2 per window of 2 ticks, limits and offsets from -8 to 7, sizes 2 (default), 4 (limit), 3 (fallback), lists of up to 5, 1 goroutine in ListActive | rate in every window; exact pages and totals, whatever changes between the two queries; complete pages |
| `late_bid`, `hub_rooms` | the smallest instance | findings, next section |

Why these bounds suffice for the interesting cases: two bids are enough for an
outbid, a self-raise, a conflict on one row and a deadlock across two auctions;
two closers for a double closing; one more user than bidders for a seller who is
paid; prices 1..4 with balances near them make refusals, exact spending and
overdrafts possible; two copies of an event and two sessions of one user make
duplicate, colliding and interleaved credits possible; an amount below
MinWithdrawal and one at it exercise that boundary. One connection suffices for
the hub's races, which are between its two pumps, Run and the broadcasters; two
broadcasts are needed for order, a channel of one for blocking and overtaking.
The theorems cover more connections and rooms. In the wallet every transaction
locks the rows of one user, so one user suffices for what they do to each other,
and `system_books` has two. Two requests on one auction are a reader and a
writer, two writers, or an edit that reads back what the reader has stored; a
third only adds a second culprit to the same race. On the page, two requests are
the two answers that a change of language brings about, or an answer and a writer;
two writes and two messages are enough for one to overtake the other, and for one
of each auction. A code whose period is a tick
is good for three ticks, and the clock goes one tick further, so that codes and
the keys of used ones expire, the latter also while a request waits with a code it has
found good; one attempt makes the second one too many;
one address suffices where addresses share nothing but a map, and one goroutine in
ListActive where goroutines share only the list that all may change.
Page numbers include -1, 0, the last page, one beyond it, and one whose offset
wraps. `PROJECT.json` names, for each property, a mutated definition (a plausible
bug of the code) that breaks it under the same configuration.

What each property says is in the comment above it. The deep ones:
`EscrowExact` and `SettledExactly` tie a per-auction ledger to the row through
every abort and race; `ImplementsHouse` says that the locking protocol makes each
bid and closing atomic; `AckedIsCredited` is the contract with Stripe's retries.

## 5. Findings

1. **late_bid.** closeOne pays what its scan read. A bid that commits after the
   scan is taken from its bidder and wins, but the seller is paid the older
   price, or nothing.
2. **hub_rooms.** Run takes from three channels in any order, so an unsubscription
   may overtake the subscription before it, or a subscription the disconnect:
   the hub's rooms then disagree with the connection for as long as it lasts (it
   gets nothing, or what it left), or hold a closed channel, and the next
   broadcast panics. The repository's pages rarely unsubscribe (section 3,
   "Rooms"); any client of the protocol may.

Seen in the models and excluded by name from the properties they would break,
which thereby show that nothing else goes wrong:

- Two closers. CloseAuctionByID has no status test; two instances with the
  auction on their lists both pay the seller. `SettledExactly` excludes auctions
  in `raced`, to which this and `late_bid` belong.
- An extended end. An auction whose end was extended after the scan is closed
  before its new end time. `EndsOnTime` excludes `retimed`.
- Outdated entries. A reader stores what it loaded before a write and the
  write's invalidation (`StoredLate`); the closer ends an auction without telling
  the cache (`CloseCommit`), although the README's line on caching
  speaks of "invalidation on write"; an invalidation is lost (`Lost`). Then an ended
  auction is served as active, or an old price, until the entry expires.
  `DetailKept` and `ListsKept` show that these are all the ways,
  `CachesConverge` that each of them is over once entries have expired.
- A page that shows another auction. The handler of `page.tsx` (lines 62 to 82)
  does not compare the auction of a message with its own, and rooms that were
  joined once stay joined: a bid in an auction that the home page listed replaces
  the price on the page, its end ends it, and an edit, also one announced to the
  feed, replaces all of it. What the page shows has then been committed, but to
  another auction: `NeverAhead` measures each part against the auction it was
  taken from (`from`), and `ShowsTheAuction` names the foreign message (`spoiled`).
- An outdated page. Messages are published after the commit in any order and may be
  lost; a late answer replaces what messages have brought since it was read, when
  the page is opened and again whenever the language is switched on a page that
  is loaded; only then does it ask again. Since the cached detail may be outdated,
  so may be the page that starts from it. `ShowsTheAuction` names each of these
  and shows that there are no others.
- Lost updates of an account's row. Two verifications with different backup codes
  each write back the list they read, less their own, so one of the used codes is
  back in the list, although the repository's README (line 52) calls them
  "single-use"; the error of that write is ignored; a setup or a
  confirmation may write after the row it read has changed. `CodesExact` and
  `EnabledIsProved` exclude what such a write leaves (`overwrote`).
- A code used twice. A request that finds a one-time code good at its last instant
  and reaches Redis when the key of the code's first use has just expired opens a
  second session. `TotpCodesOnce` asks nothing of a code that is good no longer
  when it is stored, and so shows that there is no other way.
- A total of another list. An auction that is created or ends between the two
  queries of ListActive is in the rows and not in the total, or the other way round.
  `PageExact` names this (`changed`) as the only reason for a total that is not the
  length of the list the rows come from.

More, seen and given neither a run nor a property: Update's status test and its
write are not one step, so an auction that ended in between is edited; nothing
approves or rejects a withdrawal, so it is pending for ever and bars the user's
next one; closeAll closes the channel of a connection once per room, and once
Run has returned nobody drains the hub's channels; the rate limiter moves
lastSeen with every refused request, so that a client that keeps trying is
refused for ever; a failure between INCR and EXPIRE leaves the attempt counter
without an end.

## 6. Proofs

Every safety invariant and every action property of the passing runs is a
theorem: it holds for any sets of users, auctions, sessions, connections and
requests and any values of the bounds, and so does the refinement of
`AuctionHouse`. TLC has checked the same properties on the instances of section
4.

Assumptions. Each module names what it takes of its constants (`...Assumption`,
evaluated by TLC in every run). They are: amounts are positive and starting
balances natural; identities that the code keeps apart are disjoint; a marker
for "nothing" (`NoOne`, `None`, `Error`) is none of the things it stands beside;
capacities, rates and periods are positive; no page is larger than a parameter
can hold (`MaxSize < Half`: 5000 and 2^31); and sets that are summed or counted
over are finite (users, auctions, sessions, requests).

### Bidding

`BalancesNeverNegative`, `EscrowIsExact`, `SettlementIsExact`, `EndedIsFrozen`,
`NeverEndsEarly`, `HistoryIsSound` are not inductive by themselves: that a commit
writes the right values depends on what the transaction read being still true.
The invariant `Inv` adds to the types and the safety properties:

- `BidHoldsAuction`, `BidHoldsPayer`, `CloserHoldsAuction`: a transaction past a
  statement holds the locks that statement took;
- `ReadingsCurrent`: hence the price, winner and seller it read are those of
  the row now, the row was active when it was read, the balance still covers
  the amount, and a closer's reading is current unless the auction has raced;
- `RowsSound`: an absent row is blank, a present one has a seller who is not its
  winner, and its price is positive.

`NextInv` has one lemma per action; `Invariance` combines them. The action
properties follow from `Inv` and a case split over `Next`. `HistoryIsSound`
adds the facts about sequences.

`BiddingImplementsHouse`: under the refinement mapping of `Bidding`, each action
is a step of `AuctionHouse` or stutters. That a commit is a step of the house
(its price above the standing one, its bidder not the seller, the lot open)
is `Inv` at that moment; what a closer pays is an amount that was offered for the
lot, which `PayoutsOffered` carries from the scan to the payment.

`MoneyIsConserved`: a bid moves money among bidders and the escrow of its
auction, a closing from the escrow to the seller. Each user's balance changes by
what the ledger of one auction gains (`Moved`), and the sums over users and over
auctions by the same amounts.

### Sums

The community modules define a sum over a set by a recursive function on its
subsets that takes out one chosen element at a time. `AddsExists` and `AddsAgree`
show that there is such a function and that it depends only on what is summed;
`SumAny`, that any element may be taken out first. From these come the lemmas the
other proofs cite: one value changes, one element is added, two functions agree
on the set, a sum of zeros, a sum over places that all move up by one. Induction
is over the cardinality, as a least counterexample (`Induct`).

### Wallet

`CreditIsOnce`, `CreditIsPaid`, `AckIsSafe`, `PendingIsOne`,
`BalancesNeverNegative`, `WalletAlwaysBalanced`. `Inv` adds to the properties:

- `SessionsSound`: a session, the call that opened it and its deposit row advance
  in step (a session that is paid has a row, a completed row has a paid session,
  an acknowledged one has ended);
- `HookHolds`: a request that settles a deposit holds its row, still pending,
  and then the user's; one that marks it failed may find it failed, never
  completed, which is why its unlocked read does no harm;
- `DrawHolds`: a withdrawal holds its user's row from its first statement, so
  what it counted and what it deducted from stay true.

### AuctionSystem

`BiddingProofs` and `WalletProofs` are instantiated over the shared `balance` and
`userLock`. Neither invariant could survive arbitrary steps of an environment.
What each needs of the other is that rows of `users` which transactions of the
first have locked stay locked and lose no money, and that no balance becomes
negative. `LeavesOthers` shows that steps of each keep to this, `OthersInv` that
each invariant holds under an environment that does. Hence `SystemInvariance`, and from it that escrow, settlement and history
(`AuctionsUndisturbed`) and credits, acknowledgements and withdrawals
(`WalletUndisturbed`) are as sound side by side as alone, and that no balance is
spent twice (`BalancesNeverNegative`). `BooksAlwaysBalance` adds an invariant of
its own, `Explained`: a balance is the start, plus what ledgers moved, plus
deposits, less withdrawals. At any moment the ledgers are what the rows of
`auctions` say (`EscrowExact`, `SettledExactly`), which turns it into the claim.

### Hub

`TypeCorrect` (with the bounds of the buffers), `RoomsArePrivate`, `NobodyCutOff`
and `MessagesInOrder`. A subscription passes through a pump, a channel, a map
and a range before a message reaches a buffer; `RoomsAllowed` says that each of
them holds only rooms its connection is allowed, `LeaversLeft` that the hub
closes only channels of connections whose ReadPump has ended. For the order,
`OrderInv`: what waits in the inbox is newer than the message subscribeRedis is
at, which is at least as new as what it has sent; a request ranges over a
room only for a direct message of its own.

### Catalogue and Realtime

`TypeCorrect` adds to the types that a request past its first query works on an
auction the table holds (`Exists`; no row is ever removed). `DetailAlwaysKept`
and `ListsAlwaysKept` are action properties: case by case, every step but the
named ones keeps an entry true or leaves somebody who will delete it.

`PageNeverAhead` needs to know where everything the page shows comes from, of
whatever auction.
`Known` says that no request and no cache entry carries more than the row it is
of, and that the closer before its commit knows better only that the auction has
ended;
`Page` says the same of messages (`Truthful`), of what is shown and of all that was
published.

`PageShowsTheAuction` needs in addition, as long as nothing has spoiled the page
(`Unspoiled`): whatever the row has and the published messages have not is owed
by a request that is still going to publish it (`Owed`); and from what is shown, from
each answer that is still to come, and from the row that another answer would be,
there are states that lead, message by message, to everything that was published
(`LeadsTo`). A message of another auction leads nowhere: as long as the page is
unspoiled it has no effect (`Effect`). At rest no request and no message is left, so
what is shown is not behind the row, and it never was ahead of it.

### Accounts

`TypeCorrect`; `TotpCodeOpensOneSession`, by `OnceInv`: an accepted one-time code is
remembered in Redis at least until it is good no longer, for any length of a
period, since whoever is about to store it has found it good before; `GuessesAlwaysBounded`, by `GuessInv`: each wrong code and each counted
request still under way has its place in the counter, and when the counter
expires or a success clears it, those counted before are counted no longer;
`EnabledAlwaysProved` and `BackupCodesAlwaysExact`, by `CodesInv`: unless a request
has written from an outdated reading, whoever is about to write still knows the
row it has read (`ReadingTrue`), since whatever changes the row marks them as
outdated.

### RateLimit and Pagination

`WindowAlwaysBounded`: the limiter counts from the first request of an address
and starts anew only after a window without any. `CountsSound` says that the
count covers all that was admitted in the last window and that nothing was
admitted after the address was last seen, so when counting starts anew nothing of the
last window is forgotten, nor by a cleanup. For pages, `AnswersSound` keeps of each
answer that its rows are those of its page in the list that was read, and that the
list is still that one or `changed` says so. `PagesAlwaysExact` and
`PagesAlwaysComplete` rest on lemmas on division by a variable: page n of size z
is the rows i with (i - 1) \div z + 1 = n, pages put one after the other end
where the next begins, and the rounded-up number of pages is the least that
covers the list. A limit always fits its parameter; the offset is what may not.

### Only model-checked

Liveness: `EveryBidAnswered`, `EveryAuctionEnds`, `PaidIsCredited`,
`ExpiredIsFailed`, `LeaversClosed`, `CachesConverge` (leads-to properties under
fairness, which need ENABLED and are out of the prover's reach). The two properties that the code
violates (section 5) have their counterexamples from TLC.
`NonNegativeBalance` of `Bidding` and of `Wallet` is proved only; the run
`system_books` checks it of their composition.

## 7. Not modelled

Configuration, logging, metrics, i18n, HTTP encoding, uploads, encryption and UI
layout hold no state a behaviour depends on. JWT signing and TOTP arithmetic are
a library's. RefreshToken reads a user and signs tokens: it changes nothing.
Of the browser only the page of one auction is modelled: the home page leaves its
rooms to that page and applies the same kinds of messages to a list (there by
their auction), the balance in the header is the last one
received, and the browser's refresh of tokens changes its own storage only.
Start and shutdown of the process are modelled as far as they reach the hub.

## 8. Plan

Done: all modules of section 2, and a proof of every safety and action property
of the passing runs.

Next, in this order:

1. `AuctionSystem`: give `Bidding` and `Wallet` an environment action (other
   transactions lock user rows and change balances under their lock, never below
   zero) and show that the composition implements both. `AuctionSystemProofs`
   has the step lemmas; this would make the components' theorems, the refinement
   of `AuctionHouse` included, theorems of the system by themselves.
2. That a quiet hub agrees with its pumps when no message was overtaken.
3. An abstract wallet (credit and withdraw as atomic steps) and its refinement.
