# Verification of salom-api

salom-api is the server of a taxi dispatch: operators take orders by phone, the
server offers an order to idle drivers, one of them accepts and drives it, and the
driver's commission wallet is debited when the trip completes. It is a NestJS
program with PostgreSQL behind Prisma. This directory holds TLA+ models of its
core, TLC configurations that check them on small instances, and proofs checked
by TLAPS for instances of any size.

## 1. The system

### Components

| Component | Source | State it keeps | Operations | Here |
|---|---|---|---|---|
| Dispatch | `src/src/orders/dispatch.service.ts` | `Order`, `OrderAssignment` (an offer), `Trip`, `Driver.operationalStatus` | create, broadcast, current offer, accept, reject, expiry of old offers | `Dispatch` |
| Order life cycle | `src/src/orders/order-lifecycle.service.ts` | the same rows | cancel by operator, cancel by driver, no-show | `Dispatch` |
| Trips | `src/src/trips/trips.service.ts` | `Trip`, `Order.status`, driver status | arrived, start, dispute, resolve, complete | `Dispatch` |
| Presence, guard | `src/src/notifications/driver-device.controller.ts`, `src/src/tracking/guards` | driver and account status | online, offline | `Dispatch` |
| Wallet, ledger | `src/src/ledger/ledger.service.ts` | `Driver.balanceUzs`, `EarningsLedger` | top-up, payout, adjustment, trip completion, reconcile | `Wallet` |
| Sessions, one-time codes | `src/src/auth` | `AuthRefreshSession`, `OtpLoginChallenge`, account status | log in, activate, refresh, log out, request and verify a code | `Sessions` |
| Onboarding | `src/src/driver-onboarding` | `User`, `Driver.onboardingStatus`, vehicles, documents | register, edit, add documents, submit | `Accounts` |
| Administration of people | `src/src/admin/admin.service.ts` | the same, activation codes, operators | create, review, approve, reject, suspend, delete | `Accounts`; suspension in `Dispatch`, too |
| Settings, banners | `src/src/admin/admin.service.ts` | the one `PlatformSettings` row, files | patch, upload, delete | `Settings`, `Banners` |
| Zones, rings, quotes | `src/src/orders/pricing-engine.service.ts`, `admin.service.ts` | `ServiceZone`, `PricingProfile`, `PricingRing`, an order's and a trip's copies | edit, quote, copy, bill | `Pricing` |
| Tracking, fare meter | `src/src/tracking`, `src/src/trips/fare-meter.service.ts` | `LocationPing`, last known positions (in process) | ingest, roster, billable road | `Tracking` |
| SMS | `src/src/notifications/sms.service.ts` and its webhook | `SMSLog`, the Eskiz bearer (in process) | send with retries, delivery report | `Sms` |
| Push, news | `src/src/notifications` | `Driver.fcmToken`, `NotificationLog`, news and read marks | notify, register a device, broadcast, read | `Push`, `News` |
| Chat | `src/src/operator-chat` | threads, messages, read marks | send, list, mark read, count unread | `Chat` |
| Settlements | `src/src/admin/admin.service.ts` | `DriverMonthSettlement` | sum a month, persist, confirm | `Settlement` |
| Gamification | `src/src/gamification`, `admin.service.ts` | overrides of score, XP, month; tier bonuses | boards and pages, level, edits | `Board`, `Champions` |
| Gateways, controllers, configuration, health, seed | `src/src/driver-ws`, `src/src/health`, ... | none | routing, output | not modelled: no state depends on them |

### How they interact

Every component works on one database; there are no queues, locks or background
jobs. The only state outside it is the memory of last known positions, the SMS
provider's bearer and the banner files. Requests are served concurrently: each `await` lets another
request run, and the server may run in several processes (the models of what is in the
database cover them, a request being a request wherever it runs; `Tracking` and the bearer in `Sms` are the
memory of one process, and of two the roster may show different positions). Some handlers put
their writes into a `$transaction`, which PostgreSQL runs at READ COMMITTED:
atomic, but nothing it reads is protected until it writes; others (broadcast,
reject, expiry) send one statement after another. Writes are by id and
unconditional: a row checked before is not checked again. What does protect
the data is a few unique indexes: `Trip.orderId` (`prisma/schema.prisma:686`), a user's
phone, an activation code, a chat thread's driver.
Completion is where dispatch and money meet: `completeTrip` calls
`recordTripCompletion` in its transaction.

### What makes each part correct

* An order is won once, by a driver it was offered to; offer, order and trip name
  the same winner; no commission without a pickup (races); with requests one at a
  time, also: the status follows the life cycle, the trip follows the order, a
  commission per completed order, no offers of taken orders, no driver busy
  without a trip.
* The cached balance drifts from the ledger only where an update was lost; only a
  commission makes it negative; nobody is paid money the ledger does not show.
* A refresh token or a one-time code gives one session; what is rotated out, logged out or
  deleted stays so. An application moves through its stages; no two accounts have one phone and
  no two drivers one activation code; an active account is an approved one.
* What a message's row says is what happened to it; nobody is told of news it cannot
  find; a thread shows what is new.
* A trip is billed by the tariff its order was quoted with and by no more road than was
  driven; the rings of a zone can always quote an order.
* A month is settled by what its trips owe, and a confirmation holds; all boards
  compute the same line; edits of administrators are not lost.
* Hard to test here: the two-request races at each `await`, a request that dies
  between two statements, offers that run out while they are being accepted, and
  operators and drivers closing the same order. `PROJECT.json` lists each hazard
  at its line with the properties that look at it.

## 2. Modules

| Module | What it is |
|---|---|
| `OrderClaim` | abstract: who an order was offered to, who won it, whether it was charged |
| `OrderLifecycle` | abstract: an order's status only moves along its life cycle, one charge at completion |
| `Dispatch` | dispatch, life cycle, trips, presence, suspension, statement by statement; its properties and the two refinement mappings |
| `MCDispatch` | symmetry of ids for TLC |
| `DispatchProofs` | proofs about `Dispatch`, however many requests race |
| `SerialProofs` | proofs about `Dispatch` with one request at a time |
| `Wallet` | balance and ledger of drivers, operation by operation |
| `MCWallet` | small sums, fares and rates for TLC |
| `WalletProofs` | proofs about `Wallet` |
| `Sessions`, `MCSessions` | refresh sessions, one-time codes, activation, logins and who may use them |
| `SessionsProofs` | proofs about `Sessions` |
| `Application` | abstract: the stages of a driver's application |
| `Accounts`, `MCAccounts` | users, drivers, operators: registration, application, review, administration, deletion |
| `AccountsProofs` | proofs about `Accounts`, with the refinement of `Application` |
| `Sms` | one message from row to report, with retries, provider, crashes |
| `Fleet` | the drivers that push and news have in common |
| `Push`, `News`, `Chat` | the other three ways to tell somebody something |
| `MCNotifications` | `Sms`, `Push`, `News`, `Chat` in one run |
| `NotificationProofs` | proofs about the four |
| `PlatformSettings` | `Settings` and `Banners` as the one row they share, for the proofs and the run |
| `Settings`, `Banners` | the settings row: pricing fields, and banner list with its files |
| `Pricing` | default profile, rings, an order's quote and what is billed of it |
| `Tracking` | a driver's pings, memory, roster and the meter |
| `MCFares` | `Settings`, `Banners`, `Pricing`, `Tracking` in one run |
| `FaresProofs` | proofs about the four |
| `Settlement` | what drivers owe for a month |
| `Board` | the monthly leaderboard, computed in three places, read in pages |
| `Champions` | month override, tier bonuses, lifetime XP and level |
| `MCMonths` | `Settlement`, `Board`, `Champions` in one run |
| `MonthsProofs` | proofs about the three |

`Accounts` and `Sessions` have driver status in common with `Dispatch`, and `Pricing` its
trip with `Tracking`; each keeps its own copy and lets the other's steps happen freely
(`Suspend` and `DeleteUser` in `Sessions`, `TripOpens` in `Accounts`), which allows more
than the composition would.

### Dispatch and the code

`order`, `asg`, `trip`, `op`, `acct` are the columns the handlers decide by:
order status and winner, offer status with order and driver, trip status with
driver and whether `waitingStartedAt` is set, the driver's operational status,
the user's account status. `charges` counts the `TRIP_COMMISSION_DEBIT` rows of
an order's trip. `req` holds the requests in flight, one per slot: the handler, the
statement it is at (`pc`) and the local variables the rest of it uses.

* A statement outside a transaction is one step (`BroadcastInsert`, then
  `BroadcastMarkOffered`). A transaction is one step per read that decides
  something, then one step that applies its writes
  (`AcceptReadOrder`, `AcceptReadOffer`, `AcceptReadRivals`, `AcceptCommit`). An
  order read with `include: { trip }` is one read. Writes use what was read, not
  the rows as they are by then.
* `expireStaleAssignments` is a sub-procedure of four handlers; `handler` says
  where it returns to (`Resume`). The `for` loops take their rows in any order.
* `AcceptCommit` has the failing alternative: `trip.create` violates the unique
  index and the transaction leaves nothing.
* A trip handler's checks (`Completable` and the guards of `StartTrip`, ...) are
  made at arrival; its transaction is the next step. `resolveDispute` continues in
  `cancelByOperator` or `completeTrip`, which check again.
* The environment: orders appear, offers run out (`Lapse`), drivers are suspended and
  reactivated, and a request may end at any statement with what it has committed
  (`Abort`: process crash, failed statement, transaction timeout, deadlock victim).

Abstracted: the round number, times (only "the offer's time has passed" is kept,
as status `LAPSED` of a row that still says PENDING), fares, notes, events and
messages. Which idle drivers get an offer depends on distance and balance: any subset
of the idle, active drivers may be chosen. A driver may be refused for a low
balance: `AcceptReadOffer` may end the request. Nothing in the code sets
`OrderStatus.EXPIRED`, `PAUSED` or the operational status `SUSPENDED`; the first
stays in `Terminal`, as in the code. `Rows` bounds the offers ever made: a
broadcast chooses no more drivers than there are free rows, and when another
broadcast used them up meanwhile the insert fails. `Handlers` restricts an
instance to some of the endpoints, so that races of a few can be explored fully.

### Wallet and the code

`balance` is `Driver.balanceUzs`; `posted` is the sum `reconcileDriverBalance`
would compute from the driver's rows (`Signed` is its `switch`: fares collected in cash,
`TRIP_EARNINGS`, count nothing); `last` is the type of the last wallet row. Two history variables tell
where an update was lost: `stale` has the transactions whose balance was written by another since
they read it, `overwritten` the drivers for whom such a transaction was committed. An operation opens with the
read of the balance and its checks (`RecordTopUp`, `RecordPayout`,
`RecordManualAdjustment`) and later commits balance and rows together (`Commit`);
trip completion computes the split first (`SplitFare`), outside its transaction. The
rate may change between any two trips, so it is any of `Rates`, clamped as in
`splitGrossUzsInt` (`ClampBps`), and `Math.round` is `RoundBps`. No caller passes
`allowNegative`, so it is left out. The row types nothing writes
(`REFUND`, `BONUS`, ...) are left out of `RowType`. A commit that would take a
wallet or ledger out of `-Bound .. Bound` is not taken.

### The other modules and the code

In all of them a variable named `req`, `call`, `patch`, `ingest`, ... is a request in
flight: the statement it is at and the local variables it still needs; the steps between
two awaits are one action, and `Abort` (or `...Dies`, `SmsCrash`) ends a request where it
stands. Variables marked *history* in a module are read by properties only: they note what
was asked for, or that two requests overlapped, because most handlers check first and write
later, and what they promise then is limited to requests that do not meet. Every such
exception is named in the property (`raced`, `collided`, `apart`, `crossed`, ...), is as narrow as
the code allows and is stated per driver, token, channel or period.

* `Sessions`: `refreshTokens` and `verifyDriverOtp` are find, revoke or consume, issue; the
  row of a token keeps where it came from (`via`). `acct` is what the checks read of an account.
  Access tokens are not modelled: nothing stores them. An expiry (`Lapse`) comes at any time.
* `Accounts`: `user` and `app` are the rows; `parts` says which required parts (vehicle,
  documents, fields) an application has. The phone and the activation code are looked up in
  one statement and refused by the unique index in another. `DevDriver` is the driver that the development
  bypass creates: approved, active, without a code, and noted in `codeless`, which stands for the
  rows from before there were codes (`schema.prisma:355`), too. `Application` is refined under
  the mapping `Lifecycle`; a driver two requests worked on at once maps to "contested" for good.
* `Sms`: a message is a row with its request; `mode` is `SMS_MODE`. The provider may accept
  and lose its answer (`AnswerLost`: timeout or network); writing SENT is inside the `try`, so a
  failing write repeats the message (`MarkLost`); a failing write outside it leaves the row QUEUED
  (`WriteLost`). The Eskiz bearer is one for all requests: one that is refused drops it.
* `Push`: a push keeps the token it read; FCM may fail it for many reasons, and two of them
  make the service clear the driver's token, by driver id.
* `News`: drivers are told first, the row is stored last; edits re-address it; a driver's
  list follows its zone, which `patchProfile` writes. `markRead` reads the driver's zone (`MarkRead`), then the
  rows asked for that mean a driver of that zone (`MarkReadFind`), then inserts (`MarkReadInsert`). A driver
  that moves between the first two may mark news that was never on its list: `moved` notes which.
* `Chat`: `createdAt` is the start of the sending transaction (`StampMessage`), the message is
  visible at its end (`StoreMessage`). A tick is the clock's least unit, `MaxTime` bounds it. A list gives all
  messages: the code stops at the newest 80 (`operator-chat.service.ts:58`), more than the runs ever store.
* `Settings`, `Banners`: patches read the row, validate, write it whole; banner handlers also
  write or unlink files, in the order of the code. A patch of the list may name any file, listed or not, deleted
  or never uploaded, and a name more than once (`Listings`): the code checks the form of a name only. It does not
  wait for its unlinks, which `doomed` holds until they end. `foreign` notes the names a patch listed that were not
  on the list it read; of the others `BannersOnDisk` says that their files are there. The environment's
  defaults are assumed to be consistent themselves (`EnvLow >= EnvMin`).
* `Pricing`: two of the five starting rings (one with a rate of its own, one without), one
  order, distances of whole kilometres. `MaxEdits` bounds the writes of administrators other
  than deletions; `PatchRing` changes a field at a time. The find of a profile and the check
  for another one are one step. The terms of waiting (free minutes, fee per minute) are one value: both are
  copied together. An operator that ends a dispute with a sum of its own (`CompleteAbsolute`) bills no quote.
* `Tracking`: one driver on one trip; a tick is a minute, a unit of road 100 m. The phone's readings
  are right, so that of the filters only age and implausible steps matter; batches may come late, twice
  and out of order, and the process may restart.
* `Settlement`: `trip` has what the sums are made of: status, month of `endedAt`, commission rows. A request that
  closes or reopens a trip checks it and takes the time (`TakeEndedAt`), and later writes it by id, whatever it has
  become (`CommitEnded`): a trip may appear in a month that is over, a completion may be overwritten by a
  cancellation, a second completion may move it to the next month with a second commission. `undone` notes the
  driver and month that lost a completed trip so. The months are 1 .. `LastMonth` + 1.
* `Board`: one zone, one monthly period; a reader goes through the pages one request at a time.
  `Line`, `AdminLine` and `OwnLine` are written from the three places that compute them.
* `Champions`: months are counted, not formatted; the three counts of `computeLifetimeXp` are
  three queries without a common snapshot.

## 3. Runs

| Run | Asks | Result |
|---|---|---|
| `DispatchSerial` | one request at a time, two orders, two drivers, three offers: life cycle, trip follows order, one charge per completion, no offers of taken orders, busy means on a trip, ORDER_OFFERED means an offer | holds |
| `DispatchSerialCrash` | the same with crashes and suspension, one order; without `OfferedMeansPending` and `ChargedExactlyOnce` | holds |
| `DispatchRace` | two requests at once around the offers of one order, with expiry and crashes: types, agreement of offer, order, trip; `OrderClaim` | holds |
| `TripRace` | two requests at once along the trip, with crashes and suspension: no charge before the pickup, `OrderClaim` | holds |
| `CancelOverComplete` | an operator cancels only open orders (`order-lifecycle.service.ts:71`) | violated |
| `SecondOffer` | a driver has one pending offer at a time (`schema.prisma:675`); one request at a time | violated |
| `WalletRace` | three transactions at once, overtaking each other: types and commission range, only commission overdraws, drift only where an update was lost, payouts covered elsewhere | holds |
| `SessionsRace` | two requests at once, one account of each role, three tokens, one code: single use, rotation, logout and deletion are final | holds |
| `AccountsRace` | two requests at once, two phones, two codes; one driver through every stage beside an operator, or two drivers and their codes: rows agree, checks secure what they should, `Application` | holds |
| `Notifications` | two messages with one retry, two pushes, one news, two chat messages: rows tell the truth, devices stay reachable, audience, threads; a queued message settles | holds |
| `Fares` | two requests at once on settings, banners, rings and orders, two batches of pings: settings serve, one tariff, the promised bill, the true road | holds |
| `MonthsRace` | two syncs of a month, two trips of one or two drivers closed by two requests at once; three drivers' boards; two editors: settled for good, one board, edits add up | holds |

Properties of the last five runs are conjunctions of named parts, each stated with its
comment where it is defined: for example `EndedForGood` is `RotatedOut`, `LogoutIsFinal` and
`DeletedLeavesNothing`; `OutcomeIsTrue` is `SecondCopyNeedsDoubt`, `OkMeansAccepted`,
`FailedMeansNotArrived` and `GivenUpForCause`. `MCNotifications`, `MCFares` and `MCMonths` hold
components that share no state; `part` chooses one of them at the start and the rest stay
at rest, so a run checks the sum of their states and not the product.

What holds one request at a time (`DispatchSerial`, `DispatchSerialCrash`) is what the handlers
were written for; the race runs show which of it survives interleaving.
`OfferedMeansPending` is not asked under crashes: a request that dies between
closing a row and freeing its driver, or the other way round, breaks it.
`ChargedExactlyOnce` adds nothing there to `LifecycleImplemented`.

### Disagreements

Two runs are expected to end in a violation; `PROJECT.json` describes both findings.

* `CancelOverComplete`: a handler checks a row and later writes it by id, with nothing in between to hold it.
* `SecondOffer` (`SinglePendingPerDriver`, `schema.prisma:675`: one pending offer at a time). No race is
  needed: a driver with a pending offer goes offline and online, reads ONLINE_IDLE, and the next
  broadcast offers it a second order.

Two more statements of the repository have a definition here and no run, because the code violates them:

* `BroadcastOnlyFromCreated` in `Dispatch` (`dispatch.service.ts:169`): of two first broadcasts the slower one
  puts an order accepted meanwhile back to BROADCASTED. `ClaimImplemented` shows it stays won.
* `NoDrift` in `Wallet` with two slots (`ledger.service.ts:123`): two transactions that read the same
  balance lose one change from it, while both ledger rows stay. `DriftNeedsLostUpdate` shows that nothing
  else makes them differ, and `SerialNoDrift` proves `NoDrift` for one transaction at a time.

The same shape gives the disagreements a property excludes by name: two refreshes of one token at once
give two sessions (`raced`), a rejection over an approval leaves an active rejected account, two
patches of the settings lose one, a push clears a token registered meanwhile, a driver who moves marks news of its
new zone read under the old one, a month's row stays when its last trip is cancelled. The entries under "hazards" in
`PROJECT.json` say for each such case which history variable excludes it and what is still checked. Two of them stay outside the
properties altogether: a late SENT report over DELIVERED, and a trip that is cancelled over its
completion, in `Board` and `Champions` (there completed trips only grow in number).

### Bounds

Every race in dispatch is between two handlers over one order and at most
two drivers (the winner and another), so the race runs have two slots, one order, two
drivers and two offers, enough for a re-broadcast to the same driver or an offer to
both. Two orders are needed for a driver to hold two offers and for one order to take a
driver from another; that is the serial run, with three offers so that an order can be
broadcast again while the other is open. The wallet has one driver, since no step reads
another's, and three slots: one transaction overtakes another while a third has yet to read. `Bound` leaves room for a
top-up, a payout and a completion on each other; rates include one below 0 and one above 10000, fares a
negative one.

Elsewhere, too, two requests at once are what the code can go wrong with: a read and a write with
another request's write in between. Three tokens are a login, a refresh of it and a second
successor; two phones and two codes let two people want the same and one have another. One retry
is a first and a last attempt. Two files fill a list of `MaxBanners`, and a name repeated or patched in fills it with
fewer. One news row is edited, re-addressed and deleted under a reader as often as wanted; `read` and `addressed` relate
one row to one driver. Two trips of one or two drivers and two requests on them give a month a completion, a second one and a
cancellation over it; `MaxDue = 0` starts no request on a trip already charged, though those in flight go on (the proof has
no such bound). Two starting
rings and two created ones give gaps, overlaps and a fallback; three stored pings are two
segments, one of which a late ping splits. Three drivers tie, lead and trail on a board
paged one line at a time. Small amounts (`MaxFee`, `MaxBonus`, `TripXp`, ...) are enough where code
only copies, adds or compares them. Symmetric sets are request names and ids no definition orders.

### Deadlock and fairness

The dispatch and wallet runs check for deadlock. The others, `SessionsRace` to `MonthsRace`, set `CHECK_DEADLOCK FALSE`:
with every id, edit or tick of an instance used up nothing is left to do.

Fairness is assumed in `Sms` only, for the one liveness property: `SmsFairness` is weak
fairness of the steps of a message's own request. A `fetch` settles (the http mode aborts it, and
Node's own time limits end any other), a retry's timer fires, and the event loop resumes the request. Nothing
is assumed of the provider, which may refuse or lose every attempt, or of the reports. A process that dies ends
the request; `QueuedIsSettled` exempts such messages, for no handler takes them up again. No
fairness is assumed of dispatch: no timer expires offers, and what happens depends on whether people call.

## 4. Proofs

Every invariant, action property and refinement that the passing runs check is stated by a
theorem of its specification; the run shows it on a small instance, the theorem for
every value of the constants. The assumptions are the named `ASSUME`s of the modules and
TLC evaluates each of them on a run. They say that a value for "none" (`None`, `NULL`,
`NoValue`, `Absent`, `Nobody`, `Nowhere`) is not an id or a number; that drivers, operators and
administrators are different accounts; that bounds are natural numbers; that a new
profile has rings (`StartingAssumption`); that the environment's default settings are consistent; that
tiers are numbered from 1 and the first is free; that there are finitely many drivers on a board;
and that no car drives 400 m/s. Hypotheses of single theorems are written in them: one slot
(`Slots = {only}`), or no request that dies half way (`"abort" \notin Handlers`).

Each theorem rests on an inductive invariant, which adds to the property what each request in flight
relies on. The pattern is the same everywhere: a handler reads, waits and writes; what
it is about to write is right if what it read is still so; that is so as long as no second request
is about the same row. The history variables that limit the properties (`raced`, `collided`, ...)
are what makes "no second request" a statement about the state.

### `DispatchProofs`: any orders, drivers, offer rows, handlers, any number of requests

* `Inductive`, `TypeCorrect`: `Spec => []TypeOK`.
* `ClaimAlwaysAgrees`: offer, order and trip agree on the winner.
* `ClaimRefined`: `Dispatch` implements `OrderClaim`.
* `ChargedOnlyAfterPickup`: no charge for a trip that did not reach the pickup, none missing for
  a completed one.

`ClaimAgrees` is not inductive: a request that is about to write carries what it read a while
ago. `IInv` adds, for each request, what the rest of it relies on and no other request can
undo (`RequestOK`): where it returns to (`Routed`), that rows it holds were in use
(`RowsRead`; a row in use keeps its order and driver for good), that the offer to
be accepted is of this order and driver (`RowAtHand`), and that a request that
writes a trip is about a won order (`TripOfWonOrder`; an order that has a winner keeps one).
`Keeps` states these two permanent facts; `RequestKept` shows that a step that keeps
them keeps every request in order, so that each action has to be examined only
for the rows it writes and its own request. `TripFree` at `AcceptCommit`, the unique index, is
what makes the winner unique. For `ChargedOnlyAfterPickup` the invariant `PickedUp` is added:
an order with its passenger on board, or a request about to start or complete a
trip, belongs to a trip that reached the pickup, and no cancellation writes COMPLETED. For the refinement,
a step either stutters (`Unseen`), offers (`BroadcastInsert`), wins
(`AcceptCommit`) or charges (`CompleteCommit`).

### `SerialProofs`: the same with one request at a time

* `TripsFollow`, `ChargedOnce`, `OffersWithdrawn`, `BusyAreDriving`: the trip follows the order, a commission per
  completed order, no offers of taken orders, busy means on a trip. Offers run out, drivers are suspended
  and requests die at any statement meanwhile.
* `LifecycleRefined`: `Dispatch` implements `OrderLifecycle`: an order's status only moves along its life
  cycle.
* `WaitingForAnOffer`: a driver marked ORDER_OFFERED has an offer, when no request dies half way. One that does
  breaks it, so the hypothesis cannot be dropped.

With one slot what a request has read is still so when it writes: `Holds` says what that is for each
statement (which status `broadcastOrder` found, which pending offers `acceptOrder` and the cancellations
collected, what the trip handlers checked), `Fits` what the tables then keep to. `Calm` steps leave both alone.
`OffersHold` follows ORDER_OFFERED: from `BroadcastInsert`, before the mark, to the statements that
close the row and then release the driver (`Releasing`).

### `WalletProofs`: any drivers, integer sums, fares and rates

* `SplitParts`: commission and net of a fare are not negative and add up to it.
* `TypeCorrect`, `OverdrawnByCommission`: types; only a commission overdraws, with any number of transactions
  at once. The strengthening says of each request that it was checked against the balance it read (`Funded`).
* `DriftOnlyByLostUpdate`, `PayoutsStayCovered`: with any number of transactions at once, balance and ledger
  differ, and a payout may exceed the ledger, only for drivers with a lost update. The strengthening is that a
  transaction that is not stale has read the balance there is (`Fresh`).
* `SerialNoDrift`: with one slot nothing is ever stale, so that there is no drift at all.

### `SessionsProofs`: any accounts, tokens, codes and number of requests

* `TypeCorrect`, `UsedOnce`, `EndsForGood`: a refresh token or code gives at most one session unless two requests read
  it before either wrote; what is rotated out, logged out or deleted stays so.

`IInv` says that what a session came from is spent and what is spent stays spent (`SuccessorsOfSpent`), that a
credential nobody raced for is held by one request at most and has no successor while it is held (`Unraced`), and that
a token logged out is in nobody's hands (`ClosedForGood`). `QuietStep` and `BeginStep` carry it over the
steps that issue nothing, so that only `Issue` and the revocations are looked at one by one.

### `AccountsProofs`: any drivers, operators, phones, codes and number of requests

* `TypeCorrect`, `RowsGoTogether`: whatever races, phones and codes are distinct (`PhonesDistinct`, `CodesDistinct`), an
  approved driver has a code unless it came without one, and a user without a driver is a registration under way or one that died.
* `SoundUnlessContested`: unless two requests worked on a driver at once, only an approved driver's account is active,
  what a reviewer sees is complete but for what an administrator took away, and no driver is deleted with an open trip.
  That what is approved was submitted, or created approved, is `KeepsToStages`.
* `KeepsToStages`: `Accounts` implements `Application` under the mapping `Lifecycle`.

A request about an unraced driver is the only one, and what it checked when it began is still so (`Fits`, `Unraced`);
a driver without its second row is in the hands of the registration that is writing it, or that registration died
(`DriverOK`).

### `NotificationProofs`: any messages, retries, drivers, devices, news, channels, any clock

* `NotificationsTyped`, `SmsOutcome`, `PushReaches`, `NewsReachesAudience`, `ChatTells`: one theorem for each
  property of the run.

`SmsIInv` counts: every attempt was spent on a fault or on a revoked bearer, one to come included
(`AttemptOK`); copies at the provider, its verdicts and the row go together (`CopyOK`, `FateOK`). `PushIInv`: a call in flight has
the device's token or none, unless the app registered meanwhile. `NewsIInv`: who is still to be told
belongs to the audience, and what a `markRead` is about to insert was addressed to its driver, or asked for while it moved. `ChatIInv`: a message with a time
stamp that was neither listed nor marked is newer than the last reading.

### `FaresProofs`: any settings, caps, files, rings, distances, roads and number of requests

* `SettingsRowServes`: thresholds are in order, patches add up unless they overlap, the list of banners is not too long, and
  every banner on it since its upload is on disk unless requests overlapped or died. A body about to be written is validated, and as long as nobody overlaps it is the row with
  the fields of its request (`PatchOK`); every name of the list, or of one a request is about to write, is `foreign` or has a file nobody is about to unlink (`Sound`, `UploadOK`).
* `OneTariff`, `BilledAsQuoted`: a zone can always quote, an order is quoted by the ring its pick-up is in,
  and billed by the quote it was created with. `PricingIInv` adds to rings and profile what a request that creates
  or deletes has seen (`PricingCallOK`). The order of rings is a sort by rank; that one exists is proved
  from the cardinality of the rows.
* `RoadIsTold`: the roster shows the newest stored position as long as batches come in order, and the meter bills no more road
  than was travelled, whatever comes. The second holds in every state: a sorted trip is a sequence of points in
  time, and the distance between two of them is at most the road between them (`RoadGrows`, `MeterOK`). For the first,
  `TrackingIInv` says that in order one batch is in flight at most, that its last accepted ping is the newest
  (`AcceptedOK`: a loop over the batch), and that one zone at most remembers the driver.

### `MonthsProofs`: any drivers, trips, months, tiers, page size and number of requests

* `SettlementsHold`: a month once settled says what its trips owe and what was confirmed is not lowered, for drivers who
  lost no completed trip of it; what was confirmed stays confirmed for all. `SettlementIInv`: for such drivers
  rows and items still to write are never above the sums (`RowsBelow`, `ItemsBelow`), the sums of a
  period are final once a sync has read all of it (`FinalStays`), and until two syncs of a period overlap rows are
  written in the order they were read (`RowsRise`).
* `ChampionsAddUp`: edits of month, bonuses and XP are lost only to each other (`MonthIInv`, `BonusIInv`), and the base of an XP
  override lies between what the driver had gained when it began and ended (`XpIInv`).
* `BoardsAreOne`: the three computations agree and a reader of an unchanged board gets each line once and in its place.
  That the ranking is a strict order of the lines and has one sequence is proved first; `BoardIInv` says that the reader has
  the first `offset` lines of it (`ReaderOK`).

### How the proofs shaped the models

The backends cannot use the community modules' folds, which take an operator as an argument, nor the library's
induction theorems. Sums and loops in `Settlement`, `Champions`, `Pricing`, `Board` and `Tracking` are therefore recursive functions or
their own choice of a sorting permutation, and what they compute is proved by the least number at
which it would be wrong (`LeastNatural`, from `WFMin` and `NatLessThanWellFounded`). Some `@@` became records. None of this
changes what TLC explores. The one fold left is `Events` in `Board`, a bound whose value no proof needs.

### Only model-checked

`QueuedIsSettled`, the one liveness property: liveness and ENABLED are out of the prover's reach. The definitions
of section 3, *Disagreements*, are not theorems: the code violates them.


## 5. Not modelled

* The gateways, controllers, configuration, health and seed: no state depends on them.
* In `Sessions`, the development bypass of authentication and the fixed codes of development and pilot: they replace
  checks that `Sessions` models. The drivers that the bypass creates are in `Accounts` (`DevDriver`).
* Completed trips that are cancelled or completed twice, in `Board` and `Champions`: `done` and `gained` only grow there,
  though `Dispatch` and `Settlement` have such trips. Trips are counted anew whenever a board or an XP is read.
* The limit of 80 on the messages a chat list gives, and the memory of more than one process in `Tracking`.
* `PUSH_MODE=log` and templates of messages; the contents of documents, notes and addresses.
* Listings, searches, exports and the audit log: they read, or append what nothing reads.
* Payout destinations and texts of the season: plain overwrites of one field.
* The weekly board and the administrators' XP page, which repeat the monthly board's computation;
  the finance summary, and the two reads of `reconcileDriverBalance`, which change nothing.
* The Redis copy of last known positions, a best-effort mirror that nothing reads.

## 6. Plan

1. Done: every component above with its runs.
2. Done: proofs of every safety property, action property and refinement of the passing runs.
3. Left: the exact limits of the properties that exclude a race by name. Each says "unless two requests overlapped";
   a stronger one would say what can then be lost at most (for patches of the settings: one of the two bodies and nothing else).
4. Left: the parts `PROJECT.json` calls partly modelled ("components", each with what is left out), above all the weekly
   board and the reads of the finance summary; in `Board` and `Champions`, trips that stop being completed.
