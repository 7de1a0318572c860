# Verification of raddigo-backend

TLA+ models of the backend of a scrap-pickup service: customers ask a scrap
partner for a time slot, the partner accepts, and a completion code the customer
reads out confirms the pickup. The program is written in Go (Gin handlers, services,
GORM repositories over PostgreSQL); it has no tests. Everything here is translated
from `src/`; file names below are relative to `src/internal/`.

## 1. The system

A request is served by one goroutine from handler to repository; many run at once.
They share nothing in memory: what they share is PostgreSQL at its default isolation
level, READ COMMITTED. A repository method is one statement or one
`db.Transaction`; services string several of them together without a transaction
around them. Besides requests there is one scheduler goroutine per process (pickup
reminders), short-lived goroutines that send pushes, and a synchronous SMTP mailer.
When a client hangs up its request context is cancelled and the next statement fails.

| component | code | state | operations | what is hard | what makes it correct |
|---|---|---|---|---|---|
| Booking | `service/booking_service.go`, `repository/booking_repository.go` | `bookings` (status, slot, completion code), `booking_status_logs`; row locks; the partial unique index on accepted bookings | Create, Update, Accept, Reject, Cancel, CancelByPartner, SendOTP, VerifyOTP, Complete | races for a slot, deadlocks of accepts, checks outside the transaction, failures after the commit | one accepted booking per slot; a log that explains the status; no completion without the outstanding code; every call ends |
| Notifications | `service/notification_service.go` | `notifications` | one per transition, after its commit; MarkRead | order, loss | at most one of each kind, only for what happened |
| Subscription | `service/subscription_service.go`, `repository/subscription_repository.go` | `partner_subscriptions`, `subscription_transactions`, `promo_codes.redeemed` | Subscribe, Upgrade | checks before the transaction, the promo limit, expiry | bills explain the plan; redemptions match bills; bounded overrun |
| Reminder scheduler | `service/reminder_scheduler.go` | `bookings.reminder_sent_at`; the ticker | tick: query windows, claim, notify | several processes, restarts, slow ticks, midnight | at most once, on time, never missed |
| Time slots | `service/partner_service.go` (buildTimeSlots), `validation/booking_validation.go` | none | cut a working window into slots | boundaries, time zones | slots cover the window without overlap |
| User accounts | `service/user_service.go`, `repository/user_repository.go` | `users`: verification and reset codes, reset token, password, device token | Register, VerifyEmail, ForgotPassword, VerifyForgotPasswordOTP, ResetPassword, ChangePassword, UpdateProfile | codes and tokens read, compared and replaced in separate statements; a mail after the write that may fail; no second verification code | one account per address; verified only by the code in the mail, and that code works until it expires; a used code is stored nowhere |
| Partner accounts | `service/partner_service.go`, `repository/partner_repository.go` | `partners`, store address, service area | the same, plus working hours and polygon | partial updates checked against stale rows; the area replaced by several statements | start before end; the area is that of the stored polygon; one store address |
| Authentication | `service/auth_service.go`, `auth/token.go`, `middleware/` | none (a pair of signed tokens per sign-in) | LoginUser, LoginPartner, Refresh, Authenticate | a pair outlives changes of its account | sign-in only to a verified account |
| Addresses | `service/address_service.go`, `repository/address_repository.go` | `addresses`, of customers and stores | Create, Update, Delete; upserts by profile updates | a row read, then saved as a whole, by UPDATE or else INSERT | a deleted address stays deleted unless an Update holds it; nobody writes another's |
| Ratings | `service/rating_service.go`, `repository/rating_repository.go` | `ratings` | upsert on a unique key, two lists | - | one rating per pair and direction |
| Home feed | `service/home_service.go` | none | ForUser, ForPartner | several queries without a transaction | no accepted booking falls between two queries |
| Pagination | `dto/pagination.go` and every List | none (the client's page number) | NormalizePageParams, NewPagination; COUNT, then SELECT with OFFSET | the list changes between pages and between the two statements; page sizes at the limits | a reader misses or repeats an entry only for a reason |
| Validation, handlers, mailer, wiring | the rest | none | formats | - | - |

Interaction: the routes (`server/router.go`) decide who may call what; the services
call the repositories; `BookingService` calls `NotificationService` after each commit
and the mailer for completion codes; `ReminderScheduler` reads bookings, claims
`reminder_sent_at` and calls `NotificationService`; login asks `SubscriptionService`
whether a partner is subscribed; `postgres.go` creates the index the booking
repository relies on. The hazards of the code, each at its line and with the
properties that cover it, are listed in `PROJECT.json`.

## 2. Modules

| module | models | extends |
|---|---|---|
| `BookingContract` | what bookings promise: life cycle, slots, completion code; no requests, no locks | |
| `BookingLife` | the life of one booking as far as reminders depend on it | |
| `Booking` | the nine operations, statement by statement | implements `BookingContract` and, for each booking, `BookingLife` |
| `MCBooking` | symmetry for TLC | `Booking` |
| `BookingProofs` | theorems | `Booking` |
| `SubscriptionContract` | what subscriptions promise: a ledger of plans, bills and redemptions; no requests, no locks | |
| `Subscription`, `MCSubscription`, `SubscriptionProofs` | Subscribe and Upgrade | implements `SubscriptionContract` |
| `ReminderContract` | what reminders promise: one claim in time, one reminder; no schedulers, no windows | |
| `Reminder`, `MCReminder`, `ReminderProofs` | the schedulers over the life of bookings | implements `ReminderContract`; its bookings live as in `BookingLife` |
| `TimeSlots` | the slots of a working window, with the loop and without | |
| `PartnerProfile` | concurrent updates of a partner's working hours and service area | |
| `Schedule`, `MCSchedule`, `ScheduleProofs` | bookings of slots while the working hours change | `PartnerProfile`, `TimeSlots` |
| `AccountContract` | what accounts promise: by which chain of mails a caller comes to act for one; no requests, no columns, no clock | |
| `Account`, `MCAccount`, `AccountProofs` | registration, verification, passwords and sign-in of customers and partners | implements `AccountContract` |
| `Address`, `AddressProofs` | the table of addresses under its calls | |
| `Paging`, `PagingProofs` | a client that reads a list page by page while it changes; lemmas about pages of any list | |
| `Feed`, `MCFeed`, `FeedProofs` | the lists and the partner's home page, read while others write | `Address`, `Paging` |

### How a model corresponds to the code

* A *request slot* `r \in Requests` stands for a goroutine: it serves one call after
  another, so a bound on `Requests` bounds the calls in flight, not their number.
  `pc[r]` is the next statement, `call[r]` holds the arguments and local variables.
* A step is one SQL statement. The last statements of a transaction and its COMMIT
  are one step: their rows are locked or not yet visible, so no other request can
  tell the difference. That a transaction is all or nothing is PostgreSQL's part and
  assumed; that the code puts the statements that belong together into one is what
  the mutants of `Abandon` break (`HalfCancelled`, `HalfAccepted`, `HalfUpgraded`).
* `SELECT ... FOR UPDATE` waits for `lock[b]`, then reads the newest version of the
  row. It chooses its row by its snapshot, so a row of another owner is neither
  found nor waited for (`Load`), and Upgrade picks the newest subscription before it
  waits for it (`UpgradeChoose`, `UpgradeLoad`).
* The UPDATE that rejects the rivals of an accepted booking visits the rows of its
  snapshot one at a time, waits for each, and evaluates its WHERE clause again on
  the newest version (`AcceptCompete`); a row that no longer matches stays locked.
  The snapshot is taken in `AcceptMark`, the statement before: nothing the request
  does in between depends on it and rows that join later are not in either.
* The unique index is the guard of `AcceptMark`: a committed accepted booking of the
  slot is an error, an uncommitted one is waited for (`Claimants`).
* A failed statement, a cancelled context and a crash look alike to the database:
  the transaction rolls back, locks go. `Abandon` does it at any statement, the mail
  and the notification included. Rows survive a restart, so a restart is every
  request abandoned.
* A code is generated, and the clock read, before the transaction (`Begin`), so both
  may be stale when the row is locked. Codes can repeat.
* Ids are fresh: `BeginCreate` and `BeginSubscribe` take an id nobody uses.
* A notification is a step of its own after the commit; which of them were stored
  is counted in `notices`. The mail with a code is a step too (`SendOTPMail`).
* `Subscription`: amounts are left out, since nothing reads them back, and so is the
  status, since no code ever changes it from active. Promo codes are constants with
  a plan, a validity and a limit. The time in a row is some time between the promo
  check and the insert.
* `Reminder`: time in minutes; the ticker has room for one tick and drops the rest;
  a window is split by date as in `splitByDate`; the life of a booking is that of
  `BookingLife`, whose steps are commits of `Booking`: it may be moved until it is
  accepted (`Move`, the UPDATE of Update). `since` remembers when it was accepted, or
  that it was not. A
  scheduler in `Slow` may take any time over a tick; the clock waits for the others.

* `TimeSlots`: times of day are minutes; the slot duration may be any length, so the
  loop counts ticks, `Grain` to a minute, and formatting drops what is below it.
* `PartnerProfile`: one partner, since no statement touches the rows of two; names
  and the store address, which depend on nothing, are left out. Each update is
  compared with the hours its request read (`UpdateProfile`) and stored by another
  statement (`StoreHours`). The DELETE of a new service area finds the vertices that
  are committed when it starts (`ScanVertices`), waits for transactions that have
  deleted some of them and deletes those still there (`DeleteVertices`); the new
  vertices are seen from the commit on (`DeriveArea`).
* `Schedule`: one partner and one date. A booking's accept is one step here: what
  it consists of is the subject of `Booking`. A slot remembers the opening time it was
  checked against (`opened`), which the code does not store; only a property reads it.
* `Account`: an account is its e-mail address. The two tables have the same columns
  and calls, so the same steps serve both (`UserStatement`, `PartnerCreate`,
  `PartnerUpdate`, `PartnerPassword`). Codes and tokens are random in the code: here
  each is fresh and nobody guesses one; a caller presents what a mail or a response
  told it (`Known`), used or not. What a call reads before its statement (code,
  expiry, whether the account exists) is the guard of the action that starts it; the
  statement itself looks at nothing, as in the code. The pairs of tokens are
  nowhere stored, so of all those of an account only the last expiry is kept.
* `Address`: `Save` is GORM's: an UPDATE of the row with that id and, if there is
  none, an INSERT that overwrites on conflict (`Save`, `SaveInsert`). The columns that
  a caller gives are one value, a place. An id is the database's and never reused.
* `Paging`: `Count` and `Find` are the two statements of a page; entries of the same
  rank come in any order, another one each time. `left`, `came`, `late` are the
  excuses of a reader that misses or repeats entries.
* `Feed`: one list per behaviour. Addresses change as in `Address`; entries of other
  lists in one step per call, since only membership and rank matter. The home page is
  the sequence of `Queries`, each on the bookings of its moment.

Operators named `Faulty...` are plausible bugs, kept next to the right definition;
putting one in its place makes TLC find the property it is listed with
(`PROJECT.json`, mutants) violated.

## 3. Model checking

Passing runs (`tlc -config <cfg> <module>`):

| run | instance | question and answer |
|---|---|---|
| `BookingSlots` | 3 requests, 3 bookings, 2 slots; Create, Accept, Update, CancelByPartner | Can two accepted bookings share a slot? No (`SlotExclusive`). Do locks, re-evaluated rows and the index amount to the contract? Yes (`ContractSpec`). Three bookings let one be moved in while two accepts race. |
| `BookingLife` | 2 requests, 2 bookings of a slot, all ways to end a booking early, failures, fairness, no symmetry | The log explains the status (`AuditTrail`), or the booking was turned down for another one of its slot that was accepted, never for an accept that failed (`LostToAnother`); nobody is told twice, of what did not happen, or of two endings (`NoticesMatchHistory`); waits end in a call that can go on or in a victim of the deadlock detector (`NeverStuck`), and every call returns (`CallsReturn`), through lock waits, index waits and deadlocks. |
| `BookingHandoff` | 1 booking, 2 customers, 2 codes, a clock, failures | A confirmation is for the outstanding code, given in time, and precedes completion (`HandoffConfirmed`, `ContractSpec`, `TypeOK`). Codes expire after one tick and the clock runs to 4: both sides of the limit occur, with calls that wait across it. |
| `SubscriptionRace` | 2 requests, 2 partners, 3 subscriptions, a code for one redemption of an annual plan, failures | The limit is overrun by at most one (`PromoOverrun`), redemptions equal discounted bills (`RedemptionsMatchBills`), bills explain plans (`BillsTellPlan`, `TypeOK`). Each statement is a step of the ledger or none (`ContractSpec`): a plan, its bill and its redemption come together, and the code that lowered the bill was valid for that plan. |
| `ReminderWindows` | 1 booking number (reused), 2 schedulers, one prompt and one slow, that stop and start; slots before and at midnight and later; interval 2, two failing statements | No booking is reminded of twice (`RemindedOnce`, `TypeOK`) or before its window, nor for another day (`NeverEarly`), nor without ever having been accepted, or before it is claimed (`ContractSpec`), however it is moved and by whichever old list; one accepted before its window is claimed before the window ends if the prompt scheduler was up since it opened and at most one statement has failed (`NeverMissed`); a second failure is allowed so that the states after it are explored as well. |
| `ScheduleSlots` | 2 bookings, hours between minute 0 and 4, slots of a minute and a half, 3 polygons, 2 profile updates at a time before the first booking and one after it, failures | Pickups a partner has accepted overlap only if the opening time moved by part of a slot between their requests (`DisjointOnGrid`, `TypeOK`). Opening times that differ by whole slots (0 and 3) and not (0 and 1) occur, and slots cut short. Slots tile whatever hours the updates leave; two that overlap leave hours that end before they start, which offer none (`SlotsTileHours`). The area that searches use is that of stored vertices while two calls replace it at a time, with a polygon for each and one to begin with (`AreaKeepsVertices`). |
| `AccountCodes` | one account at a time, of a customer or a partner, 2 requests, 4 codes and tokens, limits of 1 and 2 ticks, a clock to 3, failures of statements and mails | Used codes are stored nowhere (`SpentSecretsGone`); the code in the mail is the one stored however many registrations compete (`MailedCodeVerifies`) and the only one that verifies (`VerifiedByMail`, `TypeOK`); an account whose code was not mailed or has expired is lost for good, with its address (`StrandedForever`). Nobody signs in or sets a password but by the chain of mails, and no step lends a code of another purpose or account, or one that was lost (`ContractSpec`). |
| `Feed` | 7 lists in turn, 3 entries or rows, page sizes asked 0, 1 and 5 of at most 2, ties, 2 requests on addresses, failures | A reader of all pages misses an entry only if one left, moved or tied, or came in between the last COUNT and its SELECT (`NothingSkipped`), and sees one twice only if one came, moved or tied (`NothingTwice`); a store has one address (`OneStoreAddress`); a deleted address that no Update holds stays deleted (`GoneForGood`); the home page loses no pickup between its queries (`HomeLosesNothing`, `TypeOK`). The constraint keeps partners' addresses out while a list is read and gives up readers with every excuse. |

Why the bounds are enough: the code compares bookings pairwise (same slot or not),
locks rows one by one and keeps no count of requests; a deadlock of two accepts needs
two requests, an interference with it a third. Clocks need one tick before and one
after each limit. The theorems of section 4 remove the bounds for most of these.

`StrandedForever` and `SpentSecretsGone` say also what the code does not promise: there
is no way to have a verification code sent again (who got tokens from the registration keeps
that session for as long as it is refreshed in time, and cannot sign in again after it),
and calls that have looked at a code
before another one used it up go on with it.

`ScheduleSlots` runs a part of `Spec` (`SpecProfileFirst`): updates overlap until the first
booking begins, except one that changes hours and area at once; after that one update at a
time changes the hours and none the area, which no booking reads. Updates that overlap while
bookings are made are left to the theorems. `AccountCodes` has one account, so that no call
could take one account's code for another's is left to `ContractKept` of `AccountProofs`.
In `Feed` the INSERT of UpsertStoreAddress is never due: registration creates the store's
address in the partner's own transaction and `OneStoreAddress` says that nothing takes it
away.

Fairness (`BookingLife`, `FairSpec`): strong fairness of each request's next statement,
because PostgreSQL queues the waiters of a lock and grants it in order, and weak
fairness of the abort of a deadlock, because its detector runs after
`deadlock_timeout`. Nothing makes clients call, and no failure is ever due: arrivals and
failures are not fair, so no call returns merely because it may fail.

Disagreements between comments and code, each with a run that finds it (details in
`PROJECT.json`, findings):

| run | violated | in short |
|---|---|---|
| `BookingLogGap` | `LogIsComplete` | rivals rejected in bulk get no log row (and no notification) |
| `SubscriptionTwice` | `OneActive` | two Subscribe calls, two active subscriptions |
| `SubscriptionLapsed` | `RefusedWhileSubscribed` | an ended subscription still blocks a new one |
| `ScheduleVertices` | `AreaMatchesVertices` | two replacements of the service area at a time leave the vertices of both polygons |

## 4. Proofs

TLAPS proves the following for every value of the constants, from the named assumptions of
the modules (null is no id; the clock bounds are numbers; finitely many requests in
`Subscription`; finitely many rows in `Feed`; no address is both a customer's and a
partner's; positive lead, interval and day in `Reminder`; positive duration and grain, and
hours to register with, in `Schedule`).

`BookingProofs`: `TypeCorrectness`, `SlotExclusivity`, `HandoffSafety`, `AuditSafety`,
`NoticeSafety`, `LoserSafety`, `WaitSafety`, `CallsAdvance`, and `ContractKept`: `Booking` implements
`BookingContract`. None of the invariants is inductive alone, since a store step does not
look at the row again: it relies on what its transaction read under the lock. `IInv` says
so: `CallOK` types the call and ties it to a row that exists; `HeldOK`: between its load
and its commit a request owns the lock of its row, and what it checked still holds;
`LosersOK`: the rows an accept turns down are locked by it, pending and on its slot;
`IndexOK`: past the unique index no other accept is on the same slot and no committed
booking takes it. Preservation is shown in two halves: what a step does to the *other*
requests (`OthersInv`, from locks and from what a step can change) and to its own
(`OwnCallInv`, `OwnIndexInv`). The refinement maps each committing statement to one step
of the contract and every other to a stutter (`ContractStep`).

*Notifications.* A call that has committed owes a notification until it sends it or fails.
`NoticesOK` counts the sent and the owed together: each kind at most once, each only if it
happened (`Happened` reads it off the status and the log), and of the endings one. It
needs `AuditTrail`, since a booking accepts once in its life.

*Losers.* A booking that was accepted never moves again (`WinnerKept`: by the audit trail it
is not pending any more, and only pending ones move), so the slot two bookings shared when
one was turned down for the other is shared for good; and the rivals of a commit are on its
slot at that moment by `LosersOK`.

*Waits.* `WaitsOK` is the invariant behind `NeverStuck`: a locked row belongs to an open
transaction, of a call on that row or of an accept that has visited it already (so an
accept never waits for a row of its own); a call stands at statements of its own
operation; finitely many calls are under way. A call that is not ready then waits for
another one under way (`NotReadyWaits`); if none of those it can reach is ready, they are
a closed set of waiting transactions, and a smallest one in it has a victim
(`ClosedHasVictim`, by the well-foundedness of strict inclusion on finite sets).
`CallsAdvance` is the other half of termination: the statements of a call follow each
other in an order without cycles (`Follows`), and the one loop, over the rivals of an
accepted booking, has finitely many left and fewer each time. What remains of
`CallsReturn` is that a call that can go on does: fairness.

`SubscriptionProofs`: `TypeCorrectness`, `BillingSafety`, `PromoSafety` and
`RedemptionSafety`. The invariant adds that a generated id is nobody else's and that the
plan read under the lock still stands. For the promo limit the proof counts the calls that
hold a code between check and redemption: redeemed + holders never exceeds limit +
|Requests| - 1; the check is the only step that adds a holder and it adds one only below
the limit. For the redemptions it counts the bills a code has lowered (`BillsCounted`): a
commit lowers one bill more and counts one redemption more, in one transaction. `ContractKept`: `Subscription` implements
`SubscriptionContract`. Only a commit is a step of the ledger (`Charges`); that the code it
redeems was valid for the plan it is redeemed for was checked statements earlier, and
`HonouredOK` carries that along: in an upgrade the plan is fixed, in a purchase it is an
argument of the call, and validity at some time no later than the row's stays true. The
ledger's `Overrun` is |Requests| - 1: the instance supplies it and `PromoSafety` is why it
is enough.

`ReminderProofs`: `TypeCorrectness`, `ReminderSafety`, `EarlySafety`, `MissSafety`,
`ContractKept` and `LifeAssumed`. A claim has one holder, and while it has one nothing has
been sent (`ClaimOK`). For `NeverEarly`: what a scheduler still has to list or to claim
lies in windows that are open already (`EarlyOK`), which holds of old lists too because
time only passes and because what is on a list has been accepted (`AcceptedOK`), so nobody
can move it any more. The same invariant gives the contract: ClaimReminder looks at
nothing but the claim, so that only accepted bookings are claimed rests on the list, and
that a reminder follows its claim on `ClaimOK`. For
`NeverMissed`: after a window opens two ticks of a scheduler that stays up fall into it,
and the dates it is split into cover it (`SplitCovers`); a booking that is unclaimed after
n of them was failed by n statements (`LostOK`). The theorem has the hypothesis `2 *
Interval <= Day`: splitByDate cuts a window at one midnight, so a window longer than a day
would lose what lies beyond the next. The code's interval is five minutes.

*Bookings and their reminders.* The two models meet in `BookingLife`. `LifeKept` (in
`BookingProofs`): through the statements of all calls, failures included, each booking of
`Booking` takes steps of `BookingLife` or none; that it cannot be moved once it is accepted
is the row lock's doing and comes from `HeldOK`, by way of the contract. `LifeAssumed`: what `Reminder`
lets happen to a booking are exactly the steps of `BookingLife`, so `Reminder` assumes no
less than `Booking` delivers and leaves no such step out; only the number of a booking in a
scheduler's hands is not given to a new booking, as ids are not reused. What one
commit of `Booking` does to several bookings, the rivals an accept turns down, `Reminder`
does one after the other; the rivals are pending, so no scheduler tells the difference.

`ScheduleProofs`: `TypeCorrectness`, `AreaSafety`, `ScheduleSafety` and `TilingSafety`.
The invariant keeps with every slot, stored or asked for, where it came from: it begins at
a multiple of the duration after the opening time it was checked against and is no longer
than the duration (`OnGrid`); and accepted bookings begin at different times. If the
opening times differ by whole slots, both starts lie on one grid, so different starts are
at least a duration apart (`GridDisjoint`). For the area: a DELETE never removes the
vertices that the current area was derived from without its own transaction replacing the
area in the same commit. For the slots: the loop of buildTimeSlots is a recursive function
whose value is `SlotsFrom` in closed form. That the closed form satisfies the recursion is
arithmetic (`LoopStep`); that nothing else does needs induction, which is had without the
library's induction theorems from the least distance to closing time at which two such
functions differ (`Least`, `LoopUnique`). Tiling is arithmetic on the closed form
(`SlotsTile`).

`AccountProofs`: `TypeCorrectness`, `SecretsSafety`, `MailedCode`, `VerifiedSafety`,
`StrandedSafety` and `ContractKept`. The invariant (`SecretsOK`) follows a code or token through its life:
what is stored is stored in one column of one account and in use; what a call has drawn
nobody knows, no other call has drawn, and nobody has stored before this call does; what
was presented to a call is known, and stored, if it still is, where the call will remove
it. `MailOK` adds that the code about to be mailed is the stored one of an account that
was never mailed one, and that a verification code is known through that mail only. Both
are kept because a statement moves on its own code only (`ProceedEffect`). `ContractKept`:
`Account` implements `AccountContract`. The codes and tokens in use are read off the columns
and the calls that were presented with them (`Usable`), since a call may go on with one that
is stored no more. The heart of the proof is that there is one way into that set, the mail
or the response that hands the code or token out (`ArriveHeld`, `ProceedHeld`): a statement
stores under its own kind and account (`AddressedOK`), and a call is presented only with
what is stored there. `Merit` keeps with every call what entitles it to its next statement:
a verified or just registered account, or a session.

`AddressProofs`, over `Address` alone: `StoreAddress`, `DeletedAddress` and
`CreatedNeverChanges`. A partner's row is never saved by a customer, since ids are not
used twice (`Fits`), and UpsertStoreAddress always finds one. Whatever a call holds in
memory has the creation time of the row it read (`CreatedOK`), so saving it whole keeps
that. `FeedProofs`: every step of `Feed` is a step of `Address` or leaves it alone
(`FeedRefines`), so `OneStoreAddress` and `GoneForGood` carry over; `TypeCorrectness`; and
`HomeSafety`: a booking that is accepted when the next pickup is read is no earlier than
it, keeps its slot, and otherwise is completed by then and counted by the next query.
`HomeOK` is that argument, query by query.

`SkipSafety` and `TwiceSafety` rest on `PagingProofs`, lemmas about a reader of any finite
list sorted by rank. A page is the entries at a range of places (`PageRows`,
`SortedPlaces`). `ReadOK` relates the reader to the list as it is now: without excuse,
what it has seen stands before its offset (`SeenBehind`), what it is owed and has not seen
at it or after (`OwedAhead`), and the total it has counted is that of the list. Entries
that come in push others back only (`PositionGrows`), so they can make a reader see an
entry twice but not miss one; and when the last page has been read nothing is owed
(`PagesSuffice`). `FeedProofs` shows that each list of `Feed` changes as these lemmas ask
(`EntryPages`, `AddressPages`); for addresses that is `CreatedNeverChanges`, since they
are listed by creation.

Every safety property of the passing runs is thus a theorem. `CallsReturn` (liveness under
fairness) is out of the prover's reach and only model-checked; it is also what shows that
the calls `NeverStuck` takes to be ready do go on.

## 5. Not modelled

- Configuration, wiring, HTTP decoding and encoding, uploads, token signing, SMTP and
  push transport: no state, or state of their own. The effect of a mail is a step.
- Checks of formats (`validation/`), and that a slot's date is not past: the calls of the
  models carry valid input.
- Weights, images, free text, amounts, scores and averages: no decision depends on them.
- Names, mobile numbers and profile images of accounts: nothing depends on them.
- The customer's home page and its greeting, the count of unread notifications, ratings
  and subscription on the partner's: single queries whose results are not compared.
- The order in which mails of two calls arrive.

## 6. Plan

Done in order of weight: bookings, subscriptions, reminders, slots and partner
profiles, accounts and sign-in, addresses, pages and the home page. What is left:

1. The statement of ClaimReminder against the row locks of the transactions: it waits for
   them like any UPDATE, which `Reminder` has as time that passes before the claim.
2. The customer's home page.
