# A model of the delivery platform

This directory holds TLA+ modules that model the stateful parts of the food-delivery
backend in `src/backend` (NestJS, Prisma, PostgreSQL, Redis) and of the two clients that keep
state of their own (the web shop's checkout, the customer app's push registration), TLC
configurations that check them on small instances, and proofs of their central properties
that TLAPS checks for every instance. Paths below are relative to the root of the repository; `orders.service.ts`
without a path is `src/backend/src/modules/orders/orders.service.ts`, and so on.

1. [The system](#1-the-system)
2. [Modules](#2-modules)
3. [What the models assume of the platform](#3-what-the-models-assume-of-the-platform)
4. [Runs](#4-runs)
5. [Proofs](#5-proofs)
6. [Disagreements between code and documents](#6-disagreements-between-code-and-documents)
7. [What is not modelled](#7-what-is-not-modelled)
8. [Plan](#8-plan)

## 1. The system

Customers order from restaurants without an account or with a light one, staff of the
restaurant and managers move the order along, and couriers take it from a shared pool. The
four Flutter apps (`src/apps`), the Next.js site (`src/frontend`) and the admin panel are
clients of one HTTP API and two Socket.IO gateways. All state is in PostgreSQL
(`src/backend/prisma/schema.prisma`) and, for login throttling, Redis.

Each request is a chain of awaits in a single-threaded event loop: between any two of them
other requests run, in this process or in another, and no handler takes a lock of its own.
Most handlers are *read, check, write*: one query reads a row, TypeScript checks it, and a
later query or transaction writes. That is where this code is hard, and what the modules
are about.

| Part | State | Operations | Interacts with | What makes it correct |
|---|---|---|---|---|
| Order lifecycle and dispatch: `orders.service.ts` | `orders`, `courier_assignments`, `order_status_history`, courier totals | place, status, request, accept/claim, assign, reassign, remove, finalize | couriers, notifications, loyalty, promo codes | an order and its assignment name one courier; one of several claims wins; a delivery counts once; status follows the published flow; those concerned are told |
| Courier service: `couriers.service.ts` | `couriers`, user activation, location | profile, online/offline, block, decline, inbox | dispatch, sockets | a declined order goes back to the pool; a blocked courier is offline |
| Promo codes: `promo-codes.service.ts` | `promo_codes.usageCount`, `promo_code_usages` | create, edit, remove, validate, apply in the order's transaction | order placement, test-data clean-up | `usageCount` is the number of usage rows; the limit holds; an inactive code gives nothing |
| Business branches: `business-branches.service.ts`, `upsertPrimaryBranch` | `restaurant_branches` | create, update, set primary, delete | order placement (origin of the delivery), zones | one primary branch, always one, never the last active one deleted |
| Restaurant administration: `restaurants.service.ts` | businesses, staff, owners | create, update, approve, clear test data | branches, promo codes, orders | owner accounts and businesses agree; clean-up leaves no dangling counts |
| Loyalty: `loyalty.service.ts` | `customer_loyalty`, `referrals` | award points, reward referral | `updateStatus` on delivery, merges and deletions of accounts | the points are those of the orders delivered; an inviter is rewarded once |
| Customers: `customers.service.ts`, `google-auth`, `account-deletion` | `customers`, deletion requests | register, Google sign-in, complete profile, merge, block, delete | orders, loyalty, devices | no order or identity lost in a merge; a deletion ends, and leaves no order behind |
| Staff login: `auth`, `brute-force.service.ts`, `users.service.ts` | users, Redis counters | login, block, unblock, passwords | every admin endpoint | attempts are counted and forgotten as configured |
| Push devices: `push-delivery.service.ts`, the app's `device_registration_service.dart` | `user_devices`; in the app its session, token and handlers | register, unregister, link a phone, send, drop refused tokens | log-in and log-out, order placement, Firebase | who is logged in is reached, who has logged out is not; a working token is never dropped |
| Notifications | inbox rows, read marks | write, list, mark read | every status change | each is told what concerns him |
| Restaurant hours: `restaurant-schedule.service.ts`, `restaurant-hours.util.ts` | working hours, holidays | set, query | order placement | open exactly outside closing periods, over midnight too |
| Zones and pricing: `delivery-zones.service.ts`, `domain/delivery` | `delivery_zones`, the `delivery_pricing` setting | edit, quote | order placement, the checkout | narrower zones come first; the customer pays what was quoted |
| Cities, settings | `cities`, `settings` | edit | zones, listings | one default city; no field of a setting is lost |
| Catalog: products, categories, banners | rows with a sort order | CRUD | listings | menu order is a permutation; slugs are unique |
| Analytics, audit, storage, health | reports, append-only log | read, append | all | no state that a handler reads back |
| Web shop: `hooks/use-checkout-flow.ts`, `store/cart.ts`, `store/checkout.ts` | the cart, the checkout store, flags of the open page, calls in flight | fill the cart, apply a code, quote, submit | zones, promo codes, order placement | what the button says is what is charged; one cart makes one order |
| Other clients | caches, forms, polling | user interface | API | not modelled |

`PROJECT.json` lists each of these with its status, and under `hazards` each place in the
code where an order of events, a failure or a boundary can go wrong and a test would
hardly reach it, with the property that would notice.

## 2. Modules

| Module | Models | Uses |
|---|---|---|
| `OrderStatuses` | the status enum, `STATUS_FLOW`, the statuses in which a courier may be put on an order | |
| `OrderLifecycle` | the abstract order: status, holder, credit; what a customer or a courier may rely on | `OrderStatuses` |
| `OrderDispatch` | all handlers that change an order, one action per await | `OrderStatuses`; refines `OrderLifecycle` |
| `PromoCodes` | promo accounting inside database transactions | |
| `BusinessBranches` | the branch handlers, one action per query | |
| `CustomerAccounts` | customer rows, the guest orders they own, deletion requests; one action per query | |
| `LoyaltyPoints` | status requests and the handlers a delivery starts, one action per query, beside merges and deletions of accounts | |
| `PushDevices` | the customer app's calls and the `user_devices` rows behind them, with a network that loses and reorders | |
| `OpeningHours` | the working hours, query by query, and the arithmetic over them | |
| `DeliveryPricing` | which zone sets a fee, and the fee: operators without state | |
| `Checkout` | a customer of the web shop from the cart to the placed order, while administrators edit and promo codes begin and run out | `DeliveryPricing` |
| `MCOrderDispatch`, `MCPromoCodes`, `MCBusinessBranches`, `MCCustomerAccounts`, `MCLoyaltyPoints`, `MCPushDevices`, `MCOpeningHours`, `MCCheckout` | symmetry sets, a view and concrete functions for TLC | the above |
| `OrderDispatchProofs`, `PromoCodesProofs`, `BusinessBranchesProofs`, `CustomerAccountsProofs`, `LoyaltyProofs`, `PushDevicesProofs`, `OpeningHoursProofs`, `CheckoutProofs` | theorems and proofs | the above |

Beside a modelled definition stands, where a property needs one, a *mutated form*: the same
code with a plausible bug (a dropped condition, a forgotten update). No specification uses
them; they show that the property notices such a bug.

### OrderDispatch

A request slot `req[r]` holds what the handler served there knows: its operation, its
`phase` (which await comes next), the courier or status it was called with, and `seen`, the
order row as it last read it. The database is `order`, `assignment` and `credits`;
`lastLogged` is the newest history row, `informed` the couriers who believe the order to be
theirs, `announced` whether the pool was told of it. A handler is a chain such as

    ReadForClaim -> SelectForAssign -> WriteAssign | LoseClaim -> Log -> NotifyAssign

where the first step is `acceptOrderAsCourier`'s read and checks, the second the read that
`assignCourier` makes again, the third its transaction (with the guarded `updateMany` of a
pool claim, or the unconditional update of every other path), then `recordStatusChange` and
the notices. Early returns and thrown errors end the slot's request or keep it from
starting. `Fail` ends a handler between any two awaits: a failing query, a restart; the
order it was about is then in `interrupted`, a history variable that no action reads.

`finalizeCourierDelivery` is the pair `ReadForFinalize`, `WriteCredit`; `createGuestOrder` is
`PlaceOrder`, one transaction as far as dispatch is concerned. `NotifyStatus` and its
siblings record who is told; wording and transport are left out. `credits[o][c]` counts how
often order `o` was added to the totals of courier `c`.

`Overlap` says how much may happen at once: with it two slots may serve the same order,
without it a slot takes a request about an order only while no other slot is serving it
(requests about different orders always interleave). Handlers may die in both cases.

### OrderLifecycle

The promise behind the handlers: an order is placed, moves along `STATUS_FLOW`, has a
holder from assignment on, may be released while it is only assigned, and once delivered is
credited once to its holder. `OrderDispatch` implements it (`ImplementsLifecycle`) under the
mapping *status* = `orders.status`, *holder* = `orders.courierId`, *credits* = courier
totals, as long as requests about one order do not overlap; under overlap it does not, and
`dispatch_lifecycle_race` shows how.

### PromoCodes

Here a database transaction is not one step. A slot `tx[s]` reads the code (`ReadCode`, with
`checkPromoEligibility`), updates its row (`Reserve`: waits for the row's lock, then tests
the condition of `updateMany` on the newest row, then holds the lock), and commits
(`CommitOrder`: increment, usage row and order become visible together) or is rolled back
at any point (`Rollback`: refusal, error, transaction timeout, restart). `clear[k]` is a
clean-up (`clearTestData`) of one business: the order ids are read outside the transaction,
the uses counted in it, then rows deleted and counts decremented by what was counted. The
admin's edits are `EditCode`. Discount amounts, dates and minimum amounts do not decide the
accounting: whether they refuse an order is left open.

`ClearsOverlap` says whether two clean-ups of one business may run together. Codes may be
edited at any time: between an order's read and its update too.

### BusinessBranches

No branch handler uses a transaction, so one action is one query. `create` is
`StartCreate -> ClearPrimary | LookForPrimary -> Insert`, `update` and `setPrimary` are
`StartUpdate -> [ClearPrimary] -> WriteUpdate`, `softDelete` is
`StartDelete -> CountActive -> WriteDelete -> FindNext -> Promote`, and
`upsertPrimaryBranch` writes to the branch it read (`PrimaryFirst`), or inserts. `Fail` ends a
handler between two queries and sets `broken`, a history variable; `Overlap` says whether two
requests about the business may be in flight together.

### CustomerAccounts

A customer row is absent, live or dead (`deletedAt`); it has a phone, a Google account and an
e-mail address; the first two are unique, over dead rows too (`Taken`). A request slot is at one `phase`, the
query it makes next. The chains are

    StartRegister -> Register
    FindByGoogle -> [FindByEmail] -> UpdateFromGoogle | CreateFromGoogle
    StartProfile -> FindOther -> [ReadForMerge -> Merge] -> SetPhone
    StartBlock -> Block
    StartOrder -> [AssertCanOrder] -> PlaceOrder
    StartDeletion -> RecordDeletion -> ReadForDelete -> DeleteAccount -> CompleteDeletion

`Merge` and `DeleteAccount` are Prisma transactions and one action each, over customers and
guest orders together; a unique value that is taken rolls them back. `Fail` ends a request
between two queries and sets `broken`. `Overlap` is as in the branches.

### LoyaltyPoints

A slot is a status request: `CheckStatus` reads and checks (`orders.service.ts:457`), and
`Deliver` or `WriteOther` writes later, by id and without a condition (line 500), so that two
requests may both deliver one order, or one take a delivery back. After `Deliver` come the calls
of `onOrderDelivered`: `ReadOrder`, `ReadLoyalty`, `CreateLoyalty`, `AwardPoints`, `CountPrior`,
`ReadReferral`, and the same three again for the inviter, then `PayReward`. `Die` is a call that
fails. `Merge` and `Delete` are the transactions of `customers.service.ts`, seen from the rows
these handlers read; a merge also gives the target orders of guests, those under the source's
phone, and as phones are left out, any of them. `owed` and `paid`
are histories: what the delivered orders promise, and how often an inviter was paid for whom;
`disturbed` says what has run beside a handler, and whether a request has written over a delivery
it had not seen ("stale"); the properties say under which of these they hold.

### PushDevices

`app` is what an installation knows (session, token, the token-refresh handler that is bound),
`call` its HTTP calls in flight, `row` its row of `user_devices`, `push` the messages handed to
Firebase, `rejected` the tokens Firebase refused. `Resume`, `Login`, `Logout`, `SyncGuestPhone` and
`RefreshToken` are the app's; `Register`, `FindDevice`, `ClearTokenOnly`/`ClearDevice`,
`LinkDevicePhone`, `Collect` and `DropRejected` the server's; `Answer` (with `Continue`, what the app
does next), `Lose` and `TimeOut` the network's. A call that has timed out in the app may still
reach the server. `stray` and `undone` are histories: installations whose calls were lost or
crossed since the last clean registration or log-out, for which nothing is promised.

### OpeningHours

`StartEdit` is `setWorkingHours` up to its `deleteMany`, `Insert` the validation, normalisation and
`createMany` that follow, `Die` a restart in between; a refused text also leaves the rows
deleted. `IsOpen`, `OutsideClosedPeriod`, `UntilClosed`, `ClosingSoon`, `Normalize` and `Schedules`
are the functions of `restaurant-hours.util.ts` and `time-format.util.ts`. `asked` is what was
typed last, `wiped` whether the rows have been deleted or mixed since.

### DeliveryPricing and Checkout

`Quote` is `quoteDelivery`: the zones in scope, those that reach the place, the one that comes
first (`Preferred`), its fee, and without zones the tariff of the setting, with the rounding of
each. `Checkout` has the two stores of the browser, which outlive the page; the page that is
open with its flag; and the calls in flight, each with what its closure saw. `AddItem` to
`EditCode` are the customer's; `ApplyPromo`, `RequestQuote` and `SubmitOrder` start a call,
`PromoAnswered`, `QuoteAnswered`, `OrderAnswered` and the `...Fails` end one; `CreateGuestOrder` is the
server's handler; `Edit` moves what the server reads to its next version. The dates and the uses
of a code are abstracted to whether it is `open`, which `CodeTurns` changes at any time. What was
shown and what is ordered are compared through histories (`current`, `quotedFor`, `appliedFor`,
`fresh`, `refused`) that no guard reads.

## 3. What the models assume of the platform

* Node resumes every pending await of a live process; that is the only fairness used
  (`WF_vars(Continue(r))` in `OrderDispatch!FairSpec`). No fairness is assumed of arriving
  requests, and a handler may still die instead of going on.
* PostgreSQL runs at READ COMMITTED, Prisma's default. A single statement is atomic; an
  `UPDATE` waits for the row's lock and re-tests its condition on the newest version of the
  row; Prisma's `updateMany` is one such `UPDATE`. `PromoCodes` models this in detail
  (`Locked` is the one definition taken from PostgreSQL and not from the repository).
* In `OrderDispatch` a `$transaction` is one atomic step. Its transactions write at most one
  order row first and its assignment after it, so two of them about one order are
  serialised by the order row's lock, except where the assignment is written first
  (`removeCourier`, `declineOrder`); interleavings of statements inside two such
  transactions are not explored there.
* In `OrderDispatch` the courier lookups and the access checks of staff succeed; a request
  they refuse changes nothing.
* In `CustomerAccounts`, `LoyaltyPoints` and `OpeningHours` one query, or one `$transaction`, is one
  action. In `Checkout` a whole server handler is: what races there is the browser with itself
  and with the administrators. A request that the web shop gave up does not reach the
  server later.
* Firebase and the network are external. Firebase gives an installation tokens in order and
  refuses the old ones; a call may be lost before or after the server has taken it, and may
  overtake another.
* A restaurant of `Checkout` has one branch and one product; quantities and prices are small
  constants, amounts are integers (hundredths, and ten-thousandths of them for a discount
  that has not been rounded yet).

## 4. Runs

*pass* runs check everything listed; *violation* runs check one statement of a document or
comment that the code does not keep (section 6). With two worker threads `hours_edits`,
`checkout_web` and `loyalty` take one to two minutes, the others less than one.

| Run | Result | Instance | Shows |
|---|---|---|---|
| `dispatch_overlap` | pass | 1 order, 2 couriers, 2 overlapping requests, failures | `CourierHasAssignment`, `AssignedHasCourier`, `FreshClaimNeverSteals` |
| `dispatch_serial` | pass | 1 order, 3 couriers, 2 slots, no overlap on one order, failures, fairness | `TypeOK`, `CreditedAtMostOnce`, `AcceptedByHolder`, `ImplementsLifecycle`; for orders no handler died on `HistoryCurrent`, `PoolAnnounced`, `OnlyHolderInformed`, `DeliveredIsCredited` |
| `dispatch_lifecycle_race` | violation | 2 overlapping requests | `DocumentedTransitions` |
| `dispatch_double_credit` | violation | 2 overlapping requests | `FinalizeIdempotent` |
| `promo_orders` | pass | 3 orders of 2 businesses, 2 codes, 2 transactions, 2 clean-ups, edits at any time | `TypeOK`, `CountIsUsages`, `InactiveNeverGranted`, `LimitNeverExceeded` |
| `branches_serial` | pass | up to 4 branches, one handler at a time, failures | `TypeOK`, `OnePrimaryAtMost`, `LastActiveKept`; until a handler dies `SomePrimary` |
| `accounts_serial` | pass | 3 customers, 2 orders, 2 deletion requests, 2 phones, 1 Google account, one request at a time, failures | `TypeOK`, `OrdersOwnedByLive`, `DeadHoldNoPhone`, `CompletedMeansGone`, `NothingLeftBehind`; until a handler dies `RequestsSettle` |
| `accounts_merge_refused` | violation | 1 request | `MergeCommits` |
| `loyalty` | pass | 2 customers, 3 orders that earn 2, 3 and no points, 2 overlapping status requests, of one order too, failures, merges, deletions | `TypeOK`; unless a merge or deletion ran beside a handler, or a request wrote over a delivery it had not seen, `RewardedOnce` and the bound of `PointsAddUp`; its equality for handlers that ran alone |
| `push_devices` | pass | 1 installation, 2 customers, 2 tokens, 2 calls in flight, lost, late or reordered | `TypeOK`, `TokensKept`; unless calls were lost or crossed `LoggedInReached`, `LoggedOutUnlinked` |
| `hours_edits` | pass | a day of 4 minutes, 2 weekdays, 1 date, every typed period, 2 overlapping edits, failures | `TypeOK`; unless an edit died, was refused or mixed with another `HoursAsTyped`; `ClosesWhenSaid` |
| `checkout_web` | pass | 2 restaurants, 2 places, a zone of the city and one of a restaurant, 1 code that turns at any time, 1 edit of everything, 2 calls in flight, failures | `TypeOK`, `ChargedAsShown`, `AmountsAddUp`, `OneOrderPerCart`, `CityZonesGiveWay` |

Bounds, and why they are enough:

* One order: no handler touches two orders, and nothing but the totals of couriers is
  shared between orders (kept per order in `credits`). Three couriers where one may be
  displaced by a second while a third claims; two where the question is between holder and
  newcomer. The theorems of section 5 lift these bounds for the safety properties.
* Two request slots: every race in the handlers is between one that has read and one that
  writes.
* `MaxCredits = 1` only stops *new* delivery requests once an order was credited, which keeps
  the counters finite; two that are already in flight may still credit twice, and
  `dispatch_double_credit` finds it.
* `Limits = {1, 2}` with three orders: below, at and above a limit all occur, and a clean-up
  can give one use back while two orders compete for it.
* `MaxBranches = 4` counts branches ever created, deleted ones included: a primary one to
  delete, two to choose the next from and one to create in the meantime.

* Three customers are needed: one to merge, one to merge into and a bystander who may be
  taken for either; with two phones and a Google account every order in which identities
  are gathered on two rows occurs. Two orders: one owned and one placed as a guest.
* Two customers are an inviter and the invited; of three orders one earns nothing, which
  the handler treats apart, and two can be the first. `Onwards = FALSE` takes no further status
  request once one has written over a delivery it had not seen: both requests about one order
  still run to their end, and the properties claim nothing from there on. The theorems hold
  for both values.
* Two calls in flight can cross. One installation: rows of different installations share
  nothing, and the theorems hold for any number.
* A day of four minutes has periods that are empty, within the day, over midnight, and typed
  in the wrong order around noon; two weekdays let the fallback to another day's row happen.
* The edit of `checkout_web` changes a price, a code, the zones and the setting at once, between
  any two steps; the places differ in which zone reaches them.

Symmetry is declared over model values that no definition distinguishes; it is not used in
the run with a liveness property. `HandlerView` hides `lastLogged`, `informed`, `announced` and
`interrupted` in two runs with overlap: handlers write and never read them, and those runs'
properties do not mention them.

Deadlock is checked in every run but `loyalty`. Handlers that stop early, and orders that are
final, do not stop the model: other requests may always arrive. In `LoyaltyPoints` the orders
are a finite set; when all are delivered and the accounts have gone, there is nothing left to do, and the run says `CHECK_DEADLOCK FALSE`.

## 5. Proofs

TLAPS proves the following for all values of the constants: any sets of orders, couriers,
customers, codes, businesses, installations, zones and slots, any numbers of branches, any
length of a day and of a week.

| Theorem | Assumes | Statement |
|---|---|---|
| `OrderDispatchProofs!TypesHold` | | `[]TypeOK` |
| `OrderDispatchProofs!CouriersMatch` | | `[]CourierHasAssignment` |
| `OrderDispatchProofs!AssignedIsHeld` | | `[]AssignedHasCourier` |
| `OrderDispatchProofs!OneClaimWins` | | `FreshClaimNeverSteals` |
| `OrderDispatchProofs!CreditsAreUnique` | `Overlap = FALSE` | `[]CreditedAtMostOnce` |
| `OrderDispatchProofs!AcceptanceIsOwn` | `Overlap = FALSE` | `[]AcceptedByHolder` |
| `OrderDispatchProofs!SerialRefinement` | `Overlap = FALSE` | `Spec => Lifecycle!Spec` |
| `OrderDispatchProofs!HistoryKept` | `Overlap = FALSE` | `[]HistoryCurrent` |
| `OrderDispatchProofs!PoolHears` | `Overlap = FALSE` | `[]PoolAnnounced` |
| `OrderDispatchProofs!HolderAloneInformed` | `Overlap = FALSE` | `[]OnlyHolderInformed` |
| `PromoCodesProofs!PromoTypes` | | `[]TypeOK` |
| `PromoCodesProofs!OnlyActiveGranted` | | `InactiveNeverGranted` |
| `PromoCodesProofs!CountMatches` | `ClearsOverlap = FALSE` | `[]CountIsUsages` |
| `PromoCodesProofs!LimitHolds` | `ClearsOverlap = FALSE` | `LimitNeverExceeded` |
| `BusinessBranchesProofs!BranchTypes` | | `[]TypeOK` |
| `BusinessBranchesProofs!OnePrimary` | `Overlap = FALSE` | `[]OnePrimaryAtMost` |
| `BusinessBranchesProofs!ActiveKept` | `Overlap = FALSE` | `LastActiveKept` |
| `BusinessBranchesProofs!APrimary` | `Overlap = FALSE` | `[]SomePrimary` |
| `CustomerAccountsProofs!AccountTypes` | | `[]TypeOK` |
| `CustomerAccountsProofs!OwnersLive` | `Overlap = FALSE` | `[]OrdersOwnedByLive` |
| `CustomerAccountsProofs!PhonesFreed` | `Overlap = FALSE` | `[]DeadHoldNoPhone` |
| `CustomerAccountsProofs!CompletedIsGone` | `Overlap = FALSE` | `[]CompletedMeansGone` |
| `CustomerAccountsProofs!DeletionsSettle` | `Overlap = FALSE` | `[]RequestsSettle` |
| `CustomerAccountsProofs!NoOrderBehind` | `Overlap = FALSE` | `NothingLeftBehind` |
| `LoyaltyProofs!LoyaltyTypeCorrect` | | `[]TypeOK` |
| `LoyaltyProofs!LoyaltyRewardedOnce` | | `[]RewardedOnce` |
| `LoyaltyProofs!LoyaltyAddsUp` | | `[]PointsAddUp` |
| `PushDevicesProofs!DeviceTypes` | | `[]TypeOK` |
| `PushDevicesProofs!CustomersReached` | | `[]LoggedInReached` |
| `PushDevicesProofs!LogoutUnlinks` | | `[]LoggedOutUnlinked` |
| `PushDevicesProofs!RefusalsSpareTokens` | | `TokensKept` |
| `OpeningHoursProofs!HoursTypes` | | `[]TypeOK` |
| `OpeningHoursProofs!OpenAsTyped` | | `[]HoursAsTyped` |
| `OpeningHoursProofs!ClosesAsSaid` | | `[]ClosesWhenSaid` |
| `CheckoutProofs!CheckoutTypes` | | `[]TypeOK` |
| `CheckoutProofs!PaysWhatIsShown` | | `[]ChargedAsShown` |
| `CheckoutProofs!ColumnsAddUp` | | `[]AmountsAddUp` |
| `CheckoutProofs!NoSecondOrder` | | `OneOrderPerCart` |
| `CheckoutProofs!OwnZonesFirst` | | `CityZonesGiveWay` |

Each also assumes the `ASSUME` of its module, which TLC evaluates in the module's run.
`Overlap = FALSE` (and `ClearsOverlap = FALSE`) is what the code does not guarantee and the
property needs; section 6 names the outcomes with overlap that are worth knowing. In
`OrderDispatch` it excludes two requests about one order, in `BusinessBranches` and
`CustomerAccounts` two requests at all. Requests may die at any step under every assumption.

The arguments, in short:

* **`DispatchInv`** (every interleaving). The two database properties are inductive together
  once requests are known to be well formed: a claim in its write phase either read the
  order as free or as its own, and a status request never asks for `COURIER_ASSIGNED`, the
  one status that needs a courier (no entry of `STATUS_FLOW` offers it, so the check that
  precedes it makes the branch of `updateStatus` for it unreachable). `OneClaimWins` is an
  action property from the same invariant: only `WriteAssign` names a courier, and for a fresh claim its
  guard requires that the row is free.
* **`SerialInv`** (no overlap on one order). What a handler read must still hold when it
  writes. `OneAtATime` gives that no other slot serves the order, `SlotFresh` that the row
  still is `seen` with the checks made on it (`Checked`), `RowOK` what holds of a row between
  any two steps: who has a courier, whose acceptance it is, and that a credit implies the
  delivery stamp, which is what makes the early return of `finalizeCourierDelivery` enough.
  Refinement then follows action by action: each write is one abstract step, every other
  step a stutter. `StepFrame` reduces each step to one order and one slot.
* **`SettledInv`** (dispatch, no overlap on one order). That the history, the pool and the couriers are
  up to date when nobody is at work says nothing of the steps between. `Owing` does: for a
  request at work on an order it says, phase by phase, that what is out of date is exactly
  what the request's remaining steps will write. Before its write the order is up to date;
  between the write and `Log` the history lacks the new status and nothing else; a request
  that took the courier away or brought one still has the notice to both before it. A step
  either keeps the order up to date, or leaves a debt, or pays it (the lemmas that end in
  `Passes`), and a request that ends owes nothing (`ContinueSettles`). One that dies puts its
  order in `interrupted`, and the invariant lets go of it. The argument needed `RequestedLate`, that
  only an order from PREPARING on asks for a courier: otherwise moving from ACCEPTED to PREPARING
  would put an order into the pool without telling it.
* **`PromoInv`, `CountInv`, `LimitInv`**. `OwnOrders` and `RowsOK` tie transactions to orders
  that do not exist yet, so a commit adds exactly one use. `ActiveHeld` says the row lock
  keeps the code active between the update and the commit. `ClearOK` says that what a
  clean-up counted is still what it will delete; two clean-ups of one business break it and
  `AloneClear` excludes them. `OneHolder` and `RoomLeft` say that a transaction that passed
  the condition still has room below the limit it read when it commits: no other holds the
  row, and clean-ups only lower the count.
* **`BranchInv`, `SerialInv`, `PrimaryPending`** (branches). `SlotFresh` lists what each phase has
  established: after `ClearPrimary` no other branch is primary, between count and write
  another active branch exists, after deletion of the primary none is left and an active
  one is there to promote. `PrimaryPending`: if there are branches and none is primary, a
  handler is on its way to make one, or one died on the way.

* **`AccountInv`, `SerialInv`** (accounts). The first is typing, and holds of every interleaving. The
  second says what a phase may rely on because the others wait (`SlotFresh`): who was found is
  still live, the source row of a merge or a deletion is still as it was read, the account of
  a request about to be completed is gone. Two steps take a customer away, `Merge` and
  `DeleteAccount`; each is shown to leave the orders to somebody live or to nobody, to free
  the phone and to leave earlier completions true. `PendingOK` ties each deletion in PROCESSING to the
  handler that works on it.
* **Loyalty, the reward**. A handler counts the delivered orders of its customer after its own order was
  written as DELIVERED, so of two handlers that pay, one has counted before the other's
  order was delivered, and the other counts it. The invariant says so of every handler
  between its count and its payment (`Apart`) and of every customer without a payment yet
  (`Unpaid`). Two handlers of one order leave it out of both counts, a delivery that is taken back
  is counted no more, and merges and deletions move orders: the invariant is about histories
  with none of these (`Regular`), and the theorem says no more. Without the exemption of the
  overwritten delivery TLC finds both properties violated.
* **Loyalty, the points**. `PointsAddUp` compares the points with what was promised; between, the
  invariant needs the sum of what all handlers in flight may still add. Sums over sets are
  recursive, so the proof speaks of *tallies* instead: a tally visits any number of handlers,
  each once, and adds at most what each may still add (`Coming`); `Within(v, F, b)` says that no
  tally that starts from v ends above b, which is what a bound on the sum would say. It is
  shown for the points of each customer *and* for every value a handler has read and will
  write over (`Sums`), since a lost update writes from such a value. `WithinKept` moves the bound
  over a step of one handler that pays what it no longer owes; the deliveries and rewards of
  others only lower what a handler may add (`ComingShrinks`). For handlers that ran alone and
  lived, `Exact` has equality: the points and what the one handler owes are the promises.
* **Push devices**. All is per installation. No token is known anywhere that Firebase has not given yet,
  and a refused one is older than the installation's own (`Known`), which is why dropping it is
  harmless. A log-out leaves once (`LeavesOnce`). For an installation whose calls did not
  cross, the invariant says what each call in flight will still do to the row: after a log-out
  no call names the customer (`Unlinked`), and while he is logged in a registration of his is
  under way or has arrived (`Reached`).
* **Opening hours**. `Kept`: while the rows are not wiped they are the typed ones, normalised. The
  rest is arithmetic, for a day of any length: the three cases of `OutsideClosedPeriod` against
  `InPeriod`, which knows only a clock that goes round, and that a minute before closing is
  still open and the minute said is not, across midnight.
* **Checkout**. First the operators: a zone that comes first exists and is unique among any zones
  (`PreferredExists`, `PreferredUnique`), it is never a city-wide one where a narrower one reaches
  (`CityGivesWay`), a discount is at most the subtotal (`DiscountType`), rounding errs by half a
  unit (`AmountsAre`). Then the invariant, a part for each variable: what is in the stores belongs
  to what it says it was computed for (`StoreOK`), the cart has the price of its last reading
  (`CartOK`), an order in flight that was fresh still is worth what was shown, less the discount
  of a code that had been refused (`CallOK` with `Charge`), and a page awaits one order at most,
  and still awaits it when the server has placed it (`OneAwaited`).

Every safety property of a passing run is proved. Only model-checked is `DeliveredIsCredited`:
liveness under fairness needs `ENABLED`, which the proof system does not support. The violation
runs refute their properties and have nothing to prove.

## 6. Disagreements between code and documents

Each is shown by a violation run; the counterexample is a legal sequence of requests.

* *A transition the lifecycle does not have* (`dispatch_lifecycle_race`). `updateStatus` checks the row
  it read and updates by id: accept and cancel in flight together leave a cancelled order
  accepted.
* *A delivery credited twice* (`dispatch_double_credit`). Two DELIVERED requests in flight together
  both find the assignment unstamped; the comment calls the function idempotent.
* *A Google account that takes over no phone* (`accounts_merge_refused`). `mergeCustomers` writes the
  source's Google account to the target while the source still has it; the column is
  unique, so the transaction fails in every such merge.

Not findings, but worth knowing:

* *Orders.* A courier's repeated accept that read the order as his own overwrites a reassignment made
  in between (`orders.service.ts:835`). A cancellation disconnects the courier in the update and
  sends the notice to the courier of the updated row, that is to nobody (480 and 593;
  `FIREBASE_SETUP.md:110` promises it). `PATCH :id/reassign-courier` lets a manager put a courier
  on an order nobody holds, which `assign-courier` refuses. With failures, a delivered order may
  stay uncredited, a history row may be missing and a requested order may never be announced
  (nothing retries them); with overlap, `acceptedAt` may be stamped by a courier who no longer
  holds the order.
* *Promo codes.* A clean-up repeated while the first runs gives uses back twice
  (`restaurants.service.ts:1191`, `1226`), and losing the race for the count is reported as "usage
  limit reached" even for a code without one (`promo-codes.service.ts:165`).
* *Branches.* Overlapping deletions can delete the last two active branches
  (`business-branches.service.ts:114`); with overlap two branches may be primary; after the primary
  branch was deactivated, which `update` allows, orders that name no branch come from another.
* *Accounts.* A source merged into a target with a Google account of its own keeps its `googleId` on
  the dead row: that Google account can never sign in again. A deletion leaves the address
  rows. With overlapping requests orders end up with a dead owner, `completeProfile`'s last
  write by id puts a phone back on a dead row, and a second deletion request stays
  PROCESSING. A blocked customer can still order as a guest.
* *Loyalty.* Of two first orders that are both DELIVERED before either handler counts, neither rewards
  the inviter; overlapping awards lose points; a merge beside two handlers can pay twice;
  points and referrals stay behind on a merged account; two overlapping DELIVERED requests for
  one order award its points twice and can reward the inviter twice, as both leave the order
  out of their counts (`orders.service.ts:500`, `523`). No
  code of the backend creates a referral.
* *Push.* A log-out whose call is lost leaves the customer linked, and nothing retries it;
  `messaging/invalid-argument`, which may be about the message, also drops the token.
* *Hours.* A refused edit has already deleted the rows, and a business without rows is open round
  the clock (`restaurant-schedule.service.ts:95`); `minutesUntilClose` takes today's hours for
  tomorrow's; overlapping edits of different days mix.
* *Zones.* A zone of the city takes part for every business of that city, also when it carries the id of
  another (`delivery-zones.service.ts:131-135`); the comment there promises the smallest radius, the
  sort is by the distance to the centre; one zone in a city ends the tariff for all businesses there.
* *Checkout.* A code that was typed and never applied is charged with its discount; so is one that was
  refused, as not yet active say, and has begun by the time of the order; one that was
  erased leaves its discount on the button; changes of the cart leave it too, and another
  restaurant's items keep the old fee. A late quote lands in a store that was cleared. A
  retry after a lost answer, or after leaving the page, places a second order: the request
  has no key. Items added while an order is in flight are cleared with it.

## 7. What is not modelled

`PROJECT.json` has the reasons, component by component. In short: listings, reports and
the text of messages; authentication and authorisation beyond the courier's own-order check;
in-app notifications and their sockets; the trigonometry of distances (they are constants);
time zones and the parsing of typed times; the commission of an order; the catalog but for a
product's price; the admin panel, the courier and restaurant apps, and the customer app's
own checkout, which sets the position before it knows the fee where the web shop sets them
together; a second browser tab on the same stores. `updateStatus`'s special case for
`COURIER_ASSIGNED` is unreachable and left out; `requireOnline` is never set by a caller and left
out with it; `applyToOrder` is never called. Of a promo code's dates and limit `Checkout` keeps whether it is
open; the counting of uses is in `PromoCodes`. Of the phones of guests `LoyaltyPoints` keeps nothing.
Of an installation's link to a phone `PushDevices` claims nothing: orders set it again without a
log-in. Overlap of requests about the same customers is
modelled in `CustomerAccounts` (`Overlap = TRUE`); the types are proved for it, and no other property
listed holds then: what it does is above.

## 8. Plan

In order of what the system loses when it goes wrong:

1. `Notifications`: the notice table per status against its documents, the inbox and read marks,
   composed with the steps of `OrderDispatch`.
2. `Cities` and `Settings`: the default city (shares its shape with branches), the read-merge-write
   of the pricing, which `Checkout` reads as one value.
3. `BruteForce` and `StaffLogin`: the Redis counter with expiry, user activation.
4. `CourierPresence`: online, blocked, assigned; composed with the pool.
5. Staff devices in `PushDevices`; the mobile checkout beside `Checkout`.
6. The pure parts of the catalog (menu order, slugs).

Proofs to come: `CustomerAccounts` with requests about different customers in flight together, for the
properties that survive it; the abstract specifications of branches and promo codes as
refinements; and `OrderDispatch` with statement-level transactions, in the manner of `PromoCodes`,
for removal and decline.
