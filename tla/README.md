# Verification of the ClearIt booking backend

TLA+ models, TLC configurations and TLAPS proofs kept beside the ClearIt API server
(NestJS, TypeORM, PostgreSQL). The server is one process, or several behind a load
balancer, over one database. It serves a customer app, an agent app and an admin app,
and receives the payment gateway's webhooks.

Paths below are relative to the repository's `src/` directory.

## 1. Inventory

One fact decides what is hard here: **no handler opens a database transaction or takes
a lock.** A handler loads entities, checks and changes them in memory, and writes them
back with one statement per `await`. Two requests interleave between any two statements,
on one Node.js process too, and a request that throws or dies keeps what it has written.
`Repository.save(entity)` selects the row again and updates every column in which the
entity in memory differs, so a stale entity writes its stale columns back.

| Component | State | Operations | Hard behaviour | What makes it correct | Module |
|---|---|---|---|---|---|
| Booking status machine (`common/booking`) | `bookings.status`, `booking_status_history` | `assertTransition`, `transition`, `record` | check and save are two steps; whole-row save | no status is skipped, terminal statuses are final, the history is complete | `BookingRequests` |
| Customer payments (`customer/payments`, `integrations/payments`) | `payments`, `payment_transactions`, the mirror `bookings.payment_status` | `createOrder`, `verify`, `handleWebhook` | redelivered, reordered and racing webhooks; crash between payment, ledger and booking | nothing is booked but a capture or what `verify` was handed; every capture reaches the ledger; payment and mirror agree | `BookingRequests` |
| Customer bookings (`customer/bookings`) | bookings, items, coupon usage | `create`, `createPlan`, `cancel`, `reschedule` | cancel against a late capture; partial creation; coupon limit | a captured payment of a cancelled booking is refunded; a booking with a history is complete | `BookingRequests`, `BookingIntake` |
| Agent bookings (`agent/bookings`) | `bookings.agent_id`, `agent_earnings` | `accept`, `reject`, `arrived`, `start`, `complete` | claim race; claim and transition are two statements; payout after completion | work only after the start OTP; one payout per job, only for completed jobs | `BookingRequests` |
| Admin bookings (`admin/bookings`) | the same rows | `assign-agent`, `reassign-agent`, `cancel` | calendar check and save are two steps; pre-assignment of unpaid bookings | an agent is on one job at a time | `BookingRequests`, `Agents` |
| Login and accounts (`common/auth`, `*/auth`, `admin/admins`, `admin/customers`, `customer/profile`) | users, admins, OTP codes, refresh tokens | send, verify, rotate, revoke, change password, block, deactivate | attempts counted after they are made; rotation and deactivation as check-then-write; stale saves of the account | one valid code, limited guesses, one session per login, an admin left, a block that lasts | `Accounts` |
| Service execution and ratings (`common/services/checklist.service.ts`, `agent/bookings/enhanced-booking.service.ts`, `*/ratings`) | checklist templates, progress and items; execution, settlement, feedback; ratings, reviews | seed, initialise, tick, arrive and start (which move the phase on), milestones, rate, remove | create-if-missing races, phase advanced twice, lost milestone, seeding half way | one checklist with every item once, no milestone lost | `ServiceExecution` |
| Payroll and settings (`admin/earnings`, `common/services/settings.service.ts`) | incentives, salaries; settings and their cache | generate, approve, pay, correct; get, set | generation overwrites a row approved meanwhile; stale cache entry | settled money is never recalculated, totals add up, an edit is in force | `Payroll` |
| Agents (`admin/agents`, `agent/*`) | agents, documents, bank, attendance, availability; jobs as far as they bear on them | onboard, approve, reject, suspend, check in and out, ping, assign | suspend against start; stale saves of the whole row; one row a day without an index | an admin's decision stands, no suspended agent is at work, an assignment fits the calendar | `Agents` |
| Addresses and zones (`customer/addresses`, `common/services/zone-resolver.service.ts`) | addresses, default flags, home zone | create, update, set default, remove, resolve, backfill | flags set and cleared in two statements; a backfill that saves what it loaded at boot | one default, and the home zone is its zone | `Addresses`, `ZoneResolver` |
| Catalogue (`admin/services`, `admin/pricing`, `admin/home-content`, `admin/societies`) | categories, services, prices, home cards, societies | create, update, remove | count uses, then delete; one active price per area without an index | nothing in use disappears, one active price | `Catalogue` |
| Service areas (`admin/service-areas`) | areas, their listed localities | create, update, replace listing, seed, remove | listing deleted and inserted again; seeding at every boot | an area has the one listing it was last given | `ServiceAreas` |
| Notifications (`common/services/notification*.ts`, `admin/notifications`) | notifications, device tokens | register, remove, notify, broadcast, read | a phone passes to another user; a broadcast outlives a block | who is told is who should be | `Notifications` |
| Support tickets, dashboards, reports, payment lists | single rows, queries | CRUD, lists | last writer wins | - | - |
| Start-up, configuration, health, uploads | none that lasts, but for the seeds above | boot | several processes seed at once | seeds are whole | parts of the modules above |

The three apps and the webhook interact through the database rows: all write the same
`bookings` row, `accept` starts a checklist, `complete` writes the earning that payroll
later sums, and `requireApprovedAgent` gates every agent operation.

## 2. Plan

Done, in the order of importance:

1. **Bookings and payments**: `BookingStatus`, `BookingLifecycle`, `BookingRequests`; runs
   `concurrent`, `serial`, `liveness` and three divergences. Proved: the types, every safety
   and action property of the two runs, and the refinement.
2. **Booking intake**: `Pricing`, `BookingIntake`; runs `intake`, `coupon_oversold`. Proved:
   types and every property of the run.
3. **Accounts**: `Server`, `Accounts`; run `accounts`. Proved: types and every property.
4. **Agents and calendar**: `Agents`; run `profiles`. Proved: types and every property.
5. **Addresses and zones**: `ZoneResolver`, `Addresses`; run `profiles`. Proved: the resolution,
   the types and `OneDefault`.
6. **Service execution, catalogue, service areas, notifications**: one module each; run
   `services`. Proved: types and every property.
7. **Payroll and settings**: `Payroll`; run `payroll`. Proved: types and every property.

Left: nothing that the proof system reaches; the two liveness properties stay with TLC (section 6).

## 3. Modules

| Module | What it is |
|---|---|
| `BookingStatus` | The status table and the status sets of `booking-status.ts`; pure operators |
| `BookingLifecycle` | Abstract specification: status and agent of a booking, one step per request |
| `BookingRequests` | The handlers that move bookings and payments, one step per database statement |
| `Pricing` | What an order, a coupon and a plan cost, rounding included; pure operators |
| `BookingIntake` | `create`, `createPlan`, `ensurePayment` and the coupon's update and remove, one step per statement |
| `Server` | The requests in flight and the two bounds; extended by all modules below |
| `Accounts` | Codes, sessions, users' and admins' accounts |
| `Agents` | The agents' rows, papers and desk, and the jobs in their calendars |
| `ZoneResolver` | Which area a place belongs to; pure operators |
| `Addresses` | One customer's address book and home zone |
| `ServiceExecution` | Checklist, execution, settlement, feedback and rating of one booking |
| `Catalogue` | Categories, services, prices, home screen, societies |
| `ServiceAreas` | Areas and their listings |
| `Notifications` | Notifications and the phones they are pushed to |
| `Payroll` | One month's incentives and salaries, and the settings |
| `MCBookingRequests`, `MCBookingIntake`, `MCAccounts`, `MCPayroll` | Instances for TLC |
| `MCServices` | Composes `ServiceExecution`, `Catalogue`, `ServiceAreas`, `Notifications` |
| `MCProfiles` | Composes `Agents`, `Addresses` |
| `BookingProofs` | Bookings in progress: types and causes; ledger, history and earnings, what every interleaving leaves behind; one request at a time, with the refinement |
| `IntakeProofs` | Theorems about prices and intake |
| `ServerProofs` | What every step keeps of `Server`: types, one request at a time until the first overlap, and the budget of overlaps |
| `AccountProofs`, `ProfilesProofs`, `PayrollProofs` | Theorems about accounts; agents and calendar, addresses and zones; payroll and settings |
| `ServicesProofs`, `ExecutionProofs` | Theorems about notifications, the catalogue and the service areas; about service execution |

`MCServices` and `MCProfiles` each compose parts that share the server and no row: a
behaviour is about one of them (`about`) and leaves the others alone, which checks the same
states as an instance for each would.

### BookingRequests and the code

| Model | Code |
|---|---|
| `booking[b]` | the `bookings` row: status, agent, mirrored payment status, slot |
| `payment[b]`, `txns[b]` | the `payments` row's status; the kinds of its `payment_transactions` rows |
| `logged[b]`, `earnings[b][a]` | statuses in `booking_status_history`; number of `agent_earnings` rows |
| `gateway[b]`, `hooks[b]` | what happened at the gateway; events it still redelivers (external) |
| `req[q]` | a request in flight: the entities in its memory and the statements it has left |
| `seen`, `otpShown`, `died`, `vouched`, `upsets` | history variables, and the counter of the bound |

A handler is one action: it loads, checks and changes entities in memory and leaves its
statements `todo`. The statements of all handlers respect one order (`Rank`), so a set
of them is a program. Each statement is an action (`SelectForSave` and `UpdateRow` are
the two halves of a `save`), any request can execute its next one at any time, and
`Crash` ends a request between two of them. The admin's cancel reads the payment in a
statement of its own because what it decides depends on when it reads it; `accept` is
the conditional UPDATE and a later reread. The code's order of writes is kept: the
customer's cancel saves the payment before the booking, the admin's after.

What is abstracted: booking and payment of one handler are loaded in one step, except in
the admin's cancel; a slot is a value, and two jobs clash iff their slots are equal
(the window arithmetic is data); amounts, OTP digits, notes, end times and payment
methods are left out; the gateway gives one order one outcome history; agents are taken
as approved and active (that gate is in `Agents`); notifications, push and audit
rows are left out, nothing reads them back; each booking has the one order the gateway
knows it by (below); the checklist that `accept` starts inside a
try/catch cannot affect the booking and belongs to service execution. Bookings start
created, with their PENDING payment.

`verify` checks the gateway's signature of an order id and a payment id, and nothing ties the
order to the booking it settles, to that booking's payment or to the amount. `Verify` is
therefore always enabled: with a capture for the booking the ids are its own, without one they
are those of another payment, and `vouched` remembers the booking. What `NoPhantomMoney` and
`WorkIsPaidFor` say of money is said of bookings that were captured *or* settled so
(`Settleable`); why nothing more can be said is noted in section 5. The development mode without
gateway keys, which checks no signature, adds nothing to this.

### BookingIntake and the code

| Model | Code |
|---|---|
| `bookings[b]` | the `bookings` row: number, charges, whether it is a plan, whether it was priced with the coupon |
| `items`, `payments[b]`, `usage`, `logged` | `booking_items`, number of `payments` rows, `coupon_usage`, the first `booking_status_history` row |
| `coupon` | one `coupons` row: active, what it is worth, limit, `used_count` |
| `req[q]` | a request in flight: a new booking or a coupon in its memory, and the statements it has left |
| `upsets` | the counter of the bound |

The shape is that of `BookingRequests`: `create` prices the order with the coupon it loads
and leaves `booking`, `items`, `payment`, `usage`, `count`, `record` to do, in that order;
`remove` counts usage and then deletes or deactivates; an update is a TypeORM `save` in two
halves. What the database refuses is part of the statement and ends the request: a second
row with a `booking_number`, a usage row without its coupon, deleting a coupon with usage
rows. `increment` is one UPDATE and adds in the database.

Amounts are paise and percentages hundredths of a percent, so prices are integers and
`round2` is rounding to the nearest paisa. Where the exact value lies halfway between two,
the double the code rounds may lie on either side: `Rounded` then returns both.

Abstracted: an order has one line (a subtotal is a sum of rounded lines); what a handler
loads it loads in one step, just before its first write, so the coupon is read and a free
number drawn at once; the coupon's dates, code and minimum order, which only refuse more;
a coupon without limit, about which there is nothing to check; the address's home zone,
which `create` may save (see `Addresses`); audit rows and notifications. A deleted row is
inserted again by a `save` of an entity that is still in memory, as TypeORM does.

### Server, and the modules that extend it

A handler is a sequence of steps with at most one statement each. `req[q]` is a record: the
step request `q` is at and what it has in memory. The route (`SendOtp`, `UpdateAddress`, ...)
does everything up to the first statement that can see what another request writes; each
later step is an action of its own, so any step of another request can come in between.
`Crash` is a request lost between two steps. `save` of TypeORM is always two steps: SELECT
and compare the entity in memory, then UPDATE of the columns that differed, or INSERT if the
row was gone at the SELECT. Guards of the route (`NotFound`, `Conflict`, ...) are its
conjuncts; a check made after a later read is a step that answers.

`overlaps` counts how often a request started while another was in flight, `deaths` how
often one died. They bound the instance (`MaxOverlaps`, `MaxDeaths`), and the properties are
stated with them: what holds of requests served one at a time (`overlaps = 0`), and by how
much each overlap can spoil it.

### Accounts and the code

| Model | Code |
|---|---|
| `accounts[s]` | the `users` or `admins` row: active, password |
| `codes`, `tokens`, `profile` | `otp_verifications`, `refresh_tokens`, a `customers` (`agents`) row |
| `guesses`, `logins` | history: comparisons made with a code, sessions opened |

A token remembers the password its login was made with, which no row does; it is what
`OldPasswordDropped` needs. A code ages from *fresh* (no resend yet) to *live* to *expired*.
Access tokens outlive the refresh token (`Acting`). An update of the profile or of a customer
changes none of these columns, and is modelled for what its stale save may write back: since
TypeORM writes only what differs from the SELECT, that is what changed between the two.
Abstracted: names, emails, roles, hashes, Twilio's own codes, the demo mode.

### Agents and the code

`agents[a]` has the two columns admins decide about and `named`, which stands for the personal
details. `documents`, `banks`, `attendance` and `availability` are the rows of one agent, one
document type and one day: each is *look for it, then insert*. Bank accounts alone have a unique
index (`idx_agent_bank_accounts_agent_id`), which refuses the second row; `OneRowEach` is about
the other tables. `bookings` has status, agent and
start. The windows are those of `assertNoClash`, midnight included: the window of the job to
assign is cut at midnight, the end of another job is a time of day and wraps.
`accept` and `reschedule` look at no calendar, so `AssignmentFits` is about assignments only.
`lost` counts decisions undone by a save that did not mean to. Abstracted: skills, ratings,
zones, file names, what exactly is in the personal details.

### Addresses, ZoneResolver and the code

`ZoneResolver.Resolved` is `resolve`: pincode, then radius, then city, with the ties the
database may break either way; distances are given, not computed. An address is its zone and
its flag. The steps that follow a request's present one are in `rest`. A default's update
clears the other flags after the save, `setDefault` before it, as in the code; the boot
backfill saves the addresses as it loaded them, which may put a flag back.

### ServiceExecution and the code

`catalogue` holds the templates and items seeded so far; a template that another process has
seeded is refused, and the process comes up with what there is. `progress[p]` and `items[p]`
are a `booking_checklist_progress` row and its items; `executions[e]` counts the milestones of
an execution row, since only the array's length is at stake. Ratings are *plain*, *reviewed* or
*removed*: a review's foreign key refuses the delete. A rating given twice, a row inserted
twice: `findOne` may return either, so every action ranges over all of them. Checklist and
execution share no row and are taken one at a time (`part`).

`completePhase` (`checklist.service.ts:255-285`) is not modelled, for it cannot be called. Its
only caller is the handler of `POST :bookingId/checklist/phase/complete`
(`agent/bookings/bookings.controller.ts:174`), and `POST :bookingId/checklist/:itemId/complete`,
declared before it at line 123, takes its requests: `ParseUUIDPipe` answers 400 to the item
`phase`. A checklist moves on when the agent arrives and when the service starts, and none is
ever completed.

### Catalogue, ServiceAreas, Notifications and the code

`Catalogue` has one action per handler over a table of rows with their links; `Refers`,
`Needed` and `Deleted` are the foreign keys of the SQL scripts (RESTRICT, CASCADE, SET NULL),
evaluated when the statement executes. A behaviour is about one section, the tables that the
handlers and their checks touch together.
`ServiceAreas` models the one-to-many relation that TypeORM saves with the area: listings that
came in since it was loaded are orphans, those that went are inserted again. A request names
new localities, an empty list, or (in an update) none at all (`Localities`): `replaceZoneAreas`
returns after its DELETE when the list is empty or absent (`service-areas.service.ts:291`), so a
create without `areas` and an update with `areas: []` leave an area that matches no locality.
Localities inserted by one INSERT are one listing. The seeding at boot does for each built-in
zone what `update` does. Two history variables: `beside` holds the listings whose DELETE ran
while another request was about the area, `bare` the areas that were left with none on purpose
or by a death.
`Notifications` records what should not have been sent: `strays` counts the broadcasts written
for a user blocked meanwhile, `missent` the pushes to a phone that has passed on. The gateways themselves
(FCM, SMS) do nothing that is read back.

### Payroll and the code

`rows[t][a]` are the month's rows of agent `a` in `agent_incentives` or `salary_records`; a
generation reads its setting through the cache, then its inputs, then goes through the agents.
Amounts are integers as in `Pricing`, and the incentive rounds like `round2`. `undone` is the
set of rows where a generation took back what an admin had decided. One process: the cache of another one is stale for
thirty seconds by design, and no property is about it.

## 4. Runs

| Run | Instance | What it shows |
|---|---|---|
| `concurrent` | 1 booking, 2 agents, 2 requests at a time, 2 upsets | What survives any interleaving: work only after the OTP, no phantom or unexplained money, a complete audit trail, no payout for an uncompleted job, no status skipped |
| `serial` | the same with 1 request at a time, 2 slots, 1 upset | What each handler keeps on its own, also if it dies: the payment mirror, an agent on every worked-on job, one earning, and the refinement of `BookingLifecycle` |
| `liveness` | 1 booking, 1 agent, 2 requests, 1 upset, `FairSpec` | Captures reach the ledger; completed jobs are paid out |
| `unpaid_work` | as `serial` | Violation: an unpaid booking enters the paid pool |
| `resurrected_booking` | as `concurrent` | Violation: a cancelled booking comes back |
| `unrefunded_cancel` | as `serial` | Violation: a captured payment of a cancelled booking stays PAID |
| `intake` | 3 bookings, 2 requests at a time, 1 coupon for 1 redemption with 2 possible offers, 1 line, 1 plan, 2 upsets | No bill is negative or discounts more than the order, a booking with a history is complete, redeemed coupons stay; and by how much limit, counter, payment rows and completeness can go wrong per overlap or death |
| `coupon_oversold` | as `intake` | Violation: a coupon redeemed more often than its limit |
| `accounts` | 1 user or 2 admins, 2 passwords, 1 attempt, 2 codes, 3 tokens | One valid code, limited guesses, one session per login, old passwords dropped, an admin left, blocks kept; each up to one per overlap |
| `payroll` | 1 agent, 1 earning, 2 thresholds, deductions that exceed the salary | One row a month, committed money and entered deductions kept, totals that add up, an edited setting in force |
| `services` | 1 booking with 3 items; 1 service, 3 prices, 2 categories, a home card; 1 area with 3 listings; 1 phone and 2 users | One row per booking, whole checklists, milestones kept; one active price, no dangling deletion; one listing for an area, and none only if it was left so; notices that follow their users |
| `profiles` | 2 agents, 2 jobs; 3 addresses, 2 areas | Decisions kept, no suspended agent at work, one desk row each, assignments that fit the calendar; one default address and its home zone |

**Two kinds of promise.** The division between `concurrent` and `serial` is a result in
itself. `MirrorsPayment`, `WorkHasAgent`, `OneEarning`, the finality of terminal statuses and
the refinement hold when requests do not overlap and fail when they do (`resurrected_booking`
is the witness recorded; the others fail by the same stale save, by two overlapping
`complete`s, or by a claim lost to a settle that loaded the row as `finding`). The
properties of `concurrent` do not depend on serving requests one at a time. The other modules
say the same in numbers: with no overlap the limit holds, the counter is exact, there is one
row, one code, one default; and `CouponDriftBounded`, `LeftoversBounded`, `CodesBounded`,
`RowsBounded` and the like say that each overlap (or death, where the formula says so) costs
at most one. What a formula does not excuse by `overlaps` or `deaths` holds without exception.

**Bounds.** An *upset* of `BookingRequests` and `BookingIntake` is a request starting while
another is in flight, or a request dying; `MaxUpsets` bounds their number, not the length of
the behaviour, and serial requests cost nothing. Each race in section 1 is between two
requests, so two upsets are two such races in a row, or a race and a death. The modules on
`Server` count the two apart, with `MaxOverlaps = 1` and `MaxDeaths = 1`: one race of every
two handlers, with a death before, during or after it, and any number of serial requests.
With two overlaps the bounds per overlap were checked once, apart from the runs, for
`Accounts` (0.9 million states); two overlaps in the other modules, at their full size, are
beyond the runs' time. One booking is enough for
every property of the first six runs, since their handlers touch one booking; the calendar has
its two jobs in `profiles`. Two agents are needed for claim, reject and reassign to compete.
Agents, requests, bookings, users, addresses and areas are symmetric where no constant tells
them apart. Deadlock is checked in the first six runs (a `Decline` is always possible) and in
`payroll`; elsewhere the bounded rows, codes, tokens or ids run out and nothing is left to do.

In `intake` three bookings are the fewest with which two overlapping redemptions can exceed
a limit of one and a third can follow an admin's stale save; three numbers let two customers
draw the same one. The line's price is a fraction that must be rounded, one offer exceeds it
and the other is capped; the plan shares a cook.

In `accounts` one attempt is enough for a guess more than the limit, two codes for two valid
ones, three tokens for a rotation and a login. In `payroll` the earning exceeds one threshold
and the other, and the deduction exceeds the salary. In `services` each phase has one item, the
item of the middle one not required, with a template of another service type seeded first; one
area for prices and "any". No statement touches the listings of two areas, so one area is enough
for its listings; two built-in codes let an admin's change of code make the seeding find it under
the other; three listings are one to start with, one to replace it and one brought back. An
area's update changes one column.
In `profiles` the two starts are one apart, each job lasts two, and the day has four, so that
two jobs always collide and the later one reaches midnight; one agent's row changes and the other's is there to
be assigned to. `JobsSurvive`: requests about jobs do not die there, to keep the instance small;
what their deaths leave of a booking is the subject of `BookingRequests`.

Types: `TypeCorrect`, `IntakeTypeCorrect`, `AddressTypeCorrect`, `AccountTypeCorrect`,
`AgentTypeCorrect`, `PayrollTypeCorrect`, `ExecutionTypeCorrect`, `CatalogueTypeCorrect`,
`AreasTypeCorrect` and `NotificationsTypeCorrect` are theorems, so those runs do not list the type
invariant, and neither does `intake` list `NumbersDistinct`, which is a theorem, too.

**Fairness.** `FairSpec` assumes that a request in flight gets on (`WF` of `Execute`: a
Node.js server does not abandon an awaited statement unless it dies, which is `Crash`),
and that the gateway redelivers an unanswered event often enough to be served (`SF` of
`Redeliver`: strong, since the server may be busy with other requests again and again).
Nothing is assumed of customers, agents or admins.

## 5. Findings

* **Unpaid work.** `assign-agent` accepts `finding` bookings and `reject` writes `paid`
  unconditionally, so assigning and rejecting an unpaid booking puts it into the open pool.
* **Resurrected bookings.** `transition` saves the whole entity: a handler that loaded the
  row before a cancel committed writes the old status back.
* **Unrefunded captures.** A capture the server learns of after the cancel marks the
  cancelled booking's payment PAID; nothing refunds it.
* **Oversold coupons.** The usage limit is compared when the coupon is loaded, and the
  redemption counted four writes later: whoever loads it in between redeems it too.

Two more are plain to read in one handler and need no run: the DTO of `verify` calls its booking
the one "the checkout belonged to" (`verify-payment.dto.ts:5`), but the handler settles whichever
booking it is handed (`customer/payments/payments.service.ts:85-105`), so a booking can be PAID
with nothing captured on its own order; and `onAgentArrived` says that it verifies the items of
the first phase (`enhanced-booking.service.ts:81`), but loads them and moves the checklist on.

Seen while modelling, and not recorded as runs because the repository promises nothing
about them: a booking that was pre-assigned and then paid is in no agent's reach (not in
the open pool, and `arrived`/`start` need `accepted`) until an admin assigns it again; a
`payment.failed` event handled after `payment.captured` replaces PAID by FAILED;
`createOrder` with a payment method writes a stale PENDING over PAID; a death between
claim and transition takes a paid job out of the pool without accepting it; a booking whose
total is zero can never be paid for, since `createOrder` refuses it, and stays in `finding`;
an admin's save of a coupon takes redemptions counted meanwhile out of `used_count` again.

In accounts and notifications: `create-admin` resets a password without revoking sessions; a
phone's registration that overlaps its removal by the former user can leave it inactive, and of
two registrations at once the loser's may stay; `purgeExpired` and the cache's `invalidate` are
never called.

In agents: `assertNoClash` misses a job that ends past midnight, and jobs pre-assigned while
still `finding`; `accept` and `reschedule` look at no calendar; documents may be removed after
the approval; `reject` does not count ongoing jobs; agents set their own skills' training status.

In addresses and zones: an update with `isDefault: false` leaves a customer without a default;
the city lookup takes twenty areas at most.

In service execution: `completeService`, `handlePaymentSuccess`, `settlePayment` and
`submitCustomerFeedback` are never called, and `completePhase` never reached (section 3), so
no checklist is ever completed and what it would require of the items is required by nobody; the percentage is not computed again when a phase adds items; the
checklist tables are in no SQL script; `initializePayment` inserts a row each time, and taxes a
total that is taxed already; the reviews' foreign key has no CASCADE in SQL though the entity
says so.

In the catalogue and the areas: moving a price to another service and removing that service
deletes a price that a booking quoted; `updatePopular` validates only the links in the request;
`seedCatalog` overwrites admins' edits at each boot, and a zone whose code an admin changed is
created again; an area saved with stale listings is refused by NOT NULL, or inserts deleted
listings again.

In payroll: a net salary may be negative; the caches of other processes are stale for up to
thirty seconds.


## 6. Proofs

The theorems about bookings in progress hold for arbitrary sets of bookings, agents, slots
and concurrent requests and any `MaxUpsets`, under `ConstantsAssumption` only (`NoAgent` is
not an agent, `MaxUpsets` is a natural number).

* `TypeCorrect`: `Spec => []TypeOK`. One lemma per group of actions.
* `Causes`: `Spec => []IInv`. What a request writes was in its memory since it loaded it,
  so an invariant about rows alone is not inductive: `IInv` says of each row *and of each
  request's memory* that it has its cause. A status of `ongoing` or `completed` has the
  OTP presented (`otpShown`), a payment status of PAID or REFUNDED has the capture or the ids
  that `verify` was handed for it (`Settleable`), and a
  status is one the booking has had or one the table lets follow it. Causes are never
  taken back (`NextCausesGrow`), so a memory that was justified when it was loaded stays
  justified however stale it gets (`MemoryStays`): that is why these properties survive
  every interleaving while others do not. The admin's cancel, whose change of the entity
  comes after its second read, adds the clause about `readPayment`.
* `OtpBeforeWorkAlways`, `NoPhantomMoneyAlways`, `NoStatusSkippedAlways`: consequences.
* `Traces`: `Spec => []TInv`, which adds to `IInv` what happens *after* a status: a payment
  status that claims money is `Explained` (its capture is in the ledger, or in a request that
  will write it, or its request died), a status the row has had is `Audited` in the same three
  ways, and an earning has a completed booking behind it. It is inductive only with what a
  request still has to do: a request that holds a PAID entity and has yet to save it must either
  find the capture explained already or carry its own transaction row (`MemoryTraced`), and
  `Shape` says which statements occur together. `LedgerExplainsPaymentAlways`,
  `AuditTrailAlwaysComplete` and `EarningsOnlyForCompletedAlways` follow.
* `SerialInOrder`: `Spec => []SInv` with requests that come one at a time (`Serial`: there is
  one request identifier, which is how the run `serial` says it), for any number of bookings,
  agents and deaths. `SInv` says how far the request in flight has got: what it holds leads on
  from its row (`Leads`), and what it will leave in booking and payment agrees
  (`FinalRowPay = FinalPay`). The rows themselves are in order between requests only.
  `MirrorsPaymentAlways`, `WorkHasAgentAlways`, `OneEarningAlways` and `TerminalIsFinalAlways`
  follow. Without `Serial` they are false, as `resurrected_booking` shows.
* `Refines`: under `Serial` each step of the statements maps to one of `BookingLifecycle` or to
  a stutter. A handler's step up to its save stutters, the UPDATE is the abstract step, and
  `Leads` is what the UPDATE needs to be one.

Those about the intake hold for any finite sets of bookings and concurrent requests, any
numbers, prices, plans, offers, limits and tax rate, under `IntakeAssumption` (amounts and
rates are natural numbers) and `NoneAssumption` (the markers for "none" are not rows).

* `FirstPersonPaysFull`: the discount of a shared cook never reaches the first person's rate
  or the cleaning, for any people, rate and percentage. It rests on lemmas that `Rounded`
  keeps order and bounds; so do `CouponDiscount` and `Bills`.
* `IntakeTypeCorrect`, `BillsAlwaysAddUp`, `NumbersAlwaysDistinct`: a bill is good from the
  moment it is computed, so `BillInv` says it of every row and every request's memory; a
  number is distinct because the unique index decides at the insert, not the earlier look.
* `RedeemedCouponAlwaysKept`: the foreign key decides at the delete and at the usage row,
  whatever was counted before.
* `HistoryAlwaysMeansComplete`: needs `IntakeInv`. A request that creates a booking is the
  only one to do so (`OneCreator`), and what it no longer has to do is in the tables
  (`CreateInv`); the history row is the last of its statements, so when it is written nothing
  is left.
* `CounterNeverAhead`: needs `CountInv`. The counter plus the redemptions inserted but still
  to be counted (`Pending` holds those whose usage row is written) never exceeds the usage
  rows, *and the same holds of every copy of the counter in a request's memory*: a save can
  only put back a copy, and usage rows are never taken back, so an old copy is never too
  high.

* `CouponDriftAlwaysBounded`: `DriftInv` counts the redemptions under way with those done
  (`Covers`) and says of every copy of the counter in a memory how far it may be behind. A
  redemption that checked the limit alone costs nothing, so the row's own counter has one more
  to spare than a copy.
* `LeftoversAlwaysBounded`: an incomplete booking is paid for by the death of its create, or by
  the deletion of its coupon, which must have overlapped it (`LeftInv`, where a coupon about to
  go leaves one less to spare); a second payment row by the overlap of the two requests that
  both found none (`PaymentInv`).

Those about the modules on `Server` hold for any number of requests at once, overlaps and
deaths.

* `ServerProofs` states what `Start`, `Go`, `Answer` and `Die` keep, whatever the handlers:
  the type of the requests' memory, for any set of steps, and `Alone`: until the first
  overlap, one request at most is in flight.
* `ZoneIsActive`, `ZoneFound`, `PincodeDecides`: about `Resolved`, for any place and areas; no
  assumption but that distances are natural numbers or unknown.
* `AddressTypeCorrect`: the memory includes the steps still to do, so the proof says of each
  step which ones may follow it.
* `AccountTypeCorrect`, under `AccountsAssumption` (there is an admin; the user is none; users'
  missing password is no password) and `NoRowAssumption`. `TypeInv` adds to the types that the
  code, token or account a request is about is there (`There`): rows are never taken back.
* `SomeAdminAlwaysActive`, `BlockAlwaysKept`: a save writes what the request has in memory, so
  the invariant (`SafeInv`) is about the memory: while there was no overlap, the one request in
  flight holds the account's flag as it is, or sets it, or clears it and some other admin is
  active (`Fresh`). It is inductive only with `Alone`: another request in flight could make the
  copy stale. That is also why both properties fail with overlaps.

* **Counting overlaps.** The properties that bound what goes wrong by `overlaps` (and `deaths`)
  are not inductive: when the damage is done, the overlap that paid for it may be long past, and
  another request may spend it again. Each invariant therefore counts what is spoiled *and* what
  a request in flight may yet spoil, against the same budget. A request that starts alone adds
  to the count and pays nothing, so the count may exceed the budget by one while a certain
  condition holds (a *slack*), and the request that ends the condition gives the one back. Lemma
  `Afforded` of `ServerProofs` does the arithmetic of such a step for two finite sets.
  - `SessionsAlwaysBounded` (`SessionInv`): live sessions and rotations under way; the slack is
    a rotation whose old token is still alive, both being in the count.
  - `CodesAlwaysBounded` (`ValidInv`, `GuessInv`): usable codes and requests that will insert
    one; the slack is a code together with the request that will expire it. A guess is either in
    its row, or in the memory of a request that will write it, or lost to an overlap or a death.
  - `OldPasswordAlwaysDropped` (`OldInv`, with `PlainUser`): stale sessions and the requests that
    will open one. A session is stale when its password is not the account's *or not the one a
    save may put back*; the slack is a login with the password of today.
  - `RowsAlwaysBounded` (`RowsInv`): an agent's rows of a month and the generations that found
    none. `CommittedAlwaysKept` (`CommitInv`): decisions undone, and decisions a generation in
    flight, or an admin in flight, puts at risk. `TotalsAlwaysAddUp` (`TotalsInv`): rows that do
    not add up or will not when the saves on them are through.
  - `OneDefaultAlways` (`FlagInv`): default flags, set or about to be set by a request that has
    the address in memory, and requests that have yet to choose one; the slack is a default
    together with the request that replaces it. That the home zone is the default's, one request
    at a time, is a second invariant (`SerialInv`): it says of each step what the ones that
    follow it will make good (`Promised`).
  - `EditAlwaysInForce` (`CacheInv`): without overlap and death, the only request that may leave
    a stale entry in the cache is the one that is about to drop it.
  - `OneRowEachAlways` (`RowsInv`): the rows of each desk table, and the requests that found
    none and will insert one.
  - `DecisionsAlwaysKept` (`DecisionsInv`) and `SuspendedAlwaysIdle` (`IdleInv`) share a
    budget, `Owes` of `ServerProofs`: with requests `BB` in flight, all of them but one have
    each paid an overlap, and what is lost already, and what the requests in flight may still
    lose, is covered by what was paid. A request is *at risk* once another has decided behind
    its back; a decision of an admin that overlaps a save is paid for by the later of the two.
    `Faithful` and `Overtaken` say which copies of a row a save may write without undoing
    anything, `Stopped`, `Stuck` and `Fresh` which jobs a suspension has seen to. A suspension
    that a save overlaps from before its look at the jobs is the case that needs `Outdated`.
  - `AssignmentAlwaysFits` (`FitInv`): until the first overlap, what the assignment has in
    memory is what its look at the calendar saw, so a collision would have been seen
    (`CollisionSeen`).
* `AgentTypeCorrect`, under `AgentsAssumption`; like `AccountTypeCorrect` it says that the rows
  a request is about are there (`There`), and besides which step may hold which table's memory.
  Its proof found that the assumption allowed a bound on rows of zero, at which an initial state
  with a verified document is not well typed; it now asks for a positive one.
* `PayrollTypeCorrect`, under the assumptions of `Payroll` (its amounts are natural numbers,
  `None` is no generation).
* `NotificationsTypeCorrect`, `CatalogueTypeCorrect`, `ExecutionTypeCorrect`, under the assumptions of
  their modules. Each says besides that what a request in flight is about is there: phones and
  notices (`Noted`), the columns of the row its step writes, checklists, items and executions
  (`Aimed`). Those of service execution come with facts about sequences and sets that its
  handlers use again and again.
* `NoticesAlwaysFollowUsers` (`StrayInv`, `MissInv`): broadcasts written for a blocked user and
  those in flight to one; phones that are out of place, pushes gone astray and those that may
  yet. Both use `Owes`.
* `DeletionsAlwaysSound` (`FreshInv`): until the first overlap what a request has in memory still
  holds: the row it is about is there, and the service whose prices it is about to delete is
  not booked. No id is given out twice.
* `PricesAlwaysOne` (`CrowdInv`): for a service and an area, the active prices beyond the first
  and the requests that are about to add one (`Crowds`), against `Owes`.
* `RowsAlwaysOnce` (`OnceAll`): rows and the requests about to insert one, for the execution, the
  feedback, the rating and the checklist, exceed the overlaps by one at most. Items are harder,
  since a phase's items are inserted by whoever enters the phase, one request after another.
  Each request has a *role* for a checklist (`Role`): it looks at the phase, is about to enter one,
  adds the items of one, or completes the list; `Turns` lists how statements change role and phase.
  `Brings` adds up the copies there are of an item and the requests whose role may still bring
  one, with one to spare (`Spare`) while the list is in the second phase and nobody is about to
  take it further. The
  seeds must be distinct for it, as those of the code are: the assumption now says so.
* `ChecklistAlwaysWhole` (`WholeInv`): until the first overlap and the first
  death the templates are seeded all or none (`Ready`), what the request in flight has in memory is
  what the rows say (`Sure`), and an item of a phase entered is in the checklist or among those the
  request still has to add (`Whole`).
* `MilestonesAlwaysKept` (`KeptInv`): no bound on the rows' own sum is inductive, since a pending save
  may take a row back to what it read. There is instead for each execution a number that its row
  and every pending save stay at or above (`Reserved`), and these numbers add up to the milestones
  logged and pending, but for one per overlap and one to spare while a save is pending. The last
  pending save raises the number of its execution.
* `AreasTypeCorrect`, with `Marked`: the histories name areas and listings that there were.
* `ListingAlwaysOne` (`SoleInv`): a save may insert rows again that another request has deleted since
  they were read, so the invariant is about the listings of an area that there are *or that a request
  in flight may bring back* (`Alive`). Of these, one at most was inserted by a replacement that had
  the area to itself at its DELETE; and there is none while a request is about to insert such a one
  (`Sure`), for at its DELETE no other request held any, and one that came later has loaded none.
  The bound per overlap that one would expect instead does not hold: with four requests, one overlap
  can leave two listings too many, as the attempt to prove it showed.
* `ListingAlwaysKept` (`KeptInv`): an area without a listing was left so, or a request between its
  save and its INSERT is about to list it (`Relists`). A request that creates an area always comes to
  its DELETE.
* `AllNumbers`, `TotalIs`, `TotalGrows`: what `MilestonesAlwaysKept` needs of sums. `Total` is a
  recursive function; that it grows with its sequence is an induction over the length, done here for
  sets of numbers (`AllNumbers`, by the least number left out) and not for predicates.

Each of these invariants was an invariant of TLC runs on small instances before it was proved.
The attempt to prove `CommittedKept` with `undone` as a number of writes failed for a reason:
it is a row that an overlap costs, and more than one generation may write over it. The property
now counts the rows. Likewise `NoticesFollowUsers` as one sum of phones, pushes and broadcasts: with
three requests, of which the instance has two, one overlap pays for a push and for a broadcast, as TLC
showed. Each is now bounded by itself, and a broadcast to several blocked users counts once.

Only model-checked: both liveness properties, `CaptureReachesLedger` and `CompletedIsPaidOut`.
Liveness under fairness and `ENABLED` are out of the proof system's reach. The violations are TLC's
traces.

## 7. Not modelled

* Support tickets, dashboards, reports, payment and earning lists: queries, and handlers that
  write one row nobody else's decision depends on.
* Agents' skill rows and the seeding of the skill catalogue; the creation of admins (a script
  at the command line); uploads, file storage, audit rows, the SMS and push gateways: nothing
  reads them back.
* What deleting an area does to the addresses that refer to it (`ON DELETE SET NULL`): areas do
  not change under an address in `Addresses`.
* `completePhase`, which no request reaches.
* Other processes' caches, and the development mode without gateway keys.
* Configuration, health checks, the schema scripts but for the keys and indexes named above.
