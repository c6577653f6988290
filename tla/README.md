# A verification project for the HR attendance platform

This directory holds TLA+ models of the platform's services, TLC configurations that
model-check them on small instances, and theorems about them with machine-checked proofs.
Paths below are relative to the repository; `REQ-…` numbers are those of
`.kiro/specs/hr-platform/requirements.md` unless said otherwise.

Contents: [the system](#1-the-system) · [inventory](#2-inventory) ·
[how the code is modelled](#3-how-the-code-is-modelled) · [the modules](#4-the-modules) ·
[the runs](#5-the-runs-and-what-they-show) · [the proofs](#6-what-is-proved) ·
[where code and documents disagree](#7-where-code-and-documents-disagree) ·
[limits](#8-limits-and-assumptions) · [the plan](#9-the-plan).

## 1. The system

A TypeScript monorepo. `packages/core` has the services and the pure rules, `packages/data` the
DynamoDB, S3, SES and Cognito adapters, `packages/api` the HTTP handlers that run as an AWS Lambda
function, `packages/web` a React application, `packages/slack` reply templates, `packages/cli` and
`infra` the deployment.

Requests reach a handler through `api/src/handlers/router.ts`; `withAuth` builds the actor from the
token's claims and picks the services of the tenant (`api/src/composition.ts`); the handler checks a
permission and calls one service; the service reads and writes items of **one DynamoDB table** through
repositories. Three facts shape everything that is hard about it:

* A request is one Lambda invocation, and many run at once. Every `await` is a point where another
  invocation may run. Nothing in memory is shared.
* All writes but one are unconditional `Put`s or upserting `Update`s of one item. There is no
  transaction, no version and no condition, except on the creation of a lock.
* An invocation may end at any `await`: the SDK throws and the router answers 500
  (`router.ts:47-60`), or Lambda reaches its time limit (`infra/lib/api-stack.ts:26`). What was written
  stays written. Reads do not ask for consistency, and secondary indexes lag behind the table.

## 2. Inventory

| component | state it keeps | operations | hard behaviours | what makes it correct | modelled in |
|---|---|---|---|---|---|
| **Attendance clock service** `core/src/attendance/service.ts` | event items, one state record per employee, audit items | `processEvent` (lock check, duplicate and order check, state machine, three writes), `editEvent`, queries | two requests of one employee interleave; death between writes; stale reads; edits move events | the log is a run of the state machine; state record and log agree; every write is audited; locks hold | `Attendance`, `Timecard`, `StateMachine` |
| **Attendance locks** same file, `data/src/dynamo/attendance-lock.ts` | lock items per month, scope and target | `createLock` (conditional), `removeLock`, `checkLocks` | a lock appears between the check and the write | a lock that stood when a request came in is honoured | `Attendance` |
| **Hours** `core/src/attendance/hours-calculator.ts` | none | sessions and breaks of a day, hours, open-session hours | several sessions and breaks, open ones, midnight, rounding | hours are the time spent clocked in | `Hours` |
| **Payroll** `core/src/payroll`, `core/src/overtime` | salary history | blended salary, overtime, deficit, net; monthly report; employee's own breakdown | changes in mid-month, boundaries of segments, rounding | each day is paid at the salary in force on it; work never lowers pay | `Payroll` |
| **Leave requests** `core/src/leave/service.ts` | one item per employee and start date, an index, audit items | create (with balance check), approve, reject | check and write are apart; balances and index lag; `Limit 1` before filter | quota; a decision changes a real request and nothing else; audit | `Leave`, `LeaveLedger` |
| **Onboarding, offboarding, employee records** `core/src/onboarding`, `core/src/employee`, `data/src/cognito` | employee item, salary items, login, audit items | `onboard` (two concurrent calls, compensation), `offboard`, `PATCH` | one of two concurrent calls fails while the other runs on; lost replies; half-done compensation | who is reported onboarded has everything; who was ended stays out | `Lifecycle` |
| **Policies** `core/src/policies` | company, group and user documents | cascade of four layers, get, save | layers read concurrently; cache of the (unwired) S3 store; pages save a document they cached | the most specific layer in force wins, field by field | `Policy`; the routes, queries and saves of its pages in `Api`, `Screens`, `Pages` |
| **Flags, quotas, force majeure** `core/src/flags` | flag items | when to flag, how a resolution offsets hours, quota plans, adjusted hours | a resolution is computed and never stored; re-run overwrites | a resolution splits the hours it is told of; redistributed hours stay whole | `Bank`, `Cron` |
| **Hours bank** `core/src/banking`, `data/src/dynamo/bank.ts` | bank entries | list, approve (always throws), expiry | expiry boundary in days and in moments, abort half-way | a draw takes no more than an entry has, and nothing once it has expired | `Bank`, `Cron` |
| **Scheduled checks and reminders** `core/src/cron` | flags, bank entries | daily, weekly (empty), monthly checks, three reminders | re-runs, death in the middle of a loop, employees who clock meanwhile, an index that lags | nobody who needs a flag is without; a re-run adds and removes none | `Cron` |
| **Leave accrual** `core/src/leave/accrual.ts` | none | monthly accrual, cap, carry-over, mandatory days | boundaries of tiers, cap and forfeiture | a balance never exceeds cap, nothing is lost but what is forfeited | `Accrual` |
| **Overtime** `core/src/overtime` | none | pay by the hour, deemed hours, 36 Agreement | limits met exactly, limit 0 | each hour is paid its rate; verdicts rise with the hours | `Overtime` |
| **Terminations** `core/src/onboarding/offboarding.ts` | none of its own | settlement preview, legal obligations, cure period | months too short, leap years | deadlines fall where the contract has them | `Settlement` |
| **Holidays, regions, configuration** `core/src/holidays` | holiday items | generate, add, remove, list | Sundays, Mondays and equinoxes that meet | the Act's list, each year | `JpHolidays`; the list of Nepal is a table |
| **Permissions, roles, request context, router** `core/src/permissions`, `api/src` | role items no check reads | `hasPermission`, `authorize`, routing | the first route that fits wins; pages and handlers ask for different permissions | every page's requests are admitted and reach their route | `Api` |
| **Web** `packages/web` | query cache, saves on their way, session | pages, queries, refetch after saves, polling, sign-in and -out | answers overtaken by saves, forgotten invalidations, users that take turns | a save is seen by who made it; a page left open catches up | `WebClient`, `Screens`, `Pages`, `ClockPanel` |
| Composition, tenant keys `api/src/composition.ts` | per-tenant services | wiring, keys | catch-all around handlers | tenants share no key | `Die` of each model |
| Daily reports `core/src/reports` | report items | parse, create, list | every report is version 1, so the second of a day replaces the first | – | no: one `Put` |
| Audit queries `core/src/audit` | none of its own | lists | none | read only | variable `audit` of each model |
| Documents, email, monthly summaries | none wired | stubs | none | – | no: input and output |
| Slack `core/src/attendance/keyword-matcher.ts`, `packages/slack` | none | keywords, replies | none | – | no: text; a keyword becomes a `Clock` action |
| CLI, infrastructure, development server | none | deployment | time limit, indexes, the schedule | – | only the facts other models use |

How they meet: attendance asks the lock items and the employee item (for the employment type) before
each clock event; the payroll report reads events, approved leave, salary history, employee and policy
and writes nothing; onboarding writes the employee and first salary items the others read; every service
that writes appends its own audit items. No service calls another service, except for the policy: what
couples them is the table.

The hazards of the code, each with its line and the property that would notice it going wrong, are the
`hazards` of `PROJECT.json`. In short they are: checks and writes that are several awaits apart
(attendance, locks, leave), sequences of writes cut short by a death or one failing call
(attendance, leave, onboarding, offboarding, scheduled checks), reads that are stale (state record, index,
the browser's cache), upserts that overwrite what another request wrote (leave requests, salary entries, flags,
employee records), and boundaries (idempotency window, midnight, segments of a blended salary,
quota, ids made from the clock, expiry, month ends).

## 3. How the code is modelled

*Actions are the stretches between awaits.* Each module has request slots (`req`, `work`, `flow`). An
action takes the request from one await to the next and makes the reads and writes in between; other
requests' actions run in any order in between. `pc` names the await a request is waiting at. A slot that
is free again may serve another request, so histories are not limited to as many requests as slots.

*Deaths and lost replies.* `Die` ends an invocation anywhere; nothing is undone. In `Lifecycle` every
call also has an outcome: it succeeds, fails without effect, or fails although it took effect.

*Stale reads.* In `Attendance`, `stateCopy` and `lockCopy` are what a lagging replica still shows; with
the switch `StaleReads` a read may return either. In `Leave`, `readable[e][d]` holds the paid days of every
version of an item that a query may still return, until `CatchUp`; a balance is summed over any choice of
them (`DaysRead`), since `findByEmployee` does not ask for consistency. `indexed` is the set of ids the index
shows. In `Cron`, `unshown` holds the events that not every replica and index shows yet; the query of GSI2 and
the queries per employee may each miss any of them (`Without`). These two have no switch: reads are always
like that there.

*Switches.* `Overlap`, `Apart`, `Faults`, `StaleReads`, `Collide` say what the environment may do. They are not
features of the code: the code never prevents any of it. They let a run, or a theorem's hypothesis, say
exactly under which circumstances a promise holds. `Overlap = FALSE` means that an employee does not have
two requests of that kind in flight at once; other employees', managers' and administrators' requests
always interleave. `Apart` of `Leave` is stronger: an employee submits again only once every replica shows
the earlier submissions and decisions (`Shown`). Decisions are never held back by it, so a balance may well
be read from items that are behind.

*Disagreements.* Where the code departs from a document and a run shows it by a counterexample, the property is
the document's. Where it does not have a run of its own, the property says exactly what the code does
instead, and its comment names the requirement it departs from: `BlendAccounted`, `OvertimeEscalates`, `HoursAddUp`,
`CalendarKept`, `FlagsRight`. Section 7 lists them all.

*Histories.* `locks[k]` remembers when a lock appeared, and `onboarded`, `ended` and `revived` who was
reported to whom; they only serve to state properties.

*Pure rules.* Rules that read and write nothing (bank offsets, quotas, overtime, accrual, policies, holidays,
terminations) are operators. `BackOffice` asks them about one input at a time: an `Ask…` action puts an
input into the variable `asked`, and the property of the rule is an invariant over it. The inputs are all
those of a small set, named in the action.

*External code.* React Query, which keeps the cache of the web application, and JavaScript's `Date` are not
part of the repository. They are modelled from how the code uses them (options, calls) and marked external.

*Data.* Names, messages, notes and replies are left out. Timestamps are small integers, an event's key is
the timestamp it was created with, days and months are functions of a timestamp. Audit items are kept by
what they are about. Money and hours are exact fractions (see 8).

## 4. The modules

| module | what it is | code |
|---|---|---|
| `StateMachine` | states, actions, transitions; logs and when they follow the machine | `core/src/attendance/state-machine.ts` |
| `Timecard` | abstract: a card on which an entry is checked and written in one step | what `processEvent` promises |
| `Attendance` | clock requests, edits, locks over the table | `core/src/attendance/service.ts`, its repositories and handlers |
| `LeaveLedger` | abstract: entering a request against the quota in one step, and deciding one | what `LeaveService` promises |
| `Leave` | submissions and decisions over table and index | `core/src/leave/service.ts`, `data/src/dynamo/leave.ts` |
| `Lifecycle` | onboarding, offboarding, updates over employee, salary, login, audit | `core/src/onboarding`, `data/src/cognito`, `data/src/dynamo/employee.ts` |
| `Hours` | sessions and hours of a day, as folds, with a reference definition | `core/src/attendance/hours-calculator.ts`, `service.ts:106-123` |
| `Payroll` | the report of a month over a growing log and salary history | `core/src/payroll`, `core/src/overtime` |
| `Cron` | the daily and monthly checks over logs, flags and bank; reminders | `core/src/cron`, `infra/lib/scheduler-stack.ts` |
| `Bank` | rules of bank, flags, quotas, force majeure | `core/src/flags/service.ts`, `data/src/dynamo/bank.ts` |
| `Accrual`, `Overtime`, `Policy` | the rules of leave accrual, overtime and the policy cascade | `core/src/leave/accrual.ts`, `core/src/overtime`, `core/src/policies/resolver.ts` |
| `JpHolidays`, `Settlement` | the calendar: holidays of Japan, dates of a termination | `core/src/holidays/jp-generator.ts`, `core/src/onboarding/offboarding.ts` |
| `Api` | roles and permissions, the routes in their order, what each asks and touches | `core/src/permissions/engine.ts`, `api/src/handlers` |
| `Screens`, `Pages` | query keys, requests and invalidations of the hooks; what each page loads and offers to a role | `web/src/hooks`, `web/src/components` |
| `WebClient` | a browser tab: session, page, cache, requests and saves on their way | `web/src/hooks`, `web/src/App.tsx` |
| `ClockPanel` | the buttons of the clock widget beside the clock service | `web/src/components/dashboard/ClockWidget.tsx` |
| `BackOffice` | the checks beside the rules: every rule is asked about its inputs, one at a time | as for `Cron` and the rules |
| `MC…` | constants for TLC | |
| `CommonLemmas` | lemmas on logs, on sums and folds over finite sets, on greatest and least numbers | |
| `TimecardProofs`, `AttendanceProofs`, `LeaveProofs`, `LifecycleProofs`, `PayrollProofs`, `BackOfficeProofs`, `WebProofs` | theorems and proofs | |

Operators marked `MUTANT` are plausible bugs of the definition they precede; they are used by no
specification. Substituting one for its definition makes the property named for it in `PROJECT.json` fail.

### Attendance

| code | model |
|---|---|
| item `EMP#e / ATT#date#timestamp` | `events[e][k]` with key `k`, the timestamp it was created with |
| item `EMP#e / ATT_STATE`, IDLE if missing | `attState[e]` |
| lock items | `locks[k]` |
| `processEvent` | `Clock` → `CheckLocks` → `ReadState` → `SaveEvent` → `SaveState` → `AuditClock` |
| `checkLocks` | `Covers`: company, the group of the employment type, the employee |
| idempotency window and order (`service.ts:213-228`) | `InTime` |
| `editEvent` | `StartEdit` → `GetEvent` → `EditLocks` → `EditSave` → `AuditEdit` |
| `createLock`, `removeLock` | `CreateLock`, `RemoveLock` |

An edited event carries the keys of the item it was read from, and these override the ones `saveEvent`
builds, so it stays under its first key (`data/src/dynamo/attendance.ts:45-54`); `PutEvent` writes at `ref`.
The handler takes any text for the new timestamp and action: `OtherTime` and `OtherAction` stand for those
that are none. The month of such a timestamp is nobody's, so no lock stops a later edit (`LocksOld`).

`ImplementsTimecard` is `Timecard`'s specification with `card[e]` mapped to the actions of `events[e]`.

### Leave

`Submit` → `ReadBalance` (for paid leave, from what a query may return) → `Put` → `AuditCreate`, and `StartDecision` → `Find` →
`Refind` → `Update` → `AuditDecision`. The second lookup is the one the repository's `update` makes. The
key of a request is the employee and the start date, so `Put` replaces an earlier request for that date.
The balance counts paid requests of every status, as the repository ignores the status it is asked for.
`Write` is any write of an item: queries may return the version before it until `CatchUp`. `ImplementsLedger`
maps `leave` to `ledger` as it is.

### Lifecycle

`Onboard` → `Create` → then two calls at once, `CreateUser` → `AddToGroup` (field `auth`) and `AddEntry`
(field `pay`) → `Report`; one that fails makes `Rollback` possible at once, while the other still runs and
may go on after the reply (`replied`) until it is dropped with the frozen invocation (`Drop`).
`Offboard` → `FindEmployee` → `Deactivate` → `Disable` → `AuditEnd`. `Patch` is the administrator's
`PATCH /employees/:id`, an upsert of any id. The auth provider is either the Cognito adapter or the stub
that `composition.ts:73` wires; the adapter creates users under the email address and is asked to disable
them by employee id.

### Hours and Payroll

Time is in slots. A log grows by legal events (`Clock`), at most one per slot; salary entries are added
under their effective date and replace one with the same date; leave is approved. Everything else is a
function of that state, as the report is. `Sessions` is the loop of `buildSessions` as a fold over the
events; `SecondsWorked` is the reference, read off the log directly: from each `CLOCK_IN` or `BREAK_END`
to the next event.

### Cron, Bank and the other rules

`StartDaily(d)` reads the events of a date from the index, which may miss some (`unshown`, until `CatchUp`),
`SaveUnclosed` saves the flag of one employee, `ListEmployees`
begins the second loop, `ReadShort` and `SaveShort` are its two awaits, `EndDaily` its end; `StartMonthly`,
`VisitBank` and `EndMonthly` are the monthly check, and `Die` ends either anywhere. Employees clock
meanwhile as the state machine allows. Which date a check is given is open (any up to today), since the
function the scheduler calls is not in the repository; when the monthly check runs is the rule of
`scheduler-stack.ts:93`. `flags[e][d]` is the day on which the flag under that key was made: a check that is repeated
replaces it by one with a new id and creation time (`SaveFlag`). `settled` and `quiet` are histories: the dates
that were checked to the end, by a check that began when all their events were shown, with nothing recorded
on them since. `PatchFlag` is the `PATCH` of a flag, which computes a resolution from the body, reads no flag
and stores nothing. `Bank` is extended by `Cron`, the other rules are instances in
`BackOffice` (`LeaveRules`, `Cascade`, `ByTheHour`, and `Settlement` with the calendar it extends).

`Policy` merges the layers as the code does, recursively, for documents with up to `Depth` levels of sections
(`Documents[n]`, `Merge[n]`: functions of the number of levels, so that they can be proved about), and says what a
merged field must be without merging. A layer's date stands beside its fields. A layer that is missing is one without fields: both change
nothing. `JpHolidays` makes the list as the code does, in its order, and says which days of a year are
holidays without making a list; a year the generator refuses (before 1980, after 2099) is not asked. `Overtime` says what one more hour adds, beside what
`REQ-OT-003` has it cost (`RateDue`); `Settlement` which month and day a deadline falls on, and how long obligations last.

### Web

| code | model |
|---|---|
| `buildRoutes` and `createRouter` | `buildRoutes`, `Route`: the first route that fits |
| `requirePermission`, checks in handlers | `who` of a route |
| `queryKeys`, `useQuery` hooks | `queryKeys`, `Hooks[q]`: request, polling |
| `useMutation` hooks with `onSuccess` | `Mutations[m]`: request, the keys it invalidates (`invalidates` follows prefixes) |
| components of a page, `RoleGuard`, `useRole` | `Page(loads, controls)` for the permissions of a role; `Opens` |
| the cache | `entry[k]` (present, stale, the versions it shows), `fetch[k]` |
| `mutate` | `Click` → `ServeSave` → `SettleSave`, or `FailSave` |

Data is the version of each kind of item. A fetch reads the versions when the server serves it and shows
them when it settles; a save raises the versions of the kinds its route writes. `owed[k]` is a history: the
versions the user was promised to see under `k`. `KnownGaps` are the pairs of a save and a query of one page
that the code leaves stale; `GapsAreAll` says there are no others.

## 5. The runs and what they show

Every property of a passing run has a mutant in `PROJECT.json`: a plausible bug of one mapped definition
under which TLC finds that property violated in the same instance.

| run | instance | checked | shows |
|---|---|---|---|
| `attendance_serial` | one employee, one request at a time beside lock changes, clock 0..6, window 2, no edits | `ValidLog`, `StateAgrees`, `OfferedAccepted`, `ImplementsTimecard` | used serially, the service is the timecard: legal sequence, record equals log; the widget offers exactly the actions that are accepted |
| `attendance_storm` | two requests of one employee, edits, a company lock that comes and goes, deaths, stale reads of state and locks | `TypeOK`, `StateBacked`, `AuditBacked` | whatever happens, the state record and the audit trail refer to events that exist |
| `attendance_audit` | two overlapping requests, edits to texts that are neither a time nor an action, a group and an employee lock, no deaths, fair | `LockRespected`, `AuditComplete`, `EveryEventAudited` | a lock that stood at the start is honoured; no event is without an audit item, and each gets one |
| `attendance_overlap` | two overlapping requests | `ValidLog` **violated** | a double clock-in is possible |
| `leave` | one employee, two handlers, two dates, length 1, quota 1, deaths, balances read from items that are behind, lagging index, submissions `Apart` | `TypeOK`, `WithinQuota`, `Audited`, `DecisionsReal`, `ImplementsLedger` | decisions and reads that are behind do no harm to the quota; only a submission that does not see an earlier one could |
| `leave_lookup` | two employees | `RequestsFound` **violated** | only the first request of the index can be decided |
| `lifecycle` | two people, two requests, both providers, patches, failing calls, deaths | `TypeOK`, `ReportsComplete`, `LoginsBacked`, `EndedStayOut` | reports are truthful; late calls resurrect nobody |
| `lifecycle_access` | Cognito, no faults | `InactiveLockedOut` **violated** | offboarding leaves the login usable |
| `payroll` | two days of four slots, up to three salary entries, a leave day | `TypeOK`, `HoursTrue`, `SummaryLive`, `BlendAccounted`, `PaidFairly`, `WorkPays` | hours and pay agree with their references; blending pays each day at the amount in force but for those before the first change |
| `payroll_midnight` | the same log | `CrossMidnight` **violated** | a session over midnight loses its hours |
| `web` | an employee and an administrator who take turns in one tab, dashboard and attendance page, the clock's query and its items, two saves at once | `TypeOK`, `OwnSavesShown`, `NothingRefused`, `GapsAreAll`, `PolledCatchUp` | no answer read before a save hides it, nothing the pages send is refused, no save forgets a query beyond the known ones, an open page catches up |
| `backoffice` | daily and monthly checks of two employees over three days of two slots, events up to the first slot of the second day, one event at a time that queries may miss; every input of the rules' small sets | `FlagsRight`, `RerunsSettle`, `ExpiredStaysOut`, `WarnedInTime`, `HoursAddUp`, `OvertimeEscalates`, `AccrualSound`, `MostSpecificWins`, `CalendarKept` | nobody who needs a flag is without one where a check could see the events, repeated checks add and remove none, and the rules agree with their references, or differ as section 7 says |

**Why the bounds are enough.** *Attendance:* an employee's state is touched by that employee's requests
and the locks only (all keys begin with the employee, and `AttendanceProofs` shows the invariants for any
number of employees), so one employee is enough; two slots give every pairwise interleaving, and slots are
reused. Six ticks with a window of two fit the four actions of a full session with a break, at the exact
distance of the window and beyond it. *Leave:* two dates, length 1 and a quota of 1 allow a balance
that is exactly used up, would be exceeded by one, and is freed by replacing a paid request with an unpaid one; a
decision that not every replica shows can be on either date while the other is requested; two handlers give a
submission and a decision at once. The theorems have any dates, lengths and quota. *Lifecycle:* two people and two slots give every pair of concurrent operations, and
two ids as many employees as people; each of the calls of a request fails in every way. *Payroll:* four
slots a day fit a session with a break, or two sessions, in a day; slots of 3710 seconds make both
roundings (to minutes and to hundredths of hours) go off; a month of three days has a first, a middle and
a last day for salary changes, and one of the two entries has an hourly rate that is not whole. *Web:* the
pages' tables are checked for every role and page by `NothingRefused` and `GapsAreAll`, whatever the
instance; the tab's behaviour needs one query that is polled, one save that changes it, two saves to
overtake each other, two pages to leave and come back, two users to take turns, and two changes of the data;
`WebProofs` shows `OwnSavesShown` for any number of each. *Back office:* a clock of five slots has three
dates, with two slots to be clocked in and out of in each and a session of one slot too short; months of two
days give a bank entry a month end inside the run; two employees let a check die between them. Events up to
`LastEvent` (slot 2) leave two slots in which the checks of both dates run on a log at rest, and `MaxLag = 1` is
enough for each query to miss any event and for the other query of the same check to see it. Offsets are
over two entries on three dates and up to three hours, plans over three months, force majeure over four
days, overtime over three hours of each kind with limits to eight (from seven on 15 % of a limit is an
hour), accrual over tiers, caps and balances to three days, policies over a field that holds one of two values or a section of up
to two fields, in four layers some of which take effect later (`SomeLayers`), holidays over all years of the formulas (1980 to 2099), terminations over
each day of a leap year and of the next; the theorem is about every year. Symmetry is
used only where slots and people are interchangeable and no liveness is checked.

**Fairness.** Two runs assume it. `attendance_audit`: `WF(Proceed(r))` for every request slot. Lambda runs an
invocation until the handler returns; with `Faults` off it is not cut short, so a request at an await
always goes on. Nothing is assumed about when requests arrive, locks change or time passes. `web`: `WF(Poll(k))`, since `refetchInterval` fires every minute while a
component shows the query, and `SF` of a request being served and its answer arriving: the network may lose
any number of requests and answers, but not all of them for ever. The tab is taken to be visible, as
React Query pauses polling in a hidden one. Nothing is assumed about users, who may never click.

Deadlock is checked in every run: a request can always end and another start.

## 6. What is proved

The theorems hold for every value of the constants: any number of employees, requests, dates, any window
and quota, under the assumptions named in the modules (`TimeAssumption`, `EmployeeAssumption`, …), which
say no more than that constants are of the right kind.

| theorem | says | hypothesis | argument |
|---|---|---|---|
| `TimecardType`, `TimecardValid` | cards keep their shape; each is a run of the machine, spaced by the window | – | a new entry is later than all others, so it only has to fit the last one |
| `AttendanceType` | `TypeOK` | – | inductive by itself; one step per action |
| `BackedInv`, `AuditNeverAhead` | `StateBacked`, `AuditBacked` under overlap, faults, edits, stale reads | – | strengthened by: a request past its `Put` refers to a stored event; no action empties one |
| `LockInvariant` | `LockRespected` | `~StaleReads` | a request that is past the lock check saw the locks; whichever covers it now appeared since |
| `AuditTrail` | `AuditComplete` | `~Faults` | an event appears together with a request that owes its audit item, and only the append discharges it; an edit writes to a key that has an event already |
| `SerialLogs`, `RecordAgrees` | `ValidLog` and the spacing of logs; `StateAgrees` | `SerialUse`: `~Overlap /\ ~Faults /\ ~StaleReads /\ Edits = {}` | strengthened by what a request in flight knows: between read and write nobody else writes this employee's items |
| `WidgetOffersAllowed` | `OfferedAccepted` of `ClockPanel` | the same | the record is the state of the log, so the buttons of a state are the transitions from it |
| `AttendanceImplementsTimecard` | `ImplementsTimecard` | the same | initial states map to initial states; `SaveEvent` is `Record`, every other step stutters |
| `LeaveType`, `DecisionsAreReal`, `LeaveAudited` | `TypeOK`, `DecisionsReal`, `Audited` | – | the index shows only requests that exist and none is deleted; a dead invocation stays where it was, so what it owed is still accounted for |
| `LeaveImplementsLedger` | `ImplementsLedger` | `Apart` | whatever version of an item a query returns while a submission is on its way has the paid days the item has now: other writes are decisions, and these change no paid days; so the balance read is the one at the `Put` |
| `LeaveWithinQuota` | `WithinQuota` | `Apart`, every length a number | by the refinement: a step of the ledger replaces one term of the sum of paid days, and enters a paid one only where it fits |
| `LifecycleType` | `TypeOK` | – | inductive by itself |
| `LifecycleReports`, `LifecycleLogins`, `LifecycleEnded` | `ReportsComplete`, `LoginsBacked`, `EndedStayOut` | `~Collide` | below |
| `MonthInvariant`, `PayrollTyped` | the inductive invariant of a month; `TypeOK` of `Payroll` | – | below |
| `HoursAlwaysTrue` | `HoursTrue` | – | the tally of a day's ended sessions is within half a minute each of the stretches of the day, and the hours are its rounding |
| `SummaryAlwaysLive` | `SummaryLive` | – | the current session has worked since its last event, or not at all in a break, as its last stretch says |
| `BlendAlwaysAccounted` | `BlendAccounted` | – | from the last change backwards: a segment is as many days at one amount, up to the next change; what is due for a month splits at the first change |
| `PayIsFair` | `PaidFairly` | – | hours are on one side of the requirement; the rate times the required hours exceeds the salary by the rounding of the rate at most |
| `WorkAlwaysPays` | `WorkPays` | – | no event shortens a day (part of the invariant), and the net amount is monotone in the hours |
| `CronType` | `TypeOK` of `Cron` | – | inductive by itself |
| `DailyFlags` | `FlagsRight` | – | strengthened by what a check under way has done: if all events of the date were shown when it began and nothing happened on it since, whoever has an event is still to be visited by the first loop or has the flag, and in the second loop everybody has it |
| `RerunsSettled` | `RerunsSettle` | – | on a settled date everybody with an event has a flag, and only who has an event gets one, whatever a query misses; flags are made no later than now |
| `ExpiredIsOut` | `ExpiredStaysOut` | – | an entry out of the list of active ones has passed its day, and days only pass |
| `WarningsInTime` | `WarnedInTime` | `MaxHours > 0` | the warning of an entry reaches back `WarningDays` from its last day, and it has hours left to be warned about |
| `HoursAlwaysAddUp` | `HoursAddUp` | – | `applyBankOffset` as a fold: what it takes from the first entries is within each of them and, together, within what is needed; plans as sums; rounding of a share |
| `OvertimeByEachHour` | `OvertimeEscalates` | – | where an hour falls among the kinds, and what one more costs |
| `AccrualAlwaysSound` | `AccrualSound` | – | plans cut in two, the months they grant up to each point, tiers in their order |
| `PoliciesDecided` | `MostSpecificWins` | – | along a path, what the merged document has beside the two that were merged; then layer by layer |
| `CalendarAlwaysKept` | `CalendarKept` | `DeadlineDay = 15`, `NonCompeteMonths = 12` | below |
| `RulesReadOnly` | `BackOffice` implements `Cron`'s specification | – | asking a rule changes nothing of the checks |
| `WebType` | `TypeOK` of `WebClient` | – | inductive by itself |
| `AllReached`, `AllAdmitted` | `RoutesReached`, `PagesAdmitted`: the parts of `NothingRefused` about tables | – | below |
| `TurnsAdmitted` | `NothingRefused` | – | every request on its way was sent by a page its sender could open |
| `GapsKnown` | `GapsAreAll` | – | below |
| `SavesShown` | `OwnSavesShown` | – | below |

**The tables of the web application.** `RoutesReached`, `PagesAdmitted` and the absence of gaps (`NoGaps`) are
about the routes, the hooks and the pages, and have no free constants. They are proved along the structure of
the code instead of cell by cell, in three parts of `WebProofs`:

* *Routes.* `buildRoutes` is the concatenation of fifteen lists. `Serves` says that a list routes as a set of
  lists does when a request meets one of them only; it is kept by a further list (`ServesMore`), so it
  holds of all of them (`RouterServes`). Which part of the paths belongs to which list is `PathsApart`, for
  any request. What is left is a lemma for each list (`EmployeeRequests`, `LeaveRequests`, ...): to which of its routes
  its requests go, whatever ids are in them. A request of a hook or a route's own path is an instance.
* *Rights.* The queries and saves fall into three tiers: those the handlers answer for everybody, for
  managers and for administrators (`QueryRights`, `SaveRights`, from the permissions of the routes).
  `GuardsAreRoles` says that whom a page takes for a manager or an administrator has all permissions of that
  tier. `PageTable` bounds what a page loads and sends for any permissions, and
  `PageRights` that these are of the tiers of who can open the page.
* *Refreshing.* `ShowsAre`, `ChangesAre` and `InvalidatesThese` give the kinds of items behind each query and
  save, through the routes they reach, and what `invalidateQueries` covers; `PagesKeep` compares them on
  the pages that send something.

**The invariant of Payroll.** `HoursTrue` and `WorkPays` speak of folds over a log, and neither is inductive: a
`CLOCK_OUT` adds a session whose breaks were recorded by earlier events. `MonthInv` says of every day `d`
of the month, with `acc` the fold of `Step` over the events of `d`:

* `Tallied`: the ended sessions come first, their minutes are their slots up to half a minute each, and no day
  is negative;
* `Current`: a session that is open on the day of the last event is in the state that event left it in (`Busy`: no break open, or
  exactly the last one, begun by that event); one left open on an earlier day stays as it was;
* as many sessions as clock-ins;
* `Exact`, while no session has crossed midnight: the stretches of the day in ended sessions are the
  slots of the ended sessions, and all its stretches are those and what the current session has worked;

and of the whole log that a stretch is on the day of its clock-in (`OfDay`), and that no day is shorter than
before the last event (`LastPays`). `DayStep` splits a legal event into one of another day (`ElsewhereStep`) and one of the
day (`HereStep`), the latter into the four actions (`AtClockIn`, `AtBreakStart`, `AtBreakEnd`, `AtClockOut`
on the sessions, `RefAppended`, `RefClosedAppended` on the stretches). That the state machine allows the
event (`Allowed`) is what makes the two sides meet. TLC checked `MonthInv` as an invariant of the instance of
`payroll` before it was proved. The money side needs no invariant: it is arithmetic over naturals
(`RateTyped`, `DeductionTyped`, `NetMonotone`, `NetFair`) with divisions by parameters.

**Sums and folds.** The library's induction theorems cannot be used, and they are not needed for sums over
finite sets and folds over sequences: the folds of the community modules choose a function that solves the recursion, and
`FoldExists` of `CommonLemmas` gives one, by well-founded recursion over finite sets. What such a
fold computes is then proved by taking a smallest subset (`SmallestSubset`), or a smallest prefix, on which it
would fail.

**The cascade of policies.** `MostSpecificWins` speaks of a merge that recurs into sections and of paths into
its result. That `Documents`, `Merge` and the values along a path are the functions their recursions describe is
proved first (`DocumentsAre`, `MergeIs`, `AtIsTrail`): each exists up to every number, since otherwise
there is a least number up to which it does not. `Beside` then says how the value in the merged document stands
to the values in the two that were merged: it is the overriding one, unless that is silent, or the merge of the two
if both are sections. Each further field of the path keeps it (`BesideFurther`), so it holds at
the end (`OverrideDecides`), and three layers over the region's defaults are three such steps (`LayerDecides`). The depth of
sections and the length of paths are parameters; nothing is assumed of fields and values.

**The calendar.** `CalendarAlwaysKept` is proved for whatever years are asked about: `TermsAlwaysHold` for the dates
of every year, any salary, any years of confidentiality and any cure period, `ListsLawful` for every supported
year, in which the equinoxes are formulas and the first days of months fall on any day of the week.

* *Counting days.* `DayOfYearIs` and `DayNumberIs` take the folds over months and years apart into a table of the
  months, 29 February aside, and the leap years before a year; `FollowingDay` is the one step from which `DaysAdded`
  follows, and `LeapYearsGrow` is why no obligation that is years long loses a day.
* *Terms.* `Due` says for each day on which 15th the settlement falls: the next month's, or the one after it for a
  day the next month lacks. `DueInMonth` says which month that is, `DueLater` compares it with the next day's.
* *Holidays.* `HolidaysTabled` puts the sixteen dates and the citizens' holiday into one table over seven unknown
  days (two equinoxes, four Mondays, the leap day) in their ranges; `OrdinalsApart` says what the table excludes: no two meet, and a
  holiday is before another only in May or around the equinox. So only 3 to 5 May make a
  substitute wait longer than a day (`SubstituteIs`), and the fold over the list adds to it exactly the later day of each
  holiday on a Sunday (`GeneratedIs`). `GeneratedIsLawful` compares that with the Act, day by day of the year.

The hypothesis, the 15th and twelve months, are the constants of the code (`PAYMENT`, `LEGAL_OBLIGATIONS`).

**The invariant of WebClient.** `OwnSavesShown` speaks about what is shown as up to date, and an old answer can
still arrive. `Fresh` adds: no version that a finished save or `owed` names is ahead of the server's; every answer on its
way is at least `owed` (when a save raises `owed[k]`, the fetch on its way for `k` is replaced); a save marked
`shown` was sent from the page on the screen, which its user may open. `NoGaps` (`NoneLeft`) is needed where a save settles: a query of the page that it changes is
invalidated, and so fetched again.

**The invariant of Lifecycle.** None of the three properties is inductive. `Shape` (the types, and which
fields a request has set at each `pc`) is proved first and needs no hypothesis. `Inv` adds three parts to the
properties: `RequestBacked` (a request past a step finds what that step wrote: the record belongs to `who`,
the login has the right id, the salary entry exists), `Apart` (no two onboardings are about to create one id) and `Blank`
(an id nobody has created has no owner and is nobody's whose end was confirmed). `Lasting` collects what no step undoes: owners, salary
entries, audit items, the id behind a login. Lemmas then run in that order: `StepsLast` (every step is
`Lasting`), `StaysBlank` and `OthersWait` (where `~Collide` is needed), `OwnStep` for the request that moves,
and one lemma per property. `EndedStayOut` follows because the only action that sets ACTIVE, besides an
administrator's `Patch`, is `Create`, and it only reaches blank ids. With colliding ids `Create` replaces a
record, and `Lasting` is lost.

Proof modules extend the component's module, lemmas come first (helpers on logs, frames of each action),
and each invariance proof has one step per action and below it one per conjunct the action can disturb.

**Only model-checked.** `EveryEventAudited` and `PolledCatchUp` are liveness under fairness, out of the
prover's reach. Every other property of a passing run is stated by a theorem, under the hypotheses of the table.
What happens where the hypothesis of a theorem fails is said by the run `attendance_overlap` and in section 7.

## 7. Where code and documents disagree

Shown by a run (the counterexample is the evidence; `findings` in `PROJECT.json` quotes the lines):

1. Two overlapping clock requests both pass the state check: a double clock-in (`attendance_overlap`).
2. `findById` of leave requests applies `Limit: 1` before its filter, so only the earliest request of the
   organisation can be approved or rejected (`leave_lookup`).
3. `offboard` asks Cognito to disable a user name it never created, so it fails half-way and the login
   stays (`lifecycle_access`). The stub that the composition wires hides this.
4. A session over midnight UTC (9:00 in Japan) loses all its hours (`payroll_midnight`).

Met while modelling, true of the models and stated by no run:

* A month can still be written by a request that checked before it was locked (`service.ts:208`); `LockRespected`
  therefore speaks of locks that stood when a request came in.
* Two paid submissions of one employee can exceed the leave balance (REQ-LEAVE-007) when they overlap
  (`leave/service.ts:27`), and also one after the other, when the query behind the balance does not show the first
  yet (`data/src/dynamo/leave.ts:43`): the hypothesis `Apart` of `WithinQuota` and `ImplementsLedger`. With
  `Apart = FALSE` TLC finds both.
* An edit is refused by any lock of the month, whoever it covers (`service.ts:141`).
* An edit takes any text for a timestamp or an action and stores it (`service.ts:145-149`). With a timestamp that is no date the
  event is out of every lock: no later edit of it is refused.
* An edited event stays under the day and month of its creation; queries go by those, and the lock check
  of the next edit goes by its new month (`service.ts:139`, against the key table of `design.md:1109`).
* Any death, stale read or edit lets a log leave the state machine: these are the hypotheses of `SerialLogs`.
* The idempotency window is 10 s (`types/src/constants.ts:224`) and REQ-SLACK-014 asks for 60 s.
* `createLock` recognises a duplicate by `err.message` where the SDK has it in `err.name` (`service.ts:191`).
* With two or more salary changes in a month, the days before the first are not paid at all; with one, the
  whole month is paid at the new amount (`payroll/calculator.ts:39-46`, against REQ-PAY-014). `BlendAccounted`
  states what is paid, beside what the requirement has.
* The employee's own breakdown (`payroll/service.ts:27-66`) takes the amount of one salary entry as the
  monthly salary whatever its type, without blending and without hours, unlike the report.
* The report credits one day of hours per leave request, whatever its length (`monthly-report.ts:85`).
* Two salary entries with one effective date replace each other (`data/src/dynamo/salary.ts:36`,
  against the append-only history of REQ-PAY-009).
* An INACTIVE employee's requests are accepted by the attendance service (REQ-OB-003).
* An onboarding that failed after the Cognito user was created cannot be repeated: the email is taken.
* A leave request with an unreadable date has a length that is not a number, and every later check of that
  employee's balance lets requests pass (`leave/service.ts:30`, `153-157`). `NaN` is part of the model;
  the runs use lengths that are numbers.
* The daily check takes the events of the date for sessions left open (`cron/service.ts:48`): everybody who
  clocked is flagged (REQ-ATT-007 asks for the unclosed and the short sessions), and who has had a session open since
  an earlier day is not. The loop over short sessions adds only those the index did not show yet. An event that
  neither query shows is missed, and stays without a flag until a check of that date runs again.
* A check that is repeated replaces the flags of the date, each by one with a new id and creation time
  (`cron/service.ts:122-131`): ids that were read before name nothing any more.
* The rule of the monthly check (`scheduler-stack.ts:93-97`) is meant for "1st 00:30 JST" and fires on day 1 in
  UTC. No bank entry is on its last day then, and the others `findActive` leaves out, so no entry is ever
  expired by it. REQ-CRON-003 and the comment on the rule (`scheduler-stack.ts:93`) have it run on the last day:
  the check would then meet entries on their last day, `update` would throw (`data/src/dynamo/bank.ts`), and
  everybody after the first of them would not be looked at.
* `isExpired` compares with the midnight at which the last day begins, `findActive` with the day: on its last
  day an entry is listed as active and cannot be drawn from.
* The resolution of a flag is answered from the hours of the request and never stored (`api/src/handlers/flags.ts:34-41`):
  it deducts for a flag of any level, although `shouldGenerateFlag` has the monthly ones alone deductible
  (REQ-FLAG-003), and again for the same flag when it is asked again. `HoursAddUp` states the former. No draw from
  the bank is recorded either, so two draws may take the same hours. Approving a bank
  entry always fails (`data/src/dynamo/bank.ts`, `update`).
* The monthly accrual cuts a balance above the cap down to it and reports nothing forfeited (`accrual.ts:77`).
* Overtime above 60 hours costs 1.5 on top of the rate of its own kind when it is counted in both arguments (2.75
  for a regular hour); `REQ-OT-003` names 1.5 as the rate. `OvertimeEscalates` states the difference, one base rate an
  hour. The requirement is met only by a caller that counts such hours in the month's total and not among those
  of its kind, as the test does (`core/__tests__/overtime.test.ts:80-97`). `calculateOvertimePay` has no caller yet.
* A 36 Agreement limit of 0 is exceeded from the start and has utilization 0 (`overtime/calculator.ts:93-106`).
* A force majeure of no affected days never ends the contract, whatever number of days in a row is given.
* A termination on 30 or 31 January, on 29 January of a common year, or on the 31st of March, May, August or October has its
  settlement deadline one month late (31 January: 15 March), as `addMonths` runs over the end of a shorter month
  (`types/src/date-utils.ts:62`); REQ-OB-002 has the 15th of the following month. `CalendarKept` states for each day which of
  the two it is. The preview takes the
  amount of the salary entry as monthly, whatever its type.
* Web: an answer to a fetch that was sent before an invalidation, of a query no component shows, clears the
  mark of the invalidation. Signing out keeps the cache, and no key names the user, so the next user of the
  tab is shown the previous one's data until it is fetched again.
* Web: the pending state of a save belongs to the component. Leaving the page and coming back enables
  the clock buttons while the first request is still on its way: one tab can send two (see 7.1). A save
  whose page was left does not refresh a query of the next page that it does not name.
* Web: `PolicyTab` saves the whole document it has cached; two administrators undo each other's changes.
* Web: the pairs of `KnownGaps` are saves that do not refresh a query shown beside them, although
  `.kiro/specs/frontend-redesign/design.md:953` has mutations invalidate related queries: clocking (the team's
  states), editing an event (the day's events), leave requests and approvals (the balance), offboarding (the
  list of employees). They are right again after 30 seconds and the next showing, or the next poll.

## 8. Limits and assumptions

* One tenant, since tenants share no key. One clock: hosts agree on the time.
* Lag is modelled for the state record and the locks (`Attendance`), the items behind a leave balance and the
  index of requests (`Leave`), and the events a scheduled check reads (`Cron`). `getEventById` of an edit, the item
  an `update` of a leave request changes by key, and the reads of `Lifecycle` are modelled as of the table.
* In `Leave` a replica that lags shows an item's paid days as of some write since it last caught up, item by item; a
  catching up is of all replicas at once.
* The employment type of an employee does not change while requests run.
* Audit items are kept by employee, time and subject; old and new values are not. Creation and removal of
  a lock write no audit item, in the code as in the model.
* Replies are not modelled except where a property is about them (`onboarded`, `ended`).
* Employee ids are the creation time in milliseconds. `~Collide` says that two creations, or an
  administrator's update of an id that is not there yet, do not hit the same one; with collisions
  `LoginsBacked` fails.
* `Die` in `Leave` leaves one handler alive so that the run goes on; this is a bound of the model.
* `Payroll` computes exactly: hours in hundredths, money in a common fraction. Floating point may add one
  unit where the code rounds up. Logs are those of a serial use (`SerialLogs` justifies that). The report's
  reads are not one snapshot; it writes nothing, so this only affects that report. A day is a UTC date,
  as in the code.
* `payroll` bounds its clock at two days of a month of three.
* `Cron`: one check runs at a time; months all have `DaysPerMonth` days; the entries of the bank are those
  `createBankEntry` would make for two months, since nothing in the program calls it. Which employees are
  ACTIVE is open at each check.
* `WebClient`: one tab, its storage kept, React Query as used; forms are not modelled field by field, a control
  is there or not. Styling, wording and translation are left out. In `Api` a token's custom permissions are
  empty, as the identity provider of the repository never fills them.
* `Settlement`: dates and times in UTC, as in the Lambda function.
* Not modelled, with the reason, are the components `PROJECT.json` lists as such: single `Put`s (reports,
  documents), text (Slack, templates), tables (the list of Nepal, seeds) and deployment.

## 9. The plan

Done: `StateMachine`, `Timecard`, `Attendance`, `ClockPanel` and proofs; `LeaveLedger`, `Leave` and proofs;
`Lifecycle` and proofs; `Hours`, `Payroll` and proofs; `Bank`, `Cron`, `BackOffice` and proofs; `Accrual`,
`Overtime`, `Policy`, `JpHolidays`, `Settlement`; `Api`, `Screens`, `Pages`, `WebClient` and proofs. Every safety property
and every action property of a passing run is a theorem.

Next, in this order:

1. **Rest of payroll**: the employee's breakdown, pro-rata, allowances and exchange rates; property: report and
   breakdown agree where the inputs do.
2. A composition of `Attendance` and `Lifecycle` over the employee record: clocking by someone who
   is being offboarded; and of `ClockPanel` with `WebClient`: the widget over a cached state record.
3. **Leave accrual** composed with `LeaveLedger`: balance under accrual, cap, carry-over and use.

A run is added only with a question of its own. The four runs that show a disagreement are kept as long as
the code disagrees; where a new module needs a run, the questions of two instances are merged first.
