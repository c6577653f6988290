-------------------------------- MODULE Cron --------------------------------
(***************************************************************************)
(* The scheduled checks: CronService and ReminderService of                *)
(* packages/core/src/cron over the event items, the flags and the bank.    *)
(* One check runs at a time, may die at any await and may be repeated;     *)
(* employees go on clocking.  The queries of the checks are eventually     *)
(* consistent: one reads the index GSI2, none asks for consistency.        *)
(* Nothing in the program enters bank entries: those of Init are what      *)
(* createBankEntry makes.                                                  *)
(***************************************************************************)
EXTENDS StateMachine, Bank, FiniteSets

CONSTANTS
    Employees,
    MaxTime,      \* bound on the clock, in slots
    LastEvent,    \* bound: nobody clocks after that slot
    MaxLag,       \* bound: how many events a query may miss
    MinSession,   \* CRON.MIN_SESSION_MINUTES, in slots
    WarningDays,  \* CRON.SURPLUS_EXPIRY_WARNING_DAYS
    AlertDays,    \* CRON.PROBATION_ALERT_DAYS
    ReminderAge   \* CRON.LEAVE_REMINDER_THRESHOLD_HOURS, in slots

ASSUME CronAssumption == MaxTime \in Nat /\ LastEvent \in Nat /\ MinSession \in Nat
    /\ MaxLag \in Nat /\ WarningDays \in Nat
ASSUME ReminderAssumption == AlertDays \in Nat /\ ReminderAge \in Nat

Times  == 0 .. MaxTime
Today(t) == DayOf(t)
Dates  == 0 .. DayOf(MaxTime)
NoDate == -1

VARIABLES
    now,
    log,        \* log[e]: what e recorded in each slot
    bank,       \* bank[e]: the entries of e
    unshown,    \* the events that not every replica and index shows
    flags,      \* flags[e][d]: the day on which the DAILY flag with that key was
                \* made (createdAt, which its id contains); all are PENDING
    check,      \* the check that runs
    settled,    \* history: dates checked to the end, by a check that began when
                \* all their events were shown, with none recorded since
    quiet       \* history: that is so far true of the daily check that runs

vars == <<now, log, bank, unshown, flags, check, settled, quiet>>

\* NoAction where nothing is recorded.
Logs == [Times -> Actions \cup {NoAction}]
EmptyLog == [t \in Times |-> NoAction]
OnDate(events, d) == {t \in Recorded(events) : DayOf(t) = d}

\* What a query returns of the logs when it misses some events.
Without(missed) ==
    [e \in Employees |->
        [t \in Times |-> IF <<e, t>> \in missed THEN NoAction ELSE log[e][t]]]

NoFlag == -1
Flagged(e, d) == flags[e][d] # NoFlag

\* buildFlag and save: a Put of the key, with a new id and creation time.
SaveFlag(e, d) == flags' = [flags EXCEPT ![e][d] = Today(now)]

\* todo: the employees still to come; found: the one whose flag is being saved.
Check == [pc : {"idle", "unclosed", "short", "monthly", "failed"},
          date : Dates \cup {NoDate}, todo : SUBSET Employees, found : SUBSET Employees]
NoCheck == [pc |-> "idle", date |-> NoDate, todo |-> {}, found |-> {}]
Begin(pc, date, todo) == check' = [pc |-> pc, date |-> date, todo |-> todo, found |-> {}]

TypeOK ==
    /\ now \in Times
    /\ log \in [Employees -> Logs]
    /\ \A e \in Employees : \A b \in bank[e] : b.expires \in Nat /\ b.remaining \in Hours
    /\ unshown \subseteq Employees \X Times
    /\ flags \in [Employees -> [Dates -> Dates \cup {NoFlag}]]
    /\ check \in Check
    /\ settled \subseteq Dates /\ quiet \in BOOLEAN

Init ==
    /\ now = 0
    /\ log = [e \in Employees |-> EmptyLog]
    /\ bank = [e \in Employees |->
                  {createBankEntry(month, MaxHours) : month \in {0 - ExpiryMonths, 1 - ExpiryMonths}}]
    /\ unshown = {}
    /\ flags = [e \in Employees |-> [d \in Dates |-> NoFlag]]
    /\ check = NoCheck
    /\ settled = {} /\ quiet = FALSE

Tick ==
    /\ now < MaxTime
    /\ now' = now + 1
    /\ UNCHANGED <<log, bank, unshown, flags, check, settled, quiet>>

\* A clock event the state machine allows; one per slot.
Clock(e, a) ==
    /\ now <= LastEvent /\ log[e][now] = NoAction
    /\ Cardinality(unshown) < MaxLag
    /\ \E s, to \in States : SessionIs(log[e], s) /\ <<s, a, to>> \in Transitions
    /\ log' = [log EXCEPT ![e][now] = a]
    /\ unshown' = unshown \cup {<<e, now>>}
    /\ settled' = settled \ {Today(now)}
    /\ quiet' = (quiet /\ check.date # Today(now))
    /\ UNCHANGED <<now, bank, flags, check>>

\* Every replica and the index show an event.
CatchUp(x) ==
    /\ x \in unshown
    /\ unshown' = unshown \ {x}
    /\ UNCHANGED <<now, log, bank, flags, check, settled, quiet>>

-----------------------------------------------------------------------------
(* runDailyChecks(date).                                                   *)

\* MUTANT: only sessions left open without a break
getUnclosedSessions_NoBreaks(seen, d) == {e \in Employees :
    \E t \in OnDate(seen[e], d) :
        seen[e][t] \in {"CLOCK_IN", "BREAK_END"} /\ \A u \in OnDate(seen[e], d) : u <= t}

\* MUTANT: those who are clocked in now, whatever the date
getUnclosedSessions_Now(seen, d) == {e \in Employees :
    OnDate(seen[e], d) # {}
    /\ (SessionIs(log[e], "CLOCKED_IN") \/ SessionIs(log[e], "ON_BREAK"))}

\* The events of the date that the index shows: none has a state IDLE.
getUnclosedSessions(seen, d) == {e \in Employees : OnDate(seen[e], d) # {}}

StartDaily(d) ==
    /\ check.pc \in {"idle", "failed"}
    /\ d <= Today(now)
    /\ \E missed \in SUBSET unshown :
         Begin("unclosed", d, getUnclosedSessions(Without(missed), d))
    /\ quiet' = (\A x \in unshown : DayOf(x[2]) # d)
    /\ UNCHANGED <<now, log, bank, unshown, flags, settled>>

\* An employee comes up once per event, with a Put of the same key each time.
SaveUnclosed(e) ==
    /\ check.pc = "unclosed" /\ e \in check.todo
    /\ SaveFlag(e, check.date)
    /\ check' = [check EXCEPT !.todo = @ \ {e}]
    /\ UNCHANGED <<now, log, bank, unshown, settled, quiet>>

\* Whose status is ACTIVE is the employee records' business: it may be anybody.
ListEmployees ==
    /\ check.pc = "unclosed" /\ check.todo = {}
    /\ \E active \in SUBSET Employees : check' = [check EXCEPT !.pc = "short", !.todo = active]
    /\ UNCHANGED <<now, log, bank, unshown, flags, settled, quiet>>

\* From the first CLOCK_IN to the first CLOCK_OUT of the date; below zero when
\* the day begins with the end of a session.
sessionLength(events, d) ==
    LET first(a) == {t \in OnDate(events, d) :
                       events[t] = a /\ \A u \in OnDate(events, d) : events[u] = a => t <= u}
    IN  IF first("CLOCK_IN") = {} \/ first("CLOCK_OUT") = {} THEN 0
        ELSE (CHOOSE t \in first("CLOCK_OUT") : TRUE) - (CHOOSE t \in first("CLOCK_IN") : TRUE)
TooShort(events, d) == sessionLength(events, d) > 0 /\ sessionLength(events, d) < MinSession

\* getEventsForDate reads the table, from whichever replica answers.
ReadShort(e) ==
    /\ check.pc = "short" /\ check.found = {} /\ e \in check.todo
    /\ \E missed \in SUBSET unshown :
         check' = [check EXCEPT !.todo = @ \ {e},
                     !.found = IF TooShort(Without(missed)[e], check.date) THEN {e} ELSE {}]
    /\ UNCHANGED <<now, log, bank, unshown, flags, settled, quiet>>

SaveShort(e) ==
    /\ check.pc = "short" /\ e \in check.found
    /\ SaveFlag(e, check.date)
    /\ check' = [check EXCEPT !.found = {}]
    /\ UNCHANGED <<now, log, bank, unshown, settled, quiet>>

EndDaily ==
    /\ check.pc = "short" /\ check.todo = {} /\ check.found = {}
    /\ settled' = IF quiet THEN settled \cup {check.date} ELSE settled
    /\ quiet' = FALSE
    /\ check' = NoCheck
    /\ UNCHANGED <<now, log, bank, unshown, flags>>

-----------------------------------------------------------------------------
(* runMonthlyChecks, and the rule that starts it.                          *)

\* Day 1 of the month in UTC; a check ends on the day on which it starts.
MonthlyRule(d) == d % DaysPerMonth = 0

\* It visits the ACTIVE employees, whoever they are.
StartMonthly ==
    /\ check.pc \in {"idle", "failed"}
    /\ MonthlyRule(Today(now))
    /\ \E active \in SUBSET Employees : Begin("monthly", Today(now), active)
    /\ UNCHANGED <<now, log, bank, unshown, flags, settled, quiet>>

\* An active entry on its last day is to be set to zero, and that update throws.
VisitBank(e) ==
    /\ check.pc = "monthly" /\ e \in check.todo
    /\ check.date = Today(now)
    /\ check' = IF \E b \in findActive(bank[e], now) : b.expires <= Today(now)
                THEN [check EXCEPT !.pc = "failed"] ELSE [check EXCEPT !.todo = @ \ {e}]
    /\ UNCHANGED <<now, log, bank, unshown, flags, settled, quiet>>

EndMonthly ==
    /\ check.pc = "monthly" /\ check.todo = {}
    /\ check' = NoCheck
    /\ UNCHANGED <<now, log, bank, unshown, flags, settled, quiet>>

\* The function fails or is cut off; nothing is undone.
Die ==
    /\ check.pc \notin {"idle", "failed"}
    /\ check' = NoCheck
    /\ quiet' = FALSE
    /\ UNCHANGED <<now, log, bank, unshown, flags, settled>>

Next ==
    \/ Tick
    \/ \E e \in Employees, a \in Actions : Clock(e, a)
    \/ \E x \in Employees \X Times : CatchUp(x)
    \/ \E d \in Dates : StartDaily(d)
    \/ \E e \in Employees : SaveUnclosed(e) \/ ReadShort(e) \/ SaveShort(e)
    \/ ListEmployees \/ EndDaily
    \/ StartMonthly \/ EndMonthly \/ Die
    \/ \E e \in Employees : VisitBank(e)

Spec == Init /\ [][Next]_vars

-----------------------------------------------------------------------------
(* Reminders.  The three checks read and answer, and store nothing.        *)

\* MUTANT: the first day of the warnings is left out
WithinDays_Late(date, days, t) ==
    0 < Midnight(date) - t /\ Midnight(date) - t <= (days - 1) * SlotsPerDay

\* From now on to the midnight at which date begins it is at most that many days.
WithinDays(date, days, t) ==
    0 < Midnight(date) - t /\ Midnight(date) - t <= days * SlotsPerDay

checkSurplusExpiryWarnings(entries, t) ==
    {b \in findActive(entries, t) : WithinDays(b.expires, WarningDays, t)}

\* The alerts of employees: when their probation ends, NoDate for never, and
\* whether they have a manager to be told.
checkProbationAlerts(employees, t) ==
    {e \in employees : /\ e.probationEnds # NoDate /\ e.managed
                       /\ WithinDays(e.probationEnds, AlertDays, t)}

\* The pending requests whose employee has a manager, from a certain age on.
checkPendingLeaveReminders(requests, t) ==
    {r \in requests : r.status = "PENDING" /\ t - r.created >= ReminderAge /\ r.managed}

-----------------------------------------------------------------------------
(* Properties.                                                             *)

\* The flags of a date: nobody is flagged who recorded nothing on it, and once it
\* is settled, whoever recorded something is, whatever died or was repeated before
\* and whatever the queries of earlier checks missed (runDailyChecks).  So nobody
\* escapes whose last session of the date is open or too short; REQ-ATT-007 asks
\* for no more, and the code flags everybody else who worked as well.  Who has had
\* a session open since an earlier day and recorded nothing on this one has no
\* flag.  An event recorded shortly before a check may be missed by it, and is
\* then without a flag until a check of that date runs again.
FlagsRight == \A e \in Employees, d \in Dates :
    /\ Flagged(e, d) => OnDate(log[e], d) # {}
    /\ d \in settled /\ OnDate(log[e], d) # {} => Flagged(e, d)

\* A check that is repeated, or died and is run again, adds no flag to a settled
\* date and takes none away.  It does replace flags: each gets a new id and
\* creation time, later than the one it had, from a check of its own date only
\* (buildFlag, the key of a flag).
RerunsSettle ==
    [][ \A d \in settled, e \in Employees :
          /\ Flagged(e, d)' <=> Flagged(e, d)
          /\ flags'[e][d] # flags[e][d] =>
               check.date = d /\ flags'[e][d] = Today(now) /\ flags'[e][d] > flags[e][d] ]_vars

\* An entry past its date, which no check has emptied, is neither listed as active
\* nor drawn from, and what can be drawn is listed (findActive compares dates,
\* isExpired moments).
ExpiredStaysOut == \A e \in Employees : \A b \in bank[e] :
    /\ b.expires < Today(now) =>
         findActive({b}, now) = {} /\ applyBankOffset(<<b>>, MaxHours, now) = <<0>>
    /\ Usable(b, now) => b \in findActive(bank[e], now)

\* Whoever is to be told is told at whatever hour the reminders run, in time and
\* not too late: of an entry exactly on the WarningDays days before its last day,
\* never when it can no longer be used; of a probation on the AlertDays days
\* before it ends; of a request at every run from ReminderAge on until it is
\* decided.  Nobody is told about an employee without a manager
\* (checkSurplusExpiryWarnings, isExpired, checkProbationAlerts,
\* checkPendingLeaveReminders).
WarnedInTime ==
    /\ \A e \in Employees : \A b \in bank[e] :
         LET warned == b \in checkSurplusExpiryWarnings(bank[e], now)
         IN  /\ warned <=> Today(now) \in b.expires - WarningDays .. b.expires - 1
             /\ warned => Usable(b, now)
    /\ \A managed \in BOOLEAN, d \in Dates \cup {NoDate} :
         LET employee == [managed |-> managed, probationEnds |-> d]
         IN  employee \in checkProbationAlerts({employee}, now) <=>
               managed /\ Today(now) \in d - AlertDays .. d - 1
    /\ \A r \in [created : 0 .. now, status : {"PENDING", "APPROVED"}, managed : BOOLEAN] :
         LET reminded(t) == r \in checkPendingLeaveReminders({r}, t)
         IN  /\ reminded(now) => r.managed /\ \A t \in now .. MaxTime : reminded(t)
             /\ r.status = "PENDING" /\ r.managed => reminded(r.created + ReminderAge)
             /\ r.status # "PENDING" => ~reminded(now)
=============================================================================
