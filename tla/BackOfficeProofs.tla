-------------------------- MODULE BackOfficeProofs --------------------------
(***************************************************************************)
(* What the scheduled checks promise holds for any number of employees,    *)
(* any log and any sequence of checks that run, die and are repeated; and  *)
(* what the rules of the bank, of flags, quotas, overtime, accrual,        *)
(* policies and the calendar of national holidays promise, for all hours,  *)
(* days, rates, fields and years.                                          *)
(***************************************************************************)
EXTENDS BackOffice, CommonLemmas

-----------------------------------------------------------------------------
(* Days.                                                                   *)

\* Every moment is on a date.
LEMMA DayBounds == \A t \in Times : DayOf(t) \in Dates
<1>1. \A a, b \in Nat : a <= b => a \div SlotsPerDay \in Nat
                                  /\ a \div SlotsPerDay <= b \div SlotsPerDay
  BY CalendarAssumption
<1>2. \A b \in Nat : b \div SlotsPerDay \in Nat
  BY <1>1
<1>3. QED BY <1>1, <1>2, CronAssumption DEF Times, Dates, DayOf

\* Dates are numbers, and none is the missing one.
LEMMA DatesAreDays == \A d \in Dates : d \in Nat /\ d # NoDate
  BY DEF Dates, NoDate

\* A query returns events of the log, and every one it does not miss.
LEMMA SeenEvents ==
    ASSUME log \in [Employees -> Logs], NEW missed, NEW e \in Employees, NEW d
    PROVE  /\ OnDate(Without(missed)[e], d) \subseteq OnDate(log[e], d)
           /\ (\A x \in missed : DayOf(x[2]) # d) =>
                OnDate(Without(missed)[e], d) = OnDate(log[e], d)
<1> DEFINE seen == Without(missed)[e]
<1>1. seen = [t \in Times |-> IF <<e, t>> \in missed THEN NoAction ELSE log[e][t]]
  BY DEF Without
<1>2. DOMAIN log[e] = Times
  BY DEF Logs
<1> HIDE DEF seen
<1>3. \A t : t \in Recorded(seen) <=> t \in Recorded(log[e]) /\ <<e, t>> \notin missed
  BY <1>1, <1>2 DEF Recorded
<1>4. OnDate(seen, d) \subseteq OnDate(log[e], d)
  BY <1>3 DEF OnDate
<1>5. ASSUME \A x \in missed : DayOf(x[2]) # d
      PROVE  OnDate(seen, d) = OnDate(log[e], d)
  <2>1. \A t \in Recorded(log[e]) : DayOf(t) = d => <<e, t>> \notin missed
    BY <1>5
  <2>2. QED BY <1>3, <2>1 DEF OnDate
<1>6. QED BY <1>4, <1>5 DEF seen

-----------------------------------------------------------------------------
(* Type correctness.                                                       *)

Daily == check.pc \in {"unclosed", "short"}
Typed == TypeOK /\ (Daily => check.date \in Dates)

\* Every step keeps the types.
LEMMA TypedStep == Typed /\ [Next]_vars => Typed'
<1> SUFFICES ASSUME Typed, [Next]_vars PROVE Typed'
  OBVIOUS
<1> USE DEF Typed, TypeOK, Daily
<1>1. Today(now) \in Dates
  BY DayBounds DEF Today
<1>2. CASE Tick
  BY <1>2, CronAssumption DEF Tick, Times
<1>3. ASSUME NEW e \in Employees, NEW a \in Actions, Clock(e, a) PROVE Typed'
  BY <1>3 DEF Clock, Logs
<1>a. ASSUME NEW x, CatchUp(x) PROVE Typed'
  BY <1>a DEF CatchUp
<1>4. ASSUME NEW d \in Dates, StartDaily(d) PROVE Typed'
  BY <1>4 DEF StartDaily, Begin, Check, getUnclosedSessions
<1>5. ASSUME NEW e \in Employees, SaveUnclosed(e) PROVE Typed'
  BY <1>1, <1>5 DEF SaveUnclosed, SaveFlag, Check
<1>6. ASSUME NEW e \in Employees, ReadShort(e) PROVE Typed'
  <2>1. PICK found \in SUBSET {e} : check' = [check EXCEPT !.todo = @ \ {e}, !.found = found]
    BY <1>6 DEF ReadShort
  <2>2. check' \in Check /\ check'.pc = check.pc /\ check'.date = check.date
    BY <2>1 DEF Check
  <2>3. UNCHANGED <<now, log, bank, unshown, flags, settled, quiet>> /\ Check' = Check
    BY <1>6 DEF ReadShort, Check
  <2>4. QED BY <2>2, <2>3
<1>7. ASSUME NEW e \in Employees, SaveShort(e) PROVE Typed'
  BY <1>1, <1>7 DEF SaveShort, SaveFlag, Check
<1>8. CASE ListEmployees
  BY <1>8 DEF ListEmployees, Check
<1>9. CASE EndDaily
  BY <1>9 DEF EndDaily, Check, NoCheck
<1>10. CASE StartMonthly
  BY <1>1, <1>10 DEF StartMonthly, Begin, Check
<1>11. ASSUME NEW e \in Employees, VisitBank(e) PROVE Typed'
  BY <1>11 DEF VisitBank, Check
<1>12. CASE EndMonthly \/ Die
  <2>1. check' = NoCheck /\ quiet' \in BOOLEAN
    BY <1>12 DEF EndMonthly, Die
  <2>2. UNCHANGED <<now, log, bank, unshown, flags, settled>>
    BY <1>12 DEF EndMonthly, Die
  <2>3. NoCheck \in Check /\ Check' = Check /\ NoCheck.pc = "idle"
    BY DEF Check, NoCheck
  <2>4. QED BY <2>1, <2>2, <2>3
<1>13. CASE UNCHANGED vars
  BY <1>13 DEF vars
<1>14. QED
  BY <1>2, <1>3, <1>4, <1>5, <1>6, <1>7, <1>8, <1>9, <1>10, <1>11, <1>12, <1>13, <1>a DEF Next

\* Types at every moment.
LEMMA AlwaysTyped == Spec => []Typed
<1>1. Init => Typed
  <2> SUFFICES ASSUME Init PROVE Typed
    OBVIOUS
  <2>1. \A e \in Employees : \A b \in bank[e] : b.expires \in Nat /\ b.remaining \in Hours
    <3>1. \A m \in {0 - ExpiryMonths, 1 - ExpiryMonths} :
            createBankEntry(m, MaxHours).expires \in Nat /\ createBankEntry(m, MaxHours).remaining \in Hours
      BY CalendarAssumption, BankAssumption DEF createBankEntry, Hours
    <3>2. QED BY <3>1 DEF Init
  <2>2. now \in Times /\ log \in [Employees -> Logs]
    BY CronAssumption DEF Init, Times, Logs, EmptyLog
  <2>3. check \in Check
    BY DEF Init, Check, NoCheck
  <2>4. QED BY <2>1, <2>2, <2>3 DEF Init, Typed, TypeOK, Daily, NoCheck
<1>2. QED BY <1>1, TypedStep, PTL DEF Spec

\* The variables keep their ranges, and the entries of the bank their shape, over
\* every interleaving of clock events with checks that die and are repeated.
THEOREM CronType == Spec => []TypeOK
<1>1. Typed => TypeOK
  BY DEF Typed
<1>2. QED BY <1>1, AlwaysTyped, PTL

-----------------------------------------------------------------------------
(* The flags of the daily check.                                           *)

Worked(e, d) == OnDate(log[e], d) # {}
FlaggedWorked == \A e \in Employees, d \in Dates : Flagged(e, d) => Worked(e, d)

\* Whoever recorded something on a settled date has a flag for it, and every
\* query shows it.
SettledFlagged == \A d \in settled :
    /\ \A x \in unshown : DayOf(x[2]) # d
    /\ \A e \in Employees : Worked(e, d) => Flagged(e, d)

\* What a check that is under way has done and what it still has to do.
Underway ==
    /\ check.pc = "unclosed" =>
         /\ check.found = {}
         /\ \A e \in check.todo : Worked(e, check.date)
         /\ quiet => \A e \in Employees :
              Worked(e, check.date) => e \in check.todo \/ Flagged(e, check.date)
    /\ check.pc = "short" =>
         /\ \A e \in check.found : Worked(e, check.date)
         /\ quiet => \A e \in Employees : Worked(e, check.date) => Flagged(e, check.date)
    /\ Daily /\ quiet => \A x \in unshown : DayOf(x[2]) # check.date

FlagInv == FlaggedWorked /\ SettledFlagged /\ Underway

\* A clock event adds to its own day alone.
LEMMA ClockAdds ==
    ASSUME Typed, NEW e \in Employees, NEW a \in Actions, Clock(e, a)
    PROVE  \A f \in Employees : \A d :
             /\ Worked(f, d) => Worked(f, d)'
             /\ d # Today(now) => (Worked(f, d)' <=> Worked(f, d))
<1> SUFFICES ASSUME NEW f \in Employees, NEW d
             PROVE  /\ Worked(f, d) => Worked(f, d)'
                    /\ d # Today(now) => (Worked(f, d)' <=> Worked(f, d))
  OBVIOUS
<1>1. log \in [Employees -> Logs] /\ now \in Times
  BY DEF Typed, TypeOK
<1>2. log' = [log EXCEPT ![e][now] = a] /\ log[e][now] = NoAction /\ a # NoAction
  BY DEF Clock, Actions, NoAction
<1>3. CASE f # e
  <2>1. log'[f] = log[f]
    BY <1>1, <1>2, <1>3
  <2>2. QED BY <2>1 DEF Worked, OnDate
<1>4. CASE f = e
  <2>1. log'[f] = [log[f] EXCEPT ![now] = a] /\ log[f] \in [Times -> Actions \cup {NoAction}]
    BY <1>1, <1>2, <1>4 DEF Logs
  <2>2. Recorded(log'[f]) = Recorded(log[f]) \cup {now}
    BY <1>1, <1>2, <1>4, <2>1 DEF Recorded
  <2>3. QED BY <2>2 DEF Worked, OnDate, Today
<1>5. QED BY <1>3, <1>4

\* A step that leaves logs, flags and settled dates alone, and brings no event that
\* is unshown, keeps what is said of them.
LEMMA FlagsKept ==
    ASSUME FlaggedWorked, SettledFlagged,
           log' = log, flags' = flags, settled' = settled, unshown' \subseteq unshown
    PROVE  FlaggedWorked' /\ SettledFlagged'
BY DEF FlaggedWorked, SettledFlagged, Worked, Flagged

\* What saving a flag does to the flags.
LEMMA FlagSaved ==
    ASSUME Typed, NEW e \in Employees, check.date \in Dates, SaveFlag(e, check.date)
    PROVE  \A f \in Employees, d \in Dates :
             /\ Flagged(f, d)' <=> Flagged(f, d) \/ (f = e /\ d = check.date)
             /\ ~(f = e /\ d = check.date) => flags'[f][d] = flags[f][d]
             /\ f = e /\ d = check.date => flags'[f][d] = Today(now)
<1>1. Today(now) # NoFlag
  BY DayBounds, DatesAreDays DEF Typed, TypeOK, Today, NoFlag, NoDate
<1>2. QED BY <1>1 DEF Typed, TypeOK, SaveFlag, Flagged

\* Saving the flag of someone who worked keeps the flags right.
LEMMA SaveKeeps ==
    ASSUME Typed, FlagInv, NEW e \in Employees, check.date \in Dates,
           SaveFlag(e, check.date), Worked(e, check.date),
           log' = log, unshown' = unshown, settled' = settled
    PROVE  FlaggedWorked' /\ SettledFlagged'
<1>1. settled \subseteq Dates
  BY DEF Typed, TypeOK
<1>2. FlaggedWorked'
  BY FlagSaved DEF FlagInv, FlaggedWorked, Worked
<1>3. SettledFlagged'
  BY <1>1, FlagSaved DEF FlagInv, SettledFlagged, Worked
<1>4. QED BY <1>2, <1>3

\* Every step keeps the flags right.
LEMMA FlagStep == Typed /\ FlagInv /\ [Next]_vars => FlagInv'
<1> SUFFICES ASSUME Typed, FlagInv, [Next]_vars PROVE FlagInv'
  OBVIOUS
<1>1. /\ Check = Check' /\ check \in Check /\ settled \subseteq Dates
      /\ log \in [Employees -> Logs] /\ (Daily => check.date \in Dates)
  BY DEF Typed, TypeOK, Check
<1>2. FlaggedWorked /\ SettledFlagged /\ Underway
  BY DEF FlagInv
<1>3. ASSUME NEW e \in Employees, NEW a \in Actions, Clock(e, a) PROVE FlagInv'
  <2>1. /\ flags' = flags /\ check' = check
        /\ settled' = settled \ {Today(now)}
        /\ unshown' = unshown \cup {<<e, now>>} /\ DayOf(now) = Today(now)
        /\ quiet' => quiet /\ check.date # Today(now)
    BY <1>3 DEF Clock, Today
  <2>2. FlaggedWorked'
    BY <1>2, <1>3, <2>1, ClockAdds DEF FlaggedWorked, Flagged
  <2>3. SettledFlagged'
    BY <1>2, <1>3, <2>1, ClockAdds DEF SettledFlagged, Flagged
  <2>4. Underway'
    <3>1. \A f \in Employees : Flagged(f, check.date)' <=> Flagged(f, check.date)
      BY <2>1 DEF Flagged
    <3>2. \A f \in Employees : Worked(f, check.date) => Worked(f, check.date)'
      BY <1>3, <2>1, ClockAdds
    <3>3. quiet' => \A f \in Employees : Worked(f, check.date)' <=> Worked(f, check.date)
      BY <1>3, <2>1, ClockAdds
    <3>4. check.todo \subseteq Employees /\ check.found \subseteq Employees
      BY <1>1 DEF Check
    <3>5. Daily' /\ quiet' => \A x \in unshown' : DayOf(x[2]) # check'.date
      BY <1>2, <2>1 DEF Underway, Daily
    <3>6. QED BY <1>2, <2>1, <3>1, <3>2, <3>3, <3>4, <3>5 DEF Underway
  <2>5. QED BY <2>2, <2>3, <2>4 DEF FlagInv
<1>a. ASSUME NEW x, CatchUp(x) PROVE FlagInv'
  <2>1. FlaggedWorked' /\ SettledFlagged'
    BY <1>2, <1>a, FlagsKept DEF CatchUp
  <2>2. Underway'
    BY <1>2, <1>a DEF CatchUp, Underway, Daily, Worked, Flagged
  <2>3. QED BY <2>1, <2>2 DEF FlagInv
<1>4. ASSUME NEW d \in Dates, StartDaily(d) PROVE FlagInv'
  <2>1. FlaggedWorked' /\ SettledFlagged'
    BY <1>2, <1>4, FlagsKept DEF StartDaily
  <2>2. PICK missed \in SUBSET unshown :
          Begin("unclosed", d, getUnclosedSessions(Without(missed), d))
    BY <1>4 DEF StartDaily
  <2>3. /\ log' = log /\ flags' = flags /\ unshown' = unshown
        /\ quiet' = (\A x \in unshown : DayOf(x[2]) # d)
    BY <1>4 DEF StartDaily
  <2>4. \A e \in Employees : e \in check'.todo <=> OnDate(Without(missed)[e], d) # {}
    BY <2>2 DEF Begin, getUnclosedSessions
  <2>5. \A e \in check'.todo : e \in Employees /\ Worked(e, d)
    BY <1>1, <2>2, <2>4, SeenEvents DEF Begin, getUnclosedSessions, Worked
  <2>6. quiet' => \A e \in Employees : Worked(e, d) => e \in check'.todo
    <3> SUFFICES ASSUME quiet', NEW e \in Employees, Worked(e, d) PROVE e \in check'.todo
      OBVIOUS
    <3>1. \A x \in missed : DayOf(x[2]) # d
      BY <2>2, <2>3
    <3>2. OnDate(Without(missed)[e], d) = OnDate(log[e], d)
      BY <1>1, <3>1, SeenEvents
    <3>3. QED BY <2>4, <3>2 DEF Worked
  <2>7. check'.pc = "unclosed" /\ check'.date = d /\ check'.found = {}
    BY <2>2 DEF Begin
  <2>8. Underway'
    BY <2>3, <2>5, <2>6, <2>7 DEF Underway, Daily, Worked, Flagged
  <2>9. QED BY <2>1, <2>8 DEF FlagInv
<1>5. ASSUME NEW e \in Employees, SaveUnclosed(e) PROVE FlagInv'
  <2>1. /\ SaveFlag(e, check.date) /\ log' = log /\ unshown' = unshown
        /\ settled' = settled /\ quiet' = quiet
        /\ check'.pc = "unclosed" /\ check'.date = check.date /\ check'.todo = check.todo \ {e}
        /\ check'.found = check.found /\ check.pc = "unclosed"
        /\ Worked(e, check.date) /\ check.date \in Dates
    BY <1>1, <1>2, <1>5 DEF SaveUnclosed, Check, Underway, Daily
  <2>2. FlaggedWorked' /\ SettledFlagged'
    BY <2>1, SaveKeeps
  <2>3. \A f \in Employees : Flagged(f, check.date)' <=> Flagged(f, check.date) \/ f = e
    BY <2>1, FlagSaved
  <2>4. \A f : \A d : Worked(f, d)' <=> Worked(f, d)
    BY <2>1 DEF Worked
  <2>5. Underway'
    BY <1>2, <2>1, <2>3, <2>4 DEF Underway, Daily
  <2>6. QED BY <2>2, <2>5 DEF FlagInv
<1>6. ASSUME NEW e \in Employees, ReadShort(e) PROVE FlagInv'
  <2>1. FlaggedWorked' /\ SettledFlagged'
    BY <1>2, <1>6, FlagsKept DEF ReadShort
  <2>2. PICK missed \in SUBSET unshown :
          check' = [check EXCEPT !.todo = @ \ {e},
                      !.found = IF TooShort(Without(missed)[e], check.date) THEN {e} ELSE {}]
    BY <1>6 DEF ReadShort
  <2>3. TooShort(Without(missed)[e], check.date) => Worked(e, check.date)
    <3>1. TooShort(Without(missed)[e], check.date) => OnDate(Without(missed)[e], check.date) # {}
      BY DEF TooShort, sessionLength
    <3>2. QED BY <1>1, <3>1, SeenEvents DEF Worked
  <2>4. /\ check'.pc = "short" /\ check'.date = check.date /\ check.pc = "short"
        /\ \A f \in check'.found : Worked(f, check.date)
    BY <1>1, <1>6, <2>2, <2>3 DEF ReadShort, Check
  <2>5. log' = log /\ flags' = flags /\ unshown' = unshown /\ quiet' = quiet
    BY <1>6 DEF ReadShort
  <2>6. Underway'
    BY <1>2, <2>4, <2>5 DEF Underway, Daily, Worked, Flagged
  <2>7. QED BY <2>1, <2>6 DEF FlagInv
<1>7. ASSUME NEW e \in Employees, SaveShort(e) PROVE FlagInv'
  <2>1. /\ SaveFlag(e, check.date) /\ log' = log /\ unshown' = unshown
        /\ settled' = settled /\ quiet' = quiet
        /\ check'.pc = "short" /\ check'.date = check.date /\ check'.found = {}
        /\ check.pc = "short" /\ Worked(e, check.date) /\ check.date \in Dates
    BY <1>1, <1>2, <1>7 DEF SaveShort, Check, Underway, Daily
  <2>2. FlaggedWorked' /\ SettledFlagged'
    BY <2>1, SaveKeeps
  <2>3. \A f \in Employees : Flagged(f, check.date)' <=> Flagged(f, check.date) \/ f = e
    BY <2>1, FlagSaved
  <2>4. \A f : \A d : Worked(f, d)' <=> Worked(f, d)
    BY <2>1 DEF Worked
  <2>5. Underway'
    BY <1>2, <2>1, <2>3, <2>4 DEF Underway, Daily
  <2>6. QED BY <2>2, <2>5 DEF FlagInv
<1>8. CASE ListEmployees
  <2>1. /\ flags' = flags /\ log' = log /\ unshown' = unshown
        /\ settled' = settled /\ quiet' = quiet
        /\ check'.pc = "short" /\ check'.date = check.date /\ check'.found = check.found
        /\ check.pc = "unclosed" /\ check.todo = {}
    BY <1>1, <1>8 DEF ListEmployees, Check
  <2>2. FlaggedWorked' /\ SettledFlagged'
    BY <1>2, <2>1, FlagsKept
  <2>3. Underway'
    BY <1>2, <2>1 DEF Underway, Daily, Worked, Flagged
  <2>4. QED BY <2>2, <2>3 DEF FlagInv
<1>9. CASE EndDaily
  <2>1. /\ flags' = flags /\ log' = log /\ unshown' = unshown /\ check' = NoCheck
        /\ settled' = (IF quiet THEN settled \cup {check.date} ELSE settled) /\ Daily
        /\ check.pc = "short"
    BY <1>9 DEF EndDaily, Daily
  <2>2. FlaggedWorked'
    BY <1>2, <2>1 DEF FlaggedWorked, Worked, Flagged
  <2>3. SettledFlagged'
    BY <1>2, <2>1 DEF Underway, SettledFlagged, Worked, Flagged
  <2>4. Underway'
    BY <2>1 DEF Underway, Daily, NoCheck
  <2>5. QED BY <2>2, <2>3, <2>4 DEF FlagInv
<1>10. ASSUME \/ StartMonthly \/ EndMonthly \/ Die
              \/ \E e \in Employees : VisitBank(e)
       PROVE  FlagInv'
  <2>1. /\ flags' = flags /\ log' = log /\ unshown' = unshown /\ settled' = settled
        /\ check'.pc \notin {"unclosed", "short"}
    BY <1>1, <1>10 DEF StartMonthly, EndMonthly, Die, VisitBank, Begin, NoCheck, Check
  <2>2. FlaggedWorked' /\ SettledFlagged'
    BY <1>2, <2>1, FlagsKept
  <2>3. Underway'
    BY <2>1 DEF Underway, Daily
  <2>4. QED BY <2>2, <2>3 DEF FlagInv
<1>11. CASE Tick \/ UNCHANGED vars
  <2>1. UNCHANGED <<flags, log, unshown, settled, check, quiet>>
    BY <1>11 DEF Tick, vars
  <2>2. FlaggedWorked' /\ SettledFlagged'
    BY <1>2, <2>1, FlagsKept
  <2>3. Underway'
    BY <1>2, <2>1 DEF Underway, Daily, Worked, Flagged
  <2>4. QED BY <2>2, <2>3 DEF FlagInv
<1>12. QED
  BY <1>3, <1>4, <1>5, <1>6, <1>7, <1>8, <1>9, <1>10, <1>11, <1>a DEF Next

\* Types and flags at every moment.
LEMMA AlwaysFlagged == Spec => [](Typed /\ FlagInv)
<1>1. Init => FlagInv
  BY DEF Init, FlagInv, FlaggedWorked, SettledFlagged, Underway, NoCheck, Daily, Flagged
<1>2. QED BY <1>1, AlwaysTyped, FlagStep, PTL DEF Spec

\* In whatever order checks run, die and are repeated, whoever clocks while they
\* run and whatever their queries miss: once a date is settled exactly those have
\* a flag for it who recorded something on it, and at no time anybody else
\* (runDailyChecks).
THEOREM DailyFlags == Spec => []FlagsRight
<1>1. FlagInv => FlagsRight
  BY DEF FlagInv, FlagsRight, FlaggedWorked, SettledFlagged, Worked
<1>2. QED BY <1>1, AlwaysFlagged, PTL

\* No flag was made later than today.
Stamped == \A e \in Employees, d \in Dates : flags[e][d] <= Today(now)

\* Every step keeps flags from the future out.
LEMMA AlwaysStamped == Spec => []Stamped
<1>1. Init => Stamped
  BY CronAssumption, CalendarAssumption, DayBounds, DatesAreDays
  DEF Init, Stamped, NoFlag, Today, Times
<1>2. Typed /\ Stamped /\ [Next]_vars => Stamped'
  <2> SUFFICES ASSUME Typed, Stamped, [Next]_vars PROVE Stamped'
    OBVIOUS
  <2>1. now \in Times /\ now' \in Times /\ now <= now'
    <3>1. CASE Tick
      BY <3>1, CronAssumption DEF Typed, TypeOK, Times, Tick
    <3>2. ~ Tick => now' = now
      BY DEF Next, vars, Clock, CatchUp, StartDaily, SaveUnclosed, ListEmployees, ReadShort,
         SaveShort, EndDaily, StartMonthly, VisitBank, EndMonthly, Die
    <3>3. QED BY <3>1, <3>2, CronAssumption DEF Typed, TypeOK, Times
  <2>2. Today(now) \in Int /\ Today(now') \in Int /\ Today(now) <= Today(now')
    <3>1. \A a, b \in Nat : a <= b => a \div SlotsPerDay \in Nat
                                        /\ a \div SlotsPerDay <= b \div SlotsPerDay
      BY CalendarAssumption
    <3>2. \A b \in Nat : b \div SlotsPerDay \in Nat
      BY <3>1
    <3>3. QED BY <2>1, <3>1, <3>2, CronAssumption DEF Times, Today, DayOf
  <2>3. \A e \in Employees, d \in Dates : flags[e][d] \in Int
    BY DatesAreDays DEF Typed, TypeOK, NoFlag
  <2>4. CASE flags' = flags
    BY <2>2, <2>3, <2>4 DEF Stamped
  <2>5. ASSUME NEW f \in Employees, SaveUnclosed(f) \/ SaveShort(f) PROVE Stamped'
    <3>1. now' = now /\ SaveFlag(f, check.date) /\ check.date \in Dates
      BY <2>5 DEF SaveUnclosed, SaveShort, Typed, Daily
    <3>2. QED BY <2>2, <2>3, <3>1, FlagSaved DEF Stamped
  <2>6. flags' = flags \/ \E f \in Employees : SaveUnclosed(f) \/ SaveShort(f)
    BY DEF Next, vars, Tick, Clock, CatchUp, StartDaily, ReadShort, ListEmployees, EndDaily,
           StartMonthly, VisitBank, EndMonthly, Die
  <2>7. QED BY <2>4, <2>5, <2>6
<1>3. QED BY <1>1, <1>2, AlwaysTyped, PTL DEF Spec

\* A check that runs again adds no flag to a settled date and takes none away; the
\* flags it replaces are those of its own date, and their new creation time, with
\* their new id, is a later one (runDailyChecks, buildFlag).
THEOREM RerunsSettled == Spec => RerunsSettle
<1> DEFINE Kept(d, e) ==
      /\ Flagged(e, d)' <=> Flagged(e, d)
      /\ flags'[e][d] # flags[e][d] =>
           check.date = d /\ flags'[e][d] = Today(now) /\ flags'[e][d] > flags[e][d]
<1>1. Typed /\ FlagInv /\ Stamped /\ [Next]_vars => [\A d \in settled, e \in Employees : Kept(d, e)]_vars
  <2> SUFFICES ASSUME Typed, FlagInv, Stamped, [Next]_vars, NEW d \in settled, NEW e \in Employees
               PROVE  Kept(d, e)
    OBVIOUS
  <2>1. CASE flags' = flags
    BY <2>1 DEF Flagged
  <2>2. ASSUME NEW f \in Employees, SaveUnclosed(f) \/ SaveShort(f)
        PROVE  Kept(d, e)
    <3>1. /\ SaveFlag(f, check.date) /\ Worked(f, check.date) /\ check.date \in Dates
          /\ d \in Dates
      BY <2>2 DEF SaveUnclosed, SaveShort, FlagInv, Underway, Typed, TypeOK, Daily
    <3>2. CASE ~(e = f /\ d = check.date)
      BY <3>1, <3>2, FlagSaved
    <3>3. CASE e = f /\ d = check.date
      <4>1. Flagged(e, d) /\ Flagged(e, d)' /\ flags'[e][d] = Today(now)
        BY <3>1, <3>3, FlagSaved DEF FlagInv, SettledFlagged
      <4>2. flags[e][d] <= Today(now) /\ flags[e][d] \in Int /\ Today(now) \in Int
        BY <3>1, DayBounds, DatesAreDays DEF Stamped, Typed, TypeOK, NoFlag, Today
      <4>3. QED BY <3>3, <4>1, <4>2
    <3>4. QED BY <3>2, <3>3
  <2>3. flags' = flags \/ \E f \in Employees : SaveUnclosed(f) \/ SaveShort(f)
    BY DEF Next, vars, Tick, Clock, CatchUp, StartDaily, ReadShort, ListEmployees, EndDaily,
           StartMonthly, VisitBank, EndMonthly, Die
  <2>4. QED BY <2>1, <2>2, <2>3
<1>2. QED BY <1>1, AlwaysFlagged, AlwaysStamped, PTL DEF Spec, RerunsSettle

-----------------------------------------------------------------------------
(* The bank.                                                               *)

\* Nothing changes the entries that a month was closed with.
Banked == bank = [e \in Employees |->
    {createBankEntry(month, MaxHours) : month \in {0 - ExpiryMonths, 1 - ExpiryMonths}}]

\* No step changes them.
LEMMA BankStep == Banked /\ [Next]_vars => Banked'
<1> SUFFICES ASSUME Banked, [Next]_vars PROVE Banked'
  OBVIOUS
<1>1. bank' = bank
  BY DEF Next, vars, Tick, Clock, CatchUp, StartDaily, ReadShort, SaveUnclosed, SaveShort,
         ListEmployees, EndDaily, StartMonthly, VisitBank, EndMonthly, Die
<1>2. QED BY <1>1 DEF Banked

-----------------------------------------------------------------------------
(* Totals.                                                                 *)

\* The equation a total solves, over sets of positions.
TotalsOver(h, hours) ==
    h = [U \in SUBSET DOMAIN hours |->
           IF U = {} THEN 0 ELSE h[U \ {Max(U)}] + hours[Max(U)]]

\* A total is the value of some function that adds the numbers one by one.
LEMMA TotalIsChosen ==
    ASSUME NEW hours
    PROVE  Total(hours) = (CHOOSE h : TotalsOver(h, hours))[DOMAIN hours]
BY DEF Total, FoldLeft, MapThenFoldSet, TotalsOver

\* A total is a sum, whatever the order in which it is taken.
LEMMA TotalIsSum ==
    ASSUME NEW S, IsFiniteSet(S), Positions(S), NEW hours, hours = [i \in S |-> hours[i]], \A i \in S : hours[i] \in Int
    PROVE  Total(hours) = SumFunctionOnSet(hours, S)
<1> DEFINE ch == [U \in SUBSET S |-> Max(U)]
           step == [i \in S |-> [v \in Int |-> v + hours[i]]]
           sum(U) == SumFunctionOnSet(hours, U)
<1>1. \A U \in SUBSET S : U # {} => ch[U] \in U /\ ch[U] = Max(U)
  BY MaxPicks
<1>2. \A i \in S, v \in Int : step[i][v] = v + hours[i] /\ step[i][v] \in Int
  OBVIOUS
<1> HIDE DEF ch, step
<1>3. PICK h : FoldsOver(h, S, 0, ch, step)
  BY <1>1, FoldExists
<1>4. \A U \in SUBSET S : h[U] \in Int
  <2>1. 0 \in Int /\ \A i \in S, v \in Int : step[i][v] \in Int
    BY <1>2
  <2>2. QED BY <1>1, <1>3, <2>1, FoldType
<1>5. TotalsOver(h, hours)
  <2>1. \A U \in SUBSET S : U # {} => step[ch[U]][h[U \ {ch[U]}]] = h[U \ {Max(U)}] + hours[Max(U)]
    BY <1>1, <1>2, <1>4
  <2>2. h = [U \in SUBSET S |-> IF U = {} THEN 0 ELSE h[U \ {Max(U)}] + hours[Max(U)]]
    BY <1>3, <2>1 DEF FoldsOver
  <2>3. QED BY <2>2 DEF TotalsOver
<1> DEFINE total == CHOOSE k : TotalsOver(k, hours)
<1>6. TotalsOver(total, hours)
  BY <1>5
<1>7. Total(hours) = total[S]
  BY TotalIsChosen
<1> HIDE DEF total
<1> DEFINE B == { U \in SUBSET S : total[U] # sum(U) }
<1>8. ASSUME B # {} PROVE FALSE
  <2>1. PICK U \in B : \A V \in B : V \subseteq U => V = U
    <3>1. B \in SUBSET SUBSET S
      OBVIOUS
    <3> HIDE DEF B
    <3>2. QED BY <1>8, <3>1, SmallestSubset
  <2>2. total[U] = IF U = {} THEN 0 ELSE total[U \ {Max(U)}] + hours[Max(U)]
    BY <1>6, <2>1 DEF TotalsOver
  <2>3. IsFiniteSet(U) /\ \A i \in U : hours[i] \in Int
    BY <2>1, FS_Subset
  <2>4. CASE U = {}
    BY <2>1, <2>2, <2>3, <2>4, SumFirst
  <2>5. CASE U # {}
    <3>1. Max(U) \in U /\ U \ {Max(U)} \in SUBSET S
      BY <1>1, <2>1, <2>5
    <3>2. sum(U) = hours[Max(U)] + sum(U \ {Max(U)}) /\ sum(U \ {Max(U)}) \in Int
      BY <2>3, <3>1, SumRemove
    <3>3. total[U \ {Max(U)}] = sum(U \ {Max(U)})
      BY <2>1, <3>1
    <3> HIDE DEF sum
    <3>4. QED BY <2>1, <2>2, <2>3, <2>5, <3>1, <3>2, <3>3
  <2>6. QED BY <2>4, <2>5
<1>9. S \in SUBSET S
  OBVIOUS
<1>10. QED BY <1>7, <1>8, <1>9

-----------------------------------------------------------------------------
(* Draws from the bank.                                                    *)

\* What entry b gives after the entries before it gave done.
Given(done, b, needed, t) ==
    IF Usable(b, t) THEN Append(done, Least(b.remaining, needed - Total(done)))
    ELSE Append(done, 0)

OffsetsOver(h, entries, needed, t) ==
    h = [U \in SUBSET DOMAIN entries |->
           IF U = {} THEN <<>> ELSE Given(h[U \ {Max(U)}], entries[Max(U)], needed, t)]

\* applyBankOffset is the fold of what each entry gives.
LEMMA OffsetIsChosen ==
    ASSUME NEW entries, NEW needed, NEW t
    PROVE  applyBankOffset(entries, needed, t)
             = (CHOOSE h : OffsetsOver(h, entries, needed, t))[DOMAIN entries]
BY DEF applyBankOffset, FoldLeft, MapThenFoldSet, OffsetsOver, Given

\* What is given out of m, one entry more.
LEMMA LeastAdds ==
    ASSUME NEW m \in Nat, NEW h \in Nat, NEW a \in Nat
    PROVE  Least(m, h) + Least(a, m - Least(m, h)) = Least(m, h + a)
BY DEF Least

\* d is what the first k entries give: each what it has, as far as it is usable
\* and the entries before it left something to give.
Gives(d, k, entries, needed, t) ==
    /\ d \in [1 .. k -> Nat]
    /\ SumFunctionOnSet(d, 1 .. k) <= needed
    /\ \A i \in 1 .. k :
         d[i] = IF Usable(entries[i], t)
                THEN Least(entries[i].remaining, needed - SumFunctionOnSet(d, 1 .. i - 1)) ELSE 0

\* One more entry gives what it has, as far as that is needed.
LEMMA GivesOneMore ==
    ASSUME NEW k \in Nat, NEW entries, NEW needed \in Nat, NEW t, NEW d,
           Gives(d, k, entries, needed, t), entries[k + 1].remaining \in Nat
    PROVE  Gives(Given(d, entries[k + 1], needed, t), k + 1, entries, needed, t)
<1> DEFINE b == entries[k + 1]
           g == IF Usable(b, t) THEN Least(b.remaining, needed - SumFunctionOnSet(d, 1 .. k)) ELSE 0
           e == Given(d, b, needed, t)
<1>1. d \in [1 .. k -> Nat] /\ d \in Seq(Nat) /\ Len(d) = k
  BY DEF Gives
<1>2. Total(d) = SumFunctionOnSet(d, 1 .. k)
  <2>1. IsFiniteSet(1 .. k) /\ Positions(1 .. k)
    BY FS_Interval DEF Positions
  <2>2. d = [i \in 1 .. k |-> d[i]] /\ \A i \in 1 .. k : d[i] \in Int
    BY <1>1
  <2>3. QED BY <2>1, <2>2, TotalIsSum
<1>3. SumFunctionOnSet(d, 1 .. k) \in Nat /\ SumFunctionOnSet(d, 1 .. k) <= needed
  <2>1. IsFiniteSet(1 .. k)
    BY FS_Interval
  <2>2. \A i \in 1 .. k : d[i] \in Nat
    BY <1>1
  <2>3. SumFunctionOnSet(d, 1 .. k) \in Nat
    BY <2>1, <2>2, SumNat
  <2>4. QED BY <2>3 DEF Gives
<1>4. g \in Nat /\ SumFunctionOnSet(d, 1 .. k) + g <= needed
  BY <1>3 DEF Least
<1>5. e = Append(d, g)
  BY <1>2 DEF Given
<1> HIDE DEF g, e
<1>6. /\ e \in [1 .. k + 1 -> Nat] /\ e[k + 1] = g
      /\ \A i \in 1 .. k : e[i] = d[i]
  <2>1. e \in Seq(Nat) /\ Len(e) = k + 1 /\ e[k + 1] = g /\ \A i \in 1 .. k : e[i] = d[i]
    BY <1>1, <1>4, <1>5
  <2>2. QED BY <2>1
<1>7. \A i \in 0 .. k : SumFunctionOnSet(e, 1 .. i) = SumFunctionOnSet(d, 1 .. i)
  <2> SUFFICES ASSUME NEW i \in 0 .. k
               PROVE  SumFunctionOnSet(e, 1 .. i) = SumFunctionOnSet(d, 1 .. i)
    OBVIOUS
  <2>1. IsFiniteSet(1 .. i)
    BY FS_Interval
  <2>2. \A j \in 1 .. i : d[j] \in Int /\ e[j] = d[j]
    BY <1>1, <1>6
  <2>3. QED BY <2>1, <2>2, SumSame
<1>8. SumFunctionOnSet(e, 1 .. k + 1) = SumFunctionOnSet(d, 1 .. k) + g
  <2>1. k + 1 \in 1 .. k + 1 /\ k + 1 \in Nat /\ (k + 1) - 1 = k
    OBVIOUS
  <2>2. \A i \in 1 .. k + 1 : e[i] \in Int
    BY <1>6
  <2>3. SumFunctionOnSet(e, 1 .. k + 1) = SumFunctionOnSet(e, 1 .. k) + e[k + 1]
    BY <2>1, <2>2, SumUpTo
  <2>4. QED BY <1>6, <1>7, <2>3
<1>9. \A i \in 1 .. k + 1 :
        e[i] = IF Usable(entries[i], t)
               THEN Least(entries[i].remaining, needed - SumFunctionOnSet(e, 1 .. i - 1)) ELSE 0
  <2> SUFFICES ASSUME NEW i \in 1 .. k + 1
               PROVE  e[i] = IF Usable(entries[i], t)
                             THEN Least(entries[i].remaining, needed - SumFunctionOnSet(e, 1 .. i - 1))
                             ELSE 0
    OBVIOUS
  <2>1. i - 1 \in 0 .. k
    OBVIOUS
  <2>2. SumFunctionOnSet(e, 1 .. i - 1) = SumFunctionOnSet(d, 1 .. i - 1)
    BY <1>7, <2>1
  <2>3. CASE i = k + 1
    BY <1>6, <2>2, <2>3 DEF g
  <2>4. CASE i \in 1 .. k
    BY <1>6, <2>2, <2>4 DEF Gives
  <2>5. QED BY <2>3, <2>4
<1>10. SumFunctionOnSet(e, 1 .. k + 1) <= needed
  BY <1>4, <1>8
<1>11. QED BY <1>6, <1>9, <1>10 DEF Gives, e

\* What a draw takes from each of any number of entries.
LEMMA OffsetGives ==
    ASSUME NEW n \in Nat, NEW entries, DOMAIN entries = 1 .. n, NEW needed \in Nat, NEW t,
           \A i \in 1 .. n : entries[i].remaining \in Nat
    PROVE  Gives(applyBankOffset(entries, needed, t), n, entries, needed, t)
<1> DEFINE S == 1 .. n
           ch == [U \in SUBSET S |-> Max(U)]
           step == [i \in S |-> [done \in Seq(Int) |-> Given(done, entries[i], needed, t)]]
<1>1. IsFiniteSet(S) /\ Positions(S)
  BY FS_Interval DEF Positions
<1>2. \A U \in SUBSET S : U # {} => ch[U] \in U /\ ch[U] = Max(U) /\ \A x \in U : x <= Max(U)
  BY <1>1, MaxPicks
<1>3. \A i \in S, done \in Seq(Int) : /\ step[i][done] = Given(done, entries[i], needed, t)
                                      /\ step[i][done] \in Seq(Int)
  <2> SUFFICES ASSUME NEW i \in S, NEW done \in Seq(Int)
               PROVE  Given(done, entries[i], needed, t) \in Seq(Int)
    OBVIOUS
  <2>1. Total(done) \in Int
    <3>1. IsFiniteSet(1 .. Len(done)) /\ Positions(1 .. Len(done))
      BY FS_Interval DEF Positions
    <3>2. done = [j \in 1 .. Len(done) |-> done[j]] /\ \A j \in 1 .. Len(done) : done[j] \in Int
      OBVIOUS
    <3>3. Total(done) = SumFunctionOnSet(done, 1 .. Len(done))
      BY <3>1, <3>2, TotalIsSum
    <3>4. QED BY <3>1, <3>2, <3>3, SumFirst
  <2>2. entries[i].remaining \in Nat
    OBVIOUS
  <2>3. Least(entries[i].remaining, needed - Total(done)) \in Int
    BY <2>1, <2>2 DEF Least
  <2>4. QED BY <2>3 DEF Given
<1> HIDE DEF S, ch, step
<1>4. PICK k : FoldsOver(k, S, <<>>, ch, step)
  BY <1>1, <1>2, FoldExists
<1>5. \A U \in SUBSET S : k[U] \in Seq(Int)
  <2>1. <<>> \in Seq(Int) /\ \A i \in S, done \in Seq(Int) : step[i][done] \in Seq(Int)
    BY <1>3
  <2>2. QED BY <1>1, <1>2, <1>4, <2>1, FoldType
<1>6. OffsetsOver(k, entries, needed, t)
  <2>1. \A U \in SUBSET S : U # {} => step[ch[U]][k[U \ {ch[U]}]]
                                        = Given(k[U \ {Max(U)}], entries[Max(U)], needed, t)
    BY <1>2, <1>3, <1>5
  <2>2. k = [U \in SUBSET S |->
               IF U = {} THEN <<>> ELSE Given(k[U \ {Max(U)}], entries[Max(U)], needed, t)]
    BY <1>4, <2>1 DEF FoldsOver
  <2>3. QED BY <2>2 DEF OffsetsOver, S
<1> DEFINE h == CHOOSE q : OffsetsOver(q, entries, needed, t)
<1>7. OffsetsOver(h, entries, needed, t)
  BY <1>6
<1>8. applyBankOffset(entries, needed, t) = h[S]
  BY OffsetIsChosen DEF S
<1> HIDE DEF h
<1>9. /\ h[{}] = <<>>
      /\ \A U \in SUBSET S : U # {} => h[U] = Given(h[U \ {Max(U)}], entries[Max(U)], needed, t)
  BY <1>7 DEF OffsetsOver, S
<1> DEFINE B == { U \in SUBSET S : \E m \in 0 .. n : U = 1 .. m /\ ~ Gives(h[U], m, entries, needed, t) }
<1>10. ASSUME B # {} PROVE FALSE
  <2>1. PICK U \in B : \A V \in B : V \subseteq U => V = U
    <3>1. B \in SUBSET SUBSET S
      OBVIOUS
    <3> HIDE DEF B
    <3>2. QED BY <1>1, <1>10, <3>1, SmallestSubset
  <2>2. PICK m \in 0 .. n : U = 1 .. m /\ ~ Gives(h[U], m, entries, needed, t)
    BY <2>1
  <2>3. CASE m = 0
    <3>1. 1 .. 0 = {} /\ h[{}] = <<>>
      BY <1>9
    <3>2. SumFunctionOnSet(<<>>, 1 .. 0) = 0
      <4>1. 0 \in Nat /\ \A i \in 1 .. 0 : <<>>[i] \in Int
        OBVIOUS
      <4>2. QED BY <4>1, SumUpTo
    <3>3. <<>> \in [1 .. 0 -> Nat]
      OBVIOUS
    <3>4. Gives(<<>>, 0, entries, needed, t)
      BY <3>1, <3>2, <3>3 DEF Gives
    <3>5. h[U] = <<>>
      BY <2>2, <2>3, <3>1
    <3>6. QED BY <2>2, <2>3, <3>4, <3>5
  <2>4. CASE m > 0
    <3>1. m \in U /\ U # {} /\ U \in SUBSET S
      <4>1. U \in SUBSET S /\ m \in 1 .. m
        BY <2>1, <2>2, <2>4
      <4>2. QED BY <2>2, <4>1
    <3>2. Max(U) = m
      <4>1. Max(U) \in U /\ \A x \in U : x <= Max(U)
        BY <1>2, <3>1
      <4>2. QED BY <2>2, <3>1, <4>1
    <3> DEFINE V == 1 .. m - 1
    <3>3. U \ {m} = V /\ V \in SUBSET S /\ V \subseteq U /\ V # U /\ m - 1 \in 0 .. n
      BY <2>2, <2>4, <3>1
    <3>4. V \notin B
      BY <2>1, <3>3
    <3>5. Gives(h[V], m - 1, entries, needed, t)
      BY <3>3, <3>4
    <3>6. h[U] = Given(h[V], entries[m], needed, t)
      BY <1>9, <3>1, <3>2, <3>3
    <3>7. m - 1 \in Nat /\ (m - 1) + 1 = m /\ entries[m].remaining \in Nat
      BY <2>4, <3>3
    <3> HIDE DEF V
    <3>8. Gives(h[U], m, entries, needed, t)
      BY <3>5, <3>6, <3>7, GivesOneMore
    <3>9. QED BY <2>2, <3>8
  <2>5. QED BY <2>3, <2>4
<1>11. S \in SUBSET S /\ n \in 0 .. n /\ S = 1 .. n
  BY DEF S
<1>12. QED BY <1>8, <1>10, <1>11

\* What an entry has to give at moment t.
Available(entries, t) ==
    [i \in DOMAIN entries |-> IF Usable(entries[i], t) THEN entries[i].remaining ELSE 0]

\* As much as is needed is given, as far as the usable entries reach.
LEMMA GivesAll ==
    ASSUME NEW n \in Nat, NEW entries, DOMAIN entries = 1 .. n, NEW needed \in Nat, NEW t,
           \A i \in 1 .. n : entries[i].remaining \in Nat,
           NEW d, Gives(d, n, entries, needed, t)
    PROVE  \A k \in 0 .. n : SumFunctionOnSet(d, 1 .. k)
             = Least(needed, SumFunctionOnSet(Available(entries, t), 1 .. k))
<1> DEFINE avail == Available(entries, t)
           given(k) == SumFunctionOnSet(d, 1 .. k)
           there(k) == SumFunctionOnSet(avail, 1 .. k)
           S == 1 .. n
           B == { U \in SUBSET S : \E k \in 0 .. n : U = 1 .. k /\ given(k) # Least(needed, there(k)) }
<1>1. ASSUME B # {} PROVE FALSE
  <2>1. PICK U \in B : \A V \in B : V \subseteq U => V = U
    <3>1. IsFiniteSet(S)
      BY FS_Interval
    <3> HIDE DEF S
    <3>2. B \in SUBSET SUBSET S
      OBVIOUS
    <3> HIDE DEF B
    <3>3. QED BY <1>1, <3>1, <3>2, SmallestSubset
  <2>2. PICK k \in 0 .. n : U = 1 .. k /\ given(k) # Least(needed, there(k))
    BY <2>1
  <2>3. \A i \in 1 .. n : /\ avail[i] = IF Usable(entries[i], t) THEN entries[i].remaining ELSE 0
                          /\ avail[i] \in Nat /\ avail[i] \in Int
    BY DEF Available
  <2>4. \A i \in 1 .. n : d[i] \in Nat /\ d[i] \in Int
    BY DEF Gives
  <2> HIDE DEF avail
  <2>5. given(0) = 0 /\ there(0) = 0
    <3>1. given(0) = 0
      BY <2>4, SumUpTo
    <3>2. there(0) = 0
      BY <2>3, SumUpTo
    <3>3. QED BY <3>1, <3>2
  <2>6. CASE k = 0
    BY <2>2, <2>5, <2>6 DEF Least
  <2>7. CASE k # 0
    <3> DEFINE j == k - 1
    <3>1. k \in 1 .. n /\ j \in 0 .. n /\ k = j + 1
      BY <2>7
    <3>2. given(j) \in Int /\ given(k) = given(j) + d[k]
      BY <2>4, <3>1, SumUpTo
    <3>3. there(j) \in Int /\ there(k) = there(j) + avail[k]
      BY <2>3, <3>1, SumUpTo
    <3>4. 1 .. j \subseteq U /\ 1 .. j # U
      BY <2>2, <3>1
    <3>5. given(j) = Least(needed, there(j))
      BY <2>1, <3>1, <3>4
    <3>6. d[k] = IF Usable(entries[k], t) THEN Least(entries[k].remaining, needed - given(j)) ELSE 0
      BY <3>1 DEF Gives
    <3>7. there(j) \in Nat
      <4>1. IsFiniteSet(1 .. j) /\ \A i \in 1 .. j : avail[i] \in Nat
        <5>1. IsFiniteSet(1 .. j)
          BY <3>1, FS_Interval
        <5>2. QED BY <2>3, <3>1, <5>1
      <4>2. QED BY <4>1, SumNat
    <3>8. avail[k] \in Nat /\ avail[k] = IF Usable(entries[k], t) THEN entries[k].remaining ELSE 0
      BY <2>3, <3>1
    <3>9. d[k] = Least(avail[k], needed - given(j))
      BY <3>5, <3>6, <3>7, <3>8 DEF Least
    <3> HIDE DEF given, there, j, B
    <3>10. given(k) = Least(needed, there(k))
      <4>1. given(k) = Least(needed, there(j)) + Least(avail[k], needed - Least(needed, there(j)))
        BY <3>2, <3>5, <3>9
      <4>2. Least(needed, there(j)) + Least(avail[k], needed - Least(needed, there(j)))
              = Least(needed, there(j) + avail[k])
        BY <3>7, <3>8, LeastAdds
      <4>3. QED BY <3>3, <4>1, <4>2
    <3>11. QED BY <2>2, <3>10
  <2>8. QED BY <2>6, <2>7
<1>2. \A k \in 0 .. n : 1 .. k \in SUBSET (1 .. n)
  OBVIOUS
<1>3. QED BY <1>1, <1>2

\* What a draw takes, entry by entry and up to each of them.
LEMMA DrawGives ==
    ASSUME NEW n \in Nat, NEW entries, DOMAIN entries = 1 .. n, NEW needed \in Nat, NEW t,
           \A i \in 1 .. n : entries[i].remaining \in Nat
    PROVE  LET used == applyBankOffset(entries, needed, t)
           IN  /\ Gives(used, n, entries, needed, t)
               /\ \A k \in 0 .. n : SumFunctionOnSet(used, 1 .. k)
                    = Least(needed, SumFunctionOnSet(Available(entries, t), 1 .. k))
<1> DEFINE used == applyBankOffset(entries, needed, t)
<1>1. Gives(used, n, entries, needed, t)
  BY OffsetGives
<1> HIDE DEF used
<1>2. \A k \in 0 .. n : SumFunctionOnSet(used, 1 .. k)
        = Least(needed, SumFunctionOnSet(Available(entries, t), 1 .. k))
  BY <1>1, GivesAll
<1>3. QED BY <1>1, <1>2 DEF used

\* What each of two entries gives.
LEMMA DrawOfTwo ==
    ASSUME NEW entries, DOMAIN entries = 1 .. 2, NEW needed \in Nat, NEW t,
           \A i \in 1 .. 2 : entries[i].remaining \in Nat
    PROVE  LET used == applyBankOffset(entries, needed, t)
           IN  /\ Gives(used, 2, entries, needed, t)
               /\ \A k \in 0 .. 2 : SumFunctionOnSet(used, 1 .. k)
                    = Least(needed, SumFunctionOnSet(Available(entries, t), 1 .. k))
<1> DEFINE used == applyBankOffset(entries, needed, t)
           n == 2
<1>1. n \in Nat /\ DOMAIN entries = 1 .. n /\ \A i \in 1 .. n : entries[i].remaining \in Nat
  OBVIOUS
<1> HIDE DEF n
<1>2. Gives(used, n, entries, needed, t)
  BY <1>1, OffsetGives
<1> HIDE DEF used
<1>3. \A k \in 0 .. n : SumFunctionOnSet(used, 1 .. k)
        = Least(needed, SumFunctionOnSet(Available(entries, t), 1 .. k))
  BY <1>1, <1>2, GivesAll
<1>4. QED BY <1>2, <1>3 DEF n, used

\* The least of two numbers.
LEMMA LeastBelow ==
    ASSUME NEW a \in Int, NEW b \in Int
    PROVE  Least(a, b) <= a /\ Least(a, b) <= b /\ Least(a, b) \in Int
BY DEF Least

\* Two numbers, and their total.
LEMMA TotalOfTwo ==
    ASSUME NEW f, f = [i \in {1, 2} |-> f[i]], f[1] \in Int, f[2] \in Int
    PROVE  Total(f) = f[1] + f[2] /\ SumFunctionOnSet(f, 1 .. 2) = f[1] + f[2]
           /\ SumFunctionOnSet(f, 1 .. 1) = f[1] /\ SumFunctionOnSet(f, 1 .. 0) = 0
<1>1. 1 .. 2 = {1, 2} /\ \A i \in 1 .. 2 : f[i] \in Int
  OBVIOUS
<1>2. /\ SumFunctionOnSet(f, 1 .. 0) = 0
      /\ SumFunctionOnSet(f, 1 .. 1) = SumFunctionOnSet(f, 1 .. 0) + f[1]
      /\ SumFunctionOnSet(f, 1 .. 2) = SumFunctionOnSet(f, 1 .. 1) + f[2]
  <2>1. 2 \in Nat /\ \A i \in 1 .. 2 : f[i] \in Int
    BY <1>1
  <2>2. /\ SumFunctionOnSet(f, 1 .. 0) = 0
        /\ \A k \in 1 .. 2 : SumFunctionOnSet(f, 1 .. k) = SumFunctionOnSet(f, 1 .. k - 1) + f[k]
    BY <2>1, SumUpTo
  <2>3. QED BY <2>2
<1>3. Total(f) = SumFunctionOnSet(f, 1 .. 2)
  <2>1. IsFiniteSet(1 .. 2)
    <3>1. 1 \in Int /\ 2 \in Int
      OBVIOUS
    <3>2. QED BY <3>1, FS_Interval
  <2>2. Positions(1 .. 2)
    BY DEF Positions
  <2>3. f = [i \in 1 .. 2 |-> f[i]]
    BY <1>1
  <2>4. QED BY <1>1, <2>1, <2>2, <2>3, TotalIsSum
<1>4. QED BY <1>2, <1>3

TwoEntries(two) ==
    /\ two = <<two[1], two[2]>>
    /\ \A i \in {1, 2} : /\ two[i] = [expires |-> two[i].expires, remaining |-> two[i].remaining]
                         /\ two[i].remaining \in Nat

\* A draw from two entries, whatever these have and whenever they expire.
LEMMA DrawsSound ==
    ASSUME NEW two, TwoEntries(two), NEW needed \in Nat, NEW t
    PROVE  OffsetSound(two, needed, t)
<1> DEFINE used == applyBankOffset(two, needed, t)
           has == Available(two, t)
<1>1. DOMAIN two = 1 .. 2 /\ \A i \in 1 .. 2 : two[i].remaining \in Nat
  BY DEF TwoEntries
<1>2. /\ Gives(used, 2, two, needed, t)
      /\ \A k \in 0 .. 2 : SumFunctionOnSet(used, 1 .. k) = Least(needed, SumFunctionOnSet(has, 1 .. k))
  BY <1>1, DrawOfTwo
<1> HIDE DEF used
<1>3. /\ used = [i \in {1, 2} |-> used[i]]
      /\ used[1] \in Nat /\ used[2] \in Nat /\ used[1] \in Int /\ used[2] \in Int
  BY <1>2 DEF Gives
<1>4. /\ has = [i \in {1, 2} |-> IF Usable(two[i], t) THEN two[i].remaining ELSE 0]
      /\ has = [i \in {1, 2} |-> has[i]]
      /\ \A i \in {1, 2} : has[i] = (IF Usable(two[i], t) THEN two[i].remaining ELSE 0)
      /\ has[1] \in Nat /\ has[2] \in Nat /\ has[1] \in Int /\ has[2] \in Int
  BY <1>1 DEF Available
<1>5. /\ used[1] = Least(has[1], needed)
      /\ used[2] = Least(has[2], needed - used[1])
      /\ used[1] + used[2] = Least(needed, has[1] + has[2])
  <2>1. /\ SumFunctionOnSet(used, 1 .. 2) = used[1] + used[2]
        /\ SumFunctionOnSet(used, 1 .. 1) = used[1] /\ SumFunctionOnSet(used, 1 .. 0) = 0
    BY <1>3, TotalOfTwo
  <2>2. SumFunctionOnSet(has, 1 .. 2) = has[1] + has[2]
    BY <1>4, TotalOfTwo
  <2>3. \A i \in 1 .. 2 :
          used[i] = IF Usable(two[i], t)
                    THEN Least(two[i].remaining, needed - SumFunctionOnSet(used, 1 .. i - 1)) ELSE 0
    BY <1>2 DEF Gives
  <2>4. used[1] + used[2] = Least(needed, has[1] + has[2])
    <3>1. SumFunctionOnSet(used, 1 .. 2) = Least(needed, SumFunctionOnSet(has, 1 .. 2))
      BY <1>2
    <3>2. QED BY <2>1, <2>2, <3>1
  <2>5. \A i \in 1 .. 2 : i \in {1, 2}
    OBVIOUS
  <2>6. /\ used[1] = IF Usable(two[1], t) THEN Least(two[1].remaining, needed - 0) ELSE 0
        /\ used[2] = IF Usable(two[2], t) THEN Least(two[2].remaining, needed - used[1]) ELSE 0
    BY <2>1, <2>3
  <2>7. used[1] = Least(has[1], needed)
    BY <1>4, <2>6 DEF Least
  <2>8. used[2] = Least(has[2], needed - used[1])
    BY <1>3, <1>4, <2>4, <2>6, <2>7 DEF Least
  <2>9. QED BY <2>4, <2>7, <2>8
<1>6. used[1] \in 0 .. has[1] /\ used[2] \in 0 .. has[2]
  <2>1. needed - used[1] \in Int /\ needed \in Int
    BY <1>3
  <2>2. Least(has[1], needed) <= has[1] /\ Least(has[2], needed - used[1]) <= has[2]
    BY <1>4, <2>1, LeastBelow
  <2>3. QED BY <1>3, <1>4, <1>5, <2>2
<1>7. Total(used) = used[1] + used[2] /\ Total(has) = has[1] + has[2]
  BY <1>3, <1>4, TotalOfTwo
<1>8. used[2] > 0 => used[1] = has[1]
  BY <1>3, <1>4, <1>5 DEF Least
<1> HIDE DEF has
<1>9. has = [i \in {1, 2} |-> IF Usable(two[i], t) THEN two[i].remaining ELSE 0]
  BY <1>4
<1>10. \A i \in {1, 2} : used[i] \in 0 .. has[i]
  BY <1>6
<1>11. QED BY <1>5, <1>7, <1>8, <1>9, <1>10 DEF OffsetSound, used

-----------------------------------------------------------------------------
(* Whole division.                                                         *)

\* What a whole division leaves.
LEMMA Quotient ==
    ASSUME NEW a \in Int, NEW b \in Nat \ {0}
    PROVE  /\ a \div b \in Int
           /\ (a \div b) * b <= a /\ a < (a \div b) * b + b
OBVIOUS

-----------------------------------------------------------------------------
(* Flags and force majeure.                                                *)

\* A total over the first n numbers.
LEMMA TotalUpTo ==
    ASSUME NEW n \in Nat, NEW f, f \in [1 .. n -> Int]
    PROVE  Total(f) = SumFunctionOnSet(f, 1 .. n) /\ Total(f) \in Int
<1> DEFINE S == 1 .. n
<1>1. IsFiniteSet(S)
  BY FS_Interval
<1>2. Positions(S)
  BY DEF Positions
<1>3. f = [i \in S |-> f[i]] /\ \A i \in S : f[i] \in Int
  OBVIOUS
<1> HIDE DEF S
<1>4. Total(f) = SumFunctionOnSet(f, S)
  BY <1>1, <1>2, <1>3, TotalIsSum
<1>5. SumFunctionOnSet(f, S) \in Int
  BY <1>1, <1>3, SumFirst
<1>6. QED BY <1>4, <1>5 DEF S

\* A total of three.
LEMMA TotalOfThree ==
    ASSUME NEW f, f = [i \in 1 .. 3 |-> f[i]], f[1] \in Int, f[2] \in Int, f[3] \in Int
    PROVE  Total(f) = f[1] + f[2] + f[3]
<1>1. \A i \in 1 .. 3 : f[i] \in Int
  <2>1. \A i \in 1 .. 3 : i = 1 \/ i = 2 \/ i = 3
    OBVIOUS
  <2>2. QED BY <2>1
<1>2. f \in [1 .. 3 -> Int] /\ 3 \in Nat
  BY <1>1
<1>3. Total(f) = SumFunctionOnSet(f, 1 .. 3)
  BY <1>2, TotalUpTo
<1>4. /\ SumFunctionOnSet(f, 1 .. 0) = 0
      /\ \A k \in 1 .. 3 : SumFunctionOnSet(f, 1 .. k) = SumFunctionOnSet(f, 1 .. k - 1) + f[k]
  BY <1>1, <1>2, SumUpTo
<1>5. /\ SumFunctionOnSet(f, 1 .. 1) = SumFunctionOnSet(f, 1 .. 0) + f[1]
      /\ SumFunctionOnSet(f, 1 .. 2) = SumFunctionOnSet(f, 1 .. 1) + f[2]
      /\ SumFunctionOnSet(f, 1 .. 3) = SumFunctionOnSet(f, 1 .. 2) + f[3]
  <2>1. 1 \in 1 .. 3 /\ 2 \in 1 .. 3 /\ 3 \in 1 .. 3 /\ 1 - 1 = 0 /\ 2 - 1 = 1 /\ 3 - 1 = 2
    OBVIOUS
  <2>2. QED BY <1>4, <2>1
<1>6. QED BY <1>3, <1>4, <1>5

\* A resolution splits the hours it is told of, at each of the three levels.
LEMMA FlagsBalance ==
    ASSUME NEW worked \in Nat, NEW required \in Nat, NEW offset \in Nat, NEW excused \in BOOLEAN
    PROVE  ResolutionBalances(worked, required, offset, excused)
<1> DEFINE found(level) == shouldGenerateFlag(level, worked, required, excused)
           resolved(level, resolution) ==
               PatchFlag(TRUE, [resolution |-> resolution, deficitHours |-> found(level).deficit,
                                bankOffsetHours |-> offset]).answer
           lacking == IF excused THEN 0 ELSE Most(0, required - worked)
           deductible == [i \in 1 .. 3 |-> IF found(Levels[i]).deductible
                                          THEN found(Levels[i]).deficit ELSE 0]
           full == [i \in 1 .. 3 |-> resolved(Levels[i], "DEDUCT_FULL").deduct]
           Chosen == {"DEDUCT_FULL", "USE_BANK", "PARTIAL_BANK", "NO_PENALTY", "DISCUSS"}
<1>1. lacking \in Nat
  BY DEF Most
<1>2. \A level : /\ found(level).deficit = lacking
                 /\ found(level).deductible <=> lacking > 0 /\ level = "MONTHLY"
  BY DEF shouldGenerateFlag
<1> HIDE DEF found, lacking
<1>3. \A level : \A r \in Chosen : resolved(level, r) = resolveFlag(r, lacking, offset)
  BY <1>2 DEF PatchFlag
<1>4. /\ resolveFlag("DEDUCT_FULL", lacking, offset).deduct = lacking
      /\ resolveFlag("DEDUCT_FULL", lacking, offset).bank = 0
      /\ \A r \in {"USE_BANK", "PARTIAL_BANK"} :
           /\ resolveFlag(r, lacking, offset).deduct + resolveFlag(r, lacking, offset).bank = lacking
           /\ resolveFlag(r, lacking, offset).bank <= offset
      /\ \A r \in {"NO_PENALTY", "DISCUSS"} :
           resolveFlag(r, lacking, offset).deduct = 0 /\ resolveFlag(r, lacking, offset).bank = 0
  BY <1>1 DEF resolveFlag, Most, Least
<1> HIDE DEF resolved
<1>5. \A level : \A r \in {"DEDUCT_FULL", "USE_BANK", "PARTIAL_BANK"} :
        /\ resolved(level, r).deduct + resolved(level, r).bank = found(level).deficit
        /\ resolved(level, r).bank <= offset
  BY <1>1, <1>2, <1>3, <1>4
<1>6. \A level : \A r \in {"NO_PENALTY", "DISCUSS"} :
        resolved(level, r).deduct = 0 /\ resolved(level, r).bank = 0
  BY <1>3, <1>4
<1>7. Total(deductible) = lacking
  <2>1. deductible[1] = 0 /\ deductible[2] = 0 /\ deductible[3] = lacking
    BY <1>1, <1>2 DEF Levels
  <2>2. deductible = [i \in 1 .. 3 |-> deductible[i]]
    OBVIOUS
  <2> HIDE DEF deductible
  <2>3. QED BY <1>1, <2>1, <2>2, TotalOfThree
<1>8. Total(full) = 3 * lacking
  <2>1. full[1] = lacking /\ full[2] = lacking /\ full[3] = lacking
    BY <1>3, <1>4
  <2>2. full = [i \in 1 .. 3 |-> full[i]]
    OBVIOUS
  <2> HIDE DEF full
  <2>3. QED BY <1>1, <2>1, <2>2, TotalOfThree
<1> HIDE DEF deductible, full
<1>9. QED BY <1>5, <1>6, <1>7, <1>8
          DEF ResolutionBalances, found, resolved, lacking, deductible, full

\* The share of a month's hours that force majeure leaves.
LEMMA ShareIsTaken ==
    ASSUME NEW required \in Nat, NEW workDays \in Nat \ {0},
           NEW affected \in 0 .. workDays, NEW consecutive \in Nat
    PROVE  ShareTaken(required, workDays, affected, consecutive)
<1> DEFINE adjust(days) == calculateForceMajeureAdjustment(required, workDays, days, consecutive)
           above(days) == 2 * required * (workDays - days) + workDays
           q(days) == above(days) \div (2 * workDays)
           share(days) == required * (workDays - days)
<1>1. ASSUME NEW days \in 0 .. workDays
      PROVE  /\ share(days) \in Nat /\ above(days) = 2 * share(days) + workDays
             /\ q(days) \in Int
             /\ 2 * (workDays * q(days)) <= 2 * share(days) + workDays
             /\ 2 * share(days) + workDays < 2 * (workDays * q(days)) + 2 * workDays
             /\ q(days) >= 0
  <2>1. share(days) \in Nat /\ above(days) = 2 * share(days) + workDays
    OBVIOUS
  <2>2. 2 * workDays \in Nat \ {0} /\ above(days) \in Int
    BY <2>1
  <2>3. /\ q(days) \in Int
        /\ q(days) * (2 * workDays) <= above(days)
        /\ above(days) < q(days) * (2 * workDays) + 2 * workDays
    BY <2>2, Quotient
  <2> HIDE DEF q, share, above
  <2>4. q(days) * (2 * workDays) = 2 * (workDays * q(days))
    BY <2>3
  <2>5. q(days) >= 0
    <3> SUFFICES ASSUME q(days) <= -1 PROVE FALSE
      BY <2>3
    <3>1. q(days) * (2 * workDays) <= (-1) * (2 * workDays)
      BY <2>3
    <3>2. QED BY <2>1, <2>3, <3>1
  <2>6. QED BY <2>1, <2>3, <2>4, <2>5
<1>2. \A days \in 0 .. workDays :
        adjust(days) = IF days = 0 THEN [adjusted |-> required, reduction |-> 0, terminates |-> FALSE]
                       ELSE [adjusted |-> q(days), reduction |-> required - q(days),
                             terminates |-> consecutive > TerminationDays]
  BY DEF calculateForceMajeureAdjustment
<1> HIDE DEF q, adjust
<1>3. \A a, b \in 0 .. workDays : a <= b => q(b) <= q(a) /\ share(b) <= share(a)
  <2> SUFFICES ASSUME NEW a \in 0 .. workDays, NEW b \in 0 .. workDays, a <= b
               PROVE  q(b) <= q(a) /\ share(b) <= share(a)
    OBVIOUS
  <2>1. share(b) <= share(a)
    OBVIOUS
  <2>2. share(a) \in Nat /\ share(b) \in Nat /\ q(a) \in Int /\ q(b) \in Int
    BY <1>1
  <2>3. /\ 2 * (workDays * q(b)) <= 2 * share(b) + workDays
        /\ 2 * share(a) + workDays < 2 * (workDays * q(a)) + 2 * workDays
    BY <1>1
  <2> HIDE DEF share
  <2>4. workDays * q(b) < workDays * q(a) + workDays
    BY <2>1, <2>2, <2>3
  <2>5. q(b) <= q(a)
    <3> SUFFICES ASSUME q(b) >= q(a) + 1 PROVE FALSE
      BY <2>2
    <3>1. workDays * q(b) >= workDays * (q(a) + 1)
      BY <2>2
    <3>2. workDays * (q(a) + 1) = workDays * q(a) + workDays
      BY <2>2
    <3>3. QED BY <2>2, <2>4, <3>1, <3>2
  <2>6. QED BY <2>1, <2>5
<1>4. q(0) = required /\ q(workDays) = 0
  <2>1. 0 \in 0 .. workDays /\ workDays \in 0 .. workDays
    OBVIOUS
  <2>2. share(0) = required * workDays /\ share(workDays) = 0 /\ required * workDays \in Nat
    OBVIOUS
  <2>3. /\ q(0) \in Int /\ q(workDays) \in Int /\ q(workDays) >= 0
        /\ 2 * (workDays * q(0)) <= 2 * (required * workDays) + workDays
        /\ 2 * (required * workDays) + workDays < 2 * (workDays * q(0)) + 2 * workDays
        /\ 2 * (workDays * q(workDays)) <= workDays
    BY <1>1, <2>1, <2>2
  <2>4. q(0) = required
    <3>1. CASE q(0) >= required + 1
      <4>1. workDays * q(0) >= workDays * (required + 1)
        BY <2>3, <3>1
      <4>2. workDays * (required + 1) = required * workDays + workDays
        OBVIOUS
      <4>3. QED BY <2>2, <2>3, <4>1, <4>2
    <3>2. CASE q(0) <= required - 1
      <4>1. workDays * q(0) <= workDays * (required - 1)
        BY <2>3, <3>2
      <4>2. workDays * (required - 1) = required * workDays - workDays
        OBVIOUS
      <4>3. QED BY <2>2, <2>3, <4>1, <4>2
    <3>3. q(0) \in Int /\ required \in Int
      BY <2>3
    <3>4. q(0) >= required + 1 \/ q(0) <= required - 1 \/ q(0) = required
      BY <3>3
    <3>5. QED BY <3>1, <3>2, <3>4
  <2>5. q(workDays) = 0
    <3> SUFFICES ASSUME q(workDays) >= 1 PROVE FALSE
      BY <2>3
    <3>1. workDays * q(workDays) >= workDays
      BY <2>3
    <3>2. QED BY <2>3, <3>1
  <2>6. QED BY <2>4, <2>5
<1>5. \A days \in 0 .. workDays :
        /\ adjust(days).adjusted = q(days)
        /\ adjust(days).adjusted + adjust(days).reduction = required
  <2> SUFFICES ASSUME NEW days \in 0 .. workDays
               PROVE  /\ adjust(days).adjusted = q(days)
                      /\ adjust(days).adjusted + adjust(days).reduction = required
    OBVIOUS
  <2>1. CASE days = 0
    BY <1>2, <1>4, <2>1
  <2>2. CASE days # 0
    <3>1. adjust(days).adjusted = q(days) /\ adjust(days).reduction = required - q(days)
      BY <1>2, <2>2
    <3>2. q(days) \in Int
      BY <1>1
    <3>3. QED BY <3>1, <3>2
  <2>3. QED BY <2>1, <2>2
<1>6. 2 * (workDays * adjust(affected).adjusted - required * (workDays - affected))
        \in 0 - workDays .. workDays
  <2>1. /\ share(affected) \in Nat /\ q(affected) \in Int
        /\ 2 * (workDays * q(affected)) <= 2 * share(affected) + workDays
        /\ 2 * share(affected) + workDays < 2 * (workDays * q(affected)) + 2 * workDays
    BY <1>1
  <2>2. adjust(affected).adjusted = q(affected)
    BY <1>5
  <2>3. required * (workDays - affected) = share(affected)
    OBVIOUS
  <2> HIDE DEF share
  <2>4. workDays * q(affected) \in Int
    BY <2>1
  <2> DEFINE x == workDays * q(affected)
             y == share(affected)
  <2>5. x \in Int /\ y \in Nat /\ 2 * x <= 2 * y + workDays /\ 2 * y + workDays < 2 * x + 2 * workDays
    BY <2>1, <2>4
  <2> HIDE DEF x, y
  <2>6. 2 * (x - y) \in 0 - workDays .. workDays
    BY <2>5
  <2>7. QED BY <2>2, <2>3, <2>6 DEF x, y
<1>7. \A days \in affected .. workDays : adjust(days).adjusted \in 0 .. adjust(affected).adjusted
  <2> SUFFICES ASSUME NEW days \in affected .. workDays
               PROVE  adjust(days).adjusted \in 0 .. adjust(affected).adjusted
    OBVIOUS
  <2>1. days \in 0 .. workDays /\ affected <= days
    OBVIOUS
  <2>2. adjust(days).adjusted = q(days) /\ adjust(affected).adjusted = q(affected)
    BY <1>5, <2>1
  <2>3. q(days) \in Int /\ q(affected) \in Int /\ 0 <= q(days) /\ q(days) <= q(affected)
    BY <1>1, <1>3, <2>1
  <2>4. QED BY <2>2, <2>3
<1>8. adjust(workDays).adjusted = 0
  BY <1>4, <1>5
<1>9. consecutive <= affected => (adjust(affected).terminates <=> consecutive > TerminationDays)
  <2>1. CASE affected = 0
    <3>1. adjust(affected).terminates = FALSE
      BY <1>2, <2>1
    <3>2. consecutive <= affected => ~ (consecutive > TerminationDays)
      BY <2>1, BankAssumption
    <3>3. QED BY <3>1, <3>2
  <2>2. CASE affected # 0
    <3>1. adjust(affected).terminates = (consecutive > TerminationDays)
      BY <1>2, <2>2
    <3>2. QED BY <3>1
  <2>3. QED BY <2>1, <2>2
<1>10. adjust(affected).adjusted + adjust(affected).reduction = required
  BY <1>5
<1>11. QED BY <1>6, <1>7, <1>8, <1>9, <1>10 DEF ShareTaken, adjust

-----------------------------------------------------------------------------
(* Quota plans.                                                            *)

Row(f, n) == f \in [1 .. n -> Int]
Begins(g, f, m) == \A k \in 1 .. m : g[k] = f[k]
Ends(h, f, m, n) == \A k \in 1 .. n : h[k] = f[m + k]

\* One number of a sum over the positions changes.
LEMMA TotalReplaceOver ==
    ASSUME NEW S, IsFiniteSet(S), Positions(S), NEW i, i \in S,
           NEW f, f = [x \in S |-> f[x]], \A x \in S : f[x] \in Int,
           NEW g, g = [x \in S |-> g[x]], \A x \in S : g[x] \in Int,
           \A x \in S \ {i} : g[x] = f[x]
    PROVE  Total(g) = Total(f) - f[i] + g[i]
<1>1. Total(f) = SumFunctionOnSet(f, S)
  BY TotalIsSum
<1>2. Total(g) = SumFunctionOnSet(g, S)
  BY TotalIsSum
<1>3. SumFunctionOnSet(g, S) = SumFunctionOnSet(f, S) - f[i] + g[i]
  BY SumReplace
<1>4. QED BY <1>1, <1>2, <1>3

\* One number of a total changes.
LEMMA TotalReplace ==
    ASSUME NEW n \in Nat, NEW i, i \in 1 .. n, NEW f, Row(f, n), NEW g, Row(g, n),
           \A k \in (1 .. n) \ {i} : g[k] = f[k]
    PROVE  Total(g) = Total(f) - f[i] + g[i]
<1> DEFINE S == 1 .. n
<1>1. IsFiniteSet(S)
  BY FS_Interval
<1>2. Positions(S)
  BY DEF Positions
<1>3. f = [x \in S |-> f[x]] /\ \A x \in S : f[x] \in Int
  BY DEF Row
<1>4. g = [x \in S |-> g[x]] /\ \A x \in S : g[x] \in Int
  BY DEF Row
<1>5. i \in S /\ \A x \in S \ {i} : g[x] = f[x]
  OBVIOUS
<1> HIDE DEF S
<1>6. QED BY <1>1, <1>2, <1>3, <1>4, <1>5, TotalReplaceOver

\* A total in two parts.
LEMMA TotalSplit ==
    ASSUME NEW n \in Nat, NEW m \in 0 .. n,
           NEW f, Row(f, n),
           NEW g, Row(g, m), Begins(g, f, m),
           NEW h, Row(h, n - m), Ends(h, f, m, n - m)
    PROVE  Total(f) = Total(g) + Total(h)
<1> DEFINE sum(a, k) == SumFunctionOnSet(a, 1 .. k)
           S == 1 .. n - m
           B == { U \in SUBSET S : \E k \in 0 .. n - m : U = 1 .. k /\ sum(f, m + k) # sum(f, m) + sum(h, k) }
<1>1. /\ \A k \in 1 .. n : f[k] \in Int
      /\ \A k \in 1 .. n - m : h[k] \in Int
      /\ n - m \in Nat /\ m \in Nat
  BY DEF Row
<1>2. sum(f, 0) = 0 /\ \A k \in 1 .. n : sum(f, k - 1) \in Int /\ sum(f, k) = sum(f, k - 1) + f[k]
  BY <1>1, SumUpTo
<1>3. sum(h, 0) = 0 /\ \A k \in 1 .. n - m : sum(h, k - 1) \in Int /\ sum(h, k) = sum(h, k - 1) + h[k]
  BY <1>1, SumUpTo
<1>4. \A k \in 0 .. n : sum(f, k) \in Int
  <2> SUFFICES ASSUME NEW k \in 0 .. n PROVE sum(f, k) \in Int
    OBVIOUS
  <2>1. CASE k = 0
    BY <1>2, <2>1
  <2>2. CASE k # 0
    <3>1. k \in 1 .. n /\ f[k] \in Int
      BY <1>1, <2>2
    <3>2. sum(f, k - 1) \in Int /\ sum(f, k) = sum(f, k - 1) + f[k]
      BY <1>2, <3>1
    <3> HIDE DEF sum
    <3>3. QED BY <3>1, <3>2
  <2>3. QED BY <2>1, <2>2
<1> HIDE DEF sum
<1>5. ASSUME B # {} PROVE FALSE
  <2>1. PICK U \in B : \A V \in B : V \subseteq U => V = U
    <3>1. IsFiniteSet(S)
      BY <1>1, FS_Interval
    <3> HIDE DEF S
    <3>2. B \in SUBSET SUBSET S
      OBVIOUS
    <3> HIDE DEF B
    <3>3. QED BY <1>5, <3>1, <3>2, SmallestSubset
  <2>2. PICK k \in 0 .. n - m : U = 1 .. k /\ sum(f, m + k) # sum(f, m) + sum(h, k)
    BY <2>1
  <2>3. k # 0
    BY <1>3, <1>4, <2>2
  <2> DEFINE j == k - 1
  <2>4. /\ k \in 1 .. n - m /\ m + k \in 1 .. n /\ j \in 0 .. n - m
        /\ (m + k) - 1 = m + j /\ k - 1 = j
    BY <2>3
  <2>5. 1 .. j \subseteq U /\ 1 .. j # U /\ 1 .. j \in SUBSET S
    BY <2>2, <2>4
  <2>6. sum(f, m + j) = sum(f, m) + sum(h, j)
    BY <2>1, <2>4, <2>5
  <2>7. sum(f, m + k) = sum(f, m + j) + f[m + k] /\ sum(h, k) = sum(h, j) + h[k] /\ sum(h, j) \in Int
    BY <1>2, <1>3, <2>4
  <2>8. f[m + k] = h[k] /\ h[k] \in Int /\ sum(f, m) \in Int
    BY <1>1, <1>4, <2>4 DEF Ends
  <2> HIDE DEF j, B
  <2>9. QED BY <2>2, <2>6, <2>7, <2>8
<1>6. sum(f, n) = sum(f, m) + sum(h, n - m)
  <2>1. n - m \in 0 .. n - m /\ m + (n - m) = n /\ 1 .. n - m \in SUBSET S
    BY <1>1
  <2>2. sum(f, m + (n - m)) = sum(f, m) + sum(h, n - m)
    BY <1>5, <2>1
  <2>3. QED BY <2>1, <2>2
<1>7. sum(g, m) = sum(f, m)
  <2>1. IsFiniteSet(1 .. m)
    BY <1>1, FS_Interval
  <2>2. \A k \in 1 .. m : f[k] \in Int /\ g[k] = f[k]
    BY DEF Row, Begins
  <2>3. QED BY <2>1, <2>2, SumSame DEF sum
<1>8. Total(f) = sum(f, n)
  BY TotalUpTo DEF sum, Row
<1>9. Total(g) = sum(g, m)
  BY <1>1, TotalUpTo DEF sum, Row
<1>10. Total(h) = sum(h, n - m)
  BY <1>1, TotalUpTo DEF sum, Row
<1>11. QED BY <1>6, <1>7, <1>8, <1>9, <1>10

\* The verdict on a plan of n months.
LEMMA PlanVerdict ==
    ASSUME NEW n \in Nat, NEW f, Row(f, n), NEW standard \in Nat
    PROVE  /\ Len(f) = n /\ Total(f) \in Int /\ n * standard \in Nat
           /\ validateQuotaPlan(f, standard)
                = [valid     |-> n # 0 /\ Total(f) >= n * standard,
                   shortfall |-> Most(0, n * standard - Total(f))]
<1>1. Len(f) = n /\ (f # <<>> <=> n # 0)
  BY DEF Row
<1>2. Total(f) \in Int
  BY TotalUpTo DEF Row
<1>3. n * standard \in Nat
  OBVIOUS
<1>4. QED BY <1>1, <1>2, <1>3 DEF validateQuotaPlan

\* The beginning and the end of a plan.
LEMMA PlanBegins ==
    ASSUME NEW n \in Nat, NEW plan \in Seq(Int), Len(plan) = n, NEW i \in 1 .. n - 1
    PROVE  /\ SubSeq(plan, 1, i) \in Seq(Int) /\ Len(SubSeq(plan, 1, i)) = i
           /\ \A k \in 1 .. i : SubSeq(plan, 1, i)[k] = plan[k]
OBVIOUS

\* The rest of a plan.
LEMMA PlanEnds ==
    ASSUME NEW n \in Nat, NEW plan \in Seq(Int), Len(plan) = n, NEW i \in 1 .. n - 1
    PROVE  /\ SubSeq(plan, i + 1, n) \in Seq(Int) /\ Len(SubSeq(plan, i + 1, n)) = n - i
           /\ \A k \in 1 .. n - i : SubSeq(plan, i + 1, n)[k] = plan[i + k]
OBVIOUS

\* A plan of n months is a sequence of n numbers.
LEMMA RowIsSeq ==
    ASSUME NEW n \in Nat, NEW f
    PROVE  Row(f, n) <=> f \in Seq(Int) /\ Len(f) = n
BY DEF Row

\* A plan cut in two.
LEMMA PlanParts ==
    ASSUME NEW n \in Nat, NEW plan, Row(plan, n), NEW i \in 1 .. n - 1
    PROVE  /\ Row(SubSeq(plan, 1, i), i) /\ Row(SubSeq(plan, i + 1, n), n - i)
           /\ Total(plan) = Total(SubSeq(plan, 1, i)) + Total(SubSeq(plan, i + 1, n))
<1>1. plan \in Seq(Int) /\ Len(plan) = n
  BY RowIsSeq
<1> DEFINE g == SubSeq(plan, 1, i)
           h == SubSeq(plan, i + 1, n)
<1>2. g \in Seq(Int) /\ Len(g) = i /\ \A k \in 1 .. i : g[k] = plan[k]
  BY <1>1, PlanBegins
<1>3. h \in Seq(Int) /\ Len(h) = n - i /\ \A k \in 1 .. n - i : h[k] = plan[i + k]
  BY <1>1, PlanEnds
<1>4. i \in 0 .. n /\ i \in Nat /\ n - i \in Nat
  OBVIOUS
<1> HIDE DEF g, h
<1>5. Row(g, i)
  BY <1>2, <1>4, RowIsSeq
<1>6. Row(h, n - i)
  BY <1>3, <1>4, RowIsSeq
<1>7. Begins(g, plan, i) /\ Ends(h, plan, i, n - i)
  BY <1>2, <1>3 DEF Begins, Ends
<1>8. Total(plan) = Total(g) + Total(h)
  BY <1>4, <1>5, <1>6, <1>7, TotalSplit
<1>9. QED BY <1>5, <1>6, <1>8 DEF g, h

\* When a plan is valid.
LEMMA PlanValid ==
    ASSUME NEW n \in Nat, NEW f, Row(f, n), NEW standard \in Nat
    PROVE  /\ Total(f) \in Int /\ n * standard \in Nat
           /\ validateQuotaPlan(f, standard).valid <=> n # 0 /\ Total(f) >= n * standard
<1>1. /\ Total(f) \in Int /\ n * standard \in Nat
      /\ validateQuotaPlan(f, standard)
           = [valid     |-> n # 0 /\ Total(f) >= n * standard,
              shortfall |-> Most(0, n * standard - Total(f))]
  BY PlanVerdict
<1>2. validateQuotaPlan(f, standard).valid = (n # 0 /\ Total(f) >= n * standard)
  BY <1>1
<1>3. QED BY <1>1, <1>2

\* Two plans that are valid are valid as one.
LEMMA PlansJoin ==
    ASSUME NEW m \in Nat, NEW k \in Nat, NEW standard \in Nat, m # 0,
           NEW f, Row(f, m + k), NEW g, Row(g, m), NEW h, Row(h, k),
           Total(f) = Total(g) + Total(h),
           validateQuotaPlan(g, standard).valid, validateQuotaPlan(h, standard).valid
    PROVE  validateQuotaPlan(f, standard).valid
<1>1. Total(g) \in Int /\ Total(g) >= m * standard
  BY PlanValid
<1>2. Total(h) \in Int /\ Total(h) >= k * standard
  BY PlanValid
<1>3. (m + k) * standard = m * standard + k * standard /\ m * standard \in Nat /\ k * standard \in Nat
  OBVIOUS
<1>4. Total(f) >= (m + k) * standard
  BY <1>1, <1>2, <1>3
<1> DEFINE n == m + k
<1>5. n \in Nat /\ n # 0 /\ Row(f, n) /\ Total(f) >= n * standard
  BY <1>4
<1> HIDE DEF n
<1>6. QED BY <1>5, PlanValid

\* A redistribution over any number of months.
LEMMA PlansKeepHours ==
    ASSUME NEW n \in Nat, NEW plan, Row(plan, n), NEW standard \in Nat
    PROVE  PlanKeepsHours(plan, standard)
<1> DEFINE verdict == validateQuotaPlan(plan, standard)
           With(i, hours) == [plan EXCEPT ![i] = @ + hours]
           expected == n * standard
           short == Most(0, expected - Total(plan))
<1>1. Len(plan) = n /\ Total(plan) \in Int /\ expected \in Nat /\ DOMAIN plan = 1 .. n
  BY PlanVerdict DEF Row
<1>2. verdict = [valid |-> n # 0 /\ Total(plan) >= expected, shortfall |-> short]
  BY PlanVerdict
<1>3. short \in Nat /\ (short > 0 => Total(plan) + short = expected)
      /\ Total(plan) + short >= expected
  BY <1>1 DEF Most
<1> HIDE DEF expected, short, verdict
<1>4. ASSUME NEW i \in 1 .. n, NEW v \in Int
      PROVE  /\ Row(With(i, v), n)
             /\ Total(With(i, v)) = Total(plan) + v
             /\ validateQuotaPlan(With(i, v), standard).valid <=> Total(plan) + v >= expected
  <2>1. /\ Row(With(i, v), n) /\ n # 0
        /\ plan[i] \in Int /\ With(i, v)[i] = plan[i] + v
        /\ \A k \in (1 .. n) \ {i} : With(i, v)[k] = plan[k]
    BY DEF Row
  <2> HIDE DEF With
  <2>2. Total(With(i, v)) = Total(plan) - plan[i] + With(i, v)[i]
    BY <2>1, TotalReplace
  <2>3. Total(With(i, v)) = Total(plan) + v
    BY <1>1, <2>1, <2>2
  <2>4. validateQuotaPlan(With(i, v), standard).valid <=> Total(With(i, v)) >= expected
    <3> DEFINE p == With(i, v)
    <3>1. Row(p, n)
      BY <2>1
    <3> HIDE DEF p
    <3>2. validateQuotaPlan(p, standard).valid <=> n # 0 /\ Total(p) >= n * standard
      BY <3>1, PlanValid
    <3>3. QED BY <2>1, <3>2 DEF expected, p
  <2>5. QED BY <2>1, <2>3, <2>4
<1>5. ASSUME NEW i \in 1 .. n, NEW j \in (1 .. n) \ {i}
      PROVE  validateQuotaPlan([With(i, 1) EXCEPT ![j] = @ - 1], standard) = verdict
  <2> DEFINE moved == [With(i, 1) EXCEPT ![j] = @ - 1]
  <2>1. Row(With(i, 1), n) /\ Total(With(i, 1)) = Total(plan) + 1
    <3>1. 1 \in Int
      OBVIOUS
    <3>2. QED BY <1>4, <3>1
  <2> HIDE DEF With
  <2>2. /\ Row(moved, n) /\ With(i, 1)[j] \in Int /\ moved[j] = With(i, 1)[j] - 1
        /\ \A k \in (1 .. n) \ {j} : moved[k] = With(i, 1)[k]
    BY <2>1 DEF Row
  <2> HIDE DEF moved
  <2>3. Total(moved) = Total(With(i, 1)) - With(i, 1)[j] + moved[j]
    <3> DEFINE p == With(i, 1)
    <3>1. j \in 1 .. n /\ Row(p, n)
      BY <2>1
    <3>2. \A k \in (1 .. n) \ {j} : moved[k] = p[k]
      BY <2>2
    <3> HIDE DEF p
    <3>3. Total(moved) = Total(p) - p[j] + moved[j]
      BY <2>2, <3>1, <3>2, TotalReplace
    <3>4. QED BY <3>3 DEF p
  <2>4. Total(moved) = Total(plan)
    BY <1>1, <2>1, <2>2, <2>3
  <2>5. validateQuotaPlan(moved, standard)
          = [valid |-> n # 0 /\ Total(moved) >= n * standard,
             shortfall |-> Most(0, n * standard - Total(moved))]
    BY <2>2, PlanVerdict
  <2>6. QED BY <1>2, <2>4, <2>5 DEF expected, short, moved
<1>6. ASSUME NEW i \in 1 .. n - 1,
             validateQuotaPlan(SubSeq(plan, 1, i), standard).valid,
             validateQuotaPlan(SubSeq(plan, i + 1, n), standard).valid
      PROVE  verdict.valid
  <2> DEFINE g == SubSeq(plan, 1, i)
             h == SubSeq(plan, i + 1, n)
  <2>1. Row(g, i) /\ Row(h, n - i) /\ Total(plan) = Total(g) + Total(h)
    BY PlanParts
  <2>2. i \in Nat /\ n - i \in Nat /\ i # 0 /\ i + (n - i) = n
    OBVIOUS
  <2>3. Row(plan, i + (n - i))
    BY <2>2
  <2>4. validateQuotaPlan(g, standard).valid /\ validateQuotaPlan(h, standard).valid
    BY <1>6
  <2> HIDE DEF g, h
  <2>5. QED BY <2>1, <2>2, <2>3, <2>4, PlansJoin DEF verdict
<1>7. \A i \in DOMAIN plan :
        /\ validateQuotaPlan(With(i, verdict.shortfall), standard).valid
        /\ verdict.shortfall > 0 => ~validateQuotaPlan(With(i, verdict.shortfall - 1), standard).valid
  <2> SUFFICES ASSUME NEW i \in 1 .. n
               PROVE  /\ validateQuotaPlan(With(i, short), standard).valid
                      /\ short > 0 => ~validateQuotaPlan(With(i, short - 1), standard).valid
    BY <1>1, <1>2
  <2>1. short \in Int /\ short - 1 \in Int
    BY <1>3
  <2> HIDE DEF With
  <2>2. validateQuotaPlan(With(i, short), standard).valid
    BY <1>3, <1>4, <2>1
  <2>3. short > 0 => ~validateQuotaPlan(With(i, short - 1), standard).valid
    <3>1. validateQuotaPlan(With(i, short - 1), standard).valid <=> Total(plan) + (short - 1) >= expected
      BY <1>4, <2>1
    <3>2. short > 0 => ~ (Total(plan) + (short - 1) >= expected)
      BY <1>1, <1>3
    <3>3. QED BY <3>1, <3>2
  <2>4. QED BY <2>2, <2>3
<1>8. verdict.valid => createQuotaPlan(plan).total >= Len(plan) * standard
  BY <1>1, <1>2 DEF createQuotaPlan, expected
<1>9. QED BY <1>1, <1>5, <1>6, <1>7, <1>8 DEF PlanKeepsHours, verdict

-----------------------------------------------------------------------------
(* Overtime.                                                               *)

\* One more hour against a limit.
LEMMA VerdictRises ==
    ASSUME NEW h \in Nat, NEW limit \in Nat
    PROVE  LET was == ByTheHour!Verdict(h, limit)
               is  == ByTheHour!Verdict(h + 1, limit)
           IN  /\ ByTheHour!Level(was) <= ByTheHour!Level(is) /\ ~(is.warning /\ is.exceeded)
               /\ (100 - WarningShare) * limit >= 100 => ByTheHour!Level(is) <= ByTheHour!Level(was) + 1
<1> DEFINE w == WarningShare * limit
           was == ByTheHour!Verdict(h, limit)
           is  == ByTheHour!Verdict(h + 1, limit)
<1>1. w \in Int /\ (100 - WarningShare) * limit = 100 * limit - w
  BY RatesAssumption
<1>2. /\ was.warning <=> limit > 0 /\ 100 * h >= w /\ h < limit
      /\ was.exceeded <=> h >= limit
      /\ is.warning <=> limit > 0 /\ 100 * (h + 1) >= w /\ h + 1 < limit
      /\ is.exceeded <=> h + 1 >= limit
  BY DEF ByTheHour!Verdict
<1> HIDE DEF w, was, is
<1>3. was.exceeded => is.exceeded
  BY <1>2
<1>4. was.warning => is.warning \/ is.exceeded
  BY <1>1, <1>2
<1>5. ~(is.warning /\ is.exceeded)
  BY <1>2
<1>6. 100 * limit - w >= 100 /\ is.exceeded => was.exceeded \/ was.warning
  BY <1>1, <1>2
<1>7. QED BY <1>1, <1>3, <1>4, <1>5, <1>6 DEF ByTheHour!Level, was, is

\* The rate of an hour of a kind up to the threshold.
RateOf(kind) == ByTheHour!RateDue(kind, FALSE)

\* One more hour, for any hours before it, any limit and any rates.
LEMMA OvertimeByTheHour ==
    ASSUME NEW hours \in [ByTheHour!Kinds -> Nat], NEW before \in Nat, NEW limit \in Nat
    PROVE  ByTheHour!OneMoreHour(hours, before, limit)
<1> DEFINE pay(h) == ByTheHour!calculateOvertimePay(h, ByTheHour!Total(h), limit)
           limits(h) == ByTheHour!check36AgreementLimits(ByTheHour!Total(h), before + ByTheHour!Total(h),
                                                         limit, 2 * limit)
           deemed(h) == ByTheHour!checkDeemedOvertimeThreshold(ByTheHour!Total(h), limit)
           n == ByTheHour!Total(hours)
<1>1. n \in Nat
  BY DEF ByTheHour!Total, ByTheHour!Kinds
<1>0. ByTheHour!calculateOvertimePay(hours, n + 1, limit) - pay(hours)
        = IF n >= limit THEN Rates.excess60h ELSE 0
  <2> DEFINE own == hours["regular"] * Rates.standard
                      + hours["lateNight"] * (Rates.standard + Rates.lateNight)
                      + hours["holiday"] * Rates.holiday
  <2>1. \A total : ByTheHour!calculateOvertimePay(hours, total, limit)
                     = own + ByTheHour!Above(total, limit) * Rates.excess60h
    BY DEF ByTheHour!calculateOvertimePay
  <2>2. own \in Int
    BY RatesAssumption DEF ByTheHour!Kinds
  <2> HIDE DEF own
  <2>3. ByTheHour!Above(n + 1, limit) = ByTheHour!Above(n, limit) + (IF n >= limit THEN 1 ELSE 0)
        /\ ByTheHour!Above(n, limit) \in Nat
    BY <1>1 DEF ByTheHour!Above
  <2>4. QED BY <2>1, <2>2, <2>3, RatesAssumption
<1> SUFFICES ASSUME NEW kind \in ByTheHour!Kinds
             PROVE  LET more == [hours EXCEPT ![kind] = @ + 1]
                        steps(was, is, bound) ==
                            /\ ByTheHour!Level(was) <= ByTheHour!Level(is) /\ ~(is.warning /\ is.exceeded)
                            /\ (100 - WarningShare) * bound >= 100
                                 => ByTheHour!Level(is) <= ByTheHour!Level(was) + 1
                        beyond == ByTheHour!Total(hours) >= limit
                    IN  /\ pay(more) - pay(hours)
                             = ByTheHour!RateDue(kind, beyond) + IF beyond THEN ByTheHour!BaseRate(kind) ELSE 0
                        /\ steps(limits(hours).monthly, limits(more).monthly, limit)
                        /\ steps(limits(hours).yearly, limits(more).yearly, 2 * limit)
                        /\ deemed(more).exceeded <=> limits(hours).monthly.exceeded
                        /\ deemed(more).exceeded <=> deemed(more).excess > 0
  BY <1>0 DEF ByTheHour!OneMoreHour
<1> DEFINE more == [hours EXCEPT ![kind] = @ + 1]
<1>2. ByTheHour!Total(more) = n + 1
  BY DEF ByTheHour!Total, ByTheHour!Kinds
<1>3. pay(more) - pay(hours)
        = RateOf(kind) + IF n >= limit THEN Rates.excess60h ELSE 0
  <2>1. \A h \in [ByTheHour!Kinds -> Nat] : \A total :
          ByTheHour!calculateOvertimePay(h, total, limit)
            = h["regular"] * Rates.standard + h["lateNight"] * (Rates.standard + Rates.lateNight)
                + h["holiday"] * Rates.holiday + ByTheHour!Above(total, limit) * Rates.excess60h
    BY DEF ByTheHour!calculateOvertimePay
  <2>2. ByTheHour!Above(n + 1, limit) = ByTheHour!Above(n, limit) + (IF n >= limit THEN 1 ELSE 0)
        /\ ByTheHour!Above(n, limit) \in Nat
    BY <1>1 DEF ByTheHour!Above
  <2>3. ByTheHour!Above(n + 1, limit) * Rates.excess60h - ByTheHour!Above(n, limit) * Rates.excess60h
          = IF n >= limit THEN Rates.excess60h ELSE 0
    BY <2>2, RatesAssumption
  <2> DEFINE own(h) == h["regular"] * Rates.standard + h["lateNight"] * (Rates.standard + Rates.lateNight)
                       + h["holiday"] * Rates.holiday
  <2>4. own(more) - own(hours) = RateOf(kind) /\ own(more) \in Int /\ own(hours) \in Int
    <3>1. \A m \in Nat, r \in Nat : (m + 1) * r = m * r + r /\ m * r \in Nat
      OBVIOUS
    <3>2. /\ hours["regular"] \in Nat /\ hours["lateNight"] \in Nat /\ hours["holiday"] \in Nat
          /\ Rates.standard \in Nat /\ Rates.standard + Rates.lateNight \in Nat /\ Rates.holiday \in Nat
      BY RatesAssumption DEF ByTheHour!Kinds
    <3> DEFINE a == hours["regular"] * Rates.standard
               b == hours["lateNight"] * (Rates.standard + Rates.lateNight)
               c == hours["holiday"] * Rates.holiday
    <3>3. /\ a \in Nat /\ b \in Nat /\ c \in Nat /\ own(hours) = a + b + c
          /\ (hours["regular"] + 1) * Rates.standard = a + Rates.standard
          /\ (hours["lateNight"] + 1) * (Rates.standard + Rates.lateNight)
               = b + (Rates.standard + Rates.lateNight)
          /\ (hours["holiday"] + 1) * Rates.holiday = c + Rates.holiday
      BY <3>1, <3>2
    <3>4. CASE kind = "regular"
      <4>1. /\ more["regular"] = hours["regular"] + 1 /\ more["lateNight"] = hours["lateNight"]
            /\ more["holiday"] = hours["holiday"] /\ RateOf(kind) = Rates.standard
        BY <3>2, <3>4 DEF ByTheHour!Kinds, RateOf, ByTheHour!RateDue, ByTheHour!BaseRate
      <4>2. own(more) = (a + Rates.standard) + b + c
        BY <3>3, <4>1
      <4> HIDE DEF more, own, a, b, c
      <4>3. QED BY <3>3, <3>2, <4>1, <4>2
    <3>5. CASE kind = "lateNight"
      <4>1. /\ more["regular"] = hours["regular"] /\ more["lateNight"] = hours["lateNight"] + 1
            /\ more["holiday"] = hours["holiday"]
            /\ RateOf(kind) = Rates.standard + Rates.lateNight
        BY <3>2, <3>5 DEF ByTheHour!Kinds, RateOf, ByTheHour!RateDue, ByTheHour!BaseRate
      <4>2. own(more) = a + (b + (Rates.standard + Rates.lateNight)) + c
        BY <3>3, <4>1
      <4> HIDE DEF more, own, a, b, c
      <4>3. QED BY <3>3, <3>2, <4>1, <4>2
    <3>6. CASE kind = "holiday"
      <4>1. /\ more["regular"] = hours["regular"] /\ more["lateNight"] = hours["lateNight"]
            /\ more["holiday"] = hours["holiday"] + 1 /\ RateOf(kind) = Rates.holiday
        BY <3>2, <3>6 DEF ByTheHour!Kinds, RateOf, ByTheHour!RateDue, ByTheHour!BaseRate
      <4>2. own(more) = a + b + (c + Rates.holiday)
        BY <3>3, <4>1
      <4> HIDE DEF more, own, a, b, c
      <4>3. QED BY <3>3, <3>2, <4>1, <4>2
    <3>7. QED BY <3>4, <3>5, <3>6 DEF ByTheHour!Kinds
  <2>5. more \in [ByTheHour!Kinds -> Nat]
    OBVIOUS
  <2> DEFINE over(m) == ByTheHour!Above(m, limit) * Rates.excess60h
  <2>6. over(n) \in Int /\ over(n + 1) \in Int
    BY <1>1, <2>2, RatesAssumption
  <2>7. pay(more) = own(more) + over(n + 1) /\ pay(hours) = own(hours) + over(n)
    BY <1>2, <2>1, <2>5
  <2>8. over(n + 1) - over(n) = IF n >= limit THEN Rates.excess60h ELSE 0
    BY <2>3
  <2>9. (IF n >= limit THEN Rates.excess60h ELSE 0) \in Int
    BY RatesAssumption
  <2> HIDE DEF pay, own, over, more
  <2>10. QED BY <2>4, <2>6, <2>7, <2>8, <2>9
<1> DEFINE steps(was, is, bound) ==
             /\ ByTheHour!Level(was) <= ByTheHour!Level(is) /\ ~(is.warning /\ is.exceeded)
             /\ (100 - WarningShare) * bound >= 100 => ByTheHour!Level(is) <= ByTheHour!Level(was) + 1
<1>4. steps(limits(hours).monthly, limits(more).monthly, limit)
  <2>1. limits(hours).monthly = ByTheHour!Verdict(n, limit)
        /\ limits(more).monthly = ByTheHour!Verdict(n + 1, limit)
    BY <1>2 DEF ByTheHour!check36AgreementLimits
  <2>2. QED BY <1>1, <2>1, VerdictRises
<1>5. steps(limits(hours).yearly, limits(more).yearly, 2 * limit)
  <2>1. limits(hours).yearly = ByTheHour!Verdict(before + n, 2 * limit)
        /\ limits(more).yearly = ByTheHour!Verdict(before + (n + 1), 2 * limit)
    BY <1>2 DEF ByTheHour!check36AgreementLimits
  <2>2. before + (n + 1) = (before + n) + 1 /\ before + n \in Nat /\ 2 * limit \in Nat
    BY <1>1
  <2>3. QED BY <2>1, <2>2, VerdictRises
<1>6. deemed(more).exceeded <=> n + 1 > limit
  BY <1>2 DEF ByTheHour!checkDeemedOvertimeThreshold
<1>7. limits(hours).monthly.exceeded <=> n >= limit
  BY DEF ByTheHour!check36AgreementLimits, ByTheHour!Verdict
<1>8. deemed(more).exceeded <=> deemed(more).excess > 0
  <2>1. deemed(more).excess = ByTheHour!Above(n + 1, limit)
    BY <1>2 DEF ByTheHour!checkDeemedOvertimeThreshold
  <2>2. ByTheHour!Above(n + 1, limit) > 0 <=> n + 1 > limit
    BY <1>1 DEF ByTheHour!Above
  <2>3. QED BY <1>6, <2>1, <2>2
<1>9. n + 1 > limit <=> n >= limit
  BY <1>1
<1>10. pay(more) - pay(hours)
         = ByTheHour!RateDue(kind, n >= limit) + IF n >= limit THEN ByTheHour!BaseRate(kind) ELSE 0
  <2> DEFINE base == ByTheHour!BaseRate(kind)
             extra == IF kind = "lateNight" THEN Rates.lateNight ELSE 0
             beyond == n >= limit
  <2>1. base \in Int /\ extra \in Int /\ Rates.excess60h \in Int
    BY RatesAssumption DEF ByTheHour!BaseRate
  <2>2. /\ RateOf(kind) = base + extra
        /\ ByTheHour!RateDue(kind, beyond) = (IF beyond THEN Rates.excess60h ELSE base) + extra
    BY DEF RateOf, ByTheHour!RateDue
  <2>3. pay(more) - pay(hours) = RateOf(kind) + IF beyond THEN Rates.excess60h ELSE 0
    BY <1>3
  <2> HIDE DEF base, extra, beyond, pay, more
  <2>4. pay(more) - pay(hours) = ByTheHour!RateDue(kind, beyond) + IF beyond THEN base ELSE 0
    BY <2>1, <2>2, <2>3
  <2>5. QED BY <2>4 DEF base, beyond
<1>11. QED BY <1>4, <1>5, <1>6, <1>7, <1>8, <1>9, <1>10

-----------------------------------------------------------------------------
(* Leave accrual.                                                          *)

\* A month's accrual, for any balance, cap and grant.
LEMMA AccrualWithinCap ==
    ASSUME NEW p, NEW balance \in Nat, NEW tenure \in Nat, NEW age \in Nat, NEW carryOver \in 0 .. balance,
           p.cap \in Nat, p.start \in Nat, p.carryOverMonths \in Nat,
           p.schedule = <<>> \/ p.schedule[1].days \in Nat
    PROVE  LeaveRules!WithinCap(p, balance, tenure, carryOver, age)
<1> DEFINE lost == LeaveRules!Forfeited(p, carryOver, age)
           add  == LeaveRules!daysToAdd(p, tenure)
           kept == balance - lost
           new  == LeaveRules!Smaller(kept + add, p.cap)
<1>1. lost \in Nat /\ kept \in Nat
  BY DEF LeaveRules!Forfeited
<1>2. add \in Nat
  BY DEF LeaveRules!daysToAdd, LeaveRules!getNpAccrualDays
<1>3. LeaveRules!calculateAccrual(p, balance, tenure, carryOver, age)
        = [balance |-> LeaveRules!Larger(0, new), added |-> LeaveRules!Larger(0, new - kept), forfeited |-> lost]
  BY DEF LeaveRules!calculateAccrual
<1> HIDE DEF lost, add
<1>4. /\ LeaveRules!Larger(0, new) \in 0 .. p.cap
      /\ kept <= p.cap =>
           /\ LeaveRules!Larger(0, new) = kept + LeaveRules!Larger(0, new - kept)
           /\ LeaveRules!Larger(0, new - kept) = LeaveRules!Smaller(add, p.cap - kept)
  BY <1>1, <1>2 DEF LeaveRules!Larger, LeaveRules!Smaller
<1> HIDE DEF new
<1>5. QED BY <1>3, <1>4 DEF LeaveRules!WithinCap, add

Schedule(s, n) ==
    /\ DOMAIN s = 1 .. n
    /\ \A i \in 1 .. n : s[i].months \in Nat /\ s[i].days \in Nat
    /\ \A i, j \in 1 .. n : i < j => s[i].months < s[j].months

\* The grants of a schedule of any length in the order of its months.
LEMMA GrantsFollow ==
    ASSUME NEW n \in Nat, NEW s, Schedule(s, n), NEW start \in Nat, NEW tenure \in Nat
    PROVE  LeaveRules!GrantsFollowTenure(s, start, tenure)
<1> DEFINE reached(t) == {i \in 1 .. n : t >= s[i].months}
           days(t) == LeaveRules!getJpAccrualDays(s, start, t)
<1>1. \A t \in Nat : reached(t) # {} =>
         Max(reached(t)) \in reached(t) /\ \A i \in reached(t) : i <= Max(reached(t))
  <2> DEFINE S == 1 .. n
  <2>1. IsFiniteSet(S)
    BY FS_Interval
  <2>2. Positions(S)
    BY DEF Positions
  <2>3. \A t \in Nat : reached(t) \in SUBSET S
    OBVIOUS
  <2> HIDE DEF reached, S
  <2>4. QED BY <2>1, <2>2, <2>3, MaxPicks
<1>2. \A t \in Nat : days(t) = IF t < start \/ reached(t) = {} THEN 0 ELSE s[Max(reached(t))].days
  BY DEF LeaveRules!getJpAccrualDays, Schedule, LeaveRules!Max, Max
<1>3. \A t \in Nat : days(t) \in Nat
  <2> SUFFICES ASSUME NEW t \in Nat PROVE days(t) \in Nat
    OBVIOUS
  <2>1. CASE t < start \/ reached(t) = {}
    <3>1. days(t) = 0
      BY <1>2, <2>1
    <3>2. QED BY <3>1
  <2>2. CASE ~ (t < start \/ reached(t) = {})
    <3>1. days(t) = s[Max(reached(t))].days
      BY <1>2, <2>2
    <3>2. Max(reached(t)) \in 1 .. n
      BY <1>1, <2>2
    <3> HIDE DEF days
    <3>3. QED BY <3>1, <3>2 DEF Schedule
  <2>3. QED BY <2>1, <2>2
<1>4. ASSUME tenure >= start, NEW i \in reached(tenure),
             \A j \in reached(tenure) : s[j].months <= s[i].months
      PROVE  days(tenure) = s[i].days
  <2> DEFINE m == Max(reached(tenure))
  <2>1. m \in reached(tenure) /\ i <= m /\ reached(tenure) # {}
    BY <1>1, <1>4
  <2>2. i = m
    <3>1. m \in 1 .. n /\ i \in 1 .. n /\ s[m].months <= s[i].months
      BY <1>4, <2>1
    <3> HIDE DEF m
    <3>2. QED BY <2>1, <3>1 DEF Schedule
  <2>3. QED BY <1>2, <1>4, <2>1, <2>2
<1>5. ASSUME \A i, j \in 1 .. n : i <= j => s[i].days <= s[j].days,
             NEW later \in tenure .. MaxTenure
      PROVE  days(tenure) <= days(later)
  <2>1. later \in Nat /\ tenure <= later
    BY InputAssumption
  <2>2. CASE tenure < start \/ reached(tenure) = {}
    <3>1. days(tenure) = 0
      BY <1>2, <2>2
    <3>2. days(later) \in Nat
      BY <1>3, <2>1
    <3> HIDE DEF days
    <3>3. QED BY <3>1, <3>2
  <2>3. CASE tenure >= start /\ reached(tenure) # {}
    <3>1. reached(tenure) \subseteq reached(later)
      BY <2>1 DEF Schedule
    <3>2. Max(reached(tenure)) \in 1 .. n /\ Max(reached(later)) \in 1 .. n
          /\ Max(reached(tenure)) <= Max(reached(later))
      BY <1>1, <2>1, <2>3, <3>1
    <3>3. s[Max(reached(tenure))].days <= s[Max(reached(later))].days
      BY <1>5, <3>2
    <3>4. QED BY <1>2, <2>1, <2>3, <3>1, <3>3
  <2>4. QED BY <2>2, <2>3
<1>6. \A i \in 1 .. n : s[i].months <= tenure <=> tenure >= s[i].months
  BY DEF Schedule
<1>7. tenure < start \/ reached(tenure) = {} => days(tenure) = 0
  BY <1>2
<1>8. {i \in DOMAIN s : s[i].months <= tenure} = reached(tenure) /\ DOMAIN s = 1 .. n
  BY <1>6 DEF Schedule
<1> HIDE DEF reached, days
<1>9. QED BY <1>4, <1>5, <1>7, <1>8 DEF LeaveRules!GrantsFollowTenure, days

-----------------------------------------------------------------------------
(* Expired entries and warnings.                                           *)

\* What a single entry gives.
LEMMA DrawOfOne ==
    ASSUME NEW b, b.remaining \in Nat, NEW needed \in Nat, NEW t, ~ Usable(b, t)
    PROVE  applyBankOffset(<<b>>, needed, t) = <<0>>
<1> DEFINE n == 1
           entries == <<b>>
           used == applyBankOffset(entries, needed, t)
<1>1. n \in Nat /\ DOMAIN entries = 1 .. n /\ \A i \in 1 .. n : entries[i] = b
  OBVIOUS
<1>2. \A i \in 1 .. n : entries[i].remaining \in Nat
  BY <1>1
<1> HIDE DEF n, entries
<1>3. Gives(used, n, entries, needed, t)
  BY <1>1, <1>2, OffsetGives
<1> HIDE DEF used
<1>4. used \in [1 .. 1 -> Nat] /\ used[1] = 0
  BY <1>1, <1>3 DEF Gives, n
<1>5. used = <<0>>
  BY <1>4
<1>6. QED BY <1>5 DEF used, entries

\* A date is within so many days of a moment if it is one of the next days.
LEMMA WithinIsDays ==
    ASSUME NEW date \in Int, NEW days \in Int, NEW t \in Int
    PROVE  WithinDays(date, days, t) <=> DayOf(t) \in date - days .. date - 1
<1> DEFINE S == SlotsPerDay
           q == t \div S
<1>1. S \in Nat \ {0}
  BY CalendarAssumption
<1> HIDE DEF S
<1>2. q \in Int /\ q * S <= t /\ t < q * S + S
  BY <1>1, Quotient
<1> HIDE DEF q
<1>3. t < date * S <=> q < date
  BY <1>1, <1>2
<1>4. (date - days) * S <= t <=> date - days <= q
  BY <1>1, <1>2
<1>5. (date - days) * S = date * S - days * S /\ date * S \in Int /\ days * S \in Int
  BY <1>1
<1>6. WithinDays(date, days, t) <=> t < date * S /\ (date - days) * S <= t
  BY <1>5 DEF WithinDays, Midnight, S
<1>7. DayOf(t) = q
  BY DEF DayOf, q, S
<1>8. QED BY <1>2, <1>3, <1>4, <1>6, <1>7

\* What can be drawn from at a moment has not expired by that day.
LEMMA UsableListed ==
    ASSUME NEW b, b.expires \in Int, NEW t \in Int, Usable(b, t)
    PROVE  b.expires >= DayOf(t)
<1> DEFINE S == SlotsPerDay
           q == t \div S
<1>1. S \in Nat \ {0} /\ b.expires * S >= t
  BY CalendarAssumption DEF Usable, isExpired, Midnight
<1> HIDE DEF S
<1>2. q \in Int /\ q * S <= t /\ t < q * S + S
  BY <1>1, Quotient
<1> HIDE DEF q
<1>3. q <= b.expires
  BY <1>1, <1>2
<1>4. QED BY <1>2, <1>3 DEF DayOf, q, S

\* For any calendar, any hours and any employees: what has expired is neither listed
\* nor drawn from, and what can be drawn from is listed (findActive, isExpired).
THEOREM ExpiredIsOut == Spec => []ExpiredStaysOut
<1>1. Typed => ExpiredStaysOut
  <2> SUFFICES ASSUME Typed, NEW e \in Employees, NEW b \in bank[e]
               PROVE  /\ b.expires < Today(now) =>
                           findActive({b}, now) = {} /\ applyBankOffset(<<b>>, MaxHours, now) = <<0>>
                      /\ Usable(b, now) => b \in findActive(bank[e], now)
    BY DEF ExpiredStaysOut
  <2>1. now \in Nat /\ b.expires \in Nat /\ b.remaining \in Nat /\ MaxHours \in Nat
    BY BankAssumption DEF Typed, TypeOK, Times, Hours
  <2>2. Today(now) \in Int
    BY <2>1, CalendarAssumption, Quotient DEF Today, DayOf
  <2>3. Usable(b, now) => b.expires >= Today(now) /\ b.remaining > 0
    BY <2>1, UsableListed DEF Today, Usable
  <2>4. ASSUME b.expires < Today(now)
        PROVE  findActive({b}, now) = {} /\ applyBankOffset(<<b>>, MaxHours, now) = <<0>>
    <3>1. ~ Usable(b, now)
      BY <2>1, <2>2, <2>3, <2>4
    <3>2. ~ (b.expires >= DayOf(now))
      BY <2>1, <2>2, <2>4 DEF Today
    <3>3. findActive({b}, now) = {}
      BY <3>2 DEF findActive
    <3>4. QED BY <2>1, <3>1, <3>3, DrawOfOne
  <2>5. Usable(b, now) => b \in findActive(bank[e], now)
    BY <2>3 DEF findActive, Today
  <2>6. QED BY <2>4, <2>5
<1>2. QED BY <1>1, AlwaysTyped, PTL

\* At whatever hour the reminders run, whoever is to be told is told, in time and
\* not too late, if the bank's entries have any hours: of an entry on exactly the
\* days before its last day, of a probation on the days before it ends, of a
\* request from a certain age on until it is decided (checkSurplusExpiryWarnings,
\* checkProbationAlerts, checkPendingLeaveReminders).
THEOREM WarningsInTime == MaxHours > 0 => (Spec => []WarnedInTime)
<1> SUFFICES ASSUME MaxHours > 0 PROVE Spec => []WarnedInTime
  OBVIOUS
<1>1. Init => Banked
  BY DEF Init, Banked
<1>2. Typed /\ Banked => WarnedInTime
  <2> SUFFICES ASSUME Typed, Banked PROVE WarnedInTime
    OBVIOUS
  <2>1. now \in Nat /\ now \in Int /\ Today(now) \in Nat
    BY DayBounds, DatesAreDays DEF Typed, TypeOK, Times, Today
  <2>2. ASSUME NEW e \in Employees, NEW b \in bank[e]
        PROVE  LET warned == b \in checkSurplusExpiryWarnings(bank[e], now)
               IN  /\ warned <=> Today(now) \in b.expires - WarningDays .. b.expires - 1
                   /\ warned => Usable(b, now)
    <3>1. b.expires \in Int /\ b.remaining > 0
      BY BankAssumption DEF Typed, TypeOK, Banked, createBankEntry
    <3>2. WithinDays(b.expires, WarningDays, now)
            <=> Today(now) \in b.expires - WarningDays .. b.expires - 1
      BY <2>1, <3>1, CronAssumption, WithinIsDays DEF Today
    <3>3. Today(now) \in b.expires - WarningDays .. b.expires - 1 => b.expires >= DayOf(now)
      BY <2>1, <3>1, CronAssumption DEF Today
    <3>4. WithinDays(b.expires, WarningDays, now) => Usable(b, now)
      <4>1. Midnight(b.expires) \in Int
        BY <3>1, CalendarAssumption DEF Midnight
      <4>2. QED BY <2>1, <3>1, <4>1 DEF WithinDays, Usable, isExpired
    <3>5. b \in checkSurplusExpiryWarnings(bank[e], now) <=> WithinDays(b.expires, WarningDays, now)
      BY <3>1, <3>2, <3>3 DEF checkSurplusExpiryWarnings, findActive
    <3>6. QED BY <3>2, <3>4, <3>5
  <2>3. ASSUME NEW managed \in BOOLEAN, NEW d \in Dates \cup {NoDate}
        PROVE  LET employee == [managed |-> managed, probationEnds |-> d]
               IN  employee \in checkProbationAlerts({employee}, now) <=>
                     managed /\ Today(now) \in d - AlertDays .. d - 1
    <3>1. d \in Int /\ d >= -1
      BY DatesAreDays DEF NoDate
    <3>2. WithinDays(d, AlertDays, now) <=> Today(now) \in d - AlertDays .. d - 1
      BY <2>1, <3>1, ReminderAssumption, WithinIsDays DEF Today
    <3>3. d = NoDate => Today(now) \notin d - AlertDays .. d - 1
      BY <2>1, ReminderAssumption DEF NoDate
    <3>4. QED BY <3>2, <3>3 DEF checkProbationAlerts
  <2>4. ASSUME NEW r \in [created : 0 .. now, status : {"PENDING", "APPROVED"}, managed : BOOLEAN]
        PROVE  LET reminded(t) == r \in checkPendingLeaveReminders({r}, t)
               IN  /\ reminded(now) => r.managed /\ \A t \in now .. MaxTime : reminded(t)
                   /\ r.status = "PENDING" /\ r.managed => reminded(r.created + ReminderAge)
                   /\ r.status # "PENDING" => ~reminded(now)
    <3>1. r.created \in Nat /\ ReminderAge \in Nat
      BY <2>1, ReminderAssumption
    <3>2. \A t : r \in checkPendingLeaveReminders({r}, t)
                   <=> r.status = "PENDING" /\ t - r.created >= ReminderAge /\ r.managed
      BY DEF checkPendingLeaveReminders
    <3>3. \A t \in now .. MaxTime : now - r.created >= ReminderAge => t - r.created >= ReminderAge
      BY <2>1, <3>1, CronAssumption
    <3>4. (r.created + ReminderAge) - r.created >= ReminderAge
      BY <3>1
    <3>5. QED BY <3>2, <3>3, <3>4
  <2>5. QED BY <2>2, <2>3, <2>4 DEF WarnedInTime
<1>3. QED BY <1>1, <1>2, AlwaysTyped, BankStep, PTL DEF Spec

-----------------------------------------------------------------------------
(* Policies.                                                               *)

\* The documents with n levels, given those with one level less.
DocumentsAt(n, fewer) ==
    UNION { [fs -> [leaf : Leaves] \cup (IF n = 0 THEN {} ELSE [node : fewer])] : fs \in SUBSET Fields }

\* h holds the documents with up to n levels.
DocumentsTo(h, n) == h = [i \in 0 .. n |-> DocumentsAt(i, h[i - 1])]

\* They exist for every number of levels.
LEMMA DocumentsExist == \A n \in Nat : \E h : DocumentsTo(h, n)
<1> DEFINE B == { n \in Nat : ~ \E h : DocumentsTo(h, n) }
<1>1. ASSUME NEW n \in Nat, \A i \in Nat : i < n => i \notin B
      PROVE  \E h : DocumentsTo(h, n)
  <2>1. PICK g : n > 0 => DocumentsTo(g, n - 1)
    <3>1. n > 0 => n - 1 \in Nat /\ n - 1 < n
      BY <1>1
    <3>2. QED BY <1>1, <3>1
  <2> DEFINE h == [i \in 0 .. n |-> DocumentsAt(i, g[i - 1])]
  <2>2. ASSUME NEW i \in 0 .. n PROVE DocumentsAt(i, g[i - 1]) = DocumentsAt(i, h[i - 1])
    <3>1. CASE i = 0
      BY <3>1 DEF DocumentsAt
    <3>2. CASE i > 0
      <4>1. i - 1 \in 0 .. n - 1 /\ i - 1 \in 0 .. n /\ n > 0
        BY <1>1, <3>2
      <4>2. h[i - 1] = DocumentsAt(i - 1, g[i - 2])
        BY <1>1, <3>2, <4>1
      <4>3. g[i - 1] = DocumentsAt(i - 1, g[i - 2])
        BY <1>1, <2>1, <3>2, <4>1 DEF DocumentsTo
      <4>4. QED BY <4>2, <4>3
    <3>3. QED BY <1>1, <3>1, <3>2
  <2>3. h = [i \in 0 .. n |-> DocumentsAt(i, h[i - 1])]
    BY <2>2
  <2> HIDE DEF h
  <2>4. QED BY <2>3 DEF DocumentsTo
<1>2. ASSUME B # {} PROVE FALSE
  <2>1. Numbers(B)
    BY DEF Numbers
  <2>2. PICK n \in B : \A x \in B : n <= x
    <3> HIDE DEF B
    <3>1. QED BY <1>2, <2>1, LeastNumber
  <2>3. n \in Nat /\ \A i \in Nat : i < n => i \notin B
    BY <2>2
  <2>4. QED BY <1>1, <2>2, <2>3
<1>3. QED BY <1>2

\* So the documents of the cascade are those of the recursion.
LEMMA DocumentsAre ==
    ASSUME NEW n \in 0 .. Depth
    PROVE  Cascade!Documents[n] = DocumentsAt(n, Cascade!Documents[n - 1])
<1>1. Cascade!Documents = CHOOSE h : DocumentsTo(h, Depth)
  BY DEF Cascade!Documents, DocumentsTo, DocumentsAt
<1>2. DocumentsTo(Cascade!Documents, Depth)
  BY <1>1, DocumentsExist, LayerAssumption
<1>3. QED BY <1>2 DEF DocumentsTo

\* Leaves and nodes.
LEMMA LeafOrNode ==
    ASSUME NEW x
    PROVE  /\ ~ Cascade!IsNode(Cascade!Leaf(x))
           /\ Cascade!IsNode(Cascade!Node(x)) /\ Cascade!Node(x).node = x
           /\ Cascade!Node(x) # Cascade!Silent /\ Cascade!Node(x) # Cascade!Closed
           /\ Cascade!Leaf(x) # Cascade!Silent /\ Cascade!Leaf(x) # Cascade!Closed
<1>1. DOMAIN Cascade!Leaf(x) = {"leaf"} /\ DOMAIN Cascade!Node(x) = {"node"}
  BY DEF Cascade!Leaf, Cascade!Node
<1>2. DOMAIN Cascade!Silent = {"nothing"} /\ DOMAIN Cascade!Closed = {"nothing"}
  BY DEF Cascade!Silent, Cascade!Closed
<1>3. Cascade!Node(x).node = x
  BY DEF Cascade!Node
<1>4. QED BY <1>1, <1>2, <1>3 DEF Cascade!IsNode

\* Nothing is not a node, and there are two kinds of it.
LEMMA Nothings ==
    /\ ~ Cascade!IsNode(Cascade!Silent) /\ ~ Cascade!IsNode(Cascade!Closed)
    /\ Cascade!Silent # Cascade!Closed
<1>1. DOMAIN Cascade!Silent = {"nothing"} /\ DOMAIN Cascade!Closed = {"nothing"}
  BY DEF Cascade!Silent, Cascade!Closed
<1>2. Cascade!Silent.nothing # Cascade!Closed.nothing
  BY DEF Cascade!Silent, Cascade!Closed
<1>3. QED BY <1>1, <1>2 DEF Cascade!IsNode

\* A value in a document with n levels.
ValueAt(n, v) ==
    \/ \E x \in Leaves : v = Cascade!Leaf(x)
    \/ n > 0 /\ \E d \in Cascade!Documents[n - 1] : v = Cascade!Node(d)

\* A document is a function from fields to values.
LEMMA DocumentIs ==
    ASSUME NEW n \in 0 .. Depth, NEW d
    PROVE  d \in Cascade!Documents[n] <=>
             /\ d = [f \in DOMAIN d |-> d[f]] /\ DOMAIN d \subseteq Fields
             /\ \A f \in DOMAIN d : ValueAt(n, d[f])
<1> DEFINE V == [leaf : Leaves] \cup (IF n = 0 THEN {} ELSE [node : Cascade!Documents[n - 1]])
<1>1. Cascade!Documents[n] = UNION { [fs -> V] : fs \in SUBSET Fields }
  BY DocumentsAre DEF DocumentsAt
<1>2. \A v : v \in V <=> ValueAt(n, v)
  <2>1. \A v : v \in [leaf : Leaves] <=> \E x \in Leaves : v = Cascade!Leaf(x)
    BY DEF Cascade!Leaf
  <2>2. \A v : v \in [node : Cascade!Documents[n - 1]]
                 <=> \E e \in Cascade!Documents[n - 1] : v = Cascade!Node(e)
    BY DEF Cascade!Node
  <2>3. n > 0 <=> n # 0
    BY LayerAssumption
  <2>4. QED BY <2>1, <2>2, <2>3 DEF ValueAt
<1> HIDE DEF V
<1>3. d \in UNION { [fs -> V] : fs \in SUBSET Fields }
        <=> /\ d = [f \in DOMAIN d |-> d[f]] /\ DOMAIN d \subseteq Fields
            /\ \A f \in DOMAIN d : d[f] \in V
  OBVIOUS
<1>4. QED BY <1>1, <1>2, <1>3

\* Two documents merged, given how those with one level less are merged.
Merging(merge, base, override) ==
    [f \in DOMAIN base \cup DOMAIN override |->
        IF f \notin DOMAIN override THEN base[f]
        ELSE IF f \in DOMAIN base /\ Cascade!IsNode(base[f]) /\ Cascade!IsNode(override[f])
             THEN Cascade!Node(merge[<<base[f].node, override[f].node>>])
             ELSE override[f]]
MergeAt(n, merge) ==
    [pair \in Cascade!Documents[n] \X Cascade!Documents[n] |-> Merging(merge, pair[1], pair[2])]
MergeTo(h, n) == h = [i \in 0 .. n |-> MergeAt(i, h[i - 1])]

\* Without sections nothing is merged.
LEMMA MergeFlat ==
    ASSUME NEW g, NEW h
    PROVE  MergeAt(0, g) = MergeAt(0, h)
<1>1. 0 \in 0 .. Depth
  BY LayerAssumption
<1>2. \A d \in Cascade!Documents[0] : \A f \in DOMAIN d : ~ Cascade!IsNode(d[f])
  BY <1>1, DocumentIs, LeafOrNode DEF ValueAt
<1>3. \A a, b \in Cascade!Documents[0] : Merging(g, a, b) = Merging(h, a, b)
  BY <1>2 DEF Merging
<1>4. QED BY <1>3 DEF MergeAt

\* Documents can be merged, however many levels they have.
LEMMA MergeExists == \A n \in Nat : \E h : MergeTo(h, n)
<1> DEFINE B == { n \in Nat : ~ \E h : MergeTo(h, n) }
<1>1. ASSUME NEW n \in Nat, \A i \in Nat : i < n => i \notin B
      PROVE  \E h : MergeTo(h, n)
  <2>1. PICK g : n > 0 => MergeTo(g, n - 1)
    <3>1. n > 0 => n - 1 \in Nat /\ n - 1 < n
      BY <1>1
    <3>2. QED BY <1>1, <3>1
  <2> DEFINE h == [i \in 0 .. n |-> MergeAt(i, g[i - 1])]
  <2>2. ASSUME NEW i \in 0 .. n PROVE MergeAt(i, g[i - 1]) = MergeAt(i, h[i - 1])
    <3>1. CASE i = 0
      BY <3>1, MergeFlat
    <3>2. CASE i > 0
      <4>1. i - 1 \in 0 .. n - 1 /\ i - 1 \in 0 .. n /\ n > 0
        BY <1>1, <3>2
      <4>2. h[i - 1] = MergeAt(i - 1, g[i - 2])
        BY <1>1, <3>2, <4>1
      <4>3. g[i - 1] = MergeAt(i - 1, g[i - 2])
        BY <1>1, <2>1, <3>2, <4>1 DEF MergeTo
      <4>4. QED BY <4>2, <4>3
    <3>3. QED BY <1>1, <3>1, <3>2
  <2>3. h = [i \in 0 .. n |-> MergeAt(i, h[i - 1])]
    BY <2>2
  <2> HIDE DEF h
  <2>4. QED BY <2>3 DEF MergeTo
<1>2. ASSUME B # {} PROVE FALSE
  <2>1. Numbers(B)
    BY DEF Numbers
  <2>2. PICK n \in B : \A x \in B : n <= x
    <3> HIDE DEF B
    <3>1. QED BY <1>2, <2>1, LeastNumber
  <2>3. n \in Nat /\ \A i \in Nat : i < n => i \notin B
    BY <2>2
  <2>4. QED BY <1>1, <2>2, <2>3
<1>3. QED BY <1>2

\* So the cascade merges as the recursion does.
LEMMA MergeIs ==
    ASSUME NEW n \in 0 .. Depth, NEW a \in Cascade!Documents[n], NEW b \in Cascade!Documents[n]
    PROVE  Cascade!Merge[n][<<a, b>>] = Merging(Cascade!Merge[n - 1], a, b)
<1>1. Cascade!Merge = CHOOSE h : MergeTo(h, Depth)
  BY DEF Cascade!Merge, MergeTo, MergeAt, Merging
<1>2. MergeTo(Cascade!Merge, Depth)
  BY <1>1, MergeExists, LayerAssumption
<1>3. Cascade!Merge[n] = MergeAt(n, Cascade!Merge[n - 1])
  BY <1>2 DEF MergeTo
<1>4. QED BY <1>3 DEF MergeAt

\* One field of a merged document: both are nodes, or one has its way.
FieldsMerged(m, merge, a, b) ==
    /\ m = [f \in DOMAIN m |-> m[f]]
    /\ DOMAIN m = DOMAIN a \cup DOMAIN b
    /\ \A f \in DOMAIN a \ DOMAIN b : m[f] = a[f]
    /\ \A f \in DOMAIN b :
         IF f \in DOMAIN a /\ Cascade!IsNode(a[f]) /\ Cascade!IsNode(b[f])
         THEN m[f] = Cascade!Node(merge[<<a[f].node, b[f].node>>]) ELSE m[f] = b[f]

\* A field of two documents merged.
LEMMA MergedField ==
    ASSUME NEW merge, NEW a, NEW b
    PROVE  FieldsMerged(Merging(merge, a, b), merge, a, b)
BY DEF Merging, FieldsMerged

\* A node in a document is one of a document with one level less.
LEMMA NodeIn ==
    ASSUME NEW n \in 0 .. Depth, NEW v, ValueAt(n, v), Cascade!IsNode(v)
    PROVE  n - 1 \in 0 .. Depth /\ n > 0 /\ v.node \in Cascade!Documents[n - 1] /\ v = Cascade!Node(v.node)
<1>1. n > 0 /\ \E d \in Cascade!Documents[n - 1] : v = Cascade!Node(d)
  BY LeafOrNode DEF ValueAt
<1>2. QED BY <1>1, LeafOrNode, LayerAssumption

\* Merged documents are documents.
LEMMA MergeTyped ==
    \A n \in 0 .. Depth : \A a, b \in Cascade!Documents[n] :
        Cascade!Merge[n][<<a, b>>] \in Cascade!Documents[n]
<1> DEFINE Typed0(n) == \A a, b \in Cascade!Documents[n] :
                          Cascade!Merge[n][<<a, b>>] \in Cascade!Documents[n]
           B == { n \in 0 .. Depth : ~ Typed0(n) }
<1>1. ASSUME NEW n \in 0 .. Depth, \A i \in 0 .. Depth : i < n => i \notin B
      PROVE  Typed0(n)
  <2> SUFFICES ASSUME NEW a \in Cascade!Documents[n], NEW b \in Cascade!Documents[n]
               PROVE  Cascade!Merge[n][<<a, b>>] \in Cascade!Documents[n]
    OBVIOUS
  <2> DEFINE merge == Cascade!Merge[n - 1]
             m == Merging(merge, a, b)
  <2>1. Cascade!Merge[n][<<a, b>>] = m
    BY MergeIs
  <2>2. FieldsMerged(m, merge, a, b)
    BY MergedField
  <2> HIDE DEF m, merge
  <2>3. /\ DOMAIN a \subseteq Fields /\ \A f \in DOMAIN a : ValueAt(n, a[f])
        /\ DOMAIN b \subseteq Fields /\ \A f \in DOMAIN b : ValueAt(n, b[f])
    BY DocumentIs
  <2>4. ASSUME NEW f \in DOMAIN m PROVE ValueAt(n, m[f])
    <3>1. DOMAIN m = DOMAIN a \cup DOMAIN b
      BY <2>2 DEF FieldsMerged
    <3>2. CASE f \notin DOMAIN b
      <4>1. f \in DOMAIN a /\ m[f] = a[f]
        BY <2>4, <2>2, <3>1, <3>2 DEF FieldsMerged
      <4>2. QED BY <2>3, <4>1
    <3>3. CASE f \in DOMAIN b /\ ~ (f \in DOMAIN a /\ Cascade!IsNode(a[f]) /\ Cascade!IsNode(b[f]))
      <4>1. m[f] = b[f]
        BY <2>2, <3>3 DEF FieldsMerged
      <4>2. QED BY <2>3, <3>3, <4>1
    <3>4. CASE f \in DOMAIN b /\ f \in DOMAIN a /\ Cascade!IsNode(a[f]) /\ Cascade!IsNode(b[f])
      <4>1. m[f] = Cascade!Node(merge[<<a[f].node, b[f].node>>])
        BY <2>2, <3>4 DEF FieldsMerged
      <4>2. /\ n - 1 \in 0 .. Depth /\ n > 0
            /\ a[f].node \in Cascade!Documents[n - 1] /\ b[f].node \in Cascade!Documents[n - 1]
        BY <2>3, <3>4, NodeIn
      <4>3. n - 1 \notin B
        <5> HIDE DEF B
        <5>1. n - 1 < n
          OBVIOUS
        <5>2. QED BY <1>1, <4>2, <5>1
      <4>4. Typed0(n - 1)
        BY <4>2, <4>3
      <4>5. merge[<<a[f].node, b[f].node>>] \in Cascade!Documents[n - 1]
        BY <4>2, <4>4 DEF merge
      <4>6. QED BY <4>1, <4>2, <4>5 DEF ValueAt
    <3>5. QED BY <2>4, <3>1, <3>2, <3>3, <3>4
  <2>5. m = [f \in DOMAIN m |-> m[f]] /\ DOMAIN m \subseteq Fields
    BY <2>3, <2>2 DEF FieldsMerged
  <2>6. m \in Cascade!Documents[n]
    BY <2>4, <2>5, DocumentIs
  <2>7. QED BY <2>1, <2>6 DEF m, merge
<1>2. ASSUME B # {} PROVE FALSE
  <2>1. Numbers(B)
    BY LayerAssumption DEF Numbers
  <2>2. PICK n \in B : \A x \in B : n <= x
    <3> HIDE DEF B
    <3>1. QED BY <1>2, <2>1, LeastNumber
  <2>3. n \in 0 .. Depth /\ \A i \in 0 .. Depth : i < n => i \notin B
    BY <2>2
  <2>4. Typed0(n)
    BY <1>1, <2>3
  <2>5. QED BY <2>2, <2>4
<1>3. QED BY <1>2

\* A value on a path through a document, with n levels left.
OnPath(n, v) ==
    \/ v \in {Cascade!Silent, Cascade!Closed}
    \/ \E x \in Leaves : v = Cascade!Leaf(x)
    \/ n \in 0 .. Depth /\ \E d \in Cascade!Documents[n] : v = Cascade!Node(d)

\* What is on it in a merged document, beside the two that were merged.
Beside(n, m, a, b) ==
    /\ b = Cascade!Silent => m = a \/ {m, a} \subseteq {Cascade!Silent, Cascade!Closed}
    /\ b # Cascade!Silent /\ ~ (Cascade!IsNode(a) /\ Cascade!IsNode(b)) => m = b
    /\ Cascade!IsNode(a) /\ Cascade!IsNode(b) =>
         m = Cascade!Node(Cascade!Merge[n][<<a.node, b.node>>])

\* One field further.
LEMMA FieldFurther ==
    ASSUME NEW n \in Int, n <= Depth, NEW v, OnPath(n, v), NEW f
    PROVE  LET w == Cascade!Below(v, f)
           IN  /\ OnPath(n - 1, w)
               /\ v = Cascade!Silent => w = Cascade!Silent
               /\ v # Cascade!Silent /\ ~ Cascade!IsNode(v) => w = Cascade!Closed
               /\ Cascade!IsNode(v) =>
                    /\ n \in 0 .. Depth /\ v.node \in Cascade!Documents[n]
                    /\ f \notin DOMAIN v.node => w = Cascade!Silent
                    /\ f \in DOMAIN v.node => w = v.node[f] /\ w # Cascade!Silent /\ w # Cascade!Closed
                                              /\ ValueAt(n, w)
<1> DEFINE w == Cascade!Below(v, f)
<1>1. w = IF Cascade!IsNode(v) THEN (IF f \in DOMAIN v.node THEN v.node[f] ELSE Cascade!Silent)
          ELSE IF v = Cascade!Silent THEN Cascade!Silent ELSE Cascade!Closed
  BY DEF Cascade!Below
<1> HIDE DEF w
<1>2. CASE ~ Cascade!IsNode(v)
  BY <1>1, <1>2 DEF OnPath, w
<1>3. CASE Cascade!IsNode(v)
  <2>1. n \in 0 .. Depth /\ v.node \in Cascade!Documents[n]
    BY <1>3, LeafOrNode, Nothings DEF OnPath
  <2>2. v # Cascade!Silent
    BY <1>3, Nothings
  <2>3. CASE f \notin DOMAIN v.node
    BY <1>1, <1>3, <2>1, <2>2, <2>3 DEF OnPath, w
  <2>4. CASE f \in DOMAIN v.node
    <3>1. w = v.node[f]
      BY <1>1, <1>3, <2>4
    <3>2. ValueAt(n, w)
      BY <2>1, <2>4, <3>1, DocumentIs
    <3>3. w # Cascade!Silent /\ w # Cascade!Closed
      BY <3>2, LeafOrNode DEF ValueAt
    <3>4. OnPath(n - 1, w)
      <4>1. n > 0 => n - 1 \in 0 .. Depth
        BY <2>1, LayerAssumption
      <4>2. QED BY <3>2, <4>1 DEF ValueAt, OnPath
    <3>5. QED BY <1>3, <2>1, <2>2, <2>4, <3>1, <3>2, <3>3, <3>4 DEF w
  <2>5. QED BY <2>3, <2>4
<1>4. QED BY <1>2, <1>3

\* One field further the merged value is still beside the two.
LEMMA BesideFurther ==
    ASSUME NEW n \in Int, n <= Depth, NEW a, OnPath(n, a), NEW b, OnPath(n, b),
           NEW m, OnPath(n, m), Beside(n, m, a, b), NEW f
    PROVE  Beside(n - 1, Cascade!Below(m, f), Cascade!Below(a, f), Cascade!Below(b, f))
<1> DEFINE p == Cascade!Below(m, f)
           c == Cascade!Below(a, f)
           d == Cascade!Below(b, f)
           S == Cascade!Silent
           C == Cascade!Closed
<1>1. S # C /\ ~ Cascade!IsNode(S) /\ ~ Cascade!IsNode(C)
  BY Nothings
<1>2. /\ a = S => c = S
      /\ a # S /\ ~ Cascade!IsNode(a) => c = C
      /\ Cascade!IsNode(a) =>
           /\ n \in 0 .. Depth /\ a.node \in Cascade!Documents[n]
           /\ f \notin DOMAIN a.node => c = S
           /\ f \in DOMAIN a.node => c = a.node[f] /\ c # S /\ c # C /\ ValueAt(n, c)
  BY FieldFurther
<1>3. /\ b = S => d = S
      /\ b # S /\ ~ Cascade!IsNode(b) => d = C
      /\ Cascade!IsNode(b) =>
           /\ n \in 0 .. Depth /\ b.node \in Cascade!Documents[n]
           /\ f \notin DOMAIN b.node => d = S
           /\ f \in DOMAIN b.node => d = b.node[f] /\ d # S /\ d # C /\ ValueAt(n, d)
  BY FieldFurther
<1>4. /\ m = S => p = S
      /\ m # S /\ ~ Cascade!IsNode(m) => p = C
      /\ Cascade!IsNode(m) =>
           /\ n \in 0 .. Depth /\ m.node \in Cascade!Documents[n]
           /\ f \notin DOMAIN m.node => p = S
           /\ f \in DOMAIN m.node => p = m.node[f] /\ p # S /\ p # C
  BY FieldFurther
<1>5. m = a => p = c
  OBVIOUS
<1>6. m = b => p = d
  OBVIOUS
<1>7. /\ b = S => m = a \/ {m, a} \subseteq {S, C}
      /\ b # S /\ ~ (Cascade!IsNode(a) /\ Cascade!IsNode(b)) => m = b
  BY DEF Beside
<1>8. CASE Cascade!IsNode(a) /\ Cascade!IsNode(b)
  <2> DEFINE merge == Cascade!Merge[n - 1]
  <2>1. m = Cascade!Node(Cascade!Merge[n][<<a.node, b.node>>])
    BY <1>8 DEF Beside
  <2>2. Cascade!Merge[n][<<a.node, b.node>>] = Merging(merge, a.node, b.node)
    BY <1>2, <1>3, <1>8, MergeIs
  <2>3. Cascade!IsNode(m) /\ m.node = Merging(merge, a.node, b.node)
    BY <2>1, <2>2, LeafOrNode
  <2> HIDE DEF merge, p, c, d, S, C
  <2>4. FieldsMerged(m.node, merge, a.node, b.node)
    BY <2>3, MergedField
  <2>5. DOMAIN m.node = DOMAIN a.node \cup DOMAIN b.node
    BY <2>4 DEF FieldsMerged
  <2>6. CASE f \notin DOMAIN b.node
    <3>1. d = S /\ ~ Cascade!IsNode(d)
      BY <1>1, <1>3, <1>8, <2>6
    <3>2. p = c
      <4>1. CASE f \in DOMAIN a.node
        <5>1. m.node[f] = a.node[f]
          BY <2>4, <2>6, <4>1 DEF FieldsMerged
        <5>2. QED BY <1>2, <1>4, <1>8, <2>3, <2>5, <4>1, <5>1
      <4>2. CASE f \notin DOMAIN a.node
        BY <1>2, <1>4, <1>8, <2>3, <2>5, <2>6, <4>2
      <4>3. QED BY <4>1, <4>2
    <3>3. QED BY <3>1, <3>2 DEF Beside, p, c, d, S, C
  <2>7. CASE f \in DOMAIN b.node
    <3>1. d = b.node[f] /\ d # S
      BY <1>3, <1>8, <2>7
    <3>2. p = m.node[f]
      BY <1>4, <2>3, <2>5, <2>7
    <3>3. CASE Cascade!IsNode(c) /\ Cascade!IsNode(d)
      <4>1. f \in DOMAIN a.node /\ c = a.node[f]
        BY <1>1, <1>2, <1>8, <3>3
      <4>2. m.node[f] = Cascade!Node(merge[<<a.node[f].node, b.node[f].node>>])
        BY <2>4, <2>7, <3>1, <3>3, <4>1 DEF FieldsMerged
      <4>3. p = Cascade!Node(merge[<<c.node, d.node>>])
        BY <3>1, <3>2, <4>1, <4>2
      <4>4. QED BY <3>1, <3>3, <4>3 DEF Beside, merge, p, c, d, S
    <3>4. CASE ~ (Cascade!IsNode(c) /\ Cascade!IsNode(d))
      <4>1. f \in DOMAIN a.node => c = a.node[f]
        BY <1>2, <1>8
      <4>2. m.node[f] = b.node[f]
        BY <2>4, <2>7, <3>1, <3>4, <4>1 DEF FieldsMerged
      <4>3. p = d
        BY <3>1, <3>2, <4>2
      <4>4. QED BY <3>1, <3>4, <4>3 DEF Beside, p, c, d, S
    <3>5. QED BY <3>3, <3>4
  <2>8. QED BY <2>6, <2>7
<1>9. CASE ~ (Cascade!IsNode(a) /\ Cascade!IsNode(b))
  <2> HIDE DEF p, c, d, S, C
  <2>1. CASE b = S
    <3>1. d = S /\ ~ Cascade!IsNode(d)
      BY <1>1, <1>3, <2>1
    <3>2. p = c \/ {p, c} \subseteq {S, C}
      BY <1>1, <1>2, <1>4, <1>5, <1>7, <2>1
    <3>3. QED BY <3>1, <3>2 DEF Beside, p, c, d, S, C
  <2>2. CASE b # S
    <3>1. p = d
      BY <1>6, <1>7, <1>9, <2>2
    <3>2. ~ (Cascade!IsNode(c) /\ Cascade!IsNode(d))
      BY <1>1, <1>2, <1>3, <1>9, <2>2
    <3>3. d = S => c \in {S, C}
      <4>1. d = S => Cascade!IsNode(b)
        BY <1>1, <1>3, <2>2
      <4>2. Cascade!IsNode(b) => ~ Cascade!IsNode(a)
        BY <1>9
      <4>3. QED BY <1>2, <4>1, <4>2
    <3>4. QED BY <3>1, <3>2, <3>3 DEF Beside, p, c, d, S, C
  <2>3. QED BY <2>1, <2>2
<1>10. QED BY <1>8, <1>9

\* v is what is on a path, field by field.
Trail(v, fields, path) ==
    v = [i \in 0 .. Len(path) |->
           IF i = 0 THEN Cascade!Node(fields) ELSE Cascade!Below(v[i - 1], path[i])]
TrailTo(v, fields, path, n) ==
    v = [i \in 0 .. n |-> IF i = 0 THEN Cascade!Node(fields) ELSE Cascade!Below(v[i - 1], path[i])]

\* There is a trail of any length.
LEMMA TrailExists ==
    ASSUME NEW fields, NEW path
    PROVE  \A n \in Nat : \E v : TrailTo(v, fields, path, n)
<1> DEFINE B == { n \in Nat : ~ \E v : TrailTo(v, fields, path, n) }
<1>1. ASSUME NEW n \in Nat, \A i \in Nat : i < n => i \notin B
      PROVE  \E v : TrailTo(v, fields, path, n)
  <2>1. PICK g : n > 0 => TrailTo(g, fields, path, n - 1)
    <3>1. n > 0 => n - 1 \in Nat /\ n - 1 < n
      BY <1>1
    <3>2. QED BY <1>1, <3>1
  <2> DEFINE next(i, x) == IF i = 0 THEN Cascade!Node(fields) ELSE Cascade!Below(x, path[i])
             h == [i \in 0 .. n |-> next(i, g[i - 1])]
  <2>2. ASSUME NEW i \in 0 .. n PROVE next(i, g[i - 1]) = next(i, h[i - 1])
    <3>1. CASE i = 0
      BY <3>1
    <3>2. CASE i > 0
      <4>1. i - 1 \in 0 .. n - 1 /\ i - 1 \in 0 .. n /\ n > 0
        BY <1>1, <3>2
      <4>2. h[i - 1] = next(i - 1, g[i - 2])
        BY <1>1, <3>2, <4>1
      <4>3. g[i - 1] = next(i - 1, g[i - 2])
        BY <1>1, <2>1, <3>2, <4>1 DEF TrailTo
      <4>4. QED BY <4>2, <4>3
    <3>3. QED BY <1>1, <3>1, <3>2
  <2>3. h = [i \in 0 .. n |-> next(i, h[i - 1])]
    BY <2>2
  <2> HIDE DEF h
  <2>4. QED BY <2>3 DEF TrailTo
<1>2. ASSUME B # {} PROVE FALSE
  <2>1. Numbers(B)
    BY DEF Numbers
  <2>2. PICK n \in B : \A x \in B : n <= x
    <3> HIDE DEF B
    <3>1. QED BY <1>2, <2>1, LeastNumber
  <2>3. n \in Nat /\ \A i \in Nat : i < n => i \notin B
    BY <2>2
  <2>4. QED BY <1>1, <2>2, <2>3
<1>3. QED BY <1>2

\* The value at the end of a path is the last of its trail.
LEMMA AtIsTrail ==
    ASSUME NEW fields, NEW path, Len(path) \in Nat
    PROVE  \E v : Trail(v, fields, path) /\ Cascade!At(fields, path) = v[Len(path)]
<1> DEFINE v == CHOOSE v : Trail(v, fields, path)
<1>1. Trail(v, fields, path)
  <2>1. PICK w : TrailTo(w, fields, path, Len(path))
    BY TrailExists
  <2>2. Trail(w, fields, path)
    BY <2>1 DEF Trail, TrailTo
  <2>3. QED BY <2>2
<1>2. Cascade!At(fields, path) = v[Len(path)]
  BY DEF Cascade!At, Trail
<1>3. QED BY <1>1, <1>2

\* What a merged document says of a path, beside the two that were merged.
LEMMA SaidOfMerged ==
    ASSUME NEW a \in Cascade!Documents[Depth], NEW b \in Cascade!Documents[Depth],
           NEW path, Len(path) \in Nat
    PROVE  LET m == Cascade!At(Cascade!deepMergePlain(a, b), path)
           IN  \E n \in Int : /\ OnPath(n, m) /\ OnPath(n, Cascade!At(a, path))
                              /\ OnPath(n, Cascade!At(b, path))
                              /\ Beside(n, m, Cascade!At(a, path), Cascade!At(b, path))
<1> DEFINE c == Cascade!deepMergePlain(a, b)
           L == Len(path)
<1>1. c = Cascade!Merge[Depth][<<a, b>>] /\ c \in Cascade!Documents[Depth] /\ Depth \in 0 .. Depth
  BY MergeTyped, LayerAssumption DEF Cascade!deepMergePlain
<1>2. PICK u : Trail(u, a, path) /\ Cascade!At(a, path) = u[L]
  BY AtIsTrail
<1>3. PICK v : Trail(v, b, path) /\ Cascade!At(b, path) = v[L]
  BY AtIsTrail
<1>4. PICK w : Trail(w, c, path) /\ Cascade!At(c, path) = w[L]
  BY AtIsTrail
<1> HIDE DEF c
<1> DEFINE Fine(i) == /\ OnPath(Depth - i, u[i]) /\ OnPath(Depth - i, v[i]) /\ OnPath(Depth - i, w[i])
                      /\ Beside(Depth - i, w[i], u[i], v[i])
           B == { i \in 0 .. L : ~ Fine(i) }
<1>5. ASSUME NEW i \in 0 .. L, i = 0 \/ Fine(i - 1) PROVE Fine(i)
  <2>1. CASE i = 0
    <3>1. u[i] = Cascade!Node(a) /\ v[i] = Cascade!Node(b) /\ w[i] = Cascade!Node(c)
      BY <1>2, <1>3, <1>4, <2>1 DEF Trail
    <3>2. Depth - i = Depth
      BY <2>1, LayerAssumption
    <3>3. OnPath(Depth, u[i]) /\ OnPath(Depth, v[i]) /\ OnPath(Depth, w[i])
      BY <1>1, <3>1 DEF OnPath
    <3>4. Beside(Depth, w[i], u[i], v[i])
      BY <1>1, <3>1, LeafOrNode DEF Beside
    <3>5. QED BY <3>2, <3>3, <3>4
  <2>2. CASE i # 0
    <3> DEFINE f == path[i]
               n == Depth - (i - 1)
    <3>1. i \in Nat /\ i - 1 \in 0 .. L
      BY <2>2
    <3>2. /\ u[i] = Cascade!Below(u[i - 1], f) /\ v[i] = Cascade!Below(v[i - 1], f)
          /\ w[i] = Cascade!Below(w[i - 1], f)
      BY <1>2, <1>3, <1>4, <2>2 DEF Trail
    <3>3. n \in Int /\ n <= Depth /\ n - 1 = Depth - i
      BY <2>2, <3>1, LayerAssumption
    <3>4. /\ OnPath(n, u[i - 1]) /\ OnPath(n, v[i - 1]) /\ OnPath(n, w[i - 1])
          /\ Beside(n, w[i - 1], u[i - 1], v[i - 1])
      BY <1>5, <2>2
    <3> HIDE DEF n, f
    <3>5. OnPath(n - 1, u[i]) /\ OnPath(n - 1, v[i]) /\ OnPath(n - 1, w[i])
      BY <3>2, <3>3, <3>4, FieldFurther
    <3>6. Beside(n - 1, w[i], u[i], v[i])
      BY <3>2, <3>3, <3>4, BesideFurther
    <3>7. QED BY <3>3, <3>5, <3>6
  <2>3. QED BY <2>1, <2>2
<1>6. ASSUME B # {} PROVE FALSE
  <2>1. Numbers(B)
    BY DEF Numbers
  <2>2. PICK i \in B : \A x \in B : i <= x
    <3> HIDE DEF B
    <3>1. QED BY <1>6, <2>1, LeastNumber
  <2>3. i \in 0 .. L
    BY <2>2
  <2>4. i = 0 \/ (i - 1 \in 0 .. L /\ i - 1 \notin B)
    BY <2>2, <2>3
  <2>5. i = 0 \/ Fine(i - 1)
    BY <2>4
  <2>6. Fine(i)
    BY <1>5, <2>3, <2>5
  <2>7. QED BY <2>2, <2>6
<1>7. Fine(L)
  <2>1. L \in 0 .. L /\ L \notin B
    BY <1>6
  <2>2. QED BY <2>1
<1>8. Depth - L \in Int
  BY LayerAssumption
<1>9. QED BY <1>2, <1>3, <1>4, <1>7, <1>8 DEF c

\* Merging: the overriding document decides unless it is silent.
LEMMA OverrideDecides ==
    ASSUME NEW a \in Cascade!Documents[Depth], NEW b \in Cascade!Documents[Depth],
           NEW path, Len(path) \in Nat
    PROVE  /\ Cascade!deepMergePlain(a, b) \in Cascade!Documents[Depth]
           /\ Cascade!Seen(Cascade!At(Cascade!deepMergePlain(a, b), path))
                = Cascade!Seen(IF Cascade!At(b, path) # Cascade!Silent THEN Cascade!At(b, path)
                               ELSE Cascade!At(a, path))
<1> DEFINE m == Cascade!At(Cascade!deepMergePlain(a, b), path)
           u == Cascade!At(a, path)
           v == Cascade!At(b, path)
<1>1. Cascade!deepMergePlain(a, b) \in Cascade!Documents[Depth]
  BY MergeTyped, LayerAssumption DEF Cascade!deepMergePlain
<1>2. PICK n \in Int : OnPath(n, m) /\ OnPath(n, u) /\ OnPath(n, v) /\ Beside(n, m, u, v)
  BY SaidOfMerged
<1> HIDE DEF m, u, v
<1>3. \A x : Cascade!IsNode(x) => Cascade!Seen(x) = Cascade!Section
  BY DEF Cascade!Seen
<1>4. Cascade!Seen(Cascade!Silent) = Cascade!Seen(Cascade!Closed)
  BY Nothings DEF Cascade!Seen
<1>5. CASE v = Cascade!Silent
  BY <1>2, <1>4, <1>5, <1>1 DEF Beside, m, u, v
<1>6. CASE v # Cascade!Silent /\ ~ (Cascade!IsNode(u) /\ Cascade!IsNode(v))
  BY <1>1, <1>2, <1>6 DEF Beside, m, u, v
<1>7. CASE v # Cascade!Silent /\ Cascade!IsNode(u) /\ Cascade!IsNode(v)
  <2>1. Cascade!IsNode(m)
    BY <1>2, <1>7, LeafOrNode DEF Beside
  <2>2. Cascade!Seen(m) = Cascade!Seen(v)
    BY <1>3, <1>7, <2>1
  <2>3. QED BY <1>1, <1>7, <2>2 DEF m, u, v
<1>8. QED BY <1>5, <1>6, <1>7

\* One layer more.
LEMMA LayerDecides ==
    ASSUME NEW result \in Cascade!Documents[Depth], NEW layer, layer.fields \in Cascade!Documents[Depth],
           NEW reference, NEW path, Len(path) \in Nat, NEW decided,
           Cascade!Seen(Cascade!At(result, path)) = Cascade!Seen(decided)
    PROVE  LET speaks == /\ Cascade!isEffective(layer, reference)
                         /\ Cascade!At(layer.fields, path) # Cascade!Silent
           IN  /\ Cascade!Over(result, layer, reference) \in Cascade!Documents[Depth]
               /\ Cascade!Seen(Cascade!At(Cascade!Over(result, layer, reference), path))
                    = Cascade!Seen(IF speaks THEN Cascade!At(layer.fields, path) ELSE decided)
<1>1. CASE Cascade!isEffective(layer, reference)
  <2>1. Cascade!Over(result, layer, reference) = Cascade!deepMergePlain(result, layer.fields)
    BY <1>1 DEF Cascade!Over
  <2> DEFINE d == layer.fields
             m == Cascade!deepMergePlain(result, d)
             s == Cascade!At(d, path)
  <2>2. d \in Cascade!Documents[Depth]
    OBVIOUS
  <2> HIDE DEF d
  <2>3. /\ m \in Cascade!Documents[Depth]
        /\ Cascade!Seen(Cascade!At(m, path))
             = Cascade!Seen(IF s # Cascade!Silent THEN s ELSE Cascade!At(result, path))
    BY <2>2, OverrideDecides
  <2> HIDE DEF m, s
  <2>4. Cascade!Seen(Cascade!At(m, path)) = Cascade!Seen(IF s # Cascade!Silent THEN s ELSE decided)
    BY <2>3
  <2>5. QED BY <1>1, <2>1, <2>3, <2>4 DEF m, s, d
<1>2. CASE ~ Cascade!isEffective(layer, reference)
  <2>1. Cascade!Over(result, layer, reference) = result
    BY <1>2 DEF Cascade!Over
  <2>2. QED BY <1>2, <2>1
<1>3. QED BY <1>1, <1>2

\* The last of up to four layers.
LastOf(speak) == CHOOSE i \in speak : \A j \in speak : j <= i

\* It is the fourth, unless that is not one of them, and so on.
LEMMA LastOfFour ==
    ASSUME NEW speak, speak \subseteq 1 .. 4, speak # {}
    PROVE  LastOf(speak) = IF 4 \in speak THEN 4 ELSE IF 3 \in speak THEN 3
                           ELSE IF 2 \in speak THEN 2 ELSE 1
<1> DEFINE n == IF 4 \in speak THEN 4 ELSE IF 3 \in speak THEN 3
                ELSE IF 2 \in speak THEN 2 ELSE 1
<1>1. \A j \in speak : j = 1 \/ j = 2 \/ j = 3 \/ j = 4
  OBVIOUS
<1>2. n \in speak
  <2>1. PICK j \in speak : TRUE
    OBVIOUS
  <2>2. QED BY <1>1, <2>1
<1>3. \A j \in speak : j \in Int /\ j <= n
  BY <1>1
<1>4. n \in Int
  OBVIOUS
<1> HIDE DEF n
<1>5. \A i \in speak : (\A j \in speak : j <= i) => i = n
  BY <1>2, <1>3, <1>4
<1>6. LastOf(speak) = n
  BY <1>2, <1>3, <1>5 DEF LastOf
<1>7. QED BY <1>6 DEF n

\* The reference, layer by layer.
LEMMA DecidedIs ==
    ASSUME NEW layers, NEW reference, NEW path
    PROVE  LET s(i) == Cascade!At(layers[i].fields, path)
               speaks(i) == Cascade!isEffective(layers[i], reference) /\ s(i) # Cascade!Silent
           IN  Cascade!Decided(layers, reference, path)
                 = IF speaks(4) THEN s(4) ELSE IF speaks(3) THEN s(3)
                   ELSE IF speaks(2) THEN s(2) ELSE s(1)
<1> DEFINE s == [i \in 1 .. 4 |-> Cascade!At(layers[i].fields, path)]
           force(i) == Cascade!isEffective(layers[i], reference)
           speak == { i \in 1 .. 4 : (i = 1 \/ force(i)) /\ s[i] # Cascade!Silent }
<1>1. Cascade!Decided(layers, reference, path)
        = IF speak = {} THEN Cascade!Silent ELSE Cascade!At(layers[LastOf(speak)].fields, path)
  <2>1. speak = { i \in Cascade!InForce(layers, reference) :
                     Cascade!At(layers[i].fields, path) # Cascade!Silent }
    BY DEF Cascade!InForce
  <2> HIDE DEF speak
  <2>2. QED BY <2>1 DEF Cascade!Decided, LastOf
<1>2. speak \subseteq 1 .. 4
  OBVIOUS
<1>3. /\ 4 \in speak <=> force(4) /\ s[4] # Cascade!Silent
      /\ 3 \in speak <=> force(3) /\ s[3] # Cascade!Silent
      /\ 2 \in speak <=> force(2) /\ s[2] # Cascade!Silent
      /\ 1 \in speak <=> s[1] # Cascade!Silent
  OBVIOUS
<1>4. \A i \in 1 .. 4 : Cascade!At(layers[i].fields, path) = s[i]
  OBVIOUS
<1> HIDE DEF speak, force, s
<1>5. ASSUME speak # {}
      PROVE  LastOf(speak) = IF 4 \in speak THEN 4 ELSE IF 3 \in speak THEN 3
                             ELSE IF 2 \in speak THEN 2 ELSE 1
  BY <1>2, <1>5, LastOfFour
<1>6. speak # {} => 4 \in speak \/ 3 \in speak \/ 2 \in speak \/ 1 \in speak
  <2>1. \A j \in speak : j = 1 \/ j = 2 \/ j = 3 \/ j = 4
    BY <1>2
  <2>2. QED BY <2>1
<1>7. Cascade!Decided(layers, reference, path)
        = IF 4 \in speak THEN s[4] ELSE IF 3 \in speak THEN s[3]
          ELSE IF 2 \in speak THEN s[2] ELSE IF 1 \in speak THEN s[1] ELSE Cascade!Silent
  BY <1>1, <1>4, <1>5, <1>6
<1>8. Cascade!Decided(layers, reference, path)
        = IF force(4) /\ s[4] # Cascade!Silent THEN s[4]
          ELSE IF force(3) /\ s[3] # Cascade!Silent THEN s[3]
          ELSE IF force(2) /\ s[2] # Cascade!Silent THEN s[2] ELSE s[1]
  BY <1>3, <1>7
<1>9. QED BY <1>8 DEF s, force

\* Every field of the four layers merged is decided as the reference has it.
LEMMA FieldsAreDecided ==
    ASSUME NEW layers, \A i \in 1 .. 4 : layers[i].fields \in Cascade!Documents[Depth], NEW reference
    PROVE  Cascade!FieldsDecided(layers, reference)
<1> SUFFICES ASSUME NEW path \in Cascade!Paths
             PROVE  Cascade!Seen(Cascade!At(Cascade!resolveCascadeWithRegion(layers, reference), path))
                      = Cascade!Seen(Cascade!Decided(layers, reference, path))
  BY DEF Cascade!FieldsDecided
<1> DEFINE s(i) == Cascade!At(layers[i].fields, path)
           speaks(i) == Cascade!isEffective(layers[i], reference) /\ s(i) # Cascade!Silent
           r1 == layers[1].fields
           r2 == Cascade!Over(r1, layers[2], reference)
           r3 == Cascade!Over(r2, layers[3], reference)
           r4 == Cascade!Over(r3, layers[4], reference)
           d1 == s(1)
           d2 == IF speaks(2) THEN s(2) ELSE d1
           d3 == IF speaks(3) THEN s(3) ELSE d2
           d4 == IF speaks(4) THEN s(4) ELSE d3
<1>1. Len(path) \in Nat
  <2>1. PICK k \in 1 .. Depth + 2 : path \in [1 .. k -> Fields]
    BY DEF Cascade!Paths
  <2>2. k \in Nat
    BY <2>1, LayerAssumption
  <2>3. Len(path) = k
    BY <2>1, <2>2
  <2>4. QED BY <2>2, <2>3
<1>2. /\ layers[1].fields \in Cascade!Documents[Depth] /\ layers[2].fields \in Cascade!Documents[Depth]
      /\ layers[3].fields \in Cascade!Documents[Depth] /\ layers[4].fields \in Cascade!Documents[Depth]
  OBVIOUS
<1>3. Cascade!resolveCascadeWithRegion(layers, reference) = r4
  BY DEF Cascade!resolveCascadeWithRegion
<1>4. Cascade!Decided(layers, reference, path) = d4
  <2>1. Cascade!Decided(layers, reference, path)
          = IF speaks(4) THEN s(4) ELSE IF speaks(3) THEN s(3)
            ELSE IF speaks(2) THEN s(2) ELSE s(1)
    BY DecidedIs
  <2> HIDE DEF speaks, s
  <2>2. QED BY <2>1
<1>5. r1 \in Cascade!Documents[Depth] /\ Cascade!Seen(Cascade!At(r1, path)) = Cascade!Seen(d1)
  BY <1>2
<1> HIDE DEF r1, d1
<1>6. r2 \in Cascade!Documents[Depth] /\ Cascade!Seen(Cascade!At(r2, path)) = Cascade!Seen(d2)
  <2> DEFINE layer == layers[2]
  <2>1. layer.fields \in Cascade!Documents[Depth]
    BY <1>2
  <2> HIDE DEF layer
  <2>2. /\ Cascade!Over(r1, layer, reference) \in Cascade!Documents[Depth]
        /\ Cascade!Seen(Cascade!At(Cascade!Over(r1, layer, reference), path))
             = Cascade!Seen(IF /\ Cascade!isEffective(layer, reference)
                               /\ Cascade!At(layer.fields, path) # Cascade!Silent
                            THEN Cascade!At(layer.fields, path) ELSE d1)
    BY <1>1, <1>5, <2>1, LayerDecides
  <2>3. QED BY <2>2 DEF layer
<1> HIDE DEF r2, d2
<1>7. r3 \in Cascade!Documents[Depth] /\ Cascade!Seen(Cascade!At(r3, path)) = Cascade!Seen(d3)
  BY <1>1, <1>2, <1>6, LayerDecides
<1> HIDE DEF r3, d3
<1>8. Cascade!Seen(Cascade!At(r4, path)) = Cascade!Seen(d4)
  BY <1>1, <1>2, <1>7, LayerDecides
<1> HIDE DEF r4, d4
<1>9. QED BY <1>3, <1>4, <1>8

-----------------------------------------------------------------------------
(* The calendar.                                                           *)

\* The days of a year before a month, 29 February aside.
Elapsed == <<0, 31, 59, 90, 120, 151, 181, 212, 243, 273, 304, 334>>
Intercalary(y, m) == IF Leap(y) /\ m > 2 THEN 1 ELSE 0
Months == {1, 2, 3, 4, 5, 6, 7, 8, 9, 10, 11, 12}

\* There are twelve months.
LEMMA TwelveMonths == 1 .. 12 = Months
BY DEF Months

\* A month more.
LEMMA ElapsedNext ==
    ASSUME NEW y \in Int, NEW m \in 1 .. 11
    PROVE  Elapsed[m + 1] + Intercalary(y, m + 1)
             = Elapsed[m] + Intercalary(y, m) + DaysIn(y, m)
<1>1. m \in {1, 2, 3, 4, 5, 6, 7, 8, 9, 10, 11}
  OBVIOUS
<1>2. QED BY <1>1 DEF Elapsed, Intercalary, DaysIn

\* The tables hold numbers, within the year.
LEMMA ElapsedTyped ==
    ASSUME NEW y \in Int, NEW m \in 1 .. 12
    PROVE  /\ Elapsed[m] \in Int /\ Intercalary(y, m) \in Int /\ DaysIn(y, m) \in Int
           /\ Elapsed[m] \in 0 .. 334 /\ Intercalary(y, m) \in 0 .. 1
           /\ DaysIn(y, m) \in 28 .. 31
           /\ Elapsed[m] + Intercalary(y, m) + DaysIn(y, m) <= 365 + Intercalary(y, 3)
<1>1. m \in Months
  BY TwelveMonths
<1>2. QED BY <1>1 DEF Elapsed, Intercalary, DaysIn, Months

\* What DayOfYear adds up.
LEMMA DayOfYearIs ==
    ASSUME NEW y \in Int, NEW m \in 1 .. 12, NEW d \in Int
    PROVE  DayOfYear(y, <<m, d>>) = d + Elapsed[m] + Intercalary(y, m)
<1> DEFINE days == [i \in 1 .. m - 1 |-> DaysIn(y, i)]
           full == [i \in 1 .. 12 |-> DaysIn(y, i)]
           sum(k) == SumFunctionOnSet(full, 1 .. k)
<1>1. DayOfYear(y, <<m, d>>) = d + Total(days)
  BY DEF DayOfYear, Total
<1>2. \A i \in 1 .. 12 : full[i] \in Int /\ full[i] = DaysIn(y, i)
  BY ElapsedTyped
<1>3. IsFiniteSet(1 .. m - 1) /\ Positions(1 .. m - 1)
  BY FS_Interval DEF Positions
<1>4. days = [i \in 1 .. m - 1 |-> days[i]] /\ \A i \in 1 .. m - 1 : days[i] = full[i] /\ days[i] \in Int
  BY <1>2
<1> HIDE DEF days, full
<1>5. Total(days) = sum(m - 1)
  <2>1. Total(days) = SumFunctionOnSet(days, 1 .. m - 1)
    BY <1>3, <1>4, TotalIsSum
  <2>2. QED BY <2>1, <1>3, <1>4, SumSame
<1>6. sum(0) = 0 /\ \A k \in 1 .. 12 : sum(k - 1) \in Int /\ sum(k) = sum(k - 1) + DaysIn(y, k)
  BY <1>2, SumUpTo
<1> HIDE DEF sum
<1> DEFINE good(k) == sum(k - 1) = Elapsed[k] + Intercalary(y, k)
<1>7. good(1)
  BY <1>6 DEF Elapsed, Intercalary
<1>8. \A k \in 1 .. 11 : good(k) => good(k + 1)
  BY <1>6, ElapsedNext
<1> HIDE DEF good
<1>9. \A k \in 1 .. 12 : good(k)
  <2>1. /\ good(2) /\ good(3) /\ good(4) /\ good(5) /\ good(6) /\ good(7)
        /\ good(8) /\ good(9) /\ good(10) /\ good(11) /\ good(12)
    BY <1>7, <1>8
  <2>2. QED BY <1>7, <2>1, TwelveMonths DEF Months
<1>10. sum(m - 1) = Elapsed[m] + Intercalary(y, m)
  BY <1>9 DEF good
<1>11. Elapsed[m] \in Int /\ Intercalary(y, m) \in Int
  BY ElapsedTyped
<1>12. QED BY <1>1, <1>5, <1>10, <1>11

\* Where a quotient grows.
LEMMA QuotientGrows ==
    ASSUME NEW k \in {4, 100, 400}, NEW y \in Int
    PROVE  y \div k = ((y - 1) \div k) + IF y % k = 0 THEN 1 ELSE 0
<1>1. CASE k = 4
  BY <1>1
<1>2. CASE k = 100
  BY <1>2
<1>3. CASE k = 400
  BY <1>3
<1>4. QED BY <1>1, <1>2, <1>3

\* The leap years are those LeapYearsBefore counts.
LEMMA LeapYearCounted ==
    ASSUME NEW y \in Int
    PROVE  /\ LeapYearsBefore(y) \in Int
           /\ LeapYearsBefore(y + 1) = LeapYearsBefore(y) + IF Leap(y) THEN 1 ELSE 0
<1>1. /\ y \div 4 = ((y - 1) \div 4) + IF y % 4 = 0 THEN 1 ELSE 0
      /\ y \div 100 = ((y - 1) \div 100) + IF y % 100 = 0 THEN 1 ELSE 0
      /\ y \div 400 = ((y - 1) \div 400) + IF y % 400 = 0 THEN 1 ELSE 0
  BY QuotientGrows
<1>2. (y % 100 = 0 => y % 4 = 0) /\ (y % 400 = 0 => y % 100 = 0)
  OBVIOUS
<1>3. (y + 1) - 1 = y
  OBVIOUS
<1>4. QED BY <1>1, <1>2, <1>3 DEF LeapYearsBefore, Leap

\* No fewer leap years before a later year.
LEMMA LeapYearsGrow ==
    ASSUME NEW y \in Int, NEW z \in Int, y <= z
    PROVE  LeapYearsBefore(y) <= LeapYearsBefore(z)
<1> DEFINE q(x) == x \div 100
           r(x) == x % 100
           count(x) == 24 * q(x) + (r(x) \div 4) + (q(x) \div 4)
<1>1. \A a \in Int : (a \div 4) - (a \div 100) + (a \div 400) = count(a)
  <2> SUFFICES ASSUME NEW a \in Int
               PROVE  (a \div 4) - (a \div 100) + (a \div 400) = count(a)
    OBVIOUS
  <2>1. a \div 4 = 25 * q(a) + (r(a) \div 4)
    OBVIOUS
  <2>2. a \div 400 = q(a) \div 4
    OBVIOUS
  <2>3. QED BY <2>1, <2>2
<1>2. \A a, b \in Int : a <= b => q(a) < q(b) \/ (q(a) = q(b) /\ r(a) <= r(b))
  OBVIOUS
<1>3. \A a \in Int : r(a) \in 0 .. 99 /\ q(a) \in Int
  OBVIOUS
<1>4. LeapYearsBefore(y) = count(y - 1) /\ LeapYearsBefore(z) = count(z - 1)
  <2>1. y - 1 \in Int /\ z - 1 \in Int
    OBVIOUS
  <2> HIDE DEF count
  <2>2. QED BY <1>1, <2>1 DEF LeapYearsBefore
<1> HIDE DEF q, r
<1>5. \A a, b \in Int : a <= b => count(a) <= count(b)
  <2> SUFFICES ASSUME NEW a \in Int, NEW b \in Int, a <= b
               PROVE  count(a) <= count(b)
    OBVIOUS
  <2>1. q(a) < q(b) \/ (q(a) = q(b) /\ r(a) <= r(b))
    BY <1>2
  <2>2. r(a) \in 0 .. 99 /\ q(a) \in Int /\ r(b) \in 0 .. 99 /\ q(b) \in Int
    BY <1>3
  <2>3. QED BY <2>1, <2>2
<1> HIDE DEF count
<1>6. QED BY <1>4, <1>5

\* A date has a month of the year and a day of the month.
LEMMA DatesAre ==
    ASSUME NEW y \in Int, NEW date \in DatesOf(y)
    PROVE  \E m \in 1 .. 12 : \E d \in 1 .. DaysIn(y, m) : date = Date(y, m, d)
BY DEF DatesOf

\* Such a month and day are a date.
LEMMA DateIn ==
    ASSUME NEW y \in Int, NEW m \in 1 .. 12, NEW d \in 1 .. DaysIn(y, m)
    PROVE  Date(y, m, d) \in DatesOf(y)
BY DEF DatesOf

\* The days since 1980 before a month.
Before(y, m) == 365 * (y - 1980) + LeapYearsBefore(y) - LeapYearsBefore(1980)
                + Elapsed[m] + Intercalary(y, m)

\* They are a number.
LEMMA BeforeTyped == \A y \in Int, m \in 1 .. 12 : Before(y, m) \in Int
<1> SUFFICES ASSUME NEW y \in Int, NEW m \in 1 .. 12 PROVE Before(y, m) \in Int
  OBVIOUS
<1>1. Elapsed[m] \in Int /\ Intercalary(y, m) \in Int
  BY ElapsedTyped
<1>2. LeapYearsBefore(y) \in Int /\ LeapYearsBefore(1980) \in Int
  BY LeapYearCounted
<1>3. QED BY <1>1, <1>2 DEF Before

\* The number of a day, counted out.
LEMMA DayNumberIs ==
    \A y \in Int, m \in 1 .. 12, d \in Int : DayNumberOf(Date(y, m, d)) = Before(y, m) + d
<1> SUFFICES ASSUME NEW y \in Int, NEW m \in 1 .. 12, NEW d \in Int
             PROVE  DayNumberOf(Date(y, m, d)) = Before(y, m) + d
  OBVIOUS
<1>1. DayNumberOf(Date(y, m, d)) = DayNumber(y, DayOfYear(y, <<m, d>>))
  BY DEF DayNumberOf, Date
<1>2. DayOfYear(y, <<m, d>>) = d + Elapsed[m] + Intercalary(y, m)
  BY DayOfYearIs
<1>3. Elapsed[m] \in Int /\ Intercalary(y, m) \in Int
  BY ElapsedTyped
<1>4. LeapYearsBefore(y) \in Int /\ LeapYearsBefore(1980) \in Int
  BY LeapYearCounted
<1>5. QED BY <1>1, <1>2, <1>3, <1>4 DEF DayNumber, Before

\* The first of a month follows the last of the month before.
LEMMA MonthFollows ==
    \A y \in Int, m \in 1 .. 11 : Before(y, m + 1) = Before(y, m) + DaysIn(y, m)
<1> SUFFICES ASSUME NEW y \in Int, NEW m \in 1 .. 11
             PROVE  Before(y, m + 1) = Before(y, m) + DaysIn(y, m)
  OBVIOUS
<1>1. m \in 1 .. 12 /\ m + 1 \in 1 .. 12
  OBVIOUS
<1>2. DaysIn(y, m) \in Int
  BY <1>1, ElapsedTyped
<1>3. Elapsed[m + 1] + Intercalary(y, m + 1) = Elapsed[m] + Intercalary(y, m) + DaysIn(y, m)
  BY ElapsedNext
<1>4. /\ Elapsed[m] \in Int /\ Intercalary(y, m) \in Int
      /\ Elapsed[m + 1] \in Int /\ Intercalary(y, m + 1) \in Int
  BY <1>1, ElapsedTyped
<1>5. LeapYearsBefore(y) \in Int /\ LeapYearsBefore(1980) \in Int
  BY LeapYearCounted
<1>6. QED BY <1>2, <1>3, <1>4, <1>5 DEF Before

\* 1 January follows 31 December.
LEMMA YearFollows == \A y \in Int : Before(y + 1, 1) = Before(y, 12) + 31
<1> SUFFICES ASSUME NEW y \in Int PROVE Before(y + 1, 1) = Before(y, 12) + 31
  OBVIOUS
<1>1. /\ LeapYearsBefore(y) \in Int /\ LeapYearsBefore(1980) \in Int
      /\ LeapYearsBefore(y + 1) = LeapYearsBefore(y) + IF Leap(y) THEN 1 ELSE 0
  BY LeapYearCounted
<1>2. /\ Elapsed[1] = 0 /\ Elapsed[12] = 334
      /\ Intercalary(y + 1, 1) = 0
      /\ Intercalary(y, 12) = IF Leap(y) THEN 1 ELSE 0
  BY DEF Elapsed, Intercalary
<1>3. QED BY <1>1, <1>2 DEF Before

AllDates == UNION { DatesOf(y) : y \in Int }

\* The day after a date is a date, one day later.
LEMMA FollowingDay ==
    ASSUME NEW date \in AllDates
    PROVE  /\ Following(date) \in AllDates /\ DayNumberOf(date) \in Int
           /\ DayNumberOf(Following(date)) = DayNumberOf(date) + 1
<1>1. PICK y \in Int : date \in DatesOf(y)
  BY DEF AllDates
<1>2. PICK m \in 1 .. 12 : \E d \in 1 .. DaysIn(y, m) : date = Date(y, m, d)
  BY <1>1, DatesAre
<1>3. PICK d \in 1 .. DaysIn(y, m) : date = Date(y, m, d)
  BY <1>2
<1>4. DaysIn(y, m) \in 28 .. 31
  BY ElapsedTyped
<1>5. DaysIn(y, m) \in 28 .. 31 /\ d \in Int
  BY <1>4
<1>6. date.year = y /\ date.month = m /\ date.day = d
  BY <1>3 DEF Date
<1>7. DayNumberOf(date) = Before(y, m) + d /\ Before(y, m) \in Int
  BY <1>3, <1>5, DayNumberIs, BeforeTyped
<1>8. DayNumberOf(date) \in Int
  BY <1>5, <1>7
<1>9. \A z \in Int, k \in 1 .. 12 : DaysIn(z, k) \in 28 .. 31
  BY ElapsedTyped
<1>10. CASE m = 12 /\ d = 31
  <2>1. Following(date) = Date(y + 1, 1, 1)
    BY <1>6, <1>10 DEF Following
  <2>2. y + 1 \in Int /\ 1 \in 1 .. 12 /\ 1 \in 1 .. DaysIn(y + 1, 1)
    BY <1>9
  <2>3. Following(date) \in AllDates
    BY <2>1, <2>2, DateIn DEF AllDates
  <2>4. 1 \in Int /\ 31 \in Int /\ 12 \in 1 .. 12
    OBVIOUS
  <2>5. /\ DayNumberOf(Following(date)) = Before(y + 1, 1) + 1
        /\ DayNumberOf(date) = Before(y, 12) + 31
    BY <1>3, <1>10, <2>1, <2>2, <2>4, DayNumberIs
  <2>6. Before(y, 12) \in Int
    BY <2>4, BeforeTyped
  <2>7. QED BY <1>8, <2>3, <2>5, <2>6, YearFollows
<1>11. CASE ~ (m = 12 /\ d = 31)
  <2> DEFINE next == NextDay(y, <<m, d>>)
  <2>1. Following(date) = Date(y, next[1], next[2])
    BY <1>6, <1>11 DEF Following
  <2>2. CASE d < DaysIn(y, m)
    <3>1. next = <<m, d + 1>>
      BY <2>2 DEF NextDay
    <3>2. Following(date) = Date(y, m, d + 1)
      BY <2>1, <3>1
    <3>3. d + 1 \in 1 .. DaysIn(y, m)
      BY <1>5, <2>2
    <3>4. Following(date) \in AllDates
      BY <3>2, <3>3, DateIn DEF AllDates
    <3>5. Before(y, m) \in Int
      BY BeforeTyped
    <3>6. d + 1 \in Int
      BY <1>5
    <3>7. DayNumberOf(Following(date)) = Before(y, m) + (d + 1)
      BY <3>2, <3>6, DayNumberIs
    <3>8. DayNumberOf(date) = Before(y, m) + d
      BY <1>3, <1>5, DayNumberIs
    <3>9. QED BY <1>5, <1>8, <3>4, <3>5, <3>7, <3>8
  <2>3. CASE ~ d < DaysIn(y, m)
    <3>1. d = DaysIn(y, m)
      BY <1>5, <2>3
    <3>2. m \in 1 .. 11
      BY <1>11, <3>1 DEF DaysIn
    <3>3. next = <<m + 1, 1>>
      BY <2>3 DEF NextDay
    <3>4. Following(date) = Date(y, m + 1, 1)
      BY <2>1, <3>3
    <3>5. m + 1 \in 1 .. 12 /\ 1 \in 1 .. DaysIn(y, m + 1)
      BY <1>9, <3>2
    <3>6. Following(date) \in AllDates
      BY <3>4, <3>5, DateIn DEF AllDates
    <3>7. Before(y, m) \in Int
      BY BeforeTyped
    <3>8. 1 \in Int
      OBVIOUS
    <3>9. DayNumberOf(Following(date)) = Before(y, m + 1) + 1
      BY <3>4, <3>5, <3>8, DayNumberIs
    <3>10. DayNumberOf(date) = Before(y, m) + d
      BY <1>3, <1>5, DayNumberIs
    <3>11. Before(y, m + 1) = Before(y, m) + d
      BY <3>1, <3>2, MonthFollows
    <3>12. QED BY <1>5, <1>8, <3>6, <3>7, <3>9, <3>10, <3>11
  <2>4. QED BY <2>2, <2>3
<1>12. QED BY <1>10, <1>11

DaysOver(h, date, n) ==
    h = [U \in SUBSET (1 .. n) |-> IF U = {} THEN date ELSE Following(h[U \ {Max(U)}])]

\* addDays is what the days one by one lead to.
LEMMA DaysChosen ==
    ASSUME NEW date, NEW n \in Nat
    PROVE  addDays(date, n) = (CHOOSE h : DaysOver(h, date, n))[1 .. n]
<1>1. DOMAIN [i \in 1 .. n |-> i] = 1 .. n
  OBVIOUS
<1>2. QED BY <1>1 DEF addDays, FoldLeft, MapThenFoldSet, DaysOver

\* They lead somewhere.
LEMMA DaysExist ==
    ASSUME NEW date \in AllDates, NEW n \in Nat
    PROVE  \E h : DaysOver(h, date, n)
<1> DEFINE step == [i \in 1 .. n |-> [a \in AllDates |-> Following(a)]]
<1>1. \A i \in 1 .. n, a \in AllDates : step[i][a] = Following(a) /\ step[i][a] \in AllDates
  BY FollowingDay
<1>2. Stays(step, n, AllDates)
  BY <1>1 DEF Stays
<1> HIDE DEF step
<1>3. PICK h : LeftFolds(h, n, date, step) /\ AllIn(h, n, AllDates)
  BY <1>2, LeftFold
<1>4. ASSUME NEW U \in SUBSET (1 .. n), U # {}
      PROVE  step[Max(U)][h[U \ {Max(U)}]] = Following(h[U \ {Max(U)}])
  <2>1. Max(U) \in 1 .. n
    BY <1>4, LargestPicks
  <2>2. h[U \ {Max(U)}] \in AllDates
    BY <1>3 DEF AllIn
  <2>3. QED BY <1>1, <2>1, <2>2
<1>5. h = [U \in SUBSET (1 .. n) |-> IF U = {} THEN date ELSE Following(h[U \ {Max(U)}])]
  BY <1>3, <1>4 DEF LeftFolds
<1>6. QED BY <1>5 DEF DaysOver

\* addDays adds days.
LEMMA DaysAdded ==
    ASSUME NEW date \in AllDates, NEW n \in Nat
    PROVE  DayNumberOf(addDays(date, n)) = DayNumberOf(date) + n
<1> DEFINE h == CHOOSE k : DaysOver(k, date, n)
           right(k) == h[1 .. k] \in AllDates /\ DayNumberOf(h[1 .. k]) = DayNumberOf(date) + k
           B == { k \in 0 .. n : ~ right(k) }
<1>1. DaysOver(h, date, n)
  BY DaysExist
<1>2. addDays(date, n) = h[1 .. n]
  BY DaysChosen
<1> HIDE DEF h
<1>3. DayNumberOf(date) \in Int
  BY FollowingDay
<1>4. right(0)
  <2>1. 1 .. 0 = {} /\ {} \in SUBSET (1 .. n)
    OBVIOUS
  <2>2. h[1 .. 0] = date
    BY <1>1, <2>1 DEF DaysOver
  <2>3. QED BY <1>3, <2>2
<1>5. ASSUME NEW k \in 1 .. n, right(k - 1) PROVE right(k)
  <2>1. Max(1 .. k) = k /\ (1 .. k) \ {k} = 1 .. k - 1 /\ 1 .. k \in SUBSET (1 .. n) /\ 1 .. k # {}
    BY LargestPicks
  <2>2. h[1 .. k] = Following(h[1 .. k - 1])
    BY <1>1, <2>1 DEF DaysOver
  <2>3. h[1 .. k] \in AllDates
    BY <1>5, <2>2, FollowingDay
  <2>4. DayNumberOf(h[1 .. k]) = DayNumberOf(h[1 .. k - 1]) + 1
    BY <1>5, <2>2, FollowingDay
  <2>5. QED BY <1>3, <1>5, <2>3, <2>4
<1>6. B = {}
  <2> SUFFICES ASSUME B # {} PROVE FALSE
    OBVIOUS
  <2>1. PICK k \in B : \A x \in B : k <= x
    <3>1. Numbers(B)
      BY DEF Numbers
    <3> HIDE DEF B
    <3>2. QED BY <3>1, LeastNumber
  <2>2. k \in 0 .. n /\ ~ right(k)
    OBVIOUS
  <2> HIDE DEF right
  <2>3. k # 0
    BY <1>4, <2>2
  <2>4. k - 1 \in 0 .. n /\ k \in 1 .. n /\ ~ k <= k - 1
    BY <2>2, <2>3
  <2>5. right(k - 1)
    BY <2>1, <2>4
  <2>6. QED BY <1>5, <2>2, <2>4, <2>5
<1>7. right(n)
  <2> HIDE DEF right
  <2>1. n \in 0 .. n
    OBVIOUS
  <2>2. QED BY <1>6, <2>1
<1>8. QED BY <1>2, <1>7

\* When the settlement is due.
Due(y, m, d) == IF m = 12 THEN Before(y + 1, 1) + 15
                ELSE IF d <= DaysIn(y, m + 1) THEN Before(y, m + 1) + 15
                ELSE Before(y, m + 2) + 15

\* A month later.
LEMMA MonthLater ==
    ASSUME NEW y \in Int, NEW m \in 1 .. 12, NEW d \in 1 .. DaysIn(y, m)
    PROVE  addMonths(Date(y, m, d), 1)
             = IF m = 12 THEN Date(y + 1, 1, d)
               ELSE IF d <= DaysIn(y, m + 1) THEN Date(y, m + 1, d)
               ELSE Date(y, m + 2, d - DaysIn(y, m + 1))
<1>1. addMonths(Date(y, m, d), 1)
        = Existing(y + ((m - 1 + 1) \div 12), ((m - 1 + 1) % 12) + 1, d)
  BY DEF addMonths, Date
<1>2. DaysIn(y, m) \in Int
  BY ElapsedTyped
<1>3. d \in Int /\ DaysIn(y, m) \in Int
  BY <1>2
<1>4. CASE m = 12
  <2>1. addMonths(Date(y, m, d), 1) = Existing(y + 1, 1, d)
    BY <1>1, <1>4
  <2>2. DaysIn(y + 1, 1) = 31 /\ DaysIn(y, 12) = 31
    BY DEF DaysIn
  <2>3. ~ d > DaysIn(y + 1, 1)
    BY <1>3, <1>4, <2>2
  <2>4. QED BY <1>4, <2>1, <2>3 DEF Existing
<1>5. CASE m # 12
  <2>1. m - 1 + 1 = m /\ m \div 12 = 0 /\ m % 12 = m
    BY <1>5
  <2>2. addMonths(Date(y, m, d), 1) = Existing(y, m + 1, d)
    BY <1>1, <2>1
  <2>3. m + 1 \in 1 .. 12
    BY <1>5
  <2>4. DaysIn(y, m + 1) \in Int
    BY <2>3, ElapsedTyped
  <2>5. d > DaysIn(y, m + 1) <=> ~ d <= DaysIn(y, m + 1)
    BY <1>3, <2>4
  <2>6. m + 1 + 1 = m + 2
    OBVIOUS
  <2>7. QED BY <1>5, <2>2, <2>5, <2>6 DEF Existing
<1>6. QED BY <1>4, <1>5

\* A month too short for the date is not the last of the year.
LEMMA NextButOne ==
    ASSUME NEW y \in Int, NEW m \in 1 .. 11, NEW d \in 1 .. DaysIn(y, m), ~ d <= DaysIn(y, m + 1)
    PROVE  m + 2 \in 1 .. 12
<1>1. m = 11 => DaysIn(y, m + 1) = 31 /\ DaysIn(y, m) = 30
  BY DEF DaysIn
<1>2. m # 11
  BY <1>1
<1>3. QED BY <1>2

\* The deadline falls on the day Due says.
LEMMA DeadlineIs ==
    ASSUME NEW y \in Int, NEW m \in 1 .. 12, NEW d \in 1 .. DaysIn(y, m), NEW amount, DeadlineDay = 15
    PROVE  DayNumberOf(getSettlementPreview(Date(y, m, d), amount).deadline) = Due(y, m, d)
<1> DEFINE next == addMonths(Date(y, m, d), 1)
<1>1. getSettlementPreview(Date(y, m, d), amount).deadline = Date(next.year, next.month, 15)
  BY DEF getSettlementPreview
<1>2. 15 \in Int /\ y + 1 \in Int
  OBVIOUS
<1>3. CASE m = 12
  <2>1. next = Date(y + 1, 1, d)
    BY <1>3, MonthLater
  <2>2. next.year = y + 1 /\ next.month = 1
    BY <2>1 DEF Date
  <2>3. 1 \in 1 .. 12
    OBVIOUS
  <2>4. QED BY <1>1, <1>2, <1>3, <2>2, <2>3, DayNumberIs DEF Due
<1>4. CASE m # 12 /\ d <= DaysIn(y, m + 1)
  <2>1. next = Date(y, m + 1, d)
    BY <1>4, MonthLater
  <2>2. next.year = y /\ next.month = m + 1
    BY <2>1 DEF Date
  <2>3. m + 1 \in 1 .. 12
    BY <1>4
  <2>4. QED BY <1>1, <1>2, <1>4, <2>2, <2>3, DayNumberIs DEF Due
<1>5. CASE m # 12 /\ ~ d <= DaysIn(y, m + 1)
  <2>1. next = Date(y, m + 2, d - DaysIn(y, m + 1))
    BY <1>5, MonthLater
  <2>2. next.year = y /\ next.month = m + 2
    BY <2>1 DEF Date
  <2>3. m \in 1 .. 11
    BY <1>5
  <2>4. m + 2 \in 1 .. 12
    BY <1>5, <2>3, NextButOne
  <2>5. QED BY <1>1, <1>2, <1>5, <2>2, <2>4, DayNumberIs DEF Due
<1>6. QED BY <1>3, <1>4, <1>5

\* It is a whole day.
LEMMA DueTyped ==
    ASSUME NEW y \in Int, NEW m \in 1 .. 12, NEW d \in 1 .. DaysIn(y, m)
    PROVE  Due(y, m, d) \in Int
<1>1. CASE m = 12
  <2>1. y + 1 \in Int /\ 1 \in 1 .. 12
    OBVIOUS
  <2>2. Before(y + 1, 1) \in Int
    BY <2>1, BeforeTyped
  <2>3. QED BY <1>1, <2>2 DEF Due
<1>2. CASE m # 12 /\ d <= DaysIn(y, m + 1)
  <2>1. m + 1 \in 1 .. 12
    BY <1>2
  <2>2. Before(y, m + 1) \in Int
    BY <2>1, BeforeTyped
  <2>3. QED BY <1>2, <2>2 DEF Due
<1>3. CASE m # 12 /\ ~ d <= DaysIn(y, m + 1)
  <2>1. m \in 1 .. 11
    BY <1>3
  <2>2. m + 2 \in 1 .. 12
    BY <1>3, <2>1, NextButOne
  <2>3. Before(y, m + 2) \in Int
    BY <2>2, BeforeTyped
  <2>4. QED BY <1>3, <2>3 DEF Due
<1>4. QED BY <1>1, <1>2, <1>3

\* It lies in the month that follows, or in the one after it.
LEMMA DueInMonth ==
    ASSUME NEW y \in Int, NEW m \in 1 .. 12, NEW d \in 1 .. DaysIn(y, m), NEW amount
    PROVE  LET deadline == getSettlementPreview(Date(y, m, d), amount).deadline
           IN  /\ deadline.day = DeadlineDay
               /\ MonthsUntil(Date(y, m, d), deadline)
                    = IF d <= DaysIn(y, (m % 12) + 1) THEN 1 ELSE 2
<1> DEFINE next == addMonths(Date(y, m, d), 1)
           deadline == getSettlementPreview(Date(y, m, d), amount).deadline
<1>1. deadline = Date(next.year, next.month, DeadlineDay)
  BY DEF getSettlementPreview
<1>2. deadline.day = DeadlineDay /\ deadline.year = next.year /\ deadline.month = next.month
  BY <1>1 DEF Date
<1>3. MonthsUntil(Date(y, m, d), deadline) = 12 * (next.year - y) + next.month - m
  BY <1>2 DEF MonthsUntil, Date
<1>4. CASE m = 12
  <2>1. next = Date(y + 1, 1, d)
    BY <1>4, MonthLater
  <2>2. next.year = y + 1 /\ next.month = 1
    BY <2>1 DEF Date
  <2>3. (m % 12) + 1 = 1 /\ DaysIn(y, 1) = 31 /\ DaysIn(y, m) = 31
    BY <1>4 DEF DaysIn
  <2>4. QED BY <1>2, <1>3, <1>4, <2>2, <2>3
<1>5. CASE m # 12 /\ d <= DaysIn(y, m + 1)
  <2>1. next = Date(y, m + 1, d)
    BY <1>5, MonthLater
  <2>2. next.year = y /\ next.month = m + 1
    BY <2>1 DEF Date
  <2>3. (m % 12) + 1 = m + 1
    BY <1>5
  <2>4. QED BY <1>2, <1>3, <1>5, <2>2, <2>3
<1>6. CASE m # 12 /\ ~ d <= DaysIn(y, m + 1)
  <2>1. next = Date(y, m + 2, d - DaysIn(y, m + 1))
    BY <1>6, MonthLater
  <2>2. next.year = y /\ next.month = m + 2
    BY <2>1 DEF Date
  <2>3. (m % 12) + 1 = m + 1
    BY <1>6
  <2>4. QED BY <1>2, <1>3, <1>6, <2>2, <2>3
<1>7. QED BY <1>4, <1>5, <1>6

\* It is not due earlier for a later day of the month, or for the first of the next.
LEMMA DueLater ==
    ASSUME NEW y \in Int, NEW m \in 1 .. 12, NEW d \in 1 .. DaysIn(y, m)
    PROVE  /\ d < DaysIn(y, m) => Due(y, m, d) <= Due(y, m, d + 1)
           /\ m = 12 => Due(y, m, d) <= Due(y + 1, 1, 1)
           /\ m # 12 => Due(y, m, d) <= Due(y, m + 1, 1)
<1>1. DaysIn(y, m) \in 28 .. 31
  BY ElapsedTyped
<1>2. \A z \in Int, k \in 1 .. 12 : Before(z, k) \in Int /\ DaysIn(z, k) \in 28 .. 31
  BY BeforeTyped, ElapsedTyped
<1>3. CASE m = 12
  <2>1. y + 1 \in Int /\ 1 \in 1 .. 12 /\ 1 \in 1 .. 11 /\ 2 \in 1 .. 12 /\ 1 + 1 = 2
    OBVIOUS
  <2>2. Before(y + 1, 2) = Before(y + 1, 1) + DaysIn(y + 1, 1)
    BY <2>1, MonthFollows
  <2>3. Before(y + 1, 1) \in Int /\ DaysIn(y + 1, 1) \in 28 .. 31 /\ DaysIn(y + 1, 2) \in 28 .. 31
    BY <1>2, <2>1
  <2>4. 1 <= DaysIn(y + 1, 2)
    BY <2>3
  <2>5. Due(y + 1, 1, 1) = Before(y + 1, 2) + 15
    BY <2>1, <2>4 DEF Due
  <2>6. Due(y, m, d) = Before(y + 1, 1) + 15 /\ Due(y, m, d + 1) = Before(y + 1, 1) + 15
    BY <1>3 DEF Due
  <2>7. QED BY <1>3, <2>2, <2>3, <2>5, <2>6
<1>4. CASE m = 11
  <2>1. DaysIn(y, m) = 30 /\ DaysIn(y, m + 1) = 31 /\ m + 1 = 12 /\ 11 \in 1 .. 11 /\ 12 \in 1 .. 12
    BY <1>4 DEF DaysIn
  <2>2. Due(y, m, d) = Before(y, 12) + 15
    BY <1>4, <2>1 DEF Due
  <2>3. d < DaysIn(y, m) => Due(y, m, d + 1) = Before(y, 12) + 15
    BY <1>4, <2>1 DEF Due
  <2>4. Due(y, m + 1, 1) = Before(y + 1, 1) + 15
    BY <2>1 DEF Due
  <2>5. Before(y + 1, 1) = Before(y, 12) + 31
    BY YearFollows
  <2>6. Before(y, 12) \in Int
    BY <1>2, <2>1
  <2>7. QED BY <1>4, <2>2, <2>3, <2>4, <2>5, <2>6
<1>5. CASE m \in 1 .. 10
  <2>1. m + 1 \in 1 .. 12 /\ m + 2 \in 1 .. 12 /\ m + 1 \in 1 .. 11 /\ m + 1 + 1 = m + 2
        /\ m # 12 /\ m + 1 # 12
    BY <1>5
  <2>2. Before(y, m + 2) = Before(y, m + 1) + DaysIn(y, m + 1)
    BY <2>1, MonthFollows
  <2>3. /\ Before(y, m + 1) \in Int /\ DaysIn(y, m + 1) \in 28 .. 31
        /\ DaysIn(y, m + 2) \in 28 .. 31
    BY <1>2, <2>1
  <2>4. 1 <= DaysIn(y, m + 1 + 1)
    BY <2>1, <2>3
  <2>5. Due(y, m + 1, 1) = Before(y, m + 2) + 15
    BY <2>1, <2>4 DEF Due
  <2>6. /\ d <= DaysIn(y, m + 1) => Due(y, m, d) = Before(y, m + 1) + 15
        /\ ~ d <= DaysIn(y, m + 1) => Due(y, m, d) = Before(y, m + 2) + 15
        /\ d + 1 <= DaysIn(y, m + 1) => Due(y, m, d + 1) = Before(y, m + 1) + 15
        /\ ~ d + 1 <= DaysIn(y, m + 1) => Due(y, m, d + 1) = Before(y, m + 2) + 15
    BY <2>1 DEF Due
  <2>7. QED BY <1>1, <2>1, <2>2, <2>3, <2>5, <2>6
<1>6. QED BY <1>3, <1>4, <1>5

\* A part of a salary that is rounded to a whole amount.
Part(amount, d, days) == (2 * amount * d + days) \div (2 * days)

\* It lies between nothing and the salary, grows with the days and is whole with
\* the last of them.
LEMMA PartGrows ==
    ASSUME NEW amount \in Nat, NEW days \in 28 .. 31, NEW d \in 1 .. days
    PROVE  /\ Part(amount, d, days) \in 0 .. amount
           /\ d = days => Part(amount, d, days) = amount
           /\ Part(amount, d, days) <= Part(amount, d + 1, days)
<1> DEFINE round(p) == (2 * p + days) \div (2 * days)
<1>1. /\ amount * d \in Int /\ amount * days \in Int
      /\ 0 <= amount * d /\ amount * d <= amount * days /\ amount * d <= amount * (d + 1)
      /\ amount * (d + 1) \in Int
      /\ 2 * amount * d = 2 * (amount * d) /\ 2 * amount * (d + 1) = 2 * (amount * (d + 1))
  OBVIOUS
<1>2. Part(amount, d, days) = round(amount * d) /\ Part(amount, d + 1, days) = round(amount * (d + 1))
  BY <1>1 DEF Part
<1>3. \A p, q \in Int : p <= q => round(p) \in Int /\ round(p) <= round(q)
  <2> SUFFICES ASSUME NEW p \in Int, NEW q \in Int, p <= q
               PROVE  round(p) \in Int /\ round(p) <= round(q)
    OBVIOUS
  <2>1. CASE days = 28
    BY <2>1
  <2>2. CASE days = 29
    BY <2>2
  <2>3. CASE days = 30
    BY <2>3
  <2>4. CASE days = 31
    BY <2>4
  <2>5. QED BY <2>1, <2>2, <2>3, <2>4
<1>4. round(0) = 0 /\ round(amount * days) = amount
  <2>1. CASE days = 28
    BY <2>1
  <2>2. CASE days = 29
    BY <2>2
  <2>3. CASE days = 30
    BY <2>3
  <2>4. CASE days = 31
    BY <2>4
  <2>5. QED BY <2>1, <2>2, <2>3, <2>4
<1> HIDE DEF round
<1>5. round(amount * d) \in Int /\ 0 <= round(amount * d) /\ round(amount * d) <= amount
      /\ round(amount * d) <= round(amount * (d + 1))
  BY <1>1, <1>3, <1>4
<1>6. d = days => round(amount * d) = amount
  BY <1>4
<1>7. QED BY <1>2, <1>5, <1>6

\* A year or more later no day is lost.
LEMMA YearsLater ==
    ASSUME NEW y \in Int, NEW m \in 1 .. 12, NEW d \in 1 .. DaysIn(y, m), NEW k \in Nat
    PROVE  DayNumberOf(addYears(Date(y, m, d), k)) - (Before(y, m) + d) >= 365 * k
<1>1. DaysIn(y, m) \in 28 .. 31 /\ DaysIn(y + k, m) \in 28 .. 31
  <2>1. y + k \in Int
    OBVIOUS
  <2>2. QED BY <2>1, ElapsedTyped
<1>2. y + k \in Int /\ d \in Int
  BY <1>1
<1>3. Before(y, m) \in Int /\ Before(y + k, m) \in Int
  BY <1>2, BeforeTyped
<1>4. addYears(Date(y, m, d), k) = Existing(y + k, m, d)
  BY DEF addYears, Date
<1>5. DayNumberOf(addYears(Date(y, m, d), k)) = Before(y + k, m) + d
  <2>1. CASE ~ d > DaysIn(y + k, m)
    <3>1. addYears(Date(y, m, d), k) = Date(y + k, m, d)
      BY <1>4, <2>1 DEF Existing
    <3>2. QED BY <1>2, <3>1, DayNumberIs
  <2>2. CASE d > DaysIn(y + k, m)
    <3>1. m = 2
      BY <2>2 DEF DaysIn
    <3>2. addYears(Date(y, m, d), k) = Date(y + k, 3, d - DaysIn(y + k, 2))
      BY <1>4, <2>2, <3>1 DEF Existing
    <3>3. d - DaysIn(y + k, 2) \in Int /\ 3 \in 1 .. 12 /\ 2 \in 1 .. 11 /\ 2 + 1 = 3
      BY <1>1, <3>1
    <3>4. DayNumberOf(Date(y + k, 3, d - DaysIn(y + k, 2))) = Before(y + k, 3) + (d - DaysIn(y + k, 2))
      BY <1>2, <3>3, DayNumberIs
    <3>5. Before(y + k, 3) = Before(y + k, 2) + DaysIn(y + k, 2)
      BY <1>2, <3>3, MonthFollows
    <3>6. QED BY <1>1, <1>2, <1>3, <3>1, <3>2, <3>4, <3>5
  <2>3. QED BY <2>1, <2>2
<1>6. /\ LeapYearsBefore(y) \in Int /\ LeapYearsBefore(y + k) \in Int /\ LeapYearsBefore(1980) \in Int
      /\ LeapYearsBefore(y) <= LeapYearsBefore(y + k)
      /\ k >= 1 /\ Leap(y) => LeapYearsBefore(y) + 1 <= LeapYearsBefore(y + k)
  <2>1. y <= y + k /\ y + k \in Int /\ 1980 \in Int
    OBVIOUS
  <2>2. LeapYearsBefore(y) \in Int /\ LeapYearsBefore(y + k) \in Int /\ LeapYearsBefore(1980) \in Int
    BY <2>1, LeapYearCounted
  <2>3. LeapYearsBefore(y) <= LeapYearsBefore(y + k)
    BY <2>1, LeapYearsGrow
  <2>4. ASSUME k >= 1, Leap(y)
        PROVE  LeapYearsBefore(y) + 1 <= LeapYearsBefore(y + k)
    <3>1. y + 1 <= y + k /\ y + 1 \in Int
      BY <2>4
    <3>2. LeapYearsBefore(y + 1) <= LeapYearsBefore(y + k)
      BY <2>1, <3>1, LeapYearsGrow
    <3>3. LeapYearsBefore(y + 1) = LeapYearsBefore(y) + 1
      BY <2>4, LeapYearCounted
    <3>4. QED BY <3>2, <3>3
  <2>5. QED BY <2>2, <2>3, <2>4
<1>7. Before(y + k, m) - Before(y, m) >= 365 * k
  <2>1. k = 0 => Before(y + k, m) = Before(y, m)
    OBVIOUS
  <2>2. Elapsed[m] \in Int
    BY ElapsedTyped
  <2>3. /\ Intercalary(y, m) \in {0, 1} /\ Intercalary(y + k, m) \in {0, 1}
        /\ Intercalary(y, m) = 1 => Leap(y)
    BY DEF Intercalary
  <2>4. CASE k = 0
    BY <1>3, <2>1, <2>4
  <2>5. CASE k >= 1
    BY <1>6, <2>2, <2>3, <2>5 DEF Before
  <2>6. QED BY <2>4, <2>5
<1>8. QED BY <1>2, <1>3, <1>5, <1>7

\* Twelve months are a year of 365 or 366 days.
LEMMA TwelveMonthsLater ==
    ASSUME NEW y \in Int, NEW m \in 1 .. 12, NEW d \in 1 .. DaysIn(y, m)
    PROVE  DayNumberOf(addMonths(Date(y, m, d), 12)) - (Before(y, m) + d) \in 365 .. 366
<1>1. addMonths(Date(y, m, d), 12) = Existing(y + ((m - 1 + 12) \div 12), ((m - 1 + 12) % 12) + 1, d)
  BY DEF addMonths, Date
<1>2. (m - 1 + 12) \div 12 = 1 /\ ((m - 1 + 12) % 12) + 1 = m
  OBVIOUS
<1>3. addMonths(Date(y, m, d), 12) = Existing(y + 1, m, d)
  BY <1>1, <1>2
<1>4. DaysIn(y, m) \in 28 .. 31 /\ DaysIn(y + 1, m) \in 28 .. 31
  <2>1. y + 1 \in Int
    OBVIOUS
  <2>2. QED BY <2>1, ElapsedTyped
<1>5. y + 1 \in Int /\ d \in Int
  BY <1>4
<1>6. Before(y, m) \in Int /\ Before(y + 1, m) \in Int
  BY <1>5, BeforeTyped
<1>7. DayNumberOf(Existing(y + 1, m, d)) = Before(y + 1, m) + d
  <2>1. CASE ~ d > DaysIn(y + 1, m)
    <3>1. Existing(y + 1, m, d) = Date(y + 1, m, d)
      BY <2>1 DEF Existing
    <3>2. QED BY <1>5, <3>1, DayNumberIs
  <2>2. CASE d > DaysIn(y + 1, m)
    <3>1. m = 2
      BY <2>2 DEF DaysIn
    <3>2. Existing(y + 1, m, d) = Date(y + 1, 3, d - DaysIn(y + 1, 2))
      BY <2>2, <3>1 DEF Existing
    <3>3. d - DaysIn(y + 1, 2) \in Int /\ 3 \in 1 .. 12 /\ 2 \in 1 .. 11 /\ 2 + 1 = 3
      BY <1>4, <3>1
    <3>4. DayNumberOf(Date(y + 1, 3, d - DaysIn(y + 1, 2))) = Before(y + 1, 3) + (d - DaysIn(y + 1, 2))
      BY <1>5, <3>3, DayNumberIs
    <3>5. Before(y + 1, 3) = Before(y + 1, 2) + DaysIn(y + 1, 2)
      BY <1>5, <3>3, MonthFollows
    <3>6. QED BY <1>4, <1>5, <1>6, <3>1, <3>2, <3>4, <3>5
  <2>3. QED BY <2>1, <2>2
<1>8. Before(y + 1, m) - Before(y, m) \in 365 .. 366
  <2>1. Elapsed[m] \in Int
    BY ElapsedTyped
  <2>2. /\ LeapYearsBefore(y) \in Int /\ LeapYearsBefore(1980) \in Int
        /\ LeapYearsBefore(y + 1) = LeapYearsBefore(y) + IF Leap(y) THEN 1 ELSE 0
    BY LeapYearCounted
  <2>3. ~ (Leap(y) /\ Leap(y + 1))
    BY DEF Leap
  <2>4. QED BY <2>1, <2>2, <2>3 DEF Before, Intercalary
<1>9. QED BY <1>3, <1>5, <1>6, <1>7, <1>8

\* The day after a date, by month and day.
LEMMA DayAfter ==
    ASSUME NEW y \in Int, NEW m \in 1 .. 12, NEW d \in 1 .. DaysIn(y, m)
    PROVE  Following(Date(y, m, d))
             = IF d < DaysIn(y, m) THEN Date(y, m, d + 1)
               ELSE IF m = 12 THEN Date(y + 1, 1, 1) ELSE Date(y, m + 1, 1)
<1>1. Following(Date(y, m, d))
        = IF m = 12 /\ d = 31 THEN Date(y + 1, 1, 1)
          ELSE Date(y, NextDay(y, <<m, d>>)[1], NextDay(y, <<m, d>>)[2])
  BY DEF Following, Date
<1>2. DaysIn(y, m) \in 28 .. 31
  BY ElapsedTyped
<1>3. m = 12 => DaysIn(y, m) = 31
  BY DEF DaysIn
<1>4. NextDay(y, <<m, d>>) = IF d < DaysIn(y, m) THEN <<m, d + 1>> ELSE <<m + 1, 1>>
  BY DEF NextDay
<1>5. CASE d < DaysIn(y, m)
  <2>1. NextDay(y, <<m, d>>)[1] = m /\ NextDay(y, <<m, d>>)[2] = d + 1
    BY <1>4, <1>5
  <2>2. ~ (m = 12 /\ d = 31)
    BY <1>2, <1>3, <1>5
  <2>3. QED BY <1>1, <1>5, <2>1, <2>2
<1>6. CASE ~ d < DaysIn(y, m)
  <2>1. NextDay(y, <<m, d>>)[1] = m + 1 /\ NextDay(y, <<m, d>>)[2] = 1
    BY <1>4, <1>6
  <2>2. m = 12 <=> m = 12 /\ d = 31
    BY <1>2, <1>3, <1>6
  <2>3. QED BY <1>1, <1>6, <2>1, <2>2
<1>7. QED BY <1>5, <1>6

\* On whichever day somebody leaves, the terms hold, for any salary, any years of
\* confidentiality and any cure period.
LEMMA TermsAlwaysHold ==
    ASSUME DeadlineDay = 15, NonCompeteMonths = 12,
           ConfidentialityYears \in Nat, CurePeriodDays \in Nat,
           NEW y \in Int, NEW date \in DatesOf(y), NEW amount \in Nat
    PROVE  TermsHold(date, amount)
<1>1. PICK m \in 1 .. 12 : \E d \in 1 .. DaysIn(y, m) : date = Date(y, m, d)
  BY DatesAre
<1>2. PICK d \in 1 .. DaysIn(y, m) : date = Date(y, m, d)
  BY <1>1
<1>3. DaysIn(y, m) \in 28 .. 31
  BY ElapsedTyped
<1> DEFINE days == DaysIn(y, m)
           preview == getSettlementPreview(date, amount)
           later   == getSettlementPreview(Following(date), amount)
           length(until) == DayNumberOf(until) - DayNumberOf(date)
           duties  == buildLegalObligations(date)
<1>4. DayNumberOf(date) = Before(y, m) + d /\ Before(y, m) \in Int
  <2>1. d \in Int
    BY <1>3
  <2>2. QED BY <1>2, <2>1, DayNumberIs, BeforeTyped
<1>5. DayNumberOf(preview.deadline) = Due(y, m, d)
  BY <1>2, DeadlineIs
<1>6. /\ preview.deadline.day = DeadlineDay
      /\ MonthsUntil(date, preview.deadline)
           = IF date.day <= DaysIn(date.year, (date.month % 12) + 1) THEN 1 ELSE 2
  <2>1. date.year = y /\ date.month = m /\ date.day = d
    BY <1>2 DEF Date
  <2>2. /\ preview.deadline.day = DeadlineDay
        /\ MonthsUntil(date, preview.deadline) = IF d <= DaysIn(y, (m % 12) + 1) THEN 1 ELSE 2
    BY <1>2, DueInMonth
  <2> HIDE DEF preview
  <2>3. QED BY <2>1, <2>2
<1>7. DayNumberOf(preview.deadline) <= DayNumberOf(later.deadline)
  <2>1. CASE d < days
    <3>1. Following(date) = Date(y, m, d + 1) /\ d + 1 \in 1 .. DaysIn(y, m)
      BY <1>2, <1>3, <2>1, DayAfter
    <3>2. DayNumberOf(later.deadline) = Due(y, m, d + 1)
      BY <3>1, DeadlineIs
    <3>3. QED BY <1>5, <2>1, <3>2, DueLater
  <2>2. CASE ~ d < days /\ m = 12
    <3>1. Following(date) = Date(y + 1, 1, 1)
      BY <1>2, <2>2, DayAfter
    <3>2. y + 1 \in Int /\ 1 \in 1 .. 12
      OBVIOUS
    <3>3. DaysIn(y + 1, 1) \in 28 .. 31
      BY <3>2, ElapsedTyped
    <3>4. 1 \in 1 .. DaysIn(y + 1, 1)
      BY <3>3
    <3>5. DayNumberOf(later.deadline) = Due(y + 1, 1, 1)
      BY <3>1, <3>2, <3>4, DeadlineIs
    <3>6. QED BY <1>5, <2>2, <3>5, DueLater
  <2>3. CASE ~ d < days /\ m # 12
    <3>1. Following(date) = Date(y, m + 1, 1)
      BY <1>2, <2>3, DayAfter
    <3>2. m + 1 \in 1 .. 12
      BY <2>3
    <3>3. DaysIn(y, m + 1) \in 28 .. 31
      BY <3>2, ElapsedTyped
    <3>4. 1 \in 1 .. DaysIn(y, m + 1)
      BY <3>3
    <3>5. DayNumberOf(later.deadline) = Due(y, m + 1, 1)
      BY <3>1, <3>2, <3>4, DeadlineIs
    <3>6. QED BY <1>5, <2>3, <3>5, DueLater
  <2>4. QED BY <2>1, <2>2, <2>3
<1>8. length(preview.deadline) <= length(later.deadline)
  <2>1. DayNumberOf(preview.deadline) \in Int
    BY <1>5, DueTyped
  <2>2. DayNumberOf(later.deadline) \in Int
    <3>1. Following(date) \in AllDates
      BY FollowingDay DEF AllDates
    <3>2. PICK z \in Int : Following(date) \in DatesOf(z)
      BY <3>1 DEF AllDates
    <3>3. PICK k \in 1 .. 12 : \E c \in 1 .. DaysIn(z, k) : Following(date) = Date(z, k, c)
      BY <3>2, DatesAre
    <3>4. PICK c \in 1 .. DaysIn(z, k) : Following(date) = Date(z, k, c)
      BY <3>3
    <3>5. DayNumberOf(later.deadline) = Due(z, k, c)
      BY <3>4, DeadlineIs
    <3>6. QED BY <3>5, DueTyped
  <2>3. DayNumberOf(date) \in Int
    BY <1>3, <1>4
  <2>4. QED BY <1>7, <2>1, <2>2, <2>3
<1>9. preview.proRata = Part(amount, d, days)
  BY <1>2 DEF getSettlementPreview, Part, Date
<1>10. preview.proRata \in 0 .. amount
  BY <1>3, <1>9, PartGrows
<1>11. IF Following(date).day = 1 THEN preview.proRata = amount
       ELSE preview.proRata <= later.proRata
  <2>1. CASE d < days
    <3>1. Following(date) = Date(y, m, d + 1)
      BY <1>2, <2>1, DayAfter
    <3>2. Following(date).day = d + 1 /\ later.proRata = Part(amount, d + 1, days)
      BY <3>1 DEF getSettlementPreview, Part, Date
    <3>3. d + 1 # 1
      BY <1>3
    <3>4. Part(amount, d, days) <= Part(amount, d + 1, days)
      BY <1>3, PartGrows
    <3>5. QED BY <1>9, <3>2, <3>3, <3>4
  <2>2. CASE ~ d < days
    <3>1. Following(date) = Date(y + 1, 1, 1) \/ Following(date) = Date(y, m + 1, 1)
      BY <1>2, <2>2, DayAfter
    <3>2. Following(date).day = 1
      BY <3>1 DEF Date
    <3>3. d = days
      BY <1>3, <2>2
    <3>4. Part(amount, d, days) = amount
      BY <1>3, <3>3, PartGrows
    <3>5. QED BY <1>9, <3>2, <3>4
  <2>3. QED BY <2>1, <2>2
<1>12. length(duties.confidentiality) >= 365 * ConfidentialityYears
  <2>1. duties.confidentiality = addYears(date, ConfidentialityYears)
    BY DEF buildLegalObligations
  <2>2. QED BY <1>2, <1>4, <2>1, YearsLater
<1>13. length(duties.nonCompete) \in 365 .. 366
  <2>1. duties.nonCompete = addMonths(date, 12)
    BY DEF buildLegalObligations
  <2>2. QED BY <1>2, <1>4, <2>1, TwelveMonthsLater
<1>14. length(curePeriodExpiry(date)) = CurePeriodDays
  <2>1. date \in AllDates
    BY DEF AllDates
  <2>2. DayNumberOf(curePeriodExpiry(date)) = DayNumberOf(date) + CurePeriodDays
    BY <2>1, DaysAdded DEF curePeriodExpiry
  <2>3. DayNumberOf(date) \in Int
    BY <1>3, <1>4
  <2>4. QED BY <2>2, <2>3
<1> HIDE DEF days
<1>15. QED BY <1>6, <1>8, <1>10, <1>11, <1>12, <1>13, <1>14 DEF TermsHold

-----------------------------------------------------------------------------
(* The public holidays.                                                    *)

\* The national holidays in the order in which they are made, the citizens' holiday last.
HolidayMonth == <<1, 2, 2, 4, 5, 5, 5, 8, 11, 11, 3, 9, 1, 7, 9, 10, 9>>
HolidayDay(y) ==
    <<1, 11, 23, 29, 3, 4, 5, 11, 3, 23, vernalEquinoxDay(y), autumnalEquinoxDay(y),
      nthMonday(y, 1, 2), nthMonday(y, 7, 3), respectAged(y), nthMonday(y, 10, 2),
      respectAged(y) + 1>>
Sandwiched(y) == autumnalEquinoxDay(y) - respectAged(y) = 2
HolidayDate(y, i) == <<HolidayMonth[i], HolidayDay(y)[i]>>
HolidayCount(y) == IF Sandwiched(y) THEN 17 ELSE 16
Made(y) == NationalHolidays(y) \o CitizensHoliday(y)

\* A list of n members of a set.
LEMMA ListOf ==
    ASSUME NEW n \in Nat, NEW f, f = [i \in 1 .. n |-> f[i]], NEW A, \A i \in 1 .. n : f[i] \in A
    PROVE  f \in Seq(A) /\ Len(f) = n
<1>1. f \in [1 .. n -> A]
  OBVIOUS
<1>2. QED BY <1>1

\* Two lists of members of a set, one after the other.
LEMMA Joined ==
    ASSUME NEW A, NEW s \in Seq(A), NEW t \in Seq(A)
    PROVE  /\ s \o t \in Seq(A) /\ Len(s \o t) = Len(s) + Len(t)
           /\ \A i \in 1 .. Len(s) + Len(t) :
                (s \o t)[i] = IF i <= Len(s) THEN s[i] ELSE t[i - Len(s)]
OBVIOUS

\* The national holidays, one by one.
LEMMA NationalIs ==
    ASSUME NEW y
    PROVE  /\ \E A : NationalHolidays(y) \in Seq(A)
           /\ Len(NationalHolidays(y)) = 16
           /\ \A i \in 1 .. 16 : NationalHolidays(y)[i] = HolidayDate(y, i)
<1> DEFINE equinoxes == << <<3, vernalEquinoxDay(y)>>, <<9, autumnalEquinoxDay(y)>> >>
           mondays == << <<1, nthMonday(y, 1, 2)>>, <<7, nthMonday(y, 7, 3)>>,
                         <<9, respectAged(y)>>, <<10, nthMonday(y, 10, 2)>> >>
           Listed == {FixedHolidays[i] : i \in 1 .. 10} \cup {equinoxes[i] : i \in 1 .. 2}
                   \cup {mondays[i] : i \in 1 .. 4}
<1>1. NationalHolidays(y) = FixedHolidays \o equinoxes \o mondays
  BY DEF NationalHolidays
<1>2. FixedHolidays = [i \in 1 .. 10 |-> FixedHolidays[i]]
  BY DEF FixedHolidays
<1>3. equinoxes = [i \in 1 .. 2 |-> equinoxes[i]]
  OBVIOUS
<1>4. mondays = [i \in 1 .. 4 |-> mondays[i]]
  OBVIOUS
<1>5. /\ \A i \in 1 .. 10 : FixedHolidays[i] \in Listed
      /\ \A i \in 1 .. 2 : equinoxes[i] \in Listed
      /\ \A i \in 1 .. 4 : mondays[i] \in Listed
  <2> HIDE DEF equinoxes, mondays
  <2>1. QED OBVIOUS
<1>6. \A i \in 1 .. 16 : HolidayDate(y, i) = IF i <= 10 THEN FixedHolidays[i]
                                             ELSE IF i <= 12 THEN equinoxes[i - 10]
                                             ELSE mondays[i - 12]
  <2>1. \A i \in 1 .. 16 : i \in {1, 2, 3, 4, 5, 6, 7, 8, 9, 10, 11, 12, 13, 14, 15, 16}
    OBVIOUS
  <2>2. QED BY <2>1 DEF HolidayDate, HolidayMonth, HolidayDay, FixedHolidays
<1> HIDE DEF equinoxes, mondays, Listed
<1>7. /\ FixedHolidays \in Seq(Listed) /\ Len(FixedHolidays) = 10
      /\ equinoxes \in Seq(Listed) /\ Len(equinoxes) = 2
      /\ mondays \in Seq(Listed) /\ Len(mondays) = 4
  <2>1. 10 \in Nat /\ 2 \in Nat /\ 4 \in Nat
    OBVIOUS
  <2>2. FixedHolidays \in Seq(Listed) /\ Len(FixedHolidays) = 10
    BY <1>2, <1>5, <2>1, ListOf
  <2>3. equinoxes \in Seq(Listed) /\ Len(equinoxes) = 2
    BY <1>3, <1>5, <2>1, ListOf
  <2>4. mondays \in Seq(Listed) /\ Len(mondays) = 4
    BY <1>4, <1>5, <2>1, ListOf
  <2>5. QED BY <2>2, <2>3, <2>4
<1> DEFINE some == FixedHolidays \o equinoxes
<1>8. some \in Seq(Listed) /\ Len(some) = 12
      /\ \A i \in 1 .. 12 : some[i] = IF i <= 10 THEN FixedHolidays[i] ELSE equinoxes[i - 10]
  <2>1. /\ some \in Seq(Listed) /\ Len(some) = Len(FixedHolidays) + Len(equinoxes)
        /\ \A i \in 1 .. Len(FixedHolidays) + Len(equinoxes) :
             some[i] = IF i <= Len(FixedHolidays) THEN FixedHolidays[i]
                       ELSE equinoxes[i - Len(FixedHolidays)]
    BY <1>7, Joined
  <2> HIDE DEF some
  <2>2. QED BY <1>7, <2>1
<1> HIDE DEF some
<1> DEFINE all == some \o mondays
<1>9. all \in Seq(Listed) /\ Len(all) = 16
      /\ \A i \in 1 .. 16 : all[i] = IF i <= 12 THEN some[i] ELSE mondays[i - 12]
  <2>1. /\ all \in Seq(Listed) /\ Len(all) = Len(some) + Len(mondays)
        /\ \A i \in 1 .. Len(some) + Len(mondays) :
             all[i] = IF i <= Len(some) THEN some[i] ELSE mondays[i - Len(some)]
    BY <1>7, <1>8, Joined
  <2> HIDE DEF all
  <2>2. QED BY <1>7, <1>8, <2>1
<1> HIDE DEF all
<1>10. NationalHolidays(y) = all
  BY <1>1 DEF all, some
<1>11. \A i \in 1 .. 16 : all[i] = HolidayDate(y, i)
  <2> SUFFICES ASSUME NEW i \in 1 .. 16 PROVE all[i] = HolidayDate(y, i)
    OBVIOUS
  <2>1. CASE i \in 1 .. 12
    BY <1>6, <1>8, <1>9, <2>1
  <2>2. CASE i \notin 1 .. 12
    <3>1. ~ i <= 12 /\ ~ i <= 10
      BY <2>2
    <3>2. QED BY <1>6, <1>9, <3>1
  <2>3. QED BY <2>1, <2>2
<1>12. QED BY <1>9, <1>10, <1>11

\* The citizens' holiday follows them, if there is one.
LEMMA MadeIs ==
    ASSUME NEW y
    PROVE  /\ \E A : Made(y) \in Seq(A)
           /\ Len(Made(y)) = HolidayCount(y)
           /\ \A i \in 1 .. HolidayCount(y) : Made(y)[i] = HolidayDate(y, i)
<1> DEFINE N == NationalHolidays(y)
<1>1. PICK A : N \in Seq(A)
  BY NationalIs
<1>2. Len(N) = 16 /\ \A i \in 1 .. 16 : N[i] = HolidayDate(y, i)
  BY NationalIs
<1> HIDE DEF N
<1>3. CASE ~ Sandwiched(y)
  <2>1. Made(y) = N \o <<>>
    BY <1>3 DEF Made, N, CitizensHoliday, Sandwiched
  <2>2. Made(y) = N
    BY <1>1, <2>1
  <2>3. QED BY <1>1, <1>2, <1>3, <2>2 DEF HolidayCount
<1>4. CASE Sandwiched(y)
  <2> DEFINE last == <<9, respectAged(y) + 1>>
             C == A \cup {last}
  <2>1. Made(y) = N \o <<last>>
    BY <1>4 DEF Made, N, CitizensHoliday, Sandwiched
  <2>2. HolidayDate(y, 17) = last
    BY DEF HolidayDate, HolidayMonth, HolidayDay
  <2> HIDE DEF last
  <2>3. N \in Seq(C) /\ <<last>> \in Seq(C) /\ Len(<<last>>) = 1 /\ <<last>>[1] = last
    BY <1>1
  <2> HIDE DEF C
  <2>4. /\ N \o <<last>> \in Seq(C) /\ Len(N \o <<last>>) = 17
        /\ \A i \in 1 .. 16 : (N \o <<last>>)[i] = N[i]
        /\ (N \o <<last>>)[17] = last
    <3>1. /\ N \o <<last>> \in Seq(C) /\ Len(N \o <<last>>) = Len(N) + Len(<<last>>)
          /\ \A i \in 1 .. Len(N) + Len(<<last>>) :
               (N \o <<last>>)[i] = IF i <= Len(N) THEN N[i] ELSE <<last>>[i - Len(N)]
      BY <2>3, Joined
    <3>2. /\ N \o <<last>> \in Seq(C) /\ Len(N \o <<last>>) = 17
          /\ \A i \in 1 .. 17 : (N \o <<last>>)[i] = IF i <= 16 THEN N[i] ELSE <<last>>[i - 16]
      BY <1>2, <2>3, <3>1
    <3>3. \A i \in 1 .. 16 : i \in 1 .. 17 /\ i <= 16
      OBVIOUS
    <3>4. 17 \in 1 .. 17 /\ ~ 17 <= 16 /\ 17 - 16 = 1
      OBVIOUS
    <3>5. QED BY <2>3, <3>2, <3>3, <3>4
  <2>5. HolidayCount(y) = 17 /\ \A i \in 1 .. 17 : i \in 1 .. 16 \/ i = 17
    BY <1>4 DEF HolidayCount
  <2>6. QED BY <1>2, <2>1, <2>2, <2>4, <2>5
<1>5. QED BY <1>3, <1>4

\* Days of the week follow one another.
LEMMA WeekdayNext ==
    ASSUME NEW y \in Int, NEW n \in Int
    PROVE  /\ WeekdayOf(y, n) \in 0 .. 6
           /\ WeekdayOf(y, n + 1) = (WeekdayOf(y, n) + 1) % 7
<1> DEFINE c == 1 + 365 * (y - 1980) + LeapYearsBefore(y) - LeapYearsBefore(1980)
<1>1. c \in Int
  <2>1. LeapYearsBefore(y) \in Int /\ LeapYearsBefore(1980) \in Int
    BY LeapYearCounted
  <2>2. QED BY <2>1
<1>2. \A k \in Int : 1 + DayNumber(y, k) = c + k
  <2>1. LeapYearsBefore(y) \in Int /\ LeapYearsBefore(1980) \in Int
    BY LeapYearCounted
  <2>2. QED BY <2>1 DEF DayNumber
<1> HIDE DEF c
<1>3. WeekdayOf(y, n) = (c + n) % 7 /\ WeekdayOf(y, n + 1) = (c + (n + 1)) % 7
  <2>1. n + 1 \in Int
    OBVIOUS
  <2>2. QED BY <1>2, <2>1 DEF WeekdayOf
<1>4. QED BY <1>1, <1>3

\* The n-th Monday of a month is one, and lies in the n-th seven days.
LEMMA MondaysAre ==
    ASSUME NEW y \in Int, NEW m \in 1 .. 12, NEW n \in {2, 3}
    PROVE  /\ nthMonday(y, m, n) \in 7 * n - 6 .. 7 * n
           /\ Weekday(y, <<m, nthMonday(y, m, n)>>) = 1
<1> DEFINE b == Elapsed[m] + Intercalary(y, m)
           c == 1 + 365 * (y - 1980) + LeapYearsBefore(y) - LeapYearsBefore(1980) + b
           w == Weekday(y, <<m, 1>>)
<1>1. b \in Int
  <2>1. Elapsed[m] \in Int /\ Intercalary(y, m) \in Int
    BY ElapsedTyped
  <2>2. QED BY <2>1
<1>2. \A d \in Int : DayOfYear(y, <<m, d>>) = b + d
  <2>1. Elapsed[m] \in Int /\ Intercalary(y, m) \in Int
    BY ElapsedTyped
  <2>2. \A d \in Int : DayOfYear(y, <<m, d>>) = d + Elapsed[m] + Intercalary(y, m)
    BY DayOfYearIs
  <2>3. QED BY <2>1, <2>2
<1> HIDE DEF b
<1>3. c \in Int /\ \A d \in Int : 1 + DayNumber(y, b + d) = c + d
  <2>1. LeapYearsBefore(y) \in Int /\ LeapYearsBefore(1980) \in Int
    BY LeapYearCounted
  <2>2. QED BY <1>1, <2>1 DEF DayNumber
<1> HIDE DEF c
<1>4. \A d \in Int : Weekday(y, <<m, d>>) = (c + d) % 7
  BY <1>2, <1>3 DEF Weekday, WeekdayOf
<1>5. w = (c + 1) % 7
  BY <1>4
<1>6. nthMonday(y, m, n) = 1 + ((8 - w) % 7) + 7 * (n - 1)
  BY DEF nthMonday
<1> HIDE DEF w
<1>7. nthMonday(y, m, n) \in Int
  BY <1>3, <1>5, <1>6
<1>8. nthMonday(y, m, n) \in 7 * n - 6 .. 7 * n
  BY <1>3, <1>5, <1>6
<1>9. (c + nthMonday(y, m, n)) % 7 = 1
  <2>1. \A d \in Int : d = 1 + ((8 - ((c + 1) % 7)) % 7) => (c + d) % 7 = 1
    BY <1>3
  <2>2. nthMonday(y, m, n) = 1 + ((8 - ((c + 1) % 7)) % 7) + 7 * (n - 1)
    BY <1>5, <1>6
  <2>3. \A k \in Int : (k + 7) % 7 = k % 7 /\ (k + 14) % 7 = k % 7
    OBVIOUS
  <2>4. QED BY <1>3, <2>1, <2>2, <2>3
<1>10. QED BY <1>4, <1>7, <1>8, <1>9

\* Where the holidays of a supported year may lie.
LEMMA HolidayRanges ==
    ASSUME NEW y \in SupportedYears
    PROVE  /\ vernalEquinoxDay(y) \in 19 .. 21 /\ autumnalEquinoxDay(y) \in 22 .. 23
           /\ nthMonday(y, 1, 2) \in 8 .. 14 /\ nthMonday(y, 7, 3) \in 15 .. 21
           /\ respectAged(y) \in 15 .. 21 /\ nthMonday(y, 10, 2) \in 8 .. 14
           /\ Weekday(y, <<1, nthMonday(y, 1, 2)>>) = 1
           /\ Weekday(y, <<7, nthMonday(y, 7, 3)>>) = 1
           /\ Weekday(y, <<9, respectAged(y)>>) = 1
           /\ Weekday(y, <<10, nthMonday(y, 10, 2)>>) = 1
<1>1. y \in 1980 .. 2099
  BY DEF SupportedYears
<1>2. vernalEquinoxDay(y) \in 19 .. 21
  BY <1>1 DEF vernalEquinoxDay
<1>3. autumnalEquinoxDay(y) \in 22 .. 23
  BY <1>1 DEF autumnalEquinoxDay
<1>4. /\ y \in Int /\ 1 \in 1 .. 12 /\ 7 \in 1 .. 12 /\ 9 \in 1 .. 12 /\ 10 \in 1 .. 12
      /\ 2 \in {2, 3} /\ 3 \in {2, 3}
  BY <1>1
<1>5. /\ nthMonday(y, 1, 2) \in 7 * 2 - 6 .. 7 * 2 /\ nthMonday(y, 7, 3) \in 7 * 3 - 6 .. 7 * 3
      /\ nthMonday(y, 9, 3) \in 7 * 3 - 6 .. 7 * 3 /\ nthMonday(y, 10, 2) \in 7 * 2 - 6 .. 7 * 2
  BY <1>4, MondaysAre
<1>6. /\ nthMonday(y, 1, 2) \in 8 .. 14 /\ nthMonday(y, 7, 3) \in 15 .. 21
      /\ nthMonday(y, 9, 3) \in 15 .. 21 /\ nthMonday(y, 10, 2) \in 8 .. 14
  BY <1>5
<1>7. /\ Weekday(y, <<1, nthMonday(y, 1, 2)>>) = 1
      /\ Weekday(y, <<7, nthMonday(y, 7, 3)>>) = 1
      /\ Weekday(y, <<9, nthMonday(y, 9, 3)>>) = 1
      /\ Weekday(y, <<10, nthMonday(y, 10, 2)>>) = 1
  BY <1>4, MondaysAre
<1>8. QED BY <1>2, <1>3, <1>6, <1>7 DEF respectAged

\* The day of the year a holiday falls on.
HolidayOrdinal(y, i) == DayOfYear(y, HolidayDate(y, i))

\* The holidays as a table: leap is 1 in leap years, v and a are the equinoxes, and
\* c, m, r, s the four holidays on Mondays.
HolidayTable(i, n, leap, v, a, c, m, r, s) ==
    /\ i \in 1 .. 17 /\ n \in Int
    /\ (i = 1 => n = 1)                  /\ (i = 2 => n = 42)
    /\ (i = 3 => n = 54)                 /\ (i = 4 => n = 119 + leap)
    /\ (i = 5 => n = 123 + leap)         /\ (i = 6 => n = 124 + leap)
    /\ (i = 7 => n = 125 + leap)         /\ (i = 8 => n = 223 + leap)
    /\ (i = 9 => n = 307 + leap)         /\ (i = 10 => n = 327 + leap)
    /\ (i = 11 => n = 59 + leap + v)     /\ (i = 12 => n = 243 + leap + a)
    /\ (i = 13 => n = c)                 /\ (i = 14 => n = 181 + leap + m)
    /\ (i = 15 => n = 243 + leap + r)    /\ (i = 16 => n = 273 + leap + s)
    /\ (i = 17 => n = 244 + leap + r /\ a = r + 2)

\* Every holiday is in the table.
LEMMA HolidaysTabled ==
    ASSUME NEW y \in SupportedYears
    PROVE  \E leap \in 0 .. 1, v \in 19 .. 21, a \in 22 .. 23, c, s \in 8 .. 14, m, r \in 15 .. 21 :
             \A i \in 1 .. HolidayCount(y) :
               HolidayTable(i, HolidayOrdinal(y, i), leap, v, a, c, m, r, s)
<1> DEFINE leap == Intercalary(y, 3)
           v == vernalEquinoxDay(y)
           a == autumnalEquinoxDay(y)
           c == nthMonday(y, 1, 2)
           m == nthMonday(y, 7, 3)
           r == respectAged(y)
           s == nthMonday(y, 10, 2)
<1>1. y \in Int
  BY DEF SupportedYears
<1>2. /\ v \in 19 .. 21 /\ a \in 22 .. 23 /\ c \in 8 .. 14 /\ m \in 15 .. 21
      /\ r \in 15 .. 21 /\ s \in 8 .. 14
  BY HolidayRanges
<1>3. leap \in 0 .. 1
  BY DEF Intercalary
<1>4. \A i \in 1 .. HolidayCount(y) : i = 17 => a = r + 2
  BY <1>2 DEF HolidayCount, Sandwiched
<1> HIDE DEF v, a, c, m, r, s
<1>5. HolidayDay(y) = <<1, 11, 23, 29, 3, 4, 5, 11, 3, 23, v, a, c, m, r, s, r + 1>>
  BY DEF HolidayDay, v, a, c, m, r, s
<1>6. \A k \in 1 .. 12, d \in Int : DayOfYear(y, <<k, d>>) = d + Elapsed[k] + Intercalary(y, k)
  BY <1>1, DayOfYearIs
<1>7. Intercalary(y, 1) = 0 /\ Intercalary(y, 2) = 0 /\ \A k \in 3 .. 12 : Intercalary(y, k) = leap
  BY DEF Intercalary
<1> HIDE DEF leap
<1>8. \A k \in 1 .. 12, d \in Int :
        DayOfYear(y, <<k, d>>) = d + Elapsed[k] + IF k <= 2 THEN 0 ELSE leap
  <2>1. \A k \in 1 .. 12 : k = 1 \/ k = 2 \/ k \in 3 .. 12
    OBVIOUS
  <2>2. \A k \in 1 .. 12 : Intercalary(y, k) = IF k <= 2 THEN 0 ELSE leap
    BY <1>7, <2>1
  <2>3. QED BY <1>6, <2>2
<1>9. ASSUME NEW i \in 1 .. HolidayCount(y)
      PROVE  HolidayTable(i, HolidayOrdinal(y, i), leap, v, a, c, m, r, s)
  <2>1. i \in {1, 2, 3, 4, 5, 6, 7, 8, 9, 10, 11, 12, 13, 14, 15, 16, 17}
    BY DEF HolidayCount
  <2>2. HolidayOrdinal(y, i) = DayOfYear(y, <<HolidayMonth[i], HolidayDay(y)[i]>>)
    BY DEF HolidayOrdinal, HolidayDate
  <2>3. HolidayMonth[i] \in 1 .. 12 /\ HolidayDay(y)[i] \in Int
    BY <1>2, <1>5, <2>1 DEF HolidayMonth
  <2>4. HolidayOrdinal(y, i) = HolidayDay(y)[i] + Elapsed[HolidayMonth[i]]
                                + IF HolidayMonth[i] <= 2 THEN 0 ELSE leap
    BY <1>8, <2>2, <2>3
  <2>5. i = 17 => a = r + 2
    BY <1>4
  <2>6. CASE i \in {1, 2, 3, 4, 5, 6, 7, 8, 9, 10}
    BY <1>3, <1>5, <2>4, <2>6 DEF HolidayTable, HolidayMonth, Elapsed
  <2>7. CASE i \in {11, 12, 13, 14, 15, 16, 17}
    BY <1>2, <1>3, <1>5, <2>4, <2>5, <2>7 DEF HolidayTable, HolidayMonth, Elapsed
  <2>8. QED BY <2>1, <2>6, <2>7
<1>10. QED BY <1>2, <1>3, <1>9

\* No two holidays meet; those of 3, 4 and 5 May follow one another, and otherwise
\* only a Monday or the day after it is before a holiday; and only the autumnal
\* equinox comes two days after a holiday with none of May between them.
LEMMA OrdinalsApart ==
    ASSUME NEW y \in SupportedYears,
           NEW i \in 1 .. HolidayCount(y), NEW j \in 1 .. HolidayCount(y)
    PROVE  /\ HolidayOrdinal(y, i) \in 1 .. 328
           /\ HolidayOrdinal(y, i) = HolidayOrdinal(y, j) => i = j
           /\ HolidayOrdinal(y, j) = HolidayOrdinal(y, i) + 1
                => (i = 5 /\ j = 6) \/ (i = 6 /\ j = 7) \/ i = 15 \/ i = 17
           /\ HolidayOrdinal(y, j) = HolidayOrdinal(y, i) + 2
                => (i = 5 /\ j = 7) \/ (i = 15 /\ j = 12)
           /\ i = 17 => HolidayOrdinal(y, 17) = HolidayOrdinal(y, 15) + 1
           /\ i = 17 => HolidayOrdinal(y, 12) = HolidayOrdinal(y, 15) + 2
<1>1. PICK leap \in 0 .. 1, v \in 19 .. 21, a \in 22 .. 23, c, s \in 8 .. 14, m, r \in 15 .. 21 :
             \A k \in 1 .. HolidayCount(y) :
               HolidayTable(k, HolidayOrdinal(y, k), leap, v, a, c, m, r, s)
  BY HolidaysTabled
<1> DEFINE p == HolidayOrdinal(y, i)
           q == HolidayOrdinal(y, j)
<1>2. HolidayTable(i, p, leap, v, a, c, m, r, s) /\ HolidayTable(j, q, leap, v, a, c, m, r, s)
  BY <1>1
<1> HIDE DEF p, q
<1>3. p \in 1 .. 328 /\ q \in 1 .. 328
  BY <1>2 DEF HolidayTable
<1>4. p = q => i = j
  BY <1>2, <1>3 DEF HolidayTable
<1>5. q = p + 1 => (i = 5 /\ j = 6) \/ (i = 6 /\ j = 7) \/ i = 15 \/ i = 17
  BY <1>2, <1>3 DEF HolidayTable
<1>6. q = p + 2 => (i = 5 /\ j = 7) \/ (i = 15 /\ j = 12)
  BY <1>2, <1>3 DEF HolidayTable
<1>7. ASSUME i = 17
      PROVE  HolidayOrdinal(y, 17) = HolidayOrdinal(y, 15) + 1
             /\ HolidayOrdinal(y, 12) = HolidayOrdinal(y, 15) + 2
  <2>1. 12 \in 1 .. HolidayCount(y) /\ 15 \in 1 .. HolidayCount(y) /\ 17 \in 1 .. HolidayCount(y)
    BY <1>7 DEF HolidayCount
  <2>2. /\ HolidayTable(12, HolidayOrdinal(y, 12), leap, v, a, c, m, r, s)
        /\ HolidayTable(15, HolidayOrdinal(y, 15), leap, v, a, c, m, r, s)
        /\ HolidayTable(17, HolidayOrdinal(y, 17), leap, v, a, c, m, r, s)
    BY <1>1, <2>1
  <2>3. QED BY <2>2 DEF HolidayTable
<1>8. QED BY <1>3, <1>4, <1>5, <1>6, <1>7 DEF p, q

Pairs == Int \X Int
OnSunday(y, i) == Weekday(y, HolidayDate(y, i)) = 0
\* The substitute of a holiday on a Sunday.
LaterDay(y, i) == IF i \in {5, 6, 7} THEN <<5, 6>> ELSE NextDay(y, HolidayDate(y, i))

\* A holiday is a day of a month that goes on.
LEMMA HolidaysDated ==
    ASSUME NEW y \in SupportedYears, NEW i \in 1 .. HolidayCount(y)
    PROVE  /\ HolidayDate(y, i) \in Pairs
           /\ HolidayDate(y, i)[1] \in 1 .. 12
           /\ NextDay(y, HolidayDate(y, i)) = <<HolidayDate(y, i)[1], HolidayDate(y, i)[2] + 1>>
<1>1. /\ vernalEquinoxDay(y) \in 19 .. 21 /\ autumnalEquinoxDay(y) \in 22 .. 23
      /\ nthMonday(y, 1, 2) \in 8 .. 14 /\ nthMonday(y, 7, 3) \in 15 .. 21
      /\ respectAged(y) \in 15 .. 21 /\ nthMonday(y, 10, 2) \in 8 .. 14
  BY HolidayRanges
<1>2. i \in {1, 2, 3, 4, 5, 6, 7, 8, 9, 10, 11, 12, 13, 14, 15, 16, 17}
  BY DEF HolidayCount
<1>3. HolidayMonth[i] \in 1 .. 12 /\ HolidayDay(y)[i] \in 1 .. 29
      /\ (HolidayMonth[i] = 2 => HolidayDay(y)[i] \in 1 .. 27)
  BY <1>1, <1>2 DEF HolidayMonth, HolidayDay
<1>4. HolidayDay(y)[i] < DaysIn(y, HolidayMonth[i])
  BY <1>3 DEF DaysIn
<1>5. HolidayDate(y, i)[1] = HolidayMonth[i] /\ HolidayDate(y, i)[2] = HolidayDay(y)[i]
  BY DEF HolidayDate
<1>6. HolidayDate(y, i) \in Pairs
  BY <1>3 DEF HolidayDate, Pairs
<1>7. QED BY <1>3, <1>4, <1>5, <1>6 DEF NextDay

\* The day after is a day later in the year.
LEMMA OrdinalNext ==
    ASSUME NEW y \in SupportedYears, NEW i \in 1 .. HolidayCount(y)
    PROVE  /\ NextDay(y, HolidayDate(y, i)) \in Pairs
           /\ DayOfYear(y, NextDay(y, HolidayDate(y, i))) = HolidayOrdinal(y, i) + 1
<1> DEFINE m == HolidayDate(y, i)[1]
           d == HolidayDate(y, i)[2]
<1>1. HolidayDate(y, i) = <<m, d>> /\ m \in 1 .. 12 /\ d \in Int
      /\ NextDay(y, HolidayDate(y, i)) = <<m, d + 1>>
  BY HolidaysDated DEF Pairs
<1> HIDE DEF m, d
<1>2. y \in Int /\ d + 1 \in Int
  BY <1>1 DEF SupportedYears
<1>3. DayOfYear(y, <<m, d>>) = d + Elapsed[m] + Intercalary(y, m)
  BY <1>1, <1>2, DayOfYearIs
<1>4. DayOfYear(y, <<m, d + 1>>) = (d + 1) + Elapsed[m] + Intercalary(y, m)
  BY <1>1, <1>2, DayOfYearIs
<1>5. Elapsed[m] \in Int /\ Intercalary(y, m) \in Int
  BY <1>1, <1>2, ElapsedTyped
<1>6. <<m, d + 1>> \in Pairs
  BY <1>1, <1>2 DEF Pairs
<1>7. QED BY <1>1, <1>3, <1>4, <1>5, <1>6 DEF HolidayOrdinal

\* 3, 4, 5 and 6 May.
LEMMA DaysOfMay ==
    ASSUME NEW y \in SupportedYears
    PROVE  /\ 5 \in 1 .. HolidayCount(y) /\ 6 \in 1 .. HolidayCount(y) /\ 7 \in 1 .. HolidayCount(y)
           /\ NextDay(y, HolidayDate(y, 5)) = HolidayDate(y, 6)
           /\ NextDay(y, HolidayDate(y, 6)) = HolidayDate(y, 7)
           /\ NextDay(y, HolidayDate(y, 7)) = <<5, 6>>
           /\ HolidayOrdinal(y, 6) = HolidayOrdinal(y, 5) + 1
           /\ HolidayOrdinal(y, 7) = HolidayOrdinal(y, 6) + 1
           /\ DayOfYear(y, <<5, 6>>) = HolidayOrdinal(y, 7) + 1
<1>1. 5 \in 1 .. HolidayCount(y) /\ 6 \in 1 .. HolidayCount(y) /\ 7 \in 1 .. HolidayCount(y)
  BY DEF HolidayCount
<1>2. /\ HolidayDate(y, 5) = <<5, 3>> /\ HolidayDate(y, 6) = <<5, 4>> /\ HolidayDate(y, 7) = <<5, 5>>
  BY DEF HolidayDate, HolidayMonth, HolidayDay
<1>3. DaysIn(y, 5) = 31
  BY DEF DaysIn
<1>4. /\ NextDay(y, <<5, 3>>) = <<5, 4>> /\ NextDay(y, <<5, 4>>) = <<5, 5>>
      /\ NextDay(y, <<5, 5>>) = <<5, 6>>
  BY <1>3 DEF NextDay
<1>5. /\ DayOfYear(y, NextDay(y, HolidayDate(y, 5))) = HolidayOrdinal(y, 5) + 1
      /\ DayOfYear(y, NextDay(y, HolidayDate(y, 6))) = HolidayOrdinal(y, 6) + 1
      /\ DayOfYear(y, NextDay(y, HolidayDate(y, 7))) = HolidayOrdinal(y, 7) + 1
  BY <1>1, OrdinalNext
<1>6. QED BY <1>1, <1>2, <1>4, <1>5 DEF HolidayOrdinal

\* The substitute, by the day of the year.
LEMMA LaterOrdinal ==
    ASSUME NEW y \in SupportedYears, NEW i \in 1 .. HolidayCount(y)
    PROVE  /\ LaterDay(y, i) \in Pairs
           /\ DayOfYear(y, LaterDay(y, i))
                = IF i \in {5, 6, 7} THEN HolidayOrdinal(y, 7) + 1 ELSE HolidayOrdinal(y, i) + 1
<1>1. CASE i \in {5, 6, 7}
  <2>1. LaterDay(y, i) = <<5, 6>>
    BY <1>1 DEF LaterDay
  <2>2. <<5, 6>> \in Pairs
    BY DEF Pairs
  <2>3. QED BY <1>1, <2>1, <2>2, DaysOfMay
<1>2. CASE i \notin {5, 6, 7}
  <2>1. LaterDay(y, i) = NextDay(y, HolidayDate(y, i))
    BY <1>2 DEF LaterDay
  <2>2. QED BY <1>2, <2>1, OrdinalNext
<1>3. QED BY <1>1, <1>2

\* A holiday on a Sunday is not one before the autumnal equinox, and only one of
\* 3, 4 and 5 May is.
LEMMA SundaysApart ==
    ASSUME NEW y \in SupportedYears
    PROVE  /\ \A i \in 1 .. HolidayCount(y) : OnSunday(y, i) => i # 15 /\ i # 17
           /\ \A i, j \in {5, 6, 7} : OnSunday(y, i) /\ OnSunday(y, j) => i = j
<1>1. y \in Int
  BY DEF SupportedYears
<1>2. \A i \in 1 .. HolidayCount(y) : OnSunday(y, i) <=> WeekdayOf(y, HolidayOrdinal(y, i)) = 0
  BY DEF OnSunday, Weekday, HolidayOrdinal
<1>3. \A n \in Int : /\ WeekdayOf(y, n) \in 0 .. 6
                     /\ WeekdayOf(y, n + 1) = (WeekdayOf(y, n) + 1) % 7
  BY <1>1, WeekdayNext
<1>4. ~ OnSunday(y, 15)
  <2>1. HolidayDate(y, 15) = <<9, respectAged(y)>>
    BY DEF HolidayDate, HolidayMonth, HolidayDay
  <2>2. Weekday(y, HolidayDate(y, 15)) = 1
    BY <2>1, HolidayRanges
  <2>3. QED BY <2>2 DEF OnSunday
<1>5. 17 \in 1 .. HolidayCount(y) => ~ OnSunday(y, 17)
  <2> SUFFICES ASSUME 17 \in 1 .. HolidayCount(y) PROVE ~ OnSunday(y, 17)
    OBVIOUS
  <2>1. 15 \in 1 .. HolidayCount(y)
    BY DEF HolidayCount
  <2>2. NextDay(y, HolidayDate(y, 15)) = HolidayDate(y, 17)
    <3>1. HolidayDate(y, 15) = <<9, respectAged(y)>> /\ HolidayDate(y, 17) = <<9, respectAged(y) + 1>>
      BY DEF HolidayDate, HolidayMonth, HolidayDay
    <3>2. QED BY <2>1, <3>1, HolidaysDated
  <2>3. HolidayOrdinal(y, 17) = HolidayOrdinal(y, 15) + 1
    BY <2>1, <2>2, OrdinalNext DEF HolidayOrdinal
  <2>4. HolidayOrdinal(y, 15) \in Int
    <3>1. HolidayOrdinal(y, 15) \in 1 .. 328
      BY <2>1, OrdinalsApart
    <3>2. QED BY <3>1
  <2>5. WeekdayOf(y, HolidayOrdinal(y, 15)) = 1
    <3>1. HolidayDate(y, 15) = <<9, respectAged(y)>>
      BY DEF HolidayDate, HolidayMonth, HolidayDay
    <3>2. Weekday(y, HolidayDate(y, 15)) = 1
      BY <3>1, HolidayRanges
    <3>3. QED BY <3>2 DEF Weekday, HolidayOrdinal
  <2>6. WeekdayOf(y, HolidayOrdinal(y, 17)) = (1 + 1) % 7
    BY <1>3, <2>3, <2>4, <2>5
  <2>7. QED BY <1>2, <2>6
<1>6. HolidayOrdinal(y, 5) \in Int
  <2>1. 5 \in 1 .. HolidayCount(y)
    BY DEF HolidayCount
  <2>2. HolidayOrdinal(y, 5) \in 1 .. 328
    BY <2>1, OrdinalsApart
  <2>3. QED BY <2>2
<1> DEFINE w == WeekdayOf(y, HolidayOrdinal(y, 5))
<1>7. /\ HolidayOrdinal(y, 6) = HolidayOrdinal(y, 5) + 1
      /\ HolidayOrdinal(y, 7) = HolidayOrdinal(y, 6) + 1
  BY DaysOfMay
<1>8. /\ w \in 0 .. 6 /\ WeekdayOf(y, HolidayOrdinal(y, 6)) = (w + 1) % 7
      /\ WeekdayOf(y, HolidayOrdinal(y, 7)) = (((w + 1) % 7) + 1) % 7
  <2>1. HolidayOrdinal(y, 6) \in Int
    BY <1>6, <1>7
  <2>2. w \in 0 .. 6 /\ WeekdayOf(y, HolidayOrdinal(y, 6)) = (w + 1) % 7
    BY <1>3, <1>6, <1>7
  <2>3. QED BY <1>3, <1>7, <2>1, <2>2
<1>9. /\ OnSunday(y, 5) <=> w = 0
      /\ OnSunday(y, 6) <=> WeekdayOf(y, HolidayOrdinal(y, 6)) = 0
      /\ OnSunday(y, 7) <=> WeekdayOf(y, HolidayOrdinal(y, 7)) = 0
  BY <1>2, DaysOfMay
<1> HIDE DEF w
<1>10. \A i, j \in {5, 6, 7} : OnSunday(y, i) /\ OnSunday(y, j) => i = j
  BY <1>8, <1>9
<1>11. QED BY <1>4, <1>5, <1>10

\* Two days after the third Monday of September comes the equinox only if the day
\* between is made a holiday.
LEMMA CitizensDay ==
    ASSUME NEW y \in SupportedYears, HolidayOrdinal(y, 12) = HolidayOrdinal(y, 15) + 2
    PROVE  17 \in 1 .. HolidayCount(y) /\ HolidayOrdinal(y, 17) = HolidayOrdinal(y, 15) + 1
<1>1. /\ HolidayDate(y, 12) = <<9, autumnalEquinoxDay(y)>>
      /\ HolidayDate(y, 15) = <<9, respectAged(y)>>
  BY DEF HolidayDate, HolidayMonth, HolidayDay
<1>2. /\ autumnalEquinoxDay(y) \in Int /\ respectAged(y) \in Int /\ y \in Int /\ 9 \in 1 .. 12
  <2>1. autumnalEquinoxDay(y) \in 22 .. 23 /\ respectAged(y) \in 15 .. 21
    BY HolidayRanges
  <2>2. QED BY <2>1 DEF SupportedYears
<1>3. Elapsed[9] \in Int /\ Intercalary(y, 9) \in Int
  BY <1>2, ElapsedTyped
<1>4. /\ HolidayOrdinal(y, 12) = autumnalEquinoxDay(y) + Elapsed[9] + Intercalary(y, 9)
      /\ HolidayOrdinal(y, 15) = respectAged(y) + Elapsed[9] + Intercalary(y, 9)
  <2>1. DayOfYear(y, <<9, autumnalEquinoxDay(y)>>)
          = autumnalEquinoxDay(y) + Elapsed[9] + Intercalary(y, 9)
    BY <1>2, DayOfYearIs
  <2>2. DayOfYear(y, <<9, respectAged(y)>>) = respectAged(y) + Elapsed[9] + Intercalary(y, 9)
    BY <1>2, DayOfYearIs
  <2>3. QED BY <1>1, <2>1, <2>2 DEF HolidayOrdinal
<1>5. Sandwiched(y)
  BY <1>2, <1>3, <1>4 DEF Sandwiched
<1>6. 17 \in 1 .. HolidayCount(y)
  BY <1>5 DEF HolidayCount
<1>7. QED BY <1>6, OrdinalsApart

FirstFree(y, d, holidays) == IF d \in holidays THEN NextDay(y, d) ELSE d
FreeOver(h, y, date, holidays) ==
    h = [U \in SUBSET (1 .. 5) |->
           IF U = {} THEN NextDay(y, date) ELSE FirstFree(y, h[U \ {Max(U)}], holidays)]

\* Substitute is the fold that tries five days.
LEMMA SubstituteChosen ==
    ASSUME NEW y, NEW date, NEW holidays
    PROVE  Substitute(y, date, holidays) = (CHOOSE h : FreeOver(h, y, date, holidays))[1 .. 5]
<1>1. DOMAIN <<1, 2, 3, 4, 5>> = 1 .. 5
  OBVIOUS
<1>2. QED BY <1>1 DEF Substitute, FoldLeft, MapThenFoldSet, FreeOver, FirstFree

\* The day after a pair is a pair.
LEMMA PairsFollow == \A y \in Int, d \in Pairs : NextDay(y, d) \in Pairs
BY DEF Pairs, NextDay

\* The days tried.
LEMMA SubstituteTries ==
    ASSUME NEW y \in Int, NEW date \in Pairs, NEW holidays
    PROVE  \E d \in [0 .. 5 -> Pairs] :
             /\ d[0] = NextDay(y, date) /\ d[5] = Substitute(y, date, holidays)
             /\ \A k \in 1 .. 5 : d[k] = FirstFree(y, d[k - 1], holidays)
<1> DEFINE n == 5
           step == [i \in 1 .. n |-> [d \in Pairs |-> FirstFree(y, d, holidays)]]
<1>1. n \in Nat /\ NextDay(y, date) \in Pairs
  BY PairsFollow
<1>2. \A i \in 1 .. n, d \in Pairs : step[i][d] = FirstFree(y, d, holidays) /\ step[i][d] \in Pairs
  BY PairsFollow DEF FirstFree
<1>3. Stays(step, n, Pairs)
  BY <1>2 DEF Stays
<1> HIDE DEF n, step
<1>4. PICK h : LeftFolds(h, n, NextDay(y, date), step) /\ AllIn(h, n, Pairs)
  BY <1>1, <1>3, LeftFold
<1>5. ASSUME NEW U \in SUBSET (1 .. n), U # {}
      PROVE  step[Max(U)][h[U \ {Max(U)}]] = FirstFree(y, h[U \ {Max(U)}], holidays)
  <2>1. Max(U) \in 1 .. n
    BY <1>1, <1>5, LargestPicks
  <2>2. h[U \ {Max(U)}] \in Pairs
    BY <1>4 DEF AllIn
  <2>3. QED BY <1>2, <2>1, <2>2
<1>6. h = [U \in SUBSET (1 .. n) |->
             IF U = {} THEN NextDay(y, date) ELSE FirstFree(y, h[U \ {Max(U)}], holidays)]
  BY <1>4, <1>5 DEF LeftFolds
<1>7. FreeOver(h, y, date, holidays)
  BY <1>6 DEF FreeOver, n
<1> DEFINE g == CHOOSE f : FreeOver(f, y, date, holidays)
<1>8. FreeOver(g, y, date, holidays)
  BY <1>7
<1>9. Substitute(y, date, holidays) = g[1 .. 5]
  BY SubstituteChosen
<1> HIDE DEF g
<1> DEFINE d == [k \in 0 .. 5 |-> g[1 .. k]]
<1>10. \A k \in 1 .. 5 : g[1 .. k] = FirstFree(y, g[1 .. k - 1], holidays)
  <2> SUFFICES ASSUME NEW k \in 1 .. 5
               PROVE  g[1 .. k] = FirstFree(y, g[1 .. k - 1], holidays)
    OBVIOUS
  <2>1. Max(1 .. k) = k /\ (1 .. k) \ {k} = 1 .. k - 1 /\ 1 .. k \in SUBSET (1 .. 5) /\ 1 .. k # {}
    BY <1>1, LargestPicks DEF n
  <2>2. QED BY <1>8, <2>1 DEF FreeOver
<1>11. g[1 .. 0] = NextDay(y, date)
  <2>1. 1 .. 0 = {} /\ {} \in SUBSET (1 .. 5)
    OBVIOUS
  <2>2. QED BY <1>8, <2>1 DEF FreeOver
<1>12. \A k \in 0 .. 5 : g[1 .. k] \in Pairs
  <2>1. \A p \in Pairs : FirstFree(y, p, holidays) \in Pairs
    BY PairsFollow DEF FirstFree
  <2>2. g[1 .. 0] \in Pairs
    BY <1>1, <1>11
  <2>3. g[1 .. 1] \in Pairs
    BY <1>10, <2>1, <2>2
  <2>4. g[1 .. 2] \in Pairs
    BY <1>10, <2>1, <2>3
  <2>5. g[1 .. 3] \in Pairs
    BY <1>10, <2>1, <2>4
  <2>6. g[1 .. 4] \in Pairs
    BY <1>10, <2>1, <2>5
  <2>7. g[1 .. 5] \in Pairs
    BY <1>10, <2>1, <2>6
  <2>8. \A k \in 0 .. 5 : k \in {0, 1, 2, 3, 4, 5}
    OBVIOUS
  <2>9. QED BY <2>2, <2>3, <2>4, <2>5, <2>6, <2>7, <2>8
<1>13. /\ d[0] = NextDay(y, date) /\ d[5] = g[1 .. 5] /\ d \in [0 .. 5 -> Pairs]
       /\ \A k \in 1 .. 5 : d[k] = FirstFree(y, d[k - 1], holidays)
  <2>1. \A k \in 0 .. 5 : d[k] = g[1 .. k]
    OBVIOUS
  <2>2. d \in [0 .. 5 -> Pairs]
    BY <1>12
  <2>3. 0 \in 0 .. 5 /\ 5 \in 0 .. 5 /\ \A k \in 1 .. 5 : k \in 0 .. 5 /\ k - 1 \in 0 .. 5
    OBVIOUS
  <2> HIDE DEF d
  <2>4. QED BY <1>10, <1>11, <2>1, <2>2, <2>3
<1> HIDE DEF d
<1>14. QED BY <1>9, <1>13

\* The substitute is a pair.
LEMMA SubstituteTyped ==
    ASSUME NEW y \in Int, NEW date \in Pairs, NEW holidays
    PROVE  Substitute(y, date, holidays) \in Pairs
<1>1. PICK d \in [0 .. 5 -> Pairs] : d[5] = Substitute(y, date, holidays)
  BY SubstituteTries
<1>2. 5 \in 0 .. 5
  OBVIOUS
<1>3. QED BY <1>1, <1>2

\* The day after is free.
LEMMA FreeAfterOne ==
    ASSUME NEW y \in Int, NEW date \in Pairs, NEW holidays, NextDay(y, date) \notin holidays
    PROVE  Substitute(y, date, holidays) = NextDay(y, date)
<1>1. PICK d \in [0 .. 5 -> Pairs] :
             /\ d[0] = NextDay(y, date) /\ d[5] = Substitute(y, date, holidays)
             /\ \A k \in 1 .. 5 : d[k] = FirstFree(y, d[k - 1], holidays)
  BY SubstituteTries
<1>2. /\ d[1] = FirstFree(y, d[0], holidays) /\ d[2] = FirstFree(y, d[1], holidays)
      /\ d[3] = FirstFree(y, d[2], holidays) /\ d[4] = FirstFree(y, d[3], holidays)
      /\ d[5] = FirstFree(y, d[4], holidays)
  BY <1>1
<1>3. QED BY <1>1, <1>2 DEF FirstFree

\* The second day after is the first that is free.
LEMMA FreeAfterTwo ==
    ASSUME NEW y \in Int, NEW date \in Pairs, NEW holidays, NextDay(y, date) \in holidays,
           NextDay(y, NextDay(y, date)) \notin holidays
    PROVE  Substitute(y, date, holidays) = NextDay(y, NextDay(y, date))
<1>1. PICK d \in [0 .. 5 -> Pairs] :
             /\ d[0] = NextDay(y, date) /\ d[5] = Substitute(y, date, holidays)
             /\ \A k \in 1 .. 5 : d[k] = FirstFree(y, d[k - 1], holidays)
  BY SubstituteTries
<1>2. /\ d[1] = FirstFree(y, d[0], holidays) /\ d[2] = FirstFree(y, d[1], holidays)
      /\ d[3] = FirstFree(y, d[2], holidays) /\ d[4] = FirstFree(y, d[3], holidays)
      /\ d[5] = FirstFree(y, d[4], holidays)
  BY <1>1
<1>3. QED BY <1>1, <1>2 DEF FirstFree

\* The third day after is the first that is free.
LEMMA FreeAfterThree ==
    ASSUME NEW y \in Int, NEW date \in Pairs, NEW holidays, NextDay(y, date) \in holidays,
           NextDay(y, NextDay(y, date)) \in holidays,
           NextDay(y, NextDay(y, NextDay(y, date))) \notin holidays
    PROVE  Substitute(y, date, holidays) = NextDay(y, NextDay(y, NextDay(y, date)))
<1>1. PICK d \in [0 .. 5 -> Pairs] :
             /\ d[0] = NextDay(y, date) /\ d[5] = Substitute(y, date, holidays)
             /\ \A k \in 1 .. 5 : d[k] = FirstFree(y, d[k - 1], holidays)
  BY SubstituteTries
<1>2. /\ d[1] = FirstFree(y, d[0], holidays) /\ d[2] = FirstFree(y, d[1], holidays)
      /\ d[3] = FirstFree(y, d[2], holidays) /\ d[4] = FirstFree(y, d[3], holidays)
      /\ d[5] = FirstFree(y, d[4], holidays)
  BY <1>1
<1>3. QED BY <1>1, <1>2 DEF FirstFree

AllMade(y) == {HolidayDate(y, i) : i \in 1 .. HolidayCount(y)}
\* The substitutes of the first k holidays.
LaterDays(y, k) == {LaterDay(y, i) : i \in {j \in 1 .. k : OnSunday(y, j)}}

\* A holiday on a Sunday is substituted by the next day, or by 6 May.
LEMMA SubstituteIs ==
    ASSUME NEW y \in SupportedYears, NEW i \in 1 .. HolidayCount(y), OnSunday(y, i)
    PROVE  Substitute(y, HolidayDate(y, i), AllMade(y) \cup LaterDays(y, i - 1)) = LaterDay(y, i)
<1> DEFINE n == HolidayCount(y)
           all == AllMade(y) \cup LaterDays(y, i - 1)
           date == HolidayDate(y, i)
<1>1. y \in Int /\ n \in Int /\ date \in Pairs
  <2>1. date \in Pairs
    BY HolidaysDated
  <2>2. QED BY <2>1 DEF SupportedYears, HolidayCount
<1>2. \A d \in all : \/ \E j \in 1 .. n : d = HolidayDate(y, j)
                     \/ \E j \in 1 .. n : j < i /\ OnSunday(y, j) /\ d = LaterDay(y, j)
  <2>1. \A j \in 1 .. i - 1 : j \in 1 .. n /\ j < i
    BY <1>1
  <2>2. QED BY <2>1 DEF AllMade, LaterDays
<1>3. \A j \in 1 .. n : HolidayDate(y, j) \in all
  BY DEF AllMade
<1> HIDE DEF all
<1>4. \A j \in 1 .. n : HolidayOrdinal(y, j) \in Int
  <2>1. \A j \in 1 .. n : HolidayOrdinal(y, j) \in 1 .. 328
    BY OrdinalsApart
  <2>2. QED BY <2>1
<1>5. CASE i \notin {5, 6, 7}
  <2>1. LaterDay(y, i) = NextDay(y, date)
    BY <1>5 DEF LaterDay
  <2>2. DayOfYear(y, NextDay(y, date)) = HolidayOrdinal(y, i) + 1
    BY OrdinalNext
  <2>3. i # 15 /\ i # 17
    BY SundaysApart
  <2>4. ASSUME NEW j \in 1 .. n, NextDay(y, date) = HolidayDate(y, j) PROVE FALSE
    <3>1. HolidayOrdinal(y, j) = HolidayOrdinal(y, i) + 1
      BY <2>2, <2>4 DEF HolidayOrdinal
    <3>2. QED BY <1>5, <2>3, <3>1, OrdinalsApart
  <2>5. ASSUME NEW j \in 1 .. n, j < i, NextDay(y, date) = LaterDay(y, j) PROVE FALSE
    <3>1. DayOfYear(y, LaterDay(y, j)) = HolidayOrdinal(y, i) + 1
      BY <2>2, <2>5
    <3>2. CASE j \in {5, 6, 7}
      <4>1. HolidayOrdinal(y, 7) + 1 = HolidayOrdinal(y, i) + 1
        BY <3>1, <3>2, LaterOrdinal
      <4>2. 7 \in 1 .. n
        BY DaysOfMay
      <4>3. HolidayOrdinal(y, 7) = HolidayOrdinal(y, i)
        BY <1>4, <4>1, <4>2
      <4>4. QED BY <1>5, <4>2, <4>3, OrdinalsApart
    <3>3. CASE j \notin {5, 6, 7}
      <4>1. HolidayOrdinal(y, j) + 1 = HolidayOrdinal(y, i) + 1
        BY <3>1, <3>3, LaterOrdinal
      <4>2. HolidayOrdinal(y, j) = HolidayOrdinal(y, i)
        BY <1>4, <4>1
      <4>3. j = i
        BY <4>2, OrdinalsApart
      <4>4. QED BY <1>1, <2>5, <4>3
    <3>4. QED BY <3>2, <3>3
  <2>6. NextDay(y, date) \notin all
    BY <1>2, <2>4, <2>5
  <2>7. Substitute(y, date, all) = LaterDay(y, i)
    BY <1>1, <2>1, <2>6, FreeAfterOne
  <2>8. QED BY <2>7 DEF all
<1>6. CASE i \in {5, 6, 7}
  <2>1. LaterDay(y, i) = <<5, 6>> /\ DayOfYear(y, <<5, 6>>) = HolidayOrdinal(y, 7) + 1
    BY <1>6, DaysOfMay DEF LaterDay
  <2>2. 5 \in 1 .. n /\ 6 \in 1 .. n /\ 7 \in 1 .. n
    BY DaysOfMay
  <2>3. ASSUME NEW j \in 1 .. n, <<5, 6>> = HolidayDate(y, j) PROVE FALSE
    <3>1. HolidayOrdinal(y, j) = HolidayOrdinal(y, 7) + 1
      BY <2>1, <2>3 DEF HolidayOrdinal
    <3>2. QED BY <2>2, <3>1, OrdinalsApart
  <2>4. ASSUME NEW j \in 1 .. n, j < i, OnSunday(y, j), <<5, 6>> = LaterDay(y, j) PROVE FALSE
    <3>1. CASE j \in {5, 6, 7}
      <4>1. j = i
        BY <1>6, <2>4, <3>1, SundaysApart
      <4>2. QED BY <1>1, <2>4, <4>1
    <3>2. CASE j \notin {5, 6, 7}
      <4>1. HolidayOrdinal(y, 7) + 1 = HolidayOrdinal(y, j) + 1
        BY <2>1, <2>4, <3>2, LaterOrdinal
      <4>2. HolidayOrdinal(y, 7) = HolidayOrdinal(y, j)
        BY <1>4, <2>2, <4>1
      <4>3. QED BY <2>2, <3>2, <4>2, OrdinalsApart
    <3>3. QED BY <3>1, <3>2
  <2>5. <<5, 6>> \notin all
    BY <1>2, <2>3, <2>4
  <2>6. /\ NextDay(y, HolidayDate(y, 5)) = HolidayDate(y, 6)
        /\ NextDay(y, HolidayDate(y, 6)) = HolidayDate(y, 7)
        /\ NextDay(y, HolidayDate(y, 7)) = <<5, 6>>
    BY DaysOfMay
  <2>7. HolidayDate(y, 6) \in all /\ HolidayDate(y, 7) \in all
    BY <1>3, <2>2
  <2>8. ASSUME i = 5 PROVE Substitute(y, date, all) = <<5, 6>>
    <3>1. HolidayDate(y, 5) \in Pairs
      BY <1>1, <2>8
    <3>2. Substitute(y, HolidayDate(y, 5), all) = <<5, 6>>
      BY <1>1, <3>1, <2>1, <2>5, <2>6, <2>7, <2>8, FreeAfterThree
    <3>3. QED BY <2>8, <3>2
  <2>9. ASSUME i = 6 PROVE Substitute(y, date, all) = <<5, 6>>
    <3>1. HolidayDate(y, 6) \in Pairs
      BY <1>1, <2>9
    <3>2. Substitute(y, HolidayDate(y, 6), all) = <<5, 6>>
      BY <1>1, <3>1, <2>1, <2>5, <2>6, <2>7, <2>9, FreeAfterTwo
    <3>3. QED BY <2>9, <3>2
  <2>10. ASSUME i = 7 PROVE Substitute(y, date, all) = <<5, 6>>
    <3>1. HolidayDate(y, 7) \in Pairs
      BY <1>1, <2>10
    <3>2. Substitute(y, HolidayDate(y, 7), all) = <<5, 6>>
      BY <1>1, <3>1, <2>1, <2>5, <2>6, <2>10, FreeAfterOne
    <3>3. QED BY <2>10, <3>2
  <2>11. Substitute(y, date, all) = LaterDay(y, i)
    BY <1>6, <2>1, <2>8, <2>9, <2>10
  <2>12. QED BY <2>11 DEF all
<1>7. QED BY <1>5, <1>6 DEF all

\* A holiday that is substituted if it falls on a Sunday.
Substituted(y, h, all) == IF Weekday(y, h) = 0 THEN all \cup {Substitute(y, h, all)} ELSE all
ListOver(h, y) ==
    h = [U \in SUBSET DOMAIN Made(y) |->
           IF U = {} THEN ToSet(Made(y)) ELSE Substituted(y, Made(y)[Max(U)], h[U \ {Max(U)}])]

\* The generated list is the fold that substitutes one holiday after the other.
LEMMA GeneratedChosen ==
    ASSUME NEW y
    PROVE  generateJpHolidays(y) = (CHOOSE h : ListOver(h, y))[DOMAIN Made(y)]
BY DEF generateJpHolidays, FoldLeft, MapThenFoldSet, ListOver, Substituted, Made

\* That fold has a value.
LEMMA ListExists ==
    ASSUME NEW y \in SupportedYears
    PROVE  \E h : ListOver(h, y)
<1> DEFINE n == HolidayCount(y)
           A == SUBSET Pairs
           step == [i \in 1 .. n |-> [all \in A |-> Substituted(y, Made(y)[i], all)]]
<1>1. n \in Nat /\ y \in Int
  BY DEF HolidayCount, SupportedYears
<1>2. Len(Made(y)) = n /\ \A i \in 1 .. n : Made(y)[i] = HolidayDate(y, i) /\ Made(y)[i] \in Pairs
  BY MadeIs, HolidaysDated
<1>3. DOMAIN Made(y) = 1 .. n
  <2>1. PICK B : Made(y) \in Seq(B)
    BY MadeIs
  <2>2. QED BY <1>2, <2>1
<1>4. ToSet(Made(y)) \in A
  BY <1>2, <1>3 DEF ToSet
<1>5. \A i \in 1 .. n, all \in A : Substituted(y, Made(y)[i], all) \in A
  BY <1>1, <1>2, SubstituteTyped DEF Substituted
<1>6. \A i \in 1 .. n, all \in A :
         step[i][all] = Substituted(y, Made(y)[i], all) /\ step[i][all] \in A
  BY <1>5
<1>7. Stays(step, n, A)
  BY <1>6 DEF Stays
<1> HIDE DEF n, step, A
<1>8. PICK h : LeftFolds(h, n, ToSet(Made(y)), step) /\ AllIn(h, n, A)
  BY <1>1, <1>4, <1>7, LeftFold
<1>9. ASSUME NEW U \in SUBSET (1 .. n), U # {}
      PROVE  step[Max(U)][h[U \ {Max(U)}]] = Substituted(y, Made(y)[Max(U)], h[U \ {Max(U)}])
  <2>1. Max(U) \in 1 .. n
    BY <1>1, <1>9, LargestPicks
  <2>2. h[U \ {Max(U)}] \in A
    BY <1>8 DEF AllIn
  <2>3. QED BY <1>6, <2>1, <2>2
<1>10. h = [U \in SUBSET (1 .. n) |->
              IF U = {} THEN ToSet(Made(y)) ELSE Substituted(y, Made(y)[Max(U)], h[U \ {Max(U)}])]
  BY <1>8, <1>9 DEF LeftFolds
<1>11. QED BY <1>3, <1>10 DEF ListOver

\* The generated list: the holidays, and for every one on a Sunday its substitute.
LEMMA GeneratedIs ==
    ASSUME NEW y \in SupportedYears
    PROVE  generateJpHolidays(y) = AllMade(y) \cup LaterDays(y, HolidayCount(y))
<1> DEFINE n == HolidayCount(y)
           h == CHOOSE k : ListOver(k, y)
           right(k) == h[1 .. k] = AllMade(y) \cup LaterDays(y, k)
<1>1. n \in Nat /\ n \in {16, 17}
  BY DEF HolidayCount
<1>2. Len(Made(y)) = n /\ \A i \in 1 .. n : Made(y)[i] = HolidayDate(y, i)
  BY MadeIs
<1>3. DOMAIN Made(y) = 1 .. n
  <2>1. PICK B : Made(y) \in Seq(B)
    BY MadeIs
  <2>2. QED BY <1>2, <2>1
<1>4. ToSet(Made(y)) = AllMade(y)
  <2>1. ToSet(Made(y)) = {Made(y)[i] : i \in 1 .. n}
    BY <1>3 DEF ToSet
  <2>2. QED BY <1>2, <2>1 DEF AllMade
<1>5. ListOver(h, y)
  BY ListExists
<1>6. generateJpHolidays(y) = h[1 .. n]
  BY <1>3, GeneratedChosen
<1> HIDE DEF h, n
<1>7. right(0)
  <2>1. 1 .. 0 = {} /\ {} \in SUBSET (1 .. n)
    OBVIOUS
  <2>2. h[1 .. 0] = AllMade(y)
    BY <1>3, <1>4, <1>5, <2>1 DEF ListOver
  <2>3. LaterDays(y, 0) = {}
    BY <2>1 DEF LaterDays
  <2>4. QED BY <2>2, <2>3
<1>8. ASSUME NEW k \in 1 .. n, right(k - 1) PROVE right(k)
  <2>1. Max(1 .. k) = k /\ (1 .. k) \ {k} = 1 .. k - 1 /\ 1 .. k \in SUBSET (1 .. n) /\ 1 .. k # {}
    BY <1>1, LargestPicks
  <2>2. h[1 .. k] = Substituted(y, HolidayDate(y, k), h[1 .. k - 1])
    BY <1>2, <1>3, <1>5, <2>1 DEF ListOver
  <2>3. \A i : i \in 1 .. k <=> i \in 1 .. k - 1 \/ i = k
    BY <2>1
  <2>4. CASE OnSunday(y, k)
    <3>1. Substitute(y, HolidayDate(y, k), AllMade(y) \cup LaterDays(y, k - 1)) = LaterDay(y, k)
      BY <2>4, SubstituteIs DEF n
    <3>2. h[1 .. k] = AllMade(y) \cup LaterDays(y, k - 1) \cup {LaterDay(y, k)}
      BY <1>8, <2>2, <2>4, <3>1 DEF Substituted, OnSunday
    <3>3. LaterDays(y, k) = LaterDays(y, k - 1) \cup {LaterDay(y, k)}
      BY <2>3, <2>4 DEF LaterDays
    <3>4. QED BY <3>2, <3>3
  <2>5. CASE ~ OnSunday(y, k)
    <3>1. h[1 .. k] = AllMade(y) \cup LaterDays(y, k - 1)
      BY <1>8, <2>2, <2>5 DEF Substituted, OnSunday
    <3>2. LaterDays(y, k) = LaterDays(y, k - 1)
      BY <2>3, <2>5 DEF LaterDays
    <3>3. QED BY <3>1, <3>2
  <2>6. QED BY <2>4, <2>5
<1> HIDE DEF right
<1>9. right(n)
  <2> DEFINE B == { k \in 0 .. n : ~ right(k) }
  <2> SUFFICES ASSUME ~ right(n) PROVE FALSE
    OBVIOUS
  <2>1. B # {} /\ Numbers(B)
    BY <1>1 DEF Numbers
  <2>2. PICK k \in B : \A x \in B : k <= x
    <3> HIDE DEF B
    <3>1. QED BY <2>1, LeastNumber
  <2>3. k \in 0 .. n /\ ~ right(k)
    BY <2>2
  <2>4. k # 0
    BY <1>7, <2>3
  <2>5. k \in 1 .. n /\ k - 1 \in 0 .. n /\ ~ k <= k - 1
    BY <1>1, <2>3, <2>4
  <2>6. right(k - 1)
    BY <2>2, <2>5
  <2>7. QED BY <1>8, <2>3, <2>5, <2>6
<1>10. QED BY <1>6, <1>9 DEF right, n

\* The days of the year on which the national holidays fall.
NationalDays(y) == {HolidayOrdinal(y, i) : i \in 1 .. 16}

\* Those Lawful speaks of.
LEMMA NationalsAre ==
    ASSUME NEW y \in SupportedYears
    PROVE  /\ ToSet(NationalHolidays(y)) = {HolidayDate(y, i) : i \in 1 .. 16}
           /\ {DayOfYear(y, h) : h \in ToSet(NationalHolidays(y))} = NationalDays(y)
<1>1. Len(NationalHolidays(y)) = 16
      /\ \A i \in 1 .. 16 : NationalHolidays(y)[i] = HolidayDate(y, i)
  BY NationalIs
<1>2. DOMAIN NationalHolidays(y) = 1 .. 16
  <2>1. PICK A : NationalHolidays(y) \in Seq(A)
    BY NationalIs
  <2>2. QED BY <1>1, <2>1
<1>3. ToSet(NationalHolidays(y)) = {HolidayDate(y, i) : i \in 1 .. 16}
  BY <1>1, <1>2 DEF ToSet
<1>4. QED BY <1>3 DEF NationalDays, HolidayOrdinal

\* There are sixteen.
LEMMA SixteenHolidays ==
    ASSUME NEW y \in SupportedYears
    PROVE  Cardinality(ToSet(NationalHolidays(y))) = 16
<1> DEFINE S == 1 .. 16
           T == {HolidayDate(y, i) : i \in S}
           f == [i \in S |-> HolidayDate(y, i)]
<1>1. ToSet(NationalHolidays(y)) = T
  BY NationalsAre
<1>2. f \in Surjection(S, T)
  <2>1. f \in [S -> T] /\ \A t \in T : \E s \in S : f[s] = t
    OBVIOUS
  <2>2. QED BY <2>1 DEF Surjection
<1>3. \A i, j \in S : f[i] = f[j] => i = j
  <2> SUFFICES ASSUME NEW i \in S, NEW j \in S, HolidayDate(y, i) = HolidayDate(y, j)
               PROVE  i = j
    OBVIOUS
  <2>1. HolidayOrdinal(y, i) = HolidayOrdinal(y, j)
    BY DEF HolidayOrdinal
  <2>2. i \in 1 .. HolidayCount(y) /\ j \in 1 .. HolidayCount(y)
    BY DEF HolidayCount
  <2>3. QED BY <2>1, <2>2, OrdinalsApart
<1>4. f \in Injection(S, T)
  <2>1. f \in [S -> T] /\ DOMAIN f = S
    OBVIOUS
  <2> HIDE DEF f, S, T
  <2>2. IsInjective(f)
    BY <1>3, <2>1 DEF IsInjective
  <2>3. QED BY <2>1, <2>2 DEF Injection
<1>5. IsFiniteSet(S) /\ Cardinality(S) = 16
  <2>1. 1 \in Int /\ 16 \in Int
    OBVIOUS
  <2>2. /\ IsFiniteSet(1 .. 16)
        /\ Cardinality(1 .. 16) = IF 1 > 16 THEN 0 ELSE 16 - 1 + 1
    BY <2>1, FS_Interval
  <2>3. QED BY <2>2
<1> HIDE DEF f, S, T
<1>6. Cardinality(T) = Cardinality(S)
  BY <1>2, <1>4, <1>5, FS_Surjection
<1>7. QED BY <1>1, <1>5, <1>6

\* The first day after a Sunday that is no national holiday is a holiday or its substitute.
LEMMA AfterSundayIs ==
    ASSUME NEW y \in SupportedYears, NEW i \in 1 .. 16, OnSunday(y, i), NEW n \in Int,
           HolidayOrdinal(y, i) < n,
           HolidayOrdinal(y, i) + 1 .. n - 1 \subseteq NationalDays(y)
    PROVE  n \in NationalDays(y) \/ n = DayOfYear(y, LaterDay(y, i))
<1> DEFINE o(j) == HolidayOrdinal(y, j)
           later == DayOfYear(y, LaterDay(y, i))
<1>1. \A j \in 1 .. 16 : j \in 1 .. HolidayCount(y)
  BY DEF HolidayCount
<1>2. \A j \in 1 .. 16 : o(j) \in Int
  <2>1. \A j \in 1 .. 16 : o(j) \in 1 .. 328
    BY <1>1, OrdinalsApart
  <2>2. QED BY <2>1
<1>3. \A j \in 1 .. 16 : o(j) \in NationalDays(y)
  BY DEF NationalDays
<1>4. o(6) = o(5) + 1 /\ o(7) = o(6) + 1
  BY DaysOfMay
<1>5. later = IF i \in {5, 6, 7} THEN o(7) + 1 ELSE o(i) + 1
  BY <1>1, LaterOrdinal
<1>6. i # 15 /\ i # 17
  BY <1>1, SundaysApart
<1>7. \A x \in NationalDays(y) : \E j \in 1 .. 16 : x = o(j)
  BY DEF NationalDays
<1>8. o(7) + 1 \notin NationalDays(y)
  <2> SUFFICES ASSUME o(7) + 1 \in NationalDays(y) PROVE FALSE
    OBVIOUS
  <2>1. PICK j \in 1 .. 16 : o(j) = o(7) + 1
    BY <1>7
  <2>2. 7 \in 1 .. HolidayCount(y)
    BY DaysOfMay
  <2>3. QED BY <1>1, <2>1, <2>2, OrdinalsApart
<1>9. i \notin {5, 6} => o(i) + 1 \notin NationalDays(y)
  <2> SUFFICES ASSUME i \notin {5, 6}, o(i) + 1 \in NationalDays(y) PROVE FALSE
    OBVIOUS
  <2>1. PICK j \in 1 .. 16 : o(j) = o(i) + 1
    BY <1>7
  <2>2. QED BY <1>1, <1>6, <2>1, OrdinalsApart
<1>10. \A x \in Int : o(i) < x /\ x < n => x \in NationalDays(y)
  BY <1>2
<1> HIDE DEF o, later
<1>11. o(i) \in Int /\ o(i) < n
  BY <1>2 DEF o
<1>12. CASE i \notin {5, 6}
  <2>1. ~ o(i) + 1 < n
    BY <1>9, <1>10, <1>11, <1>12
  <2>2. n = o(i) + 1
    BY <1>11, <2>1
  <2>3. later = n
    BY <1>5, <1>12, <2>2
  <2>4. QED BY <2>3 DEF later
<1>13. CASE i \in {5, 6}
  <2>1. o(5) \in Int /\ o(6) \in Int /\ o(7) \in Int
        /\ o(6) \in NationalDays(y) /\ o(7) \in NationalDays(y)
    BY <1>2, <1>3
  <2>2. ~ o(7) + 1 < n
    <3>1. o(i) < o(7) + 1 /\ o(7) + 1 \in Int
      BY <1>4, <1>13, <2>1
    <3>2. QED BY <1>8, <1>10, <3>1
  <2>3. n = o(6) \/ n = o(7) \/ n = o(7) + 1
    BY <1>4, <1>11, <1>13, <2>1, <2>2
  <2>4. later = o(7) + 1
    BY <1>5, <1>13
  <2>5. QED BY <2>1, <2>3, <2>4 DEF later
<1>14. QED BY <1>12, <1>13

\* The days of the year of the generated list are those the Act makes holidays.
LEMMA GeneratedIsLawful ==
    ASSUME NEW y \in SupportedYears
    PROVE  {DayOfYear(y, h) : h \in generateJpHolidays(y)} = Lawful(y)
<1> DEFINE N == NationalDays(y)
           o(i) == HolidayOrdinal(y, i)
           count == HolidayCount(y)
           after(n) == \E h \in N : h < n /\ WeekdayOf(y, h) = 0 /\ h + 1 .. n - 1 \subseteq N
           between(n) == {n - 1, n + 1} \subseteq N
           last == DayOfYear(y, <<12, 31>>)
           G == {DayOfYear(y, h) : h \in generateJpHolidays(y)}
<1>1. Lawful(y) = {n \in 1 .. last : n \in N \/ after(n) \/ between(n)}
  BY NationalsAre DEF Lawful
<1>2. last \in Int /\ 365 <= last
  <2>1. y \in Int /\ 12 \in 1 .. 12 /\ 31 \in Int
    BY DEF SupportedYears
  <2>2. last = 31 + Elapsed[12] + Intercalary(y, 12)
    BY <2>1, DayOfYearIs
  <2>3. Elapsed[12] = 334 /\ Intercalary(y, 12) \in 0 .. 1
    BY DEF Elapsed, Intercalary
  <2>4. QED BY <2>2, <2>3
<1>3. \A i \in 1 .. 16 : i \in 1 .. count
  BY DEF HolidayCount
<1>4. \A i \in 1 .. count : o(i) \in 1 .. 328
  BY OrdinalsApart
<1>5. \A i \in 1 .. 16 : o(i) \in N
  BY DEF NationalDays
<1>6. \A i \in 1 .. count : OnSunday(y, i) <=> WeekdayOf(y, o(i)) = 0
  BY DEF OnSunday, Weekday, HolidayOrdinal
<1>7. \A i \in 1 .. count : i \in 1 .. 16 \/ i = 17
  BY DEF HolidayCount
<1>8. \A i \in 1 .. count : OnSunday(y, i) => i \in 1 .. 16
  BY <1>7, SundaysApart
<1>9. \A i \in 1 .. count :
        DayOfYear(y, LaterDay(y, i)) = IF i \in {5, 6, 7} THEN o(7) + 1 ELSE o(i) + 1
  BY LaterOrdinal
<1>10. \A n : n \in G <=> \/ \E i \in 1 .. count : n = o(i)
                          \/ \E i \in 1 .. count : OnSunday(y, i) /\ n = DayOfYear(y, LaterDay(y, i))
  <2>1. G = {DayOfYear(y, h) : h \in AllMade(y) \cup LaterDays(y, count)}
    BY GeneratedIs
  <2>2. QED BY <2>1 DEF AllMade, LaterDays, HolidayOrdinal
<1>11. 5 \in 1 .. 16 /\ 6 \in 1 .. 16 /\ 7 \in 1 .. 16 /\ o(6) = o(5) + 1 /\ o(7) = o(6) + 1
  BY DaysOfMay
<1> HIDE DEF N, o, count, G, last
<1>12. ASSUME NEW i \in 1 .. count
       PROVE  o(i) \in 1 .. last /\ (o(i) \in N \/ after(o(i)) \/ between(o(i)))
  <2>1. o(i) \in 1 .. last
    BY <1>2, <1>4
  <2>2. CASE i \in 1 .. 16
    BY <1>5, <2>1, <2>2
  <2>3. CASE i = 17
    <3>1. o(17) = o(15) + 1 /\ o(12) = o(15) + 2
      BY <2>3, OrdinalsApart DEF o, count
    <3>2. o(15) \in N /\ o(12) \in N /\ o(15) \in Int
      <4>1. 15 \in 1 .. 16 /\ 12 \in 1 .. 16
        OBVIOUS
      <4>2. o(15) \in 1 .. 328
        BY <1>3, <1>4, <4>1
      <4>3. QED BY <1>5, <4>1, <4>2
    <3>3. o(17) - 1 = o(15) /\ o(17) + 1 = o(12)
      BY <3>1, <3>2
    <3>4. QED BY <2>1, <2>3, <3>2, <3>3
  <2>4. QED BY <1>7, <2>2, <2>3
<1>13. ASSUME NEW i \in 1 .. count, OnSunday(y, i)
       PROVE  LET n == DayOfYear(y, LaterDay(y, i)) IN n \in 1 .. last /\ after(n)
  <2> DEFINE n == DayOfYear(y, LaterDay(y, i))
  <2>1. i \in 1 .. 16 /\ o(i) \in N /\ WeekdayOf(y, o(i)) = 0 /\ o(i) \in 1 .. 328
    BY <1>4, <1>5, <1>6, <1>8, <1>13
  <2>2. o(5) \in 1 .. 328 /\ o(6) \in 1 .. 328 /\ o(7) \in 1 .. 328
    BY <1>3, <1>4, <1>11
  <2>3. n = IF i \in {5, 6, 7} THEN o(7) + 1 ELSE o(i) + 1
    BY <1>9
  <2> HIDE DEF n
  <2>4. n \in 1 .. last /\ o(i) < n
    BY <1>2, <1>11, <2>1, <2>2, <2>3
  <2>5. o(i) + 1 .. n - 1 \subseteq N
    <3> SUFFICES ASSUME NEW x \in o(i) + 1 .. n - 1 PROVE x \in N
      OBVIOUS
    <3>1. x \in Int /\ o(i) < x /\ x < n
      BY <2>1, <2>4
    <3>2. i \in {5, 6, 7}
      BY <2>1, <2>3, <3>1
    <3>3. x = o(6) \/ x = o(7)
      BY <1>11, <2>2, <2>3, <3>1, <3>2
    <3>4. QED BY <1>5, <1>11, <3>3
  <2>6. after(n)
    BY <2>1, <2>4, <2>5
  <2>7. QED BY <2>4, <2>6 DEF n
<1>14. G \subseteq Lawful(y)
  <2> HIDE DEF after, between
  <2>1. QED BY <1>1, <1>10, <1>12, <1>13
<1>15. ASSUME NEW n \in 1 .. last, n \in N PROVE n \in G
  BY <1>3, <1>10, <1>15 DEF N, NationalDays, o
<1>16. ASSUME NEW n \in 1 .. last, after(n) PROVE n \in G
  <2>1. PICK i \in 1 .. 16 : o(i) < n /\ WeekdayOf(y, o(i)) = 0 /\ o(i) + 1 .. n - 1 \subseteq N
    BY <1>16 DEF N, NationalDays, o
  <2>2. OnSunday(y, i) /\ i \in 1 .. count /\ n \in Int
    BY <1>2, <1>3, <1>6, <2>1
  <2>3. n \in N \/ n = DayOfYear(y, LaterDay(y, i))
    BY <2>1, <2>2, AfterSundayIs DEF N, o
  <2>4. QED BY <1>10, <1>15, <2>2, <2>3
<1>17. ASSUME NEW n \in 1 .. last, between(n) PROVE n \in G
  <2>1. n - 1 \in N /\ n + 1 \in N /\ n \in Int
    BY <1>2, <1>17
  <2>2. PICK i \in 1 .. 16 : n - 1 = o(i)
    BY <2>1 DEF N, NationalDays, o
  <2>3. PICK j \in 1 .. 16 : n + 1 = o(j)
    BY <2>1 DEF N, NationalDays, o
  <2>4. i \in 1 .. count /\ j \in 1 .. count
    BY <1>3
  <2>5. o(j) = o(i) + 2
    BY <2>1, <2>2, <2>3
  <2>6. (i = 5 /\ j = 7) \/ (i = 15 /\ j = 12)
    BY <2>4, <2>5, OrdinalsApart DEF o, count
  <2>7. CASE i = 5
    <3>1. n = o(6)
      BY <1>11, <2>1, <2>2, <2>7
    <3>2. QED BY <1>3, <1>10, <1>11, <3>1
  <2>8. CASE i = 15 /\ j = 12
    <3>1. 17 \in 1 .. count /\ o(17) = o(15) + 1
      BY <2>5, <2>8, CitizensDay DEF o, count
    <3>2. n = o(17)
      BY <2>1, <2>2, <2>8, <3>1
    <3>3. QED BY <1>10, <3>1, <3>2
  <2>9. QED BY <2>6, <2>7, <2>8
<1>18. Lawful(y) \subseteq G
  <2> HIDE DEF after, between
  <2>1. QED BY <1>1, <1>15, <1>16, <1>17
<1>19. QED BY <1>14, <1>18 DEF G

\* The list of every supported year is lawful.
LEMMA ListsLawful == \A y \in SupportedYears : ListIsLawful(y)
BY SixteenHolidays, GeneratedIsLawful DEF ListIsLawful

-----------------------------------------------------------------------------
(* The rules as they are asked.                                            *)

\* A step asks a rule about one of its inputs, forgets it, or asks nothing.
LEMMA WhatIsAsked ==
    ASSUME OfficeNext
    PROVE  asked' = asked \/ asked' = Nothing \/ AskRule
BY DEF OfficeNext, Forget

\* Whatever the rules of bank, flags, quotas and force majeure are asked about, for
\* any hours, plans and days, the hours they give add up (HoursAddUp).
THEOREM HoursAlwaysAddUp == OfficeSpec => []HoursAddUp
<1>1. OfficeInit => HoursAddUp
  BY DEF OfficeInit, Nothing, HoursAddUp
<1>2. HoursAddUp /\ [OfficeNext]_<<vars, asked>> => HoursAddUp'
  <2> SUFFICES ASSUME HoursAddUp, OfficeNext, asked' # asked, asked' # Nothing
               PROVE  HoursAddUp'
    <3>1. asked' = Nothing => HoursAddUp'
      BY DEF Nothing, HoursAddUp
    <3>2. asked' = asked => (HoursAddUp => HoursAddUp')
      BY DEF HoursAddUp
    <3>3. UNCHANGED <<vars, asked>> => asked' = asked
      OBVIOUS
    <3>4. QED BY <3>1, <3>2, <3>3
  <2>1. CASE AskDraw
    <3>1. PICK a, b \in [expires : 0 .. 2, remaining : Hours],
               needed \in Hours, t \in 0 .. 3 * SlotsPerDay :
            asked' = [rule |-> "draw", entries |-> <<a, b>>, needed |-> needed, at |-> t]
      BY <2>1 DEF AskDraw
    <3>2. TwoEntries(<<a, b>>) /\ needed \in Nat
      BY BankAssumption DEF TwoEntries, Hours
    <3>3. OffsetSound(<<a, b>>, needed, t)
      BY <3>2, DrawsSound
    <3>4. QED BY <3>1, <3>3 DEF HoursAddUp
  <2>2. CASE AskFlag
    <3>1. PICK worked, required, offset \in Hours, excused \in BOOLEAN :
            asked' = [rule |-> "flag", worked |-> worked, required |-> required,
                      offset |-> offset, excused |-> excused]
      BY <2>2 DEF AskFlag
    <3>2. worked \in Nat /\ required \in Nat /\ offset \in Nat
      BY BankAssumption DEF Hours
    <3>3. ResolutionBalances(worked, required, offset, excused)
      BY <3>2, FlagsBalance
    <3>4. QED BY <3>1, <3>3 DEF HoursAddUp
  <2>3. CASE AskPlan
    <3>1. PICK months \in 0 .. 3 : \E plan \in [1 .. months -> 1 .. 4], standard \in 1 .. 3 :
            asked' = [rule |-> "plan", plan |-> plan, standard |-> standard]
      BY <2>3 DEF AskPlan
    <3>2. PICK plan \in [1 .. months -> 1 .. 4], standard \in 1 .. 3 :
            asked' = [rule |-> "plan", plan |-> plan, standard |-> standard]
      BY <3>1
    <3>3. months \in Nat /\ Row(plan, months) /\ standard \in Nat
      BY DEF Row
    <3>4. PlanKeepsHours(plan, standard)
      BY <3>3, PlansKeepHours
    <3>5. QED BY <3>2, <3>4 DEF HoursAddUp
  <2>4. CASE AskShare
    <3>1. PICK required \in 0 .. 9, workDays \in 1 .. 4 :
            \E affected, consecutive \in 0 .. workDays :
              asked' = [rule |-> "share", required |-> required, workDays |-> workDays,
                        affected |-> affected, consecutive |-> consecutive]
      BY <2>4 DEF AskShare
    <3>2. PICK affected, consecutive \in 0 .. workDays :
            asked' = [rule |-> "share", required |-> required, workDays |-> workDays,
                      affected |-> affected, consecutive |-> consecutive]
      BY <3>1
    <3>3. required \in Nat /\ workDays \in Nat \ {0} /\ consecutive \in Nat
      OBVIOUS
    <3>4. ShareTaken(required, workDays, affected, consecutive)
      BY <3>3, ShareIsTaken
    <3>5. QED BY <3>2, <3>4 DEF HoursAddUp
  <2>5. CASE asked'.rule \notin {"draw", "flag", "plan", "share"}
    BY <2>5 DEF HoursAddUp
  <2>6. AskOvertime \/ AskAccrual \/ AskGrant \/ AskPolicy \/ AskYear \/ AskExit
          => asked'.rule \notin {"draw", "flag", "plan", "share"}
    BY DEF AskOvertime, AskAccrual, AskGrant, AskPolicy, AskYear, AskExit
  <2>7. QED BY <2>1, <2>2, <2>3, <2>4, <2>5, <2>6, WhatIsAsked DEF AskRule
<1>3. QED BY <1>1, <1>2, PTL DEF OfficeSpec

\* Whatever overtime is asked about, for any hours, limits and rates, the next hour
\* is paid once and the verdicts rise one by one (OvertimeEscalates).
THEOREM OvertimeByEachHour == OfficeSpec => []OvertimeEscalates
<1>1. OfficeInit => OvertimeEscalates
  BY DEF OfficeInit, Nothing, OvertimeEscalates
<1>2. OvertimeEscalates /\ [OfficeNext]_<<vars, asked>> => OvertimeEscalates'
  <2> SUFFICES ASSUME OvertimeEscalates, OfficeNext, asked' # asked, asked'.rule = "overtime"
               PROVE  OvertimeEscalates'
    BY DEF OvertimeEscalates
  <2>1. AskOvertime
    <3>1. AskDraw \/ AskFlag \/ AskPlan \/ AskShare \/ AskAccrual \/ AskGrant \/ AskPolicy
            \/ AskYear \/ AskExit
            => asked'.rule # "overtime"
      BY DEF AskDraw, AskFlag, AskPlan, AskShare, AskAccrual, AskGrant, AskPolicy, AskYear, AskExit
    <3>2. asked' # Nothing
      BY DEF Nothing
    <3>3. QED BY <3>1, <3>2, WhatIsAsked DEF AskRule
  <2>2. PICK hours \in ByTheHour!Worked, before, limit \in ByTheHour!Limits :
          asked' = [rule |-> "overtime", hours |-> hours, before |-> before, limit |-> limit]
    BY <2>1 DEF AskOvertime
  <2>3. hours \in [ByTheHour!Kinds -> Nat] /\ before \in Nat /\ limit \in Nat
    BY InputAssumption DEF ByTheHour!Worked, ByTheHour!Limits
  <2>4. ByTheHour!OneMoreHour(hours, before, limit)
    BY <2>3, OvertimeByTheHour
  <2>5. QED BY <2>2, <2>4 DEF OvertimeEscalates
<1>3. QED BY <1>1, <1>2, PTL DEF OfficeSpec

\* A schedule of the inputs is one in the order of its months.
LEMMA SchedulesInOrder ==
    ASSUME NEW s \in LeaveRules!Schedules
    PROVE  \E n \in Nat : Schedule(s, n)
<1>1. CASE s = <<>>
  BY <1>1 DEF Schedule
<1>2. CASE \E a \in LeaveRules!Tiers : s = <<a>>
  <2>1. PICK a \in LeaveRules!Tiers : s = <<a>>
    BY <1>2
  <2>2. a.months \in Nat /\ a.days \in Nat
    BY InputAssumption DEF LeaveRules!Tiers, LeaveRules!Months, LeaveRules!Days
  <2>3. Schedule(s, 1)
    BY <2>1, <2>2 DEF Schedule
  <2>4. QED BY <2>3
<1>3. CASE \E a, b \in LeaveRules!Tiers : s = <<a, b>> /\ s[1].months < s[2].months
  <2>1. PICK a, b \in LeaveRules!Tiers : s = <<a, b>> /\ s[1].months < s[2].months
    BY <1>3
  <2>2. a.months \in Nat /\ a.days \in Nat /\ b.months \in Nat /\ b.days \in Nat
    BY InputAssumption DEF LeaveRules!Tiers, LeaveRules!Months, LeaveRules!Days
  <2>3. Schedule(s, 2)
    BY <2>1, <2>2 DEF Schedule
  <2>4. QED BY <2>3
<1>4. QED BY <1>1, <1>2, <1>3 DEF LeaveRules!Schedules

\* Whatever accrual is asked about, for any balances, caps, tenures and schedules,
\* it stays within the cap, reports what it changes and follows the tenure
\* (AccrualSound).
THEOREM AccrualAlwaysSound == OfficeSpec => []AccrualSound
<1>1. OfficeInit => AccrualSound
  BY DEF OfficeInit, Nothing, AccrualSound
<1>2. AccrualSound /\ [OfficeNext]_<<vars, asked>> => AccrualSound'
  <2> SUFFICES ASSUME AccrualSound, OfficeNext, asked' # asked, asked'.rule \in {"accrual", "grant"}
               PROVE  AccrualSound'
    BY DEF AccrualSound
  <2>1. AskAccrual \/ AskGrant
    <3>1. AskDraw \/ AskFlag \/ AskPlan \/ AskShare \/ AskOvertime \/ AskPolicy \/ AskYear \/ AskExit
            => asked'.rule \notin {"accrual", "grant"}
      BY DEF AskDraw, AskFlag, AskPlan, AskShare, AskOvertime, AskPolicy, AskYear, AskExit
    <3>2. asked' # Nothing
      BY DEF Nothing
    <3>3. QED BY <3>1, <3>2, WhatIsAsked DEF AskRule
  <2>2. CASE AskAccrual
    <3>1. PICK p \in LeaveRules!Policies, balance \in LeaveRules!Days,
               tenure, age \in LeaveRules!Months : \E carryOver \in 0 .. balance :
            asked' = [rule |-> "accrual", policy |-> p, balance |-> balance, tenure |-> tenure,
                      carryOver |-> carryOver, age |-> age]
      BY <2>2 DEF AskAccrual
    <3>2. PICK carryOver \in 0 .. balance :
            asked' = [rule |-> "accrual", policy |-> p, balance |-> balance, tenure |-> tenure,
                      carryOver |-> carryOver, age |-> age]
      BY <3>1
    <3>3. balance \in Nat /\ tenure \in Nat /\ age \in Nat
      BY InputAssumption DEF LeaveRules!Months, LeaveRules!Days
    <3>4. /\ p.cap \in Nat /\ p.start \in Nat /\ p.carryOverMonths \in Nat
          /\ p.schedule = <<>> \/ p.schedule[1].days \in Nat
      BY InputAssumption DEF LeaveRules!Policies, LeaveRules!Months, LeaveRules!Days
    <3>5. LeaveRules!WithinCap(p, balance, tenure, carryOver, age)
      BY <3>3, <3>4, AccrualWithinCap
    <3>6. QED BY <3>2, <3>5 DEF AccrualSound
  <2>3. CASE AskGrant
    <3>1. PICK s \in LeaveRules!Schedules, start, tenure \in LeaveRules!Months :
            asked' = [rule |-> "grant", schedule |-> s, start |-> start, tenure |-> tenure]
      BY <2>3 DEF AskGrant
    <3>2. start \in Nat /\ tenure \in Nat
      BY InputAssumption DEF LeaveRules!Months
    <3>3. PICK n \in Nat : Schedule(s, n)
      BY SchedulesInOrder
    <3>4. LeaveRules!GrantsFollowTenure(s, start, tenure)
      BY <3>2, <3>3, GrantsFollow
    <3>5. QED BY <3>1, <3>4 DEF AccrualSound
  <2>4. QED BY <2>1, <2>2, <2>3
<1>3. QED BY <1>1, <1>2, PTL DEF OfficeSpec

\* Whatever layers of policies are asked about, for any fields and any depth of
\* sections, at whatever date: every field of the merged policy is what the most
\* specific layer in force says of it (MostSpecificWins).
THEOREM PoliciesDecided == OfficeSpec => []MostSpecificWins
<1>1. OfficeInit => MostSpecificWins
  BY DEF OfficeInit, Nothing, MostSpecificWins
<1>2. MostSpecificWins /\ [OfficeNext]_<<vars, asked>> => MostSpecificWins'
  <2> SUFFICES ASSUME MostSpecificWins, OfficeNext, asked' # asked, asked'.rule = "policy"
               PROVE  MostSpecificWins'
    BY DEF MostSpecificWins
  <2>1. AskPolicy
    <3>1. AskDraw \/ AskFlag \/ AskPlan \/ AskShare \/ AskOvertime \/ AskAccrual \/ AskGrant
            \/ AskYear \/ AskExit
            => asked'.rule # "policy"
      BY DEF AskDraw, AskFlag, AskPlan, AskShare, AskOvertime, AskAccrual, AskGrant, AskYear, AskExit
    <3>2. asked' # Nothing
      BY DEF Nothing
    <3>3. QED BY <3>1, <3>2, WhatIsAsked DEF AskRule
  <2>2. PICK region, company, group, user \in Layers, reference \in {0, 1} :
          asked' = [rule |-> "policy", layers |-> <<region, company, group, user>>,
                    reference |-> reference]
    BY <2>1 DEF AskPolicy
  <2> DEFINE layers == <<region, company, group, user>>
  <2>3. \A i \in 1 .. 4 : layers[i] \in Layers
    OBVIOUS
  <2>4. \A layer \in Layers : layer.fields \in Cascade!Documents[Depth]
    BY LayerAssumption
  <2>5. \A i \in 1 .. 4 : layers[i].fields \in Cascade!Documents[Depth]
    BY <2>3, <2>4
  <2> HIDE DEF layers
  <2>6. Cascade!FieldsDecided(layers, reference)
    BY <2>5, FieldsAreDecided
  <2>7. asked'.layers = layers /\ asked'.reference = reference
    BY <2>2 DEF layers
  <2>8. QED BY <2>6, <2>7 DEF MostSpecificWins
<1>3. QED BY <1>1, <1>2, PTL DEF OfficeSpec

\* Whatever the calendar is asked about, for any years and any years of
\* confidentiality and cure period: the generated holidays of every supported year
\* are those the Act describes, and on whichever day somebody leaves, for whatever
\* salary, the deadline, the payment, the obligations and the cure period keep their
\* rules, with the deadline on the 15th and the non-compete of twelve months the code
\* has (generateJpHolidays, getSettlementPreview, buildLegalObligations, offboard).
THEOREM CalendarAlwaysKept ==
    DeadlineDay = 15 /\ NonCompeteMonths = 12 => (OfficeSpec => []CalendarKept)
<1> SUFFICES ASSUME DeadlineDay = 15, NonCompeteMonths = 12
             PROVE  OfficeSpec => []CalendarKept
  OBVIOUS
<1>1. OfficeInit => CalendarKept
  BY DEF OfficeInit, Nothing, CalendarKept
<1>2. CalendarKept /\ [OfficeNext]_<<vars, asked>> => CalendarKept'
  <2> SUFFICES ASSUME CalendarKept, OfficeNext, asked' # asked, asked'.rule \in {"year", "exit"}
               PROVE  CalendarKept'
    BY DEF CalendarKept
  <2>1. AskYear \/ AskExit
    <3>1. AskDraw \/ AskFlag \/ AskPlan \/ AskShare \/ AskOvertime \/ AskAccrual \/ AskGrant
            \/ AskPolicy
            => asked'.rule \notin {"year", "exit"}
      BY DEF AskDraw, AskFlag, AskPlan, AskShare, AskOvertime, AskAccrual, AskGrant, AskPolicy
    <3>2. asked' # Nothing
      BY DEF Nothing
    <3>3. QED BY <3>1, <3>2, WhatIsAsked DEF AskRule
  <2>2. CASE AskYear
    <3>1. PICK y \in Years \cap SupportedYears : asked' = [rule |-> "year", year |-> y]
      BY <2>2 DEF AskYear
    <3>2. asked'.rule = "year" /\ asked'.rule # "exit" /\ ListIsLawful(asked'.year)
      BY <3>1, ListsLawful
    <3>3. QED BY <3>2 DEF CalendarKept
  <2>3. CASE AskExit
    <3>1. PICK y \in ExitYears, amount \in {1, 45, 100} : \E date \in DatesOf(y) :
             asked' = [rule |-> "exit", date |-> date, amount |-> amount]
      BY <2>3 DEF AskExit
    <3>2. PICK date \in DatesOf(y) : asked' = [rule |-> "exit", date |-> date, amount |-> amount]
      BY <3>1
    <3>3. y \in Int /\ amount \in Nat
      BY ExitAssumption
    <3>4. TermsHold(date, amount)
      BY <3>3, ExitAssumption, TermsAlwaysHold
    <3>5. asked'.rule = "exit" /\ asked'.rule # "year"
          /\ asked'.date = date /\ asked'.amount = amount
      BY <3>2
    <3>6. QED BY <3>4, <3>5 DEF CalendarKept
  <2>4. QED BY <2>1, <2>2, <2>3
<1>3. QED BY <1>1, <1>2, PTL DEF OfficeSpec

\* The rules are asked beside the checks and change nothing of them: what holds of
\* the checks alone holds with them (Spec of the checks).
THEOREM RulesReadOnly == OfficeSpec => Spec
<1>1. OfficeInit => Init
  BY DEF OfficeInit
<1>2. [OfficeNext]_<<vars, asked>> => [Next]_vars
  BY DEF OfficeNext, Forget
<1>3. QED BY <1>1, <1>2, PTL DEF OfficeSpec, Spec
=============================================================================
