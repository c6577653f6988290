-------------------------------- MODULE Bank --------------------------------
(***************************************************************************)
(* Banked hours, the resolution of flags, quota plans and force majeure:   *)
(* the pure rules of packages/core/src/flags/service.ts and the filter of  *)
(* the bank repository.  Dates are days, moments are slots of a day,       *)
(* months all have DaysPerMonth days.                                      *)
(***************************************************************************)
EXTENDS Integers, SequencesExt

CONSTANTS
    SlotsPerDay, DaysPerMonth,
    ExpiryMonths,     \* BANKING.EXPIRY_MONTHS
    MaxHours,         \* bound: hours an entry has, or a flag lacks
    TerminationDays   \* FORCE_MAJEURE.TERMINATION_DAYS

ASSUME CalendarAssumption == SlotsPerDay \in Nat \ {0} /\ DaysPerMonth \in Nat \ {0}
ASSUME BankAssumption == ExpiryMonths \in Nat /\ MaxHours \in Nat /\ TerminationDays \in Nat

Hours == 0 .. MaxHours
DayOf(t) == t \div SlotsPerDay
MonthOf(d) == d \div DaysPerMonth
Midnight(d) == d * SlotsPerDay
Least(a, b) == IF a < b THEN a ELSE b
Most(a, b) == IF a > b THEN a ELSE b

\* A bank entry expires on the last day of a month.
createBankEntry(month, surplus) ==
    [expires   |-> (month + ExpiryMonths + 1) * DaysPerMonth - 1,
     remaining |-> surplus]

\* new Date(expiresAt) is the midnight at which the last day begins.
isExpired(expires, t) == Midnight(expires) < t

\* MUTANT: whatever has hours left is active
findActive_All(entries, t) == {b \in entries : b.remaining > 0}

\* findActive of the repository compares dates.
findActive(entries, t) == {b \in entries : b.expires >= DayOf(t) /\ b.remaining > 0}

Usable(b, t) == ~isExpired(b.expires, t) /\ b.remaining > 0

Total(hours) == FoldLeft(+, 0, hours)

\* MUTANT: expired entries are not left out
applyBankOffset_Expired(entries, needed, t) ==
    FoldLeft(LAMBDA done, b :
                IF b.remaining = 0 THEN Append(done, 0)
                ELSE Append(done, Least(b.remaining, needed - Total(done))),
             <<>>, entries)

\* What each entry of a sequence gives towards the hours needed at moment t.
applyBankOffset(entries, needed, t) ==
    FoldLeft(LAMBDA done, b :
                IF Usable(b, t)
                THEN Append(done, Least(b.remaining, needed - Total(done)))
                ELSE Append(done, 0),
             <<>>, entries)

resolveFlag(resolution, deficit, offset) ==
    CASE resolution = "DEDUCT_FULL" -> [deduct |-> deficit, bank |-> 0, pending |-> FALSE]
      [] resolution \in {"USE_BANK", "PARTIAL_BANK"} ->
            [deduct |-> Most(0, deficit - offset), bank |-> Least(offset, deficit),
             pending |-> FALSE]
      [] resolution = "NO_PENALTY" -> [deduct |-> 0, bank |-> 0, pending |-> FALSE]
      [] OTHER -> [deduct |-> 0, bank |-> 0, pending |-> TRUE]

\* The hours a flag of a level lacks, 0 if there is none; the deductible ones.
shouldGenerateFlag(level, worked, required, excused) ==
    LET deficit == IF excused THEN 0 ELSE Most(0, required - worked)
    IN  [deficit |-> deficit, deductible |-> deficit > 0 /\ level = "MONTHLY"]

\* PATCH of a flag: who may resolve flags is answered from the hours of the body.
\* The flag is not read, so its level is not known, and nothing is stored.
PatchFlag(allowed, body) ==
    CASE ~allowed -> [status |-> 403]
      [] allowed /\ body.resolution = "" -> [status |-> 400]
      [] OTHER -> [status |-> 200,
                   answer |-> resolveFlag(body.resolution, body.deficitHours, body.bankOffsetHours)]

\* A plan is the sequence of the hours its months require.
validateQuotaPlan(plan, standard) ==
    LET expected == Len(plan) * standard
    IN  [valid     |-> plan # <<>> /\ Total(plan) >= expected,
         shortfall |-> Most(0, expected - Total(plan))]

createQuotaPlan(plan) == [months |-> plan, total |-> Total(plan)]

\* The required hours of the days left, rounded to whole hours, halves up.
calculateForceMajeureAdjustment(required, workDays, affected, consecutive) ==
    IF affected = 0 THEN [adjusted |-> required, reduction |-> 0, terminates |-> FALSE]
    ELSE LET left == (2 * required * (workDays - affected) + workDays) \div (2 * workDays)
         IN  [adjusted |-> left, reduction |-> required - left,
              terminates |-> consecutive > TerminationDays]

-----------------------------------------------------------------------------
(* What the rules promise for one input.                                   *)

\* A draw gives what is needed as far as usable entries reach, never more of an
\* entry than it has, nothing of an expired one, and leaves a later entry alone
\* while an earlier usable one has hours (applyBankOffset).
OffsetSound(two, needed, t) ==
    LET used == applyBankOffset(two, needed, t)
        usable == [i \in {1, 2} |-> IF Usable(two[i], t) THEN two[i].remaining ELSE 0]
    IN  /\ Total(used) = Least(needed, Total(usable))
        /\ \A i \in {1, 2} : used[i] \in 0 .. usable[i]
        /\ used[2] > 0 => used[1] = usable[1]

Levels == <<"DAILY", "WEEKLY", "MONTHLY">>

\* A resolution accounts for every hour it is told of, deducted or offset, or waives
\* them all; and of the flags that one shortfall raises at the three levels one is
\* deductible, but resolutions in full deduct it at each level: none of them asks
\* for the level (PatchFlag, resolveFlag, shouldGenerateFlag; REQ-FLAG-003 has the
\* monthly ones alone deduct).
ResolutionBalances(worked, required, offset, excused) ==
    LET lacking == IF excused THEN 0 ELSE Most(0, required - worked)
        found(level) == shouldGenerateFlag(level, worked, required, excused)
        resolved(level, resolution) ==
            PatchFlag(TRUE, [resolution |-> resolution, deficitHours |-> found(level).deficit,
                             bankOffsetHours |-> offset]).answer
    IN  /\ \A i \in 1 .. 3 :
              /\ \A r \in {"DEDUCT_FULL", "USE_BANK", "PARTIAL_BANK"} :
                    LET split == resolved(Levels[i], r)
                    IN  split.deduct + split.bank = found(Levels[i]).deficit /\ split.bank <= offset
              /\ \A r \in {"NO_PENALTY", "DISCUSS"} :
                    resolved(Levels[i], r).deduct = 0 /\ resolved(Levels[i], r).bank = 0
        /\ Total([i \in 1 .. 3 |-> IF found(Levels[i]).deductible
                                   THEN found(Levels[i]).deficit ELSE 0]) = lacking
        /\ Total([i \in 1 .. 3 |-> resolved(Levels[i], "DEDUCT_FULL").deduct]) = 3 * lacking

\* A redistribution keeps the hours: it falls short by exactly what would make it
\* valid, wherever that is added, an hour moved between months changes nothing,
\* and two plans that are valid each are valid as one (validateQuotaPlan).
PlanKeepsHours(plan, standard) ==
    LET verdict == validateQuotaPlan(plan, standard)
        With(i, hours) == [plan EXCEPT ![i] = @ + hours]
    IN  /\ verdict.valid => createQuotaPlan(plan).total >= Len(plan) * standard
        /\ \A i \in DOMAIN plan :
              /\ validateQuotaPlan(With(i, verdict.shortfall), standard).valid
              /\ verdict.shortfall > 0 =>
                   ~validateQuotaPlan(With(i, verdict.shortfall - 1), standard).valid
              /\ \A j \in DOMAIN plan \ {i} :
                   validateQuotaPlan([With(i, 1) EXCEPT ![j] = @ - 1], standard) = verdict
        /\ \A i \in 1 .. Len(plan) - 1 :
              validateQuotaPlan(SubSeq(plan, 1, i), standard).valid
                /\ validateQuotaPlan(SubSeq(plan, i + 1, Len(plan)), standard).valid
              => verdict.valid

\* Days on which nobody can work take away their share of the required hours, half
\* an hour off at most: one more such day never asks for more, all of them ask for
\* nothing; and days in a row end the contract once there are too many, if they
\* are among the days that count (calculateForceMajeureAdjustment).
ShareTaken(required, workDays, affected, consecutive) ==
    LET adjust(days) == calculateForceMajeureAdjustment(required, workDays, days, consecutive)
        off == workDays * adjust(affected).adjusted - required * (workDays - affected)
    IN  /\ 2 * off \in 0 - workDays .. workDays
        /\ adjust(affected).adjusted + adjust(affected).reduction = required
        /\ \A days \in affected .. workDays :
              adjust(days).adjusted \in 0 .. adjust(affected).adjusted
        /\ adjust(workDays).adjusted = 0
        /\ consecutive <= affected =>
              (adjust(affected).terminates <=> consecutive > TerminationDays)
=============================================================================
