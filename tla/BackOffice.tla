----------------------------- MODULE BackOffice -----------------------------
(***************************************************************************)
(* The pure rules of the back office beside the scheduled checks: bank,    *)
(* flags, quotas, overtime, leave accrual, the cascade of policies, the    *)
(* public holidays and the terms of a settlement.  A rule reads no state,  *)
(* so it is asked only while nothing else has happened, about one of its   *)
(* inputs at a time.                                                       *)
(***************************************************************************)
EXTENDS Cron, Settlement

CONSTANTS
    MaxDays, MaxTenure,   \* bounds of the inputs of Accrual
    Years,      \* bound: the years whose holidays are asked for
    ExitYears,  \* bound: the years in which somebody leaves
    Rates, WarningShare, MaxKind, MaxLimit,
    Fields, Leaves, Depth,    \* of policies
    Layers      \* bound: the layers of policies that are merged

ASSUME InputAssumption == MaxDays \in Nat /\ MaxTenure \in Nat /\ MaxKind \in Nat /\ MaxLimit \in Nat
ASSUME ExitAssumption ==
    ExitYears \subseteq Int /\ ConfidentialityYears \in Nat /\ CurePeriodDays \in Nat
ASSUME RatesAssumption ==
    /\ Rates.standard \in Nat /\ Rates.lateNight \in Nat
    /\ Rates.holiday \in Nat /\ Rates.excess60h \in Nat
    /\ WarningShare \in 0 .. 100

LeaveRules == INSTANCE Accrual
Cascade == INSTANCE Policy
ByTheHour == INSTANCE Overtime

ASSUME LayerAssumption ==
    /\ Depth \in Nat
    /\ Layers \subseteq [fields : Cascade!Documents[Depth], effectiveFrom : Nat]

VARIABLE asked      \* the input a rule was asked about
Nothing == [rule |-> "none"]

AskDraw == \E a, b \in [expires : 0 .. 2, remaining : Hours],
               needed \in Hours, t \in 0 .. 3 * SlotsPerDay :
    asked' = [rule |-> "draw", entries |-> <<a, b>>, needed |-> needed, at |-> t]
AskFlag == \E worked, required, offset \in Hours, excused \in BOOLEAN :
    asked' = [rule |-> "flag", worked |-> worked, required |-> required,
              offset |-> offset, excused |-> excused]
AskPlan == \E months \in 0 .. 3 : \E plan \in [1 .. months -> 1 .. 4], standard \in 1 .. 3 :
    asked' = [rule |-> "plan", plan |-> plan, standard |-> standard]
AskShare == \E required \in 0 .. 9, workDays \in 1 .. 4 :
    \E affected, consecutive \in 0 .. workDays :
        asked' = [rule |-> "share", required |-> required, workDays |-> workDays,
                  affected |-> affected, consecutive |-> consecutive]
AskOvertime == \E hours \in ByTheHour!Worked, before, limit \in ByTheHour!Limits :
    asked' = [rule |-> "overtime", hours |-> hours, before |-> before, limit |-> limit]
AskExit == \E y \in ExitYears, amount \in {1, 45, 100} : \E date \in DatesOf(y) :
    asked' = [rule |-> "exit", date |-> date, amount |-> amount]
AskAccrual == \E p \in LeaveRules!Policies, balance \in LeaveRules!Days,
                  tenure, age \in LeaveRules!Months : \E carryOver \in 0 .. balance :
    asked' = [rule |-> "accrual", policy |-> p, balance |-> balance, tenure |-> tenure,
              carryOver |-> carryOver, age |-> age]
AskGrant == \E s \in LeaveRules!Schedules, start, tenure \in LeaveRules!Months :
    asked' = [rule |-> "grant", schedule |-> s, start |-> start, tenure |-> tenure]
AskPolicy == \E region, company, group, user \in Layers, reference \in {0, 1} :
    asked' = [rule |-> "policy", layers |-> <<region, company, group, user>>,
              reference |-> reference]
AskYear == \E y \in Years \cap SupportedYears : asked' = [rule |-> "year", year |-> y]

AskRule == AskDraw \/ AskFlag \/ AskPlan \/ AskShare \/ AskOvertime
           \/ AskAccrual \/ AskGrant \/ AskPolicy \/ AskYear \/ AskExit
Forget  == asked # Nothing /\ asked' = Nothing /\ UNCHANGED vars

OfficeInit == Init /\ asked = Nothing
OfficeNext ==
    \/ asked = Nothing /\ Next /\ UNCHANGED asked
    \/ asked = Nothing /\ Init /\ AskRule /\ UNCHANGED vars
    \/ Forget
OfficeSpec == OfficeInit /\ [][OfficeNext]_<<vars, asked>>

-----------------------------------------------------------------------------
(* Properties.                                                             *)

\* A draw takes the hours needed from entries that are still usable, in their order;
\* a resolution splits the hours it is told of, and deducts them at any level it is
\* asked for; a redistribution loses no hour, and force majeure takes its share and
\* no more (applyBankOffset, PatchFlag, resolveFlag, shouldGenerateFlag,
\* validateQuotaPlan, calculateForceMajeureAdjustment).
HoursAddUp ==
    /\ asked.rule = "draw" => OffsetSound(asked.entries, asked.needed, asked.at)
    /\ asked.rule = "flag" =>
         ResolutionBalances(asked.worked, asked.required, asked.offset, asked.excused)
    /\ asked.rule = "plan" => PlanKeepsHours(asked.plan, asked.standard)
    /\ asked.rule = "share" =>
         ShareTaken(asked.required, asked.workDays, asked.affected, asked.consecutive)

\* Up to the threshold each hour of overtime is paid its rate, beyond it the higher
\* rate and, against REQ-OT-003, its base rate as well; and the verdicts on the limits
\* rise one by one as the hours do (calculateOvertimePay, check36AgreementLimits,
\* checkDeemedOvertimeThreshold).
OvertimeEscalates ==
    asked.rule = "overtime" => ByTheHour!OneMoreHour(asked.hours, asked.before, asked.limit)

\* A month's accrual stays within the cap and reports every day it adds or takes
\* from a balance that is within it, and grants follow the tenure
\* (calculateAccrual, getJpAccrualDays).
AccrualSound ==
    /\ asked.rule = "accrual" =>
         LeaveRules!WithinCap(asked.policy, asked.balance, asked.tenure, asked.carryOver, asked.age)
    /\ asked.rule = "grant" =>
         LeaveRules!GrantsFollowTenure(asked.schedule, asked.start, asked.tenure)

\* Every field of the merged policy is what the most specific layer in force says
\* of it (resolveCascadeWithRegion).
MostSpecificWins ==
    asked.rule = "policy" => Cascade!FieldsDecided(asked.layers, asked.reference)

\* The generated holidays of every year are those the Act describes; the settlement
\* is due on the 15th of the month that follows a termination, or one month late if
\* that month is too short for its day; and the obligations have their length on
\* every date (generateJpHolidays, getSettlementPreview, buildLegalObligations).
CalendarKept ==
    /\ asked.rule = "year" => ListIsLawful(asked.year)
    /\ asked.rule = "exit" => TermsHold(asked.date, asked.amount)

=============================================================================
