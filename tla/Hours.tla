-------------------------------- MODULE Hours --------------------------------
(***************************************************************************)
(* calculateDailyHours (packages/core/src/attendance/hours-calculator.ts): *)
(* from the clock events of a day to its sessions, and to hours.  Beside   *)
(* it the reference the hours are compared with: the time the state        *)
(* machine spends clocked in.                                              *)
(*                                                                         *)
(* Time is in slots of SlotSeconds, a day is DaySlots of them; hours are   *)
(* counted in hundredths, as the code rounds them.                         *)
(***************************************************************************)
EXTENDS StateMachine, SequencesExt

CONSTANTS DaySlots, SlotSeconds

ASSUME SlotAssumption == DaySlots \in Nat \ {0} /\ SlotSeconds \in Nat \ {0}

DayOf(time) == time \div DaySlots        \* isoToDateStr of a timestamp

\* Math.round(a / b): halves go up, of negative numbers too.
Round(a, b) == (2 * a + b) \div (2 * b)

Sum(f(_), S) == SumFunctionOnSet([x \in S |-> f(x)], S)

-----------------------------------------------------------------------------
(***************************************************************************)
(* buildSessions.                                                          *)
(***************************************************************************)
Break   == [start : Nat, end : Nat \cup {NoTime}]
Session == [clockIn : Nat, clockOut : Nat \cup {NoTime}, breaks : Seq(Break)]

\* MUTANT: a day has one session.
Reopened(sessions, time) == << [clockIn |-> time, clockOut |-> NoTime, breaks |-> << >>] >>

Opened(sessions, time) ==
    Append(sessions, [clockIn |-> time, clockOut |-> NoTime, breaks |-> << >>])

\* One event: the sessions so far, and whether the last one is the current one.
Step(acc, event) ==
    LET n       == Len(acc.sessions)
        current == acc.sessions[n]
        WithBreaks(breaks) == [acc EXCEPT !.sessions[n].breaks = breaks]
        open    == SelectInSeq(current.breaks, LAMBDA b : b.end = NoTime)
    IN  CASE event.action = "CLOCK_IN" ->
               [sessions |-> Opened(acc.sessions, event.time), inSession |-> TRUE]
          [] event.action = "CLOCK_OUT" /\ acc.inSession ->
               [acc EXCEPT !.sessions[n].clockOut = event.time, !.inSession = FALSE]
          [] event.action = "BREAK_START" /\ acc.inSession ->
               WithBreaks(Append(current.breaks, [start |-> event.time, end |-> NoTime]))
          [] event.action = "BREAK_END" /\ acc.inSession /\ open # 0 ->
               WithBreaks([current.breaks EXCEPT ![open].end = event.time])
          [] OTHER -> acc

Sessions(events) ==
    FoldLeft(Step, [sessions |-> << >>, inSession |-> FALSE], events).sessions

\* MUTANT: the length of a break is not taken off.
BreakIgnored(session) == 0

\* sumBreakMs, in slots: the breaks that have ended.
BreakSlots(session) ==
    Sum(LAMBDA i : session.breaks[i].end - session.breaks[i].start,
        { i \in DOMAIN session.breaks : session.breaks[i].end # NoTime })

WorkedMinutes(session) ==
    Round((session.clockOut - session.clockIn - BreakSlots(session)) * SlotSeconds, 60)

\* workedHours of calculateDailyHours: the closed sessions.
DailyHours(events) ==
    LET sessions == Sessions(events)
        closed   == { i \in DOMAIN sessions : sessions[i].clockOut # NoTime }
    IN  Round(100 * Sum(LAMBDA i : WorkedMinutes(sessions[i]), closed), 60)

\* MUTANT: a break that has not ended is worked through.
HoursThroughBreak(events, now) ==
    LET sessions == Sessions(events)
        open     == SelectInSeq(sessions, LAMBDA s : s.clockOut = NoTime)
        session  == sessions[open]
        elapsed  == now - session.clockIn - BreakSlots(session)
    IN  DailyHours(events) + IF open = 0 THEN 0 ELSE Round(100 * elapsed * SlotSeconds, 3600)

\* addOpenSessionHours of AttendanceService: the hours of a day plus what has
\* elapsed, at time now, of its first session that is open.
HoursSoFar(events, now) ==
    LET sessions == Sessions(events)
        open     == SelectInSeq(sessions, LAMBDA s : s.clockOut = NoTime)
        session  == sessions[open]
        openBreaks == Sum(LAMBDA i : now - session.breaks[i].start,
                          { i \in DOMAIN session.breaks : session.breaks[i].end = NoTime })
        elapsed  == now - session.clockIn - openBreaks - BreakSlots(session)
    IN  DailyHours(events) + IF open = 0 THEN 0 ELSE Round(100 * elapsed * SlotSeconds, 3600)

-----------------------------------------------------------------------------
(***************************************************************************)
(* The reference, for a log of legal transitions: the employee works from  *)
(* each CLOCK_IN or BREAK_END to the next event, or until now, and the     *)
(* time counts toward the day of the CLOCK_IN.                             *)
(***************************************************************************)
Working(log, i) == log[i].action \in {"CLOCK_IN", "BREAK_END"}

ClockInOf(log, i) == Max({ j \in 1 .. i : log[j].action = "CLOCK_IN" })

\* The event that ends the stretch i begins is in the log.
Ended(log, i) == i < Len(log)

\* The session i belongs to has been closed.
Closed(log, i) == \E j \in i .. Len(log) : log[j].action = "CLOCK_OUT"

Stretch(log, i, now) == (IF Ended(log, i) THEN log[i + 1].time ELSE now) - log[i].time

\* The seconds worked in the sessions begun on day d: the closed ones, or all.
SecondsWorked(log, d, now, all) ==
    SlotSeconds *
    Sum(LAMBDA i : Stretch(log, i, now),
        { i \in DOMAIN log : /\ Working(log, i)
                             /\ DayOf(log[ClockInOf(log, i)].time) = d
                             /\ all \/ Closed(log, i) })

ClockIns(log, d) ==
    Cardinality({ i \in DOMAIN log : log[i].action = "CLOCK_IN" /\ DayOf(log[i].time) = d })

=============================================================================
