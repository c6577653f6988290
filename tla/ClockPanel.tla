---------------------------- MODULE ClockPanel -----------------------------
(***************************************************************************)
(* The clock widget of the web application beside the clock service: the   *)
(* buttons it enables for the state record it was given.                   *)
(***************************************************************************)
EXTENDS Attendance

Buttons == [IDLE       |-> {"CLOCK_IN"},
            CLOCKED_IN |-> {"CLOCK_OUT", "BREAK_START"},
            ON_BREAK   |-> {"BREAK_END"}]

CoolingDown(st) == st.last # NoTime /\ now - st.last < Window

\* MUTANT: enabled one tick early
Offered_Early(st) ==
    IF st.last # NoTime /\ now - st.last < Window - 1 THEN {} ELSE Buttons[st.state]
Offered(st) == IF CoolingDown(st) THEN {} ELSE Buttons[st.state]

\* The log may be continued with a now.
Continues(log, a) ==
    LET longer == [log EXCEPT ![now] = a]
    IN  log[now] = NoAction /\ FollowsMachine(longer) /\ SpacedBy(longer, Window)

\* For an employee without a request in flight, the widget enables exactly the
\* actions with which the recorded log can go on now: no button leads to a
\* refusal other than a lock's, and no action that is due is missing (ClockWidget,
\* against the log and not the record it was drawn from).
OfferedAccepted == \A e \in Employees :
    (\A r \in Requests : req[r].emp # e) =>
        Offered(attState[e]) = {a \in Actions : Continues(Log(e), a)}
=============================================================================
