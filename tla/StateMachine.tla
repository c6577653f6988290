---------------------------- MODULE StateMachine ----------------------------
(***************************************************************************)
(* The attendance state machine of packages/core/src/attendance/           *)
(* state-machine.ts: which action is allowed in which state, and the state *)
(* it leads to.  Shared by the timecard (Timecard) and by the request      *)
(* handlers (Attendance).                                                  *)
(***************************************************************************)
EXTENDS Integers

States  == {"IDLE", "CLOCKED_IN", "ON_BREAK"}
Actions == {"CLOCK_IN", "CLOCK_OUT", "BREAK_START", "BREAK_END"}

\* VALID_TRANSITIONS, one triple <<state, action, new state>> per entry.
Transitions == { <<"IDLE",       "CLOCK_IN",    "CLOCKED_IN">>,
                 <<"CLOCKED_IN", "CLOCK_OUT",   "IDLE">>,
                 <<"CLOCKED_IN", "BREAK_START", "ON_BREAK">>,
                 <<"ON_BREAK",   "BREAK_END",   "CLOCKED_IN">> }

\* "No such item": a missing timestamp, and the action of an empty table key.
NoTime   == -1
NoAction == "NONE"

(***************************************************************************)
(* Logs.  A log is a function from timestamps to the action recorded under *)
(* that timestamp, or NoAction.                                            *)
(***************************************************************************)
Recorded(log) == { t \in DOMAIN log : log[t] # NoAction }

\* p is the entry just before t.
Precedes(log, p, t) ==
    /\ p \in Recorded(log)
    /\ t \in Recorded(log)
    /\ p < t
    /\ \A u \in Recorded(log) : u <= p \/ t <= u

\* The state a reader of the log puts the employee in: IDLE when it is empty,
\* the target of its latest entry otherwise.
SessionIs(log, s) ==
    \/ Recorded(log) = {} /\ s = "IDLE"
    \/ \E t \in Recorded(log), from \in States :
         /\ \A u \in Recorded(log) : u <= t
         /\ <<from, log[t], s>> \in Transitions

\* Every entry was allowed in the state its predecessor led to.
FollowsMachine(log) ==
    \A t \in Recorded(log) :
        \/ /\ \A u \in Recorded(log) : t <= u
           /\ log[t] = "CLOCK_IN"
        \/ \E p \in Recorded(log), from, s, to \in States :
             /\ Precedes(log, p, t)
             /\ <<from, log[p], s>> \in Transitions
             /\ <<s, log[t], to>> \in Transitions

\* Distinct entries are at least w apart.
SpacedBy(log, w) ==
    \A p, t \in Recorded(log) : p < t => t - p >= w

=============================================================================
