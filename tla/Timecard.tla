------------------------------ MODULE Timecard ------------------------------
(***************************************************************************)
(* What the attendance service promises an employee: a timecard that grows *)
(* by one entry at a time, each entry allowed by the state machine in the  *)
(* state the card itself shows, and no two entries closer than the         *)
(* idempotency window.  It has no requests, no state record and no         *)
(* interleaving: an entry is checked and written in one step.              *)
(***************************************************************************)
EXTENDS StateMachine

CONSTANTS Employees,  \* employees with a timecard
          Times,      \* timestamps
          Window      \* ATTENDANCE.IDEMPOTENCY_WINDOW_MS

VARIABLE card         \* card[e][t]: the action recorded at t, or NoAction

Init == card = [e \in Employees |-> [t \in Times |-> NoAction]]

\* Record action a at time t: the promise of AttendanceService.processEvent.
Record(e, a, t) ==
    /\ \A u \in Recorded(card[e]) : t - u >= Window /\ u # t
    /\ \E s, to \in States : SessionIs(card[e], s) /\ <<s, a, to>> \in Transitions
    /\ card' = [card EXCEPT ![e][t] = a]

Next == \E e \in Employees, a \in Actions, t \in Times : Record(e, a, t)

Spec == Init /\ [][Next]_card

-----------------------------------------------------------------------------
TypeOK == card \in [Employees -> [Times -> Actions \cup {NoAction}]]

\* Each timecard is a run of the state machine (REQ-ATT-002: no double
\* clock-in, no clock-out without clock-in, no break without a session).
ValidCards == \A e \in Employees : FollowsMachine(card[e])

\* No two entries of a timecard are closer than the idempotency window.
SpacedCards == \A e \in Employees : SpacedBy(card[e], Window)

=============================================================================
