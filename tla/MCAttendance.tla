---------------------------- MODULE MCAttendance ----------------------------
(***************************************************************************)
(* Instances of Attendance for TLC: one employee, in one month.            *)
(***************************************************************************)
EXTENDS ClockPanel, TLC

CONSTANTS ann, full, part, noRecord, r1, r2

\* One employee: the state machine under every interleaving.
One == {ann}
OneType == (ann :> full)

TwoGroups == {full, part}

\* Lock items: on everybody; on ann and on her group.
CompanyLock == [month : Months, scope : {"COMPANY"}, target : {"ALL"}]
ScopedLocks == [month : Months, scope : {"GROUP"}, target : {full}]
          \cup [month : Months, scope : {"EMPLOYEE"}, target : Employees]
NoLocks     == {}

\* Edits: none; an action and a timestamp at once; texts that are neither.
NoEdits == {}
Repair  == [ts : {1}, action : {"CLOCK_OUT"}]
Scrawl  == [ts : {OtherTime}, action : {OtherAction}]

OneMonth == {0}
SameMonth(t) == 0

Slots == Permutations({r1, r2})
=============================================================================
