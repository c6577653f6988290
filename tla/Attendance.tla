----------------------------- MODULE Attendance -----------------------------
(***************************************************************************)
(* AttendanceService (packages/core/src/attendance/service.ts) over the    *)
(* single DynamoDB table.  A request is a Lambda invocation; every await   *)
(* of the service is a step boundary, so requests interleave between the   *)
(* lock check, the state check and the three writes.  Nothing but the      *)
(* creation of a lock is conditional and there is no transaction.          *)
(***************************************************************************)
EXTENDS StateMachine

CONSTANTS
    Employees,          \* employees who clock
    Groups,             \* employment types
    EmploymentType,     \* EmploymentType[e]: a group, or NoRecord
    NoRecord,           \* e has no employee record
    Requests,           \* request slots: how many may be in flight at once
    Months,
    MonthOf(_),         \* the month of a timestamp
    MaxTime,            \* bound on the clock
    Window,             \* ATTENDANCE.IDEMPOTENCY_WINDOW_MS
    LockKeys,           \* bound: the lock items administrators create
    Edits,              \* bound: the changes employees ask for (none: no edits)
    \* What the environment may do:
    Overlap,            \* two requests of one employee may be in flight together
    Faults,             \* an invocation may die at any await
    StaleReads          \* a read may return what the item was before its last write

Times == 0 .. MaxTime

ASSUME TimeAssumption == MaxTime \in Nat /\ Window \in Nat \ {0}
ASSUME MonthAssumption == \A t \in Times : MonthOf(t) \in Months
ASSUME EmployeeAssumption ==
    /\ EmploymentType \in [Employees -> Groups \cup {NoRecord}]
    /\ NoRecord \notin Groups
    /\ "nobody" \notin Employees
ASSUME SwitchAssumption ==
    Overlap \in BOOLEAN /\ Faults \in BOOLEAN /\ StaleReads \in BOOLEAN

\* Primary key of a lock item: LOCK#month, and COMPANY, GROUP#type or EMP#id.
LockItems == [month : Months, scope : {"COMPANY"}, target : {"ALL"}]
        \cup [month : Months, scope : {"GROUP"}, target : Groups]
        \cup [month : Months, scope : {"EMPLOYEE"}, target : Employees]

\* The handler of an edit takes any text for a timestamp or an action: one
\* that is no date has no month, one that is no action is stored all the same.
OtherTime   == -2
OtherAction == "OTHER"
Stamps      == Times \cup {OtherTime}
Labels      == Actions \cup {OtherAction}

\* An edit gives a new timestamp, a new action, both or neither.
Changes == [ts : Stamps \cup {NoTime}, action : Labels \cup {NoAction}]

ASSUME InputAssumption == LockKeys \subseteq LockItems /\ Edits \subseteq Changes

-----------------------------------------------------------------------------
(***************************************************************************)
(* The table.                                                              *)
(***************************************************************************)
VARIABLES
    now,         \* the clock of the Lambda hosts
    events,      \* events[e][k]: the item at EMP#e / ATT#date#k
    attState,    \* attState[e]: the item at EMP#e / ATT_STATE
    locks,       \* locks[k]: when the lock item appeared (history), or NoTime
    audit,       \* keys of the audit items
    stateCopy,   \* what a lagging replica still holds for attState
    lockCopy,    \* ... and which locks it shows
    req          \* req[r]: the request in slot r

vars == <<now, events, attState, locks, audit, stateCopy, lockCopy, req>>

\* An event item: its timestamp and its action.  Its id is its key.
Event   == [ts : Stamps \cup {NoTime}, action : Labels \cup {NoAction}]
NoEvent == [ts |-> NoTime, action |-> NoAction]
Stored(e, k) == events[e][k].action # NoAction

StateRecord == [state : States, last : Times \cup {NoTime}]
FreshState  == [state |-> "IDLE", last |-> NoTime]

\* The actions of e in the order of the keys: what getEventsForDate and
\* getEventsForMonth return.
Log(e) == [k \in Times |-> events[e][k].action]

\* The lock item k covers employee e in month m.
Covers(k, e, m) ==
    /\ k.month = m
    /\ \/ k.scope = "EMPLOYEE" /\ k.target = e
       \/ k.scope = "GROUP" /\ k.target = EmploymentType[e]
       \/ k.scope = "COMPANY"

AuditKey == [emp : Employees, at : Times, id : Times]

(***************************************************************************)
(* A request: where it is, for whom, when it started, and the write it is  *)
(* working towards: at key ref, an event of time ts and this action, which *)
(* leads to state to.  old is the timestamp of the event an edit has read. *)
(***************************************************************************)
ClockSteps == {"checkLocks", "readState", "saveEvent", "saveState", "auditClock"}
EditSteps  == {"getEvent", "editLocks", "editSave", "auditEdit"}

Request == [pc     : {"free"} \cup ClockSteps \cup EditSteps,
            emp    : Employees \cup {"nobody"},
            at     : Times \cup {NoTime},
            ref    : Times \cup {NoTime},
            old    : Stamps \cup {NoTime},
            ts     : Stamps \cup {NoTime},
            action : Labels \cup {NoAction},
            to     : States]

FreeRequest == [pc |-> "free", emp |-> "nobody", at |-> NoTime, ref |-> NoTime,
                old |-> NoTime, ts |-> NoTime, action |-> NoAction, to |-> "IDLE"]

Init ==
    /\ now = 0
    /\ events = [e \in Employees |-> [t \in Times |-> NoEvent]]
    /\ attState = [e \in Employees |-> FreshState]
    /\ locks = [k \in LockKeys |-> NoTime]
    /\ audit = {}
    /\ stateCopy = attState
    /\ lockCopy = {}
    /\ req = [r \in Requests |-> FreeRequest]

\* Request r ends, with whatever reply.
Finish(r) == req' = [req EXCEPT ![r] = FreeRequest]

\* Request r goes on to step pc.
Goto(r, pc) == req' = [req EXCEPT ![r].pc = pc]

\* The slot r is free, and e has no request in flight unless they overlap.
MayStart(r, e) ==
    /\ req[r].pc = "free"
    /\ Overlap \/ \A q \in Requests : req[q].emp # e

\* What a read of the state record, or of the locks, may return.
SeenStates(e) == {attState[e]} \cup (IF StaleReads THEN {stateCopy[e]} ELSE {})
SetLocks      == { k \in LockKeys : locks[k] # NoTime }
SeenLocks     == {SetLocks} \cup (IF StaleReads THEN {lockCopy} ELSE {})

-----------------------------------------------------------------------------
(***************************************************************************)
(* processEvent: the clock request of employee e, stamped with the time    *)
(* the handler runs.                                                       *)
(***************************************************************************)
Clock(r, e, a) ==
    /\ MayStart(r, e)
    /\ req' = [req EXCEPT ![r] = [FreeRequest EXCEPT
                 !.pc = "checkLocks", !.emp = e, !.at = now, !.ref = now,
                 !.ts = now, !.action = a]]
    /\ UNCHANGED <<now, events, attState, locks, audit, stateCopy, lockCopy>>

\* MUTANT: group locks are forgotten.
CheckLocksNoGroup(r) ==
    /\ req[r].pc = "checkLocks"
    /\ \E seen \in SeenLocks :
         IF \E k \in seen : k.scope # "GROUP" /\ Covers(k, req[r].emp, MonthOf(req[r].ts))
         THEN Finish(r)
         ELSE Goto(r, "readState")
    /\ UNCHANGED <<now, events, attState, locks, audit, stateCopy, lockCopy>>

\* checkLocks: any lock that covers the employee in the month of the timestamp.
CheckLocks(r) ==
    /\ req[r].pc = "checkLocks"
    /\ \E seen \in SeenLocks :
         IF \E k \in seen : Covers(k, req[r].emp, MonthOf(req[r].ts))
         THEN Finish(r)
         ELSE Goto(r, "readState")
    /\ UNCHANGED <<now, events, attState, locks, audit, stateCopy, lockCopy>>

\* MUTANT: off by one at the end of the window.
AlmostInTime(st, t) == st.last = NoTime \/ t - st.last >= Window - 1

\* Not before the last event, nor inside the idempotency window after it.
InTime(st, t) == st.last = NoTime \/ t - st.last >= Window

ReadState(r) ==
    /\ req[r].pc = "readState"
    /\ \E st \in SeenStates(req[r].emp) :
         \/ /\ InTime(st, req[r].ts)
            /\ \E to \in States :
                 /\ <<st.state, req[r].action, to>> \in Transitions
                 /\ req' = [req EXCEPT ![r].pc = "saveEvent", ![r].to = to]
         \/ /\ \/ ~InTime(st, req[r].ts)
               \/ \A to \in States : <<st.state, req[r].action, to>> \notin Transitions
            /\ Finish(r)
    /\ UNCHANGED <<now, events, attState, locks, audit, stateCopy, lockCopy>>

\* saveEvent: an unconditional Put.  A clock event goes to the key of its
\* timestamp; an edited one carries the PK and SK of the item it was read from,
\* which replace those built from its new timestamp, so it stays at its key.
PutEvent(r) ==
    events' = [events EXCEPT ![req[r].emp][req[r].ref] =
                 [ts |-> req[r].ts, action |-> req[r].action]]

\* MUTANT: the state is saved before the event, which a fault then loses.
SaveStateFirst(r) ==
    /\ req[r].pc = "saveEvent"
    /\ attState' = [attState EXCEPT ![req[r].emp] = [state |-> req[r].to, last |-> req[r].ts]]
    /\ Goto(r, "auditClock")
    /\ UNCHANGED <<now, events, locks, audit, stateCopy, lockCopy>>

\* MUTANT: the audit item is written first.
AuditFirst(r) ==
    /\ req[r].pc = "saveEvent"
    /\ audit' = audit \cup {[emp |-> req[r].emp, at |-> req[r].ts, id |-> req[r].ref]}
    /\ Finish(r)
    /\ UNCHANGED <<now, events, attState, locks, stateCopy, lockCopy>>

SaveEvent(r) ==
    /\ req[r].pc = "saveEvent"
    /\ PutEvent(r)
    /\ Goto(r, "saveState")
    /\ UNCHANGED <<now, attState, locks, audit, stateCopy, lockCopy>>

\* MUTANT: the action is stored for the state.
SaveActionAsState(r) ==
    /\ req[r].pc = "saveState"
    /\ attState' = [attState EXCEPT ![req[r].emp] = [state |-> req[r].action, last |-> req[r].ts]]
    /\ Goto(r, "auditClock")
    /\ UNCHANGED <<now, events, locks, audit, stateCopy, lockCopy>>

\* MUTANT: the new state is not stored.
SaveTimeOnly(r) ==
    /\ req[r].pc = "saveState"
    /\ attState' = [attState EXCEPT ![req[r].emp] = [state |-> attState[req[r].emp].state, last |-> req[r].ts]]
    /\ Goto(r, "auditClock")
    /\ UNCHANGED <<now, events, locks, audit, stateCopy, lockCopy>>

\* MUTANT: the time of the event is not stored.
SaveStateOnly(r) ==
    /\ req[r].pc = "saveState"
    /\ attState' = [attState EXCEPT ![req[r].emp] = [state |-> req[r].to, last |-> attState[req[r].emp].last]]
    /\ Goto(r, "auditClock")
    /\ UNCHANGED <<now, events, locks, audit, stateCopy, lockCopy>>

\* MUTANT: the audit item is forgotten.
SaveStateAndReturn(r) ==
    /\ req[r].pc = "saveState"
    /\ attState' = [attState EXCEPT ![req[r].emp] = [state |-> req[r].to, last |-> req[r].ts]]
    /\ Finish(r)
    /\ UNCHANGED <<now, events, locks, audit, stateCopy, lockCopy>>

SaveState(r) ==
    /\ req[r].pc = "saveState"
    /\ attState' = [attState EXCEPT ![req[r].emp] =
                      [state |-> req[r].to, last |-> req[r].ts]]
    /\ Goto(r, "auditClock")
    /\ UNCHANGED <<now, events, locks, audit, stateCopy, lockCopy>>

\* append: an unconditional Put at AUDIT#emp / timestamp#AUDIT#id.
AuditClock(r) ==
    /\ req[r].pc = "auditClock"
    /\ audit' = audit \cup {[emp |-> req[r].emp, at |-> req[r].ts, id |-> req[r].ref]}
    /\ Finish(r)
    /\ UNCHANGED <<now, events, attState, locks, stateCopy, lockCopy>>

-----------------------------------------------------------------------------
(***************************************************************************)
(* editEvent: employee e changes the timestamp, the action, or both (or    *)
(* neither) of the own event named by key ref.                             *)
(***************************************************************************)
StartEdit(r, e, ref, change) ==
    /\ MayStart(r, e)
    /\ req' = [req EXCEPT ![r] = [FreeRequest EXCEPT
                 !.pc = "getEvent", !.emp = e, !.at = now, !.ref = ref,
                 !.ts = change.ts, !.action = change.action]]
    /\ UNCHANGED <<now, events, attState, locks, audit, stateCopy, lockCopy>>

\* getEventById, and the updated event: fields not given keep their value.
GetEvent(r) ==
    /\ req[r].pc = "getEvent"
    /\ LET q == req[r]
           found == events[q.emp][q.ref]
       IN  IF ~Stored(q.emp, q.ref)
           THEN Finish(r)
           ELSE req' = [req EXCEPT
                  ![r].pc = "editLocks",
                  ![r].old = found.ts,
                  ![r].ts = IF q.ts = NoTime THEN found.ts ELSE q.ts,
                  ![r].action = IF q.action = NoAction THEN found.action ELSE q.action]
    /\ UNCHANGED <<now, events, attState, locks, audit, stateCopy, lockCopy>>

\* A lock of the month of the OLD timestamp of an edit, whoever it covers.
LocksOld(k, q) == q.old \in Times /\ k.month = MonthOf(q.old)

EditLocks(r) ==
    /\ req[r].pc = "editLocks"
    /\ \E seen \in SeenLocks :
         IF \E k \in seen : LocksOld(k, req[r])
         THEN Finish(r)
         ELSE Goto(r, "editSave")
    /\ UNCHANGED <<now, events, attState, locks, audit, stateCopy, lockCopy>>

EditSave(r) ==
    /\ req[r].pc = "editSave"
    /\ PutEvent(r)
    /\ Goto(r, "auditEdit")
    /\ UNCHANGED <<now, attState, locks, audit, stateCopy, lockCopy>>

\* The audit item of an edit is stamped with the time it is written.
AuditEdit(r) ==
    /\ req[r].pc = "auditEdit"
    /\ audit' = audit \cup {[emp |-> req[r].emp, at |-> now, id |-> req[r].ref]}
    /\ Finish(r)
    /\ UNCHANGED <<now, events, attState, locks, stateCopy, lockCopy>>

-----------------------------------------------------------------------------
(***************************************************************************)
(* createLock (a Put conditional on the key being absent), removeLock, and *)
(* the environment.                                                        *)
(***************************************************************************)
CreateLock(k) ==
    /\ locks[k] = NoTime
    /\ locks' = [locks EXCEPT ![k] = now]
    /\ UNCHANGED <<now, events, attState, audit, stateCopy, lockCopy, req>>

RemoveLock(k) ==
    /\ locks[k] # NoTime
    /\ locks' = [locks EXCEPT ![k] = NoTime]
    /\ UNCHANGED <<now, events, attState, audit, stateCopy, lockCopy, req>>

\* The invocation dies (thrown SDK error, Lambda timeout): the steps it has
\* not reached never happen, those it has are not undone.
Die(r) ==
    /\ Faults
    /\ req[r].pc # "free"
    /\ Finish(r)
    /\ UNCHANGED <<now, events, attState, locks, audit, stateCopy, lockCopy>>

ReplicateState(e) ==
    /\ StaleReads
    /\ stateCopy[e] # attState[e]
    /\ stateCopy' = [stateCopy EXCEPT ![e] = attState[e]]
    /\ UNCHANGED <<now, events, attState, locks, audit, lockCopy, req>>

ReplicateLocks ==
    /\ StaleReads
    /\ lockCopy # SetLocks
    /\ lockCopy' = SetLocks
    /\ UNCHANGED <<now, events, attState, locks, audit, stateCopy, req>>

Tick ==
    /\ now < MaxTime
    /\ now' = now + 1
    /\ UNCHANGED <<events, attState, locks, audit, stateCopy, lockCopy, req>>

Proceed(r) ==
    \/ CheckLocks(r) \/ ReadState(r) \/ SaveEvent(r) \/ SaveState(r) \/ AuditClock(r)
    \/ GetEvent(r) \/ EditLocks(r) \/ EditSave(r) \/ AuditEdit(r)

Next ==
    \/ \E r \in Requests :
         \/ \E e \in Employees, a \in Actions : Clock(r, e, a)
         \/ \E e \in Employees, ref \in Times, change \in Edits :
              StartEdit(r, e, ref, change)
         \/ Proceed(r)
         \/ Die(r)
    \/ \E k \in LockKeys : CreateLock(k) \/ RemoveLock(k)
    \/ \E e \in Employees : ReplicateState(e)
    \/ ReplicateLocks
    \/ Tick

Spec == Init /\ [][Next]_vars

\* Lambda runs an invocation until it ends.
Fairness == \A r \in Requests : WF_vars(Proceed(r))
FairSpec == Spec /\ Fairness

-----------------------------------------------------------------------------
(***************************************************************************)
(* Properties.                                                             *)
(***************************************************************************)
TypeOK ==
    /\ now \in Times
    /\ events \in [Employees -> [Times -> Event]]
    /\ attState \in [Employees -> StateRecord]
    /\ locks \in [LockKeys -> Times \cup {NoTime}]
    /\ audit \subseteq AuditKey
    /\ stateCopy \in [Employees -> StateRecord]
    /\ lockCopy \subseteq LockKeys
    /\ req \in [Requests -> Request]

\* The state record always points at an event that is in the table, whatever
\* overlaps, dies or is edited: the event is written before the state, and no
\* operation deletes or empties an event item (service.ts:253-259).
StateBacked ==
    \A e \in Employees :
        attState[e].last # NoTime => Stored(e, attState[e].last)

\* The audit trail never speaks of an event that was not written: each audit
\* item is appended after the Put it reports (service.ts:151-162, 253-270).
AuditBacked == \A a \in audit : Stored(a.emp, a.id)

\* Request r is about to append the audit item of event id of employee e.
WillAudit(r, e, id) ==
    req[r].emp = e /\ req[r].ref = id /\ req[r].pc \in {"saveState", "auditClock"}

\* As long as no invocation dies, every event in the table has the audit item
\* of its clock action, or a request on its way to append it: no interleaving
\* and no edit loses one (REQ-AUDIT-001).
AuditComplete ==
    \A e \in Employees, k \in Times :
        Stored(e, k) =>
            \/ \E a \in audit : a.emp = e /\ a.id = k
            \/ \E r \in Requests : WillAudit(r, e, k)

\* A request that has passed its lock check can only be overtaken by locks
\* placed after it started: a lock that stood on the month of its event when
\* the request came in is never ignored (service.ts:206-209, 275-307; edits,
\* by the month of the event as it was: 139-143).
LockRespected ==
    \A r \in Requests, k \in LockKeys :
        /\ req[r].pc \in {"readState", "saveEvent"} =>
              (Covers(k, req[r].emp, MonthOf(req[r].ts)) =>
                 locks[k] = NoTime \/ locks[k] >= req[r].at)
        /\ req[r].pc = "editSave" =>
              (LocksOld(k, req[r]) =>
                 locks[k] = NoTime \/ locks[k] >= req[r].at)

\* The log of each employee is a run of the state machine (REQ-ATT-002).
ValidLog == \A e \in Employees : FollowsMachine(Log(e))

\* The idempotency window separates any two events of an employee.
SpacedLog == \A e \in Employees : SpacedBy(Log(e), Window)

\* Between requests, the state record is what a reader of the log would
\* conclude, so getState and the events endpoints tell the same story.
StateAgrees ==
    \A e \in Employees :
        (\A r \in Requests : req[r].emp = e => req[r].pc # "saveState") =>
            /\ SessionIs(Log(e), attState[e].state)
            /\ \A t \in Recorded(Log(e)) : t <= attState[e].last

\* The timecard an outside reader of the event items sees.
CardOf == [e \in Employees |-> Log(e)]

TC == INSTANCE Timecard WITH card <- CardOf

\* The service implements the timecard (checked with every switch off).
ImplementsTimecard == TC!Spec

\* Every event that is written gets its audit item (no invocation dies).
EveryEventAudited ==
    \A e \in Employees, k \in Times :
        Stored(e, k) ~> \E a \in audit : a.emp = e /\ a.id = k

=============================================================================
