-------------------------- MODULE AttendanceProofs --------------------------
(***************************************************************************)
(* Proofs about Attendance, for every set of employees and requests, every *)
(* lock policy, every clock bound and every idempotency window.            *)
(***************************************************************************)
EXTENDS ClockPanel, CommonLemmas

\* Where a request is tells which of its fields are meaningful.
RequestOK(q) ==
    /\ q.pc = "free" <=> q.emp = "nobody"
    /\ q.pc \in ClockSteps =>
         /\ q.ts \in Times /\ q.action \in Actions
         /\ q.at = q.ts /\ q.ref = q.ts
    /\ q.pc \in EditSteps => q.at \in Times /\ q.ref \in Times
    /\ q.pc \in EditSteps \ {"getEvent"} =>
         q.ts \in Stamps /\ q.action \in Labels

Shape ==
    /\ TypeOK
    /\ \A r \in Requests : RequestOK(req[r])
    /\ \A e \in Employees, t \in Times : Stored(e, t) => events[e][t].ts \in Stamps

\* The shape every step keeps: types, and the fields each step relies on.
LEMMA ShapeInv == Spec => []Shape
<1> USE TimeAssumption, EmployeeAssumption DEF Times, NoTime, NoAction,
           Stamps, Labels, OtherTime, OtherAction, Actions
<1>1. Init => Shape
  BY DEF Init, Shape, TypeOK, RequestOK, Stored, NoEvent, FreshState, FreeRequest,
         Event, StateRecord, Request, States, ClockSteps, EditSteps
<1>2. Shape /\ [Next]_vars => Shape'
  <2> SUFFICES ASSUME Shape, [Next]_vars
               PROVE  Shape'
    OBVIOUS
  <2> USE DEF Shape, TypeOK
  <2>a. ASSUME NEW r \in Requests, NEW q \in Request, RequestOK(q),
               req' = [req EXCEPT ![r] = q],
               UNCHANGED <<now, events, attState, locks, audit, stateCopy, lockCopy>>
        PROVE  Shape'
    BY <2>a DEF Stored
  <2>b. FreeRequest \in Request /\ RequestOK(FreeRequest)
    BY DEF FreeRequest, Request, RequestOK, States, ClockSteps, EditSteps
  <2>1. ASSUME NEW r \in Requests, NEW e \in Employees, NEW a \in Actions, Clock(r, e, a)
        PROVE  Shape'
    <3> DEFINE q == [FreeRequest EXCEPT
                 !.pc = "checkLocks", !.emp = e, !.at = now, !.ref = now,
                 !.ts = now, !.action = a]
    <3>1. q \in Request /\ RequestOK(q)
      BY DEF FreeRequest, Request, RequestOK, States, ClockSteps, EditSteps
    <3>2. QED BY <3>1, <2>1, <2>a DEF Clock
  <2>2. ASSUME NEW r \in Requests, NEW e \in Employees, NEW ref \in Times,
               NEW change \in Edits, StartEdit(r, e, ref, change)
        PROVE  Shape'
    <3> DEFINE q == [FreeRequest EXCEPT
                 !.pc = "getEvent", !.emp = e, !.at = now, !.ref = ref,
                 !.ts = change.ts, !.action = change.action]
    <3>1. change \in Changes
      BY InputAssumption
    <3>2. q \in Request /\ RequestOK(q)
      BY <3>1 DEF FreeRequest, Request, RequestOK, States, ClockSteps, EditSteps, Changes
    <3>3. QED BY <3>2, <2>2, <2>a DEF StartEdit
  <2>3. ASSUME NEW r \in Requests, CheckLocks(r)
        PROVE  Shape'
    <3> DEFINE q == [req[r] EXCEPT !.pc = "readState"]
    <3>1. req[r].pc = "checkLocks" /\ req[r] \in Request /\ RequestOK(req[r])
      BY <2>3 DEF CheckLocks
    <3>2. q \in Request /\ RequestOK(q)
      BY <3>1 DEF Request, RequestOK, States, ClockSteps, EditSteps
    <3>3. req' = [req EXCEPT ![r] = q] \/ req' = [req EXCEPT ![r] = FreeRequest]
      BY <2>3 DEF CheckLocks, Goto, Finish
    <3>4. QED BY <3>2, <3>3, <2>3, <2>a, <2>b DEF CheckLocks
  <2>4. ASSUME NEW r \in Requests, ReadState(r)
        PROVE  Shape'
    <3>1. req[r].pc = "readState" /\ req[r] \in Request /\ RequestOK(req[r])
      BY <2>4 DEF ReadState
    <3>2. ASSUME NEW to \in States
          PROVE  LET q == [req[r] EXCEPT !.pc = "saveEvent", !.to = to]
                 IN  q \in Request /\ RequestOK(q)
      BY <3>1 DEF Request, RequestOK, States, ClockSteps, EditSteps
    <3>3. \/ \E to \in States :
               req' = [req EXCEPT ![r] = [req[r] EXCEPT !.pc = "saveEvent", !.to = to]]
          \/ req' = [req EXCEPT ![r] = FreeRequest]
      BY <2>4 DEF ReadState, Finish
    <3>4. QED BY <3>2, <3>3, <2>4, <2>a, <2>b DEF ReadState
  <2>5. ASSUME NEW r \in Requests, SaveEvent(r)
        PROVE  Shape'
    <3> DEFINE q == [req[r] EXCEPT !.pc = "saveState"]
    <3>1. req[r].pc = "saveEvent" /\ req[r] \in Request /\ RequestOK(req[r])
          /\ req' = [req EXCEPT ![r] = q]
      BY <2>5 DEF SaveEvent, Goto
    <3>2. q \in Request /\ RequestOK(q)
      BY <3>1 DEF Request, RequestOK, States, ClockSteps, EditSteps
    <3>3. req[r].emp \in Employees /\ req[r].ts \in Times /\ req[r].ref \in Times
      BY <3>1 DEF Request, RequestOK, States, ClockSteps, EditSteps
    <3>4. events' \in [Employees -> [Times -> Event]]
      BY <2>5, <3>3 DEF SaveEvent, PutEvent, Event, Request
    <3>5. \A e \in Employees, t \in Times : Stored(e, t)' => events'[e][t].ts \in Stamps
      BY <2>5, <3>3 DEF SaveEvent, PutEvent, Stored
    <3>6. QED BY <3>1, <3>2, <3>4, <3>5, <2>5 DEF SaveEvent
  <2>6. ASSUME NEW r \in Requests, SaveState(r)
        PROVE  Shape'
    <3> DEFINE q == [req[r] EXCEPT !.pc = "auditClock"]
    <3>1. req[r].pc = "saveState" /\ req[r] \in Request /\ RequestOK(req[r])
          /\ req' = [req EXCEPT ![r] = q]
      BY <2>6 DEF SaveState, Goto
    <3>2. q \in Request /\ RequestOK(q)
      BY <3>1 DEF Request, RequestOK, States, ClockSteps, EditSteps
    <3>3. attState' \in [Employees -> StateRecord]
      BY <3>1, <2>6 DEF SaveState, Request, RequestOK, StateRecord, ClockSteps
    <3>4. QED BY <3>1, <3>2, <3>3, <2>6 DEF SaveState, Stored
  <2>7. ASSUME NEW r \in Requests, AuditClock(r)
        PROVE  Shape'
    <3>1. req[r].emp \in Employees /\ req[r].ts \in Times /\ req[r].ref \in Times
      BY <2>7 DEF AuditClock, RequestOK, Request, ClockSteps
    <3>2. audit' \subseteq AuditKey /\ req' = [req EXCEPT ![r] = FreeRequest]
      BY <3>1, <2>7 DEF AuditClock, AuditKey, Finish
    <3>3. QED BY <3>2, <2>7, <2>b DEF AuditClock, Stored
  <2>8. ASSUME NEW r \in Requests, GetEvent(r)
        PROVE  Shape'
    <3> DEFINE found == events[req[r].emp][req[r].ref]
               q == [req[r] EXCEPT
                  !.pc = "editLocks",
                  !.old = found.ts,
                  !.ts = IF req[r].ts = NoTime THEN found.ts ELSE req[r].ts,
                  !.action = IF req[r].action = NoAction THEN found.action
                             ELSE req[r].action]
    <3>1. req[r].pc = "getEvent" /\ req[r].emp \in Employees /\ req[r].ref \in Times
          /\ req[r].at \in Times /\ req[r] \in Request /\ RequestOK(req[r])
      BY <2>8 DEF GetEvent, RequestOK, Request, EditSteps
    <3>2. CASE Stored(req[r].emp, req[r].ref)
      <4>1. req' = [req EXCEPT ![r] = q]
        BY <2>8, <3>2 DEF GetEvent
      <4>2. found \in Event /\ found.ts \in Stamps /\ found.action \in Labels
        BY <3>1, <3>2 DEF Stored, Event
      <4>3. /\ q.pc = "editLocks" /\ q.emp = req[r].emp /\ q.at = req[r].at
            /\ q.ref = req[r].ref /\ q.old = found.ts /\ q.to = req[r].to
            /\ q.ts \in Stamps /\ q.action \in Labels
        BY <3>1, <4>2 DEF Request
      <4>4. q \in Request
        BY <3>1, <4>2, <4>3 DEF Request, EditSteps
      <4>5. RequestOK(q)
        BY <3>1, <4>2, <4>3 DEF RequestOK, ClockSteps, EditSteps
      <4>6. QED BY <4>1, <4>4, <4>5, <2>8, <2>a DEF GetEvent
    <3>3. CASE ~Stored(req[r].emp, req[r].ref)
      BY <3>3, <2>8, <2>a, <2>b DEF GetEvent, Finish
    <3>4. QED BY <3>2, <3>3
  <2>9. ASSUME NEW r \in Requests, EditLocks(r)
        PROVE  Shape'
    <3> DEFINE q == [req[r] EXCEPT !.pc = "editSave"]
    <3>1. req[r].pc = "editLocks" /\ req[r] \in Request /\ RequestOK(req[r])
      BY <2>9 DEF EditLocks
    <3>2. q \in Request /\ RequestOK(q)
      BY <3>1 DEF Request, RequestOK, States, ClockSteps, EditSteps
    <3>3. req' = [req EXCEPT ![r] = q] \/ req' = [req EXCEPT ![r] = FreeRequest]
      BY <2>9 DEF EditLocks, Goto, Finish
    <3>4. QED BY <3>2, <3>3, <2>9, <2>a, <2>b DEF EditLocks
  <2>10. ASSUME NEW r \in Requests, EditSave(r)
         PROVE  Shape'
    <3> DEFINE q == [req[r] EXCEPT !.pc = "auditEdit"]
    <3>1. req[r].pc = "editSave" /\ req[r] \in Request /\ RequestOK(req[r])
          /\ req' = [req EXCEPT ![r] = q]
      BY <2>10 DEF EditSave, Goto
    <3>2. q \in Request /\ RequestOK(q)
      BY <3>1 DEF Request, RequestOK, States, ClockSteps, EditSteps
    <3>3. req[r].emp \in Employees /\ req[r].ts \in Stamps /\ req[r].ref \in Times
      BY <3>1 DEF Request, RequestOK, States, ClockSteps, EditSteps
    <3>4. events' \in [Employees -> [Times -> Event]]
      BY <2>10, <3>3 DEF EditSave, PutEvent, Event, Request
    <3>5. \A e \in Employees, t \in Times : Stored(e, t)' => events'[e][t].ts \in Stamps
      BY <2>10, <3>3 DEF EditSave, PutEvent, Stored
    <3>6. QED BY <3>1, <3>2, <3>4, <3>5, <2>10 DEF EditSave
  <2>11. ASSUME NEW r \in Requests, AuditEdit(r)
         PROVE  Shape'
    <3>1. req[r].emp \in Employees /\ req[r].ref \in Times
      BY <2>11 DEF AuditEdit, RequestOK, Request, EditSteps
    <3>2. audit' \subseteq AuditKey /\ req' = [req EXCEPT ![r] = FreeRequest]
      BY <3>1, <2>11 DEF AuditEdit, AuditKey, Finish
    <3>3. QED BY <3>2, <2>11, <2>b DEF AuditEdit, Stored
  <2>12. ASSUME NEW r \in Requests, Die(r)
         PROVE  Shape'
    BY <2>12, <2>a, <2>b DEF Die, Finish
  <2>13. ASSUME NEW k \in LockKeys, CreateLock(k) \/ RemoveLock(k)
         PROVE  Shape'
    <3>1. locks' \in [LockKeys -> Times \cup {NoTime}]
      BY <2>13 DEF CreateLock, RemoveLock
    <3>2. UNCHANGED <<now, events, attState, audit, stateCopy, lockCopy, req>>
      BY <2>13 DEF CreateLock, RemoveLock
    <3>3. QED BY <3>1, <3>2 DEF Stored
  <2>14. ASSUME NEW e \in Employees, ReplicateState(e)
         PROVE  Shape'
    BY <2>14 DEF ReplicateState, Stored
  <2>15. CASE ReplicateLocks
    BY <2>15 DEF ReplicateLocks, SetLocks, Stored
  <2>16. CASE Tick
    BY <2>16 DEF Tick, Stored
  <2>17. CASE UNCHANGED vars
    BY <2>17 DEF vars, Stored
  <2>18. QED
    BY <2>1, <2>2, <2>3, <2>4, <2>5, <2>6, <2>7, <2>8, <2>9, <2>10, <2>11, <2>12,
       <2>13, <2>14, <2>15, <2>16, <2>17 DEF Next, Proceed
<1>3. QED BY <1>1, <1>2, PTL DEF Spec

\* Every variable keeps its type (the claim TLC checks in run attendance_types).
THEOREM AttendanceType == Spec => []TypeOK
<1>1. Shape => TypeOK
  BY DEF Shape
<1>2. QED BY <1>1, ShapeInv, PTL

-----------------------------------------------------------------------------
(***************************************************************************)
(* Backing: what the state record and the audit trail refer to exists.     *)
(***************************************************************************)

\* The requests that have written or found an event, and which.
Backed ==
    /\ StateBacked
    /\ AuditBacked
    /\ \A r \in Requests :
         /\ req[r].pc \in {"saveState", "auditClock"} => Stored(req[r].emp, req[r].ts)
         /\ req[r].pc \in EditSteps \ {"getEvent"} => Stored(req[r].emp, req[r].ref)

\* No step removes an event item.
LEMMA StoredStays ==
    ASSUME Shape, [Next]_vars
    PROVE  \A e \in Employees, t \in Times : Stored(e, t) => Stored(e, t)'
<1>1. ASSUME NEW r \in Requests, PutEvent(r), RequestOK(req[r]),
             req[r].pc \in {"saveEvent", "editSave"}
      PROVE  \A e \in Employees, t \in Times : Stored(e, t) => Stored(e, t)'
  <2>1. req[r].action # NoAction
    BY <1>1 DEF RequestOK, ClockSteps, EditSteps, Actions, NoAction, Labels, OtherAction
  <2>2. events \in [Employees -> [Times -> Event]]
    BY DEF Shape, TypeOK
  <2>3. QED BY <1>1, <2>1, <2>2 DEF PutEvent, Stored
<1>2. CASE UNCHANGED events
  BY <1>2 DEF Stored
<1>3. \A r \in Requests : SaveEvent(r) \/ EditSave(r) =>
        \A e \in Employees, t \in Times : Stored(e, t) => Stored(e, t)'
  BY <1>1 DEF Shape, SaveEvent, EditSave
<1>4. QED
  BY <1>2, <1>3 DEF Next, Proceed, vars, Clock, StartEdit, CheckLocks, ReadState,
     SaveState, AuditClock, GetEvent, EditLocks, AuditEdit, Die, CreateLock,
     RemoveLock, ReplicateState, ReplicateLocks, Tick

\* The strengthening of StateBacked and AuditBacked that every step keeps.
LEMMA BackedStrong == Spec => []Backed
<1>1. Init => Backed
  BY DEF Init, Backed, StateBacked, AuditBacked, FreshState, FreeRequest, EditSteps
<1>2. Shape /\ Backed /\ [Next]_vars => Backed'
  <2> SUFFICES ASSUME Shape, Backed, [Next]_vars
               PROVE  Backed'
    OBVIOUS
  <2>s. \A e \in Employees, t \in Times : Stored(e, t) => Stored(e, t)'
    BY StoredStays
  <2>t. /\ \A r \in Requests : req[r] \in Request /\ RequestOK(req[r])
        /\ attState \in [Employees -> StateRecord]
        /\ req \in [Requests -> Request]
        /\ audit \subseteq AuditKey
    BY DEF Shape, TypeOK
  <2>u. \A r \in Requests :
          /\ req[r].pc \in ClockSteps => req[r].emp \in Employees /\ req[r].ts \in Times
          /\ req[r].pc \in EditSteps => req[r].emp \in Employees /\ req[r].ref \in Times
    BY <2>t DEF RequestOK, Request, ClockSteps, EditSteps
  <2>a. ASSUME NEW r \in Requests, NEW q,
               req' = [req EXCEPT ![r] = q],
               UNCHANGED <<attState, audit>>,
               q.pc \in {"saveState", "auditClock"} =>
                 q.emp \in Employees /\ q.ts \in Times /\ events'[q.emp][q.ts].action # NoAction,
               q.pc \in EditSteps \ {"getEvent"} =>
                 q.emp \in Employees /\ q.ref \in Times /\ events'[q.emp][q.ref].action # NoAction
        PROVE  Backed'
    <3>1. StateBacked' /\ AuditBacked'
      BY <2>a, <2>s, <2>t DEF Backed, StateBacked, AuditBacked, StateRecord, AuditKey
    <3>2. ASSUME NEW p \in Requests
          PROVE  (/\ req[p].pc \in {"saveState", "auditClock"} => Stored(req[p].emp, req[p].ts)
                  /\ req[p].pc \in EditSteps \ {"getEvent"} => Stored(req[p].emp, req[p].ref))'
      <4>1. CASE p = r
        BY <4>1, <2>a, <2>t DEF Stored, EditSteps
      <4>2. CASE p # r
        <5>1. req'[p] = req[p]
          BY <4>2, <2>a, <2>t
        <5>2. QED BY <5>1, <2>s, <2>u DEF Backed, ClockSteps
      <4>3. QED BY <4>1, <4>2
    <3>3. QED BY <3>1, <3>2 DEF Backed
  <2>b. ASSUME UNCHANGED <<attState, audit, req>>
        PROVE  Backed'
    BY <2>b, <2>s, <2>t, <2>u
       DEF Backed, StateBacked, AuditBacked, StateRecord, AuditKey, ClockSteps
  <2>f. FreeRequest.pc = "free"
    BY DEF FreeRequest
  <2>1. ASSUME NEW r \in Requests, NEW e \in Employees, NEW a \in Actions, Clock(r, e, a)
        PROVE  Backed'
    BY <2>1, <2>a DEF Clock, FreeRequest, EditSteps
  <2>2. ASSUME NEW r \in Requests, NEW e \in Employees, NEW ref \in Times,
               NEW change \in Edits, StartEdit(r, e, ref, change)
        PROVE  Backed'
    BY <2>2, <2>a DEF StartEdit, FreeRequest, EditSteps
  <2>3. ASSUME NEW r \in Requests, CheckLocks(r)
        PROVE  Backed'
    <3> DEFINE q == [req[r] EXCEPT !.pc = "readState"]
    <3>1. req' = [req EXCEPT ![r] = q] \/ req' = [req EXCEPT ![r] = FreeRequest]
      BY <2>3 DEF CheckLocks, Goto, Finish
    <3>2. q.pc = "readState"
      BY <2>t DEF Request
    <3>3. QED BY <3>1, <3>2, <2>3, <2>a, <2>f DEF CheckLocks, EditSteps
  <2>4. ASSUME NEW r \in Requests, ReadState(r)
        PROVE  Backed'
    <3>1. \/ \E to \in States :
               req' = [req EXCEPT ![r] = [req[r] EXCEPT !.pc = "saveEvent", !.to = to]]
          \/ req' = [req EXCEPT ![r] = FreeRequest]
      BY <2>4 DEF ReadState, Finish
    <3>2. \A to \in States : [req[r] EXCEPT !.pc = "saveEvent", !.to = to].pc = "saveEvent"
      BY <2>t DEF Request
    <3>3. QED BY <3>1, <3>2, <2>4, <2>a, <2>f DEF ReadState, EditSteps
  <2>5. ASSUME NEW r \in Requests, SaveEvent(r)
        PROVE  Backed'
    <3> DEFINE q == [req[r] EXCEPT !.pc = "saveState"]
    <3>1. req' = [req EXCEPT ![r] = q]
      BY <2>5 DEF SaveEvent, Goto
    <3>2. q.pc = "saveState" /\ q.emp = req[r].emp /\ q.ts = req[r].ts
      BY <2>t DEF Request
    <3>3. /\ req[r].emp \in Employees /\ req[r].ts \in Times
          /\ req[r].ref = req[r].ts /\ req[r].action # NoAction
      BY <2>5, <2>t, <2>u DEF SaveEvent, RequestOK, ClockSteps, Actions, NoAction
    <3>4. events'[req[r].emp][req[r].ts].action # NoAction
      BY <2>5, <3>3 DEF SaveEvent, PutEvent, Shape, TypeOK
    <3>5. QED BY <3>1, <3>2, <3>3, <3>4, <2>5, <2>a DEF SaveEvent, EditSteps
  <2>6. ASSUME NEW r \in Requests, SaveState(r)
        PROVE  Backed'
    <3> DEFINE q == [req[r] EXCEPT !.pc = "auditClock"]
    <3>1. req' = [req EXCEPT ![r] = q] /\ req[r].pc = "saveState"
      BY <2>6 DEF SaveState, Goto
    <3>2. q.pc = "auditClock" /\ q.emp = req[r].emp /\ q.ts = req[r].ts
      BY <2>t DEF Request
    <3>3. req[r].emp \in Employees /\ req[r].ts \in Times
      BY <3>1, <2>u DEF ClockSteps
    <3>4. Stored(req[r].emp, req[r].ts)
      BY <3>1 DEF Backed
    <3>5. StateBacked'
      BY <2>6, <2>t, <3>3, <3>4 DEF SaveState, Backed, StateBacked, Stored, StateRecord
    <3>6. AuditBacked'
      BY <2>6 DEF SaveState, Backed, AuditBacked, Stored
    <3>7. ASSUME NEW p \in Requests
          PROVE  (/\ req[p].pc \in {"saveState", "auditClock"} => Stored(req[p].emp, req[p].ts)
                  /\ req[p].pc \in EditSteps \ {"getEvent"} => Stored(req[p].emp, req[p].ref))'
      BY <3>1, <3>2, <3>4, <2>6, <2>t DEF SaveState, Backed, Stored, EditSteps
    <3>8. QED BY <3>5, <3>6, <3>7 DEF Backed
  <2>7. ASSUME NEW r \in Requests, AuditClock(r)
        PROVE  Backed'
    <3>1. req' = [req EXCEPT ![r] = FreeRequest] /\ req[r].pc = "auditClock"
      BY <2>7 DEF AuditClock, Finish
    <3>2. Stored(req[r].emp, req[r].ref)
      BY <3>1, <2>t DEF Backed, RequestOK, ClockSteps, EditSteps
    <3>3. StateBacked'
      BY <2>7 DEF AuditClock, Backed, StateBacked, Stored
    <3>4. AuditBacked'
      BY <2>7, <3>2 DEF AuditClock, Backed, AuditBacked, Stored
    <3>5. ASSUME NEW p \in Requests
          PROVE  (/\ req[p].pc \in {"saveState", "auditClock"} => Stored(req[p].emp, req[p].ts)
                  /\ req[p].pc \in EditSteps \ {"getEvent"} => Stored(req[p].emp, req[p].ref))'
      BY <3>1, <2>7, <2>t, <2>f DEF AuditClock, Backed, Stored, EditSteps
    <3>6. QED BY <3>3, <3>4, <3>5 DEF Backed
  <2>8. ASSUME NEW r \in Requests, GetEvent(r)
        PROVE  Backed'
    <3>1. CASE ~Stored(req[r].emp, req[r].ref)
      BY <3>1, <2>8, <2>a, <2>f DEF GetEvent, Finish, EditSteps
    <3>2. CASE Stored(req[r].emp, req[r].ref)
      <4>1. PICK q : /\ req' = [req EXCEPT ![r] = q]
                     /\ q.pc = "editLocks" /\ q.emp = req[r].emp /\ q.ref = req[r].ref
        BY <3>2, <2>8, <2>t DEF GetEvent, Request
      <4>2. req[r].emp \in Employees /\ req[r].ref \in Times
        BY <2>8, <2>u DEF GetEvent, EditSteps
      <4>3. QED BY <4>1, <4>2, <3>2, <2>8, <2>a DEF GetEvent, Stored
    <3>3. QED BY <3>1, <3>2
  <2>9. ASSUME NEW r \in Requests, EditLocks(r)
        PROVE  Backed'
    <3> DEFINE q == [req[r] EXCEPT !.pc = "editSave"]
    <3>1. req' = [req EXCEPT ![r] = q] \/ req' = [req EXCEPT ![r] = FreeRequest]
      BY <2>9 DEF EditLocks, Goto, Finish
    <3>2. q.pc = "editSave" /\ q.emp = req[r].emp /\ q.ref = req[r].ref
      BY <2>t DEF Request
    <3>3. req[r].emp \in Employees /\ req[r].ref \in Times /\ Stored(req[r].emp, req[r].ref)
      BY <2>9, <2>u DEF EditLocks, EditSteps, Backed
    <3>4. QED BY <3>1, <3>2, <3>3, <2>9, <2>a, <2>f DEF EditLocks, EditSteps, Stored
  <2>10. ASSUME NEW r \in Requests, EditSave(r)
         PROVE  Backed'
    <3> DEFINE q == [req[r] EXCEPT !.pc = "auditEdit"]
    <3>1. req' = [req EXCEPT ![r] = q]
      BY <2>10 DEF EditSave, Goto
    <3>2. q.pc = "auditEdit" /\ q.emp = req[r].emp /\ q.ref = req[r].ref
      BY <2>t DEF Request
    <3>3. req[r].emp \in Employees /\ req[r].ref \in Times /\ Stored(req[r].emp, req[r].ref)
      BY <2>10, <2>u DEF EditSave, EditSteps, Backed
    <3>4. events'[req[r].emp][req[r].ref].action # NoAction
      BY <3>3, <2>s DEF Stored
    <3>5. QED BY <3>1, <3>2, <3>3, <3>4, <2>10, <2>a DEF EditSave
  <2>11. ASSUME NEW r \in Requests, AuditEdit(r)
         PROVE  Backed'
    <3>1. req' = [req EXCEPT ![r] = FreeRequest] /\ req[r].pc = "auditEdit"
      BY <2>11 DEF AuditEdit, Finish
    <3>2. Stored(req[r].emp, req[r].ref)
      BY <3>1, <2>t DEF Backed, RequestOK, ClockSteps, EditSteps
    <3>3. StateBacked'
      BY <2>11 DEF AuditEdit, Backed, StateBacked, Stored
    <3>4. AuditBacked'
      BY <2>11, <3>2 DEF AuditEdit, Backed, AuditBacked, Stored
    <3>5. ASSUME NEW p \in Requests
          PROVE  (/\ req[p].pc \in {"saveState", "auditClock"} => Stored(req[p].emp, req[p].ts)
                  /\ req[p].pc \in EditSteps \ {"getEvent"} => Stored(req[p].emp, req[p].ref))'
      BY <3>1, <2>11, <2>t, <2>f DEF AuditEdit, Backed, Stored, EditSteps
    <3>6. QED BY <3>3, <3>4, <3>5 DEF Backed
  <2>12. ASSUME NEW r \in Requests, Die(r)
         PROVE  Backed'
    BY <2>12, <2>a, <2>f DEF Die, Finish, EditSteps
  <2>13. ASSUME \/ \E k \in LockKeys : CreateLock(k) \/ RemoveLock(k)
                \/ \E e \in Employees : ReplicateState(e)
                \/ ReplicateLocks
                \/ Tick
                \/ UNCHANGED vars
         PROVE  Backed'
    BY <2>13, <2>b DEF CreateLock, RemoveLock, ReplicateState, ReplicateLocks, Tick, vars
  <2>14. QED
    BY <2>1, <2>2, <2>3, <2>4, <2>5, <2>6, <2>7, <2>8, <2>9, <2>10, <2>11, <2>12,
       <2>13 DEF Next, Proceed
<1>3. QED BY <1>1, <1>2, ShapeInv, PTL DEF Spec

\* The state record only ever refers to an event that is in the table, under
\* every overlap, fault, edit and stale read.
THEOREM BackedInv == Spec => []StateBacked
<1>1. Backed => StateBacked
  BY DEF Backed
<1>2. QED BY <1>1, BackedStrong, PTL

\* Nor does the audit trail ever speak of an event that was not written.
THEOREM AuditNeverAhead == Spec => []AuditBacked
<1>1. Backed => AuditBacked
  BY DEF Backed
<1>2. QED BY <1>1, BackedStrong, PTL

-----------------------------------------------------------------------------
(***************************************************************************)
(* Locks.                                                                  *)
(***************************************************************************)

\* No request started in the future, and LockRespected.
LockInv ==
    /\ LockRespected
    /\ \A r \in Requests : req[r].at <= now

\* With consistent reads, a lock that stood when a clock request or an edit
\* came in is never overlooked: only locks placed while the request is under
\* way can be.  Holds under every overlap, fault and lock policy.
THEOREM LockInvariant == ~StaleReads => (Spec => []LockRespected)
<1> SUFFICES ASSUME ~StaleReads PROVE Spec => []LockRespected
  OBVIOUS
<1> USE TimeAssumption DEF Times, NoTime
<1>1. Init => LockInv
  BY DEF Init, LockInv, LockRespected, FreeRequest
<1>2. Shape /\ LockInv /\ [Next]_vars => LockInv'
  <2> SUFFICES ASSUME Shape, LockInv, [Next]_vars
               PROVE  LockInv'
    OBVIOUS
  <2>t. /\ now \in Int
        /\ req \in [Requests -> Request]
        /\ \A r \in Requests : req[r] \in Request /\ req[r].at \in Int
        /\ locks \in [LockKeys -> Times \cup {NoTime}]
    BY DEF Shape, TypeOK, Request
  <2>a. ASSUME NEW r \in Requests, NEW q,
               req' = [req EXCEPT ![r] = q], UNCHANGED <<now, locks>>,
               q.at <= now,
               q.pc \in {"readState", "saveEvent"} =>
                 \A k \in LockKeys : Covers(k, q.emp, MonthOf(q.ts)) =>
                    locks[k] = NoTime \/ locks[k] >= q.at,
               q.pc = "editSave" =>
                 \A k \in LockKeys : LocksOld(k, q) =>
                    locks[k] = NoTime \/ locks[k] >= q.at
        PROVE  LockInv'
    <3>1. \A p \in Requests : p # r => req'[p] = req[p]
      BY <2>a, <2>t
    <3>2. req'[r] = q
      BY <2>a, <2>t
    <3>3. \A p \in Requests : req'[p].at <= now'
      BY <3>1, <3>2, <2>a DEF LockInv
    <3>4. LockRespected'
      BY <3>1, <3>2, <2>a DEF LockInv, LockRespected
    <3>5. QED BY <3>3, <3>4 DEF LockInv
  <2>f. FreeRequest.pc = "free" /\ FreeRequest.at <= now
    BY <2>t DEF FreeRequest, Shape, TypeOK
  <2>1. ASSUME NEW r \in Requests, NEW e \in Employees, NEW a \in Actions, Clock(r, e, a)
        PROVE  LockInv'
    <3> DEFINE q == [FreeRequest EXCEPT
                 !.pc = "checkLocks", !.emp = e, !.at = now, !.ref = now,
                 !.ts = now, !.action = a]
    <3>1. req' = [req EXCEPT ![r] = q] /\ UNCHANGED <<now, locks>>
      BY <2>1 DEF Clock
    <3>2. q.pc = "checkLocks" /\ q.at = now /\ q.at <= now
      BY <2>t DEF FreeRequest
    <3> HIDE DEF q
    <3>3. QED BY <3>1, <3>2, <2>a
  <2>2. ASSUME NEW r \in Requests, NEW e \in Employees, NEW ref \in Times,
               NEW change \in Edits, StartEdit(r, e, ref, change)
        PROVE  LockInv'
    <3> DEFINE q == [FreeRequest EXCEPT
                 !.pc = "getEvent", !.emp = e, !.at = now, !.ref = ref,
                 !.ts = change.ts, !.action = change.action]
    <3>1. req' = [req EXCEPT ![r] = q] /\ UNCHANGED <<now, locks>>
      BY <2>2 DEF StartEdit
    <3>2. q.pc = "getEvent" /\ q.at = now /\ q.at <= now
      BY <2>t DEF FreeRequest
    <3> HIDE DEF q
    <3>3. QED BY <3>1, <3>2, <2>a
  <2>3. ASSUME NEW r \in Requests, CheckLocks(r)
        PROVE  LockInv'
    <3>1. CASE req' = [req EXCEPT ![r] = FreeRequest]
      BY <3>1, <2>3, <2>a, <2>f DEF CheckLocks
    <3>2. CASE req' # [req EXCEPT ![r] = FreeRequest]
      <4> DEFINE q == [req[r] EXCEPT !.pc = "readState"]
      <4>1. /\ req' = [req EXCEPT ![r] = q]
            /\ \A k \in SetLocks : ~Covers(k, req[r].emp, MonthOf(req[r].ts))
        BY <3>2, <2>3 DEF CheckLocks, Goto, Finish, SeenLocks
      <4>2. q.pc = "readState" /\ q.emp = req[r].emp /\ q.ts = req[r].ts /\ q.at = req[r].at
        BY <2>t DEF Request
      <4>3. \A k \in LockKeys : Covers(k, q.emp, MonthOf(q.ts)) => locks[k] = NoTime
        BY <4>1, <4>2 DEF SetLocks
      <4>4. QED BY <4>1, <4>2, <4>3, <2>3, <2>a DEF CheckLocks, LockInv
    <3>3. QED BY <3>1, <3>2
  <2>4. ASSUME NEW r \in Requests, ReadState(r)
        PROVE  LockInv'
    <3>1. CASE req' = [req EXCEPT ![r] = FreeRequest]
      BY <3>1, <2>4, <2>a, <2>f DEF ReadState
    <3>2. CASE \E to \in States :
                 req' = [req EXCEPT ![r] = [req[r] EXCEPT !.pc = "saveEvent", !.to = to]]
      <4>1. PICK q : /\ req' = [req EXCEPT ![r] = q]
                     /\ q.pc = "saveEvent" /\ q.emp = req[r].emp
                     /\ q.ts = req[r].ts /\ q.at = req[r].at
        BY <3>2, <2>t DEF Request
      <4>2. QED BY <4>1, <2>4, <2>a DEF ReadState, LockInv, LockRespected
    <3>3. QED BY <3>1, <3>2, <2>4 DEF ReadState, Finish
  <2>5. ASSUME NEW r \in Requests, NEW pc \in {"saveState", "auditClock", "auditEdit"},
               Goto(r, pc), UNCHANGED <<now, locks>>
        PROVE  LockInv'
    <3> DEFINE q == [req[r] EXCEPT !.pc = pc]
    <3>1. q.pc = pc /\ q.at = req[r].at
      BY <2>t DEF Request
    <3>2. QED BY <3>1, <2>5, <2>a DEF Goto, LockInv
  <2>6. ASSUME NEW r \in Requests, Finish(r), UNCHANGED <<now, locks>>
        PROVE  LockInv'
    BY <2>6, <2>a, <2>f DEF Finish
  <2>7. ASSUME NEW r \in Requests, GetEvent(r)
        PROVE  LockInv'
    <3>1. CASE Stored(req[r].emp, req[r].ref)
      <4>1. PICK q : /\ req' = [req EXCEPT ![r] = q]
                     /\ q.pc = "editLocks" /\ q.at = req[r].at
        BY <3>1, <2>7, <2>t DEF GetEvent, Request
      <4>2. QED BY <4>1, <2>7, <2>a DEF GetEvent, LockInv
    <3>2. QED BY <3>1, <2>6, <2>7 DEF GetEvent
  <2>8. ASSUME NEW r \in Requests, EditLocks(r)
        PROVE  LockInv'
    <3>1. CASE req' = [req EXCEPT ![r] = FreeRequest]
      BY <3>1, <2>8, <2>a, <2>f DEF EditLocks
    <3>2. CASE req' # [req EXCEPT ![r] = FreeRequest]
      <4> DEFINE q == [req[r] EXCEPT !.pc = "editSave"]
      <4>1. /\ req' = [req EXCEPT ![r] = q]
            /\ \A k \in SetLocks : ~LocksOld(k, req[r])
        BY <3>2, <2>8 DEF EditLocks, Goto, Finish, SeenLocks
      <4>2. q.pc = "editSave" /\ q.old = req[r].old /\ q.at = req[r].at
        BY <2>t DEF Request
      <4>3. \A k \in LockKeys : LocksOld(k, q) => locks[k] = NoTime
        BY <4>1, <4>2 DEF SetLocks, LocksOld
      <4>4. QED BY <4>1, <4>2, <4>3, <2>8, <2>a DEF EditLocks, LockInv
    <3>3. QED BY <3>1, <3>2
  <2>9. ASSUME NEW k \in LockKeys, CreateLock(k) \/ RemoveLock(k)
        PROVE  LockInv'
    <3>1. locks'[k] = NoTime \/ locks'[k] = now
      BY <2>9, <2>t DEF CreateLock, RemoveLock
    <3>2. \A j \in LockKeys : j # k => locks'[j] = locks[j]
      BY <2>9, <2>t DEF CreateLock, RemoveLock
    <3>3. UNCHANGED <<now, req>>
      BY <2>9 DEF CreateLock, RemoveLock
    <3>4. QED BY <3>1, <3>2, <3>3, <2>t DEF LockInv, LockRespected
  <2>10. ASSUME UNCHANGED <<locks, req>>, now' = now \/ now' = now + 1
         PROVE  LockInv'
    BY <2>10, <2>t DEF LockInv, LockRespected
  <2>11. ASSUME NEW r \in Requests, Proceed(r)
         PROVE  LockInv'
    BY <2>3, <2>4, <2>5, <2>6, <2>7, <2>8, <2>11
       DEF Proceed, SaveEvent, SaveState, AuditClock, EditSave, AuditEdit
  <2>12. ASSUME \/ \E e \in Employees : ReplicateState(e)
                \/ ReplicateLocks
                \/ Tick
                \/ UNCHANGED vars
         PROVE  LockInv'
    BY <2>10, <2>12 DEF ReplicateState, ReplicateLocks, Tick, vars
  <2>13. ASSUME NEW r \in Requests, Die(r)
         PROVE  LockInv'
    BY <2>6, <2>13 DEF Die
  <2>14. QED
    BY <2>1, <2>2, <2>9, <2>11, <2>12, <2>13 DEF Next
<1>3. LockInv => LockRespected
  BY DEF LockInv
<1>4. QED BY <1>1, <1>2, <1>3, ShapeInv, PTL DEF Spec

-----------------------------------------------------------------------------
(***************************************************************************)
(* The audit trail.                                                        *)
(***************************************************************************)

\* A recorded event has its audit item, or a request that will append it.
Covered(e, k) ==
    \/ \E a \in audit : a.emp = e /\ a.id = k
    \/ \E r \in Requests : WillAudit(r, e, k)

\* When no invocation dies, every event of the table has the audit item of its
\* clock action or a request on its way to append it, under every overlap, edit
\* and stale read.
THEOREM AuditTrail == ~Faults => (Spec => []AuditComplete)
<1> SUFFICES ASSUME ~Faults PROVE Spec => []AuditComplete
  OBVIOUS
<1>1. Init => AuditComplete
  BY DEF Init, AuditComplete, Stored, NoEvent
<1>2. Shape /\ Backed /\ AuditComplete /\ [Next]_vars => AuditComplete'
  <2> SUFFICES ASSUME Shape, Backed, AuditComplete, [Next]_vars
               PROVE  AuditComplete'
    OBVIOUS
  <2>t. /\ req \in [Requests -> Request]
        /\ events \in [Employees -> [Times -> Event]]
        /\ \A r \in Requests : RequestOK(req[r])
    BY DEF Shape, TypeOK
  <2>c. \A e \in Employees, k \in Times : Stored(e, k) => Covered(e, k)
    BY DEF AuditComplete, Covered
  <2>g. SUFFICES ASSUME NEW e \in Employees, NEW k \in Times, events'[e][k].action # NoAction
                 PROVE  Covered(e, k)'
    BY DEF AuditComplete, Covered, Stored
  <2>a. ASSUME Covered(e, k), audit \subseteq audit',
               \A r \in Requests : WillAudit(r, e, k) =>
                  \/ req'[r].emp = e /\ req'[r].ref = k /\ req'[r].pc \in {"saveState", "auditClock"}
                  \/ \E a \in audit' : a.emp = e /\ a.id = k
        PROVE  Covered(e, k)'
    BY <2>a DEF Covered, WillAudit
  <2>1. ASSUME NEW r \in Requests, NEW q, req' = [req EXCEPT ![r] = q],
               UNCHANGED <<events, audit>>,
               req[r].pc \notin {"saveState", "auditClock"}
        PROVE  Covered(e, k)'
    <3>1. Covered(e, k)
      BY <2>1, <2>c, <2>g DEF Stored
    <3>2. \A p \in Requests : p # r => req'[p] = req[p]
      BY <2>1, <2>t
    <3>3. QED BY <3>1, <3>2, <2>1, <2>a DEF WillAudit
  <2>2. ASSUME NEW r \in Requests, SaveEvent(r)
        PROVE  Covered(e, k)'
    <3> DEFINE q == [req[r] EXCEPT !.pc = "saveState"]
    <3>1. req' = [req EXCEPT ![r] = q] /\ UNCHANGED audit /\ req[r].pc = "saveEvent"
      BY <2>2 DEF SaveEvent, Goto
    <3>2. q.pc = "saveState" /\ q.emp = req[r].emp /\ q.ref = req[r].ref
      BY <2>t DEF Request
    <3>3. req'[r] = q /\ \A p \in Requests : p # r => req'[p] = req[p]
      BY <3>1, <2>t
    <3>4. CASE e = req[r].emp /\ k = req[r].ref
      BY <3>2, <3>3, <3>4 DEF Covered, WillAudit
    <3>5. CASE ~(e = req[r].emp /\ k = req[r].ref)
      <4>1. Covered(e, k)
        BY <3>5, <2>2, <2>t, <2>c, <2>g DEF SaveEvent, PutEvent, Stored
      <4>2. QED BY <4>1, <3>1, <3>3, <2>a DEF WillAudit
    <3>6. QED BY <3>4, <3>5
  <2>3. ASSUME NEW r \in Requests, SaveState(r)
        PROVE  Covered(e, k)'
    <3> DEFINE q == [req[r] EXCEPT !.pc = "auditClock"]
    <3>1. req' = [req EXCEPT ![r] = q] /\ UNCHANGED <<events, audit>>
      BY <2>3 DEF SaveState, Goto
    <3>2. q.pc = "auditClock" /\ q.emp = req[r].emp /\ q.ref = req[r].ref
      BY <2>t DEF Request
    <3>3. req'[r] = q /\ \A p \in Requests : p # r => req'[p] = req[p]
      BY <3>1, <2>t
    <3>4. Covered(e, k)
      BY <3>1, <2>c, <2>g DEF Stored
    <3>5. QED BY <3>1, <3>2, <3>3, <3>4, <2>a DEF WillAudit
  <2>4. ASSUME NEW r \in Requests, AuditClock(r)
        PROVE  Covered(e, k)'
    <3>1. /\ req' = [req EXCEPT ![r] = FreeRequest] /\ UNCHANGED events
          /\ audit' = audit \cup {[emp |-> req[r].emp, at |-> req[r].ts, id |-> req[r].ref]}
      BY <2>4 DEF AuditClock, Finish
    <3>2. \E a \in audit' : a.emp = req[r].emp /\ a.id = req[r].ref
      <4> DEFINE item == [emp |-> req[r].emp, at |-> req[r].ts, id |-> req[r].ref]
      <4>1. item \in audit' /\ item.emp = req[r].emp /\ item.id = req[r].ref
        BY <3>1
      <4>2. QED BY <4>1
    <3>3. Covered(e, k)
      BY <3>1, <2>c, <2>g DEF Stored
    <3>4. \A p \in Requests : p # r => req'[p] = req[p]
      BY <3>1, <2>t
    <3>5. QED BY <3>1, <3>2, <3>3, <3>4, <2>a DEF WillAudit
  <2>5. ASSUME NEW r \in Requests, EditSave(r)
        PROVE  Covered(e, k)'
    <3> DEFINE q == [req[r] EXCEPT !.pc = "auditEdit"]
    <3>1. req' = [req EXCEPT ![r] = q] /\ UNCHANGED audit /\ req[r].pc = "editSave"
      BY <2>5 DEF EditSave, Goto
    <3>2. Stored(req[r].emp, req[r].ref)
      BY <3>1 DEF Backed, EditSteps
    <3>3. Stored(e, k)
      BY <3>2, <2>5, <2>t, <2>g DEF EditSave, PutEvent, Stored
    <3>4. Covered(e, k)
      BY <3>3, <2>c
    <3>5. \A p \in Requests : p # r => req'[p] = req[p]
      BY <3>1, <2>t
    <3>6. QED BY <3>1, <3>4, <3>5, <2>a DEF WillAudit
  <2>6. ASSUME NEW r \in Requests, AuditEdit(r)
        PROVE  Covered(e, k)'
    <3>1. /\ req' = [req EXCEPT ![r] = FreeRequest] /\ UNCHANGED events
          /\ audit \subseteq audit' /\ req[r].pc = "auditEdit"
      BY <2>6 DEF AuditEdit, Finish
    <3>2. Covered(e, k)
      BY <3>1, <2>c, <2>g DEF Stored
    <3>3. \A p \in Requests : p # r => req'[p] = req[p]
      BY <3>1, <2>t
    <3>4. QED BY <3>1, <3>2, <3>3, <2>a DEF WillAudit
  <2>7. ASSUME UNCHANGED <<events, audit, req>>
        PROVE  Covered(e, k)'
    BY <2>7, <2>c, <2>g DEF Stored, Covered, WillAudit
  <2>8. ASSUME NEW r \in Requests,
               \/ \E f \in Employees, a \in Actions : Clock(r, f, a)
               \/ \E f \in Employees, ref \in Times, change \in Edits :
                    StartEdit(r, f, ref, change)
               \/ CheckLocks(r) \/ ReadState(r) \/ GetEvent(r) \/ EditLocks(r)
        PROVE  Covered(e, k)'
    <3>1. UNCHANGED <<events, audit>> /\ req[r].pc \notin {"saveState", "auditClock"}
      BY <2>8 DEF Clock, StartEdit, MayStart, CheckLocks, ReadState, GetEvent, EditLocks
    <3>2. \E q : req' = [req EXCEPT ![r] = q]
      BY <2>8 DEF Clock, StartEdit, CheckLocks, ReadState, GetEvent, EditLocks, Goto, Finish
    <3>3. QED BY <3>1, <3>2, <2>1
  <2>9. ASSUME NEW r \in Requests, Proceed(r)
        PROVE  Covered(e, k)'
    BY <2>2, <2>3, <2>4, <2>5, <2>6, <2>8, <2>9 DEF Proceed
  <2>10. ASSUME \/ \E l \in LockKeys : CreateLock(l) \/ RemoveLock(l)
                \/ \E f \in Employees : ReplicateState(f)
                \/ ReplicateLocks
                \/ Tick
                \/ UNCHANGED vars
         PROVE  Covered(e, k)'
    BY <2>7, <2>10 DEF CreateLock, RemoveLock, ReplicateState, ReplicateLocks, Tick, vars
  <2>11. \A r \in Requests : ~Die(r)
    BY DEF Die
  <2>12. QED BY <2>8, <2>9, <2>10, <2>11 DEF Next
<1>3. QED BY <1>1, <1>2, ShapeInv, BackedStrong, PTL DEF Spec

-----------------------------------------------------------------------------
(***************************************************************************)
(* Serial use.  Where requests of an employee do not overlap, no           *)
(* invocation dies, reads are consistent and nobody edits,                 *)
(* AttendanceService implements the timecard, for every set of employees,  *)
(* every lock policy and every window.                                     *)
(***************************************************************************)

\* The switches under which the service keeps its promise.
SerialUse == ~Overlap /\ ~Faults /\ ~StaleReads /\ Edits = {}

\* The log of e shows the session and the time the state record st gives.
Shows(e, st) ==
    /\ SessionIs(Log(e), st.state)
    /\ \A u \in Recorded(Log(e)) : st.last # NoTime /\ u <= st.last

\* At most one request per employee.
OneAtATime ==
    \A p, q \in Requests : p # q /\ req[p].pc # "free" => req[p].emp # req[q].emp

\* The state record shows the log, unless a request is about to store it ...
RecordCurrent ==
    \A e \in Employees :
        (\A r \in Requests : req[r].emp = e => req[r].pc # "saveState")
            => Shows(e, attState[e])

\* ... and then that request carries what the log shows.
PendingRecord ==
    \A r \in Requests : req[r].pc = "saveState" =>
        Shows(req[r].emp, [state |-> req[r].to, last |-> req[r].ts])

\* A checked request is still allowed by the state record.
StillAllowed ==
    \A r \in Requests : req[r].pc = "saveEvent" =>
        LET st == attState[req[r].emp]
        IN  InTime(st, req[r].ts) /\ <<st.state, req[r].action, req[r].to>> \in Transitions

NoEditInFlight == \A r \in Requests : req[r].pc \notin EditSteps

Serial ==
    /\ OneAtATime
    /\ NoEditInFlight
    /\ RecordCurrent
    /\ PendingRecord
    /\ StillAllowed
    /\ ValidLog
    /\ SpacedLog

\* A log that follows the state machine holds its four actions only.
LEMMA LegalLog ==
    ASSUME Shape, NEW e \in Employees, FollowsMachine(Log(e))
    PROVE  Log(e) \in [Times -> Actions \cup {NoAction}]
<1>1. \A t \in Times : Log(e)[t] \in Actions \cup {NoAction}
  <2> SUFFICES ASSUME NEW t \in Times, Log(e)[t] # NoAction
               PROVE  Log(e)[t] \in Actions
    OBVIOUS
  <2>1. t \in Recorded(Log(e))
    BY DEF Log, Recorded
  <2>2. Log(e)[t] = "CLOCK_IN" \/ \E s, to \in States : <<s, Log(e)[t], to>> \in Transitions
    BY <2>1 DEF FollowsMachine
  <2>3. QED BY <2>2 DEF Transitions, Actions
<1>2. QED BY <1>1 DEF Log

\* The event a checked request is about to write extends the timecard.
LEMMA SaveExtends ==
    ASSUME Shape, Serial, NEW r \in Requests, req[r].pc = "saveEvent"
    PROVE  LET e == req[r].emp
               t == req[r].ts
               a == req[r].action
               new == [Log(e) EXCEPT ![t] = a]
           IN  /\ e \in Employees /\ t \in Times /\ a \in Actions
               /\ \A u \in Recorded(Log(e)) : t - u >= Window /\ u # t
               /\ \E s \in States, to \in States :
                    SessionIs(Log(e), s) /\ <<s, a, to>> \in Transitions
               /\ SessionIs(new, req[r].to)
               /\ FollowsMachine(new)
               /\ SpacedBy(new, Window)
<1> USE TimeAssumption
<1> DEFINE e == req[r].emp
           t == req[r].ts
           a == req[r].action
           st == attState[e]
<1>1. e \in Employees /\ t \in Times /\ a \in Actions /\ req[r].to \in States
  BY DEF Shape, TypeOK, RequestOK, Request, ClockSteps
<1>2. st \in StateRecord
  BY <1>1 DEF Shape, TypeOK
<1>3. st.state \in States /\ st.last \in Times \cup {NoTime}
  BY <1>2 DEF StateRecord
<1>4. \A q \in Requests : req[q].emp = e => req[q].pc # "saveState"
  BY DEF Serial, OneAtATime
<1>5. Shows(e, st)
  BY <1>1, <1>4 DEF Serial, RecordCurrent
<1>6. InTime(st, t) /\ <<st.state, a, req[r].to>> \in Transitions
  BY DEF Serial, StillAllowed
<1>7. Log(e) \in [Times -> Actions \cup {NoAction}]
  BY <1>1, LegalLog DEF Serial, ValidLog
<1>8. \A u \in Recorded(Log(e)) : t - u >= Window /\ u # t
  <2> SUFFICES ASSUME NEW u \in Recorded(Log(e))
               PROVE  t - u >= Window /\ u # t
    OBVIOUS
  <2>1. u \in Times /\ st.last # NoTime /\ u <= st.last
    BY <1>5 DEF Shows, Recorded, Log
  <2>2. st.last \in Times /\ t - st.last >= Window
    BY <2>1, <1>3, <1>6 DEF InTime
  <2>3. QED BY <2>1, <2>2, <1>1 DEF Times
<1>9. FollowsMachine(Log(e)) /\ SpacedBy(Log(e), Window)
  BY <1>1 DEF Serial, ValidLog, SpacedLog
<1>10. Times \in SUBSET Int /\ Window \in Nat /\ SessionIs(Log(e), st.state)
  BY <1>5 DEF Times, Shows
<1>11. LET new == [Log(e) EXCEPT ![t] = a]
       IN  /\ SessionIs(new, req[r].to)
           /\ FollowsMachine(new)
           /\ SpacedBy(new, Window)
  BY <1>1, <1>3, <1>6, <1>7, <1>8, <1>9, <1>10, ExtendLog
<1>12. QED BY <1>1, <1>3, <1>6, <1>8, <1>10, <1>11

\* What SaveEvent does to the logs.
LEMMA SaveAppends ==
    ASSUME Shape, NEW r \in Requests, SaveEvent(r), NEW e \in Employees
    PROVE  Log(e)' = IF e = req[r].emp THEN [Log(e) EXCEPT ![req[r].ts] = req[r].action]
                                       ELSE Log(e)
<1>1. req[r].ref = req[r].ts /\ req[r].ts \in Times /\ req[r].emp \in Employees
  BY DEF SaveEvent, Shape, TypeOK, RequestOK, Request, ClockSteps
<1>2. events \in [Employees -> [Times -> Event]]
  BY DEF Shape, TypeOK
<1>3. events' = [events EXCEPT ![req[r].emp][req[r].ts] =
                   [ts |-> req[r].ts, action |-> req[r].action]]
  BY <1>1 DEF SaveEvent, PutEvent
<1>4. CASE e = req[r].emp
  <2>1. \A k \in Times : events'[e][k].action =
                          IF k = req[r].ts THEN req[r].action ELSE events[e][k].action
    BY <1>1, <1>2, <1>3, <1>4
  <2>2. QED BY <1>1, <1>4, <2>1 DEF Log
<1>5. CASE e # req[r].emp
  BY <1>2, <1>3, <1>5 DEF Log
<1>6. QED BY <1>4, <1>5

\* Every other step leaves the logs alone.
LEMMA OthersAppendNothing ==
    ASSUME [Next]_vars, \A r \in Requests : ~SaveEvent(r) /\ ~EditSave(r)
    PROVE  UNCHANGED events
  BY DEF Next, Proceed, vars, Clock, StartEdit, CheckLocks, ReadState, SaveState,
     AuditClock, GetEvent, EditLocks, AuditEdit, Die, CreateLock, RemoveLock,
     ReplicateState, ReplicateLocks, Tick

\* Serial is kept by every step of a serial use.
LEMMA SerialStrong == SerialUse => (Spec => []Serial)
<1> SUFFICES ASSUME SerialUse PROVE Spec => []Serial
  OBVIOUS
<1>1. Init => Serial
  <2> SUFFICES ASSUME Init PROVE Serial
    OBVIOUS
  <2>1. \A e \in Employees : Recorded(Log(e)) = {}
    BY DEF Init, Recorded, Log, NoEvent
  <2>2. \A r \in Requests : req[r].pc = "free"
    BY DEF Init, FreeRequest
  <2>3. \A e \in Employees : Shows(e, attState[e])
    BY <2>1 DEF Init, Shows, SessionIs, FreshState
  <2>4. ValidLog /\ SpacedLog
    BY <2>1 DEF ValidLog, SpacedLog, FollowsMachine, SpacedBy
  <2>5. QED
    BY <2>2, <2>3, <2>4 DEF Serial, OneAtATime, NoEditInFlight, RecordCurrent,
       PendingRecord, StillAllowed, EditSteps
<1>2. Shape /\ Serial /\ [Next]_vars => Serial'
  <2> SUFFICES ASSUME Shape, Serial, [Next]_vars
               PROVE  Serial'
    OBVIOUS
  <2>t. /\ req \in [Requests -> Request]
        /\ attState \in [Employees -> StateRecord]
        /\ \A r \in Requests : RequestOK(req[r])
    BY DEF Shape, TypeOK
  <2>n. \A r \in Requests : req[r].pc \notin EditSteps
    BY DEF Serial, NoEditInFlight
  \* A step of request r that stores nothing.
  <2>a. ASSUME NEW r \in Requests, NEW q, req' = [req EXCEPT ![r] = q],
               UNCHANGED <<events, attState>>,
               req[r].pc # "saveState", q.pc \notin EditSteps \cup {"saveState"},
               \A p \in Requests : p # r /\ q.pc # "free" => req[p].emp # q.emp,
               \A p \in Requests : p # r /\ req[p].pc # "free" => req[p].emp # q.emp,
               q.pc = "saveEvent" =>
                 LET st == attState[q.emp]
                 IN  InTime(st, q.ts) /\ <<st.state, q.action, q.to>> \in Transitions
        PROVE  Serial'
    <3>1. req'[r] = q /\ \A p \in Requests : p # r => req'[p] = req[p]
      BY <2>a, <2>t
    <3>2. OneAtATime' /\ NoEditInFlight' /\ StillAllowed'
      BY <3>1, <2>a DEF Serial, OneAtATime, NoEditInFlight, StillAllowed
    <3>3. \A e : Log(e)' = Log(e)
      BY <2>a DEF Log
    <3>4. ValidLog' /\ SpacedLog'
      BY <3>3 DEF Serial, ValidLog, SpacedLog
    <3>5. PendingRecord'
      BY <3>1, <3>3, <2>a DEF Serial, PendingRecord, Shows
    <3>6. RecordCurrent'
      BY <3>1, <3>3, <2>a DEF Serial, RecordCurrent, Shows
    <3>7. QED BY <3>2, <3>4, <3>5, <3>6 DEF Serial
  <2>b. ASSUME UNCHANGED <<events, attState, req>>
        PROVE  Serial'
    BY <2>b DEF Serial, OneAtATime, NoEditInFlight, RecordCurrent, PendingRecord,
       StillAllowed, ValidLog, SpacedLog, Shows, Log, InTime
  <2>c. ASSUME NEW r \in Requests, Finish(r), UNCHANGED <<events, attState>>,
               req[r].pc # "saveState"
        PROVE  Serial'
    <3>1. FreeRequest.pc = "free" /\ FreeRequest.emp = "nobody"
      BY DEF FreeRequest
    <3>2. \A p \in Requests : req[p].pc # "free" => req[p].emp # "nobody"
      BY <2>t DEF RequestOK
    <3>3. req' = [req EXCEPT ![r] = FreeRequest]
      BY <2>c DEF Finish
    <3>4. FreeRequest.pc \notin EditSteps \cup {"saveState", "saveEvent"}
      BY <3>1 DEF EditSteps
    <3>5. /\ \A p \in Requests : p # r /\ FreeRequest.pc # "free" => req[p].emp # FreeRequest.emp
          /\ \A p \in Requests : p # r /\ req[p].pc # "free" => req[p].emp # FreeRequest.emp
          /\ FreeRequest.pc # "saveEvent"
          /\ FreeRequest.pc \notin EditSteps \cup {"saveState"}
      BY <3>1, <3>2, <3>4
    <3>6. QED BY <3>3, <3>5, <2>a, <2>c
  <2>1. ASSUME NEW r \in Requests, NEW e \in Employees, NEW a \in Actions, Clock(r, e, a)
        PROVE  Serial'
    <3> DEFINE q == [FreeRequest EXCEPT
                 !.pc = "checkLocks", !.emp = e, !.at = now, !.ref = now,
                 !.ts = now, !.action = a]
    <3>1. /\ req' = [req EXCEPT ![r] = q] /\ UNCHANGED <<events, attState>>
          /\ req[r].pc = "free"
          /\ \A p \in Requests : req[p].emp # e
      BY <2>1 DEF Clock, MayStart, SerialUse
    <3>2. q.pc = "checkLocks" /\ q.emp = e
      BY DEF FreeRequest
    <3> HIDE DEF q
    <3>3. QED BY <3>1, <3>2, <2>a DEF EditSteps
  <2>2. ASSUME NEW r \in Requests, NEW e \in Employees, NEW ref \in Times,
               NEW change \in Edits, StartEdit(r, e, ref, change)
        PROVE  Serial'
    BY <2>2 DEF SerialUse
  <2>3. ASSUME NEW r \in Requests, CheckLocks(r)
        PROVE  Serial'
    <3> DEFINE q == [req[r] EXCEPT !.pc = "readState"]
    <3>1. Finish(r) \/ req' = [req EXCEPT ![r] = q]
      BY <2>3 DEF CheckLocks, Goto
    <3>2. q.pc = "readState" /\ q.emp = req[r].emp
      BY <2>t DEF Request
    <3>3. \A p \in Requests : p # r => req[p].emp # req[r].emp
      BY <2>3 DEF CheckLocks, Serial, OneAtATime
    <3>4. /\ req[r].pc = "checkLocks" /\ UNCHANGED <<events, attState>>
          /\ q.pc \notin EditSteps \cup {"saveState", "saveEvent"}
      BY <3>2, <2>3 DEF CheckLocks, EditSteps
    <3> HIDE DEF q
    <3>5. CASE Finish(r)
      BY <3>4, <3>5, <2>c
    <3>6. CASE req' = [req EXCEPT ![r] = q]
      <4>1. /\ \A p \in Requests : p # r /\ q.pc # "free" => req[p].emp # q.emp
            /\ \A p \in Requests : p # r /\ req[p].pc # "free" => req[p].emp # q.emp
            /\ q.pc # "saveEvent"
            /\ q.pc \notin EditSteps \cup {"saveState"}
            /\ req[r].pc # "saveState"
        BY <3>2, <3>3, <3>4
      <4>2. QED BY <4>1, <3>4, <3>6, <2>a
    <3>7. QED BY <3>1, <3>5, <3>6
  <2>4. ASSUME NEW r \in Requests, ReadState(r)
        PROVE  Serial'
    <3>1. CASE Finish(r)
      BY <3>1, <2>4, <2>c DEF ReadState
    <3>2. ASSUME NEW to \in States, InTime(attState[req[r].emp], req[r].ts),
                 <<attState[req[r].emp].state, req[r].action, to>> \in Transitions,
                 req' = [req EXCEPT ![r] = [req[r] EXCEPT !.pc = "saveEvent", !.to = to]]
          PROVE  Serial'
      <4> DEFINE q == [req[r] EXCEPT !.pc = "saveEvent", !.to = to]
      <4>1. /\ q.pc = "saveEvent" /\ q.emp = req[r].emp /\ q.ts = req[r].ts
            /\ q.action = req[r].action /\ q.to = to
        BY <2>t DEF Request
      <4>2. \A p \in Requests : p # r => req[p].emp # req[r].emp
        BY <2>4 DEF ReadState, Serial, OneAtATime
      <4>3. req' = [req EXCEPT ![r] = q]
        BY <3>2
      <4>4. /\ req[r].pc = "readState" /\ UNCHANGED <<events, attState>>
            /\ q.pc \notin EditSteps \cup {"saveState"}
        BY <4>1, <2>4 DEF ReadState, EditSteps
      <4>5. LET st == attState[q.emp]
            IN  InTime(st, q.ts) /\ <<st.state, q.action, q.to>> \in Transitions
        BY <4>1, <3>2
      <4> HIDE DEF q
      <4>6. /\ \A p \in Requests : p # r /\ q.pc # "free" => req[p].emp # q.emp
            /\ \A p \in Requests : p # r /\ req[p].pc # "free" => req[p].emp # q.emp
            /\ req[r].pc # "saveState"
        BY <4>1, <4>2, <4>4
      <4>7. QED BY <4>3, <4>4, <4>5, <4>6, <2>a
    <3>3. SeenStates(req[r].emp) = {attState[req[r].emp]}
      BY DEF SeenStates, SerialUse
    <3>4. QED BY <3>1, <3>2, <3>3, <2>4 DEF ReadState
  <2>5. ASSUME NEW r \in Requests, SaveEvent(r)
        PROVE  Serial'
    <3>1. PICK q : req' = [req EXCEPT ![r] = q] /\ q = [req[r] EXCEPT !.pc = "saveState"]
      BY <2>5 DEF SaveEvent, Goto
    <3>2. /\ q.pc = "saveState" /\ q.emp = req[r].emp /\ q.ts = req[r].ts
          /\ q.to = req[r].to
      BY <3>1, <2>t DEF Request
    <3>3. req'[r] = q /\ \A p \in Requests : p # r => req'[p] = req[p]
      BY <3>1, <2>t
    <3>4. req[r].pc = "saveEvent" /\ UNCHANGED attState
      BY <2>5 DEF SaveEvent
    <3>5. \A p \in Requests : p # r => req[p].emp # q.emp
      BY <3>2, <3>4 DEF Serial, OneAtATime
    <3>6. OneAtATime' /\ NoEditInFlight' /\ StillAllowed'
      BY <3>2, <3>3, <3>4, <3>5 DEF Serial, OneAtATime, NoEditInFlight, StillAllowed, EditSteps
    <3>7. PICK e \in Employees : e = q.emp
      BY <3>2, <3>4, <2>t DEF RequestOK, Request
    <3>8. PICK t \in Times, a \in Actions : t = q.ts /\ a = req[r].action
      BY <3>2, <3>4, SaveExtends
    <3> DEFINE new == [Log(e) EXCEPT ![t] = a]
    <3>9. /\ SessionIs(new, q.to) /\ FollowsMachine(new) /\ SpacedBy(new, Window)
          /\ \A u \in Recorded(Log(e)) : t - u >= Window /\ u # t
      BY <3>2, <3>4, <3>7, <3>8, SaveExtends
    <3>10. Log(e)' = new /\ \A f \in Employees : f # e => Log(f)' = Log(f)
      BY <3>2, <3>7, <3>8, <2>5, SaveAppends
    <3>11. \A u \in Recorded(new) : t # NoTime /\ u <= t
      <4>1. \A u \in Recorded(new) : u = t \/ u \in Recorded(Log(e))
        BY DEF Recorded, Log
      <4>2. \A u \in Recorded(Log(e)) : u \in Times
        BY DEF Recorded, Log
      <4>3. QED BY <4>1, <4>2, <3>9, TimeAssumption DEF Times, NoTime
    <3> HIDE DEF new
    <3>12. ValidLog' /\ SpacedLog'
      BY <3>9, <3>10 DEF Serial, ValidLog, SpacedLog
    <3>13. PendingRecord'
      <4> SUFFICES ASSUME NEW p \in Requests, req'[p].pc = "saveState"
                   PROVE  /\ SessionIs(Log(req[p].emp)', req'[p].to)
                          /\ \A u \in Recorded(Log(req[p].emp)') :
                               req'[p].ts # NoTime /\ u <= req'[p].ts
        BY DEF PendingRecord, Shows
      <4>1. CASE p = r
        BY <4>1, <3>2, <3>3, <3>7, <3>8, <3>9, <3>10, <3>11
      <4>2. CASE p # r
        BY <4>2, <3>3, <3>5, <3>7, <3>10, <2>t
           DEF Serial, PendingRecord, Shows, RequestOK, Request
      <4>3. QED BY <4>1, <4>2
    <3>14. RecordCurrent'
      <4> SUFFICES ASSUME NEW f \in Employees,
                          \A p \in Requests : req'[p].emp = f => req'[p].pc # "saveState"
                   PROVE  Shows(f, attState[f])'
        BY DEF RecordCurrent
      <4>1. f # e
        BY <3>2, <3>3, <3>7
      <4>2. \A p \in Requests : req[p].emp = f => req[p].pc # "saveState"
        BY <3>3, <3>4
      <4>3. Shows(f, attState[f])
        BY <4>2 DEF Serial, RecordCurrent
      <4>4. QED BY <4>1, <4>3, <3>4, <3>10 DEF Shows
    <3>15. QED BY <3>6, <3>12, <3>13, <3>14 DEF Serial
  <2>6. ASSUME NEW r \in Requests, SaveState(r)
        PROVE  Serial'
    <3>1. PICK q : req' = [req EXCEPT ![r] = q] /\ q = [req[r] EXCEPT !.pc = "auditClock"]
      BY <2>6 DEF SaveState, Goto
    <3>2. q.pc = "auditClock" /\ q.emp = req[r].emp
      BY <3>1, <2>t DEF Request
    <3>3. req'[r] = q /\ \A p \in Requests : p # r => req'[p] = req[p]
      BY <3>1, <2>t
    <3>4. PICK e \in Employees : e = req[r].emp
      BY <2>6, <2>t DEF SaveState, RequestOK, Request
    <3>5. /\ req[r].pc = "saveState" /\ UNCHANGED events
          /\ attState'[e] = [state |-> req[r].to, last |-> req[r].ts]
          /\ \A f \in Employees : f # e => attState'[f] = attState[f]
      BY <3>4, <2>6, <2>t DEF SaveState
    <3>6. \A p \in Requests : p # r => req[p].emp # e
      BY <3>4, <3>5 DEF Serial, OneAtATime
    <3>7. OneAtATime' /\ NoEditInFlight'
      BY <3>2, <3>3, <3>4, <3>6 DEF Serial, OneAtATime, NoEditInFlight, EditSteps
    <3>8. StillAllowed'
      <4> SUFFICES ASSUME NEW p \in Requests, req'[p].pc = "saveEvent"
                   PROVE  LET st == attState'[req'[p].emp]
                          IN  /\ InTime(st, req'[p].ts)
                              /\ <<st.state, req'[p].action, req'[p].to>> \in Transitions
        BY DEF StillAllowed, InTime
      <4>1. p # r /\ req'[p] = req[p]
        BY <3>2, <3>3
      <4>2. req[p].emp \in Employees /\ req[p].emp # e
        BY <4>1, <3>6, <2>t DEF RequestOK, Request
      <4>3. QED BY <4>1, <4>2, <3>5 DEF Serial, StillAllowed
    <3>9. \A f : Log(f)' = Log(f)
      BY <3>5 DEF Log
    <3>10. ValidLog' /\ SpacedLog'
      BY <3>9 DEF Serial, ValidLog, SpacedLog
    <3>11. PendingRecord'
      BY <3>2, <3>3, <3>9 DEF Serial, PendingRecord, Shows
    <3>12. Shows(e, attState'[e])
      BY <3>4, <3>5 DEF Serial, PendingRecord
    <3>13. RecordCurrent'
      BY <3>2, <3>3, <3>4, <3>5, <3>9, <3>12 DEF Serial, RecordCurrent, Shows
    <3>14. QED BY <3>7, <3>8, <3>10, <3>11, <3>13 DEF Serial
  <2>7. ASSUME NEW r \in Requests, AuditClock(r)
        PROVE  Serial'
    BY <2>7, <2>c DEF AuditClock
  <2>8. ASSUME NEW r \in Requests, GetEvent(r) \/ EditLocks(r) \/ EditSave(r) \/ AuditEdit(r)
        PROVE  Serial'
    BY <2>8, <2>n DEF GetEvent, EditLocks, EditSave, AuditEdit, EditSteps
  <2>9. ASSUME NEW r \in Requests, Die(r)
        PROVE  Serial'
    BY <2>9 DEF Die, SerialUse
  <2>10. ASSUME \/ \E k \in LockKeys : CreateLock(k) \/ RemoveLock(k)
                \/ \E e \in Employees : ReplicateState(e)
                \/ ReplicateLocks
                \/ Tick
                \/ UNCHANGED vars
         PROVE  Serial'
    BY <2>10, <2>b DEF CreateLock, RemoveLock, ReplicateState, ReplicateLocks, Tick, vars
  <2>11. QED
    BY <2>1, <2>2, <2>3, <2>4, <2>5, <2>6, <2>7, <2>8, <2>9, <2>10 DEF Next, Proceed
<1>3. QED BY <1>1, <1>2, ShapeInv, PTL DEF Spec

-----------------------------------------------------------------------------
\* Under a serial use, every log is a run of the state machine with entries at
\* least the idempotency window apart (REQ-ATT-002).
THEOREM SerialLogs == SerialUse => (Spec => [](ValidLog /\ SpacedLog))
<1>1. Serial => ValidLog /\ SpacedLog
  BY DEF Serial
<1>2. QED BY <1>1, SerialStrong, PTL

\* Under a serial use, between requests the state record is what the log shows.
THEOREM RecordAgrees == SerialUse => (Spec => []StateAgrees)
<1>1. Serial => StateAgrees
  BY DEF Serial, RecordCurrent, Shows, StateAgrees
<1>2. QED BY <1>1, SerialStrong, PTL

\* An entry after all the others is allowed only if it leads on from the state
\* the log shows.
LEMMA ExtendOnlyAllowed ==
    ASSUME NEW T \in SUBSET Int, NEW log \in [T -> Actions \cup {NoAction}],
           NEW t \in T, NEW a \in Actions, NEW s, SessionIs(log, s),
           \A u \in Recorded(log) : u < t,
           FollowsMachine([log EXCEPT ![t] = a])
    PROVE  \E to \in States : <<s, a, to>> \in Transitions
<1> DEFINE new == [log EXCEPT ![t] = a]
<1>1. /\ Recorded(new) = Recorded(log) \cup {t}
      /\ new[t] = a
      /\ \A u \in Recorded(log) : u # t => new[u] = log[u]
  BY DEF Recorded, Actions, NoAction, new
<1>2. t \in Int /\ \A u \in Recorded(log) : u \in Int
  BY DEF Recorded
<1>3. FollowsMachine(new)
  BY DEF new
<1> HIDE DEF new
<1>4. CASE \A u \in Recorded(new) : t <= u
  <2>1. Recorded(log) = {}
    BY <1>1, <1>2, <1>4
  <2>2. s = "IDLE"
    BY <2>1 DEF SessionIs
  <2>3. a = "CLOCK_IN"
    <3>1. \A p \in Recorded(new) : ~Precedes(new, p, t)
      BY <1>1, <1>2, <1>4, <2>1 DEF Precedes
    <3>2. QED BY <1>1, <1>3, <3>1 DEF FollowsMachine
  <2>4. QED BY <2>2, <2>3 DEF Transitions, States
<1>5. CASE \E u \in Recorded(new) : ~(t <= u)
  <2>1. PICK p \in Recorded(new), from \in States, s1 \in States, to \in States :
               /\ Precedes(new, p, t)
               /\ <<from, new[p], s1>> \in Transitions
               /\ <<s1, new[t], to>> \in Transitions
    BY <1>1, <1>3, <1>5 DEF FollowsMachine
  <2>2. p \in Recorded(log) /\ new[p] = log[p]
    BY <1>1, <1>2, <2>1 DEF Precedes
  <2>3. PICK q \in Recorded(log), from1 \in States :
               /\ \A u \in Recorded(log) : u <= q
               /\ <<from1, log[q], s>> \in Transitions
    BY <2>2 DEF SessionIs
  <2>4. q = p
    <3>1. p <= q /\ q \in Recorded(new) /\ q < t
      BY <1>1, <2>2, <2>3
    <3>2. q <= p \/ t <= q
      BY <3>1, <2>1 DEF Precedes
    <3>3. QED BY <1>2, <2>2, <3>1, <3>2
  <2>5. s1 = s
    BY <2>1, <2>2, <2>3, <2>4 DEF Transitions
  <2>6. QED BY <1>1, <2>1, <2>5
<1>6. QED BY <1>4, <1>5

\* Nothing is recorded, or about to be, at a time to come.
NothingAhead ==
    /\ \A e \in Employees : attState[e].last <= now
    /\ \A r \in Requests : req[r].pc \in ClockSteps => req[r].ts <= now

\* Every step keeps the audit trail from getting ahead of the log.
LEMMA NothingAheadStep == Shape /\ NoEditInFlight /\ NothingAhead /\ [Next]_vars => NothingAhead'
<1> SUFFICES ASSUME Shape, NoEditInFlight, NothingAhead, [Next]_vars
             PROVE  NothingAhead'
  OBVIOUS
<1> USE TimeAssumption DEF Shape, TypeOK, Times
<1>1. ASSUME NEW r \in Requests, NEW e \in Employees, NEW a \in Actions, Clock(r, e, a)
      PROVE  NothingAhead'
  BY <1>1 DEF Clock, NothingAhead, FreeRequest
<1>2. ASSUME NEW r \in Requests, NEW e \in Employees, NEW ref \in Times,
             NEW change \in Edits, StartEdit(r, e, ref, change)
      PROVE  NothingAhead'
  BY <1>2 DEF StartEdit, NothingAhead, FreeRequest, ClockSteps
<1>3. ASSUME NEW r \in Requests, CheckLocks(r) \/ ReadState(r) \/ SaveEvent(r) \/ Die(r)
      PROVE  NothingAhead'
  <2>1. /\ UNCHANGED <<now, attState>>
        /\ \A q \in Requests \ {r} : req'[q] = req[q]
        /\ \/ req'[r] = FreeRequest
           \/ req[r].pc \in ClockSteps /\ req'[r].ts = req[r].ts
    BY <1>3 DEF CheckLocks, ReadState, SaveEvent, Die, Goto, Finish, ClockSteps, Request
  <2>2. QED BY <2>1 DEF NothingAhead, FreeRequest, ClockSteps
<1>4. ASSUME NEW r \in Requests, SaveState(r)
      PROVE  NothingAhead'
  <2>1. /\ now' = now /\ req[r].pc \in ClockSteps
        /\ attState' = [attState EXCEPT ![req[r].emp] = [state |-> req[r].to, last |-> req[r].ts]]
        /\ \A q \in Requests \ {r} : req'[q] = req[q]
        /\ req'[r].ts = req[r].ts
    BY <1>4 DEF SaveState, Goto, ClockSteps, Request
  <2>2. QED BY <2>1 DEF NothingAhead
<1>5. ASSUME NEW r \in Requests, AuditClock(r)
      PROVE  NothingAhead'
  BY <1>5 DEF AuditClock, Finish, NothingAhead, FreeRequest, ClockSteps
<1>6. ASSUME NEW r \in Requests, GetEvent(r) \/ EditLocks(r) \/ EditSave(r) \/ AuditEdit(r)
      PROVE  NothingAhead'
  BY <1>6 DEF GetEvent, EditLocks, EditSave, AuditEdit, NoEditInFlight, EditSteps
<1>7. CASE Tick
  <2>1. now' = now + 1 /\ now \in Int /\ UNCHANGED <<attState, req>>
    BY <1>7 DEF Tick
  <2>2. \A e \in Employees : attState[e].last \in Int
    BY DEF StateRecord, NoTime
  <2>3. \A r \in Requests : req[r].ts \in Int
    BY DEF Request, NoTime, Stamps, OtherTime
  <2>4. QED BY <2>1, <2>2, <2>3 DEF NothingAhead
<1>8. CASE UNCHANGED <<now, attState, req>>
  BY <1>8 DEF NothingAhead
<1>9. QED
  BY <1>1, <1>2, <1>3, <1>4, <1>5, <1>6, <1>7, <1>8
  DEF Next, Proceed, vars, CreateLock, RemoveLock, ReplicateState, ReplicateLocks

\* Under a serial use, the clock widget offers an employee without a request in
\* flight exactly the actions the recorded log can go on with (ClockWidget.tsx).
THEOREM WidgetOffersAllowed == SerialUse => (Spec => []OfferedAccepted)
<1> SUFFICES ASSUME SerialUse PROVE Spec => []OfferedAccepted
  OBVIOUS
<1>1. Init => NothingAhead
  BY TimeAssumption DEF Init, NothingAhead, FreshState, FreeRequest, NoTime, ClockSteps
<1>2. Serial => NoEditInFlight
  BY DEF Serial
<1>3. Shape /\ Serial /\ Backed /\ NothingAhead => OfferedAccepted
  <2> SUFFICES ASSUME Shape, Serial, Backed, NothingAhead,
                      NEW e \in Employees, \A r \in Requests : req[r].emp # e
               PROVE  Offered(attState[e]) = {a \in Actions : Continues(Log(e), a)}
    BY DEF OfferedAccepted
  <2> DEFINE st == attState[e]
             log == Log(e)
  <2> USE TimeAssumption DEF Times
  <2>1. /\ log \in [Times -> Actions \cup {NoAction}]
        /\ st.state \in States /\ st.last \in Times \cup {NoTime} /\ st.last <= now
        /\ now \in Times
    BY LegalLog DEF Shape, TypeOK, StateRecord, NothingAhead, Serial, ValidLog
  <2>2. /\ SessionIs(log, st.state)
        /\ \A u \in Recorded(log) : st.last # NoTime /\ u <= st.last
        /\ FollowsMachine(log) /\ SpacedBy(log, Window)
    BY DEF Serial, RecordCurrent, Shows, ValidLog, SpacedLog
  <2>3. st.last # NoTime => st.last \in Recorded(log)
    BY <2>1 DEF Backed, StateBacked, Stored, Recorded, Log
  <2>4. \A u \in Recorded(log) : u \in Int /\ log[u] # NoAction
    BY <2>1 DEF Recorded
  <2> HIDE DEF st, log
  <2>5. CASE CoolingDown(st)
    <3>1. ASSUME NEW a \in Actions, Continues(log, a)
          PROVE  FALSE
      <4> DEFINE new == [log EXCEPT ![now] = a]
      <4>1. now # st.last /\ st.last < now /\ now - st.last < Window
        BY <2>1, <2>3, <2>4, <2>5, <3>1 DEF CoolingDown, Continues, NoTime
      <4>2. now \in Recorded(new) /\ st.last \in Recorded(new)
        BY <2>1, <2>3, <2>5, <4>1 DEF Recorded, CoolingDown, Actions, NoAction
      <4>3. SpacedBy(new, Window)
        BY <3>1 DEF Continues
      <4>4. now - st.last >= Window
        BY <4>1, <4>2, <4>3 DEF SpacedBy
      <4>5. QED BY <2>1, <4>1, <4>4, <2>4, <2>3, <2>5 DEF CoolingDown
    <3>2. QED BY <2>5, <3>1 DEF Offered, st, log
  <2>6. CASE ~CoolingDown(st)
    <3>1. \A u \in Recorded(log) : now - u >= Window /\ u # now /\ u < now
      <4> TAKE u \in Recorded(log)
      <4>1. st.last \in Int /\ u <= st.last /\ now - st.last >= Window /\ u \in Int /\ now \in Int
        BY <2>1, <2>2, <2>4, <2>6 DEF CoolingDown, NoTime
      <4>2. QED BY <4>1
    <3>2. log[now] = NoAction
      BY <2>1, <3>1 DEF Recorded
    <3>3. ASSUME NEW a \in Actions, NEW to \in States, <<st.state, a, to>> \in Transitions
          PROVE  Continues(log, a)
      <4>1. Times \in SUBSET Int /\ Window \in Nat
        OBVIOUS
      <4>2. LET new == [log EXCEPT ![now] = a]
            IN  FollowsMachine(new) /\ SpacedBy(new, Window)
        BY <2>1, <2>2, <3>1, <3>3, <4>1, ExtendLog
      <4>3. QED BY <3>2, <4>2 DEF Continues
    <3>4. ASSUME NEW a \in Actions, Continues(log, a)
          PROVE  \E to \in States : <<st.state, a, to>> \in Transitions
      <4>1. Times \in SUBSET Int
        OBVIOUS
      <4>2. FollowsMachine([log EXCEPT ![now] = a])
        BY <3>4 DEF Continues
      <4>3. QED BY <2>1, <2>2, <3>1, <4>1, <4>2, ExtendOnlyAllowed
    <3>5. Buttons[st.state] = {a \in Actions : \E to \in States : <<st.state, a, to>> \in Transitions}
      <4>1. CASE st.state = "IDLE"
        BY <4>1 DEF Buttons, Transitions, Actions, States
      <4>2. CASE st.state = "CLOCKED_IN"
        BY <4>2 DEF Buttons, Transitions, Actions, States
      <4>3. CASE st.state = "ON_BREAK"
        BY <4>3 DEF Buttons, Transitions, Actions, States
      <4>4. QED BY <2>1, <4>1, <4>2, <4>3 DEF States
    <3>6. QED BY <2>6, <3>3, <3>4, <3>5 DEF Offered, st, log
  <2>7. QED BY <2>5, <2>6
<1>4. QED
  BY <1>1, <1>2, <1>3, ShapeInv, SerialStrong, BackedStrong, NothingAheadStep, PTL DEF Spec

\* Under a serial use, the service implements the timecard: SaveEvent records
\* an entry the card allows, and every other step leaves the card alone.
THEOREM AttendanceImplementsTimecard == SerialUse => (Spec => ImplementsTimecard)
<1> SUFFICES ASSUME SerialUse PROVE Spec => ImplementsTimecard
  OBVIOUS
<1>1. Init => TC!Init
  BY DEF Init, TC!Init, CardOf, Log, NoEvent, NoAction, TC!NoAction
<1>2. Shape /\ Serial /\ [Next]_vars => [TC!Next]_CardOf
  <2> SUFFICES ASSUME Shape, Serial, [Next]_vars
               PROVE  TC!Next \/ UNCHANGED CardOf
    OBVIOUS
  <2>1. CASE \A r \in Requests : ~SaveEvent(r)
    <3>1. \A r \in Requests : ~EditSave(r)
      BY DEF Serial, NoEditInFlight, EditSave, EditSteps
    <3>2. UNCHANGED events
      BY <2>1, <3>1, OthersAppendNothing
    <3>3. QED BY <3>2 DEF CardOf, Log
  <2>2. ASSUME NEW r \in Requests, SaveEvent(r)
        PROVE  TC!Next
    <3>1. req[r].pc = "saveEvent"
      BY <2>2 DEF SaveEvent
    <3>2. PICK e \in Employees, t \in Times, a \in Actions :
            e = req[r].emp /\ t = req[r].ts /\ a = req[r].action
      BY <3>1, SaveExtends
    <3>3. /\ \A u \in Recorded(CardOf[e]) : t - u >= Window /\ u # t
          /\ \E s \in States, to \in States :
               SessionIs(CardOf[e], s) /\ <<s, a, to>> \in Transitions
      BY <3>1, <3>2, SaveExtends DEF CardOf
    <3>4. CardOf' = [CardOf EXCEPT ![e][t] = a]
      <4>1. \A f \in Employees :
              Log(f)' = IF f = e THEN [Log(e) EXCEPT ![t] = a] ELSE Log(f)
        BY <2>2, <3>2, SaveAppends
      <4>2. QED BY <4>1 DEF CardOf
    <3>5. TC!Record(e, a, t)
      BY <3>3, <3>4 DEF TC!Record, TC!Recorded, TC!NoAction, TC!States, TC!SessionIs,
         TC!Transitions, Recorded, NoAction, States, SessionIs, Transitions
    <3>6. QED BY <3>5 DEF TC!Next, TC!Actions, Actions
  <2>3. QED BY <2>1, <2>2
<1>3. QED BY <1>1, <1>2, ShapeInv, SerialStrong, PTL DEF Spec, ImplementsTimecard, TC!Spec

=============================================================================
