------------------------------ MODULE Lifecycle ------------------------------
(***************************************************************************)
(* Joining and leaving: OnboardingService and OffboardingService           *)
(* (packages/core/src/onboarding) over the employee and salary items, the  *)
(* login of the auth provider and the audit items.  onboard creates the    *)
(* login and the salary entry concurrently (Promise.all); when one fails   *)
(* the other runs on.  Nothing is transactional: onboard answers a failure *)
(* with one compensating update, offboard with none.                       *)
(***************************************************************************)
EXTENDS Naturals

CONSTANTS
    People,       \* who is onboarded: one email address each
    Requests,     \* request slots: how many may be in flight at once
    MaxTime,      \* bound on the clock
    Providers,    \* which auth providers: "cognito" (the adapter), "stub"
    Patches,      \* bound: the statuses administrators set directly
    Collide,      \* the id of an employee being created may be in use: by another
                  \* creation in the same millisecond, or by an administrator
    Faults        \* a call may throw, applied or not; an invocation may die

ASSUME ClockAssumption == MaxTime \in Nat
ASSUME ProviderAssumption == Providers \subseteq {"cognito", "stub"}
ASSUME PatchAssumption == Patches \subseteq {"ACTIVE", "INACTIVE"}
ASSUME FlagAssumption == Collide \in BOOLEAN /\ Faults \in BOOLEAN

Ids      == 0 .. MaxTime            \* an employee id is the time of its creation
NoId     == MaxTime + 1
Statuses == {"ACTIVE", "INACTIVE"}

VARIABLES
    now,
    provider,     \* the auth provider behind the adapter
    profile,      \* profile[i]: the item EMP#i / PROFILE
    salaries,     \* employees with an initial salary entry
    login,        \* login[p]: the provider's user of email p
    audit,        \* audit items: employee and action
    flow,         \* flow[r]: the request in slot r
    onboarded,    \* history: who was reported onboarded, as whom
    ended,        \* history: employees whose end was confirmed to the service
    revived       \* history: employees an administrator set ACTIVE afterwards

vars == <<now, provider, profile, salaries, login, audit, flow, onboarded, ended, revived>>
table == <<profile, salaries, login, audit>>
history == <<onboarded, ended, revived>>

Nobody == "nobody"
ASSUME NobodyAssumption == Nobody \notin People

Profile   == [status : Statuses \cup {"NONE"}, owner : People \cup {Nobody}]
NoProfile == [status |-> "NONE", owner |-> Nobody]

Login   == [emp : Ids \cup {NoId}, group : BOOLEAN]
NoLogin == [emp |-> NoId, group |-> FALSE]

\* A request: where it is, about which employee, for whom; and, in onboard, how
\* far the two concurrent calls are.
Flow == [pc   : {"free", "create", "parallel", "rollback", "replied",
                 "find", "deactivate", "disable", "auditEnd"},
         id   : Ids \cup {NoId},
         who  : People \cup {Nobody},
         auth : {"none", "createUser", "addGroup", "done", "failed"},
         pay  : {"none", "addEntry", "done", "failed"}]

Free == [pc |-> "free", id |-> NoId, who |-> Nobody, auth |-> "none", pay |-> "none"]

\* How a call ends: well; with an error and no effect; with an error after all
\* (the reply was lost).
Outcomes == {"ok"} \cup (IF Faults THEN {"failed", "doubt"} ELSE {})
Applied(o) == o # "failed"

Init ==
    /\ now = 0
    /\ provider \in Providers
    /\ profile = [i \in Ids |-> NoProfile]
    /\ salaries = {}
    /\ login = [p \in People |-> NoLogin]
    /\ audit = {}
    /\ flow = [r \in Requests |-> Free]
    /\ onboarded = {}
    /\ ended = {}
    /\ revived = {}

Goto(r, pc) == flow' = [flow EXCEPT ![r].pc = pc]
Finish(r)   == flow' = [flow EXCEPT ![r] = Free]

\* MUTANT: the kind of termination is stored for the status.
Terminated(i) == [profile EXCEPT ![i].status = "RESIGNATION"]

Deactivated(i) == [profile EXCEPT ![i].status = "INACTIVE"]

-----------------------------------------------------------------------------
(***************************************************************************)
(* onboard.                                                                *)
(***************************************************************************)
Taken(i) == profile[i].status # "NONE" \/ \E r \in Requests : flow[r].id = i

\* The id is the clock of the host that runs the request, in milliseconds.
Onboard(r, p) ==
    /\ flow[r].pc = "free"
    /\ Collide \/ ~Taken(now)
    /\ flow' = [flow EXCEPT ![r] = [Free EXCEPT !.pc = "create", !.id = now, !.who = p]]
    /\ UNCHANGED <<now, provider, table, history>>

\* MUTANT: the creation of the record is not awaited.
CreateUnawaited(r, o) ==
    /\ flow[r].pc = "create"
    /\ profile' = IF Applied(o)
                  THEN [profile EXCEPT ![flow[r].id] =
                          [status |-> "ACTIVE", owner |-> flow[r].who]]
                  ELSE profile
    /\ flow' = [flow EXCEPT ![r].pc = "parallel",
                            ![r].auth = "createUser", ![r].pay = "addEntry"]
    /\ UNCHANGED <<now, provider, salaries, login, audit, history>>

\* An error here is answered without compensation: the id is not known yet.
Create(r, o) ==
    /\ flow[r].pc = "create"
    /\ profile' = IF Applied(o)
                  THEN [profile EXCEPT ![flow[r].id] =
                          [status |-> "ACTIVE", owner |-> flow[r].who]]
                  ELSE profile
    /\ IF o = "ok"
       THEN flow' = [flow EXCEPT ![r].pc = "parallel",
                                 ![r].auth = "createUser", ![r].pay = "addEntry"]
       ELSE Finish(r)
    /\ UNCHANGED <<now, provider, salaries, login, audit, history>>

\* AdminCreateUser refuses an email that has a user; the stub does nothing.
CreateUser(r, o) ==
    /\ flow[r].auth = "createUser"
    /\ LET fresh == login[flow[r].who] = NoLogin
       IN  /\ login' = IF provider = "cognito" /\ fresh /\ Applied(o)
                       THEN [login EXCEPT ![flow[r].who] =
                               [emp |-> flow[r].id, group |-> FALSE]]
                       ELSE login
           /\ flow' = [flow EXCEPT ![r].auth =
                         IF provider = "stub" THEN "done"
                         ELSE IF fresh /\ o = "ok" THEN "addGroup" ELSE "failed"]
    /\ UNCHANGED <<now, provider, profile, salaries, audit, history>>

AddToGroup(r, o) ==
    /\ flow[r].auth = "addGroup"
    /\ login' = IF Applied(o) THEN [login EXCEPT ![flow[r].who].group = TRUE] ELSE login
    /\ flow' = [flow EXCEPT ![r].auth = IF o = "ok" THEN "done" ELSE "failed"]
    /\ UNCHANGED <<now, provider, profile, salaries, audit, history>>

\* MUTANT: the employee becomes active once the salary is known.
AddEntryActivates(r, o) ==
    /\ flow[r].pay = "addEntry"
    /\ salaries' = salaries \cup {flow[r].id}
    /\ profile' = [profile EXCEPT ![flow[r].id].status = "ACTIVE"]
    /\ flow' = [flow EXCEPT ![r].pay = "done"]
    /\ UNCHANGED <<now, provider, login, audit, history>>

AddEntry(r, o) ==
    /\ flow[r].pay = "addEntry"
    /\ salaries' = IF Applied(o) THEN salaries \cup {flow[r].id} ELSE salaries
    /\ flow' = [flow EXCEPT ![r].pay = IF o = "ok" THEN "done" ELSE "failed"]
    /\ UNCHANGED <<now, provider, profile, login, audit, history>>

\* MUTANT: one of the two results is awaited.
ReportEarly(r, o) ==
    /\ flow[r].pc = "parallel" /\ (flow[r].auth = "done" \/ flow[r].pay = "done")
    /\ audit' = audit \cup {<<flow[r].id, "CREATE">>}
    /\ Finish(r)
    /\ onboarded' = onboarded \cup {[id |-> flow[r].id, who |-> flow[r].who]}
    /\ UNCHANGED <<now, provider, profile, salaries, login, ended, revived>>

\* Promise.all has resolved: append the audit item and report the employee.
Report(r, o) ==
    /\ flow[r].pc = "parallel" /\ flow[r].auth = "done" /\ flow[r].pay = "done"
    /\ audit' = IF Applied(o) THEN audit \cup {<<flow[r].id, "CREATE">>} ELSE audit
    /\ IF o = "ok"
       THEN /\ Finish(r)
            /\ onboarded' = onboarded \cup {[id |-> flow[r].id, who |-> flow[r].who]}
       ELSE Goto(r, "rollback") /\ UNCHANGED onboarded
    /\ UNCHANGED <<now, provider, profile, salaries, login, ended, revived>>

\* The compensation: the employee is set INACTIVE, and an error of that is
\* swallowed.  The other of the two calls may still be on its way.
Rollback(r, o) ==
    /\ \/ flow[r].pc = "rollback"
       \/ flow[r].pc = "parallel" /\ (flow[r].auth = "failed" \/ flow[r].pay = "failed")
    /\ profile' = IF Applied(o) THEN Deactivated(flow[r].id) ELSE profile
    /\ ended' = IF o = "ok" THEN ended \cup {flow[r].id} ELSE ended
    /\ revived' = IF Applied(o) THEN revived \ {flow[r].id} ELSE revived
    /\ Goto(r, "replied")
    /\ UNCHANGED <<now, provider, salaries, login, audit, onboarded>>

\* The reply is out: what still runs may be dropped at any time.
Drop(r) ==
    /\ flow[r].pc = "replied"
    /\ Finish(r)
    /\ UNCHANGED <<now, provider, table, history>>

-----------------------------------------------------------------------------
(***************************************************************************)
(* offboard, and the update of an employee by an administrator.            *)
(***************************************************************************)
Offboard(r, i) ==
    /\ flow[r].pc = "free"
    /\ flow' = [flow EXCEPT ![r] = [Free EXCEPT !.pc = "find", !.id = i]]
    /\ UNCHANGED <<now, provider, table, history>>

FindEmployee(r, o) ==
    /\ flow[r].pc = "find"
    /\ IF o = "ok" /\ profile[flow[r].id].status # "NONE"
       THEN Goto(r, "deactivate")
       ELSE Finish(r)
    /\ UNCHANGED <<now, provider, table, history>>

Deactivate(r, o) ==
    /\ flow[r].pc = "deactivate"
    /\ profile' = IF Applied(o) THEN Deactivated(flow[r].id) ELSE profile
    /\ revived' = IF Applied(o) THEN revived \ {flow[r].id} ELSE revived
    /\ IF o = "ok" THEN Goto(r, "disable") ELSE Finish(r)
    /\ UNCHANGED <<now, provider, salaries, login, audit, onboarded, ended>>

\* disableUser is given the employee id, and Cognito knows its users by email.
Disable(r, o) ==
    /\ flow[r].pc = "disable"
    /\ IF provider = "stub" THEN Goto(r, "auditEnd") ELSE Finish(r)
    /\ UNCHANGED <<now, provider, table, history>>

AuditEnd(r, o) ==
    /\ flow[r].pc = "auditEnd"
    /\ audit' = IF Applied(o) THEN audit \cup {<<flow[r].id, "UPDATE">>} ELSE audit
    /\ ended' = IF o = "ok" THEN ended \cup {flow[r].id} ELSE ended
    /\ Finish(r)
    /\ UNCHANGED <<now, provider, profile, salaries, login, onboarded, revived>>

\* PATCH /employees/:id: an update of any id creates the item if need be.
Patch(i, status) ==
    /\ Collide \/ \A r \in Requests : flow[r].pc = "create" => flow[r].id # i
    /\ profile' = [profile EXCEPT ![i].status = status]
    /\ revived' = IF status = "ACTIVE" THEN revived \cup {i} ELSE revived \ {i}
    /\ UNCHANGED <<now, provider, salaries, login, audit, flow, onboarded, ended>>

-----------------------------------------------------------------------------
\* The invocation dies, whatever it was doing.
Die(r) ==
    /\ Faults
    /\ flow[r].pc # "free"
    /\ Finish(r)
    /\ UNCHANGED <<now, provider, table, history>>

Tick ==
    /\ now < MaxTime
    /\ now' = now + 1
    /\ UNCHANGED <<provider, table, flow, history>>

Proceed(r, o) ==
    \/ Create(r, o) \/ CreateUser(r, o) \/ AddToGroup(r, o) \/ AddEntry(r, o)
    \/ Report(r, o) \/ Rollback(r, o)
    \/ FindEmployee(r, o) \/ Deactivate(r, o) \/ Disable(r, o) \/ AuditEnd(r, o)

Next ==
    \/ \E r \in Requests :
         \/ \E p \in People : Onboard(r, p)
         \/ \E i \in Ids : Offboard(r, i)
         \/ \E o \in Outcomes : Proceed(r, o)
         \/ Drop(r)
         \/ Die(r)
    \/ \E i \in Ids, status \in Patches : Patch(i, status)
    \/ Tick

Spec == Init /\ [][Next]_vars

-----------------------------------------------------------------------------
(***************************************************************************)
(* Properties.                                                             *)
(***************************************************************************)
TypeOK ==
    /\ now \in Ids
    /\ provider \in Providers
    /\ profile \in [Ids -> Profile]
    /\ salaries \subseteq Ids
    /\ login \in [People -> Login]
    /\ audit \subseteq Ids \X {"CREATE", "UPDATE"}
    /\ flow \in [Requests -> Flow]
    /\ onboarded \subseteq [id : Ids, who : People]
    /\ ended \subseteq Ids
    /\ revived \subseteq Ids

\* Whoever is reported onboarded has all that onboard creates: the employee
\* record, the salary entry, the audit item and, with Cognito, a login of the
\* right role that leads to the own record (REQ-OB-001), whatever else is
\* going on, fails or dies.
ReportsComplete ==
    \A x \in onboarded :
        /\ profile[x.id].owner = x.who
        /\ x.id \in salaries
        /\ <<x.id, "CREATE">> \in audit
        /\ provider = "cognito" => login[x.who] = [emp |-> x.id, group |-> TRUE]

\* A login or a salary entry never precedes the record of its employee, and no
\* two people share one (ids do not collide).
LoginsBacked ==
    /\ \A p \in People : login[p].emp # NoId => profile[login[p].emp].owner = p
    /\ \A i \in salaries : profile[i].owner # Nobody

\* An employee whose end was confirmed (an onboarding rolled back, or an
\* offboarding that reported success) is INACTIVE until an administrator says
\* otherwise: no call that is still on its way brings it back (REQ-OB-002).
EndedStayOut ==
    \A i \in ended : profile[i].status = "INACTIVE" \/ i \in revived

-----------------------------------------------------------------------------
(***************************************************************************)
(* What the documents say and the code does not do.                        *)
(***************************************************************************)

\* REQ-OB-003: inactive employees cannot use any system features; once nobody
\* is working on it, an inactive employee has no login.
InactiveLockedOut ==
    \A p \in People :
        LET i == login[p].emp
        IN  ~ /\ i # NoId
              /\ profile[i].status = "INACTIVE"
              /\ \A r \in Requests : flow[r].id # i

=============================================================================
