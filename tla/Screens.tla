------------------------------ MODULE Screens ------------------------------
(***************************************************************************)
(* What the web application asks of the interface: the key under which     *)
(* each query is cached, the request behind it, the requests that save,    *)
(* the keys each save declares out of date, and which queries and saves    *)
(* each page has for a user with the permissions may.                      *)
(***************************************************************************)
EXTENDS Api, FiniteSets, SequencesExt

\* Keys are sequences and are matched by prefix.  A date, month, employee or
\* group in a key is one representative.
queryKeys ==
    [me         |-> <<"/employees/me">>,
     employees  |-> <<"/employees">>,
     members    |-> <<"/employees", "team">>,
     state      |-> <<"/attendance/state">>,
     todayEvents  |-> <<"/attendance/events", "today">>,
     dayEvents    |-> <<"/attendance/events", "date">>,
     memberEvents |-> <<"/attendance/events", "date", "employee">>,
     summary    |-> <<"/attendance/summary">>,
     teamStates |-> <<"/attendance/team-states", "ids">>,
     requests   |-> <<"/leave-requests">>,
     pending    |-> <<"/leave-requests", "pending">>,
     balance    |-> <<"/leave/balance">>,
     breakdown  |-> <<"/payroll", "month">>,
     payrollReport |-> <<"/payroll", "month", "report">>,
     flags      |-> <<"/flags", "list">>,
     bank       |-> <<"/bank", "list">>,
     reports    |-> <<"/reports", "date">>,
     teamReports   |-> <<"/reports", "date", "team">>,
     holidays   |-> <<"/holidays", "region", "year">>,
     audit      |-> <<"/audit", "target">>,
     locks      |-> <<"/attendance/lock", "month">>,
     groupPolicy   |-> <<"/policies/:groupName", "group">>,
     companyPolicy |-> <<"/policies/company">>,
     userPolicy    |-> <<"/policies/user", "employee">>,
     effectivePolicy |-> <<"/policies/effective">>,
     roles      |-> <<"/roles">>,
     documents  |-> <<"/documents", "employee">>,
     salary     |-> <<"/admin/salary", "employee">>]
Queries == DOMAIN queryKeys

\* What invalidateQueries(prefix) reaches.
Under(prefixes) == {q \in Queries : \E p \in prefixes : IsPrefix(p, queryKeys[q])}

-----------------------------------------------------------------------------
(* The hooks.  Fetch: the request of a query; Polled: repeated every 60 s. *)
(* Save: the request of a mutation and the keys its success invalidates.   *)

Ask(method, path, self) == [method |-> method, path |-> path, self |-> self]
Fetch(path, self) == [request |-> Ask("GET", path, self), polled |-> FALSE]
Polled(path, self) == [request |-> Ask("GET", path, self), polled |-> TRUE]
Save(method, path, invalidates) ==
    [request |-> Ask(method, path, TRUE), invalidates |-> Under(invalidates)]

employeeHooks ==
    [me |-> Fetch(<<"employees", "me">>, TRUE), employees |-> Fetch(<<"employees">>, FALSE)]
employeeSaves ==
    [updateEmployee |-> Save("PATCH", <<"employees", "id">>, {<<"/employees">>})]

teamHooks == [members |-> Fetch(<<"employees">>, FALSE)]

\* MUTANT: the state is fetched once and not every minute
attendanceHooks_Once ==
    [state        |-> Fetch(<<"attendance", "state">>, TRUE),
     todayEvents  |-> Fetch(<<"attendance", "events">>, TRUE),
     dayEvents    |-> Fetch(<<"attendance", "events">>, TRUE),
     memberEvents |-> Fetch(<<"attendance", "events">>, FALSE),
     summary      |-> Polled(<<"attendance", "summary">>, TRUE),
     teamStates   |-> Polled(<<"attendance", "team-states">>, FALSE)]
attendanceHooks ==
    [state        |-> Polled(<<"attendance", "state">>, TRUE),
     todayEvents  |-> Fetch(<<"attendance", "events">>, TRUE),
     dayEvents    |-> Fetch(<<"attendance", "events">>, TRUE),
     memberEvents |-> Fetch(<<"attendance", "events">>, FALSE),
     summary      |-> Polled(<<"attendance", "summary">>, TRUE),
     teamStates   |-> Polled(<<"attendance", "team-states">>, FALSE)]

\* MUTANT: clocking forgets to refresh the state
useClockAction_NoState == Save("POST", <<"attendance", "events">>,
    {<<"/attendance/summary">>, <<"/attendance/events">>})
useClockAction == Save("POST", <<"attendance", "events">>,
    {<<"/attendance/state">>, <<"/attendance/summary">>, <<"/attendance/events">>})
useEditAttendanceEvent == Save("PATCH", <<"attendance", "events", "id">>,
    {<<"/attendance/state">>, <<"/attendance/summary">>})
attendanceSaves == [clock |-> useClockAction, editEvent |-> useEditAttendanceEvent]

lockHooks == [locks |-> Fetch(<<"attendance", "lock">>, FALSE)]
lockSaves == [createLock |-> Save("POST", <<"attendance", "lock">>, {<<"/attendance/lock">>}),
              deleteLock |-> Save("DELETE", <<"attendance", "lock">>, {<<"/attendance/lock">>})]

leaveHooks ==
    [requests |-> Fetch(<<"leave-requests">>, TRUE),
     pending  |-> Fetch(<<"leave-requests">>, TRUE),
     balance  |-> Fetch(<<"leave", "balance">>, TRUE)]

\* MUTANT: a decision refreshes the queue and not the lists of requests
leaveSaves_QueueOnly ==
    [createLeave  |-> Save("POST", <<"leave-requests">>, {<<"/leave-requests">>}),
     approveLeave |-> Save("PATCH", <<"leave-requests", "id">>, {<<"/leave-requests", "pending">>}),
     rejectLeave  |-> Save("PATCH", <<"leave-requests", "id">>, {<<"/leave-requests", "pending">>})]
leaveSaves ==
    [createLeave  |-> Save("POST", <<"leave-requests">>, {<<"/leave-requests">>}),
     approveLeave |-> Save("PATCH", <<"leave-requests", "id">>, {<<"/leave-requests">>}),
     rejectLeave  |-> Save("PATCH", <<"leave-requests", "id">>, {<<"/leave-requests">>})]

payrollHooks ==
    [breakdown     |-> Fetch(<<"payroll", "month">>, TRUE),
     payrollReport |-> Fetch(<<"payroll", "report", "month">>, FALSE),
     salary        |-> Fetch(<<"admin", "salary", "id">>, FALSE)]
salarySaves == [addSalary |-> Save("POST", <<"admin", "salary", "id">>, {<<"/admin/salary">>})]

flagHooks == [flags |-> Fetch(<<"flags">>, TRUE)]
flagSaves == [resolveFlag |-> Save("PATCH", <<"flags", "id">>, {<<"/flags">>})]

\* Without an employee: the bank entries of the user.
bankHooks == [bank |-> Fetch(<<"bank">>, TRUE)]
bankSaves == [bankApprove |-> Save("POST", <<"bank", "approve">>, {<<"/bank">>})]

reportHooks ==
    [reports |-> Fetch(<<"reports">>, TRUE), teamReports |-> Fetch(<<"reports">>, FALSE)]
reportSaves == [submitReport |-> Save("POST", <<"reports">>, {<<"/reports">>})]

holidayHooks == [holidays |-> Fetch(<<"holidays">>, FALSE)]
holidaySaves ==
    [createHoliday |-> Save("POST", <<"holidays">>, {<<"/holidays">>}),
     deleteHoliday |-> Save("DELETE", <<"holidays", "region", "date">>, {<<"/holidays">>})]

auditHooks == [audit |-> Fetch(<<"audit", "id">>, FALSE)]

\* All three invalidate API_POLICIES, which is the prefix of byGroup alone.
policyHooks ==
    [groupPolicy   |-> Fetch(<<"policies", "group">>, FALSE),
     companyPolicy |-> Fetch(<<"policies", "company">>, FALSE),
     userPolicy    |-> Fetch(<<"policies", "user", "id">>, FALSE),
     effectivePolicy |-> Fetch(<<"policies", "effective">>, TRUE)]
policySaves ==
    [groupPolicySave   |-> Save("PUT", <<"policies", "group">>, {<<"/policies/:groupName">>}),
     companyPolicySave |-> Save("PUT", <<"policies", "company">>, {<<"/policies/:groupName">>}),
     userPolicySave    |-> Save("PUT", <<"policies", "user", "id">>, {<<"/policies/:groupName">>})]

roleHooks == [roles |-> Fetch(<<"roles">>, FALSE)]
roleSaves == [updateRole |-> Save("PUT", <<"roles", "name">>, {<<"/roles">>})]

documentHooks == [documents |-> Fetch(<<"documents">>, FALSE)]
documentSaves ==
    [uploadDocument |-> Save("POST", <<"documents", "upload-url">>, {<<"/documents">>}),
     verifyDocument |-> Save("PATCH", <<"documents", "id">>, {<<"/documents">>})]

\* Offboarding invalidates nothing.
adminSaves ==
    [onboard  |-> Save("POST", <<"onboard">>, {<<"/employees">>}),
     offboard |-> Save("POST", <<"offboard", "id">>, {})]

\* Tables of hooks in one; no name is in two of them.
Together(tables) ==
    [name \in UNION {DOMAIN t : t \in tables} |-> (CHOOSE t \in tables : name \in DOMAIN t)[name]]

Hooks == Together({employeeHooks, teamHooks, attendanceHooks, lockHooks, leaveHooks,
    payrollHooks, flagHooks, bankHooks, reportHooks, holidayHooks, auditHooks, policyHooks,
    roleHooks, documentHooks})
Mutations == Together({employeeSaves, attendanceSaves, lockSaves, leaveSaves, salarySaves,
    flagSaves, bankSaves, reportSaves, holidaySaves, policySaves, roleSaves, documentSaves,
    adminSaves})

\* The kinds of items a query shows and a save changes, and what a role's
\* requests are answered.
Shows == [q \in Queries |-> Route(Hooks[q].request).reads]
Changes == [m \in DOMAIN Mutations |-> Route(Mutations[m].request).writes]
QueryAnswer == [role \in Roles |-> [q \in Queries |-> Answer(role, Hooks[q].request)]]
SaveAnswer == [role \in Roles |->
    [m \in DOMAIN Mutations |-> Answer(role, Mutations[m].request)]]
=============================================================================
