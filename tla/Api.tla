-------------------------------- MODULE Api --------------------------------
(***************************************************************************)
(* The HTTP interface: which role may do what, the routes in the order in  *)
(* which the router tries them, what each one asks of its caller, and the  *)
(* kinds of items it reads and writes.  A request is its method, the parts *)
(* of its path after /api, and whether it is about its sender.             *)
(***************************************************************************)
EXTENDS Sequences, Naturals

EMPLOYEE_PERMISSIONS == {}
MANAGER_PERMISSIONS == EMPLOYEE_PERMISSIONS \cup
    {"EMPLOYEE_LIST_ALL", "LEAVE_APPROVE", "FLAG_RESOLVE", "BANK_APPROVE"}
ADMIN_PERMISSIONS == MANAGER_PERMISSIONS \cup
    {"EMPLOYEE_UPDATE", "ONBOARD", "OFFBOARD", "AUDIT_VIEW", "POLICY_UPDATE",
     "HOLIDAY_MANAGE", "ATTENDANCE_LOCK", "SALARY_MANAGE"}
Permissions == ADMIN_PERMISSIONS

\* A role the table does not know, as the roles page can store, has none.
ROLE_PERMISSIONS ==
    [EMPLOYEE    |-> EMPLOYEE_PERMISSIONS,
     MANAGER     |-> MANAGER_PERMISSIONS,
     HR_MANAGER  |-> MANAGER_PERMISSIONS,
     ADMIN       |-> ADMIN_PERMISSIONS,
     SUPER_ADMIN |-> Permissions,
     AI_AGENT    |-> {"EMPLOYEE_LIST_ALL", "EMPLOYEE_UPDATE"},
     CUSTOM      |-> {}]
Roles == DOMAIN ROLE_PERMISSIONS

\* A token's custom permissions are always empty.
hasPermission(role, permission) ==
    role = "SUPER_ADMIN" \/ permission \in ROLE_PERMISSIONS[role]

-----------------------------------------------------------------------------
(* Routes.  who is a set of which one suffices: permissions, "anyone" with *)
(* a token, or "self", the sender if the request is about the sender.      *)

Id == ":"                                          \* a parameter of a path

Get(path, who, items) ==
    [method |-> "GET", path |-> path, who |-> who, reads |-> items, writes |-> {},
     throws |-> FALSE]
Change(method, path, who, items) ==
    [method |-> method, path |-> path, who |-> who, reads |-> {}, writes |-> items,
     throws |-> FALSE]
Throwing(route) == [route EXCEPT !.throws = TRUE]

\* requireCrossUserAccess: oneself, or whoever may list all employees.
CrossUser == {"self", "EMPLOYEE_LIST_ALL"}

employeeRoutes == <<
    Get(<<"employees", "me">>, {"anyone"}, {"employees"}),
    Get(<<"employees", Id>>, CrossUser, {"employees"}),
    Get(<<"employees">>, {"EMPLOYEE_UPDATE", "EMPLOYEE_LIST_ALL"}, {"employees"}),
    Change("PATCH", <<"employees", Id>>, {"EMPLOYEE_UPDATE"}, {"employees"})>>

attendanceRoutes == <<
    Get(<<"attendance", "state">>, {"anyone"}, {"states"}),
    Get(<<"attendance", "events">>, CrossUser, {"events"}),
    Change("POST", <<"attendance", "events">>, {"anyone"}, {"events", "states", "audit"}),
    Get(<<"attendance", "summary">>, CrossUser, {"events", "policies", "employees"}),
    Change("PATCH", <<"attendance", "events", Id>>, {"anyone"}, {"events", "audit"}),
    Get(<<"attendance", "team-states">>, {"EMPLOYEE_LIST_ALL"}, {"states"})>>

leaveRoutes == <<
    Change("POST", <<"leave-requests">>, {"anyone"}, {"leave", "audit"}),
    Get(<<"leave-requests">>, CrossUser, {"leave"}),
    Change("PATCH", <<"leave-requests", Id>>, {"LEAVE_APPROVE"}, {"leave", "audit"}),
    Get(<<"leave", "balance">>, CrossUser, {"leave"})>>

payrollRoutes == <<
    Get(<<"payroll", "report", Id>>, {"SALARY_MANAGE"},
        {"employees", "events", "salary", "leave", "policies"}),
    Get(<<"payroll", Id>>, {"anyone"}, {"salary", "policies", "employees"})>>

\* The resolution of a flag is computed and not stored.
flagRoutes == <<
    Get(<<"flags">>, {"anyone"}, {"flags"}),
    Change("PATCH", <<"flags", Id>>, {"FLAG_RESOLVE"}, {})>>

\* BankService.approve ends in an update that always throws.
bankRoutes == <<
    Get(<<"bank">>, CrossUser, {"bank"}),
    Throwing(Change("POST", <<"bank", "approve">>, {"BANK_APPROVE"}, {}))>>

\* With team=true the request is about everybody: not "self".
reportRoutes == <<
    Get(<<"reports">>, CrossUser, {"reports"}),
    Change("POST", <<"reports">>, {"anyone"}, {"reports"})>>

adminRoutes == <<
    Change("POST", <<"onboard">>, {"ONBOARD"}, {"employees", "salary", "audit"}),
    Change("POST", <<"offboard", Id>>, {"OFFBOARD"}, {"employees", "audit"}),
    Get(<<"audit", Id>>, {"AUDIT_VIEW"}, {"audit"})>>

holidayRoutes == <<
    Get(<<"holidays">>, {"anyone"}, {"holidays"}),
    Change("POST", <<"holidays">>, {"HOLIDAY_MANAGE"}, {"holidays"}),
    Change("DELETE", <<"holidays", Id, Id>>, {"HOLIDAY_MANAGE"}, {"holidays"})>>

\* MUTANT: the group's route before the ones with a fixed name
policyRoutes_GroupFirst == <<
    Get(<<"policies", Id>>, {"POLICY_UPDATE"}, {"policies"}),
    Change("PUT", <<"policies", Id>>, {"POLICY_UPDATE"}, {"policies"}),
    Get(<<"policies", "effective">>, {"anyone"}, {"policies", "employees"}),
    Get(<<"policies", "company">>, {"POLICY_UPDATE"}, {"policies"}),
    Change("PUT", <<"policies", "company">>, {"POLICY_UPDATE"}, {"policies"}),
    Get(<<"policies", "user", Id>>, {"POLICY_UPDATE"}, {"policies"}),
    Change("PUT", <<"policies", "user", Id>>, {"POLICY_UPDATE"}, {"policies"})>>

policyRoutes == <<
    Get(<<"policies", "effective">>, {"anyone"}, {"policies", "employees"}),
    Get(<<"policies", "company">>, {"POLICY_UPDATE"}, {"policies"}),
    Change("PUT", <<"policies", "company">>, {"POLICY_UPDATE"}, {"policies"}),
    Get(<<"policies", Id>>, {"POLICY_UPDATE"}, {"policies"}),
    Change("PUT", <<"policies", Id>>, {"POLICY_UPDATE"}, {"policies"}),
    Get(<<"policies", "user", Id>>, {"POLICY_UPDATE"}, {"policies"}),
    Change("PUT", <<"policies", "user", Id>>, {"POLICY_UPDATE"}, {"policies"})>>

attendanceLockRoutes == <<
    Get(<<"attendance", "lock">>, {"anyone"}, {"locks"}),
    Change("POST", <<"attendance", "lock">>, {"ATTENDANCE_LOCK"}, {"locks"}),
    Change("DELETE", <<"attendance", "lock">>, {"ATTENDANCE_LOCK"}, {"locks"})>>

roleRoutes == <<
    Get(<<"roles">>, {"anyone"}, {"roles"}),
    Get(<<"roles", Id>>, {"anyone"}, {"roles"}),
    Change("PUT", <<"roles", Id>>, {"POLICY_UPDATE"}, {"roles"})>>

\* The composition wires a repository that finds and stores nothing.
documentRoutes == <<
    Get(<<"documents">>, CrossUser, {}),
    Change("POST", <<"documents", "upload-url">>, CrossUser, {}),
    Change("PATCH", <<"documents", Id>>, {"EMPLOYEE_UPDATE"}, {})>>

\* A fixed answer.
quotaRoutes == << Get(<<"quotas", Id>>, CrossUser, {}) >>

salaryAdminRoutes == <<
    Get(<<"admin", "salary", Id>>, {"SALARY_MANAGE"}, {"salary"}),
    Change("POST", <<"admin", "salary", Id>>, {"SALARY_MANAGE"}, {"salary"}),
    Get(<<"admin", "salary", Id, Id>>, {"SALARY_MANAGE"}, {"salary"})>>

buildRoutes ==
    employeeRoutes \o attendanceRoutes \o leaveRoutes \o payrollRoutes \o flagRoutes
    \o bankRoutes \o reportRoutes \o adminRoutes \o holidayRoutes \o policyRoutes
    \o attendanceLockRoutes \o roleRoutes \o documentRoutes \o quotaRoutes
    \o salaryAdminRoutes

-----------------------------------------------------------------------------
(* What the router does with a request: the first route that fits.         *)

matchPath(pattern, path) ==
    /\ Len(pattern) = Len(path)
    /\ \A i \in DOMAIN path : pattern[i] \in {Id, path[i]}

\* The routes that fit a request, as positions in the order of the router.
Fitting(request) == {i \in DOMAIN buildRoutes :
    /\ buildRoutes[i].method = request.method
    /\ matchPath(buildRoutes[i].path, request.path)}

Route(request) == buildRoutes[CHOOSE i \in Fitting(request) : \A j \in Fitting(request) : i <= j]

Admits(route, role, self) ==
    \/ "anyone" \in route.who
    \/ "self" \in route.who /\ self
    \/ \E p \in route.who \cap Permissions : hasPermission(role, p)

Answer(role, request) ==
    IF Fitting(request) = {} THEN "NOT_FOUND"
    ELSE IF ~Admits(Route(request), role, request.self) THEN "FORBIDDEN"
    ELSE IF Route(request).throws THEN "FAILED" ELSE "OK"
=============================================================================
