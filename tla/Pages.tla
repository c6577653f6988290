------------------------------- MODULE Pages -------------------------------
(***************************************************************************)
(* The pages of the web application, a tab of a page as a page of its own: *)
(* the queries a page mounts and the controls it shows to a user with the  *)
(* permissions may.                                                        *)
(***************************************************************************)
EXTENDS Screens

Page(loads, controls) == [loads |-> loads, controls |-> controls]

\* A control sends a save.  A form is there at once, or once the query ready
\* has been answered or has failed; an item's button comes with the answer of
\* the query that lists the item.  Most are disabled while their save is
\* pending, repeatable ones are not.
Control(save, from, ready, once) ==
    [save |-> save, from |-> from, ready |-> ready, once |-> once]
Form(save) == Control(save, {}, {}, TRUE)
FormAfter(save, query) == Control(save, {}, {query}, TRUE)
Button(save, query) == Control(save, {query}, {}, TRUE)
Repeatable(control) == [control EXCEPT !.once = FALSE]

Manager(may) == "LEAVE_APPROVE" \in may          \* useIsManager
Admin(may) == "ONBOARD" \in may                  \* useIsAdmin
If(condition, set) == IF condition THEN set ELSE {}

pendingCounts == {"pending", "flags", "bank"}

-----------------------------------------------------------------------------
(* For every user.                                                         *)

ManagerSection == {"members", "teamStates"} \cup pendingCounts
AdminSection == {"employees"}
DashboardPage(may) == Page(
    {"me", "state", "summary", "todayEvents", "balance", "holidays"}
        \cup If(Manager(may), ManagerSection) \cup If(Admin(may), AdminSection),
    {FormAfter("clock", "state")})

\* Any lock of the month hides the buttons that edit.
AttendancePage(may) == Page(
    {"state", "summary", "todayEvents", "dayEvents", "locks"},
    {Form("clock"), Button("editEvent", "dayEvents")})

LeaveQueries(may) == {"requests", "balance"} \cup If(Manager(may), {"pending"})
LeavePage(may) == Page(LeaveQueries(may),
    {Form("createLeave")} \cup If(Manager(may), {Button("approveLeave", "pending")}))
LeaveCalendarTab(may) == Page(LeaveQueries(may), {})

ReportsPage(may) == Page({"reports"}, {Form("submitReport")})
PayrollPage(may) == Page({"breakdown"}, {})
SettingsPage(may) == Page({"me"}, {})

(* For managers.                                                           *)

TeamOverview(may) == Page(pendingCounts \cup {"members", "teamStates"}, {})
ApprovalQueue(may) == Page(pendingCounts,
    {Button("approveLeave", "pending"), Button("rejectLeave", "pending"),
     Button("bankApprove", "bank"), Repeatable(Button("resolveFlag", "flags"))})
TeamCalendar(may) == Page(pendingCounts \cup {"requests"}, {})
MemberReportRow == {"memberEvents"}
TeamReports(may) == Page(
    pendingCounts \cup {"members", "teamReports", "teamStates"} \cup MemberReportRow, {})

(* For administrators.                                                     *)

AdminPage(may) == Page({}, {})
OnboardingTab(may) == Page({"employees"}, {Form("onboard")})
OffboardingTab(may) == Page({"employees"}, {Button("offboard", "employees")})
EmployeesTab(may) == Page({"employees"}, {Button("updateEmployee", "employees")})
SalaryTab(may) == Page({"employees", "salary"}, {Button("addSalary", "employees")})
PayrollReportTab(may) == Page({"payrollReport"}, {})
PolicyTab(may) == Page({"groupPolicy"}, {Button("groupPolicySave", "groupPolicy")})
RolesTab(may) == Page({"roles"}, {Button("updateRole", "roles")})
HolidayTab(may) == Page({"holidays"},
    {Form("createHoliday"), Button("deleteHoliday", "holidays")})
\* The switch of the company is disabled while pending, those of groups and
\* employees are not.
AttendanceLockTab(may) == Page({"locks", "employees"},
    {Repeatable(FormAfter("createLock", "locks")), Repeatable(Button("deleteLock", "locks"))})

(* Panels no page mounts yet: for every user those of attendance, for      *)
(* administrators those of admin.                                          *)

FlagsPanel(may) == Page({"flags"},
    If(Manager(may), {Repeatable(Button("resolveFlag", "flags"))}))
BankPanel(may) == Page({"bank"}, {})
DocumentsPanel(may) == Page({"documents"},
    {Form("uploadDocument")} \cup If(Admin(may), {Repeatable(Button("verifyDocument", "documents"))}))
AuditPanel(may) == Page({"audit"}, {})

-----------------------------------------------------------------------------
(* Routes of the application and who passes their guards.                  *)

AnyUser == {"dashboard", "attendance", "leave", "leaveCalendar", "reports", "payroll",
            "settings", "flagsPanel", "bankPanel"}
TeamPages == {"team", "approvals", "teamCalendar", "teamReports"}
AdminPages == {"admin", "onboarding", "offboarding", "employees", "salary",
               "payrollReport", "policies", "roles", "holidays", "locks",
               "documentsPanel", "auditPanel"}

RoleGuard(may, page) ==
    /\ page \in TeamPages => "LEAVE_APPROVE" \in may
    /\ page \in AdminPages => "ONBOARD" \in may

PagesOf(may) ==
    [dashboard |-> DashboardPage(may), attendance |-> AttendancePage(may),
     leave |-> LeavePage(may), leaveCalendar |-> LeaveCalendarTab(may),
     reports |-> ReportsPage(may), payroll |-> PayrollPage(may), settings |-> SettingsPage(may),
     team |-> TeamOverview(may), approvals |-> ApprovalQueue(may),
     teamCalendar |-> TeamCalendar(may), teamReports |-> TeamReports(may),
     admin |-> AdminPage(may), onboarding |-> OnboardingTab(may),
     offboarding |-> OffboardingTab(may), employees |-> EmployeesTab(may),
     salary |-> SalaryTab(may), payrollReport |-> PayrollReportTab(may),
     policies |-> PolicyTab(may), roles |-> RolesTab(may), holidays |-> HolidayTab(may),
     locks |-> AttendanceLockTab(may), flagsPanel |-> FlagsPanel(may),
     bankPanel |-> BankPanel(may), documentsPanel |-> DocumentsPanel(may),
     auditPanel |-> AuditPanel(may)]

\* The permissions the session keeps are those of the role at login.
May(role) == ROLE_PERMISSIONS[role]
Shown == [role \in Roles |-> PagesOf(May(role))]
AllPages == AnyUser \cup TeamPages \cup AdminPages
Opens(role, page) == page \in AllPages /\ RoleGuard(May(role), page)
=============================================================================
