----------------------------- MODULE WebProofs ------------------------------
(***************************************************************************)
(* The tab of the web application for any users, roles, pages, queries and *)
(* kinds of items, any number of saves on their way and any answers late,  *)
(* lost or out of order.                                                   *)
(***************************************************************************)
EXTENDS WebClient, FiniteSetTheorems, TLAPS

-----------------------------------------------------------------------------
(* The router tries its routes in order.  Each of its lists has a part of  *)
(* the paths for itself, so a request meets one list only.                 *)

\* A list of routes.
RouteList(routes) == \E set : routes \in Seq(set)

Fits(route, request) == route.method = request.method /\ matchPath(route.path, request.path)
Blanks(route) == {k \in DOMAIN route.path : route.path[k] = Id}

\* No route of a list fits.
None(routes, request) == \A i \in 1 .. Len(routes) : ~Fits(routes[i], request)

\* The first route of a list that fits, and no other that fits has fewer parameters.
Fewest(route, other) == Blanks(route) \subseteq Blanks(other) /\ Blanks(other) \subseteq 1 .. 4
FoundAt(routes, request, i) ==
    /\ i \in 1 .. Len(routes) /\ Fits(routes[i], request)
    /\ \A j \in 1 .. Len(routes) :
         Fits(routes[j], request) => i <= j /\ Fewest(routes[i], routes[j])
Found(routes, request, route) ==
    \E i \in 1 .. Len(routes) : route = routes[i] /\ FoundAt(routes, request, i)

\* A list has the routes of a set of lists, and serves a request that fits routes in one
\* of them as that one does.
Serves(routes, lists) ==
    /\ RouteList(routes)
    /\ \A i \in 1 .. Len(routes) : \E list \in lists : \E j \in 1 .. Len(list) : routes[i] = list[j]
    /\ \A request : (\A list \in lists : None(list, request)) => None(routes, request)
    /\ \A request, route : \A list \in lists :
         Found(list, request, route) /\ (\A other \in lists : other = list \/ None(other,
             request))
           => Found(routes, request, route)

\* One list after another.
LEMMA OneAfterAnother ==
    ASSUME NEW s, NEW t, RouteList(s), RouteList(t)
    PROVE  /\ RouteList(s \o t) /\ Len(s) \in Nat /\ Len(t) \in Nat /\ Len(s \o t) = Len(s) + Len(t)
           /\ \A i \in 1 .. Len(s) : (s \o t)[i] = s[i]
           /\ \A i \in 1 .. Len(t) : (s \o t)[Len(s) + i] = t[i]
           /\ \A i \in 1 .. Len(s) + Len(t) : i \in 1 .. Len(s) \/ i - Len(s) \in 1 .. Len(t)
<1>1. PICK set : s \in Seq(set) /\ t \in Seq(set)
  <2>1. PICK a, b : s \in Seq(a) /\ t \in Seq(b)
    BY DEF RouteList
  <2>2. /\ Len(s) \in Nat /\ Len(t) \in Nat
        /\ \A i \in 1 .. Len(s) : s[i] \in a
        /\ \A i \in 1 .. Len(t) : t[i] \in b
    BY <2>1
  <2>3. s \in Seq(a \cup b) /\ t \in Seq(a \cup b)
    BY <2>1, <2>2
  <2>4. QED BY <2>3
<1>2. s \o t \in Seq(set) /\ Len(s) \in Nat /\ Len(t) \in Nat /\ Len(s \o t) = Len(s) + Len(t)
  BY <1>1
<1>3. /\ \A i \in 1 .. Len(s) : (s \o t)[i] = s[i]
      /\ \A i \in 1 .. Len(t) : (s \o t)[Len(s) + i] = t[i]
  BY <1>1
<1>4. RouteList(s \o t)
  BY <1>2 DEF RouteList
<1>5. QED BY <1>2, <1>3, <1>4

\* What fits only in one of the two is found there.
LEMMA FoundInOne ==
    ASSUME NEW s, NEW t, RouteList(s), RouteList(t), NEW request, NEW route
    PROVE  /\ None(s, request) /\ None(t, request) => None(s \o t, request)
           /\ None(s, request) /\ Found(t, request, route) => Found(s \o t, request, route)
           /\ Found(s, request, route) /\ None(t, request) => Found(s \o t, request, route)
<1> DEFINE m == Len(s)
           n == Len(t)
           u == s \o t
<1>1. /\ m \in Nat /\ n \in Nat /\ Len(u) = m + n
      /\ \A i \in 1 .. m : u[i] = s[i]
      /\ \A i \in 1 .. n : u[m + i] = t[i]
      /\ \A i \in 1 .. m + n : i \in 1 .. m \/ i - m \in 1 .. n
  BY OneAfterAnother
<1> HIDE DEF u, m, n
<1>2. \A i \in 1 .. m + n : i \in 1 .. m \/ \E j \in 1 .. n : i = m + j /\ u[i] = t[j]
  <2> SUFFICES ASSUME NEW i \in 1 .. m + n,
         i \notin 1 .. m PROVE \E j \in 1 .. n : i = m + j /\ u[i] = t[j]
    OBVIOUS
  <2>1. i - m \in 1 .. n /\ i = m + (i - m)
    BY <1>1
  <2>2. QED BY <1>1, <2>1
<1>3. ASSUME None(s, request), None(t, request) PROVE None(u, request)
  <2>1. \A i \in 1 .. m : ~Fits(u[i], request)
    BY <1>1, <1>3 DEF None, m
  <2>2. \A i \in 1 .. m + n : i \notin 1 .. m => ~Fits(u[i], request)
    BY <1>3, <1>2 DEF None, n
  <2>3. QED BY <1>1, <2>1, <2>2 DEF None
<1>4. ASSUME None(s, request), Found(t, request, route) PROVE Found(u, request, route)
  <2>1. PICK i \in 1 .. n :
          /\ t[i] = route /\ Fits(route, request)
          /\ \A j \in 1 .. n : Fits(t[j], request) => i <= j /\ Fewest(route, t[j])
    BY <1>4 DEF Found, FoundAt, n
  <2>2. m + i \in 1 .. m + n /\ u[m + i] = route
    BY <1>1, <2>1
  <2>3. ASSUME NEW j \in 1 .. m + n, Fits(u[j], request)
        PROVE  m + i <= j /\ Fewest(route, u[j])
    <3>1. j \notin 1 .. m
      BY <1>1, <1>4, <2>3 DEF None, m
    <3>2. PICK k \in 1 .. n : j = m + k /\ u[j] = t[k]
      BY <1>2, <3>1
    <3>3. i <= k /\ Fewest(route, t[k])
      BY <2>1, <2>3, <3>2
    <3>4. QED BY <1>1, <3>2, <3>3
  <2>4. QED BY <1>1, <2>1, <2>2, <2>3 DEF Found, FoundAt
<1>5. ASSUME Found(s, request, route), None(t, request) PROVE Found(u, request, route)
  <2>1. PICK i \in 1 .. m :
          /\ s[i] = route /\ Fits(route, request)
          /\ \A j \in 1 .. m : Fits(s[j], request) => i <= j /\ Fewest(route, s[j])
    BY <1>5 DEF Found, FoundAt, m
  <2>2. i \in 1 .. m + n /\ u[i] = route
    BY <1>1, <2>1
  <2>3. ASSUME NEW j \in 1 .. m + n, Fits(u[j], request)
        PROVE  i <= j /\ Fewest(route, u[j])
    <3>1. j \in 1 .. m
      <4>1. ASSUME NEW k \in 1 .. n PROVE ~Fits(t[k], request)
        BY <1>5 DEF None, n
      <4>2. QED BY <1>2, <2>3, <4>1
    <3>2. QED BY <1>1, <2>1, <2>3, <3>1
  <2>4. QED BY <1>1, <2>1, <2>2, <2>3 DEF Found, FoundAt
<1>6. QED BY <1>3, <1>4, <1>5 DEF u

\* One list serves itself.
LEMMA ServesItself == ASSUME NEW s, RouteList(s) PROVE Serves(s, {s})
  BY DEF Serves

\* A further list.
LEMMA ServesMore ==
    ASSUME NEW s, NEW lists, Serves(s, lists), NEW t, RouteList(t), t \notin lists
    PROVE  Serves(s \o t, lists \cup {t})
<1> DEFINE all == lists \cup {t}
<1>1. RouteList(s)
  BY DEF Serves
<1>2. ASSUME NEW i \in 1 .. Len(s \o t)
      PROVE  \E list \in all : \E j \in 1 .. Len(list) : (s \o t)[i] = list[j]
  <2>1. CASE i \in 1 .. Len(s)
    <3>1. (s \o t)[i] = s[i] /\ \E list \in lists : \E j \in 1 .. Len(list) : s[i] = list[j]
      BY <1>1, <2>1, OneAfterAnother DEF Serves
    <3>2. QED BY <3>1
  <2>2. CASE i \notin 1 .. Len(s)
    <3> DEFINE j == i - Len(s)
    <3>1. j \in 1 .. Len(t) /\ Len(s) \in Nat
      BY <1>1, <1>2, <2>2, OneAfterAnother
    <3>2. i = Len(s) + j
      BY <3>1
    <3>3. (s \o t)[i] = t[j]
      BY <1>1, <3>1, <3>2, OneAfterAnother
    <3>4. QED BY <3>1, <3>3
  <2>3. QED BY <2>1, <2>2
<1>3. ASSUME NEW request, \A list \in all : None(list, request) PROVE None(s \o t, request)
  BY <1>1, <1>3, FoundInOne DEF Serves
<1>4. ASSUME NEW request, NEW route, NEW list \in all, Found(list, request, route),
             \A other \in all : other = list \/ None(other, request)
      PROVE  Found(s \o t, request, route)
  <2>1. CASE list = t
    <3>1. None(s, request)
      BY <1>4, <2>1 DEF Serves
    <3>2. QED BY <1>1, <1>4, <2>1, <3>1, FoundInOne
  <2>2. CASE list # t
    <3>1. Found(s, request, route) /\ None(t, request)
      BY <1>4, <2>2 DEF Serves
    <3>2. QED BY <1>1, <3>1, FoundInOne
  <2>3. QED BY <2>1, <2>2
<1>5. RouteList(s \o t)
  BY <1>1, OneAfterAnother
<1> HIDE DEF all
<1>6. QED BY <1>2, <1>3, <1>4, <1>5 DEF Serves, all

\* The routes of a list that fit a request.
Fit(routes, request) == {i \in 1 .. Len(routes) : Fits(routes[i], request)}
Short(routes) == \A i \in 1 .. Len(routes) : Blanks(routes[i]) \subseteq 1 .. 4

Only(routes, request, i) == Fit(routes, request) = {i}
Before(routes, request, i, j) ==
    Fit(routes, request) = {i, j} /\ i <= j /\ Blanks(routes[i]) = {}

\* A request is served by the first of the routes that fit, here if it has no parameters.
LEMMA FirstFits ==
    ASSUME NEW routes, Short(routes), NEW request
    PROVE  /\ \A i : Only(routes, request, i) => Found(routes, request, routes[i])
           /\ \A i, j : Before(routes, request, i, j) => Found(routes, request, routes[i])
<1>1. ASSUME NEW i, Only(routes, request, i) PROVE Found(routes, request, routes[i])
  <2>1. i \in 1 .. Len(routes) /\ i <= i /\ Fits(routes[i], request)
    BY <1>1 DEF Only, Fit
  <2>2. \A k \in 1 .. Len(routes) : Fits(routes[k], request) => k = i
    BY <1>1 DEF Only, Fit
  <2>3. QED BY <2>1, <2>2 DEF Found, FoundAt, Fewest, Short
<1>2. ASSUME NEW i, NEW j, Before(routes, request, i, j)
      PROVE  Found(routes, request, routes[i])
  <2>1. i \in 1 .. Len(routes) /\ i <= i /\ Fits(routes[i], request)
    BY <1>2 DEF Before, Fit
  <2>2. \A k \in 1 .. Len(routes) : Fits(routes[k], request) => k = i \/ k = j
    BY <1>2 DEF Before, Fit
  <2>3. QED BY <1>2, <2>1, <2>2 DEF Before, Found, FoundAt, Fewest, Short
<1>3. QED BY <1>1, <1>2

\* The lists of the router.
Groups == {employeeRoutes, attendanceRoutes, leaveRoutes, payrollRoutes, flagRoutes,
    bankRoutes, reportRoutes, adminRoutes, holidayRoutes, policyRoutes, attendanceLockRoutes,
        roleRoutes, documentRoutes, quotaRoutes, salaryAdminRoutes}

\* No path of theirs has more than four parts.
LEMMA GroupsShort == \A list \in Groups : Short(list)

<1>1. Short(employeeRoutes)
  BY DEF Short, Blanks, Get, Change, Throwing, employeeRoutes
<1>2. Short(attendanceRoutes)
  BY DEF Short, Blanks, Get, Change, Throwing, attendanceRoutes
<1>3. Short(leaveRoutes)
  BY DEF Short, Blanks, Get, Change, Throwing, leaveRoutes
<1>4. Short(payrollRoutes)
  BY DEF Short, Blanks, Get, Change, Throwing, payrollRoutes
<1>5. Short(flagRoutes)
  BY DEF Short, Blanks, Get, Change, Throwing, flagRoutes
<1>6. Short(bankRoutes)
  BY DEF Short, Blanks, Get, Change, Throwing, bankRoutes
<1>7. Short(reportRoutes)
  BY DEF Short, Blanks, Get, Change, Throwing, reportRoutes
<1>8. Short(adminRoutes)
  BY DEF Short, Blanks, Get, Change, Throwing, adminRoutes
<1>9. Short(holidayRoutes)
  BY DEF Short, Blanks, Get, Change, Throwing, holidayRoutes
<1>10. Short(policyRoutes)
  BY DEF Short, Blanks, Get, Change, Throwing, policyRoutes
<1>11. Short(attendanceLockRoutes)
  BY DEF Short, Blanks, Get, Change, Throwing, attendanceLockRoutes
<1>12. Short(roleRoutes)
  BY DEF Short, Blanks, Get, Change, Throwing, roleRoutes
<1>13. Short(documentRoutes)
  BY DEF Short, Blanks, Get, Change, Throwing, documentRoutes
<1>14. Short(quotaRoutes)
  BY DEF Short, Blanks, Get, Change, Throwing, quotaRoutes
<1>15. Short(salaryAdminRoutes)
  BY DEF Short, Blanks, Get, Change, Throwing, salaryAdminRoutes
<1>16. QED BY <1>1, <1>2, <1>3, <1>4, <1>5, <1>6, <1>7, <1>8, <1>9, <1>10, <1>11, <1>12, <1>13,
          <1>14, <1>15 DEF Groups

\* Each list has a part of the paths for itself.
LEMMA PathsApart ==
    \A request :
      /\ request.path[1] \notin {"employees"} => None(employeeRoutes, request)
      /\ (request.path[1] # "attendance" \/ request.path[2] = "lock") => None(attendanceRoutes,
           request)
      /\ request.path[1] \notin {"leave", "leave-requests"} => None(leaveRoutes, request)
      /\ request.path[1] \notin {"payroll"} => None(payrollRoutes, request)
      /\ request.path[1] \notin {"flags"} => None(flagRoutes, request)
      /\ request.path[1] \notin {"bank"} => None(bankRoutes, request)
      /\ request.path[1] \notin {"reports"} => None(reportRoutes, request)
      /\ request.path[1] \notin {"audit", "offboard", "onboard"} => None(adminRoutes, request)
      /\ request.path[1] \notin {"holidays"} => None(holidayRoutes, request)
      /\ request.path[1] \notin {"policies"} => None(policyRoutes, request)
      /\ (request.path[1] # "attendance" \/ request.path[2] # "lock")
           => None(attendanceLockRoutes, request)
      /\ request.path[1] \notin {"roles"} => None(roleRoutes, request)
      /\ request.path[1] \notin {"documents"} => None(documentRoutes, request)
      /\ request.path[1] \notin {"quotas"} => None(quotaRoutes, request)
      /\ request.path[1] \notin {"admin"} => None(salaryAdminRoutes, request)
<1>1. \A request : request.path[1] \notin {"employees"} => None(employeeRoutes, request)
  BY DEF None, Fits, matchPath, Get, Change, Throwing, Id, employeeRoutes
<1>2. \A request :
        (request.path[1] # "attendance" \/ request.path[2] = "lock") => None(attendanceRoutes, request)
  <2>1. \A path : path[1] # "attendance" \/ path[2] = "lock" =>
          /\ ~matchPath(<<"attendance", "state">>, path)
          /\ ~matchPath(<<"attendance", "events">>, path)
          /\ ~matchPath(<<"attendance", "summary">>, path)
          /\ ~matchPath(<<"attendance", "events", Id>>, path)
          /\ ~matchPath(<<"attendance", "team-states">>, path)
    BY DEF matchPath, Id
  <2>2. QED BY <2>1 DEF None, Fits, Get, Change, attendanceRoutes
<1>3. \A request : request.path[1] \notin {"leave", "leave-requests"} => None(leaveRoutes,
         request)
  BY DEF None, Fits, matchPath, Get, Change, Throwing, Id, leaveRoutes
<1>4. \A request : request.path[1] \notin {"payroll"} => None(payrollRoutes, request)
  BY DEF None, Fits, matchPath, Get, Change, Throwing, Id, payrollRoutes
<1>5. \A request : request.path[1] \notin {"flags"} => None(flagRoutes, request)
  BY DEF None, Fits, matchPath, Get, Change, Throwing, Id, flagRoutes
<1>6. \A request : request.path[1] \notin {"bank"} => None(bankRoutes, request)
  BY DEF None, Fits, matchPath, Get, Change, Throwing, Id, bankRoutes
<1>7. \A request : request.path[1] \notin {"reports"} => None(reportRoutes, request)
  BY DEF None, Fits, matchPath, Get, Change, Throwing, Id, reportRoutes
<1>8. \A request : request.path[1] \notin {"audit", "offboard", "onboard"} => None(adminRoutes,
         request)
  BY DEF None, Fits, matchPath, Get, Change, Throwing, Id, adminRoutes
<1>9. \A request : request.path[1] \notin {"holidays"} => None(holidayRoutes, request)
  BY DEF None, Fits, matchPath, Get, Change, Throwing, Id, holidayRoutes
<1>10. \A request : request.path[1] \notin {"policies"} => None(policyRoutes, request)
  BY DEF None, Fits, matchPath, Get, Change, Throwing, Id, policyRoutes
<1>11. \A request :
        (request.path[1] # "attendance" \/ request.path[2] # "lock") => None(attendanceLockRoutes, request)
  BY DEF None, Fits, matchPath, Get, Change, Throwing, Id, attendanceLockRoutes
<1>12. \A request : request.path[1] \notin {"roles"} => None(roleRoutes, request)
  BY DEF None, Fits, matchPath, Get, Change, Throwing, Id, roleRoutes
<1>13. \A request : request.path[1] \notin {"documents"} => None(documentRoutes, request)
  BY DEF None, Fits, matchPath, Get, Change, Throwing, Id, documentRoutes
<1>14. \A request : request.path[1] \notin {"quotas"} => None(quotaRoutes, request)
  BY DEF None, Fits, matchPath, Get, Change, Throwing, Id, quotaRoutes
<1>15. \A request : request.path[1] \notin {"admin"} => None(salaryAdminRoutes, request)
  BY DEF None, Fits, matchPath, Get, Change, Throwing, Id, salaryAdminRoutes
<1>16. QED BY <1>1, <1>2, <1>3, <1>4, <1>5, <1>6, <1>7, <1>8, <1>9, <1>10, <1>11, <1>12, <1>13,
          <1>14, <1>15

\* No list is there twice.
LEMMA GroupsDiffer ==
    /\ employeeRoutes[1].path[1] = "employees"
    /\ attendanceRoutes[1].path[1] = "attendance"
    /\ leaveRoutes[1].path[1] = "leave-requests"
    /\ payrollRoutes[1].path[1] = "payroll"
    /\ flagRoutes[1].path[1] = "flags"
    /\ bankRoutes[1].path[1] = "bank"
    /\ reportRoutes[1].path[1] = "reports"
    /\ adminRoutes[1].path[1] = "onboard"
    /\ holidayRoutes[1].path[1] = "holidays"
    /\ policyRoutes[1].path[1] = "policies"
    /\ attendanceLockRoutes[1].path[1] = "attendance"
    /\ roleRoutes[1].path[1] = "roles"
    /\ documentRoutes[1].path[1] = "documents"
    /\ quotaRoutes[1].path[1] = "quotas"
    /\ salaryAdminRoutes[1].path[1] = "admin"
    /\ attendanceRoutes[1].path[2] = "state" /\ attendanceLockRoutes[1].path[2] = "lock"
  BY DEF Get, Change, Throwing, employeeRoutes, attendanceRoutes, leaveRoutes, payrollRoutes,
     flagRoutes, bankRoutes, reportRoutes, adminRoutes, holidayRoutes, policyRoutes,
         attendanceLockRoutes, roleRoutes, documentRoutes, quotaRoutes, salaryAdminRoutes

\* The router has the routes of all lists.
LEMMA RouterServes == Serves(buildRoutes, Groups)
<1> DEFINE s1 == employeeRoutes
           g1 == {employeeRoutes}
           s2 == s1 \o attendanceRoutes
           g2 == g1 \cup {attendanceRoutes}
           s3 == s2 \o leaveRoutes
           g3 == g2 \cup {leaveRoutes}
           s4 == s3 \o payrollRoutes
           g4 == g3 \cup {payrollRoutes}
           s5 == s4 \o flagRoutes
           g5 == g4 \cup {flagRoutes}
           s6 == s5 \o bankRoutes
           g6 == g5 \cup {bankRoutes}
           s7 == s6 \o reportRoutes
           g7 == g6 \cup {reportRoutes}
           s8 == s7 \o adminRoutes
           g8 == g7 \cup {adminRoutes}
           s9 == s8 \o holidayRoutes
           g9 == g8 \cup {holidayRoutes}
           s10 == s9 \o policyRoutes
           g10 == g9 \cup {policyRoutes}
           s11 == s10 \o attendanceLockRoutes
           g11 == g10 \cup {attendanceLockRoutes}
           s12 == s11 \o roleRoutes
           g12 == g11 \cup {roleRoutes}
           s13 == s12 \o documentRoutes
           g13 == g12 \cup {documentRoutes}
           s14 == s13 \o quotaRoutes
           g14 == g13 \cup {quotaRoutes}
           s15 == s14 \o salaryAdminRoutes
           g15 == g14 \cup {salaryAdminRoutes}
<1>1. \A list \in Groups : RouteList(list)
  <2>1. /\ \A a : <<a>> \in Seq({a})
        /\ \A a, b : <<a, b>> \in Seq({a, b})
        /\ \A a, b, c : <<a, b, c>> \in Seq({a, b, c})
        /\ \A a, b, c, d : <<a, b, c, d>> \in Seq({a, b, c, d})
        /\ \A a, b, c, d, e, f : <<a, b, c, d, e, f>> \in Seq({a, b, c, d, e, f})
        /\ \A a, b, c, d, e, f, g : <<a, b, c, d, e, f, g>> \in Seq({a, b, c, d, e, f, g})
    OBVIOUS
  <2>2. RouteList(employeeRoutes)
    BY <2>1 DEF RouteList, employeeRoutes
  <2>3. RouteList(attendanceRoutes)
    BY <2>1 DEF RouteList, attendanceRoutes
  <2>4. RouteList(leaveRoutes)
    BY <2>1 DEF RouteList, leaveRoutes
  <2>5. RouteList(payrollRoutes)
    BY <2>1 DEF RouteList, payrollRoutes
  <2>6. RouteList(flagRoutes)
    BY <2>1 DEF RouteList, flagRoutes
  <2>7. RouteList(bankRoutes)
    BY <2>1 DEF RouteList, bankRoutes
  <2>8. RouteList(reportRoutes)
    BY <2>1 DEF RouteList, reportRoutes
  <2>9. RouteList(adminRoutes)
    BY <2>1 DEF RouteList, adminRoutes
  <2>10. RouteList(holidayRoutes)
    BY <2>1 DEF RouteList, holidayRoutes
  <2>11. RouteList(policyRoutes)
    BY <2>1 DEF RouteList, policyRoutes
  <2>12. RouteList(attendanceLockRoutes)
    BY <2>1 DEF RouteList, attendanceLockRoutes
  <2>13. RouteList(roleRoutes)
    BY <2>1 DEF RouteList, roleRoutes
  <2>14. RouteList(documentRoutes)
    BY <2>1 DEF RouteList, documentRoutes
  <2>15. RouteList(quotaRoutes)
    BY <2>1 DEF RouteList, quotaRoutes
  <2>16. RouteList(salaryAdminRoutes)
    BY <2>1 DEF RouteList, salaryAdminRoutes
  <2>17. QED BY <2>2, <2>3, <2>4, <2>5, <2>6, <2>7, <2>8, <2>9, <2>10, <2>11, <2>12, <2>13,
            <2>14, <2>15, <2>16 DEF Groups
<1>2. Serves(s1, g1)
  BY <1>1, ServesItself DEF Groups
<1> HIDE DEF s1, g1, s2, g2, s3, g3, s4, g4, s5, g5, s6, g6, s7, g7, s8, g8, s9, g9, s10, g10,
       s11, g11, s12, g12, s13, g13, s14, g14, s15, g15
<1>3. Serves(s2, g2)
  <2>1. RouteList(attendanceRoutes) /\ attendanceRoutes \notin g1
    BY <1>1, GroupsDiffer DEF Groups, g1
  <2>2. QED BY <1>2, <2>1, ServesMore DEF s2, g2
<1>4. Serves(s3, g3)
  <2>1. RouteList(leaveRoutes) /\ leaveRoutes \notin g2
    BY <1>1, GroupsDiffer DEF Groups, g1, g2
  <2>2. QED BY <1>3, <2>1, ServesMore DEF s3, g3
<1>5. Serves(s4, g4)
  <2>1. RouteList(payrollRoutes) /\ payrollRoutes \notin g3
    BY <1>1, GroupsDiffer DEF Groups, g1, g2, g3
  <2>2. QED BY <1>4, <2>1, ServesMore DEF s4, g4
<1>6. Serves(s5, g5)
  <2>1. RouteList(flagRoutes) /\ flagRoutes \notin g4
    BY <1>1, GroupsDiffer DEF Groups, g1, g2, g3, g4
  <2>2. QED BY <1>5, <2>1, ServesMore DEF s5, g5
<1>7. Serves(s6, g6)
  <2>1. RouteList(bankRoutes) /\ bankRoutes \notin g5
    BY <1>1, GroupsDiffer DEF Groups, g1, g2, g3, g4, g5
  <2>2. QED BY <1>6, <2>1, ServesMore DEF s6, g6
<1>8. Serves(s7, g7)
  <2>1. RouteList(reportRoutes) /\ reportRoutes \notin g6
    BY <1>1, GroupsDiffer DEF Groups, g1, g2, g3, g4, g5, g6
  <2>2. QED BY <1>7, <2>1, ServesMore DEF s7, g7
<1>9. Serves(s8, g8)
  <2>1. RouteList(adminRoutes) /\ adminRoutes \notin g7
    BY <1>1, GroupsDiffer DEF Groups, g1, g2, g3, g4, g5, g6, g7
  <2>2. QED BY <1>8, <2>1, ServesMore DEF s8, g8
<1>10. Serves(s9, g9)
  <2>1. RouteList(holidayRoutes) /\ holidayRoutes \notin g8
    BY <1>1, GroupsDiffer DEF Groups, g1, g2, g3, g4, g5, g6, g7, g8
  <2>2. QED BY <1>9, <2>1, ServesMore DEF s9, g9
<1>11. Serves(s10, g10)
  <2>1. RouteList(policyRoutes) /\ policyRoutes \notin g9
    BY <1>1, GroupsDiffer DEF Groups, g1, g2, g3, g4, g5, g6, g7, g8, g9
  <2>2. QED BY <1>10, <2>1, ServesMore DEF s10, g10
<1>12. Serves(s11, g11)
  <2>1. RouteList(attendanceLockRoutes) /\ attendanceLockRoutes \notin g10
    BY <1>1, GroupsDiffer DEF Groups, g1, g2, g3, g4, g5, g6, g7, g8, g9, g10
  <2>2. QED BY <1>11, <2>1, ServesMore DEF s11, g11
<1>13. Serves(s12, g12)
  <2>1. RouteList(roleRoutes) /\ roleRoutes \notin g11
    BY <1>1, GroupsDiffer DEF Groups, g1, g2, g3, g4, g5, g6, g7, g8, g9, g10, g11
  <2>2. QED BY <1>12, <2>1, ServesMore DEF s12, g12
<1>14. Serves(s13, g13)
  <2>1. RouteList(documentRoutes) /\ documentRoutes \notin g12
    BY <1>1, GroupsDiffer DEF Groups, g1, g2, g3, g4, g5, g6, g7, g8, g9, g10, g11, g12
  <2>2. QED BY <1>13, <2>1, ServesMore DEF s13, g13
<1>15. Serves(s14, g14)
  <2>1. RouteList(quotaRoutes) /\ quotaRoutes \notin g13
    BY <1>1, GroupsDiffer DEF Groups, g1, g2, g3, g4, g5, g6, g7, g8, g9, g10, g11, g12, g13
  <2>2. QED BY <1>14, <2>1, ServesMore DEF s14, g14
<1>16. Serves(s15, g15)
  <2>1. RouteList(salaryAdminRoutes) /\ salaryAdminRoutes \notin g14
    BY <1>1, GroupsDiffer
       DEF Groups, g1, g2, g3, g4, g5, g6, g7, g8, g9, g10, g11, g12, g13, g14
  <2>2. QED BY <1>15, <2>1, ServesMore DEF s15, g15
<1>17. g15 = Groups
  BY DEF g1, g2, g3, g4, g5, g6, g7, g8, g9, g10, g11, g12, g13, g14, g15, Groups
<1>18. QED BY <1>16, <1>17 DEF s1, s2, s3, s4, s5, s6, s7, s8, s9, s10, s11, s12, s13, s14,
          s15, buildRoutes

\* Where a request goes.
Goes(request, route) == Found(buildRoutes, request, route)
Alone(list, request) ==
    list \in Groups /\ \A other \in Groups : other = list \/ None(other, request)

\* A request that goes to a route is routed there, and fits none with fewer parameters.
LEMMA GoesTo ==
    ASSUME NEW request, NEW route, Goes(request, route), RouteList(buildRoutes)
    PROVE  /\ Fitting(request) # {} /\ Route(request) = route
           /\ \E i \in Fitting(request) :
                /\ Route(request) = buildRoutes[i]
                /\ \A j \in Fitting(request) : Parameters(i) <= Parameters(j)
<1>1. PICK i \in 1 .. Len(buildRoutes) :
        /\ buildRoutes[i] = route /\ Fits(route, request)
        /\ \A j \in 1 .. Len(buildRoutes) :
             Fits(buildRoutes[j], request) => i <= j /\ Fewest(route, buildRoutes[j])
  BY DEF Goes, Found, FoundAt
<1>2. DOMAIN buildRoutes = 1 .. Len(buildRoutes) /\ Len(buildRoutes) \in Nat
  BY DEF RouteList
<1>3. i \in Fitting(request) /\ \A j \in Fitting(request) : j \in Nat /\ i <= j
  BY <1>1, <1>2 DEF Fitting, Fits
<1>4. (CHOOSE k \in Fitting(request) : \A j \in Fitting(request) : k <= j) = i
  <2> DEFINE F == Fitting(request)
  <2> HIDE DEF F
  <2>1. i \in F /\ \A j \in F : j \in Nat /\ i <= j
    BY <1>3 DEF F
  <2>2. \A k \in F : (\A j \in F : k <= j) => k = i
    BY <2>1
  <2>3. (CHOOSE k \in F : \A j \in F : k <= j) = i
    BY <2>1, <2>2
  <2>4. QED BY <2>3 DEF F
<1>5. Route(request) = buildRoutes[i]
  BY <1>4 DEF Route
<1>6. ASSUME NEW j \in Fitting(request) PROVE Parameters(i) <= Parameters(j)
  <2>1. j \in 1 .. Len(buildRoutes) /\ Fewest(route, buildRoutes[j])
    BY <1>1, <1>2, <1>6 DEF Fitting, Fits
  <2>2. IsFiniteSet(1 .. 4)
    BY FS_Interval, 1 \in Int, 4 \in Int
  <2>3. IsFiniteSet(Blanks(buildRoutes[j]))
    BY <2>1, <2>2, FS_Subset DEF Fewest
  <2>4. Cardinality(Blanks(route)) <= Cardinality(Blanks(buildRoutes[j]))
    BY <2>1, <2>3, FS_Subset DEF Fewest
  <2>5. QED BY <1>1, <2>4 DEF Parameters, Blanks
<1>7. QED BY <1>1, <1>3, <1>5, <1>6

\* A request that concerns one list goes where that list sends it.
LEMMA Arrives ==
    ASSUME NEW list, NEW request, Alone(list, request)
    PROVE  /\ \A i : Only(list, request, i) => Goes(request, list[i])
           /\ \A i, j : Before(list, request, i, j) => Goes(request, list[i])
<1>1. Short(list)
  BY GroupsShort DEF Alone
<1>2. \A route : Found(list, request, route) => Goes(request, route)
  BY RouterServes DEF Serves, Alone, Goes
<1>3. QED BY <1>1, <1>2, FirstFits

\* The paths of each list.
LEMMA ListOfPath ==
    \A request :
      /\ request.path[1] = "employees" => Alone(employeeRoutes, request)
      /\ request.path[1] = "attendance" /\ request.path[2] # "lock" => Alone(attendanceRoutes,
           request)
      /\ request.path[1] \in {"leave", "leave-requests"} => Alone(leaveRoutes, request)
      /\ request.path[1] = "payroll" => Alone(payrollRoutes, request)
      /\ request.path[1] = "flags" => Alone(flagRoutes, request)
      /\ request.path[1] = "bank" => Alone(bankRoutes, request)
      /\ request.path[1] = "reports" => Alone(reportRoutes, request)
      /\ request.path[1] \in {"audit", "offboard", "onboard"} => Alone(adminRoutes, request)
      /\ request.path[1] = "holidays" => Alone(holidayRoutes, request)
      /\ request.path[1] = "policies" => Alone(policyRoutes, request)
      /\ request.path[1] = "attendance" /\ request.path[2] = "lock"
           => Alone(attendanceLockRoutes, request)
      /\ request.path[1] = "roles" => Alone(roleRoutes, request)
      /\ request.path[1] = "documents" => Alone(documentRoutes, request)
      /\ request.path[1] = "quotas" => Alone(quotaRoutes, request)
      /\ request.path[1] = "admin" => Alone(salaryAdminRoutes, request)
  BY PathsApart DEF Alone, Groups

\* What a request is.
LEMMA AskIs ==
    \A method, path, self :
      /\ Ask(method, path, self).method = method
      /\ Ask(method, path, self).path = path
      /\ Ask(method, path, self).self = self
  BY DEF Ask

\* Requests about employees, for any parameters.
LEMMA EmployeeRequests ==
    \A x, self :
      /\ Goes(Ask("GET", <<"employees", "me">>, self), employeeRoutes[1])
      /\ x # "me" => Goes(Ask("GET", <<"employees", x>>, self), employeeRoutes[2])
      /\ Goes(Ask("GET", <<"employees">>, self), employeeRoutes[3])
      /\ Goes(Ask("PATCH", <<"employees", x>>, self), employeeRoutes[4])
<1>1. \A self : Before(employeeRoutes, Ask("GET", <<"employees", "me">>, self), 1, 2)
  BY DEF Only, Before, Blanks, Fit, Fits, matchPath, Ask, Get, Change, Id, employeeRoutes
<1>2. \A x, self : x # "me" => Only(employeeRoutes, Ask("GET", <<"employees", x>>, self), 2)
  BY DEF Only, Fit, Fits, matchPath, Ask, Get, Change, Id, employeeRoutes
<1>3. \A self : Only(employeeRoutes, Ask("GET", <<"employees">>, self), 3)
  BY DEF Only, Fit, Fits, matchPath, Ask, Get, Change, Id, employeeRoutes
<1>4. \A x, self : Only(employeeRoutes, Ask("PATCH", <<"employees", x>>, self), 4)
  BY DEF Only, Fit, Fits, matchPath, Ask, Get, Change, Id, employeeRoutes
<1>5. \A method, x, self :
        /\ Alone(employeeRoutes, Ask(method, <<"employees", x>>, self))
        /\ Alone(employeeRoutes, Ask(method, <<"employees">>, self))
  BY AskIs, ListOfPath
<1>6. QED BY <1>1, <1>2, <1>3, <1>4, <1>5, Arrives

\* Requests about attendance, for any parameters.
LEMMA AttendanceRequests ==
    \A x, self :
      /\ Goes(Ask("GET", <<"attendance", "state">>, self), attendanceRoutes[1])
      /\ Goes(Ask("GET", <<"attendance", "events">>, self), attendanceRoutes[2])
      /\ Goes(Ask("POST", <<"attendance", "events">>, self), attendanceRoutes[3])
      /\ Goes(Ask("GET", <<"attendance", "summary">>, self), attendanceRoutes[4])
      /\ Goes(Ask("PATCH", <<"attendance", "events", x>>, self), attendanceRoutes[5])
      /\ Goes(Ask("GET", <<"attendance", "team-states">>, self), attendanceRoutes[6])
<1>1. \A self : Only(attendanceRoutes, Ask("GET", <<"attendance", "state">>, self), 1)
  BY DEF Only, Fit, Fits, matchPath, Ask, Get, Change, Id, attendanceRoutes
<1>2. \A self : Only(attendanceRoutes, Ask("GET", <<"attendance", "events">>, self), 2)
  BY DEF Only, Fit, Fits, matchPath, Ask, Get, Change, Id, attendanceRoutes
<1>3. \A self : Only(attendanceRoutes, Ask("POST", <<"attendance", "events">>, self), 3)
  BY DEF Only, Fit, Fits, matchPath, Ask, Get, Change, Id, attendanceRoutes
<1>4. \A self : Only(attendanceRoutes, Ask("GET", <<"attendance", "summary">>, self), 4)
  BY DEF Only, Fit, Fits, matchPath, Ask, Get, Change, Id, attendanceRoutes
<1>5. \A x, self : Only(attendanceRoutes, Ask("PATCH", <<"attendance", "events", x>>, self), 5)
  BY DEF Only, Fit, Fits, matchPath, Ask, Get, Change, Id, attendanceRoutes
<1>6. \A self : Only(attendanceRoutes, Ask("GET", <<"attendance", "team-states">>, self), 6)
  BY DEF Only, Fit, Fits, matchPath, Ask, Get, Change, Id, attendanceRoutes
<1>7. \A method, x, self :
        /\ Alone(attendanceRoutes, Ask(method, <<"attendance", "state">>, self))
        /\ Alone(attendanceRoutes, Ask(method, <<"attendance", "events">>, self))
        /\ Alone(attendanceRoutes, Ask(method, <<"attendance", "summary">>, self))
        /\ Alone(attendanceRoutes, Ask(method, <<"attendance", "events", x>>, self))
        /\ Alone(attendanceRoutes, Ask(method, <<"attendance", "team-states">>, self))
  BY AskIs, ListOfPath
<1>8. QED BY <1>1, <1>2, <1>3, <1>4, <1>5, <1>6, <1>7, Arrives

\* Requests about leave, for any parameters.
LEMMA LeaveRequests ==
    \A x, self :
      /\ Goes(Ask("POST", <<"leave-requests">>, self), leaveRoutes[1])
      /\ Goes(Ask("GET", <<"leave-requests">>, self), leaveRoutes[2])
      /\ Goes(Ask("PATCH", <<"leave-requests", x>>, self), leaveRoutes[3])
      /\ Goes(Ask("GET", <<"leave", "balance">>, self), leaveRoutes[4])
<1>1. \A self : Only(leaveRoutes, Ask("POST", <<"leave-requests">>, self), 1)
  BY DEF Only, Fit, Fits, matchPath, Ask, Get, Change, Id, leaveRoutes
<1>2. \A self : Only(leaveRoutes, Ask("GET", <<"leave-requests">>, self), 2)
  BY DEF Only, Fit, Fits, matchPath, Ask, Get, Change, Id, leaveRoutes
<1>3. \A x, self : Only(leaveRoutes, Ask("PATCH", <<"leave-requests", x>>, self), 3)
  BY DEF Only, Fit, Fits, matchPath, Ask, Get, Change, Id, leaveRoutes
<1>4. \A self : Only(leaveRoutes, Ask("GET", <<"leave", "balance">>, self), 4)
  BY DEF Only, Fit, Fits, matchPath, Ask, Get, Change, Id, leaveRoutes
<1>5. \A method, x, self :
        /\ Alone(leaveRoutes, Ask(method, <<"leave-requests">>, self))
        /\ Alone(leaveRoutes, Ask(method, <<"leave-requests", x>>, self))
        /\ Alone(leaveRoutes, Ask(method, <<"leave", "balance">>, self))
  BY AskIs, ListOfPath
<1>6. QED BY <1>1, <1>2, <1>3, <1>4, <1>5, Arrives

\* Requests about payroll, for any parameters.
LEMMA PayrollRequests ==
    \A x, self :
      /\ Goes(Ask("GET", <<"payroll", "report", x>>, self), payrollRoutes[1])
      /\ Goes(Ask("GET", <<"payroll", x>>, self), payrollRoutes[2])
<1>1. \A x, self :
        /\ Only(payrollRoutes, Ask("GET", <<"payroll", "report", x>>, self), 1)
        /\ Only(payrollRoutes, Ask("GET", <<"payroll", x>>, self), 2)
  BY DEF Only, Fit, Fits, matchPath, Ask, Get, Change, Id, payrollRoutes
<1>2. \A method, x, self :
        /\ Alone(payrollRoutes, Ask(method, <<"payroll", "report", x>>, self))
        /\ Alone(payrollRoutes, Ask(method, <<"payroll", x>>, self))
  BY AskIs, ListOfPath
<1>3. QED BY <1>1, <1>2, Arrives

\* Requests about flags, for any parameters.
LEMMA FlagRequests ==
    \A x, self :
      /\ Goes(Ask("GET", <<"flags">>, self), flagRoutes[1])
      /\ Goes(Ask("PATCH", <<"flags", x>>, self), flagRoutes[2])
<1>1. \A x, self :
        /\ Only(flagRoutes, Ask("GET", <<"flags">>, self), 1)
        /\ Only(flagRoutes, Ask("PATCH", <<"flags", x>>, self), 2)
  BY DEF Only, Fit, Fits, matchPath, Ask, Get, Change, Id, flagRoutes
<1>2. \A method, x, self :
        /\ Alone(flagRoutes, Ask(method, <<"flags">>, self))
        /\ Alone(flagRoutes, Ask(method, <<"flags", x>>, self))
  BY AskIs, ListOfPath
<1>3. QED BY <1>1, <1>2, Arrives

\* Requests about the hours bank, for any parameters.
LEMMA BankRequests ==
    \A self :
      /\ Goes(Ask("GET", <<"bank">>, self), bankRoutes[1])
      /\ Goes(Ask("POST", <<"bank", "approve">>, self), bankRoutes[2])
<1>1. \A self :
        /\ Only(bankRoutes, Ask("GET", <<"bank">>, self), 1)
        /\ Only(bankRoutes, Ask("POST", <<"bank", "approve">>, self), 2)
  BY DEF Only, Fit, Fits, matchPath, Ask, Get, Change, Throwing, Id, bankRoutes
<1>2. \A method, self :
        /\ Alone(bankRoutes, Ask(method, <<"bank">>, self))
        /\ Alone(bankRoutes, Ask(method, <<"bank", "approve">>, self))
  BY AskIs, ListOfPath
<1>3. QED BY <1>1, <1>2, Arrives

\* Requests about daily reports, for any parameters.
LEMMA ReportRequests ==
    \A self :
      /\ Goes(Ask("GET", <<"reports">>, self), reportRoutes[1])
      /\ Goes(Ask("POST", <<"reports">>, self), reportRoutes[2])
<1>1. \A self :
        /\ Only(reportRoutes, Ask("GET", <<"reports">>, self), 1)
        /\ Only(reportRoutes, Ask("POST", <<"reports">>, self), 2)
  BY DEF Only, Fit, Fits, matchPath, Ask, Get, Change, Id, reportRoutes
<1>2. \A method, self :
        /\ Alone(reportRoutes, Ask(method, <<"reports">>, self))
  BY AskIs, ListOfPath
<1>3. QED BY <1>1, <1>2, Arrives

\* Requests about onboarding, offboarding and the audit trail, for any parameters.
LEMMA AdminRequests ==
    \A x, self :
      /\ Goes(Ask("POST", <<"onboard">>, self), adminRoutes[1])
      /\ Goes(Ask("POST", <<"offboard", x>>, self), adminRoutes[2])
      /\ Goes(Ask("GET", <<"audit", x>>, self), adminRoutes[3])
<1>1. \A x, self :
        /\ Only(adminRoutes, Ask("POST", <<"onboard">>, self), 1)
        /\ Only(adminRoutes, Ask("POST", <<"offboard", x>>, self), 2)
        /\ Only(adminRoutes, Ask("GET", <<"audit", x>>, self), 3)
  BY DEF Only, Fit, Fits, matchPath, Ask, Get, Change, Id, adminRoutes
<1>2. \A method, x, self :
        /\ Alone(adminRoutes, Ask(method, <<"onboard">>, self))
        /\ Alone(adminRoutes, Ask(method, <<"offboard", x>>, self))
        /\ Alone(adminRoutes, Ask(method, <<"audit", x>>, self))
  BY AskIs, ListOfPath
<1>3. QED BY <1>1, <1>2, Arrives

\* Requests about holidays, for any parameters.
LEMMA HolidayRequests ==
    \A x, y, self :
      /\ Goes(Ask("GET", <<"holidays">>, self), holidayRoutes[1])
      /\ Goes(Ask("POST", <<"holidays">>, self), holidayRoutes[2])
      /\ Goes(Ask("DELETE", <<"holidays", x, y>>, self), holidayRoutes[3])
<1>1. \A x, y, self :
        /\ Only(holidayRoutes, Ask("GET", <<"holidays">>, self), 1)
        /\ Only(holidayRoutes, Ask("POST", <<"holidays">>, self), 2)
        /\ Only(holidayRoutes, Ask("DELETE", <<"holidays", x, y>>, self), 3)
  BY DEF Only, Fit, Fits, matchPath, Ask, Get, Change, Id, holidayRoutes
<1>2. \A method, x, y, self :
        /\ Alone(holidayRoutes, Ask(method, <<"holidays">>, self))
        /\ Alone(holidayRoutes, Ask(method, <<"holidays", x, y>>, self))
  BY AskIs, ListOfPath
<1>3. QED BY <1>1, <1>2, Arrives

\* Requests about policies, for any parameters.
LEMMA PolicyRequests ==
    \A x, self :
      /\ Goes(Ask("GET", <<"policies", "effective">>, self), policyRoutes[1])
      /\ Goes(Ask("GET", <<"policies", "company">>, self), policyRoutes[2])
      /\ Goes(Ask("PUT", <<"policies", "company">>, self), policyRoutes[3])
      /\ x \notin {"effective", "company"} => Goes(Ask("GET", <<"policies", x>>, self),
           policyRoutes[4])
      /\ x # "company" => Goes(Ask("PUT", <<"policies", x>>, self), policyRoutes[5])
      /\ Goes(Ask("GET", <<"policies", "user", x>>, self), policyRoutes[6])
      /\ Goes(Ask("PUT", <<"policies", "user", x>>, self), policyRoutes[7])
<1>1. \A x, self :
        /\ Before(policyRoutes, Ask("GET", <<"policies", "effective">>, self), 1, 4)
        /\ Before(policyRoutes, Ask("GET", <<"policies", "company">>, self), 2, 4)
        /\ Before(policyRoutes, Ask("PUT", <<"policies", "company">>, self), 3, 5)
        /\ x \notin {"effective", "company"} => Only(policyRoutes, Ask("GET", <<"policies",
             x>>, self), 4)
        /\ x # "company" => Only(policyRoutes, Ask("PUT", <<"policies", x>>, self), 5)
        /\ Only(policyRoutes, Ask("GET", <<"policies", "user", x>>, self), 6)
        /\ Only(policyRoutes, Ask("PUT", <<"policies", "user", x>>, self), 7)
  BY DEF Only, Before, Blanks, Fit, Fits, matchPath, Ask, Get, Change, Id, policyRoutes
<1>2. \A method, x, self :
        /\ Alone(policyRoutes, Ask(method, <<"policies", x>>, self))
        /\ Alone(policyRoutes, Ask(method, <<"policies", "user", x>>, self))
  BY AskIs, ListOfPath
<1>3. QED BY <1>1, <1>2, Arrives

\* Requests about attendance locks, for any parameters.
LEMMA LockRequests ==
    \A self :
      /\ Goes(Ask("GET", <<"attendance", "lock">>, self), attendanceLockRoutes[1])
      /\ Goes(Ask("POST", <<"attendance", "lock">>, self), attendanceLockRoutes[2])
      /\ Goes(Ask("DELETE", <<"attendance", "lock">>, self), attendanceLockRoutes[3])
<1>1. \A self :
        /\ Only(attendanceLockRoutes, Ask("GET", <<"attendance", "lock">>, self), 1)
        /\ Only(attendanceLockRoutes, Ask("POST", <<"attendance", "lock">>, self), 2)
        /\ Only(attendanceLockRoutes, Ask("DELETE", <<"attendance", "lock">>, self), 3)
  BY DEF Only, Fit, Fits, matchPath, Ask, Get, Change, Id, attendanceLockRoutes
<1>2. \A method, self :
        /\ Alone(attendanceLockRoutes, Ask(method, <<"attendance", "lock">>, self))
  BY AskIs, ListOfPath
<1>3. QED BY <1>1, <1>2, Arrives

\* Requests about roles, for any parameters.
LEMMA RoleRequests ==
    \A x, self :
      /\ Goes(Ask("GET", <<"roles">>, self), roleRoutes[1])
      /\ Goes(Ask("GET", <<"roles", x>>, self), roleRoutes[2])
      /\ Goes(Ask("PUT", <<"roles", x>>, self), roleRoutes[3])
<1>1. \A x, self :
        /\ Only(roleRoutes, Ask("GET", <<"roles">>, self), 1)
        /\ Only(roleRoutes, Ask("GET", <<"roles", x>>, self), 2)
        /\ Only(roleRoutes, Ask("PUT", <<"roles", x>>, self), 3)
  BY DEF Only, Fit, Fits, matchPath, Ask, Get, Change, Id, roleRoutes
<1>2. \A method, x, self :
        /\ Alone(roleRoutes, Ask(method, <<"roles">>, self))
        /\ Alone(roleRoutes, Ask(method, <<"roles", x>>, self))
  BY AskIs, ListOfPath
<1>3. QED BY <1>1, <1>2, Arrives

\* Requests about documents, for any parameters.
LEMMA DocumentRequests ==
    \A x, self :
      /\ Goes(Ask("GET", <<"documents">>, self), documentRoutes[1])
      /\ Goes(Ask("POST", <<"documents", "upload-url">>, self), documentRoutes[2])
      /\ Goes(Ask("PATCH", <<"documents", x>>, self), documentRoutes[3])
<1>1. \A x, self :
        /\ Only(documentRoutes, Ask("GET", <<"documents">>, self), 1)
        /\ Only(documentRoutes, Ask("POST", <<"documents", "upload-url">>, self), 2)
        /\ Only(documentRoutes, Ask("PATCH", <<"documents", x>>, self), 3)
  BY DEF Only, Fit, Fits, matchPath, Ask, Get, Change, Id, documentRoutes
<1>2. \A method, x, self :
        /\ Alone(documentRoutes, Ask(method, <<"documents">>, self))
        /\ Alone(documentRoutes, Ask(method, <<"documents", x>>, self))
  BY AskIs, ListOfPath
<1>3. QED BY <1>1, <1>2, Arrives

\* Requests about quotas, for any parameters.
LEMMA QuotaRequests ==
    \A x, self :
      /\ Goes(Ask("GET", <<"quotas", x>>, self), quotaRoutes[1])
<1>1. \A x, self :
        /\ Only(quotaRoutes, Ask("GET", <<"quotas", x>>, self), 1)
  BY DEF Only, Fit, Fits, matchPath, Ask, Get, Change, Id, quotaRoutes
<1>2. \A method, x, self :
        /\ Alone(quotaRoutes, Ask(method, <<"quotas", x>>, self))
  BY AskIs, ListOfPath
<1>3. QED BY <1>1, <1>2, Arrives

\* Requests about salaries, for any parameters.
LEMMA SalaryRequests ==
    \A x, y, self :
      /\ Goes(Ask("GET", <<"admin", "salary", x>>, self), salaryAdminRoutes[1])
      /\ Goes(Ask("POST", <<"admin", "salary", x>>, self), salaryAdminRoutes[2])
      /\ Goes(Ask("GET", <<"admin", "salary", x, y>>, self), salaryAdminRoutes[3])
<1>1. \A x, y, self :
        /\ Only(salaryAdminRoutes, Ask("GET", <<"admin", "salary", x>>, self), 1)
        /\ Only(salaryAdminRoutes, Ask("POST", <<"admin", "salary", x>>, self), 2)
        /\ Only(salaryAdminRoutes, Ask("GET", <<"admin", "salary", x, y>>, self), 3)
  BY DEF Only, Fit, Fits, matchPath, Ask, Get, Change, Id, salaryAdminRoutes
<1>2. \A method, x, y, self :
        /\ Alone(salaryAdminRoutes, Ask(method, <<"admin", "salary", x>>, self))
        /\ Alone(salaryAdminRoutes, Ask(method, <<"admin", "salary", x, y>>, self))
  BY AskIs, ListOfPath
<1>3. QED BY <1>1, <1>2, Arrives

\* A list whose routes are reached by their own paths.
Own(list) ==
    \A i \in 1 .. Len(list) : Goes(Ask(list[i].method, list[i].path, TRUE), list[i])

\* Every route of every list is reached by its own path.
LEMMA OwnRequests == \A list \in Groups : Own(list)
<1> USE DEF Own
<1>1. /\ Id \notin {"me", "effective", "company"}
      /\ \A i \in 1 .. 1 : i = 1
      /\ \A i \in 1 .. 2 : i \in {1, 2}
      /\ \A i \in 1 .. 3 : i \in {1, 2, 3}
      /\ \A i \in 1 .. 4 : i \in {1, 2, 3, 4}
      /\ \A i \in 1 .. 6 : i \in {1, 2, 3, 4, 5, 6}
      /\ \A i \in 1 .. 7 : i \in {1, 2, 3, 4, 5, 6, 7}
  BY DEF Id
<1>2. Own(employeeRoutes)
  <2>1. /\ Len(employeeRoutes) = 4
        /\ employeeRoutes[1].method = "GET" /\ employeeRoutes[1].path = <<"employees", "me">>
        /\ employeeRoutes[2].method = "GET" /\ employeeRoutes[2].path = <<"employees", Id>>
        /\ employeeRoutes[3].method = "GET" /\ employeeRoutes[3].path = <<"employees">>
        /\ employeeRoutes[4].method = "PATCH" /\ employeeRoutes[4].path = <<"employees", Id>>
    BY DEF Get, Change, Throwing, employeeRoutes
  <2>2. ASSUME NEW i \in {1, 2, 3, 4} PROVE Goes(Ask(employeeRoutes[i].method,
           employeeRoutes[i].path, TRUE), employeeRoutes[i])
    BY <1>1, <2>1, <2>2, EmployeeRequests
  <2>3. QED BY <1>1, <2>1, <2>2
<1>3. Own(attendanceRoutes)
  <2>1. /\ Len(attendanceRoutes) = 6
        /\ attendanceRoutes[1].method = "GET" /\ attendanceRoutes[1].path = <<"attendance",
             "state">>
        /\ attendanceRoutes[2].method = "GET" /\ attendanceRoutes[2].path = <<"attendance",
             "events">>
        /\ attendanceRoutes[3].method = "POST" /\ attendanceRoutes[3].path = <<"attendance",
             "events">>
        /\ attendanceRoutes[4].method = "GET" /\ attendanceRoutes[4].path = <<"attendance",
             "summary">>
        /\ attendanceRoutes[5].method = "PATCH" /\ attendanceRoutes[5].path = <<"attendance",
             "events", Id>>
        /\ attendanceRoutes[6].method = "GET" /\ attendanceRoutes[6].path = <<"attendance",
             "team-states">>
    BY DEF Get, Change, Throwing, attendanceRoutes
  <2>2. ASSUME NEW i \in {1, 2, 3, 4, 5, 6} PROVE Goes(Ask(attendanceRoutes[i].method,
           attendanceRoutes[i].path, TRUE), attendanceRoutes[i])
    BY <1>1, <2>1, <2>2, AttendanceRequests
  <2>3. QED BY <1>1, <2>1, <2>2
<1>4. Own(leaveRoutes)
  <2>1. /\ Len(leaveRoutes) = 4
        /\ leaveRoutes[1].method = "POST" /\ leaveRoutes[1].path = <<"leave-requests">>
        /\ leaveRoutes[2].method = "GET" /\ leaveRoutes[2].path = <<"leave-requests">>
        /\ leaveRoutes[3].method = "PATCH" /\ leaveRoutes[3].path = <<"leave-requests", Id>>
        /\ leaveRoutes[4].method = "GET" /\ leaveRoutes[4].path = <<"leave", "balance">>
    BY DEF Get, Change, Throwing, leaveRoutes
  <2>2. ASSUME NEW i \in {1, 2, 3, 4} PROVE Goes(Ask(leaveRoutes[i].method,
           leaveRoutes[i].path, TRUE), leaveRoutes[i])
    BY <1>1, <2>1, <2>2, LeaveRequests
  <2>3. QED BY <1>1, <2>1, <2>2
<1>5. Own(payrollRoutes)
  <2>1. /\ Len(payrollRoutes) = 2
        /\ payrollRoutes[1].method = "GET" /\ payrollRoutes[1].path = <<"payroll", "report",
             Id>>
        /\ payrollRoutes[2].method = "GET" /\ payrollRoutes[2].path = <<"payroll", Id>>
    BY DEF Get, Change, Throwing, payrollRoutes
  <2>2. ASSUME NEW i \in {1, 2} PROVE Goes(Ask(payrollRoutes[i].method, payrollRoutes[i].path,
           TRUE), payrollRoutes[i])
    BY <1>1, <2>1, <2>2, PayrollRequests
  <2>3. QED BY <1>1, <2>1, <2>2
<1>6. Own(flagRoutes)
  <2>1. /\ Len(flagRoutes) = 2
        /\ flagRoutes[1].method = "GET" /\ flagRoutes[1].path = <<"flags">>
        /\ flagRoutes[2].method = "PATCH" /\ flagRoutes[2].path = <<"flags", Id>>
    BY DEF Get, Change, Throwing, flagRoutes
  <2>2. ASSUME NEW i \in {1, 2} PROVE Goes(Ask(flagRoutes[i].method, flagRoutes[i].path, TRUE),
           flagRoutes[i])
    BY <1>1, <2>1, <2>2, FlagRequests
  <2>3. QED BY <1>1, <2>1, <2>2
<1>7. Own(bankRoutes)
  <2>1. /\ Len(bankRoutes) = 2
        /\ bankRoutes[1].method = "GET" /\ bankRoutes[1].path = <<"bank">>
        /\ bankRoutes[2].method = "POST" /\ bankRoutes[2].path = <<"bank", "approve">>
    BY DEF Get, Change, Throwing, bankRoutes
  <2>2. ASSUME NEW i \in {1, 2} PROVE Goes(Ask(bankRoutes[i].method, bankRoutes[i].path, TRUE),
           bankRoutes[i])
    BY <1>1, <2>1, <2>2, BankRequests
  <2>3. QED BY <1>1, <2>1, <2>2
<1>8. Own(reportRoutes)
  <2>1. /\ Len(reportRoutes) = 2
        /\ reportRoutes[1].method = "GET" /\ reportRoutes[1].path = <<"reports">>
        /\ reportRoutes[2].method = "POST" /\ reportRoutes[2].path = <<"reports">>
    BY DEF Get, Change, Throwing, reportRoutes
  <2>2. ASSUME NEW i \in {1, 2} PROVE Goes(Ask(reportRoutes[i].method, reportRoutes[i].path,
           TRUE), reportRoutes[i])
    BY <1>1, <2>1, <2>2, ReportRequests
  <2>3. QED BY <1>1, <2>1, <2>2
<1>9. Own(adminRoutes)
  <2>1. /\ Len(adminRoutes) = 3
        /\ adminRoutes[1].method = "POST" /\ adminRoutes[1].path = <<"onboard">>
        /\ adminRoutes[2].method = "POST" /\ adminRoutes[2].path = <<"offboard", Id>>
        /\ adminRoutes[3].method = "GET" /\ adminRoutes[3].path = <<"audit", Id>>
    BY DEF Get, Change, Throwing, adminRoutes
  <2>2. ASSUME NEW i \in {1, 2, 3} PROVE Goes(Ask(adminRoutes[i].method, adminRoutes[i].path,
           TRUE), adminRoutes[i])
    BY <1>1, <2>1, <2>2, AdminRequests
  <2>3. QED BY <1>1, <2>1, <2>2
<1>10. Own(holidayRoutes)
  <2>1. /\ Len(holidayRoutes) = 3
        /\ holidayRoutes[1].method = "GET" /\ holidayRoutes[1].path = <<"holidays">>
        /\ holidayRoutes[2].method = "POST" /\ holidayRoutes[2].path = <<"holidays">>
        /\ holidayRoutes[3].method = "DELETE" /\ holidayRoutes[3].path = <<"holidays", Id, Id>>
    BY DEF Get, Change, Throwing, holidayRoutes
  <2>2. Goes(Ask("DELETE", <<"holidays", Id, Id>>, TRUE), holidayRoutes[3])
    BY HolidayRequests
  <2>3. ASSUME NEW i \in {1, 2, 3} PROVE Goes(Ask(holidayRoutes[i].method,
           holidayRoutes[i].path, TRUE), holidayRoutes[i])
    BY <1>1, <2>1, <2>3, HolidayRequests, <2>2
  <2>4. QED BY <1>1, <2>1, <2>3
<1>11. Own(policyRoutes)
  <2>1. /\ Len(policyRoutes) = 7
        /\ policyRoutes[1].method = "GET" /\ policyRoutes[1].path = <<"policies", "effective">>
        /\ policyRoutes[2].method = "GET" /\ policyRoutes[2].path = <<"policies", "company">>
        /\ policyRoutes[3].method = "PUT" /\ policyRoutes[3].path = <<"policies", "company">>
        /\ policyRoutes[4].method = "GET" /\ policyRoutes[4].path = <<"policies", Id>>
        /\ policyRoutes[5].method = "PUT" /\ policyRoutes[5].path = <<"policies", Id>>
        /\ policyRoutes[6].method = "GET" /\ policyRoutes[6].path = <<"policies", "user", Id>>
        /\ policyRoutes[7].method = "PUT" /\ policyRoutes[7].path = <<"policies", "user", Id>>
    BY DEF Get, Change, Throwing, policyRoutes
  <2>2. Id \notin {"effective", "company"}
    BY <1>1
  <2>3. /\ Goes(Ask("GET", <<"policies", "effective">>, TRUE), policyRoutes[1])
        /\ Goes(Ask("GET", <<"policies", "company">>, TRUE), policyRoutes[2])
        /\ Goes(Ask("PUT", <<"policies", "company">>, TRUE), policyRoutes[3])
        /\ Goes(Ask("GET", <<"policies", Id>>, TRUE), policyRoutes[4])
        /\ Goes(Ask("PUT", <<"policies", Id>>, TRUE), policyRoutes[5])
        /\ Goes(Ask("GET", <<"policies", "user", Id>>, TRUE), policyRoutes[6])
        /\ Goes(Ask("PUT", <<"policies", "user", Id>>, TRUE), policyRoutes[7])
    BY <2>2, PolicyRequests
  <2>4. ASSUME NEW i \in {1, 2, 3, 4, 5, 6, 7} PROVE Goes(Ask(policyRoutes[i].method,
           policyRoutes[i].path, TRUE), policyRoutes[i])
    BY <2>1, <2>3, <2>4
  <2>5. QED BY <1>1, <2>1, <2>4
<1>12. Own(attendanceLockRoutes)
  <2>1. /\ Len(attendanceLockRoutes) = 3
        /\ attendanceLockRoutes[1].method = "GET"
        /\ attendanceLockRoutes[1].path = <<"attendance", "lock">>
        /\ attendanceLockRoutes[2].method = "POST"
        /\ attendanceLockRoutes[2].path = <<"attendance", "lock">>
        /\ attendanceLockRoutes[3].method = "DELETE"
        /\ attendanceLockRoutes[3].path = <<"attendance", "lock">>
    BY DEF Get, Change, Throwing, attendanceLockRoutes
  <2>2. ASSUME NEW i \in {1, 2, 3} PROVE Goes(Ask(attendanceLockRoutes[i].method,
           attendanceLockRoutes[i].path, TRUE), attendanceLockRoutes[i])
    BY <1>1, <2>1, <2>2, LockRequests
  <2>3. QED BY <1>1, <2>1, <2>2
<1>13. Own(roleRoutes)
  <2>1. /\ Len(roleRoutes) = 3
        /\ roleRoutes[1].method = "GET" /\ roleRoutes[1].path = <<"roles">>
        /\ roleRoutes[2].method = "GET" /\ roleRoutes[2].path = <<"roles", Id>>
        /\ roleRoutes[3].method = "PUT" /\ roleRoutes[3].path = <<"roles", Id>>
    BY DEF Get, Change, Throwing, roleRoutes
  <2>2. ASSUME NEW i \in {1, 2, 3} PROVE Goes(Ask(roleRoutes[i].method, roleRoutes[i].path,
           TRUE), roleRoutes[i])
    BY <1>1, <2>1, <2>2, RoleRequests
  <2>3. QED BY <1>1, <2>1, <2>2
<1>14. Own(documentRoutes)
  <2>1. /\ Len(documentRoutes) = 3
        /\ documentRoutes[1].method = "GET" /\ documentRoutes[1].path = <<"documents">>
        /\ documentRoutes[2].method = "POST" /\ documentRoutes[2].path = <<"documents",
             "upload-url">>
        /\ documentRoutes[3].method = "PATCH" /\ documentRoutes[3].path = <<"documents", Id>>
    BY DEF Get, Change, Throwing, documentRoutes
  <2>2. ASSUME NEW i \in {1, 2, 3} PROVE Goes(Ask(documentRoutes[i].method,
           documentRoutes[i].path, TRUE), documentRoutes[i])
    BY <1>1, <2>1, <2>2, DocumentRequests
  <2>3. QED BY <1>1, <2>1, <2>2
<1>15. Own(quotaRoutes)
  <2>1. /\ Len(quotaRoutes) = 1
        /\ quotaRoutes[1].method = "GET" /\ quotaRoutes[1].path = <<"quotas", Id>>
    BY DEF Get, Change, Throwing, quotaRoutes
  <2>2. ASSUME NEW i \in {1} PROVE Goes(Ask(quotaRoutes[i].method, quotaRoutes[i].path, TRUE),
           quotaRoutes[i])
    BY <1>1, <2>1, <2>2, QuotaRequests
  <2>3. QED BY <1>1, <2>1, <2>2
<1>16. Own(salaryAdminRoutes)
  <2>1. /\ Len(salaryAdminRoutes) = 3
        /\ salaryAdminRoutes[1].method = "GET" /\ salaryAdminRoutes[1].path = <<"admin",
             "salary", Id>>
        /\ salaryAdminRoutes[2].method = "POST" /\ salaryAdminRoutes[2].path = <<"admin",
             "salary", Id>>
        /\ salaryAdminRoutes[3].method = "GET" /\ salaryAdminRoutes[3].path = <<"admin",
             "salary", Id, Id>>
    BY DEF Get, Change, Throwing, salaryAdminRoutes
  <2>2. Goes(Ask("GET", <<"admin", "salary", Id, Id>>, TRUE), salaryAdminRoutes[3])
    BY SalaryRequests
  <2>3. ASSUME NEW i \in {1, 2, 3} PROVE Goes(Ask(salaryAdminRoutes[i].method,
           salaryAdminRoutes[i].path, TRUE), salaryAdminRoutes[i])
    BY <1>1, <2>1, <2>3, SalaryRequests, <2>2
  <2>4. QED BY <1>1, <2>1, <2>3
<1>17. QED BY <1>2, <1>3, <1>4, <1>5, <1>6, <1>7, <1>8, <1>9, <1>10, <1>11, <1>12, <1>13, <1>14,
          <1>15, <1>16 DEF Groups

-----------------------------------------------------------------------------
(* The queries and the saves of the hooks, and the routes they find.       *)

\* No name is in two tables.
Apart(tables) == \A t, u \in tables : t = u \/ DOMAIN t \cap DOMAIN u = {}

\* Each name has in the common table what it has in its own.
LEMMA TogetherIs ==
    ASSUME NEW tables, Apart(tables)
    PROVE  /\ DOMAIN Together(tables) = UNION {DOMAIN t : t \in tables}
           /\ \A t \in tables : \A name \in DOMAIN t : Together(tables)[name] = t[name]
<1>1. ASSUME NEW t \in tables, NEW name \in DOMAIN t PROVE Together(tables)[name] = t[name]
  <2>1. (CHOOSE u \in tables : name \in DOMAIN u) = t
    BY DEF Apart
  <2>2. QED BY <2>1 DEF Together
<1>2. DOMAIN Together(tables) = UNION {DOMAIN t : t \in tables}
  BY DEF Together
<1>3. QED BY <1>1, <1>2

\* The tables of queries.
Fetches == {employeeHooks, teamHooks, attendanceHooks, lockHooks, leaveHooks, payrollHooks,
    flagHooks, bankHooks, reportHooks, holidayHooks, auditHooks, policyHooks, roleHooks,
        documentHooks}

\* The common table of queries is made of these.
LEMMA HooksAre ==
    /\ DOMAIN Hooks = {"me", "employees", "members", "state", "todayEvents", "dayEvents",
         "memberEvents", "summary", "teamStates", "locks", "requests", "pending", "balance",
             "breakdown", "payrollReport", "salary", "flags", "bank", "reports", "teamReports",
                 "holidays", "audit", "groupPolicy", "companyPolicy", "userPolicy",
                     "effectivePolicy", "roles", "documents"}
    /\ \A name \in {"me", "employees"} : Hooks[name] = employeeHooks[name]
    /\ \A name \in {"members"} : Hooks[name] = teamHooks[name]
    /\ \A name \in {"state", "todayEvents", "dayEvents", "memberEvents", "summary",
         "teamStates"} : Hooks[name] = attendanceHooks[name]
    /\ \A name \in {"locks"} : Hooks[name] = lockHooks[name]
    /\ \A name \in {"requests", "pending", "balance"} : Hooks[name] = leaveHooks[name]
    /\ \A name \in {"breakdown", "payrollReport", "salary"} : Hooks[name] = payrollHooks[name]
    /\ \A name \in {"flags"} : Hooks[name] = flagHooks[name]
    /\ \A name \in {"bank"} : Hooks[name] = bankHooks[name]
    /\ \A name \in {"reports", "teamReports"} : Hooks[name] = reportHooks[name]
    /\ \A name \in {"holidays"} : Hooks[name] = holidayHooks[name]
    /\ \A name \in {"audit"} : Hooks[name] = auditHooks[name]
    /\ \A name \in {"groupPolicy", "companyPolicy", "userPolicy",
         "effectivePolicy"} : Hooks[name] = policyHooks[name]
    /\ \A name \in {"roles"} : Hooks[name] = roleHooks[name]
    /\ \A name \in {"documents"} : Hooks[name] = documentHooks[name]
<1>1. /\ DOMAIN employeeHooks = {"me", "employees"}
      /\ DOMAIN teamHooks = {"members"}
      /\ DOMAIN attendanceHooks = {"state", "todayEvents", "dayEvents", "memberEvents",
           "summary", "teamStates"}
      /\ DOMAIN lockHooks = {"locks"}
      /\ DOMAIN leaveHooks = {"requests", "pending", "balance"}
      /\ DOMAIN payrollHooks = {"breakdown", "payrollReport", "salary"}
      /\ DOMAIN flagHooks = {"flags"}
      /\ DOMAIN bankHooks = {"bank"}
      /\ DOMAIN reportHooks = {"reports", "teamReports"}
      /\ DOMAIN holidayHooks = {"holidays"}
      /\ DOMAIN auditHooks = {"audit"}
      /\ DOMAIN policyHooks = {"groupPolicy", "companyPolicy", "userPolicy", "effectivePolicy"}
      /\ DOMAIN roleHooks = {"roles"}
      /\ DOMAIN documentHooks = {"documents"}
  BY DEF employeeHooks, teamHooks, attendanceHooks, lockHooks, leaveHooks, payrollHooks,
     flagHooks, bankHooks, reportHooks, holidayHooks, auditHooks, policyHooks, roleHooks,
         documentHooks
<1>2. Apart(Fetches)
  BY <1>1 DEF Apart, Fetches
<1>3. /\ DOMAIN Hooks = UNION {DOMAIN t : t \in Fetches}
      /\ \A t \in Fetches : \A name \in DOMAIN t : Hooks[name] = t[name]
  BY <1>2, TogetherIs DEF Hooks, Fetches
<1>4. DOMAIN Hooks = {"me", "employees", "members", "state", "todayEvents", "dayEvents",
         "memberEvents", "summary", "teamStates", "locks", "requests", "pending", "balance",
             "breakdown", "payrollReport", "salary", "flags", "bank", "reports", "teamReports",
                 "holidays", "audit", "groupPolicy", "companyPolicy", "userPolicy",
                     "effectivePolicy", "roles", "documents"}
  BY <1>1, <1>3 DEF Fetches
<1>5. QED BY <1>1, <1>3, <1>4 DEF Fetches

\* The tables of saves.
Saves == {employeeSaves, attendanceSaves, lockSaves, leaveSaves, salarySaves, flagSaves,
    bankSaves, reportSaves, holidaySaves, policySaves, roleSaves, documentSaves, adminSaves}

\* The common table of saves is made of these.
LEMMA MutationsAre ==
    /\ DOMAIN Mutations = {"updateEmployee", "clock", "editEvent", "createLock", "deleteLock",
         "createLeave", "approveLeave", "rejectLeave", "addSalary", "resolveFlag",
             "bankApprove", "submitReport", "createHoliday", "deleteHoliday",
                 "groupPolicySave", "companyPolicySave", "userPolicySave", "updateRole",
                     "uploadDocument", "verifyDocument", "onboard", "offboard"}
    /\ \A name \in {"updateEmployee"} : Mutations[name] = employeeSaves[name]
    /\ \A name \in {"clock", "editEvent"} : Mutations[name] = attendanceSaves[name]
    /\ \A name \in {"createLock", "deleteLock"} : Mutations[name] = lockSaves[name]
    /\ \A name \in {"createLeave", "approveLeave",
         "rejectLeave"} : Mutations[name] = leaveSaves[name]
    /\ \A name \in {"addSalary"} : Mutations[name] = salarySaves[name]
    /\ \A name \in {"resolveFlag"} : Mutations[name] = flagSaves[name]
    /\ \A name \in {"bankApprove"} : Mutations[name] = bankSaves[name]
    /\ \A name \in {"submitReport"} : Mutations[name] = reportSaves[name]
    /\ \A name \in {"createHoliday", "deleteHoliday"} : Mutations[name] = holidaySaves[name]
    /\ \A name \in {"groupPolicySave", "companyPolicySave",
         "userPolicySave"} : Mutations[name] = policySaves[name]
    /\ \A name \in {"updateRole"} : Mutations[name] = roleSaves[name]
    /\ \A name \in {"uploadDocument", "verifyDocument"} : Mutations[name] = documentSaves[name]
    /\ \A name \in {"onboard", "offboard"} : Mutations[name] = adminSaves[name]
<1>1. /\ DOMAIN employeeSaves = {"updateEmployee"}
      /\ DOMAIN attendanceSaves = {"clock", "editEvent"}
      /\ DOMAIN lockSaves = {"createLock", "deleteLock"}
      /\ DOMAIN leaveSaves = {"createLeave", "approveLeave", "rejectLeave"}
      /\ DOMAIN salarySaves = {"addSalary"}
      /\ DOMAIN flagSaves = {"resolveFlag"}
      /\ DOMAIN bankSaves = {"bankApprove"}
      /\ DOMAIN reportSaves = {"submitReport"}
      /\ DOMAIN holidaySaves = {"createHoliday", "deleteHoliday"}
      /\ DOMAIN policySaves = {"groupPolicySave", "companyPolicySave", "userPolicySave"}
      /\ DOMAIN roleSaves = {"updateRole"}
      /\ DOMAIN documentSaves = {"uploadDocument", "verifyDocument"}
      /\ DOMAIN adminSaves = {"onboard", "offboard"}
  BY DEF employeeSaves, attendanceSaves, lockSaves, leaveSaves, salarySaves, flagSaves,
     bankSaves, reportSaves, holidaySaves, policySaves, roleSaves, documentSaves, adminSaves
<1>2. Apart(Saves)
  BY <1>1 DEF Apart, Saves
<1>3. /\ DOMAIN Mutations = UNION {DOMAIN t : t \in Saves}
      /\ \A t \in Saves : \A name \in DOMAIN t : Mutations[name] = t[name]
  BY <1>2, TogetherIs DEF Mutations, Saves
<1>4. DOMAIN Mutations = {"updateEmployee", "clock", "editEvent", "createLock", "deleteLock",
         "createLeave", "approveLeave", "rejectLeave", "addSalary", "resolveFlag",
             "bankApprove", "submitReport", "createHoliday", "deleteHoliday",
                 "groupPolicySave", "companyPolicySave", "userPolicySave", "updateRole",
                     "uploadDocument", "verifyDocument", "onboard", "offboard"}
  BY <1>1, <1>3 DEF Saves
<1>5. QED BY <1>1, <1>3, <1>4 DEF Saves

\* What each query asks.
LEMMA QueryRequests ==
    /\ Hooks["me"].request = Ask("GET", <<"employees", "me">>, TRUE)
    /\ Hooks["employees"].request = Ask("GET", <<"employees">>, FALSE)
    /\ Hooks["members"].request = Ask("GET", <<"employees">>, FALSE)
    /\ Hooks["state"].request = Ask("GET", <<"attendance", "state">>, TRUE)
    /\ Hooks["todayEvents"].request = Ask("GET", <<"attendance", "events">>, TRUE)
    /\ Hooks["dayEvents"].request = Ask("GET", <<"attendance", "events">>, TRUE)
    /\ Hooks["memberEvents"].request = Ask("GET", <<"attendance", "events">>, FALSE)
    /\ Hooks["summary"].request = Ask("GET", <<"attendance", "summary">>, TRUE)
    /\ Hooks["teamStates"].request = Ask("GET", <<"attendance", "team-states">>, FALSE)
    /\ Hooks["locks"].request = Ask("GET", <<"attendance", "lock">>, FALSE)
    /\ Hooks["requests"].request = Ask("GET", <<"leave-requests">>, TRUE)
    /\ Hooks["pending"].request = Ask("GET", <<"leave-requests">>, TRUE)
    /\ Hooks["balance"].request = Ask("GET", <<"leave", "balance">>, TRUE)
    /\ Hooks["breakdown"].request = Ask("GET", <<"payroll", "month">>, TRUE)
    /\ Hooks["payrollReport"].request = Ask("GET", <<"payroll", "report", "month">>, FALSE)
    /\ Hooks["salary"].request = Ask("GET", <<"admin", "salary", "id">>, FALSE)
    /\ Hooks["flags"].request = Ask("GET", <<"flags">>, TRUE)
    /\ Hooks["bank"].request = Ask("GET", <<"bank">>, TRUE)
    /\ Hooks["reports"].request = Ask("GET", <<"reports">>, TRUE)
    /\ Hooks["teamReports"].request = Ask("GET", <<"reports">>, FALSE)
    /\ Hooks["holidays"].request = Ask("GET", <<"holidays">>, FALSE)
    /\ Hooks["audit"].request = Ask("GET", <<"audit", "id">>, FALSE)
    /\ Hooks["groupPolicy"].request = Ask("GET", <<"policies", "group">>, FALSE)
    /\ Hooks["companyPolicy"].request = Ask("GET", <<"policies", "company">>, FALSE)
    /\ Hooks["userPolicy"].request = Ask("GET", <<"policies", "user", "id">>, FALSE)
    /\ Hooks["effectivePolicy"].request = Ask("GET", <<"policies", "effective">>, TRUE)
    /\ Hooks["roles"].request = Ask("GET", <<"roles">>, FALSE)
    /\ Hooks["documents"].request = Ask("GET", <<"documents">>, FALSE)
<1>1. /\ Hooks["me"].request = Ask("GET", <<"employees", "me">>, TRUE)
      /\ Hooks["employees"].request = Ask("GET", <<"employees">>, FALSE)
  <2>1. Hooks["me"] = employeeHooks["me"] /\ Hooks["employees"] = employeeHooks["employees"]
    BY HooksAre
  <2>2. /\ employeeHooks["me"].request = Ask("GET", <<"employees", "me">>, TRUE)
        /\ employeeHooks["employees"].request = Ask("GET", <<"employees">>, FALSE)
    BY DEF employeeHooks, Fetch, Polled
  <2>3. QED BY <2>1, <2>2
<1>2. /\ Hooks["members"].request = Ask("GET", <<"employees">>, FALSE)
  <2>1. Hooks["members"] = teamHooks["members"]
    BY HooksAre
  <2>2. /\ teamHooks["members"].request = Ask("GET", <<"employees">>, FALSE)
    BY DEF teamHooks, Fetch, Polled
  <2>3. QED BY <2>1, <2>2
<1>3. /\ Hooks["state"].request = Ask("GET", <<"attendance", "state">>, TRUE)
      /\ Hooks["todayEvents"].request = Ask("GET", <<"attendance", "events">>, TRUE)
      /\ Hooks["dayEvents"].request = Ask("GET", <<"attendance", "events">>, TRUE)
      /\ Hooks["memberEvents"].request = Ask("GET", <<"attendance", "events">>, FALSE)
      /\ Hooks["summary"].request = Ask("GET", <<"attendance", "summary">>, TRUE)
      /\ Hooks["teamStates"].request = Ask("GET", <<"attendance", "team-states">>, FALSE)
  <2>1. /\ Hooks["state"] = attendanceHooks["state"]
        /\ Hooks["todayEvents"] = attendanceHooks["todayEvents"]
        /\ Hooks["dayEvents"] = attendanceHooks["dayEvents"]
        /\ Hooks["memberEvents"] = attendanceHooks["memberEvents"]
        /\ Hooks["summary"] = attendanceHooks["summary"]
        /\ Hooks["teamStates"] = attendanceHooks["teamStates"]
    BY HooksAre
  <2>2. /\ attendanceHooks["state"].request = Ask("GET", <<"attendance", "state">>, TRUE)
        /\ attendanceHooks["todayEvents"].request = Ask("GET", <<"attendance", "events">>, TRUE)
        /\ attendanceHooks["dayEvents"].request = Ask("GET", <<"attendance", "events">>, TRUE)
        /\ attendanceHooks["memberEvents"].request = Ask("GET", <<"attendance", "events">>,
             FALSE)
        /\ attendanceHooks["summary"].request = Ask("GET", <<"attendance", "summary">>, TRUE)
        /\ attendanceHooks["teamStates"].request = Ask("GET", <<"attendance", "team-states">>,
             FALSE)
    BY DEF attendanceHooks, Fetch, Polled
  <2>3. QED BY <2>1, <2>2
<1>4. /\ Hooks["locks"].request = Ask("GET", <<"attendance", "lock">>, FALSE)
  <2>1. Hooks["locks"] = lockHooks["locks"]
    BY HooksAre
  <2>2. /\ lockHooks["locks"].request = Ask("GET", <<"attendance", "lock">>, FALSE)
    BY DEF lockHooks, Fetch, Polled
  <2>3. QED BY <2>1, <2>2
<1>5. /\ Hooks["requests"].request = Ask("GET", <<"leave-requests">>, TRUE)
      /\ Hooks["pending"].request = Ask("GET", <<"leave-requests">>, TRUE)
      /\ Hooks["balance"].request = Ask("GET", <<"leave", "balance">>, TRUE)
  <2>1. /\ Hooks["requests"] = leaveHooks["requests"]
        /\ Hooks["pending"] = leaveHooks["pending"]
        /\ Hooks["balance"] = leaveHooks["balance"]
    BY HooksAre
  <2>2. /\ leaveHooks["requests"].request = Ask("GET", <<"leave-requests">>, TRUE)
        /\ leaveHooks["pending"].request = Ask("GET", <<"leave-requests">>, TRUE)
        /\ leaveHooks["balance"].request = Ask("GET", <<"leave", "balance">>, TRUE)
    BY DEF leaveHooks, Fetch, Polled
  <2>3. QED BY <2>1, <2>2
<1>6. /\ Hooks["breakdown"].request = Ask("GET", <<"payroll", "month">>, TRUE)
      /\ Hooks["payrollReport"].request = Ask("GET", <<"payroll", "report", "month">>, FALSE)
      /\ Hooks["salary"].request = Ask("GET", <<"admin", "salary", "id">>, FALSE)
  <2>1. /\ Hooks["breakdown"] = payrollHooks["breakdown"]
        /\ Hooks["payrollReport"] = payrollHooks["payrollReport"]
        /\ Hooks["salary"] = payrollHooks["salary"]
    BY HooksAre
  <2>2. /\ payrollHooks["breakdown"].request = Ask("GET", <<"payroll", "month">>, TRUE)
        /\ payrollHooks["payrollReport"].request = Ask("GET", <<"payroll", "report", "month">>,
             FALSE)
        /\ payrollHooks["salary"].request = Ask("GET", <<"admin", "salary", "id">>, FALSE)
    BY DEF payrollHooks, Fetch, Polled
  <2>3. QED BY <2>1, <2>2
<1>7. /\ Hooks["flags"].request = Ask("GET", <<"flags">>, TRUE)
  <2>1. Hooks["flags"] = flagHooks["flags"]
    BY HooksAre
  <2>2. /\ flagHooks["flags"].request = Ask("GET", <<"flags">>, TRUE)
    BY DEF flagHooks, Fetch, Polled
  <2>3. QED BY <2>1, <2>2
<1>8. /\ Hooks["bank"].request = Ask("GET", <<"bank">>, TRUE)
  <2>1. Hooks["bank"] = bankHooks["bank"]
    BY HooksAre
  <2>2. /\ bankHooks["bank"].request = Ask("GET", <<"bank">>, TRUE)
    BY DEF bankHooks, Fetch, Polled
  <2>3. QED BY <2>1, <2>2
<1>9. /\ Hooks["reports"].request = Ask("GET", <<"reports">>, TRUE)
      /\ Hooks["teamReports"].request = Ask("GET", <<"reports">>, FALSE)
  <2>1. /\ Hooks["reports"] = reportHooks["reports"]
        /\ Hooks["teamReports"] = reportHooks["teamReports"]
    BY HooksAre
  <2>2. /\ reportHooks["reports"].request = Ask("GET", <<"reports">>, TRUE)
        /\ reportHooks["teamReports"].request = Ask("GET", <<"reports">>, FALSE)
    BY DEF reportHooks, Fetch, Polled
  <2>3. QED BY <2>1, <2>2
<1>10. /\ Hooks["holidays"].request = Ask("GET", <<"holidays">>, FALSE)
  <2>1. Hooks["holidays"] = holidayHooks["holidays"]
    BY HooksAre
  <2>2. /\ holidayHooks["holidays"].request = Ask("GET", <<"holidays">>, FALSE)
    BY DEF holidayHooks, Fetch, Polled
  <2>3. QED BY <2>1, <2>2
<1>11. /\ Hooks["audit"].request = Ask("GET", <<"audit", "id">>, FALSE)
  <2>1. Hooks["audit"] = auditHooks["audit"]
    BY HooksAre
  <2>2. /\ auditHooks["audit"].request = Ask("GET", <<"audit", "id">>, FALSE)
    BY DEF auditHooks, Fetch, Polled
  <2>3. QED BY <2>1, <2>2
<1>12. /\ Hooks["groupPolicy"].request = Ask("GET", <<"policies", "group">>, FALSE)
      /\ Hooks["companyPolicy"].request = Ask("GET", <<"policies", "company">>, FALSE)
      /\ Hooks["userPolicy"].request = Ask("GET", <<"policies", "user", "id">>, FALSE)
      /\ Hooks["effectivePolicy"].request = Ask("GET", <<"policies", "effective">>, TRUE)
  <2>1. /\ Hooks["groupPolicy"] = policyHooks["groupPolicy"]
        /\ Hooks["companyPolicy"] = policyHooks["companyPolicy"]
        /\ Hooks["userPolicy"] = policyHooks["userPolicy"]
        /\ Hooks["effectivePolicy"] = policyHooks["effectivePolicy"]
    BY HooksAre
  <2>2. /\ policyHooks["groupPolicy"].request = Ask("GET", <<"policies", "group">>, FALSE)
        /\ policyHooks["companyPolicy"].request = Ask("GET", <<"policies", "company">>, FALSE)
        /\ policyHooks["userPolicy"].request = Ask("GET", <<"policies", "user", "id">>, FALSE)
        /\ policyHooks["effectivePolicy"].request = Ask("GET", <<"policies", "effective">>,
             TRUE)
    BY DEF policyHooks, Fetch, Polled
  <2>3. QED BY <2>1, <2>2
<1>13. /\ Hooks["roles"].request = Ask("GET", <<"roles">>, FALSE)
  <2>1. Hooks["roles"] = roleHooks["roles"]
    BY HooksAre
  <2>2. /\ roleHooks["roles"].request = Ask("GET", <<"roles">>, FALSE)
    BY DEF roleHooks, Fetch, Polled
  <2>3. QED BY <2>1, <2>2
<1>14. /\ Hooks["documents"].request = Ask("GET", <<"documents">>, FALSE)
  <2>1. Hooks["documents"] = documentHooks["documents"]
    BY HooksAre
  <2>2. /\ documentHooks["documents"].request = Ask("GET", <<"documents">>, FALSE)
    BY DEF documentHooks, Fetch, Polled
  <2>3. QED BY <2>1, <2>2
<1>15. QED BY <1>1, <1>2, <1>3, <1>4, <1>5, <1>6, <1>7, <1>8, <1>9, <1>10, <1>11, <1>12, <1>13,
          <1>14

\* The saves, and what each one asks.
LEMMA SaveRequests ==
    /\ Mutations["updateEmployee"].request = Ask("PATCH", <<"employees", "id">>, TRUE)
    /\ Mutations["clock"].request = Ask("POST", <<"attendance", "events">>, TRUE)
    /\ Mutations["editEvent"].request = Ask("PATCH", <<"attendance", "events", "id">>, TRUE)
    /\ Mutations["createLock"].request = Ask("POST", <<"attendance", "lock">>, TRUE)
    /\ Mutations["deleteLock"].request = Ask("DELETE", <<"attendance", "lock">>, TRUE)
    /\ Mutations["createLeave"].request = Ask("POST", <<"leave-requests">>, TRUE)
    /\ Mutations["approveLeave"].request = Ask("PATCH", <<"leave-requests", "id">>, TRUE)
    /\ Mutations["rejectLeave"].request = Ask("PATCH", <<"leave-requests", "id">>, TRUE)
    /\ Mutations["addSalary"].request = Ask("POST", <<"admin", "salary", "id">>, TRUE)
    /\ Mutations["resolveFlag"].request = Ask("PATCH", <<"flags", "id">>, TRUE)
    /\ Mutations["bankApprove"].request = Ask("POST", <<"bank", "approve">>, TRUE)
    /\ Mutations["submitReport"].request = Ask("POST", <<"reports">>, TRUE)
    /\ Mutations["createHoliday"].request = Ask("POST", <<"holidays">>, TRUE)
    /\ Mutations["deleteHoliday"].request = Ask("DELETE", <<"holidays", "region", "date">>,
         TRUE)
    /\ Mutations["groupPolicySave"].request = Ask("PUT", <<"policies", "group">>, TRUE)
    /\ Mutations["companyPolicySave"].request = Ask("PUT", <<"policies", "company">>, TRUE)
    /\ Mutations["userPolicySave"].request = Ask("PUT", <<"policies", "user", "id">>, TRUE)
    /\ Mutations["updateRole"].request = Ask("PUT", <<"roles", "name">>, TRUE)
    /\ Mutations["uploadDocument"].request = Ask("POST", <<"documents", "upload-url">>, TRUE)
    /\ Mutations["verifyDocument"].request = Ask("PATCH", <<"documents", "id">>, TRUE)
    /\ Mutations["onboard"].request = Ask("POST", <<"onboard">>, TRUE)
    /\ Mutations["offboard"].request = Ask("POST", <<"offboard", "id">>, TRUE)
<1>1. /\ Mutations["updateEmployee"].request = Ask("PATCH", <<"employees", "id">>, TRUE)
  <2>1. Mutations["updateEmployee"] = employeeSaves["updateEmployee"]
    BY MutationsAre
  <2>2. /\ employeeSaves["updateEmployee"].request = Ask("PATCH", <<"employees", "id">>, TRUE)
    BY DEF employeeSaves, Save
  <2>3. QED BY <2>1, <2>2
<1>2. /\ Mutations["clock"].request = Ask("POST", <<"attendance", "events">>, TRUE)
      /\ Mutations["editEvent"].request = Ask("PATCH", <<"attendance", "events", "id">>, TRUE)
  <2>1. /\ Mutations["clock"] = attendanceSaves["clock"]
        /\ Mutations["editEvent"] = attendanceSaves["editEvent"]
    BY MutationsAre
  <2>2. /\ attendanceSaves["clock"].request = Ask("POST", <<"attendance", "events">>, TRUE)
        /\ attendanceSaves["editEvent"].request = Ask("PATCH", <<"attendance", "events",
             "id">>, TRUE)
    BY DEF attendanceSaves, Save, useClockAction, useEditAttendanceEvent
  <2>3. QED BY <2>1, <2>2
<1>3. /\ Mutations["createLock"].request = Ask("POST", <<"attendance", "lock">>, TRUE)
      /\ Mutations["deleteLock"].request = Ask("DELETE", <<"attendance", "lock">>, TRUE)
  <2>1. /\ Mutations["createLock"] = lockSaves["createLock"]
        /\ Mutations["deleteLock"] = lockSaves["deleteLock"]
    BY MutationsAre
  <2>2. /\ lockSaves["createLock"].request = Ask("POST", <<"attendance", "lock">>, TRUE)
        /\ lockSaves["deleteLock"].request = Ask("DELETE", <<"attendance", "lock">>, TRUE)
    BY DEF lockSaves, Save
  <2>3. QED BY <2>1, <2>2
<1>4. /\ Mutations["createLeave"].request = Ask("POST", <<"leave-requests">>, TRUE)
      /\ Mutations["approveLeave"].request = Ask("PATCH", <<"leave-requests", "id">>, TRUE)
      /\ Mutations["rejectLeave"].request = Ask("PATCH", <<"leave-requests", "id">>, TRUE)
  <2>1. /\ Mutations["createLeave"] = leaveSaves["createLeave"]
        /\ Mutations["approveLeave"] = leaveSaves["approveLeave"]
        /\ Mutations["rejectLeave"] = leaveSaves["rejectLeave"]
    BY MutationsAre
  <2>2. /\ leaveSaves["createLeave"].request = Ask("POST", <<"leave-requests">>, TRUE)
        /\ leaveSaves["approveLeave"].request = Ask("PATCH", <<"leave-requests", "id">>, TRUE)
        /\ leaveSaves["rejectLeave"].request = Ask("PATCH", <<"leave-requests", "id">>, TRUE)
    BY DEF leaveSaves, Save
  <2>3. QED BY <2>1, <2>2
<1>5. /\ Mutations["addSalary"].request = Ask("POST", <<"admin", "salary", "id">>, TRUE)
  <2>1. Mutations["addSalary"] = salarySaves["addSalary"]
    BY MutationsAre
  <2>2. /\ salarySaves["addSalary"].request = Ask("POST", <<"admin", "salary", "id">>, TRUE)
    BY DEF salarySaves, Save
  <2>3. QED BY <2>1, <2>2
<1>6. /\ Mutations["resolveFlag"].request = Ask("PATCH", <<"flags", "id">>, TRUE)
  <2>1. Mutations["resolveFlag"] = flagSaves["resolveFlag"]
    BY MutationsAre
  <2>2. /\ flagSaves["resolveFlag"].request = Ask("PATCH", <<"flags", "id">>, TRUE)
    BY DEF flagSaves, Save
  <2>3. QED BY <2>1, <2>2
<1>7. /\ Mutations["bankApprove"].request = Ask("POST", <<"bank", "approve">>, TRUE)
  <2>1. Mutations["bankApprove"] = bankSaves["bankApprove"]
    BY MutationsAre
  <2>2. /\ bankSaves["bankApprove"].request = Ask("POST", <<"bank", "approve">>, TRUE)
    BY DEF bankSaves, Save
  <2>3. QED BY <2>1, <2>2
<1>8. /\ Mutations["submitReport"].request = Ask("POST", <<"reports">>, TRUE)
  <2>1. Mutations["submitReport"] = reportSaves["submitReport"]
    BY MutationsAre
  <2>2. /\ reportSaves["submitReport"].request = Ask("POST", <<"reports">>, TRUE)
    BY DEF reportSaves, Save
  <2>3. QED BY <2>1, <2>2
<1>9. /\ Mutations["createHoliday"].request = Ask("POST", <<"holidays">>, TRUE)
      /\ Mutations["deleteHoliday"].request = Ask("DELETE", <<"holidays", "region", "date">>,
           TRUE)
  <2>1. /\ Mutations["createHoliday"] = holidaySaves["createHoliday"]
        /\ Mutations["deleteHoliday"] = holidaySaves["deleteHoliday"]
    BY MutationsAre
  <2>2. /\ holidaySaves["createHoliday"].request = Ask("POST", <<"holidays">>, TRUE)
        /\ holidaySaves["deleteHoliday"].request = Ask("DELETE", <<"holidays", "region",
             "date">>, TRUE)
    BY DEF holidaySaves, Save
  <2>3. QED BY <2>1, <2>2
<1>10. /\ Mutations["groupPolicySave"].request = Ask("PUT", <<"policies", "group">>, TRUE)
      /\ Mutations["companyPolicySave"].request = Ask("PUT", <<"policies", "company">>, TRUE)
      /\ Mutations["userPolicySave"].request = Ask("PUT", <<"policies", "user", "id">>, TRUE)
  <2>1. /\ Mutations["groupPolicySave"] = policySaves["groupPolicySave"]
        /\ Mutations["companyPolicySave"] = policySaves["companyPolicySave"]
        /\ Mutations["userPolicySave"] = policySaves["userPolicySave"]
    BY MutationsAre
  <2>2. /\ policySaves["groupPolicySave"].request = Ask("PUT", <<"policies", "group">>, TRUE)
        /\ policySaves["companyPolicySave"].request = Ask("PUT", <<"policies", "company">>,
             TRUE)
        /\ policySaves["userPolicySave"].request = Ask("PUT", <<"policies", "user", "id">>,
             TRUE)
    BY DEF policySaves, Save
  <2>3. QED BY <2>1, <2>2
<1>11. /\ Mutations["updateRole"].request = Ask("PUT", <<"roles", "name">>, TRUE)
  <2>1. Mutations["updateRole"] = roleSaves["updateRole"]
    BY MutationsAre
  <2>2. /\ roleSaves["updateRole"].request = Ask("PUT", <<"roles", "name">>, TRUE)
    BY DEF roleSaves, Save
  <2>3. QED BY <2>1, <2>2
<1>12. /\ Mutations["uploadDocument"].request = Ask("POST", <<"documents", "upload-url">>, TRUE)
      /\ Mutations["verifyDocument"].request = Ask("PATCH", <<"documents", "id">>, TRUE)
  <2>1. /\ Mutations["uploadDocument"] = documentSaves["uploadDocument"]
        /\ Mutations["verifyDocument"] = documentSaves["verifyDocument"]
    BY MutationsAre
  <2>2. /\ documentSaves["uploadDocument"].request = Ask("POST", <<"documents", "upload-url">>,
             TRUE)
        /\ documentSaves["verifyDocument"].request = Ask("PATCH", <<"documents", "id">>, TRUE)
    BY DEF documentSaves, Save
  <2>3. QED BY <2>1, <2>2
<1>13. /\ Mutations["onboard"].request = Ask("POST", <<"onboard">>, TRUE)
      /\ Mutations["offboard"].request = Ask("POST", <<"offboard", "id">>, TRUE)
  <2>1. /\ Mutations["onboard"] = adminSaves["onboard"]
        /\ Mutations["offboard"] = adminSaves["offboard"]
    BY MutationsAre
  <2>2. /\ adminSaves["onboard"].request = Ask("POST", <<"onboard">>, TRUE)
        /\ adminSaves["offboard"].request = Ask("POST", <<"offboard", "id">>, TRUE)
    BY DEF adminSaves, Save
  <2>3. QED BY <2>1, <2>2
<1>14. QED BY <1>1, <1>2, <1>3, <1>4, <1>5, <1>6, <1>7, <1>8, <1>9, <1>10, <1>11, <1>12, <1>13

\* Where each query goes.
LEMMA QueryGoes ==
    /\ Goes(Hooks["me"].request, employeeRoutes[1])
    /\ Goes(Hooks["employees"].request, employeeRoutes[3])
    /\ Goes(Hooks["members"].request, employeeRoutes[3])
    /\ Goes(Hooks["state"].request, attendanceRoutes[1])
    /\ Goes(Hooks["todayEvents"].request, attendanceRoutes[2])
    /\ Goes(Hooks["dayEvents"].request, attendanceRoutes[2])
    /\ Goes(Hooks["memberEvents"].request, attendanceRoutes[2])
    /\ Goes(Hooks["summary"].request, attendanceRoutes[4])
    /\ Goes(Hooks["teamStates"].request, attendanceRoutes[6])
    /\ Goes(Hooks["locks"].request, attendanceLockRoutes[1])
    /\ Goes(Hooks["requests"].request, leaveRoutes[2])
    /\ Goes(Hooks["pending"].request, leaveRoutes[2])
    /\ Goes(Hooks["balance"].request, leaveRoutes[4])
    /\ Goes(Hooks["breakdown"].request, payrollRoutes[2])
    /\ Goes(Hooks["payrollReport"].request, payrollRoutes[1])
    /\ Goes(Hooks["salary"].request, salaryAdminRoutes[1])
    /\ Goes(Hooks["flags"].request, flagRoutes[1])
    /\ Goes(Hooks["bank"].request, bankRoutes[1])
    /\ Goes(Hooks["reports"].request, reportRoutes[1])
    /\ Goes(Hooks["teamReports"].request, reportRoutes[1])
    /\ Goes(Hooks["holidays"].request, holidayRoutes[1])
    /\ Goes(Hooks["audit"].request, adminRoutes[3])
    /\ Goes(Hooks["groupPolicy"].request, policyRoutes[4])
    /\ Goes(Hooks["companyPolicy"].request, policyRoutes[2])
    /\ Goes(Hooks["userPolicy"].request, policyRoutes[6])
    /\ Goes(Hooks["effectivePolicy"].request, policyRoutes[1])
    /\ Goes(Hooks["roles"].request, roleRoutes[1])
    /\ Goes(Hooks["documents"].request, documentRoutes[1])
<1>1. /\ Goes(Hooks["me"].request, employeeRoutes[1])
      /\ Goes(Hooks["employees"].request, employeeRoutes[3])
      /\ Goes(Hooks["members"].request, employeeRoutes[3])
  BY QueryRequests, EmployeeRequests
<1>2. /\ Goes(Hooks["state"].request, attendanceRoutes[1])
      /\ Goes(Hooks["todayEvents"].request, attendanceRoutes[2])
      /\ Goes(Hooks["dayEvents"].request, attendanceRoutes[2])
      /\ Goes(Hooks["memberEvents"].request, attendanceRoutes[2])
      /\ Goes(Hooks["summary"].request, attendanceRoutes[4])
      /\ Goes(Hooks["teamStates"].request, attendanceRoutes[6])
  BY QueryRequests, AttendanceRequests
<1>3. /\ Goes(Hooks["requests"].request, leaveRoutes[2])
      /\ Goes(Hooks["pending"].request, leaveRoutes[2])
      /\ Goes(Hooks["balance"].request, leaveRoutes[4])
  BY QueryRequests, LeaveRequests
<1>4. /\ Goes(Hooks["breakdown"].request, payrollRoutes[2])
      /\ Goes(Hooks["payrollReport"].request, payrollRoutes[1])
  BY QueryRequests, PayrollRequests
<1>5. /\ Goes(Hooks["flags"].request, flagRoutes[1])
  BY QueryRequests, FlagRequests
<1>6. /\ Goes(Hooks["bank"].request, bankRoutes[1])
  BY QueryRequests, BankRequests
<1>7. /\ Goes(Hooks["reports"].request, reportRoutes[1])
      /\ Goes(Hooks["teamReports"].request, reportRoutes[1])
  BY QueryRequests, ReportRequests
<1>8. /\ Goes(Hooks["audit"].request, adminRoutes[3])
  BY QueryRequests, AdminRequests
<1>9. /\ Goes(Hooks["holidays"].request, holidayRoutes[1])
  BY QueryRequests, HolidayRequests
<1>10. /\ Goes(Hooks["groupPolicy"].request, policyRoutes[4])
      /\ Goes(Hooks["companyPolicy"].request, policyRoutes[2])
      /\ Goes(Hooks["userPolicy"].request, policyRoutes[6])
      /\ Goes(Hooks["effectivePolicy"].request, policyRoutes[1])
  BY QueryRequests, PolicyRequests
<1>11. /\ Goes(Hooks["locks"].request, attendanceLockRoutes[1])
  BY QueryRequests, LockRequests
<1>12. /\ Goes(Hooks["roles"].request, roleRoutes[1])
  BY QueryRequests, RoleRequests
<1>13. /\ Goes(Hooks["documents"].request, documentRoutes[1])
  BY QueryRequests, DocumentRequests
<1>14. /\ Goes(Hooks["salary"].request, salaryAdminRoutes[1])
  BY QueryRequests, SalaryRequests
<1>15. QED BY <1>1, <1>2, <1>3, <1>4, <1>5, <1>6, <1>7, <1>8, <1>9, <1>10, <1>11, <1>12, <1>13,
          <1>14

\* Where each save goes.
LEMMA SaveGoes ==
    /\ Goes(Mutations["updateEmployee"].request, employeeRoutes[4])
    /\ Goes(Mutations["clock"].request, attendanceRoutes[3])
    /\ Goes(Mutations["editEvent"].request, attendanceRoutes[5])
    /\ Goes(Mutations["createLock"].request, attendanceLockRoutes[2])
    /\ Goes(Mutations["deleteLock"].request, attendanceLockRoutes[3])
    /\ Goes(Mutations["createLeave"].request, leaveRoutes[1])
    /\ Goes(Mutations["approveLeave"].request, leaveRoutes[3])
    /\ Goes(Mutations["rejectLeave"].request, leaveRoutes[3])
    /\ Goes(Mutations["addSalary"].request, salaryAdminRoutes[2])
    /\ Goes(Mutations["resolveFlag"].request, flagRoutes[2])
    /\ Goes(Mutations["bankApprove"].request, bankRoutes[2])
    /\ Goes(Mutations["submitReport"].request, reportRoutes[2])
    /\ Goes(Mutations["createHoliday"].request, holidayRoutes[2])
    /\ Goes(Mutations["deleteHoliday"].request, holidayRoutes[3])
    /\ Goes(Mutations["groupPolicySave"].request, policyRoutes[5])
    /\ Goes(Mutations["companyPolicySave"].request, policyRoutes[3])
    /\ Goes(Mutations["userPolicySave"].request, policyRoutes[7])
    /\ Goes(Mutations["updateRole"].request, roleRoutes[3])
    /\ Goes(Mutations["uploadDocument"].request, documentRoutes[2])
    /\ Goes(Mutations["verifyDocument"].request, documentRoutes[3])
    /\ Goes(Mutations["onboard"].request, adminRoutes[1])
    /\ Goes(Mutations["offboard"].request, adminRoutes[2])
<1>1. /\ Goes(Mutations["updateEmployee"].request, employeeRoutes[4])
  BY SaveRequests, EmployeeRequests
<1>2. /\ Goes(Mutations["clock"].request, attendanceRoutes[3])
      /\ Goes(Mutations["editEvent"].request, attendanceRoutes[5])
  BY SaveRequests, AttendanceRequests
<1>3. /\ Goes(Mutations["createLeave"].request, leaveRoutes[1])
      /\ Goes(Mutations["approveLeave"].request, leaveRoutes[3])
      /\ Goes(Mutations["rejectLeave"].request, leaveRoutes[3])
  BY SaveRequests, LeaveRequests
<1>4. /\ Goes(Mutations["resolveFlag"].request, flagRoutes[2])
  BY SaveRequests, FlagRequests
<1>5. /\ Goes(Mutations["bankApprove"].request, bankRoutes[2])
  BY SaveRequests, BankRequests
<1>6. /\ Goes(Mutations["submitReport"].request, reportRoutes[2])
  BY SaveRequests, ReportRequests
<1>7. /\ Goes(Mutations["onboard"].request, adminRoutes[1])
      /\ Goes(Mutations["offboard"].request, adminRoutes[2])
  BY SaveRequests, AdminRequests
<1>8. /\ Goes(Mutations["createHoliday"].request, holidayRoutes[2])
      /\ Goes(Mutations["deleteHoliday"].request, holidayRoutes[3])
  BY SaveRequests, HolidayRequests
<1>9. /\ Goes(Mutations["groupPolicySave"].request, policyRoutes[5])
      /\ Goes(Mutations["companyPolicySave"].request, policyRoutes[3])
      /\ Goes(Mutations["userPolicySave"].request, policyRoutes[7])
  BY SaveRequests, PolicyRequests
<1>10. /\ Goes(Mutations["createLock"].request, attendanceLockRoutes[2])
      /\ Goes(Mutations["deleteLock"].request, attendanceLockRoutes[3])
  BY SaveRequests, LockRequests
<1>11. /\ Goes(Mutations["updateRole"].request, roleRoutes[3])
  BY SaveRequests, RoleRequests
<1>12. /\ Goes(Mutations["uploadDocument"].request, documentRoutes[2])
      /\ Goes(Mutations["verifyDocument"].request, documentRoutes[3])
  BY SaveRequests, DocumentRequests
<1>13. /\ Goes(Mutations["addSalary"].request, salaryAdminRoutes[2])
  BY SaveRequests, SalaryRequests
<1>14. QED BY <1>1, <1>2, <1>3, <1>4, <1>5, <1>6, <1>7, <1>8, <1>9, <1>10, <1>11, <1>12, <1>13

\* The queries by name.
LEMMA QueriesAre == Queries = {"me", "employees", "members", "state", "todayEvents",
    "dayEvents", "memberEvents", "summary", "teamStates", "locks", "requests", "pending",
        "balance", "breakdown", "payrollReport", "salary", "flags", "bank", "reports",
            "teamReports", "holidays", "audit", "groupPolicy", "companyPolicy", "userPolicy",
                "effectivePolicy", "roles", "documents"}
  BY DEF Queries, queryKeys

\* Each query and each save goes somewhere.
LEMMA AllGo ==
    /\ \A q \in Queries : \E route : Goes(Hooks[q].request, route)
    /\ \A m \in DOMAIN Mutations : \E route : Goes(Mutations[m].request, route)
<1>1. ASSUME NEW q \in Queries PROVE \E route : Goes(Hooks[q].request, route)
  BY QueriesAre, QueryGoes
<1>2. ASSUME NEW m \in DOMAIN Mutations PROVE \E route : Goes(Mutations[m].request, route)
  BY MutationsAre, SaveGoes
<1>3. QED BY <1>1, <1>2

\* The routes are in an order in which each is reached by its own path, and every
\* request of a hook reaches the most specific route that fits it (buildRoutes,
\* createRouter, hooks/queries).
THEOREM AllReached == RoutesReached
<1>1. RouteList(buildRoutes) /\ DOMAIN buildRoutes = 1 .. Len(buildRoutes)
  BY RouterServes DEF Serves, RouteList
<1>2. ASSUME NEW i \in DOMAIN buildRoutes
      PROVE  Route(Ask(buildRoutes[i].method, buildRoutes[i].path, TRUE)) = buildRoutes[i]
  <2>1. PICK list \in Groups : \E j \in 1 .. Len(list) : buildRoutes[i] = list[j]
    BY <1>1, <1>2, RouterServes DEF Serves
  <2>2. Goes(Ask(buildRoutes[i].method, buildRoutes[i].path, TRUE), buildRoutes[i])
    BY <2>1, OwnRequests DEF Own
  <2>3. QED BY <1>1, <2>2, GoesTo
<1>3. ASSUME NEW request \in {Hooks[q].request : q \in Queries}
                            \cup {Mutations[m].request : m \in DOMAIN Mutations}
      PROVE  \E i \in Fitting(request) :
                /\ Route(request) = buildRoutes[i]
                /\ \A j \in Fitting(request) : Parameters(i) <= Parameters(j)
  <2>1. PICK route : Goes(request, route)
    BY AllGo
  <2>2. QED BY <1>1, <2>1, GoesTo
<1>4. QED BY <1>2, <1>3 DEF RoutesReached

-----------------------------------------------------------------------------
(* Whom the handlers answer: everybody, managers, administrators.          *)

\* Who a request is for: everybody, or whoever has one of some permissions.
OpenTo(permissions, request, answer) == \E route :
    /\ Goes(request, route)
    /\ answer = IF route.throws THEN "FAILED" ELSE "OK"
    /\ \/ "anyone" \in route.who
       \/ "self" \in route.who /\ request.self
       \/ route.who \cap permissions # {}

\* A role with the permissions is answered.
LEMMA Answered ==
    ASSUME NEW role \in Roles, NEW permissions \in SUBSET Permissions,
           \A p \in permissions : hasPermission(role, p),
           NEW request, NEW answer, OpenTo(permissions, request, answer)
    PROVE  Answer(role, request) = answer
<1>1. PICK route :
        /\ Goes(request, route)
        /\ answer = IF route.throws THEN "FAILED" ELSE "OK"
        /\ \/ "anyone" \in route.who
           \/ "self" \in route.who /\ request.self
           \/ route.who \cap permissions # {}
  BY DEF OpenTo
<1>2. Fitting(request) # {} /\ Route(request) = route
  BY <1>1, GoesTo, RouterServes DEF Serves
<1>3. Admits(route, role, request.self)
  BY <1>1 DEF Admits
<1>4. QED BY <1>1, <1>2, <1>3 DEF Answer

\* What the guards of the application stand for: whoever may approve leave may do what
\* managers may, whoever may onboard may do everything.
LEMMA GuardsAreRoles ==
    ASSUME NEW role \in Roles
    PROVE  /\ "LEAVE_APPROVE" \in May(role) => \A p \in MANAGER_PERMISSIONS : hasPermission(role, p)
           /\ "ONBOARD" \in May(role) => \A p \in ADMIN_PERMISSIONS : hasPermission(role, p)
           /\ "ONBOARD" \in May(role) => "LEAVE_APPROVE" \in May(role)
  BY DEF Roles, May, ROLE_PERMISSIONS, hasPermission, Permissions, ADMIN_PERMISSIONS,
     MANAGER_PERMISSIONS, EMPLOYEE_PERMISSIONS

\* The queries everybody may send, those of managers and those of administrators.
OpenQueries == {"me", "state", "todayEvents", "dayEvents", "summary", "locks", "requests",
    "pending",
    "balance", "breakdown", "flags", "bank", "reports", "holidays", "effectivePolicy",
    "roles"}
ManagerQueries == {"employees", "members", "memberEvents", "teamStates", "teamReports",
    "documents"}
AdminQueries == {"payrollReport", "salary", "audit", "groupPolicy", "companyPolicy",
    "userPolicy"}

\* The saves everybody may send, those of managers and those of administrators.
OpenSaves == {"clock", "editEvent", "createLeave", "submitReport", "uploadDocument"}
ManagerSaves == {"approveLeave", "rejectLeave", "resolveFlag", "bankApprove"}
AdminSaves == {"updateEmployee", "createLock", "deleteLock", "addSalary", "createHoliday",
    "deleteHoliday", "groupPolicySave", "companyPolicySave", "userPolicySave", "updateRole",
    "verifyDocument", "onboard", "offboard"}

\* Who may send each query.
LEMMA QueryRights ==
    /\ \A q \in OpenQueries : OpenTo({}, Hooks[q].request, "OK")
    /\ \A q \in ManagerQueries : OpenTo(MANAGER_PERMISSIONS, Hooks[q].request, "OK")
    /\ \A q \in AdminQueries : OpenTo(ADMIN_PERMISSIONS, Hooks[q].request, "OK")
<1>1. /\ OpenTo({}, Hooks["me"].request, "OK")
      /\ OpenTo(MANAGER_PERMISSIONS, Hooks["employees"].request, "OK")
      /\ OpenTo(MANAGER_PERMISSIONS, Hooks["members"].request, "OK")
  <2>1. /\ employeeRoutes[1].throws = FALSE /\ "anyone" \in employeeRoutes[1].who
        /\ employeeRoutes[3].throws = FALSE
        /\ employeeRoutes[3].who \cap MANAGER_PERMISSIONS # {}
    BY DEF employeeRoutes, Get, Change, Throwing, CrossUser, ADMIN_PERMISSIONS,
       MANAGER_PERMISSIONS
  <2>2. QED BY <2>1, QueryGoes DEF OpenTo
<1>2. /\ OpenTo({}, Hooks["state"].request, "OK")
      /\ OpenTo({}, Hooks["todayEvents"].request, "OK")
      /\ OpenTo({}, Hooks["dayEvents"].request, "OK")
      /\ OpenTo(MANAGER_PERMISSIONS, Hooks["memberEvents"].request, "OK")
      /\ OpenTo({}, Hooks["summary"].request, "OK")
      /\ OpenTo(MANAGER_PERMISSIONS, Hooks["teamStates"].request, "OK")
  <2>1. /\ attendanceRoutes[1].throws = FALSE /\ "anyone" \in attendanceRoutes[1].who
        /\ attendanceRoutes[2].throws = FALSE
        /\ "self" \in attendanceRoutes[2].who
        /\ attendanceRoutes[2].who \cap MANAGER_PERMISSIONS # {}
        /\ attendanceRoutes[4].throws = FALSE /\ "self" \in attendanceRoutes[4].who
        /\ attendanceRoutes[6].throws = FALSE
        /\ attendanceRoutes[6].who \cap MANAGER_PERMISSIONS # {}
    BY DEF attendanceRoutes, Get, Change, Throwing, CrossUser, ADMIN_PERMISSIONS,
       MANAGER_PERMISSIONS
  <2>2. /\ Hooks["todayEvents"].request.self
        /\ Hooks["dayEvents"].request.self
        /\ Hooks["summary"].request.self
    BY QueryRequests DEF Ask
  <2>3. QED BY <2>1, <2>2, QueryGoes DEF OpenTo
<1>3. /\ OpenTo({}, Hooks["requests"].request, "OK")
      /\ OpenTo({}, Hooks["pending"].request, "OK")
      /\ OpenTo({}, Hooks["balance"].request, "OK")
  <2>1. /\ leaveRoutes[2].throws = FALSE /\ "self" \in leaveRoutes[2].who
        /\ leaveRoutes[4].throws = FALSE /\ "self" \in leaveRoutes[4].who
    BY DEF leaveRoutes, Get, Change, Throwing, CrossUser, ADMIN_PERMISSIONS, MANAGER_PERMISSIONS
  <2>2. /\ Hooks["requests"].request.self
        /\ Hooks["pending"].request.self
        /\ Hooks["balance"].request.self
    BY QueryRequests DEF Ask
  <2>3. QED BY <2>1, <2>2, QueryGoes DEF OpenTo
<1>4. /\ OpenTo({}, Hooks["breakdown"].request, "OK")
      /\ OpenTo(ADMIN_PERMISSIONS, Hooks["payrollReport"].request, "OK")
  <2>1. /\ payrollRoutes[1].throws = FALSE /\ payrollRoutes[1].who \cap ADMIN_PERMISSIONS # {}
        /\ payrollRoutes[2].throws = FALSE /\ "anyone" \in payrollRoutes[2].who
    BY DEF payrollRoutes, Get, Change, Throwing, CrossUser, ADMIN_PERMISSIONS,
       MANAGER_PERMISSIONS
  <2>2. QED BY <2>1, QueryGoes DEF OpenTo
<1>5. /\ OpenTo({}, Hooks["flags"].request, "OK")
  <2>1. /\ flagRoutes[1].throws = FALSE /\ "anyone" \in flagRoutes[1].who
    BY DEF flagRoutes, Get, Change, Throwing, CrossUser, ADMIN_PERMISSIONS, MANAGER_PERMISSIONS
  <2>2. QED BY <2>1, QueryGoes DEF OpenTo
<1>6. /\ OpenTo({}, Hooks["bank"].request, "OK")
  <2>1. /\ bankRoutes[1].throws = FALSE /\ "self" \in bankRoutes[1].who
    BY DEF bankRoutes, Get, Change, Throwing, CrossUser, ADMIN_PERMISSIONS, MANAGER_PERMISSIONS
  <2>2. /\ Hooks["bank"].request.self
    BY QueryRequests DEF Ask
  <2>3. QED BY <2>1, <2>2, QueryGoes DEF OpenTo
<1>7. /\ OpenTo({}, Hooks["reports"].request, "OK")
      /\ OpenTo(MANAGER_PERMISSIONS, Hooks["teamReports"].request, "OK")
  <2>1. /\ reportRoutes[1].throws = FALSE
        /\ "self" \in reportRoutes[1].who
        /\ reportRoutes[1].who \cap MANAGER_PERMISSIONS # {}
    BY DEF reportRoutes, Get, Change, Throwing, CrossUser, ADMIN_PERMISSIONS,
       MANAGER_PERMISSIONS
  <2>2. /\ Hooks["reports"].request.self
    BY QueryRequests DEF Ask
  <2>3. QED BY <2>1, <2>2, QueryGoes DEF OpenTo
<1>8. /\ OpenTo(ADMIN_PERMISSIONS, Hooks["audit"].request, "OK")
  <2>1. /\ adminRoutes[3].throws = FALSE /\ adminRoutes[3].who \cap ADMIN_PERMISSIONS # {}
    BY DEF adminRoutes, Get, Change, Throwing, CrossUser, ADMIN_PERMISSIONS, MANAGER_PERMISSIONS
  <2>2. QED BY <2>1, QueryGoes DEF OpenTo
<1>9. /\ OpenTo({}, Hooks["holidays"].request, "OK")
  <2>1. /\ holidayRoutes[1].throws = FALSE /\ "anyone" \in holidayRoutes[1].who
    BY DEF holidayRoutes, Get, Change, Throwing, CrossUser, ADMIN_PERMISSIONS,
       MANAGER_PERMISSIONS
  <2>2. QED BY <2>1, QueryGoes DEF OpenTo
<1>10. /\ OpenTo(ADMIN_PERMISSIONS, Hooks["groupPolicy"].request, "OK")
      /\ OpenTo(ADMIN_PERMISSIONS, Hooks["companyPolicy"].request, "OK")
      /\ OpenTo(ADMIN_PERMISSIONS, Hooks["userPolicy"].request, "OK")
      /\ OpenTo({}, Hooks["effectivePolicy"].request, "OK")
  <2>1. /\ policyRoutes[1].throws = FALSE /\ "anyone" \in policyRoutes[1].who
        /\ policyRoutes[2].throws = FALSE /\ policyRoutes[2].who \cap ADMIN_PERMISSIONS # {}
        /\ policyRoutes[4].throws = FALSE /\ policyRoutes[4].who \cap ADMIN_PERMISSIONS # {}
        /\ policyRoutes[6].throws = FALSE /\ policyRoutes[6].who \cap ADMIN_PERMISSIONS # {}
    BY DEF policyRoutes, Get, Change, Throwing, CrossUser, ADMIN_PERMISSIONS,
       MANAGER_PERMISSIONS
  <2>2. QED BY <2>1, QueryGoes DEF OpenTo
<1>11. /\ OpenTo({}, Hooks["locks"].request, "OK")
  <2>1. /\ attendanceLockRoutes[1].throws = FALSE /\ "anyone" \in attendanceLockRoutes[1].who
    BY DEF attendanceLockRoutes, Get, Change, Throwing, CrossUser, ADMIN_PERMISSIONS,
       MANAGER_PERMISSIONS
  <2>2. QED BY <2>1, QueryGoes DEF OpenTo
<1>12. /\ OpenTo({}, Hooks["roles"].request, "OK")
  <2>1. /\ roleRoutes[1].throws = FALSE /\ "anyone" \in roleRoutes[1].who
    BY DEF roleRoutes, Get, Change, Throwing, CrossUser, ADMIN_PERMISSIONS, MANAGER_PERMISSIONS
  <2>2. QED BY <2>1, QueryGoes DEF OpenTo
<1>13. /\ OpenTo(MANAGER_PERMISSIONS, Hooks["documents"].request, "OK")
  <2>1. /\ documentRoutes[1].throws = FALSE
        /\ documentRoutes[1].who \cap MANAGER_PERMISSIONS # {}
    BY DEF documentRoutes, Get, Change, Throwing, CrossUser, ADMIN_PERMISSIONS,
       MANAGER_PERMISSIONS
  <2>2. QED BY <2>1, QueryGoes DEF OpenTo
<1>14. /\ OpenTo(ADMIN_PERMISSIONS, Hooks["salary"].request, "OK")
  <2>1. /\ salaryAdminRoutes[1].throws = FALSE
        /\ salaryAdminRoutes[1].who \cap ADMIN_PERMISSIONS # {}
    BY DEF salaryAdminRoutes, Get, Change, Throwing, CrossUser, ADMIN_PERMISSIONS,
       MANAGER_PERMISSIONS
  <2>2. QED BY <2>1, QueryGoes DEF OpenTo
<1>15. QED BY <1>1, <1>2, <1>3, <1>4, <1>5, <1>6, <1>7, <1>8, <1>9, <1>10, <1>11, <1>12, <1>13,
          <1>14 DEF OpenQueries, ManagerQueries, AdminQueries

\* Who may send each save.
LEMMA SaveRights ==
    /\ \A m \in OpenSaves : OpenTo({}, Mutations[m].request, "OK")
    /\ \A m \in ManagerSaves \ {"bankApprove"} : OpenTo(MANAGER_PERMISSIONS,
         Mutations[m].request, "OK")
    /\ OpenTo(MANAGER_PERMISSIONS, Mutations["bankApprove"].request, "FAILED")
    /\ \A m \in AdminSaves : OpenTo(ADMIN_PERMISSIONS, Mutations[m].request, "OK")
<1>1. /\ OpenTo(ADMIN_PERMISSIONS, Mutations["updateEmployee"].request, "OK")
  <2>1. /\ employeeRoutes[4].throws = FALSE /\ employeeRoutes[4].who \cap ADMIN_PERMISSIONS # {}
    BY DEF employeeRoutes, Get, Change, Throwing, CrossUser, ADMIN_PERMISSIONS,
       MANAGER_PERMISSIONS
  <2>2. QED BY <2>1, SaveGoes DEF OpenTo
<1>2. /\ OpenTo({}, Mutations["clock"].request, "OK")
      /\ OpenTo({}, Mutations["editEvent"].request, "OK")
  <2>1. /\ attendanceRoutes[3].throws = FALSE /\ "anyone" \in attendanceRoutes[3].who
        /\ attendanceRoutes[5].throws = FALSE /\ "anyone" \in attendanceRoutes[5].who
    BY DEF attendanceRoutes, Get, Change, Throwing, CrossUser, ADMIN_PERMISSIONS,
       MANAGER_PERMISSIONS
  <2>2. QED BY <2>1, SaveGoes DEF OpenTo
<1>3. /\ OpenTo({}, Mutations["createLeave"].request, "OK")
      /\ OpenTo(MANAGER_PERMISSIONS, Mutations["approveLeave"].request, "OK")
      /\ OpenTo(MANAGER_PERMISSIONS, Mutations["rejectLeave"].request, "OK")
  <2>1. /\ leaveRoutes[1].throws = FALSE /\ "anyone" \in leaveRoutes[1].who
        /\ leaveRoutes[3].throws = FALSE /\ leaveRoutes[3].who \cap MANAGER_PERMISSIONS # {}
    BY DEF leaveRoutes, Get, Change, Throwing, CrossUser, ADMIN_PERMISSIONS, MANAGER_PERMISSIONS
  <2>2. QED BY <2>1, SaveGoes DEF OpenTo
<1>4. /\ OpenTo(MANAGER_PERMISSIONS, Mutations["resolveFlag"].request, "OK")
  <2>1. /\ flagRoutes[2].throws = FALSE /\ flagRoutes[2].who \cap MANAGER_PERMISSIONS # {}
    BY DEF flagRoutes, Get, Change, Throwing, CrossUser, ADMIN_PERMISSIONS, MANAGER_PERMISSIONS
  <2>2. QED BY <2>1, SaveGoes DEF OpenTo
<1>5. /\ OpenTo(MANAGER_PERMISSIONS, Mutations["bankApprove"].request, "FAILED")
  <2>1. /\ bankRoutes[2].throws = TRUE /\ bankRoutes[2].who \cap MANAGER_PERMISSIONS # {}
    BY DEF bankRoutes, Get, Change, Throwing, CrossUser, ADMIN_PERMISSIONS, MANAGER_PERMISSIONS
  <2>2. QED BY <2>1, SaveGoes DEF OpenTo
<1>6. /\ OpenTo({}, Mutations["submitReport"].request, "OK")
  <2>1. /\ reportRoutes[2].throws = FALSE /\ "anyone" \in reportRoutes[2].who
    BY DEF reportRoutes, Get, Change, Throwing, CrossUser, ADMIN_PERMISSIONS,
       MANAGER_PERMISSIONS
  <2>2. QED BY <2>1, SaveGoes DEF OpenTo
<1>7. /\ OpenTo(ADMIN_PERMISSIONS, Mutations["onboard"].request, "OK")
      /\ OpenTo(ADMIN_PERMISSIONS, Mutations["offboard"].request, "OK")
  <2>1. /\ adminRoutes[1].throws = FALSE /\ adminRoutes[1].who \cap ADMIN_PERMISSIONS # {}
        /\ adminRoutes[2].throws = FALSE /\ adminRoutes[2].who \cap ADMIN_PERMISSIONS # {}
    BY DEF adminRoutes, Get, Change, Throwing, CrossUser, ADMIN_PERMISSIONS, MANAGER_PERMISSIONS
  <2>2. QED BY <2>1, SaveGoes DEF OpenTo
<1>8. /\ OpenTo(ADMIN_PERMISSIONS, Mutations["createHoliday"].request, "OK")
      /\ OpenTo(ADMIN_PERMISSIONS, Mutations["deleteHoliday"].request, "OK")
  <2>1. /\ holidayRoutes[2].throws = FALSE /\ holidayRoutes[2].who \cap ADMIN_PERMISSIONS # {}
        /\ holidayRoutes[3].throws = FALSE /\ holidayRoutes[3].who \cap ADMIN_PERMISSIONS # {}
    BY DEF holidayRoutes, Get, Change, Throwing, CrossUser, ADMIN_PERMISSIONS,
       MANAGER_PERMISSIONS
  <2>2. QED BY <2>1, SaveGoes DEF OpenTo
<1>9. /\ OpenTo(ADMIN_PERMISSIONS, Mutations["groupPolicySave"].request, "OK")
      /\ OpenTo(ADMIN_PERMISSIONS, Mutations["companyPolicySave"].request, "OK")
      /\ OpenTo(ADMIN_PERMISSIONS, Mutations["userPolicySave"].request, "OK")
  <2>1. /\ policyRoutes[3].throws = FALSE /\ policyRoutes[3].who \cap ADMIN_PERMISSIONS # {}
        /\ policyRoutes[5].throws = FALSE /\ policyRoutes[5].who \cap ADMIN_PERMISSIONS # {}
        /\ policyRoutes[7].throws = FALSE /\ policyRoutes[7].who \cap ADMIN_PERMISSIONS # {}
    BY DEF policyRoutes, Get, Change, Throwing, CrossUser, ADMIN_PERMISSIONS,
       MANAGER_PERMISSIONS
  <2>2. QED BY <2>1, SaveGoes DEF OpenTo
<1>10. /\ OpenTo(ADMIN_PERMISSIONS, Mutations["createLock"].request, "OK")
      /\ OpenTo(ADMIN_PERMISSIONS, Mutations["deleteLock"].request, "OK")
  <2>1. /\ attendanceLockRoutes[2].throws = FALSE
        /\ attendanceLockRoutes[2].who \cap ADMIN_PERMISSIONS # {}
        /\ attendanceLockRoutes[3].throws = FALSE
        /\ attendanceLockRoutes[3].who \cap ADMIN_PERMISSIONS # {}
    BY DEF attendanceLockRoutes, Get, Change, Throwing, CrossUser, ADMIN_PERMISSIONS,
       MANAGER_PERMISSIONS
  <2>2. QED BY <2>1, SaveGoes DEF OpenTo
<1>11. /\ OpenTo(ADMIN_PERMISSIONS, Mutations["updateRole"].request, "OK")
  <2>1. /\ roleRoutes[3].throws = FALSE /\ roleRoutes[3].who \cap ADMIN_PERMISSIONS # {}
    BY DEF roleRoutes, Get, Change, Throwing, CrossUser, ADMIN_PERMISSIONS, MANAGER_PERMISSIONS
  <2>2. QED BY <2>1, SaveGoes DEF OpenTo
<1>12. /\ OpenTo({}, Mutations["uploadDocument"].request, "OK")
      /\ OpenTo(ADMIN_PERMISSIONS, Mutations["verifyDocument"].request, "OK")
  <2>1. /\ documentRoutes[2].throws = FALSE /\ "self" \in documentRoutes[2].who
        /\ documentRoutes[3].throws = FALSE /\ documentRoutes[3].who \cap ADMIN_PERMISSIONS # {}
    BY DEF documentRoutes, Get, Change, Throwing, CrossUser, ADMIN_PERMISSIONS,
       MANAGER_PERMISSIONS
  <2>2. /\ Mutations["uploadDocument"].request.self
    BY SaveRequests DEF Ask
  <2>3. QED BY <2>1, <2>2, SaveGoes DEF OpenTo
<1>13. /\ OpenTo(ADMIN_PERMISSIONS, Mutations["addSalary"].request, "OK")
  <2>1. /\ salaryAdminRoutes[2].throws = FALSE
        /\ salaryAdminRoutes[2].who \cap ADMIN_PERMISSIONS # {}
    BY DEF salaryAdminRoutes, Get, Change, Throwing, CrossUser, ADMIN_PERMISSIONS,
       MANAGER_PERMISSIONS
  <2>2. QED BY <2>1, SaveGoes DEF OpenTo
<1>14. QED BY <1>1, <1>2, <1>3, <1>4, <1>5, <1>6, <1>7, <1>8, <1>9, <1>10, <1>11, <1>12,
          <1>13 DEF OpenSaves, ManagerSaves, AdminSaves

-----------------------------------------------------------------------------
(* What the pages load and send.                                           *)

\* A page loads nothing but these queries and sends nothing but these saves.
Has(page, loads, sends) ==
    page.loads \subseteq loads /\ \A c \in page.controls : c.save \in sends

\* The saves of the controls.
LEMMA ControlSaves ==
    /\ \A save, from, ready, once : Control(save, from, ready, once).save = save
    /\ \A save : Form(save).save = save
    /\ \A save, query : Button(save, query).save = save /\ FormAfter(save, query).save = save
    /\ \A save, query : Repeatable(Button(save, query)).save = save
    /\ \A save, query : Repeatable(FormAfter(save, query)).save = save
  BY DEF Control, Form, FormAfter, Button, Repeatable

\* What the pages load and send.
LEMMA PageTable ==
    ASSUME NEW may
    PROVE
      /\ Has(DashboardPage(may), 
            {"me", "state", "summary", "todayEvents", "balance", "holidays"}
              \cup If(Manager(may), {"members", "teamStates", "pending", "flags", "bank"})
              \cup If(Admin(may), {"employees"}), {"clock"})
      /\ Has(AttendancePage(may), {"state", "summary", "todayEvents", "dayEvents", "locks"},
           {"clock", "editEvent"})
      /\ Has(LeavePage(may), {"requests", "balance"} \cup If(Manager(may), {"pending"}),
           {"createLeave"} \cup If(Manager(may), {"approveLeave"}))
      /\ Has(LeaveCalendarTab(may), {"requests", "balance"} \cup If(Manager(may), {"pending"}),
           {})
      /\ Has(ReportsPage(may), {"reports"}, {"submitReport"})
      /\ Has(PayrollPage(may), {"breakdown"}, {})
      /\ Has(SettingsPage(may), {"me"}, {})
      /\ Has(FlagsPanel(may), {"flags"}, If(Manager(may), {"resolveFlag"}))
      /\ Has(BankPanel(may), {"bank"}, {})
      /\ Has(TeamOverview(may), {"pending", "flags", "bank", "members", "teamStates"}, {})
      /\ Has(ApprovalQueue(may), {"pending", "flags", "bank"}, {"approveLeave", "rejectLeave",
           "bankApprove", "resolveFlag"})
      /\ Has(TeamCalendar(may), {"pending", "flags", "bank", "requests"}, {})
      /\ Has(TeamReports(may), {"pending", "flags", "bank", "members", "teamReports",
           "teamStates", "memberEvents"}, {})
      /\ Has(AdminPage(may), {}, {})
      /\ Has(OnboardingTab(may), {"employees"}, {"onboard"})
      /\ Has(OffboardingTab(may), {"employees"}, {"offboard"})
      /\ Has(EmployeesTab(may), {"employees"}, {"updateEmployee"})
      /\ Has(SalaryTab(may), {"employees", "salary"}, {"addSalary"})
      /\ Has(PayrollReportTab(may), {"payrollReport"}, {})
      /\ Has(PolicyTab(may), {"groupPolicy"}, {"groupPolicySave"})
      /\ Has(RolesTab(may), {"roles"}, {"updateRole"})
      /\ Has(HolidayTab(may), {"holidays"}, {"createHoliday", "deleteHoliday"})
      /\ Has(AttendanceLockTab(may), {"locks", "employees"}, {"createLock", "deleteLock"})
      /\ Has(DocumentsPanel(may), {"documents"}, {"uploadDocument", "verifyDocument"})
      /\ Has(AuditPanel(may), {"audit"}, {})
<1>1. Has(DashboardPage(may), 
            {"me", "state", "summary", "todayEvents", "balance", "holidays"}
              \cup If(Manager(may), {"members", "teamStates", "pending", "flags", "bank"})
              \cup If(Admin(may), {"employees"}), {"clock"})
  BY ControlSaves DEF DashboardPage, Page, Has, If, ManagerSection, AdminSection, pendingCounts
<1>2. Has(AttendancePage(may), {"state", "summary", "todayEvents", "dayEvents", "locks"},
         {"clock", "editEvent"})
  BY ControlSaves DEF AttendancePage, Page, Has
<1>3. Has(LeavePage(may), {"requests", "balance"} \cup If(Manager(may), {"pending"}),
         {"createLeave"} \cup If(Manager(may), {"approveLeave"}))
  BY ControlSaves DEF LeavePage, Page, Has, If, LeaveQueries
<1>4. Has(LeaveCalendarTab(may), {"requests", "balance"} \cup If(Manager(may), {"pending"}), {})
  BY ControlSaves DEF LeaveCalendarTab, Page, Has, If, LeaveQueries
<1>5. Has(ReportsPage(may), {"reports"}, {"submitReport"})
  BY ControlSaves DEF ReportsPage, Page, Has
<1>6. Has(PayrollPage(may), {"breakdown"}, {})
  BY ControlSaves DEF PayrollPage, Page, Has
<1>7. Has(SettingsPage(may), {"me"}, {})
  BY ControlSaves DEF SettingsPage, Page, Has
<1>8. Has(FlagsPanel(may), {"flags"}, If(Manager(may), {"resolveFlag"}))
  BY ControlSaves DEF FlagsPanel, Page, Has, If
<1>9. Has(BankPanel(may), {"bank"}, {})
  BY ControlSaves DEF BankPanel, Page, Has
<1>10. Has(TeamOverview(may), {"pending", "flags", "bank", "members", "teamStates"}, {})
  BY ControlSaves DEF TeamOverview, Page, Has, pendingCounts
<1>11. Has(ApprovalQueue(may), {"pending", "flags", "bank"}, {"approveLeave", "rejectLeave",
          "bankApprove", "resolveFlag"})
  BY ControlSaves DEF ApprovalQueue, Page, Has, pendingCounts
<1>12. Has(TeamCalendar(may), {"pending", "flags", "bank", "requests"}, {})
  BY ControlSaves DEF TeamCalendar, Page, Has, pendingCounts
<1>13. Has(TeamReports(may), {"pending", "flags", "bank", "members", "teamReports",
          "teamStates", "memberEvents"}, {})
  BY ControlSaves DEF TeamReports, Page, Has, pendingCounts, MemberReportRow
<1>14. Has(AdminPage(may), {}, {})
  BY ControlSaves DEF AdminPage, Page, Has
<1>15. Has(OnboardingTab(may), {"employees"}, {"onboard"})
  BY ControlSaves DEF OnboardingTab, Page, Has
<1>16. Has(OffboardingTab(may), {"employees"}, {"offboard"})
  BY ControlSaves DEF OffboardingTab, Page, Has
<1>17. Has(EmployeesTab(may), {"employees"}, {"updateEmployee"})
  BY ControlSaves DEF EmployeesTab, Page, Has
<1>18. Has(SalaryTab(may), {"employees", "salary"}, {"addSalary"})
  BY ControlSaves DEF SalaryTab, Page, Has
<1>19. Has(PayrollReportTab(may), {"payrollReport"}, {})
  BY ControlSaves DEF PayrollReportTab, Page, Has
<1>20. Has(PolicyTab(may), {"groupPolicy"}, {"groupPolicySave"})
  BY ControlSaves DEF PolicyTab, Page, Has
<1>21. Has(RolesTab(may), {"roles"}, {"updateRole"})
  BY ControlSaves DEF RolesTab, Page, Has
<1>22. Has(HolidayTab(may), {"holidays"}, {"createHoliday", "deleteHoliday"})
  BY ControlSaves DEF HolidayTab, Page, Has
<1>23. Has(AttendanceLockTab(may), {"locks", "employees"}, {"createLock", "deleteLock"})
  BY ControlSaves DEF AttendanceLockTab, Page, Has
<1>24. Has(DocumentsPanel(may), {"documents"}, {"uploadDocument", "verifyDocument"})
  BY ControlSaves DEF DocumentsPanel, Page, Has, If
<1>25. Has(AuditPanel(may), {"audit"}, {})
  BY ControlSaves DEF AuditPanel, Page, Has
<1>26. QED BY <1>1, <1>2, <1>3, <1>4, <1>5, <1>6, <1>7, <1>8, <1>9, <1>10, <1>11, <1>12, <1>13,
          <1>14, <1>15, <1>16, <1>17, <1>18, <1>19, <1>20, <1>21, <1>22, <1>23, <1>24, <1>25

\* The page of each name.
LEMMA ShownIs ==
    ASSUME NEW role \in Roles
    PROVE
      /\ Shown[role]["dashboard"] = DashboardPage(May(role))
      /\ Shown[role]["attendance"] = AttendancePage(May(role))
      /\ Shown[role]["leave"] = LeavePage(May(role))
      /\ Shown[role]["leaveCalendar"] = LeaveCalendarTab(May(role))
      /\ Shown[role]["reports"] = ReportsPage(May(role))
      /\ Shown[role]["payroll"] = PayrollPage(May(role))
      /\ Shown[role]["settings"] = SettingsPage(May(role))
      /\ Shown[role]["flagsPanel"] = FlagsPanel(May(role))
      /\ Shown[role]["bankPanel"] = BankPanel(May(role))
      /\ Shown[role]["team"] = TeamOverview(May(role))
      /\ Shown[role]["approvals"] = ApprovalQueue(May(role))
      /\ Shown[role]["teamCalendar"] = TeamCalendar(May(role))
      /\ Shown[role]["teamReports"] = TeamReports(May(role))
      /\ Shown[role]["admin"] = AdminPage(May(role))
      /\ Shown[role]["onboarding"] = OnboardingTab(May(role))
      /\ Shown[role]["offboarding"] = OffboardingTab(May(role))
      /\ Shown[role]["employees"] = EmployeesTab(May(role))
      /\ Shown[role]["salary"] = SalaryTab(May(role))
      /\ Shown[role]["payrollReport"] = PayrollReportTab(May(role))
      /\ Shown[role]["policies"] = PolicyTab(May(role))
      /\ Shown[role]["roles"] = RolesTab(May(role))
      /\ Shown[role]["holidays"] = HolidayTab(May(role))
      /\ Shown[role]["locks"] = AttendanceLockTab(May(role))
      /\ Shown[role]["documentsPanel"] = DocumentsPanel(May(role))
      /\ Shown[role]["auditPanel"] = AuditPanel(May(role))
  BY DEF Shown, PagesOf

\* Every control of every page sends one of the saves, and every page loads queries.
LEMMA ControlsSend ==
    ASSUME NEW role \in Roles, NEW page \in AllPages
    PROVE  Has(Shown[role][page], Queries, DOMAIN Mutations)
<1> DEFINE may == May(role)
           Fine(view) == Has(view, Queries, DOMAIN Mutations)
<1> HIDE DEF may
<1>1. /\ Fine(DashboardPage(may)) /\ Fine(AttendancePage(may)) /\ Fine(LeavePage(may))
      /\ Fine(LeaveCalendarTab(may)) /\ Fine(ReportsPage(may)) /\ Fine(PayrollPage(may))
      /\ Fine(SettingsPage(may)) /\ Fine(FlagsPanel(may)) /\ Fine(BankPanel(may))
  BY PageTable, QueriesAre, MutationsAre DEF Has, If
<1>2. /\ Fine(TeamOverview(may)) /\ Fine(ApprovalQueue(may)) /\ Fine(TeamCalendar(may))
      /\ Fine(TeamReports(may))
  BY PageTable, QueriesAre, MutationsAre DEF Has
<1>3. /\ Fine(AdminPage(may)) /\ Fine(OnboardingTab(may)) /\ Fine(OffboardingTab(may))
      /\ Fine(EmployeesTab(may)) /\ Fine(SalaryTab(may)) /\ Fine(PayrollReportTab(may))
      /\ Fine(PolicyTab(may)) /\ Fine(RolesTab(may)) /\ Fine(HolidayTab(may))
      /\ Fine(AttendanceLockTab(may)) /\ Fine(DocumentsPanel(may)) /\ Fine(AuditPanel(may))
  BY PageTable, QueriesAre, MutationsAre DEF Has
<1> HIDE DEF Fine
<1>4. Fine(Shown[role][page])
  <2>1. CASE page \in AnyUser
    BY <1>1, <2>1, ShownIs DEF AnyUser, may
  <2>2. CASE page \in TeamPages
    BY <1>2, <2>2, ShownIs DEF TeamPages, may
  <2>3. CASE page \in AdminPages
    BY <1>3, <2>3, ShownIs DEF AdminPages, may
  <2>4. QED BY <2>1, <2>2, <2>3 DEF AllPages
<1>5. QED BY <1>4 DEF Fine

\* What a user with the permissions may may send.
QueriesFor(may) ==
    OpenQueries \cup If(Manager(may), ManagerQueries) \cup If(Admin(may), AdminQueries)
SavesFor(may) ==
    OpenSaves \cup If(Manager(may), ManagerSaves) \cup If(Admin(may), AdminSaves)

\* Who is a manager or an administrator may send what those may.
LEMMA ForWhom ==
    ASSUME NEW may
    PROVE  /\ OpenQueries \subseteq QueriesFor(may) /\ OpenSaves \subseteq SavesFor(may)
           /\ Manager(may)
                => ManagerQueries \subseteq QueriesFor(may) /\ ManagerSaves \subseteq SavesFor(may)
           /\ Admin(may)
                => AdminQueries \subseteq QueriesFor(may) /\ AdminSaves \subseteq SavesFor(may)
  BY DEF QueriesFor, SavesFor, If

\* A page that opens sends nothing else.
LEMMA PageRights ==
    ASSUME NEW role \in Roles, NEW page, Opens(role, page)
    PROVE  Has(Shown[role][page], QueriesFor(May(role)), SavesFor(May(role)))
<1> DEFINE may == May(role)
<1> HIDE DEF may
<1>1. Admin(may) => Manager(may)
  BY GuardsAreRoles DEF Admin, Manager, may
<1>2. CASE page \in AnyUser
  <2>1. /\ Has(DashboardPage(may), QueriesFor(may), SavesFor(may))
        /\ Has(AttendancePage(may), QueriesFor(may), SavesFor(may))
        /\ Has(LeavePage(may), QueriesFor(may), SavesFor(may))
        /\ Has(LeaveCalendarTab(may), QueriesFor(may), SavesFor(may))
    BY <1>1, PageTable, ForWhom
       DEF Has, If, OpenQueries, ManagerQueries, OpenSaves, ManagerSaves
  <2>2. /\ Has(ReportsPage(may), QueriesFor(may), SavesFor(may))
        /\ Has(PayrollPage(may), QueriesFor(may), SavesFor(may))
        /\ Has(SettingsPage(may), QueriesFor(may), SavesFor(may))
        /\ Has(FlagsPanel(may), QueriesFor(may), SavesFor(may))
        /\ Has(BankPanel(may), QueriesFor(may), SavesFor(may))
    BY PageTable, ForWhom DEF Has, If, OpenQueries, OpenSaves, ManagerSaves
  <2>3. QED BY <1>2, <2>1, <2>2, ShownIs DEF AnyUser, may
<1>3. CASE page \in TeamPages
  <2>1. Manager(may)
    BY <1>3 DEF Opens, RoleGuard, Manager, may
  <2>2. /\ Has(TeamOverview(may), QueriesFor(may), SavesFor(may))
        /\ Has(ApprovalQueue(may), QueriesFor(may), SavesFor(may))
        /\ Has(TeamCalendar(may), QueriesFor(may), SavesFor(may))
        /\ Has(TeamReports(may), QueriesFor(may), SavesFor(may))
    BY <2>1, PageTable, ForWhom DEF Has, OpenQueries, ManagerQueries, ManagerSaves
  <2>3. QED BY <1>3, <2>2, ShownIs DEF TeamPages, may
<1>4. CASE page \in AdminPages
  <2>1. Admin(may) /\ Manager(may)
    BY <1>1, <1>4 DEF Opens, RoleGuard, Admin, may
  <2>2. /\ Has(AdminPage(may), QueriesFor(may), SavesFor(may))
        /\ Has(OnboardingTab(may), QueriesFor(may), SavesFor(may))
        /\ Has(OffboardingTab(may), QueriesFor(may), SavesFor(may))
        /\ Has(EmployeesTab(may), QueriesFor(may), SavesFor(may))
        /\ Has(SalaryTab(may), QueriesFor(may), SavesFor(may))
        /\ Has(PayrollReportTab(may), QueriesFor(may), SavesFor(may))
    BY <2>1, PageTable, ForWhom DEF Has, ManagerQueries, AdminQueries, AdminSaves
  <2>3. /\ Has(PolicyTab(may), QueriesFor(may), SavesFor(may))
        /\ Has(RolesTab(may), QueriesFor(may), SavesFor(may))
        /\ Has(HolidayTab(may), QueriesFor(may), SavesFor(may))
        /\ Has(AttendanceLockTab(may), QueriesFor(may), SavesFor(may))
        /\ Has(DocumentsPanel(may), QueriesFor(may), SavesFor(may))
        /\ Has(AuditPanel(may), QueriesFor(may), SavesFor(may))
    BY <2>1, PageTable, ForWhom
       DEF Has, OpenQueries, ManagerQueries, AdminQueries, OpenSaves, AdminSaves
  <2>4. QED BY <1>4, <2>2, <2>3, ShownIs DEF AdminPages, may
<1>5. QED BY <1>2, <1>3, <1>4 DEF Opens, AllPages

\* What a user may send is answered.
LEMMA ForWhomAnswered ==
    ASSUME NEW role \in Roles
    PROVE  /\ \A q \in QueriesFor(May(role)) : q \in Queries /\ QueryAnswer[role][q] = "OK"
           /\ \A m \in SavesFor(May(role)) :
                m \in DOMAIN Mutations /\ SaveAnswer[role][m] \in {"OK", "FAILED"}
<1>1. /\ {} \in SUBSET Permissions /\ MANAGER_PERMISSIONS \in SUBSET Permissions
      /\ ADMIN_PERMISSIONS \in SUBSET Permissions
  BY DEF Permissions, ADMIN_PERMISSIONS
<1>2. /\ Manager(May(role)) => \A p \in MANAGER_PERMISSIONS : hasPermission(role, p)
      /\ Admin(May(role)) => \A p \in ADMIN_PERMISSIONS : hasPermission(role, p)
  BY GuardsAreRoles DEF Manager, Admin
<1>3. ASSUME NEW q \in QueriesFor(May(role)) PROVE q \in Queries /\ QueryAnswer[role][q] = "OK"
  <2>1. q \in Queries
    BY <1>3, QueriesAre DEF QueriesFor, If, OpenQueries, ManagerQueries, AdminQueries
  <2>2. Answer(role, Hooks[q].request) = "OK"
    BY <1>1, <1>2, <1>3, QueryRights, Answered DEF QueriesFor, If
  <2>3. QED BY <2>1, <2>2 DEF QueryAnswer
<1>4. ASSUME NEW m \in SavesFor(May(role))
      PROVE  m \in DOMAIN Mutations /\ SaveAnswer[role][m] \in {"OK", "FAILED"}
  <2>1. m \in DOMAIN Mutations
    BY <1>4, MutationsAre DEF SavesFor, If, OpenSaves, ManagerSaves, AdminSaves
  <2>2. Answer(role, Mutations[m].request) \in {"OK", "FAILED"}
    <3>1. CASE m \in OpenSaves
      BY <1>1, <3>1, SaveRights, Answered
    <3>2. CASE Manager(May(role)) /\ m \in ManagerSaves
      BY <1>1, <1>2, <3>2, SaveRights, Answered
    <3>3. CASE Admin(May(role)) /\ m \in AdminSaves
      BY <1>1, <1>2, <3>3, SaveRights, Answered
    <3>4. QED BY <1>4, <3>1, <3>2, <3>3 DEF SavesFor, If
  <2>3. QED BY <2>1, <2>2 DEF SaveAnswer
<1>5. QED BY <1>3, <1>4

\* No page sends, for a role that can open it, a query or a save the handlers
\* refuse that role (RoleGuard, useRole, the pages, the handlers).
THEOREM AllAdmitted == PagesAdmitted
  BY PageRights, ForWhomAnswered DEF Has, PagesAdmitted

-----------------------------------------------------------------------------
(* What the saves change, what they refresh, and what the pages show.      *)

\* The kinds of items each query shows.
LEMMA ShowsAre ==
    /\ Shows["me"] = {"employees"}
    /\ Shows["employees"] = {"employees"}
    /\ Shows["members"] = {"employees"}
    /\ Shows["state"] = {"states"}
    /\ Shows["todayEvents"] = {"events"}
    /\ Shows["dayEvents"] = {"events"}
    /\ Shows["memberEvents"] = {"events"}
    /\ Shows["summary"] = {"events", "policies", "employees"}
    /\ Shows["teamStates"] = {"states"}
    /\ Shows["locks"] = {"locks"}
    /\ Shows["requests"] = {"leave"}
    /\ Shows["pending"] = {"leave"}
    /\ Shows["balance"] = {"leave"}
    /\ Shows["breakdown"] = {"salary", "policies", "employees"}
    /\ Shows["payrollReport"] = {"employees", "events", "salary", "leave", "policies"}
    /\ Shows["salary"] = {"salary"}
    /\ Shows["flags"] = {"flags"}
    /\ Shows["bank"] = {"bank"}
    /\ Shows["reports"] = {"reports"}
    /\ Shows["teamReports"] = {"reports"}
    /\ Shows["holidays"] = {"holidays"}
    /\ Shows["audit"] = {"audit"}
    /\ Shows["groupPolicy"] = {"policies"}
    /\ Shows["companyPolicy"] = {"policies"}
    /\ Shows["userPolicy"] = {"policies"}
    /\ Shows["effectivePolicy"] = {"policies", "employees"}
    /\ Shows["roles"] = {"roles"}
    /\ Shows["documents"] = {}
<1>1. \A q \in Queries : \A route : Goes(Hooks[q].request, route) => Shows[q] = route.reads
  BY GoesTo, RouterServes DEF Serves, Shows
<1>2. /\ Shows["me"] = {"employees"}
      /\ Shows["employees"] = {"employees"}
      /\ Shows["members"] = {"employees"}
  <2>1. employeeRoutes[1].reads = {"employees"} /\ employeeRoutes[3].reads = {"employees"}
    BY DEF Get, Change, Throwing, employeeRoutes
  <2>2. QED BY <1>1, <2>1, QueryGoes, QueriesAre
<1>3. /\ Shows["state"] = {"states"}
      /\ Shows["todayEvents"] = {"events"}
      /\ Shows["dayEvents"] = {"events"}
      /\ Shows["memberEvents"] = {"events"}
      /\ Shows["summary"] = {"events", "policies", "employees"}
      /\ Shows["teamStates"] = {"states"}
  <2>1. /\ attendanceRoutes[1].reads = {"states"}
        /\ attendanceRoutes[2].reads = {"events"}
        /\ attendanceRoutes[4].reads = {"events", "policies", "employees"}
        /\ attendanceRoutes[6].reads = {"states"}
    BY DEF Get, Change, Throwing, attendanceRoutes
  <2>2. QED BY <1>1, <2>1, QueryGoes, QueriesAre
<1>4. /\ Shows["requests"] = {"leave"}
      /\ Shows["pending"] = {"leave"}
      /\ Shows["balance"] = {"leave"}
  <2>1. leaveRoutes[2].reads = {"leave"} /\ leaveRoutes[4].reads = {"leave"}
    BY DEF Get, Change, Throwing, leaveRoutes
  <2>2. QED BY <1>1, <2>1, QueryGoes, QueriesAre
<1>5. /\ Shows["breakdown"] = {"salary", "policies", "employees"}
      /\ Shows["payrollReport"] = {"employees", "events", "salary", "leave", "policies"}
  <2>1. payrollRoutes[1].reads = {"employees", "events", "salary", "leave",
           "policies"} /\ payrollRoutes[2].reads = {"salary", "policies", "employees"}
    BY DEF Get, Change, Throwing, payrollRoutes
  <2>2. QED BY <1>1, <2>1, QueryGoes, QueriesAre
<1>6. /\ Shows["flags"] = {"flags"}
  <2>1. flagRoutes[1].reads = {"flags"}
    BY DEF Get, Change, Throwing, flagRoutes
  <2>2. QED BY <1>1, <2>1, QueryGoes, QueriesAre
<1>7. /\ Shows["bank"] = {"bank"}
  <2>1. bankRoutes[1].reads = {"bank"}
    BY DEF Get, Change, Throwing, bankRoutes
  <2>2. QED BY <1>1, <2>1, QueryGoes, QueriesAre
<1>8. /\ Shows["reports"] = {"reports"}
      /\ Shows["teamReports"] = {"reports"}
  <2>1. reportRoutes[1].reads = {"reports"}
    BY DEF Get, Change, Throwing, reportRoutes
  <2>2. QED BY <1>1, <2>1, QueryGoes, QueriesAre
<1>9. /\ Shows["audit"] = {"audit"}
  <2>1. adminRoutes[3].reads = {"audit"}
    BY DEF Get, Change, Throwing, adminRoutes
  <2>2. QED BY <1>1, <2>1, QueryGoes, QueriesAre
<1>10. /\ Shows["holidays"] = {"holidays"}
  <2>1. holidayRoutes[1].reads = {"holidays"}
    BY DEF Get, Change, Throwing, holidayRoutes
  <2>2. QED BY <1>1, <2>1, QueryGoes, QueriesAre
<1>11. /\ Shows["groupPolicy"] = {"policies"}
      /\ Shows["companyPolicy"] = {"policies"}
      /\ Shows["userPolicy"] = {"policies"}
      /\ Shows["effectivePolicy"] = {"policies", "employees"}
  <2>1. /\ policyRoutes[1].reads = {"policies", "employees"}
        /\ policyRoutes[2].reads = {"policies"}
        /\ policyRoutes[4].reads = {"policies"}
        /\ policyRoutes[6].reads = {"policies"}
    BY DEF Get, Change, Throwing, policyRoutes
  <2>2. QED BY <1>1, <2>1, QueryGoes, QueriesAre
<1>12. /\ Shows["locks"] = {"locks"}
  <2>1. attendanceLockRoutes[1].reads = {"locks"}
    BY DEF Get, Change, Throwing, attendanceLockRoutes
  <2>2. QED BY <1>1, <2>1, QueryGoes, QueriesAre
<1>13. /\ Shows["roles"] = {"roles"}
  <2>1. roleRoutes[1].reads = {"roles"}
    BY DEF Get, Change, Throwing, roleRoutes
  <2>2. QED BY <1>1, <2>1, QueryGoes, QueriesAre
<1>14. /\ Shows["documents"] = {}
  <2>1. documentRoutes[1].reads = {}
    BY DEF Get, Change, Throwing, documentRoutes
  <2>2. QED BY <1>1, <2>1, QueryGoes, QueriesAre
<1>15. /\ Shows["salary"] = {"salary"}
  <2>1. salaryAdminRoutes[1].reads = {"salary"}
    BY DEF Get, Change, Throwing, salaryAdminRoutes
  <2>2. QED BY <1>1, <2>1, QueryGoes, QueriesAre
<1>16. QED BY <1>2, <1>3, <1>4, <1>5, <1>6, <1>7, <1>8, <1>9, <1>10, <1>11, <1>12, <1>13,
          <1>14, <1>15

\* The kinds of items each save changes.
LEMMA ChangesAre ==
    /\ Changes["updateEmployee"] = {"employees"}
    /\ Changes["clock"] = {"events", "states", "audit"}
    /\ Changes["editEvent"] = {"events", "audit"}
    /\ Changes["createLock"] = {"locks"}
    /\ Changes["deleteLock"] = {"locks"}
    /\ Changes["createLeave"] = {"leave", "audit"}
    /\ Changes["approveLeave"] = {"leave", "audit"}
    /\ Changes["rejectLeave"] = {"leave", "audit"}
    /\ Changes["addSalary"] = {"salary"}
    /\ Changes["resolveFlag"] = {}
    /\ Changes["bankApprove"] = {}
    /\ Changes["submitReport"] = {"reports"}
    /\ Changes["createHoliday"] = {"holidays"}
    /\ Changes["deleteHoliday"] = {"holidays"}
    /\ Changes["groupPolicySave"] = {"policies"}
    /\ Changes["companyPolicySave"] = {"policies"}
    /\ Changes["userPolicySave"] = {"policies"}
    /\ Changes["updateRole"] = {"roles"}
    /\ Changes["uploadDocument"] = {}
    /\ Changes["verifyDocument"] = {}
    /\ Changes["onboard"] = {"employees", "salary", "audit"}
    /\ Changes["offboard"] = {"employees", "audit"}
<1>1. \A m \in DOMAIN Mutations : \A route : Goes(Mutations[m].request,
         route) => Changes[m] = route.writes
  BY GoesTo, RouterServes DEF Serves, Changes
<1>2. /\ Changes["updateEmployee"] = {"employees"}
  <2>1. employeeRoutes[4].writes = {"employees"}
    BY DEF Get, Change, Throwing, employeeRoutes
  <2>2. QED BY <1>1, <2>1, SaveGoes, MutationsAre
<1>3. /\ Changes["clock"] = {"events", "states", "audit"}
      /\ Changes["editEvent"] = {"events", "audit"}
  <2>1. attendanceRoutes[3].writes = {"events", "states",
           "audit"} /\ attendanceRoutes[5].writes = {"events", "audit"}
    BY DEF Get, Change, Throwing, attendanceRoutes
  <2>2. QED BY <1>1, <2>1, SaveGoes, MutationsAre
<1>4. /\ Changes["createLeave"] = {"leave", "audit"}
      /\ Changes["approveLeave"] = {"leave", "audit"}
      /\ Changes["rejectLeave"] = {"leave", "audit"}
  <2>1. leaveRoutes[1].writes = {"leave", "audit"} /\ leaveRoutes[3].writes = {"leave", "audit"}
    BY DEF Get, Change, Throwing, leaveRoutes
  <2>2. QED BY <1>1, <2>1, SaveGoes, MutationsAre
<1>5. /\ Changes["resolveFlag"] = {}
  <2>1. flagRoutes[2].writes = {}
    BY DEF Get, Change, Throwing, flagRoutes
  <2>2. QED BY <1>1, <2>1, SaveGoes, MutationsAre
<1>6. /\ Changes["bankApprove"] = {}
  <2>1. bankRoutes[2].writes = {}
    BY DEF Get, Change, Throwing, bankRoutes
  <2>2. QED BY <1>1, <2>1, SaveGoes, MutationsAre
<1>7. /\ Changes["submitReport"] = {"reports"}
  <2>1. reportRoutes[2].writes = {"reports"}
    BY DEF Get, Change, Throwing, reportRoutes
  <2>2. QED BY <1>1, <2>1, SaveGoes, MutationsAre
<1>8. /\ Changes["onboard"] = {"employees", "salary", "audit"}
      /\ Changes["offboard"] = {"employees", "audit"}
  <2>1. adminRoutes[1].writes = {"employees", "salary",
           "audit"} /\ adminRoutes[2].writes = {"employees", "audit"}
    BY DEF Get, Change, Throwing, adminRoutes
  <2>2. QED BY <1>1, <2>1, SaveGoes, MutationsAre
<1>9. /\ Changes["createHoliday"] = {"holidays"}
      /\ Changes["deleteHoliday"] = {"holidays"}
  <2>1. holidayRoutes[2].writes = {"holidays"} /\ holidayRoutes[3].writes = {"holidays"}
    BY DEF Get, Change, Throwing, holidayRoutes
  <2>2. QED BY <1>1, <2>1, SaveGoes, MutationsAre
<1>10. /\ Changes["groupPolicySave"] = {"policies"}
      /\ Changes["companyPolicySave"] = {"policies"}
      /\ Changes["userPolicySave"] = {"policies"}
  <2>1. /\ policyRoutes[3].writes = {"policies"}
        /\ policyRoutes[5].writes = {"policies"}
        /\ policyRoutes[7].writes = {"policies"}
    BY DEF Get, Change, Throwing, policyRoutes
  <2>2. QED BY <1>1, <2>1, SaveGoes, MutationsAre
<1>11. /\ Changes["createLock"] = {"locks"}
      /\ Changes["deleteLock"] = {"locks"}
  <2>1. attendanceLockRoutes[2].writes = {"locks"} /\ attendanceLockRoutes[3].writes = {"locks"}
    BY DEF Get, Change, Throwing, attendanceLockRoutes
  <2>2. QED BY <1>1, <2>1, SaveGoes, MutationsAre
<1>12. /\ Changes["updateRole"] = {"roles"}
  <2>1. roleRoutes[3].writes = {"roles"}
    BY DEF Get, Change, Throwing, roleRoutes
  <2>2. QED BY <1>1, <2>1, SaveGoes, MutationsAre
<1>13. /\ Changes["uploadDocument"] = {}
      /\ Changes["verifyDocument"] = {}
  <2>1. documentRoutes[2].writes = {} /\ documentRoutes[3].writes = {}
    BY DEF Get, Change, Throwing, documentRoutes
  <2>2. QED BY <1>1, <2>1, SaveGoes, MutationsAre
<1>14. /\ Changes["addSalary"] = {"salary"}
  <2>1. salaryAdminRoutes[2].writes = {"salary"}
    BY DEF Get, Change, Throwing, salaryAdminRoutes
  <2>2. QED BY <1>1, <2>1, SaveGoes, MutationsAre
<1>15. QED BY <1>2, <1>3, <1>4, <1>5, <1>6, <1>7, <1>8, <1>9, <1>10, <1>11, <1>12, <1>13, <1>14

\* What the saves refresh, of what they change.
LEMMA InvalidatesThese ==
    /\ {"state", "summary", "todayEvents", "dayEvents"} \subseteq Mutations["clock"].invalidates
    /\ {"summary"} \subseteq Mutations["editEvent"].invalidates
    /\ {"requests", "pending"} \subseteq Mutations["createLeave"].invalidates
    /\ {"requests", "pending"} \subseteq Mutations["approveLeave"].invalidates
    /\ {"requests", "pending"} \subseteq Mutations["rejectLeave"].invalidates
    /\ {"reports"} \subseteq Mutations["submitReport"].invalidates
    /\ {"employees"} \subseteq Mutations["onboard"].invalidates
    /\ {"employees"} \subseteq Mutations["updateEmployee"].invalidates
    /\ {"salary"} \subseteq Mutations["addSalary"].invalidates
    /\ {"groupPolicy"} \subseteq Mutations["groupPolicySave"].invalidates
    /\ {"roles"} \subseteq Mutations["updateRole"].invalidates
    /\ {"holidays"} \subseteq Mutations["createHoliday"].invalidates
    /\ {"holidays"} \subseteq Mutations["deleteHoliday"].invalidates
    /\ {"locks"} \subseteq Mutations["createLock"].invalidates
    /\ {"locks"} \subseteq Mutations["deleteLock"].invalidates
<1>1. \A prefixes, q : q \in Queries /\ (\E p \in prefixes : IsPrefix(p,
         queryKeys[q])) => q \in Under(prefixes)
  BY DEF Under
<1>2. \A a, b, c : IsPrefix(<<a>>, <<a>>) /\ IsPrefix(<<a>>, <<a, b>>) /\ IsPrefix(<<a>>, <<a,
         b, c>>)
  BY DEF IsPrefix
<1>3. \A method, path, prefixes : Save(method, path, prefixes).invalidates = Under(prefixes)
  BY DEF Save
<1>4. {"state", "summary", "todayEvents",
         "dayEvents"} \subseteq Under({<<"/attendance/state">>, <<"/attendance/summary">>,
             <<"/attendance/events">>})
  BY <1>1, <1>2, QueriesAre DEF queryKeys
<1>5. {"state", "summary"} \subseteq Under({<<"/attendance/state">>, <<"/attendance/summary">>})
  BY <1>1, <1>2, QueriesAre DEF queryKeys
<1>6. {"requests", "pending"} \subseteq Under({<<"/leave-requests">>})
  BY <1>1, <1>2, QueriesAre DEF queryKeys
<1>7. /\ "reports" \in Under({<<"/reports">>}) /\ "employees" \in Under({<<"/employees">>})
      /\ "salary" \in Under({<<"/admin/salary">>}) /\ "roles" \in Under({<<"/roles">>})
      /\ "groupPolicy" \in Under({<<"/policies/:groupName">>})
      /\ "holidays" \in Under({<<"/holidays">>}) /\ "locks" \in Under({<<"/attendance/lock">>})
  BY <1>1, <1>2, QueriesAre DEF queryKeys
<1>8. /\ attendanceSaves["clock"].invalidates
           = Under({<<"/attendance/state">>, <<"/attendance/summary">>,
               <<"/attendance/events">>})
      /\ attendanceSaves["editEvent"].invalidates
           = Under({<<"/attendance/state">>, <<"/attendance/summary">>})
      /\ lockSaves["createLock"].invalidates = Under({<<"/attendance/lock">>})
      /\ lockSaves["deleteLock"].invalidates = Under({<<"/attendance/lock">>})
      /\ leaveSaves["createLeave"].invalidates = Under({<<"/leave-requests">>})
      /\ leaveSaves["approveLeave"].invalidates = Under({<<"/leave-requests">>})
      /\ leaveSaves["rejectLeave"].invalidates = Under({<<"/leave-requests">>})
  BY DEF attendanceSaves, useClockAction, useEditAttendanceEvent, lockSaves, leaveSaves, Save
<1>9. /\ reportSaves["submitReport"].invalidates = Under({<<"/reports">>})
      /\ adminSaves["onboard"].invalidates = Under({<<"/employees">>})
      /\ employeeSaves["updateEmployee"].invalidates = Under({<<"/employees">>})
      /\ salarySaves["addSalary"].invalidates = Under({<<"/admin/salary">>})
      /\ policySaves["groupPolicySave"].invalidates = Under({<<"/policies/:groupName">>})
      /\ roleSaves["updateRole"].invalidates = Under({<<"/roles">>})
      /\ holidaySaves["createHoliday"].invalidates = Under({<<"/holidays">>})
      /\ holidaySaves["deleteHoliday"].invalidates = Under({<<"/holidays">>})
  BY DEF reportSaves, adminSaves, employeeSaves, salarySaves, policySaves, roleSaves,
     holidaySaves, Save
<1>10. /\ \A m \in {"clock", "editEvent"} : Mutations[m] = attendanceSaves[m]
       /\ \A m \in {"createLock", "deleteLock"} : Mutations[m] = lockSaves[m]
       /\ \A m \in {"createLeave", "approveLeave", "rejectLeave"} : Mutations[m] = leaveSaves[m]
       /\ Mutations["submitReport"] = reportSaves["submitReport"]
       /\ Mutations["onboard"] = adminSaves["onboard"]
       /\ Mutations["updateEmployee"] = employeeSaves["updateEmployee"]
       /\ Mutations["addSalary"] = salarySaves["addSalary"]
       /\ Mutations["groupPolicySave"] = policySaves["groupPolicySave"]
       /\ Mutations["updateRole"] = roleSaves["updateRole"]
       /\ \A m \in {"createHoliday", "deleteHoliday"} : Mutations[m] = holidaySaves[m]
  BY MutationsAre
<1>11. QED BY <1>4, <1>5, <1>6, <1>7, <1>8, <1>9, <1>10

\* A save of a page refreshes a query of the page, or leaves alone what it shows, or the
\* pair is one the code leaves as it is.
Refreshed(loads, sends) == \A m \in sends, q \in loads :
    \/ Changes[m] \cap Shows[q] = {}
    \/ q \in Mutations[m].invalidates
    \/ <<m, q>> \in KnownGaps

\* The pages that send.
LEMMA SendersRefresh ==
    /\ Refreshed({"me", "state", "summary", "todayEvents", "balance", "holidays",
                  "members", "teamStates", "pending", "flags", "bank", "employees"}, {"clock"})
    /\ Refreshed({"state", "summary", "todayEvents", "dayEvents", "locks"}, {"clock",
         "editEvent"})
    /\ Refreshed({"requests", "balance", "pending"}, {"createLeave", "approveLeave"})
    /\ Refreshed({"reports"}, {"submitReport"})
    /\ Refreshed({"flags"}, {"resolveFlag"})
    /\ Refreshed({"pending", "flags", "bank"},
                 {"approveLeave", "rejectLeave", "bankApprove", "resolveFlag"})
    /\ Refreshed({"employees"}, {"onboard", "offboard", "updateEmployee"})
    /\ Refreshed({"employees", "salary"}, {"addSalary"})
    /\ Refreshed({"groupPolicy"}, {"groupPolicySave"})
    /\ Refreshed({"roles"}, {"updateRole"})
    /\ Refreshed({"holidays"}, {"createHoliday", "deleteHoliday"})
    /\ Refreshed({"locks", "employees"}, {"createLock", "deleteLock"})
    /\ Refreshed({"documents"}, {"uploadDocument", "verifyDocument"})
<1>1. Refreshed({"me", "state", "summary", "todayEvents", "balance", "holidays",
                  "members", "teamStates", "pending", "flags", "bank", "employees"}, {"clock"})
  BY ShowsAre, ChangesAre, InvalidatesThese DEF Refreshed, KnownGaps
<1>2. Refreshed({"state", "summary", "todayEvents", "dayEvents", "locks"}, {"clock",
         "editEvent"})
  BY ShowsAre, ChangesAre, InvalidatesThese DEF Refreshed, KnownGaps
<1>3. Refreshed({"requests", "balance", "pending"}, {"createLeave", "approveLeave"})
  BY ShowsAre, ChangesAre, InvalidatesThese DEF Refreshed, KnownGaps
<1>4. Refreshed({"reports"}, {"submitReport"}) /\ Refreshed({"flags"}, {"resolveFlag"})
  BY ShowsAre, ChangesAre, InvalidatesThese DEF Refreshed
<1>5. Refreshed({"pending", "flags", "bank"},
                {"approveLeave", "rejectLeave", "bankApprove", "resolveFlag"})
  BY ShowsAre, ChangesAre, InvalidatesThese DEF Refreshed
<1>6. Refreshed({"employees"}, {"onboard", "offboard", "updateEmployee"})
  BY ShowsAre, ChangesAre, InvalidatesThese DEF Refreshed, KnownGaps
<1>7. Refreshed({"employees", "salary"}, {"addSalary"})
  BY ShowsAre, ChangesAre, InvalidatesThese DEF Refreshed
<1>8. Refreshed({"groupPolicy"}, {"groupPolicySave"}) /\ Refreshed({"roles"}, {"updateRole"})
  BY ShowsAre, ChangesAre, InvalidatesThese DEF Refreshed
<1>9. Refreshed({"holidays"}, {"createHoliday", "deleteHoliday"})
  BY ShowsAre, ChangesAre, InvalidatesThese DEF Refreshed
<1>10. Refreshed({"locks", "employees"}, {"createLock", "deleteLock"})
  BY ShowsAre, ChangesAre, InvalidatesThese DEF Refreshed
<1>11. Refreshed({"documents"}, {"uploadDocument", "verifyDocument"})
  BY ShowsAre, ChangesAre, InvalidatesThese DEF Refreshed
<1>12. QED BY <1>1, <1>2, <1>3, <1>4, <1>5, <1>6, <1>7, <1>8, <1>9, <1>10, <1>11

\* No role has a gap beyond the known ones.
NoGaps == \A role \in Roles : Gaps[role] = {}

\* A page refreshes what it shows and changes.
Keeps(page) == \A q \in page.loads, c \in page.controls :
    \/ Changes[c.save] \cap Shows[q] = {}
    \/ q \in Mutations[c.save].invalidates
    \/ <<c.save, q>> \in KnownGaps

\* It does when the queries it loads and the saves it sends do.
LEMMA KeepsAs ==
    ASSUME NEW page, NEW loads, NEW sends, Has(page, loads, sends), Refreshed(loads, sends)
    PROVE  Keeps(page)
  BY DEF Has, Refreshed, Keeps

\* It does when it sends nothing.
LEMMA SilentKeep ==
    ASSUME NEW page, NEW loads, Has(page, loads, {})
    PROVE  Keeps(page)
  BY DEF Has, Keeps

\* The pages every user opens.
LEMMA UserPagesKeep ==
    ASSUME NEW may
    PROVE  /\ Keeps(DashboardPage(may)) /\ Keeps(AttendancePage(may)) /\ Keeps(LeavePage(may))
           /\ Keeps(LeaveCalendarTab(may)) /\ Keeps(ReportsPage(may))
           /\ Keeps(PayrollPage(may)) /\ Keeps(SettingsPage(may)) /\ Keeps(FlagsPanel(may))
           /\ Keeps(BankPanel(may))
<1>1. Keeps(DashboardPage(may))
  <2>1. Has(DashboardPage(may),
            {"me", "state", "summary", "todayEvents", "balance", "holidays",
             "members", "teamStates", "pending", "flags", "bank", "employees"}, {"clock"})
    BY PageTable DEF Has, If
  <2>2. QED BY <2>1, SendersRefresh, KeepsAs
<1>2. Keeps(AttendancePage(may))
  <2>1. Has(AttendancePage(may), {"state", "summary", "todayEvents", "dayEvents", "locks"},
            {"clock", "editEvent"})
    BY PageTable
  <2>2. QED BY <2>1, SendersRefresh, KeepsAs
<1>3. Keeps(LeavePage(may))
  <2>1. Has(LeavePage(may), {"requests", "balance", "pending"}, {"createLeave", "approveLeave"})
    BY PageTable DEF Has, If
  <2>2. QED BY <2>1, SendersRefresh, KeepsAs
<1>4. Keeps(ReportsPage(may))
  BY PageTable, SendersRefresh, KeepsAs
<1>5. Keeps(FlagsPanel(may))
  <2>1. Has(FlagsPanel(may), {"flags"}, {"resolveFlag"})
    BY PageTable DEF Has, If
  <2>2. QED BY <2>1, SendersRefresh, KeepsAs
<1>6. /\ Keeps(LeaveCalendarTab(may)) /\ Keeps(PayrollPage(may)) /\ Keeps(SettingsPage(may))
      /\ Keeps(BankPanel(may))
  <2>1. /\ \E loads : Has(LeaveCalendarTab(may), loads, {})
        /\ \E loads : Has(PayrollPage(may), loads, {})
        /\ \E loads : Has(SettingsPage(may), loads, {})
        /\ \E loads : Has(BankPanel(may), loads, {})
    BY PageTable
  <2>2. QED BY <2>1, SilentKeep
<1>7. QED BY <1>1, <1>2, <1>3, <1>4, <1>5, <1>6

\* The pages of managers.
LEMMA TeamPagesKeep ==
    ASSUME NEW may
    PROVE  /\ Keeps(TeamOverview(may)) /\ Keeps(ApprovalQueue(may))
           /\ Keeps(TeamCalendar(may)) /\ Keeps(TeamReports(may))
<1>1. Keeps(ApprovalQueue(may))
  <2>1. Has(ApprovalQueue(may), {"pending", "flags", "bank"},
            {"approveLeave", "rejectLeave", "bankApprove", "resolveFlag"})
    BY PageTable
  <2>2. QED BY <2>1, SendersRefresh, KeepsAs
<1>2. /\ \E loads : Has(TeamOverview(may), loads, {})
      /\ \E loads : Has(TeamCalendar(may), loads, {})
      /\ \E loads : Has(TeamReports(may), loads, {})
  BY PageTable
<1>3. QED BY <1>1, <1>2, SilentKeep

\* The pages of administrators.
LEMMA AdminPagesKeep ==
    ASSUME NEW may
    PROVE  /\ Keeps(AdminPage(may)) /\ Keeps(OnboardingTab(may)) /\ Keeps(OffboardingTab(may))
           /\ Keeps(EmployeesTab(may)) /\ Keeps(SalaryTab(may)) /\ Keeps(PayrollReportTab(may))
           /\ Keeps(PolicyTab(may)) /\ Keeps(RolesTab(may)) /\ Keeps(HolidayTab(may))
           /\ Keeps(AttendanceLockTab(may)) /\ Keeps(DocumentsPanel(may))
           /\ Keeps(AuditPanel(may))
<1>1. /\ \E loads : Has(AdminPage(may), loads, {})
      /\ \E loads : Has(PayrollReportTab(may), loads, {})
      /\ \E loads : Has(AuditPanel(may), loads, {})
  BY PageTable
<1>2. /\ Has(OnboardingTab(may), {"employees"}, {"onboard", "offboard", "updateEmployee"})
      /\ Has(OffboardingTab(may), {"employees"}, {"onboard", "offboard", "updateEmployee"})
      /\ Has(EmployeesTab(may), {"employees"}, {"onboard", "offboard", "updateEmployee"})
  BY PageTable DEF Has
<1>3. Keeps(OnboardingTab(may)) /\ Keeps(OffboardingTab(may)) /\ Keeps(EmployeesTab(may))
  BY <1>2, SendersRefresh, KeepsAs
<1>4. /\ Keeps(SalaryTab(may)) /\ Keeps(PolicyTab(may)) /\ Keeps(RolesTab(may))
      /\ Keeps(HolidayTab(may)) /\ Keeps(AttendanceLockTab(may)) /\ Keeps(DocumentsPanel(may))
  BY PageTable, SendersRefresh, KeepsAs
<1>5. QED BY <1>1, <1>3, <1>4, SilentKeep

\* Every page does.
LEMMA PagesKeep ==
    ASSUME NEW role \in Roles, NEW page \in AllPages
    PROVE  Keeps(Shown[role][page])
<1>1. CASE page \in AnyUser
  BY <1>1, UserPagesKeep, ShownIs DEF AnyUser
<1>2. CASE page \in TeamPages
  BY <1>2, TeamPagesKeep, ShownIs DEF TeamPages
<1>3. CASE page \in AdminPages
  BY <1>3, AdminPagesKeep, ShownIs DEF AdminPages
<1>4. QED BY <1>1, <1>2, <1>3 DEF AllPages

\* There is no gap beyond the known ones.
LEMMA NoneLeft == NoGaps
<1> SUFFICES ASSUME NEW role \in Roles, NEW gap \in Gaps[role] PROVE FALSE
  BY DEF NoGaps
<1>1. PICK m \in DOMAIN Mutations, q \in Queries :
        /\ gap = <<m, q>> /\ Changes[m] \cap Shows[q] # {}
        /\ q \notin Mutations[m].invalidates /\ gap \notin KnownGaps
        /\ \E page \in AllPages : /\ q \in Shown[role][page].loads
                                  /\ \E c \in Shown[role][page].controls : c.save = m
  BY DEF Gaps
<1>2. PICK page \in AllPages : /\ q \in Shown[role][page].loads
                               /\ \E c \in Shown[role][page].controls : c.save = m
  BY <1>1
<1>3. QED BY <1>1, <1>2, PagesKeep DEF Keeps

-----------------------------------------------------------------------------
(* Helpers.                                                                *)

\* Nobody signed out has a page.
LEMMA NoPageOut == "out" \notin Opened
  BY InstanceAssumption DEF AllPages, AnyUser, TeamPages, AdminPages

\* The first version of everything.
LEMMA Zero == NoVersions \in Versions
  BY VersionAssumption DEF NoVersions, Versions

\* The clock is one of the saves.
LEMMA ClockIsSave == "clock" \in DOMAIN Mutations
  BY MutationsAre

\* A save that was clicked is one of the saves.
LEMMA ClickedSave ==
    ASSUME session \in Users, screen \in Opened,
           NEW c \in PageOf(session, screen).controls
    PROVE  c.save \in DOMAIN Mutations
<1>1. RoleOf[session] \in Roles /\ screen \in AllPages
  BY RoleAssumption, InstanceAssumption
<1>2. QED BY <1>1, ControlsSend DEF Has, PageOf

-----------------------------------------------------------------------------
(* Records of the cache, of fetches and of saves.                          *)

\* Entries of the cache.
LEMMA EntryShapes ==
    /\ Absent \in EntryShape
    /\ \A e \in EntryShape : [e EXCEPT !.stale = TRUE] \in EntryShape
    /\ \A v \in Versions : [present |-> TRUE, shows |-> v, stale |-> FALSE] \in EntryShape
  BY Zero DEF Absent, EntryShape

\* Fetches.
LEMMA FetchShapes ==
    /\ Idle \in FetchShape
    /\ \A u \in Users \cup {Nobody} :
         Sent(u) \in FetchShape /\ [Sent(u) EXCEPT !.retried = TRUE] \in FetchShape
    /\ \A f \in FetchShape, v \in Versions :
         [f EXCEPT !.phase = "answered", !.answer = v] \in FetchShape
  BY Zero DEF Idle, Sent, FetchShape

\* Saves.
LEMMA SaveShapes ==
    /\ Free \in SaveShape
    /\ \A s \in SaveShape :
         /\ [s EXCEPT !.shown = FALSE] \in SaveShape
         /\ [s EXCEPT !.phase = "refused"] \in SaveShape
         /\ \A v \in Versions : [s EXCEPT !.phase = "done", !.at = v] \in SaveShape
    /\ \A m \in DOMAIN Mutations, u \in Users :
         [phase |-> "sent", what |-> m, by |-> u, shown |-> TRUE, at |-> NoVersions] \in SaveShape
  BY Zero, ClockIsSave DEF Free, SaveShape

\* What a save that is served writes down.
LEMMA ServedAt ==
    ASSUME version' \in Versions, NEW m
    PROVE  [x \in Items |-> IF x \in Changes[m] THEN version'[x] ELSE 0] \in Versions
  BY VersionAssumption DEF Versions

\* The fetches that mounting a page sends.
LEMMA MountSends ==
    ASSUME NEW u \in Users, NEW page, Mount(u, page), fetch \in [Keys -> FetchShape]
    PROVE  /\ fetch' \in [Keys -> FetchShape]
           /\ \A k \in Keys : \/ fetch'[k] = fetch[k]
                              \/ k \in Loads(u, page) /\ fetch'[k] = Sent(u)
  BY FetchShapes DEF Mount

-----------------------------------------------------------------------------
(* Type correctness.                                                       *)

\* Every step keeps the types.
LEMMA TypeStep == TypeOK /\ [Next]_vars => TypeOK'
<1> SUFFICES ASSUME TypeOK, [Next]_vars PROVE TypeOK'
  OBVIOUS
<1> USE NobodyAssumption, NoPageOut, Zero DEF TypeOK
<1>1. ASSUME NEW u \in Users, Login(u) PROVE TypeOK'
  BY <1>1, PagesAssumption, MountSends DEF Login
<1>2. CASE Logout
  BY <1>2, SaveShapes DEF Logout, Unmount
<1>3. ASSUME NEW page \in Opened, Navigate(page) PROVE TypeOK'
  <2>1. session \in Users
    BY <1>3 DEF Navigate
  <2>2. saves' \in [Slots -> SaveShape]
    BY <1>3, SaveShapes DEF Navigate, Unmount
  <2>3. QED BY <1>3, <2>1, <2>2, MountSends DEF Navigate
<1>4. CASE Reload
  BY <1>4, EntryShapes, FetchShapes, SaveShapes DEF Reload
<1>5. ASSUME NEW k \in Keys, Age(k) \/ Collect(k) PROVE TypeOK'
  <2>1. CASE Age(k)
    <3>1. entry' = [entry EXCEPT ![k] = [entry[k] EXCEPT !.stale = TRUE]]
      BY <2>1 DEF Age
    <3>2. QED BY <2>1, <3>1, EntryShapes DEF Age
  <2>2. CASE Collect(k)
    BY <2>2, EntryShapes DEF Collect
  <2>3. QED BY <1>5, <2>1, <2>2
<1>6. ASSUME NEW k \in Keys, Focus(k) \/ Poll(k) PROVE TypeOK'
  BY <1>6, FetchShapes DEF Focus, Poll, Refetch
<1>7. ASSUME NEW k \in Keys, ServeFetch(k) \/ SettleFetch(k) \/ FailFetch(k) PROVE TypeOK'
  <2>1. /\ fetch[k] \in FetchShape
        /\ fetch[k].by \in Users \cup {Nobody}
        /\ fetch[k].answer \in Versions
    BY DEF FetchShape
  <2>2. CASE ServeFetch(k)
    <3>1. fetch' = [fetch EXCEPT ![k] = [fetch[k] EXCEPT !.phase = "answered", !.answer = version]]
      BY <2>2 DEF ServeFetch
    <3>2. [fetch[k] EXCEPT !.phase = "answered", !.answer = version] \in FetchShape
      BY FetchShapes
    <3>3. QED BY <2>2, <3>1, <3>2 DEF ServeFetch
  <2>3. CASE SettleFetch(k)
    BY <2>1, <2>3, EntryShapes, FetchShapes DEF SettleFetch
  <2>4. CASE FailFetch(k)
    BY <2>1, <2>4, FetchShapes DEF FailFetch
  <2>5. QED BY <1>7, <2>2, <2>3, <2>4
<1>8. ASSUME NEW i \in Slots, NEW c, Click(i, c) PROVE TypeOK'
  <2>1. session \in Users /\ screen \in Opened /\ c \in PageOf(session, screen).controls
    BY <1>8 DEF Click
  <2>2. c.save \in DOMAIN Mutations
    BY <2>1, ClickedSave
  <2>3. QED BY <1>8, <2>1, <2>2, SaveShapes DEF Click
<1>9. ASSUME NEW i \in Slots, ServeSave(i) PROVE TypeOK'
  <2>1. version' \in Versions
    BY <1>9, VersionAssumption DEF ServeSave, Versions
  <2>2. \/ saves' = [saves EXCEPT ![i] = [saves[i] EXCEPT !.phase = "refused"]]
        \/ saves' = [saves EXCEPT ![i] = [saves[i] EXCEPT !.phase = "done",
              !.at = [x \in Items |-> IF x \in Changes[saves[i].what] THEN version'[x] ELSE 0]]]
    BY <1>9 DEF ServeSave
  <2>3. /\ [saves[i] EXCEPT !.phase = "refused"] \in SaveShape
        /\ [saves[i] EXCEPT !.phase = "done",
              !.at = [x \in Items |-> IF x \in Changes[saves[i].what] THEN version'[x] ELSE 0]]
             \in SaveShape
    BY <2>1, ServedAt, SaveShapes
  <2>4. saves' \in [Slots -> SaveShape]
    BY <2>2, <2>3
  <2>5. QED BY <1>9, <2>1, <2>4 DEF ServeSave
<1>10. ASSUME NEW i \in Slots, SettleSave(i) PROVE TypeOK'
  <2>1. owed' \in [Keys -> Versions]
    <3>1. saves[i].at \in Versions
      BY DEF SaveShape
    <3>2. \A k \in Keys : [x \in Items |->
             IF x \in Shows[k] /\ saves[i].at[x] > owed[k][x]
             THEN saves[i].at[x] ELSE owed[k][x]] \in Versions
      BY <3>1 DEF Versions
    <3>3. QED BY <1>10, <3>2 DEF SettleSave
  <2>2. fetch' \in [Keys -> FetchShape]
    BY <1>10, FetchShapes DEF SettleSave
  <2>3. entry' \in [Keys -> EntryShape]
    BY <1>10, EntryShapes DEF SettleSave
  <2>4. saves' \in [Slots -> SaveShape]
    BY <1>10, SaveShapes DEF SettleSave
  <2>5. QED BY <1>10, <2>1, <2>2, <2>3, <2>4 DEF SettleSave
<1>11. ASSUME NEW i \in Slots, FailSave(i) PROVE TypeOK'
  BY <1>11, SaveShapes DEF FailSave
<1>12. ASSUME NEW x \in Items, Elsewhere(x) PROVE TypeOK'
  BY <1>12, VersionAssumption DEF Elsewhere, Versions
<1>13. CASE UNCHANGED vars
  BY <1>13 DEF vars
<1>14. QED
  BY <1>1, <1>2, <1>3, <1>4, <1>5, <1>6, <1>7, <1>8, <1>9, <1>10, <1>11, <1>12, <1>13 DEF Next

\* The tab keeps the ranges of its variables, and nobody sees a page without being
\* signed in (AuthGuard).
THEOREM WebType == Spec => []TypeOK
<1>1. Init => TypeOK
  BY Zero, EntryShapes, FetchShapes, SaveShapes DEF Init, TypeOK
<1>2. QED BY <1>1, TypeStep, PTL DEF Spec

-----------------------------------------------------------------------------
(* What users who take turns leave behind.                                 *)

\* Every request on its way was sent for a page its sender could open.
Entitled ==
    /\ session # Nobody => Opens(RoleOf[session], screen)
    /\ \A k \in Keys : fetch[k].phase # "idle" =>
         fetch[k].by \in Users /\ QueryAnswer[RoleOf[fetch[k].by]][k] = "OK"

\* What a page the user may open loads is answered.
LEMMA PageAnswered ==
    ASSUME PagesAdmitted, NEW u \in Users, NEW page, Opens(RoleOf[u], page), NEW k \in Loads(u, page)
    PROVE  QueryAnswer[RoleOf[u]][k] = "OK"
<1>1. page \in AllPages /\ RoleOf[u] \in Roles /\ k \in PageOf(u, page).loads
  BY RoleAssumption DEF Opens, Loads
<1>2. QED BY <1>1 DEF PagesAdmitted, PageOf

\* Requests that are kept, dropped, or sent by the user for the page that is open.
LEMMA EntitledStep ==
    ASSUME PagesAdmitted, TypeOK, Entitled, [Next]_vars
    PROVE  Entitled'
<1>1. \A u : Sent(u).by = u /\ Idle.phase = "idle"
  BY DEF Sent, Idle
<1>2. session # Nobody => session \in Users /\ \A k \in Mounted : QueryAnswer[RoleOf[session]][k] = "OK"
  BY PageAnswered DEF TypeOK, Entitled, Mounted
<1>3. session = Nobody => Mounted = {}
  BY DEF TypeOK, Mounted, Loads
<1>4. ASSUME NEW u \in Users, Login(u) PROVE Entitled'
  <2>1. /\ Opens(RoleOf[u], "dashboard")
        /\ session' = u
        /\ screen' = "dashboard"
        /\ Mount(u, "dashboard")
    BY <1>4 DEF Login
  <2>2. \A k \in Keys : fetch'[k] = fetch[k] \/ (k \in Loads(u, "dashboard") /\ fetch'[k] = Sent(u))
    BY <2>1, MountSends DEF TypeOK
  <2>3. QED BY <1>1, <2>1, <2>2, PageAnswered DEF Entitled
<1>5. CASE Logout
  BY <1>5 DEF Logout, Entitled
<1>6. ASSUME NEW page \in Opened, Navigate(page) PROVE Entitled'
  <2>1. /\ session \in Users /\ session' = session /\ screen' = page
        /\ Opens(RoleOf[session], page) /\ Mount(session, page)
    BY <1>6 DEF Navigate, TypeOK
  <2>2. \A k \in Keys :
          fetch'[k] = fetch[k] \/ (k \in Loads(session, page) /\ fetch'[k] = Sent(session))
    BY <2>1, MountSends DEF TypeOK
  <2>3. QED BY <1>1, <2>1, <2>2, PageAnswered DEF Entitled
<1>7. CASE Reload
  BY <1>1, <1>2, <1>7 DEF Reload, Entitled
<1>8. ASSUME NEW k \in Keys, Refetch(k) PROVE Entitled'
  BY <1>1, <1>2, <1>3, <1>8 DEF Refetch, Entitled, TypeOK
<1>9. ASSUME NEW k \in Keys, ServeFetch(k) \/ SettleFetch(k) PROVE Entitled'
  BY <1>1, <1>9 DEF ServeFetch, SettleFetch, Entitled, TypeOK, FetchShape
<1>10. ASSUME NEW k \in Keys, FailFetch(k) PROVE Entitled'
  <2>1. [Sent(fetch[k].by) EXCEPT !.retried = TRUE].by = fetch[k].by
    BY DEF Sent
  <2>2. QED BY <1>1, <1>10, <2>1 DEF FailFetch, Entitled, TypeOK
<1>11. ASSUME NEW i \in Slots, SettleSave(i) PROVE Entitled'
  <2>1. \A k \in Keys : fetch'[k] = fetch[k] \/ (k \in Mounted /\ fetch'[k] = Sent(session))
    BY <1>11 DEF SettleSave
  <2>2. QED BY <1>1, <1>2, <1>3, <1>11, <2>1 DEF SettleSave, Entitled
<1>12. ASSUME UNCHANGED <<session, screen, fetch>> PROVE Entitled'
  BY <1>12 DEF Entitled
<1>13. QED
  BY <1>4, <1>5, <1>6, <1>7, <1>8, <1>9, <1>10, <1>11, <1>12
     DEF Next, vars, Age, Collect, Focus, Poll, Click, ServeSave, FailSave, Elsewhere

\* Every page asks for what its role is given and the routes answer it, and so
\* nothing is refused when users of different roles take turns in one tab and the
\* requests of one are still on their way under the other (the pages, useRole,
\* the handlers, the router).
THEOREM TurnsAdmitted == Spec => []NothingRefused
<1>1. Init => Entitled
  BY DEF Init, Entitled, Idle
<1>2. TypeOK /\ Entitled /\ [Next]_vars => Entitled'
  BY AllAdmitted, EntitledStep
<1>3. Entitled => NothingRefused
  BY AllReached, AllAdmitted DEF Entitled, NothingRefused
<1>4. QED BY <1>1, <1>2, <1>3, WebType, PTL DEF Spec

-----------------------------------------------------------------------------
(* What a save is followed by.                                             *)

\* The page that sent a save is the one on the screen.
FromPage(i) ==
    /\ session \in Users /\ Opens(RoleOf[session], screen)
    /\ \E c \in PageOf(session, screen).controls : c.save = saves[i].what

\* A save is in the version of the server when it is done; what is owed is there;
\* an answer that has been read but not shown has all that is owed by then.
Fresh ==
    /\ session # Nobody => Opens(RoleOf[session], screen)
    /\ \A i \in Slots : saves[i].shown => FromPage(i)
    /\ \A i \in Slots : saves[i].phase = "done" => Newer(version, saves[i].at)
    /\ \A k \in Keys : Newer(version, owed[k])
    /\ \A k \in Keys : fetch[k].phase = "answered" => Newer(fetch[k].answer, owed[k])
    /\ OwnSavesShown

\* Newer is transitive.
LEMMA NewerStill ==
    ASSUME NEW a \in Versions, NEW b \in Versions, NEW c \in Versions, Newer(a, b), Newer(b, c)
    PROVE  Newer(a, c)
  BY VersionAssumption DEF Newer, Versions

\* A query of the page that sent a save, changed by it, is refreshed by it.
LEMMA PageRefreshed ==
    ASSUME NoGaps, TypeOK, NEW i \in Slots, FromPage(i), NEW k \in Keys \cap Mounted,
           Shows[k] \cap Changes[saves[i].what] # {}, <<saves[i].what, k>> \notin KnownGaps
    PROVE  k \in Mutations[saves[i].what].invalidates
<1> DEFINE role == RoleOf[session]
           m == saves[i].what
<1>1. /\ role \in Roles /\ screen \in AllPages /\ Opens(role, screen)
      /\ k \in Shown[role][screen].loads
      /\ \E c \in Shown[role][screen].controls : c.save = m
  BY RoleAssumption DEF FromPage, Opens, Mounted, Loads, PageOf
<1>2. m \in DOMAIN Mutations /\ k \in Queries
  BY InstanceAssumption DEF TypeOK, SaveShape
<1>3. Gaps[role] = {}
  BY <1>1 DEF NoGaps
<1>4. SUFFICES ASSUME k \notin Mutations[m].invalidates PROVE <<m, k>> \in Gaps[role]
  BY <1>3
<1>5. <<m, k>> \in (DOMAIN Mutations) \X Queries
  BY <1>2
<1> HIDE DEF role, m
<1>6. QED BY <1>1, <1>4, <1>5 DEF Gaps, m

\* What a save's success adds to what is owed is in the version of the server, and
\* the queries that owe it are fetched again.
LEMMA SettleOwes ==
    ASSUME NoGaps, TypeOK, Fresh, NEW i \in Slots, SettleSave(i), NEW k \in Keys
    PROVE  /\ Newer(version, owed'[k])
           /\ owed'[k] = owed[k] \/ (fetch'[k].phase = "sent" /\ entry'[k].stale)
<1> DEFINE m == saves[i].what
           old == Mutations[m].invalidates
           due == /\ k \in Mounted \cap Present
                  /\ Shows[k] \cap Changes[m] # {}
                  /\ k \in old \/ (saves[i].shown /\ <<m, k>> \notin KnownGaps)
           more == [x \in Items |-> IF x \in Shows[k] /\ saves[i].at[x] > owed[k][x]
                                   THEN saves[i].at[x] ELSE owed[k][x]]
<1>1. owed'[k] = IF due THEN more ELSE owed[k]
  BY DEF SettleSave
<1>2. Newer(version, owed[k]) /\ Newer(version, saves[i].at)
  BY DEF Fresh, SettleSave
<1>3. Newer(version, more)
  BY <1>2 DEF Newer
<1>4. due => k \in old
  BY PageRefreshed DEF Fresh
<1>5. due => fetch'[k] = Sent(session) /\ entry'[k] = [entry[k] EXCEPT !.stale = TRUE]
  BY <1>4 DEF SettleSave, Present
<1>6. due => fetch'[k].phase = "sent" /\ entry'[k].stale
  BY <1>5 DEF Sent, TypeOK, EntryShape
<1>7. QED BY <1>1, <1>2, <1>3, <1>6

\* Every step keeps saves shown or owed.
LEMMA FreshStep ==
    ASSUME NoGaps, TypeOK, TypeOK', Fresh, [Next]_vars
    PROVE  Fresh'
<1>1. /\ \A u : Sent(u).phase = "sent" /\ Idle.phase = "idle"
      /\ ~Absent.present /\ ~Free.shown /\ Free.phase = "free"
  BY DEF Sent, Idle, Absent, Free
<1>2. CASE UNCHANGED vars
  BY <1>2 DEF vars, Fresh, FromPage, OwnSavesShown
<1>3. ASSUME NEW u \in Users, Login(u) PROVE Fresh'
  <2>1. \A i \in Slots : ~saves[i].shown
    BY <1>3, NobodyAssumption DEF Login, Fresh, FromPage
  <2>2. \A k \in Keys : fetch'[k] = fetch[k] \/ fetch'[k] = Sent(u)
    BY <1>3, MountSends DEF Login, TypeOK
  <2>3. QED BY <1>1, <1>3, <2>1, <2>2 DEF Login, Fresh, OwnSavesShown
<1>4. ASSUME Logout \/ \E page \in Opened : Navigate(page) PROVE Fresh'
  <2>1. \A i \in Slots : /\ ~saves'[i].shown /\ saves'[i].phase = saves[i].phase
                         /\ saves'[i].at = saves[i].at
    BY <1>4 DEF Logout, Navigate, Unmount, TypeOK, SaveShape
  <2>2. \A k \in Keys : fetch'[k] = fetch[k] \/ fetch'[k] = Sent(session)
    BY <1>4, MountSends DEF Logout, Navigate, TypeOK
  <2>3. session' # Nobody => Opens(RoleOf[session'], screen')
    BY <1>4 DEF Logout, Navigate
  <2>4. version' = version /\ owed' = owed /\ entry' = entry
    BY <1>4 DEF Logout, Navigate
  <2>5. QED BY <1>1, <2>1, <2>2, <2>3, <2>4 DEF Fresh, OwnSavesShown
<1>5. CASE Reload
  BY <1>1, <1>5 DEF Reload, Fresh, OwnSavesShown
<1>6. ASSUME NEW k \in Keys, Age(k) \/ Collect(k) PROVE Fresh'
  <2>1. \A j \in Keys : entry'[j] = entry[j] \/ ~entry'[j].present \/ entry'[j].stale
    BY <1>1, <1>6 DEF Age, Collect, TypeOK, EntryShape
  <2>2. UNCHANGED <<session, screen, version, fetch, saves, owed>>
    BY <1>6 DEF Age, Collect
  <2>3. QED BY <2>1, <2>2 DEF Fresh, FromPage, OwnSavesShown
<1>7. ASSUME NEW k \in Keys, Refetch(k) \/ FailFetch(k) PROVE Fresh'
  <2>1. \A j \in Keys : fetch'[j] = fetch[j] \/ fetch'[j].phase # "answered"
    BY <1>1, <1>7 DEF Refetch, FailFetch, TypeOK, Sent
  <2>2. UNCHANGED <<session, screen, version, entry, saves, owed>>
    BY <1>7 DEF Refetch, FailFetch
  <2>3. QED BY <2>1, <2>2 DEF Fresh, FromPage, OwnSavesShown
<1>8. ASSUME NEW k \in Keys, ServeFetch(k) PROVE Fresh'
  <2>1. \A j \in Keys : fetch'[j] = fetch[j] \/ fetch'[j].answer = version
    BY <1>8 DEF ServeFetch, TypeOK, FetchShape
  <2>2. UNCHANGED <<session, screen, version, entry, saves, owed>>
    BY <1>8 DEF ServeFetch
  <2>3. QED BY <2>1, <2>2 DEF Fresh, FromPage, OwnSavesShown
<1>9. ASSUME NEW k \in Keys, SettleFetch(k) PROVE Fresh'
  <2>1. /\ fetch' = [fetch EXCEPT ![k] = Idle]
        /\ entry' = [entry EXCEPT ![k] =
                        [present |-> TRUE, shows |-> fetch[k].answer, stale |-> FALSE]]
        /\ Newer(fetch[k].answer, owed[k])
        /\ UNCHANGED <<session, screen, version, saves, owed>>
    BY <1>9 DEF SettleFetch, Fresh
  <2>2. QED BY <1>1, <2>1 DEF Fresh, FromPage, OwnSavesShown, TypeOK
<1>10. ASSUME NEW i \in Slots, NEW c, Click(i, c) PROVE Fresh'
  <2>1. /\ saves' = [saves EXCEPT ![i] = [phase |-> "sent", what |-> c.save, by |-> session,
                                         shown |-> TRUE, at |-> NoVersions]]
        /\ UNCHANGED <<session, screen, version, entry, fetch, owed>>
        /\ session \in Users /\ c \in PageOf(session, screen).controls
    BY <1>10 DEF Click, TypeOK
  <2>2. Opens(RoleOf[session], screen)
    BY <2>1, NobodyAssumption DEF Fresh
  <2>3. QED BY <2>1, <2>2 DEF Fresh, FromPage, OwnSavesShown, TypeOK
<1>11. ASSUME NEW i \in Slots, ServeSave(i) PROVE Fresh'
  <2>1. Newer(version', version)
    BY <1>11 DEF ServeSave, Newer, TypeOK, Versions
  <2>2. \A j \in Slots :
          (saves'[j].shown <=> saves[j].shown) /\ saves'[j].what = saves[j].what
    BY <1>11 DEF ServeSave, TypeOK, SaveShape
  <2>3. UNCHANGED <<session, screen, entry, fetch, owed>>
    BY <1>11 DEF ServeSave
  <2>4. ASSUME NEW j \in Slots, saves'[j].phase = "done" PROVE Newer(version', saves'[j].at)
    <3>1. CASE saves'[j] = saves[j]
      <4>1. Newer(version, saves[j].at) /\ saves[j].at \in Versions
        BY <2>4, <3>1 DEF Fresh, TypeOK, SaveShape
      <4>2. version \in Versions /\ version' \in Versions
        BY DEF TypeOK
      <4>3. QED BY <2>1, <3>1, <4>1, <4>2, NewerStill
    <3>2. CASE saves'[j] # saves[j]
      <4>1. saves \in [Slots -> SaveShape] /\ version' \in Versions
        BY DEF TypeOK
      <4>2. saves'[j].at = [x \in Items |-> IF x \in Changes[saves[i].what] THEN version'[x] ELSE 0]
        BY <1>11, <2>4, <3>2, <4>1 DEF ServeSave, SaveShape
      <4>3. QED BY <4>1, <4>2, VersionAssumption DEF Newer, Versions
    <3>3. QED BY <3>1, <3>2
  <2>5. \A k \in Keys : Newer(version', owed'[k])
    BY <2>1, <2>3, NewerStill DEF Fresh, TypeOK
  <2>6. \A j \in Slots : saves'[j].shown => FromPage(j)'
    BY <2>2, <2>3 DEF Fresh, FromPage
  <2>7. OwnSavesShown' /\ \A k \in Keys : fetch'[k].phase = "answered" => Newer(fetch'[k].answer, owed'[k])
    BY <2>3 DEF Fresh, OwnSavesShown
  <2>8. session' # Nobody => Opens(RoleOf[session'], screen')
    BY <2>3 DEF Fresh
  <2>9. QED BY <2>4, <2>5, <2>6, <2>7, <2>8 DEF Fresh
<1>12. ASSUME NEW i \in Slots, SettleSave(i) PROVE Fresh'
  <2>1. UNCHANGED <<session, screen, version>> /\ saves' = [saves EXCEPT ![i] = Free]
    BY <1>12 DEF SettleSave
  <2>2. \A k \in Keys : /\ fetch'[k] = fetch[k] \/ fetch'[k].phase = "sent"
                        /\ entry'[k] = entry[k] \/ entry'[k].stale
    BY <1>1, <1>12 DEF SettleSave, TypeOK, EntryShape
  <2>3. \A k \in Keys : /\ Newer(version, owed'[k])
                        /\ owed'[k] = owed[k] \/ (fetch'[k].phase = "sent" /\ entry'[k].stale)
    BY <1>12, SettleOwes
  <2>4. \A j \in Slots : saves'[j].shown => FromPage(j)'
    BY <1>1, <2>1 DEF Fresh, FromPage, TypeOK
  <2>5. \A j \in Slots : saves'[j].phase = "done" => Newer(version', saves'[j].at)
    BY <1>1, <2>1 DEF Fresh, TypeOK
  <2>6. ASSUME NEW k \in Keys, fetch'[k].phase = "answered"
        PROVE  Newer(fetch'[k].answer, owed'[k])
    <3>1. fetch'[k] = fetch[k] /\ owed'[k] = owed[k]
      BY <2>2, <2>3, <2>6
    <3>2. QED BY <2>6, <3>1 DEF Fresh
  <2>7. ASSUME NEW k \in Keys, entry'[k].present, ~entry'[k].stale
        PROVE  Newer(entry'[k].shows, owed'[k])
    BY <2>2, <2>3, <2>7 DEF Fresh, OwnSavesShown
  <2>8. session' # Nobody => Opens(RoleOf[session'], screen')
    BY <2>1 DEF Fresh
  <2>9. ASSUME NEW k \in Keys PROVE Newer(version', owed'[k])
    <3>1. Newer(version, owed'[k])
      BY <2>3
    <3>2. version' = version
      BY <2>1
    <3>3. QED BY <3>1, <3>2
  <2>10. QED BY <2>4, <2>5, <2>6, <2>7, <2>8, <2>9 DEF Fresh, OwnSavesShown
<1>13. ASSUME NEW i \in Slots, FailSave(i) PROVE Fresh'
  BY <1>1, <1>13 DEF FailSave, Fresh, FromPage, OwnSavesShown, TypeOK
<1>14. ASSUME NEW x \in Items, Elsewhere(x) PROVE Fresh'
  <2>1. Newer(version', version)
    BY <1>14 DEF Elsewhere, Newer, TypeOK, Versions
  <2>2. UNCHANGED <<session, screen, entry, fetch, saves, owed>>
    BY <1>14 DEF Elsewhere
  <2>3. QED BY <2>1, <2>2, NewerStill DEF Fresh, FromPage, OwnSavesShown, TypeOK, SaveShape
<1>15. QED
  BY <1>2, <1>3, <1>4, <1>5, <1>6, <1>7, <1>8, <1>9, <1>10, <1>11, <1>12, <1>13, <1>14
     DEF Next, Focus, Poll

\* A page that changes what it shows refreshes it, beyond the known gaps, whoever
\* is signed in (the onSuccess of every mutation hook, the queries of the pages).
THEOREM GapsKnown == Spec => []GapsAreAll
<1>1. TypeOK => GapsAreAll
  BY NoneLeft, RoleAssumption DEF TypeOK, GapsAreAll, NoGaps
<1>2. QED BY <1>1, WebType, PTL

\* A tab shows its own saves: for any users, pages, queries and kinds of items,
\* however fetches and saves overtake each other, fail, are repeated or outlive
\* their page (useQuery, invalidateQueries, the onSuccess of every mutation hook).
THEOREM SavesShown == Spec => []OwnSavesShown
<1>1. Init => Fresh
  BY VersionAssumption DEF Init, Fresh, OwnSavesShown, Idle, Free, Absent, Newer, NoVersions
<1>2. TypeOK /\ TypeOK' /\ Fresh /\ [Next]_vars => Fresh'
  BY NoneLeft, FreshStep
<1>3. Fresh => OwnSavesShown
  BY DEF Fresh
<1>4. QED BY <1>1, <1>2, <1>3, WebType, PTL DEF Spec
=============================================================================
