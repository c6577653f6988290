----------------------------- MODULE WebClient -----------------------------
(***************************************************************************)
(* One browser tab of the web application: who is signed in, the page that *)
(* is open, the cache of React Query, and the saves on their way.  Data is *)
(* the version of each kind of item.  The cache is external code, modelled *)
(* from the options and calls the application gives it.                    *)
(***************************************************************************)
EXTENDS Pages

CONSTANTS
    Users, RoleOf,   \* who signs in in this tab; the role in each one's token
    Keys, Opened,    \* the queries and the pages of this instance
    Items,           \* the kinds of items whose versions are tracked
    Slots,           \* bound: the saves on their way at once
    MaxVersion       \* bound: how often each kind of item changes

ASSUME RoleAssumption == RoleOf \in [Users -> Roles]
ASSUME InstanceAssumption ==
    Keys \subseteq Queries /\ Opened \subseteq AllPages
\* Signing in leads to the dashboard.
ASSUME PagesAssumption == "dashboard" \in Opened
ASSUME VersionAssumption == MaxVersion \in Nat

Nobody == "nobody"
ASSUME NobodyAssumption == Nobody \notin Users

VARIABLES
    session,      \* the user signed in
    screen,       \* the page that is open
    version,      \* version[x]: the items of kind x, on the server
    entry,        \* entry[k]: what the cache holds under k
    fetch,        \* fetch[k]: the request on its way for k
    saves,        \* saves[i]: the save in slot i
    owed          \* history: the oldest versions k may show as up to date

vars == <<session, screen, version, entry, fetch, saves, owed>>

Versions == [Items -> 0 .. MaxVersion]
NoVersions == [x \in Items |-> 0]
Newer(a, b) == \A x \in Items : a[x] >= b[x]

Absent == [present |-> FALSE, shows |-> NoVersions, stale |-> TRUE]
Idle == [phase |-> "idle", by |-> Nobody, retried |-> FALSE, answer |-> NoVersions]
Free == [phase |-> "free", what |-> "clock", by |-> Nobody, shown |-> FALSE, at |-> NoVersions]

EntryShape == [present : BOOLEAN, shows : Versions, stale : BOOLEAN]
FetchShape == [phase : {"idle", "sent", "answered"}, by : Users \cup {Nobody},
               retried : BOOLEAN, answer : Versions]
SaveShape == [phase : {"free", "sent", "done", "refused"}, what : DOMAIN Mutations,
              by : Users \cup {Nobody}, shown : BOOLEAN, at : Versions]

\* Nobody sees a page without being signed in (AuthGuard); the rest are the
\* ranges of the variables.
TypeOK ==
    /\ session \in Users \cup {Nobody}
    /\ screen \in Opened \cup {"out"} /\ (session = Nobody <=> screen = "out")
    /\ version \in Versions
    /\ entry \in [Keys -> EntryShape]
    /\ fetch \in [Keys -> FetchShape]
    /\ saves \in [Slots -> SaveShape]
    /\ owed \in [Keys -> Versions]

Init ==
    /\ session = Nobody
    /\ screen = "out"
    /\ version = NoVersions
    /\ entry = [k \in Keys |-> Absent]
    /\ fetch = [k \in Keys |-> Idle]
    /\ saves = [i \in Slots |-> Free]
    /\ owed = [k \in Keys |-> NoVersions]

-----------------------------------------------------------------------------
(* Pages.                                                                  *)

PageOf(user, page) == Shown[RoleOf[user]][page]
Loads(user, page) == IF page = "out" THEN {} ELSE Keys \cap PageOf(user, page).loads
Mounted == Loads(session, screen)

Sent(user) == [phase |-> "sent", by |-> user, retried |-> FALSE, answer |-> NoVersions]

\* Mounting fetches what is absent or out of date; a fetch on its way is joined.
Mount(user, page) ==
    fetch' = [k \in Keys |->
        IF k \in Loads(user, page) /\ entry[k].stale /\ fetch[k].phase = "idle"
        THEN Sent(user) ELSE fetch[k]]

\* A component that leaves the screen takes its pending state with it.
Unmount == saves' = [i \in Slots |-> [saves[i] EXCEPT !.shown = FALSE]]

Login(u) ==
    /\ session = Nobody
    /\ Opens(RoleOf[u], "dashboard")
    /\ session' = u
    /\ screen' = "dashboard"
    /\ Mount(u, "dashboard")
    /\ UNCHANGED <<version, entry, saves, owed>>

\* MUTANT: signing out leaves the page open
Logout_Stays ==
    /\ session # Nobody
    /\ session' = Nobody
    /\ Unmount
    /\ UNCHANGED <<screen, version, entry, fetch, owed>>

\* The cache and what is on its way are kept.
Logout ==
    /\ session # Nobody
    /\ session' = Nobody
    /\ screen' = "out"
    /\ Unmount
    /\ UNCHANGED <<version, entry, fetch, owed>>

Navigate(page) ==
    /\ session # Nobody
    /\ page # screen
    /\ Opens(RoleOf[session], page)
    /\ screen' = page
    /\ Unmount
    /\ Mount(session, page)
    /\ UNCHANGED <<session, version, entry, owed>>

\* The session is kept in the tab's storage, the cache is not.  Answers on their
\* way find nobody; a save the server still takes is one made Elsewhere.
Reload ==
    /\ session # Nobody
    /\ entry' = [k \in Keys |-> Absent]
    /\ fetch' = [k \in Keys |-> IF k \in Mounted THEN Sent(session) ELSE Idle]
    /\ saves' = [i \in Slots |-> Free]
    /\ UNCHANGED <<session, screen, version, owed>>

-----------------------------------------------------------------------------
(* Queries.                                                                *)

\* 30 seconds after its answer.
Age(k) ==
    /\ entry[k].present /\ ~entry[k].stale
    /\ entry' = [entry EXCEPT ![k].stale = TRUE]
    /\ UNCHANGED <<session, screen, version, fetch, saves, owed>>

\* Five minutes after the last component that showed it.
Collect(k) ==
    /\ entry[k].present
    /\ k \notin Mounted
    /\ fetch[k].phase = "idle"
    /\ entry' = [entry EXCEPT ![k] = Absent]
    /\ UNCHANGED <<session, screen, version, fetch, saves, owed>>

Refetch(k) ==
    /\ k \in Mounted
    /\ fetch[k].phase = "idle"
    /\ fetch' = [fetch EXCEPT ![k] = Sent(session)]
    /\ UNCHANGED <<session, screen, version, entry, saves, owed>>

Focus(k) == entry[k].stale /\ Refetch(k)
Poll(k) == Hooks[k].polled /\ Refetch(k)

ServeFetch(k) ==
    /\ fetch[k].phase = "sent"
    /\ fetch' = [fetch EXCEPT ![k].phase = "answered", ![k].answer = version]
    /\ UNCHANGED <<session, screen, version, entry, saves, owed>>

\* An answer clears the mark of an invalidation, whenever it was read.
SettleFetch(k) ==
    /\ fetch[k].phase = "answered"
    /\ entry' = [entry EXCEPT ![k] =
                    [present |-> TRUE, shows |-> fetch[k].answer, stale |-> FALSE]]
    /\ fetch' = [fetch EXCEPT ![k] = Idle]
    /\ UNCHANGED <<session, screen, version, saves, owed>>

\* Repeated once, with the token of the first attempt, while somebody waits.
FailFetch(k) ==
    /\ fetch[k].phase # "idle"
    /\ fetch' = [fetch EXCEPT ![k] =
                    IF k \in Mounted /\ ~fetch[k].retried
                    THEN [Sent(fetch[k].by) EXCEPT !.retried = TRUE] ELSE Idle]
    /\ UNCHANGED <<session, screen, version, entry, saves, owed>>

-----------------------------------------------------------------------------
(* Saves.                                                                  *)

Present == {k \in Keys : entry[k].present}
Known(k) == k \notin Keys \/ entry[k].present \/ fetch[k].phase = "idle"

\* A query outside Keys is taken as answered.
Usable(c) ==
    /\ c.from \cap Keys \subseteq Present
    /\ \A k \in c.ready : Known(k)
    /\ c.once => \A i \in Slots : ~(saves[i].shown /\ saves[i].what = c.save)

Click(i, c) ==
    /\ saves[i].phase = "free"
    /\ session # Nobody
    /\ c \in PageOf(session, screen).controls
    /\ Usable(c)
    /\ saves' = [saves EXCEPT ![i] =
          [phase |-> "sent", what |-> c.save, by |-> session, shown |-> TRUE, at |-> NoVersions]]
    /\ UNCHANGED <<session, screen, version, entry, fetch, owed>>

ServeSave(i) ==
    /\ saves[i].phase = "sent"
    /\ LET m == saves[i].what
       IN  IF SaveAnswer[RoleOf[saves[i].by]][m] = "OK"
           THEN /\ \A x \in Items \cap Changes[m] : version[x] < MaxVersion
                /\ version' = [x \in Items |->
                      IF x \in Changes[m] THEN version[x] + 1 ELSE version[x]]
                /\ saves' = [saves EXCEPT ![i].phase = "done",
                      ![i].at = [x \in Items |-> IF x \in Changes[m] THEN version'[x] ELSE 0]]
           ELSE version' = version /\ saves' = [saves EXCEPT ![i].phase = "refused"]
    /\ UNCHANGED <<session, screen, entry, fetch, owed>>

\* Pairs of a save and a query of one page the code leaves as they are.
KnownGaps ==
    {<<"clock", "teamStates">>, <<"editEvent", "todayEvents">>, <<"editEvent", "dayEvents">>,
     <<"createLeave", "balance">>, <<"approveLeave", "balance">>, <<"offboard", "employees">>}

\* onSuccess: invalidate.  What is on the screen is fetched again; a fetch on
\* its way is replaced if it was not the first, and joined if it was.
SettleSave(i) ==
    /\ saves[i].phase = "done"
    /\ LET m == saves[i].what
           old == Mutations[m].invalidates
       IN  /\ entry' = [k \in Keys |->
                 IF k \in old THEN [entry[k] EXCEPT !.stale = TRUE] ELSE entry[k]]
           /\ fetch' = [k \in Keys |->
                 IF k \in old \cap Mounted /\ (entry[k].present \/ fetch[k].phase = "idle")
                 THEN Sent(session) ELSE fetch[k]]
           /\ owed' = [k \in Keys |->
                 IF /\ k \in Mounted \cap Present
                    /\ Shows[k] \cap Changes[m] # {}
                    /\ k \in old \/ (saves[i].shown /\ <<m, k>> \notin KnownGaps)
                 THEN [x \in Items |->
                    IF x \in Shows[k] /\ saves[i].at[x] > owed[k][x]
                    THEN saves[i].at[x] ELSE owed[k][x]]
                 ELSE owed[k]]
    /\ saves' = [saves EXCEPT ![i] = Free]
    /\ UNCHANGED <<session, screen, version>>

\* An error, or no answer at all: nothing is invalidated.
FailSave(i) ==
    /\ saves[i].phase # "free"
    /\ saves' = [saves EXCEPT ![i] = Free]
    /\ UNCHANGED <<session, screen, version, entry, fetch, owed>>

\* Somebody else saves.
Elsewhere(x) ==
    /\ version[x] < MaxVersion
    /\ version' = [version EXCEPT ![x] = @ + 1]
    /\ UNCHANGED <<session, screen, entry, fetch, saves, owed>>

Controls(page) == UNION {PageOf(u, page).controls : u \in Users}

Next ==
    \/ \E u \in Users : Login(u)
    \/ Logout
    \/ \E page \in Opened : Navigate(page)
    \/ Reload
    \/ \E k \in Keys : Age(k) \/ Collect(k) \/ Focus(k) \/ Poll(k)
    \/ \E k \in Keys : ServeFetch(k) \/ SettleFetch(k) \/ FailFetch(k)
    \/ \E i \in Slots, page \in Opened : \E c \in Controls(page) : page = screen /\ Click(i, c)
    \/ \E i \in Slots : ServeSave(i) \/ SettleSave(i) \/ FailSave(i)
    \/ \E x \in Items : Elsewhere(x)

\* The timer of a poll fires, and the network answers again and again.
Fairness == \A k \in Keys :
    WF_vars(Poll(k)) /\ SF_vars(ServeFetch(k)) /\ SF_vars(SettleFetch(k))

Spec == Init /\ [][Next]_vars /\ Fairness

-----------------------------------------------------------------------------
(* Properties.                                                             *)

\* Once a save has its success, a query on the screen that it refreshes, and every
\* query of the page that sent it whose items it changed, is never again shown as
\* up to date without what was saved: neither by an answer read before the save,
\* nor because the save forgot to invalidate it, unless the pair is one of
\* KnownGaps (useQuery and invalidateQueries in hooks/queries).
OwnSavesShown == \A k \in Keys :
    entry[k].present /\ ~entry[k].stale => Newer(entry[k].shows, owed[k])

\* The router tries its routes in order: no route hides a later one, and every
\* request of a hook finds the most specific route that fits it (buildRoutes,
\* createRouter, hooks/queries).
Parameters(i) == Cardinality({j \in DOMAIN buildRoutes[i].path : buildRoutes[i].path[j] = Id})
RoutesReached ==
    /\ \A i \in DOMAIN buildRoutes :
          Route(Ask(buildRoutes[i].method, buildRoutes[i].path, TRUE)) = buildRoutes[i]
    /\ \A request \in {Hooks[q].request : q \in Queries}
                       \cup {Mutations[m].request : m \in DOMAIN Mutations} :
          \E i \in Fitting(request) :
             /\ Route(request) = buildRoutes[i]
             /\ \A j \in Fitting(request) : Parameters(i) <= Parameters(j)

\* What a page sends, the role that can open it may send.
PagesAdmitted == \A role \in Roles, page \in AllPages : Opens(role, page) =>
    LET shown == Shown[role][page]
    IN  /\ \A q \in shown.loads : QueryAnswer[role][q] = "OK"
        /\ \A c \in shown.controls : SaveAnswer[role][c.save] \in {"OK", "FAILED"}

\* No request the application sends is refused or ends at a route it is not meant
\* for: not the queries and controls of any page a role can open, and not what is
\* on its way after users took turns in the tab (RoleGuard, useRole, the pages,
\* the handlers, the order of the routes).
NothingRefused ==
    /\ RoutesReached /\ PagesAdmitted
    /\ \A k \in Keys : fetch[k].phase # "idle" => QueryAnswer[RoleOf[fetch[k].by]][k] = "OK"

\* Pairs of a save on a page and a query the page shows that the save changes and
\* does not refresh, beyond KnownGaps.
Gaps == [role \in Roles |-> {gap \in (DOMAIN Mutations) \X Queries :
    /\ Changes[gap[1]] \cap Shows[gap[2]] # {}
    /\ gap[2] \notin Mutations[gap[1]].invalidates /\ gap \notin KnownGaps
    /\ \E page \in AllPages : /\ Opens(role, page)
                               /\ gap[2] \in Shown[role][page].loads
                               /\ \E c \in Shown[role][page].controls : c.save = gap[1]}]

\* A page that changes what it shows also refreshes it: no page the user can open
\* has a control whose save changes the items of a query on that page and does not
\* invalidate it, beyond KnownGaps (the onSuccess of every mutation hook).
GapsAreAll == session # Nobody => Gaps[RoleOf[session]] = {}

\* A page that stays open shows, again and again, what others did: the state, the
\* summary and the team's states are fetched again every minute, through failed
\* fetches and lost answers (refetchInterval in useAttendance).
PolledCatchUp == \A k \in Keys \cap {"state", "summary", "teamStates"} :
    <>[](k \in Mounted) =>
        []<>(entry[k].present /\ \A x \in Items \cap Shows[k] : entry[k].shows[x] = version[x])
=============================================================================
