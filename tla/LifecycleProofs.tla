--------------------------- MODULE LifecycleProofs ---------------------------
(***************************************************************************)
(* Proofs about Lifecycle, for every set of people and requests: the types *)
(* and, when ids do not collide, what a report promises, what logins lead  *)
(* to, and that whoever was ended stays out.                               *)
(***************************************************************************)
EXTENDS Lifecycle, TLAPS

Joining == {"create", "parallel", "rollback", "replied"}
Created == {"parallel", "rollback", "replied"}

\* Where a request is tells which of its fields are meaningful.
FlowOK(f) ==
    /\ f.pc = "free" <=> f.id = NoId
    /\ f.pc \in Joining => f.who \in People
    /\ f.auth # "none" \/ f.pay # "none" => f.pc \in Created

Shape ==
    /\ TypeOK
    /\ \A r \in Requests : FlowOK(flow[r])

\* Employee numbers.
LEMMA IdFacts == NoId \notin Ids /\ Ids \subseteq Nat
BY ClockAssumption DEF NoId, Ids

\* The shape every step keeps.
LEMMA ShapeInv == Spec => []Shape
<1> USE IdFacts, NobodyAssumption
<1>1. Init => Shape
  <2> SUFFICES ASSUME Init PROVE Shape
    OBVIOUS
  <2>1. 0 \in Ids
    BY ClockAssumption DEF Ids
  <2>2. Free \in Flow /\ FlowOK(Free)
    BY DEF Free, Flow, FlowOK, Joining, Created
  <2>3. NoProfile \in Profile /\ NoLogin \in Login
    BY DEF NoProfile, Profile, NoLogin, Login
  <2>4. QED BY <2>1, <2>2, <2>3 DEF Init, Shape, TypeOK
<1>2. Shape /\ [Next]_vars => Shape'
  <2> SUFFICES ASSUME Shape, [Next]_vars
               PROVE  Shape'
    OBVIOUS
  <2> USE DEF Shape, TypeOK, table, history
  <2>f. ASSUME NEW r \in Requests, NEW f \in Flow, FlowOK(f), flow' = [flow EXCEPT ![r] = f]
        PROVE  flow' \in [Requests -> Flow] /\ \A q \in Requests : FlowOK(flow'[q])
    BY <2>f
  <2>0. Free \in Flow /\ FlowOK(Free)
    BY DEF Free, Flow, FlowOK, Joining, Created
  <2>g. ASSUME NEW r \in Requests, Finish(r)
        PROVE  flow' \in [Requests -> Flow] /\ \A q \in Requests : FlowOK(flow'[q])
    BY <2>g, <2>f, <2>0 DEF Finish
  <2>h. ASSUME NEW r \in Requests, NEW pc, Goto(r, pc),
               \/ flow[r].pc \in {"parallel", "rollback"} /\ pc \in {"rollback", "replied"}
               \/ flow[r].pc = "find" /\ pc = "deactivate"
               \/ flow[r].pc = "deactivate" /\ pc = "disable"
               \/ flow[r].pc = "disable" /\ pc = "auditEnd"
        PROVE  flow' \in [Requests -> Flow] /\ \A q \in Requests : FlowOK(flow'[q])
    <3> DEFINE f == [flow[r] EXCEPT !.pc = pc]
    <3>1. flow[r] \in Flow /\ FlowOK(flow[r])
      OBVIOUS
    <3>2. f \in Flow /\ FlowOK(f)
      BY <3>1, <2>h DEF Flow, FlowOK, Joining, Created
    <3>3. flow' = [flow EXCEPT ![r] = f]
      BY <2>h DEF Goto
    <3> HIDE DEF f
    <3>4. QED BY <3>2, <3>3, <2>f
  <2>d. ASSUME NEW i \in Ids, NEW status \in Statuses
        PROVE  [profile EXCEPT ![i].status = status] \in [Ids -> Profile]
    BY DEF Profile
  <2>i. ASSUME NEW r \in Requests, flow[r].pc # "free"
        PROVE  flow[r].id \in Ids
    BY <2>i DEF FlowOK, Flow
  <2>1. ASSUME NEW r \in Requests, NEW p \in People, Onboard(r, p)
        PROVE  Shape'
    <3> DEFINE f == [Free EXCEPT !.pc = "create", !.id = now, !.who = p]
    <3>1. f \in Flow /\ FlowOK(f)
      BY DEF Free, Flow, FlowOK, Joining, Created
    <3>2. flow' = [flow EXCEPT ![r] = f]
      BY <2>1 DEF Onboard
    <3> HIDE DEF f
    <3>3. QED BY <3>1, <3>2, <2>f, <2>1 DEF Onboard
  <2>2. ASSUME NEW r \in Requests, NEW i \in Ids, Offboard(r, i)
        PROVE  Shape'
    <3> DEFINE f == [Free EXCEPT !.pc = "find", !.id = i]
    <3>1. f \in Flow /\ FlowOK(f)
      BY DEF Free, Flow, FlowOK, Joining, Created
    <3>2. flow' = [flow EXCEPT ![r] = f]
      BY <2>2 DEF Offboard
    <3> HIDE DEF f
    <3>3. QED BY <3>1, <3>2, <2>f, <2>2 DEF Offboard
  <2>3. ASSUME NEW r \in Requests, NEW o \in Outcomes, Create(r, o)
        PROVE  Shape'
    <3> DEFINE f == [flow[r] EXCEPT !.pc = "parallel", !.auth = "createUser", !.pay = "addEntry"]
               item == [status |-> "ACTIVE", owner |-> flow[r].who]
    <3>1. flow[r] \in Flow /\ FlowOK(flow[r]) /\ flow[r].pc = "create"
      BY <2>3 DEF Create
    <3>2. f \in Flow /\ FlowOK(f)
      BY <3>1 DEF Flow, FlowOK, Joining, Created
    <3>3. flow' = [flow EXCEPT ![r] = f] \/ Finish(r)
      BY <2>3 DEF Create
    <3>4. item \in Profile
      BY <3>1 DEF Profile, FlowOK, Joining, Statuses
    <3>5. profile' = [profile EXCEPT ![flow[r].id] = item] \/ profile' = profile
      BY <2>3 DEF Create
    <3> HIDE DEF f, item
    <3>6. profile' \in [Ids -> Profile]
      BY <3>4, <3>5
    <3>7. QED BY <3>2, <3>3, <3>6, <2>f, <2>g, <2>3 DEF Create
  <2>4. ASSUME NEW r \in Requests, NEW o \in Outcomes, CreateUser(r, o) \/ AddToGroup(r, o)
        PROVE  Shape'
    <3>1. /\ flow[r] \in Flow /\ FlowOK(flow[r])
          /\ flow[r].pc \in Created /\ flow[r].who \in People /\ flow[r].id \in Ids
      BY <2>4, <2>i DEF CreateUser, AddToGroup, FlowOK, Joining, Created
    <3>2. ASSUME NEW auth \in {"addGroup", "done", "failed"}
          PROVE  LET f == [flow[r] EXCEPT !.auth = auth] IN f \in Flow /\ FlowOK(f)
      BY <3>1 DEF Flow, FlowOK, Joining, Created
    <3>3. \E auth \in {"addGroup", "done", "failed"} :
            flow' = [flow EXCEPT ![r] = [flow[r] EXCEPT !.auth = auth]]
      BY <2>4 DEF CreateUser, AddToGroup
    <3>4. flow' \in [Requests -> Flow] /\ \A q \in Requests : FlowOK(flow'[q])
      BY <3>2, <3>3, <2>f
    <3>a. ASSUME NEW p \in People, NEW user \in Login, login' = [login EXCEPT ![p] = user]
          PROVE  login' \in [People -> Login]
      BY <3>a
    <3>b. ASSUME CreateUser(r, o)
          PROVE  login' \in [People -> Login]
      <4> DEFINE user == [emp |-> flow[r].id, group |-> FALSE]
                 p == flow[r].who
      <4>1. user \in Login /\ p \in People
        BY <3>1 DEF Login
      <4>2. login' = login \/ login' = [login EXCEPT ![p] = user]
        BY <3>b DEF CreateUser
      <4> HIDE DEF user, p
      <4>3. QED BY <4>1, <4>2, <3>a
    <3>c. ASSUME AddToGroup(r, o)
          PROVE  login' \in [People -> Login]
      <4> DEFINE p == flow[r].who
                 user == [login[p] EXCEPT !.group = TRUE]
      <4>1. user \in Login /\ p \in People
        BY <3>1 DEF Login
      <4>2. login' = login \/ login' = [login EXCEPT ![p] = user]
        BY <3>c DEF AddToGroup
      <4> HIDE DEF user, p
      <4>3. QED BY <4>1, <4>2, <3>a
    <3>5. login' \in [People -> Login]
      BY <2>4, <3>b, <3>c
    <3>6. QED BY <3>4, <3>5, <2>4 DEF CreateUser, AddToGroup
  <2>5. ASSUME NEW r \in Requests, NEW o \in Outcomes, AddEntry(r, o)
        PROVE  Shape'
    <3>1. /\ flow[r] \in Flow /\ FlowOK(flow[r])
          /\ flow[r].pc \in Created /\ flow[r].id \in Ids
      BY <2>5, <2>i DEF AddEntry, FlowOK, Created
    <3>2. ASSUME NEW pay \in {"done", "failed"}
          PROVE  LET f == [flow[r] EXCEPT !.pay = pay] IN f \in Flow /\ FlowOK(f)
      BY <3>1 DEF Flow, FlowOK, Joining, Created
    <3>3. \E pay \in {"done", "failed"} :
            flow' = [flow EXCEPT ![r] = [flow[r] EXCEPT !.pay = pay]]
      BY <2>5 DEF AddEntry
    <3>4. flow' \in [Requests -> Flow] /\ \A q \in Requests : FlowOK(flow'[q])
      BY <3>2, <3>3, <2>f
    <3>5. QED BY <3>1, <3>4, <2>5 DEF AddEntry
  <2>6. ASSUME NEW r \in Requests, NEW o \in Outcomes, Report(r, o)
        PROVE  Shape'
    <3>1. flow[r].id \in Ids /\ flow[r].who \in People
      BY <2>6, <2>i DEF Report, FlowOK, Joining, Created
    <3>2. flow' \in [Requests -> Flow] /\ \A q \in Requests : FlowOK(flow'[q])
      BY <2>6, <2>g, <2>h DEF Report
    <3>3. audit' \subseteq Ids \X {"CREATE", "UPDATE"}
      BY <3>1, <2>6 DEF Report
    <3>4. onboarded' \subseteq [id : Ids, who : People]
      BY <3>1, <2>6 DEF Report
    <3>5. QED BY <3>2, <3>3, <3>4, <2>6 DEF Report
  <2>7. ASSUME NEW r \in Requests, NEW o \in Outcomes, Rollback(r, o)
        PROVE  Shape'
    <3>1. flow[r].id \in Ids
      BY <2>7, <2>i DEF Rollback
    <3>2. flow' \in [Requests -> Flow] /\ \A q \in Requests : FlowOK(flow'[q])
      BY <2>7, <2>h DEF Rollback
    <3>3. profile' \in [Ids -> Profile]
      BY <3>1, <2>d, <2>7 DEF Rollback, Deactivated, Statuses
    <3>4. QED BY <3>1, <3>2, <3>3, <2>7 DEF Rollback
  <2>8. ASSUME NEW r \in Requests, NEW o \in Outcomes, FindEmployee(r, o) \/ Disable(r, o)
        PROVE  Shape'
    <3>1. flow' \in [Requests -> Flow] /\ \A q \in Requests : FlowOK(flow'[q])
      BY <2>8, <2>g, <2>h DEF FindEmployee, Disable
    <3>2. QED BY <3>1, <2>8 DEF FindEmployee, Disable
  <2>9. ASSUME NEW r \in Requests, NEW o \in Outcomes, Deactivate(r, o)
        PROVE  Shape'
    <3>1. flow[r].id \in Ids
      BY <2>9, <2>i DEF Deactivate
    <3>2. flow' \in [Requests -> Flow] /\ \A q \in Requests : FlowOK(flow'[q])
      BY <2>9, <2>g, <2>h DEF Deactivate
    <3>3. profile' \in [Ids -> Profile]
      BY <3>1, <2>d, <2>9 DEF Deactivate, Deactivated, Statuses
    <3>4. QED BY <3>2, <3>3, <2>9 DEF Deactivate
  <2>10. ASSUME NEW r \in Requests, NEW o \in Outcomes, AuditEnd(r, o)
         PROVE  Shape'
    <3>1. flow[r].id \in Ids
      BY <2>10, <2>i DEF AuditEnd
    <3>2. audit' \subseteq Ids \X {"CREATE", "UPDATE"}
      BY <3>1, <2>10 DEF AuditEnd
    <3>3. QED BY <3>1, <3>2, <2>10, <2>g DEF AuditEnd
  <2>11. ASSUME NEW i \in Ids, NEW status \in Patches, Patch(i, status)
         PROVE  Shape'
    <3>1. profile' \in [Ids -> Profile]
      BY PatchAssumption, <2>d, <2>11 DEF Patch, Statuses
    <3>2. QED BY <3>1, <2>11 DEF Patch
  <2>12. ASSUME NEW r \in Requests, Drop(r) \/ Die(r)
         PROVE  Shape'
    BY <2>12, <2>g DEF Drop, Die
  <2>13. CASE Tick
    BY <2>13, ClockAssumption DEF Tick, Ids
  <2>14. CASE UNCHANGED vars
    BY <2>14 DEF vars
  <2>15. QED
    BY <2>1, <2>2, <2>3, <2>4, <2>5, <2>6, <2>7, <2>8, <2>9, <2>10, <2>11, <2>12, <2>13,
       <2>14 DEF Next, Proceed
<1>3. QED BY <1>1, <1>2, PTL DEF Spec

\* Type correctness of joining and leaving.
THEOREM LifecycleType == Spec => []TypeOK
<1>1. Shape => TypeOK
  BY DEF Shape
<1>2. QED BY <1>1, ShapeInv, PTL

-----------------------------------------------------------------------------
(***************************************************************************)
(* When ids do not collide.  A record, once created, is never replaced: an *)
(* id that is being created is used by nobody else.  Everything a request  *)
(* has already seen done therefore stays done until it reports.            *)
(***************************************************************************)
Present(i) == profile[i].status # "NONE"
Out(i)     == profile[i].status = "INACTIVE" \/ i \in revived

\* What a request relies on, by where it is.
RequestBacked(f) ==
    /\ f.pc = "create" => ~Present(f.id)
    /\ f.pc \in Created \cup {"deactivate", "disable", "auditEnd"} => Present(f.id)
    /\ f.pc \in Created => profile[f.id].owner = f.who
    /\ f.auth = "addGroup" => login[f.who].emp = f.id
    /\ f.auth = "done" /\ provider = "cognito" =>
         login[f.who] = [emp |-> f.id, group |-> TRUE]
    /\ f.pay = "done" => f.id \in salaries
    /\ f.pc \in {"disable", "auditEnd"} => Out(f.id)

Apart ==
    \A r, q \in Requests :
        r # q /\ flow[r].pc = "create" /\ flow[q].pc = "create" => flow[r].id # flow[q].id

Blank == \A i \in Ids : ~Present(i) => profile[i].owner = Nobody /\ i \notin ended

Inv ==
    /\ \A r \in Requests : RequestBacked(flow[r])
    /\ Apart
    /\ Blank
    /\ ReportsComplete /\ LoginsBacked /\ EndedStayOut

\* What no step undoes.
Lasting ==
    /\ provider' = provider
    /\ \A i \in Ids : Present(i) => Present(i)' /\ profile'[i].owner = profile[i].owner
    /\ \A i \in Ids : Present(i) /\ Out(i) => Out(i)'
    /\ salaries \subseteq salaries'
    /\ audit \subseteq audit'
    /\ \A p \in People : login[p] # NoLogin =>
         /\ login'[p].emp = login[p].emp
         /\ login[p].group => login'[p] = login[p]

\* What no step takes back.
LEMMA StepsLast ==
    ASSUME Shape, Inv, [Next]_vars
    PROVE  Lasting
<1> USE DEF Shape, TypeOK, Inv, Present, Out, table, history
<1>1. ASSUME NEW r \in Requests, NEW o \in Outcomes, Create(r, o)
      PROVE  Lasting
  BY <1>1 DEF Create, RequestBacked, Lasting
<1>2. ASSUME NEW r \in Requests, NEW o \in Outcomes, CreateUser(r, o)
      PROVE  Lasting
  BY <1>2 DEF CreateUser, Lasting
<1>3. ASSUME NEW r \in Requests, NEW o \in Outcomes, AddToGroup(r, o)
      PROVE  Lasting
  <2>1. \A p \in People : login[p] \in Login
    OBVIOUS
  <2>2. ASSUME NEW p \in People
        PROVE  login'[p].emp = login[p].emp /\ (login[p].group => login'[p] = login[p])
    BY <1>3, <2>1 DEF AddToGroup, Login
  <2>3. QED BY <1>3, <2>2 DEF AddToGroup, Lasting
<1>4. ASSUME NEW r \in Requests, NEW o \in Outcomes, AddEntry(r, o) \/ Report(r, o) \/ AuditEnd(r, o)
      PROVE  Lasting
  BY <1>4 DEF AddEntry, Report, AuditEnd, Lasting
<1>6. ASSUME NEW r \in Requests, NEW o \in Outcomes, Rollback(r, o) \/ Deactivate(r, o)
      PROVE  Lasting
  <2>1. \A j \in Ids : profile[j] \in Profile
    OBVIOUS
  <2>2. flow[r].id \in Ids /\ flow[r].pc # "free"
    BY <1>6 DEF Rollback, Deactivate, FlowOK, Flow
  <2>3. CASE Applied(o)
    BY <1>6, <2>1, <2>2, <2>3 DEF Rollback, Deactivate, Deactivated, Lasting, Profile
  <2>4. CASE ~Applied(o)
    BY <1>6, <2>4 DEF Rollback, Deactivate, Lasting
  <2>5. QED BY <2>3, <2>4
<1>7. ASSUME NEW i \in Ids, NEW status \in Patches, Patch(i, status)
      PROVE  Lasting
  <2>1. \A j \in Ids : profile[j] \in Profile
    OBVIOUS
  <2>2. status = "ACTIVE" \/ status = "INACTIVE"
    BY PatchAssumption
  <2>3. QED BY <1>7, <2>1, <2>2 DEF Patch, Lasting, Profile
<1>8. CASE UNCHANGED <<provider, profile, salaries, login, audit, revived>>
  BY <1>8 DEF Lasting
<1>9. ASSUME NEW r \in Requests,
             \/ \E o \in Outcomes : FindEmployee(r, o) \/ Disable(r, o)
             \/ Drop(r) \/ Die(r)
             \/ \E p \in People : Onboard(r, p)
             \/ \E i \in Ids : Offboard(r, i)
      PROVE  Lasting
  BY <1>8, <1>9 DEF FindEmployee, Disable, Drop, Die, Onboard, Offboard
<1>10. CASE Next
  BY <1>1, <1>2, <1>3, <1>4, <1>6, <1>7, <1>8, <1>9, <1>10 DEF Next, Proceed, Tick
<1>11. CASE UNCHANGED vars
  BY <1>8, <1>11 DEF vars
<1>12. QED BY <1>10, <1>11

\* A record that is being created is created by nobody else.
LEMMA StaysBlank ==
    ASSUME ~Collide, Shape, Inv, [Next]_vars,
           NEW q \in Requests, flow[q].pc = "create", flow'[q].pc = "create"
    PROVE  flow'[q] = flow[q] /\ profile'[flow[q].id] = profile[flow[q].id]
<1> USE DEF Shape, TypeOK, Inv, Present, table, history
<1>0. flow[q] \in Flow /\ ~Present(flow[q].id) /\ flow[q].id \in Ids
  BY DEF RequestBacked, FlowOK, Flow
<1>a. ASSUME NEW r \in Requests, Finish(r)
      PROVE  r # q /\ flow'[q] = flow[q]
  BY <1>a DEF Finish, Free
<1>1. ASSUME NEW r \in Requests, NEW o \in Outcomes, Create(r, o)
      PROVE  flow'[q] = flow[q] /\ profile'[flow[q].id] = profile[flow[q].id]
  <2>1. r # q /\ flow'[q] = flow[q]
    <3>1. CASE o = "ok"
      <4>1. r # q
        BY <1>1, <3>1 DEF Create, Flow
      <4>2. QED BY <4>1, <1>1, <3>1 DEF Create
    <3>2. CASE o # "ok"
      BY <1>1, <3>2, <1>a DEF Create
    <3>3. QED BY <3>1, <3>2
  <2>2. flow[r].id # flow[q].id /\ flow[r].id \in Ids
    BY <2>1, <1>1 DEF Create, Apart, FlowOK, Flow
  <2>3. QED BY <2>1, <2>2, <1>0, <1>1 DEF Create
<1>2. ASSUME NEW r \in Requests, NEW o \in Outcomes,
             \/ CreateUser(r, o) \/ AddToGroup(r, o) \/ AddEntry(r, o) \/ Report(r, o)
             \/ Rollback(r, o) \/ FindEmployee(r, o) \/ Deactivate(r, o) \/ Disable(r, o)
             \/ AuditEnd(r, o)
      PROVE  flow'[q] = flow[q]
  <2>1. r # q
    BY <1>2 DEF CreateUser, AddToGroup, AddEntry, Report, Rollback, FindEmployee, Deactivate,
       Disable, AuditEnd, FlowOK, Created
  <2>2. QED BY <1>2, <2>1 DEF CreateUser, AddToGroup, AddEntry, Report, Rollback, FindEmployee,
       Deactivate, Disable, AuditEnd, Goto, Finish
<1>4. ASSUME NEW r \in Requests, NEW o \in Outcomes, Rollback(r, o) \/ Deactivate(r, o)
      PROVE  profile'[flow[q].id] = profile[flow[q].id]
  <2>1. flow[r] \in Flow /\ flow[r].id \in Ids /\ Present(flow[r].id)
    BY <1>4 DEF Rollback, Deactivate, RequestBacked, Created, FlowOK, Flow
  <2>2. flow[r].id # flow[q].id
    BY <2>1, <1>0
  <2>3. QED BY <1>4, <1>0, <2>1, <2>2 DEF Rollback, Deactivate, Deactivated
<1>5. ASSUME NEW i \in Ids, NEW status \in Patches, Patch(i, status)
      PROVE  flow'[q] = flow[q] /\ profile'[flow[q].id] = profile[flow[q].id]
  BY <1>5 DEF Patch
<1>6. ASSUME NEW r \in Requests, Drop(r) \/ Die(r)
      PROVE  flow'[q] = flow[q] /\ profile' = profile
  BY <1>6, <1>a DEF Drop, Die
<1>7. ASSUME NEW r \in Requests, \/ \E p \in People : Onboard(r, p)
                                 \/ \E i \in Ids : Offboard(r, i)
      PROVE  flow'[q] = flow[q] /\ profile' = profile
  <2>1. r # q
    BY <1>7 DEF Onboard, Offboard
  <2>2. QED BY <1>7, <2>1 DEF Onboard, Offboard
<1>8. ASSUME NEW r \in Requests, NEW o \in Outcomes,
             \/ CreateUser(r, o) \/ AddToGroup(r, o) \/ AddEntry(r, o) \/ Report(r, o)
             \/ FindEmployee(r, o) \/ Disable(r, o) \/ AuditEnd(r, o)
      PROVE  profile' = profile
  BY <1>8 DEF CreateUser, AddToGroup, AddEntry, Report, FindEmployee, Disable, AuditEnd
<1>9. CASE UNCHANGED <<flow, profile>>
  BY <1>9
<1>10. CASE Next
  BY <1>10, <1>1, <1>2, <1>4, <1>5, <1>6, <1>7, <1>8, <1>9 DEF Next, Proceed, Tick
<1>11. CASE UNCHANGED vars
  BY <1>9, <1>11 DEF vars
<1>12. QED BY <1>10, <1>11

\* What a request relies on survives the steps of others.
LEMMA Keeps ==
    ASSUME Shape, Lasting, NEW f \in Flow, FlowOK(f), RequestBacked(f),
           f.pc = "create" => ~Present(f.id)'
    PROVE  RequestBacked(f)'
<1>1. f.pc # "free" => f.id \in Ids
  BY DEF FlowOK, Flow
<1>2. f.pc \in Created \cup {"deactivate", "disable", "auditEnd"} => Present(f.id)'
  BY <1>1 DEF RequestBacked, Lasting, Created
<1>3. f.pc \in Created => profile'[f.id].owner = f.who
  BY <1>1 DEF RequestBacked, Lasting, Created
<1>4. f.auth # "none" => f.who \in People /\ f.id \in Ids
  BY <1>1 DEF FlowOK, Created, Joining
<1>5. f.auth = "addGroup" => login'[f.who].emp = f.id
  BY <1>4, IdFacts DEF RequestBacked, Lasting, NoLogin
<1>6. f.auth = "done" /\ provider' = "cognito" => login'[f.who] = [emp |-> f.id, group |-> TRUE]
  BY <1>4, IdFacts DEF RequestBacked, Lasting, NoLogin
<1>7. f.pay = "done" => f.id \in salaries'
  BY DEF RequestBacked, Lasting
<1>8. f.pc \in {"disable", "auditEnd"} => Out(f.id)'
  BY <1>1 DEF RequestBacked, Lasting, Created
<1>9. QED BY <1>2, <1>3, <1>5, <1>6, <1>7, <1>8 DEF RequestBacked

\* The steps of the request in slot r.
StepOf(r) ==
    \/ \E p \in People : Onboard(r, p)
    \/ \E i \in Ids : Offboard(r, i)
    \/ \E o \in Outcomes : Proceed(r, o)
    \/ Drop(r)
    \/ Die(r)

\* A request that does not step waits.
LEMMA OthersWait ==
    ASSUME NEW r \in Requests, NEW q \in Requests, q # r, Shape, StepOf(r)
    PROVE  flow'[q] = flow[q]
BY DEF StepOf, Proceed, Onboard, Offboard, Create, CreateUser, AddToGroup, AddEntry, Report,
   Rollback, FindEmployee, Deactivate, Disable, AuditEnd, Drop, Die, Goto, Finish, Shape, TypeOK

\* What a request relies on holds after its own step as well.
LEMMA OwnStep ==
    ASSUME ~Collide, Shape, Inv, Lasting,
           NEW r \in Requests, StepOf(r), NEW f, f = flow[r], NEW g, g = flow'[r]
    PROVE  RequestBacked(g)'
<1> USE DEF Shape, TypeOK, Inv, Present, table, history
<1>0. /\ f \in Flow /\ FlowOK(f) /\ RequestBacked(f)
      /\ f.pc # "free" => f.id \in Ids
  BY DEF FlowOK, Flow
<1>f. ASSUME Finish(r)
      PROVE  RequestBacked(g)'
  BY <1>f DEF Finish, Free, RequestBacked, Created
<1>1. ASSUME NEW p \in People, Onboard(r, p)
      PROVE  RequestBacked(g)'
  BY <1>1 DEF Onboard, Taken, Free, RequestBacked, Created
<1>2. ASSUME NEW i \in Ids, Offboard(r, i)
      PROVE  RequestBacked(g)'
  BY <1>2 DEF Offboard, Free, RequestBacked, Created
<1>3. ASSUME NEW o \in Outcomes, Create(r, o)
      PROVE  RequestBacked(g)'
  <2>1. CASE o = "ok"
    <3>1. f.pc = "create" /\ f.id \in Ids
      BY <1>0, <1>3 DEF Create
    <3>2. g = [f EXCEPT !.pc = "parallel", !.auth = "createUser", !.pay = "addEntry"]
      BY <1>3, <2>1 DEF Create
    <3>3. profile'[f.id] = [status |-> "ACTIVE", owner |-> f.who]
      BY <1>3, <2>1, <3>1 DEF Create, Applied
    <3>4. /\ g.pc = "parallel" /\ g.auth = "createUser" /\ g.pay = "addEntry"
          /\ g.id = f.id /\ g.who = f.who
      BY <3>2, <1>0 DEF Flow
    <3>5. QED BY <3>3, <3>4 DEF RequestBacked, Created
  <2>2. CASE o # "ok"
    BY <1>3, <2>2, <1>f DEF Create
  <2>3. QED BY <2>1, <2>2
<1>4. ASSUME NEW o \in Outcomes, CreateUser(r, o)
      PROVE  RequestBacked(g)'
  <2>1. f.pc \in Created /\ f.who \in People /\ f.id \in Ids
    BY <1>0, <1>4 DEF CreateUser, FlowOK, Created, Joining
  <2>2. \E auth \in {"addGroup", "done", "failed"} : g = [f EXCEPT !.auth = auth]
    BY <1>4 DEF CreateUser
  <2>3. g.pc = f.pc /\ g.id = f.id /\ g.who = f.who /\ g.pay = f.pay
    BY <2>2, <1>0 DEF Flow
  <2>4. g.auth = "addGroup" => provider # "stub" /\ o = "ok" /\ login[f.who] = NoLogin
    BY <1>4, <1>0 DEF CreateUser, Flow
  <2>5. g.auth = "addGroup" => login'[f.who].emp = f.id
    BY <2>1, <2>4, <1>4, ProviderAssumption DEF CreateUser, Applied
  <2>6. g.auth = "done" => provider' # "cognito"
    BY <1>4, <1>0 DEF CreateUser, Flow
  <2>7. profile' = profile /\ salaries' = salaries
    BY <1>4 DEF CreateUser
  <2>8. QED BY <1>0, <2>1, <2>3, <2>5, <2>6, <2>7 DEF RequestBacked, Created
<1>5. ASSUME NEW o \in Outcomes, AddToGroup(r, o)
      PROVE  RequestBacked(g)'
  <2>1. f.pc \in Created /\ f.who \in People /\ f.id \in Ids
    BY <1>0, <1>5 DEF AddToGroup, FlowOK, Created, Joining
  <2>2. \E auth \in {"done", "failed"} : g = [f EXCEPT !.auth = auth]
    BY <1>5 DEF AddToGroup
  <2>3. g.pc = f.pc /\ g.id = f.id /\ g.who = f.who /\ g.pay = f.pay /\ g.auth # "addGroup"
    BY <2>2, <1>0 DEF Flow
  <2>4. g.auth = "done" => o = "ok"
    BY <1>5, <1>0 DEF AddToGroup, Flow
  <2>5. login[f.who] \in Login /\ login[f.who].emp = f.id
    BY <2>1, <1>0, <1>5 DEF AddToGroup, RequestBacked
  <2>6. g.auth = "done" => login'[f.who] = [emp |-> f.id, group |-> TRUE]
    BY <2>1, <2>4, <2>5, <1>5 DEF AddToGroup, Applied, Login
  <2>7. profile' = profile /\ salaries' = salaries
    BY <1>5 DEF AddToGroup
  <2>8. QED BY <1>0, <2>1, <2>3, <2>6, <2>7 DEF RequestBacked, Created
<1>6. ASSUME NEW o \in Outcomes, AddEntry(r, o)
      PROVE  RequestBacked(g)'
  <2>1. f.pc \in Created
    BY <1>0, <1>6 DEF AddEntry, FlowOK
  <2>2. \E pay \in {"done", "failed"} : g = [f EXCEPT !.pay = pay]
    BY <1>6 DEF AddEntry
  <2>3. g.pc = f.pc /\ g.id = f.id /\ g.who = f.who /\ g.auth = f.auth
    BY <2>2, <1>0 DEF Flow
  <2>4. g.pay = "done" => f.id \in salaries'
    BY <1>6, <1>0 DEF AddEntry, Applied, Flow
  <2>5. profile' = profile /\ login' = login /\ provider' = provider
    BY <1>6 DEF AddEntry
  <2>6. QED BY <1>0, <2>1, <2>3, <2>4, <2>5 DEF RequestBacked, Created
<1>g. ASSUME NEW pc, Goto(r, pc),
             \/ f.pc \in Created /\ pc \in Created
             \/ f.pc = "find" /\ pc = "deactivate" /\ Present(f.id)
             \/ f.pc = "deactivate" /\ pc = "disable" /\ Out(f.id)'
             \/ f.pc = "disable" /\ pc = "auditEnd",
             login' = login, provider' = provider
      PROVE  RequestBacked(g)'
  <2>1. g.pc = pc /\ g.id = f.id /\ g.who = f.who /\ g.auth = f.auth /\ g.pay = f.pay
    BY <1>g, <1>0 DEF Goto, Flow
  <2>2. Present(f.id)' /\ profile'[f.id].owner = profile[f.id].owner
    BY <1>g, <1>0 DEF Lasting, RequestBacked, Created
  <2>3. f.pc = "disable" => Out(f.id)'
    BY <1>0 DEF Lasting, RequestBacked, Created
  <2>4. pc \in Created => f.pc \in Created
    BY <1>g DEF Created
  <2>5. f.pay = "done" => f.id \in salaries'
    BY <1>0 DEF Lasting, RequestBacked
  <2>6. QED BY <1>0, <1>g, <2>1, <2>2, <2>3, <2>4, <2>5 DEF RequestBacked, Created
<1>7. ASSUME NEW o \in Outcomes, Report(r, o) \/ Rollback(r, o)
      PROVE  RequestBacked(g)'
  BY <1>7, <1>f, <1>g DEF Report, Rollback, Created
<1>8. ASSUME NEW o \in Outcomes, FindEmployee(r, o) \/ Disable(r, o)
      PROVE  RequestBacked(g)'
  BY <1>8, <1>f, <1>g DEF FindEmployee, Disable
<1>9. ASSUME NEW o \in Outcomes, Deactivate(r, o)
      PROVE  RequestBacked(g)'
  <2>1. o = "ok" => Out(f.id)'
    BY <1>0, <1>9 DEF Deactivate, Deactivated, Applied, Out, Profile
  <2>2. QED BY <1>9, <2>1, <1>f, <1>g DEF Deactivate
<1>10. ASSUME \/ Drop(r) \/ Die(r) \/ \E o \in Outcomes : AuditEnd(r, o)
       PROVE  RequestBacked(g)'
  BY <1>10, <1>f DEF Drop, Die, AuditEnd
<1>11. QED
  BY <1>1, <1>2, <1>3, <1>4, <1>5, <1>6, <1>7, <1>8, <1>9, <1>10 DEF StepOf, Proceed

\* An id without a record is left alone, or gets a record.
LEMMA BlankStays ==
    ASSUME Shape, Inv, [Next]_vars, NEW i \in Ids, ~Present(i)'
    PROVE  profile'[i] = profile[i] /\ (i \in ended' => i \in ended)
<1> USE DEF Shape, TypeOK, Inv, Present, table, history
<1>1. ASSUME NEW r \in Requests, NEW o \in Outcomes, Create(r, o)
      PROVE  profile'[i] = profile[i] /\ (i \in ended' => i \in ended)
  BY <1>1 DEF Create
<1>2. ASSUME NEW r \in Requests, NEW o \in Outcomes,
             Rollback(r, o) \/ Deactivate(r, o) \/ AuditEnd(r, o)
      PROVE  profile'[i] = profile[i] /\ (i \in ended' => i \in ended)
  <2>1. flow[r] \in Flow /\ flow[r].id \in Ids /\ Present(flow[r].id)
    BY <1>2 DEF Rollback, Deactivate, AuditEnd, RequestBacked, Created, FlowOK, Flow
  <2>2. ~Present(i)
    BY StepsLast DEF Lasting
  <2>3. i # flow[r].id
    BY <2>1, <2>2
  <2>4. QED BY <1>2, <2>3 DEF Rollback, Deactivate, AuditEnd, Deactivated
<1>3. ASSUME NEW j \in Ids, NEW status \in Patches, Patch(j, status)
      PROVE  profile'[i] = profile[i] /\ (i \in ended' => i \in ended)
  <2>1. status # "NONE" /\ profile[j] \in Profile
    BY PatchAssumption
  <2>2. i # j
    BY <1>3, <2>1 DEF Patch, Profile
  <2>3. QED BY <1>3, <2>2 DEF Patch
<1>4. CASE UNCHANGED <<profile, ended>>
  BY <1>4
<1>5. ASSUME NEW r \in Requests, NEW o \in Outcomes,
             \/ CreateUser(r, o) \/ AddToGroup(r, o) \/ AddEntry(r, o) \/ Report(r, o)
             \/ FindEmployee(r, o) \/ Disable(r, o)
      PROVE  UNCHANGED <<profile, ended>>
  BY <1>5 DEF CreateUser, AddToGroup, AddEntry, Report, FindEmployee, Disable
<1>6. ASSUME NEW r \in Requests, \/ Drop(r) \/ Die(r)
                                 \/ \E p \in People : Onboard(r, p)
                                 \/ \E j \in Ids : Offboard(r, j)
      PROVE  UNCHANGED <<profile, ended>>
  BY <1>6 DEF Drop, Die, Onboard, Offboard
<1>7. CASE Next
  BY <1>7, <1>1, <1>2, <1>3, <1>4, <1>5, <1>6 DEF Next, Proceed, Tick
<1>8. CASE UNCHANGED vars
  BY <1>4, <1>8 DEF vars
<1>9. QED BY <1>7, <1>8

\* Which steps change the four pieces of state the properties are about.
LEMMA Movers ==
    ASSUME [Next]_vars
    PROVE  /\ \/ ended' = ended
              \/ \E r \in Requests, o \in Outcomes : Rollback(r, o) \/ AuditEnd(r, o)
           /\ \/ login' = login
              \/ \E r \in Requests, o \in Outcomes : CreateUser(r, o) \/ AddToGroup(r, o)
           /\ \/ salaries' = salaries
              \/ \E r \in Requests, o \in Outcomes : AddEntry(r, o)
           /\ \/ onboarded' = onboarded
              \/ \E r \in Requests, o \in Outcomes : Report(r, o)
<1> USE DEF table, history
<1>1. ASSUME NEW r \in Requests, NEW o \in Outcomes, Proceed(r, o)
      PROVE  /\ ended' = ended \/ Rollback(r, o) \/ AuditEnd(r, o)
             /\ login' = login \/ CreateUser(r, o) \/ AddToGroup(r, o)
             /\ salaries' = salaries \/ AddEntry(r, o)
             /\ onboarded' = onboarded \/ Report(r, o)
  <2>1. CASE Rollback(r, o) \/ AuditEnd(r, o) \/ Deactivate(r, o) \/ FindEmployee(r, o)
    BY <2>1 DEF Rollback, AuditEnd, Deactivate, FindEmployee
  <2>2. CASE CreateUser(r, o) \/ AddToGroup(r, o) \/ Create(r, o) \/ Disable(r, o)
    BY <2>2 DEF CreateUser, AddToGroup, Create, Disable
  <2>3. CASE AddEntry(r, o) \/ Report(r, o)
    BY <2>3 DEF AddEntry, Report
  <2>4. QED BY <1>1, <2>1, <2>2, <2>3 DEF Proceed
<1>2. ASSUME NEW r \in Requests,
             \/ Drop(r)
             \/ Die(r)
             \/ \E p \in People : Onboard(r, p)
             \/ \E i \in Ids : Offboard(r, i)
      PROVE  UNCHANGED <<ended, login, salaries, onboarded>>
  BY <1>2 DEF Drop, Die, Onboard, Offboard
<1>3. ASSUME NEW i \in Ids, NEW status \in Patches, Patch(i, status)
      PROVE  UNCHANGED <<ended, login, salaries, onboarded>>
  BY <1>3 DEF Patch
<1>4. Tick \/ UNCHANGED vars => UNCHANGED <<ended, login, salaries, onboarded>>
  BY DEF Tick, vars
<1>5. \/ \E r \in Requests, o \in Outcomes : Proceed(r, o)
      \/ UNCHANGED <<ended, login, salaries, onboarded>>
  BY <1>2, <1>3, <1>4 DEF Next
<1>6. QED BY <1>1, <1>5

\* The confirmed ends, the logins and the reports, one step later.
LEMMA EndedStep ==
    ASSUME Shape, Inv, [Next]_vars, Lasting
    PROVE  EndedStayOut'
<1> USE DEF Shape, TypeOK, Inv, table, history
<1>1. ASSUME NEW i \in ended
      PROVE  Out(i)'
  BY DEF Blank, EndedStayOut, Lasting, Out
<1>2. ASSUME NEW r \in Requests, NEW o \in Outcomes, Rollback(r, o) \/ AuditEnd(r, o),
             NEW i \in ended', i \notin ended
      PROVE  Out(i)'
  <2>1. i = flow[r].id /\ o = "ok" /\ i \in Ids
    <3>1. flow[r].id \in Ids
      BY <1>2 DEF Rollback, AuditEnd, FlowOK, Flow
    <3>2. ended' = IF o = "ok" THEN ended \cup {flow[r].id} ELSE ended
      BY <1>2 DEF Rollback, AuditEnd
    <3>3. QED BY <1>2, <3>1, <3>2
  <2>2. profile[i] \in Profile
    BY <2>1
  <2>3. CASE Rollback(r, o)
    BY <2>1, <2>2, <2>3 DEF Rollback, Deactivated, Applied, Out, Profile
  <2>4. CASE AuditEnd(r, o)
    BY <2>1, <2>4 DEF AuditEnd, RequestBacked, Out
  <2>5. QED BY <1>2, <2>3, <2>4
<1>3. \/ ended' = ended
      \/ \E r \in Requests, o \in Outcomes : Rollback(r, o) \/ AuditEnd(r, o)
  BY Movers
<1>4. \A i \in ended' : Out(i)'
  BY <1>1, <1>2, <1>3
<1>5. QED BY <1>4 DEF EndedStayOut, Out

\* Every step keeps logins backed,
LEMMA LoginsStep ==
    ASSUME Shape, Inv, [Next]_vars, Lasting
    PROVE  LoginsBacked'
<1> USE DEF Shape, TypeOK, Inv, table, history
<1>0. ASSUME NEW i \in Ids, profile[i].owner # Nobody
      PROVE  profile'[i].owner = profile[i].owner
  BY <1>0 DEF Blank, Lasting
<1>1. ASSUME NEW r \in Requests, flow[r].auth # "none" \/ flow[r].pay # "none"
      PROVE  /\ flow[r].id \in Ids /\ flow[r].who \in People
             /\ profile'[flow[r].id].owner = flow[r].who
  <2>1. flow[r].pc \in Created /\ flow[r].who \in People /\ flow[r].id \in Ids
    BY <1>1 DEF FlowOK, Created, Joining, Flow
  <2>2. QED BY <2>1, <1>0, NobodyAssumption DEF RequestBacked
<1>2. ASSUME NEW p \in People, login'[p].emp # NoId
      PROVE  profile'[login'[p].emp].owner = p
  <2>1. CASE login'[p].emp = login[p].emp
    <3>1. login[p] \in Login /\ login[p].emp \in Ids
      BY <1>2, <2>1 DEF Login
    <3>2. QED BY <3>1, <1>2, <2>1, <1>0, NobodyAssumption DEF LoginsBacked
  <2>2. CASE \E r \in Requests, o \in Outcomes : CreateUser(r, o) /\ login' # login
    <3>1. PICK r \in Requests, o \in Outcomes : CreateUser(r, o) /\ login' # login
      BY <2>2
    <3>2. login' = [login EXCEPT ![flow[r].who] = [emp |-> flow[r].id, group |-> FALSE]]
      BY <3>1 DEF CreateUser
    <3>3. \/ p = flow[r].who /\ login'[p].emp = flow[r].id
          \/ login'[p].emp = login[p].emp
      BY <3>2
    <3>4. QED BY <3>1, <3>3, <1>1, <2>1 DEF CreateUser
  <2>3. CASE \E r \in Requests, o \in Outcomes : AddToGroup(r, o)
    <3>1. PICK r \in Requests, o \in Outcomes : AddToGroup(r, o)
      BY <2>3
    <3>2. login[p] \in Login
      OBVIOUS
    <3>3. login'[p].emp = login[p].emp
      BY <3>1, <3>2 DEF AddToGroup, Login
    <3>4. QED BY <3>3, <2>1
  <2>4. \/ login' = login
        \/ \E r \in Requests, o \in Outcomes : CreateUser(r, o) /\ login' # login
        \/ \E r \in Requests, o \in Outcomes : AddToGroup(r, o)
    BY Movers
  <2>5. QED BY <2>1, <2>2, <2>3, <2>4
<1>3. ASSUME NEW i \in salaries'
      PROVE  profile'[i].owner # Nobody
  <2>1. CASE i \in salaries
    BY <2>1, <1>0 DEF LoginsBacked
  <2>2. CASE i \notin salaries
    <3>1. \E r \in Requests, o \in Outcomes : AddEntry(r, o)
      BY <2>2, <1>3, Movers
    <3>2. PICK r \in Requests, o \in Outcomes : AddEntry(r, o)
      BY <3>1
    <3>3. i = flow[r].id
      BY <3>2, <2>2, <1>3 DEF AddEntry
    <3>4. QED BY <3>2, <3>3, <1>1, NobodyAssumption DEF AddEntry
  <2>3. QED BY <2>1, <2>2
<1>4. QED BY <1>2, <1>3 DEF LoginsBacked

\* reports complete,
LEMMA ReportsStep ==
    ASSUME Shape, Inv, [Next]_vars, Lasting
    PROVE  ReportsComplete'
<1> USE DEF Shape, TypeOK, Inv, table, history
<1>1. ASSUME NEW x \in [id : Ids, who : People],
             /\ profile[x.id].owner = x.who /\ x.id \in salaries
             /\ provider = "cognito" => login[x.who] = [emp |-> x.id, group |-> TRUE]
      PROVE  /\ profile'[x.id].owner = x.who /\ x.id \in salaries'
             /\ provider' = "cognito" => login'[x.who] = [emp |-> x.id, group |-> TRUE]
  <2>1. profile'[x.id].owner = x.who
    BY <1>1, NobodyAssumption DEF Blank, Lasting
  <2>2. provider' = "cognito" => login'[x.who] = [emp |-> x.id, group |-> TRUE]
    <3>1. SUFFICES ASSUME provider = "cognito"
                   PROVE  login'[x.who] = [emp |-> x.id, group |-> TRUE]
      BY DEF Lasting
    <3>2. x.id \in Ids /\ x.who \in People /\ login[x.who] = [emp |-> x.id, group |-> TRUE]
      BY <1>1, <3>1
    <3>3. login[x.who] # NoLogin /\ login[x.who].group
      BY <3>2, IdFacts DEF NoLogin
    <3>4. login'[x.who] = login[x.who]
      BY <3>2, <3>3 DEF Lasting
    <3>5. QED BY <3>2, <3>4
  <2>3. QED BY <1>1, <2>1, <2>2 DEF Lasting
<1>2. ASSUME NEW x \in onboarded
      PROVE  /\ profile'[x.id].owner = x.who /\ x.id \in salaries'
             /\ <<x.id, "CREATE">> \in audit'
             /\ provider' = "cognito" => login'[x.who] = [emp |-> x.id, group |-> TRUE]
  <2>1. x \in [id : Ids, who : People]
    OBVIOUS
  <2>2. QED BY <1>1, <2>1 DEF ReportsComplete, Lasting
<1>3. ASSUME NEW r \in Requests, NEW o \in Outcomes, Report(r, o), NEW x \in onboarded',
             x \notin onboarded
      PROVE  /\ profile'[x.id].owner = x.who /\ x.id \in salaries'
             /\ <<x.id, "CREATE">> \in audit'
             /\ provider' = "cognito" => login'[x.who] = [emp |-> x.id, group |-> TRUE]
  <2>1. x = [id |-> flow[r].id, who |-> flow[r].who] /\ o = "ok"
    BY <1>3 DEF Report
  <2>2. flow[r].id \in Ids /\ flow[r].who \in People
    BY <1>3 DEF Report, FlowOK, Joining, Flow
  <2>3. x \in [id : Ids, who : People] /\ x.id = flow[r].id /\ x.who = flow[r].who
    BY <2>1, <2>2
  <2>4. <<x.id, "CREATE">> \in audit'
    BY <1>3, <2>1, <2>3 DEF Report, Applied
  <2>5. /\ profile[x.id].owner = x.who /\ x.id \in salaries
        /\ provider = "cognito" => login[x.who] = [emp |-> x.id, group |-> TRUE]
    BY <1>3, <2>3 DEF Report, RequestBacked, Created
  <2>6. QED BY <1>1, <2>3, <2>4, <2>5
<1>4. \/ onboarded' = onboarded
      \/ \E r \in Requests, o \in Outcomes : Report(r, o)
  BY Movers
<1>5. QED BY <1>2, <1>3, <1>4 DEF ReportsComplete

\* and requests apart and backed by what they have done.
LEMMA RequestsStep ==
    ASSUME ~Collide, Shape, Shape', Inv, [Next]_vars, Lasting
    PROVE  (\A r \in Requests : RequestBacked(flow[r]))' /\ Apart'
<1> USE DEF Shape, TypeOK, Inv
<1>1. ASSUME NEW q \in Requests, flow'[q] = flow[q]
      PROVE  RequestBacked(flow[q])'
  <2>1. ASSUME NEW f, f = flow[q]
        PROVE  RequestBacked(f)'
    <3>1. f \in Flow /\ FlowOK(f) /\ RequestBacked(f)
      BY <2>1
    <3>2. f.pc = "create" => f.id \in Ids /\ ~Present(f.id)
      BY <3>1 DEF RequestBacked, FlowOK, Flow
    <3>3. f.pc = "create" => ~Present(f.id)'
      BY <1>1, <2>1, <3>2, StaysBlank DEF Present
    <3>4. QED BY <3>1, <3>3, Keeps
  <2>2. PICK f : f = flow[q]
    OBVIOUS
  <2>3. flow'[q] = f
    BY <1>1, <2>2
  <2>4. QED BY <2>1, <2>2, <2>3
<1>2. ASSUME NEW q \in Requests, StepOf(q)
      PROVE  RequestBacked(flow[q])'
  <2>1. PICK f : f = flow[q]
    OBVIOUS
  <2>2. PICK g : g = flow'[q]
    OBVIOUS
  <2>3. RequestBacked(g)'
    BY <1>2, <2>1, <2>2, OwnStep
  <2>4. QED BY <2>2, <2>3
<1>3. \/ flow' = flow
      \/ \E r \in Requests : StepOf(r)
  BY DEF Next, StepOf, Patch, Tick, vars
<1>4. \A q \in Requests : flow'[q] = flow[q] \/ StepOf(q)
  BY <1>3, OthersWait
<1>5. (\A r \in Requests : RequestBacked(flow[r]))'
  BY <1>1, <1>2, <1>4
<1>6. ASSUME NEW q \in Requests, flow'[q].pc = "create", flow[q].pc # "create"
      PROVE  \A r \in Requests \ {q} : flow'[r] = flow[r] /\ flow[r].id # flow'[q].id
  <2>1. StepOf(q)
    BY <1>4, <1>6
  <2>2. \E p \in People : Onboard(q, p)
    <3>1. flow[q] \in Flow
      OBVIOUS
    <3>2. \A o \in Outcomes : ~Proceed(q, o)
      BY <1>6, <3>1 DEF Proceed, Create, CreateUser, AddToGroup, AddEntry, Report, Rollback,
         FindEmployee, Deactivate, Disable, AuditEnd, Goto, Finish, Free, Flow
    <3>3. ~Drop(q) /\ ~Die(q) /\ \A i \in Ids : ~Offboard(q, i)
      <4>1. ASSUME Finish(q)
            PROVE  FALSE
        BY <1>6, <4>1 DEF Finish, Free
      <4>2. ASSUME NEW i \in Ids, Offboard(q, i)
            PROVE  FALSE
        BY <1>6, <4>2 DEF Offboard, Free
      <4>3. QED BY <4>1, <4>2 DEF Drop, Die
    <3>4. QED BY <2>1, <3>2, <3>3 DEF StepOf
  <2>3. flow'[q].id = now /\ \A r \in Requests : flow[r].id # now
    BY <2>2 DEF Onboard, Taken, Free
  <2>4. QED BY <2>1, <2>3, OthersWait
<1>7. ASSUME NEW r \in Requests, NEW q \in Requests, r # q,
             flow'[r].pc = "create", flow'[q].pc = "create"
      PROVE  flow'[r].id # flow'[q].id
  <2>1. CASE flow[r].pc = "create" /\ flow[q].pc = "create"
    BY <1>7, <2>1, StaysBlank DEF Apart
  <2>2. CASE flow[r].pc # "create" \/ flow[q].pc # "create"
    BY <1>6, <1>7, <2>2
  <2>3. QED BY <2>1, <2>2
<1>8. QED BY <1>5, <1>7 DEF Apart

\* The invariant at every moment.
LEMMA InvHolds == ASSUME ~Collide PROVE Spec => []Inv
<1>1. Init => Inv
  BY IdFacts DEF Init, Inv, RequestBacked, Apart, Blank, Present, Free, NoProfile, NoLogin, Created,
     ReportsComplete, LoginsBacked, EndedStayOut
<1>2. Shape /\ Shape' /\ Inv /\ [Next]_vars => Inv'
  <2> SUFFICES ASSUME Shape, Shape', Inv, [Next]_vars
               PROVE  Inv'
    OBVIOUS
  <2>1. Lasting
    BY StepsLast
  <2>2. Blank'
    BY <2>1, BlankStays DEF Blank, Inv, Lasting
  <2>3. EndedStayOut' /\ LoginsBacked' /\ ReportsComplete'
    BY <2>1, EndedStep, LoginsStep, ReportsStep
  <2>4. (\A r \in Requests : RequestBacked(flow[r]))' /\ Apart'
    BY <2>1, RequestsStep
  <2>5. QED BY <2>2, <2>3, <2>4 DEF Inv
<1>3. QED BY <1>1, <1>2, ShapeInv, PTL DEF Spec

\* When ids do not collide, whoever is reported onboarded has the record, the
\* salary entry, the audit item and the login, for good.
THEOREM LifecycleReports == ASSUME ~Collide PROVE Spec => []ReportsComplete
<1>1. Inv => ReportsComplete
  BY DEF Inv
<1>2. QED BY <1>1, InvHolds, PTL

\* When ids do not collide, no login or salary entry precedes its employee,
\* and no two people share one.
THEOREM LifecycleLogins == ASSUME ~Collide PROVE Spec => []LoginsBacked
<1>1. Inv => LoginsBacked
  BY DEF Inv
<1>2. QED BY <1>1, InvHolds, PTL

\* When ids do not collide, no call still on its way revives an employee whose
\* end was confirmed.
THEOREM LifecycleEnded == ASSUME ~Collide PROVE Spec => []EndedStayOut
<1>1. Inv => EndedStayOut
  BY DEF Inv
<1>2. QED BY <1>1, InvHolds, PTL

=============================================================================
