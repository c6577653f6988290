----------------------------- MODULE LeaveProofs -----------------------------
(***************************************************************************)
(* Proofs about Leave, for every set of employees, dates and handlers: the *)
(* types, the audit trail, and that the service implements LeaveLedger     *)
(* when the submissions of an employee are apart.                          *)
(***************************************************************************)
EXTENDS Leave, CommonLemmas

Deciding == {"find", "refind", "update", "auditDecision"}

\* Where an invocation is tells which of its fields are meaningful.
WorkOK(w) ==
    /\ w.pc # "idle" => w.id \in Ids
    /\ w.pc \in {"balance", "put"} => w.type \in Types /\ w.len \in Lengths
    /\ w.pc \in Deciding => w.decision \in Decisions

Shape ==
    /\ TypeOK
    /\ \A h \in Handlers : WorkOK(work[h])
    /\ \A id \in indexed : Exists(id)

\* The shape every step keeps: types, the fields each step relies on, and an
\* index that shows nothing but requests in the table.
LEMMA ShapeInv == Spec => []Shape
<1> USE DEF Ledger!Types, Types, Ledger!Decisions, Decisions, Ledger!NoEntry, NoEntry
<1>1. Init => Shape
  BY DEF Init, Shape, TypeOK, WorkOK, Idle, Work, Steps, Deciding, Entry, Ids, Exists
<1>2. Shape /\ [Next]_vars => Shape'
  <2> SUFFICES ASSUME Shape, [Next]_vars
               PROVE  Shape'
    OBVIOUS
  <2> USE DEF Shape, TypeOK
  <2>a. ASSUME NEW h \in Handlers, NEW w \in Work, WorkOK(w),
               work' = [work EXCEPT ![h] = w],
               UNCHANGED <<leave, readable, indexed, dead>>, audit' \subseteq AuditItem
        PROVE  Shape'
    BY <2>a DEF Exists
  <2>b. ASSUME NEW h \in Handlers, NEW w \in Work, WorkOK(w),
               work' = [work EXCEPT ![h] = w],
               UNCHANGED <<indexed, audit, dead>>,
               NEW id \in Ids, NEW entry \in Entry, entry.status # "NONE",
               leave' = [leave EXCEPT ![id[1]][id[2]] = entry],
               readable' = [readable EXCEPT ![id[1]][id[2]] = @ \cup {Ledger!Days(entry)}]
        PROVE  Shape'
    <3>1. id[1] \in Employees /\ id[2] \in Dates
      BY DEF Ids
    <3>a. Ledger!Days(entry) \in Lengths \cup {0}
      BY <2>b DEF Entry, Ledger!Days
    <3>b. readable' \in [Employees -> [Dates -> SUBSET (Lengths \cup {0})]]
      BY <2>b, <3>1, <3>a
    <3>2. leave' \in [Employees -> [Dates -> Entry]]
      BY <2>b, <3>1
    <3>3. ASSUME NEW x \in Ids, Exists(x)
          PROVE  Exists(x)'
      BY <2>b, <3>1, <3>3 DEF Exists, Ids
    <3>4. QED BY <2>b, <3>2, <3>3, <3>b
  <2>c. ASSUME NEW h \in Handlers
        PROVE  work[h] \in Work /\ WorkOK(work[h])
    OBVIOUS
  <2>d. Idle \in Work /\ WorkOK(Idle)
    BY DEF Idle, Work, Steps, WorkOK, Deciding
  <2>1. ASSUME NEW h \in Handlers, NEW e \in Employees, NEW d \in Dates,
               NEW type \in Types, NEW len \in Lengths, Submit(h, e, d, type, len)
        PROVE  Shape'
    <3> DEFINE w == [Idle EXCEPT
                  !.pc = IF type = "PAID" THEN "balance" ELSE "put",
                  !.id = <<e, d>>, !.type = type, !.len = len]
    <3>1. w \in Work /\ WorkOK(w)
      BY DEF Idle, Work, Steps, WorkOK, Deciding, Ids
    <3>2. QED BY <3>1, <2>1, <2>a DEF Submit
  <2>2. ASSUME NEW h \in Handlers, NEW id \in Ids, NEW decision \in Decisions,
               StartDecision(h, id, decision)
        PROVE  Shape'
    <3> DEFINE w == [Idle EXCEPT !.pc = "find", !.id = id, !.decision = decision]
    <3>1. w \in Work /\ WorkOK(w)
      BY DEF Idle, Work, Steps, WorkOK, Deciding
    <3>2. QED BY <3>1, <2>2, <2>a DEF StartDecision
  <2>3. ASSUME NEW h \in Handlers, ReadBalance(h) \/ Find(h) \/ Refind(h)
        PROVE  Shape'
    <3>1. ASSUME NEW pc \in {"put", "refind", "update"},
                 \/ pc = "put" /\ work[h].pc = "balance"
                 \/ pc = "refind" /\ work[h].pc = "find"
                 \/ pc = "update" /\ work[h].pc = "refind"
          PROVE  LET w == [work[h] EXCEPT !.pc = pc] IN w \in Work /\ WorkOK(w)
      BY <3>1, <2>c DEF Work, Steps, WorkOK, Deciding
    <3>2. \/ work' = [work EXCEPT ![h] = Idle]
          \/ \E pc \in {"put", "refind", "update"} :
               /\ \/ pc = "put" /\ work[h].pc = "balance"
                  \/ pc = "refind" /\ work[h].pc = "find"
                  \/ pc = "update" /\ work[h].pc = "refind"
               /\ work' = [work EXCEPT ![h] = [work[h] EXCEPT !.pc = pc]]
      BY <2>3 DEF ReadBalance, Find, Refind, Goto, Finish
    <3>3. UNCHANGED <<leave, readable, indexed, audit, dead>>
      BY <2>3 DEF ReadBalance, Find, Refind
    <3>4. QED BY <3>1, <3>2, <3>3, <2>a, <2>d
  <2>4. ASSUME NEW h \in Handlers, Put(h)
        PROVE  Shape'
    <3> DEFINE w == [work[h] EXCEPT !.pc = "auditCreate"]
               entry == [status |-> "PENDING", type |-> work[h].type, len |-> work[h].len]
    <3>1. w \in Work /\ WorkOK(w) /\ work[h].id \in Ids
      BY <2>4, <2>c DEF Put, Work, Steps, WorkOK, Deciding
    <3>2. entry \in Entry /\ entry.status # "NONE"
      BY <2>4, <2>c DEF Put, WorkOK, Entry
    <3>3. /\ leave' = [leave EXCEPT ![work[h].id[1]][work[h].id[2]] = entry]
          /\ readable' = [readable EXCEPT ![work[h].id[1]][work[h].id[2]] =
                            @ \cup {Ledger!Days(entry)}]
          /\ work' = [work EXCEPT ![h] = w]
          /\ UNCHANGED <<indexed, audit, dead>>
      BY <2>4 DEF Put, Write, Goto, Emp, Date
    <3> HIDE DEF w, entry
    <3>4. QED BY <3>1, <3>2, <3>3, <2>b
  <2>5. ASSUME NEW h \in Handlers, Update(h)
        PROVE  Shape'
    <3> DEFINE w == [work[h] EXCEPT !.pc = "auditDecision"]
               id == work[h].id
               entry == [leave[id[1]][id[2]] EXCEPT !.status = work[h].decision]
    <3>1. w \in Work /\ WorkOK(w) /\ id \in Ids /\ work[h].decision \in Decisions
      BY <2>5, <2>c DEF Update, Work, Steps, WorkOK, Deciding
    <3>2. id[1] \in Employees /\ id[2] \in Dates
      BY <3>1 DEF Ids
    <3>a. leave[id[1]][id[2]] \in Entry
      BY <3>2
    <3>3. entry \in Entry /\ entry.status # "NONE"
      BY <3>1, <3>a DEF Entry
    <3>4. /\ leave' = [leave EXCEPT ![id[1]][id[2]] = entry]
          /\ readable' = [readable EXCEPT ![id[1]][id[2]] = @ \cup {Ledger!Days(entry)}]
      BY <2>5, <3>2 DEF Update, Write, Emp, Date
    <3>5. work' = [work EXCEPT ![h] = w] /\ UNCHANGED <<indexed, audit, dead>>
      BY <2>5 DEF Update, Goto
    <3> HIDE DEF w, entry, id
    <3>6. QED BY <3>1, <3>3, <3>4, <3>5, <2>b
  <2>6. ASSUME NEW h \in Handlers, AuditCreate(h) \/ AuditDecision(h)
        PROVE  Shape'
    <3>1. Owed(h) \subseteq AuditItem
      BY <2>6, <2>c DEF Owed, AuditCreate, AuditDecision, WorkOK, Deciding, AuditItem
    <3>2. QED BY <3>1, <2>6, <2>a, <2>d DEF AuditCreate, AuditDecision, Finish
  <2>7. ASSUME NEW id \in Ids, Propagate(id)
        PROVE  Shape'
    BY <2>7 DEF Propagate, Exists
  <2>8. ASSUME NEW h \in Handlers, Die(h)
        PROVE  Shape'
    BY <2>8 DEF Die, Exists
  <2>f. ASSUME NEW id \in Ids, CatchUp(id)
        PROVE  Shape'
    <3>1. id[1] \in Employees /\ id[2] \in Dates
      BY DEF Ids
    <3>2. Ledger!Days(leave[id[1]][id[2]]) \in Lengths \cup {0}
      BY <3>1 DEF Entry, Ledger!Days
    <3>3. readable' \in [Employees -> [Dates -> SUBSET (Lengths \cup {0})]]
      BY <2>f, <3>1, <3>2 DEF CatchUp
    <3>4. QED BY <2>f, <3>3 DEF CatchUp, Exists
  <2>9. CASE UNCHANGED vars
    BY <2>9 DEF vars, Exists
  <2>10. QED
    BY <2>1, <2>2, <2>3, <2>4, <2>5, <2>6, <2>7, <2>8, <2>9, <2>f
    DEF Next, Proceed, Decisions, Types
<1>3. QED BY <1>1, <1>2, PTL DEF Spec

\* Type correctness of the leave service.
THEOREM LeaveType == Spec => []TypeOK
<1>1. Shape => TypeOK
  BY DEF Shape
<1>2. QED BY <1>1, ShapeInv, PTL

-----------------------------------------------------------------------------
(***************************************************************************)
(* What a step does to one invocation.                                     *)
(***************************************************************************)
Starts(h) ==
    \/ \E e \in Employees, d \in Dates, type \in Types, len \in Lengths :
         Submit(h, e, d, type, len)
    \/ \E id \in Ids, decision \in Decisions : StartDecision(h, id, decision)

\* An invocation moves only by its own steps.
LEMMA Moves ==
    ASSUME TypeOK, [Next]_vars, NEW h \in Handlers
    PROVE  \/ work'[h] = work[h]
           \/ h \notin dead /\ (Starts(h) \/ Proceed(h))
<1>1. ASSUME NEW g \in Handlers, g # h, Starts(g) \/ Proceed(g)
      PROVE  work'[h] = work[h]
  BY <1>1 DEF TypeOK, Starts, Submit, StartDecision, Proceed, ReadBalance, Put, AuditCreate,
     Find, Refind, Update, AuditDecision, Finish, Goto
<1>2. UNCHANGED work \/ \E g \in Handlers \ dead : Starts(g) \/ Proceed(g)
  <2>1. CASE UNCHANGED vars
    BY <2>1 DEF vars
  <2>2. ASSUME NEW g \in Handlers, Die(g)
        PROVE  UNCHANGED work
    BY <2>2 DEF Die
  <2>3. ASSUME NEW id \in Ids, Propagate(id) \/ CatchUp(id)
        PROVE  UNCHANGED work
    BY <2>3 DEF Propagate, CatchUp
  <2>4. ASSUME NEW g \in Handlers \ dead,
               \/ \E e \in Employees, d \in Dates, type \in Types, len \in Lengths :
                    Submit(g, e, d, type, len)
               \/ \E id \in Ids, decision \in Decisions : StartDecision(g, id, decision)
        PROVE  Starts(g)
    BY <2>4 DEF Starts
  <2>5. CASE Next
    BY <2>2, <2>3, <2>4, <2>5 DEF Next
  <2>6. QED BY <2>1, <2>5
<1>3. QED BY <1>1, <1>2

\* An invocation that starts has a submission or a lookup before it.
LEMMA Started ==
    ASSUME TypeOK, NEW h \in Handlers, Starts(h)
    PROVE  work'[h].pc \in {"balance", "put", "find"}
           /\ (work'[h].pc = "put" => work'[h].type # "PAID")
<1>1. ASSUME NEW e \in Employees, NEW d \in Dates, NEW type \in Types, NEW len \in Lengths,
             Submit(h, e, d, type, len)
      PROVE  work'[h].pc \in {"balance", "put"} /\ (work'[h].pc = "put" => work'[h].type # "PAID")
  BY <1>1 DEF TypeOK, Submit, Idle
<1>2. ASSUME NEW id \in Ids, NEW decision \in Decisions, StartDecision(h, id, decision)
      PROVE  work'[h].pc = "find"
  BY <1>2 DEF TypeOK, StartDecision, Idle
<1>3. QED BY <1>1, <1>2 DEF Starts

\* A step inside the invocation keeps what it is about.
LEMMA Steady ==
    ASSUME TypeOK, NEW h \in Handlers, NEW pc, Goto(h, pc)
    PROVE  /\ work'[h].pc = pc /\ work'[h].id = work[h].id
           /\ work'[h].type = work[h].type /\ work'[h].len = work[h].len
           /\ work'[h].decision = work[h].decision
BY DEF TypeOK, Work, Goto

\* An invocation that ends is idle.
LEMMA Ended ==
    ASSUME TypeOK, NEW h \in Handlers, Finish(h)
    PROVE  work'[h].pc = "idle"
BY DEF TypeOK, Finish, Idle

-----------------------------------------------------------------------------
(***************************************************************************)
(* Nothing is taken off the books: neither a request nor an audit item,    *)
(* written or owed.                                                        *)
(***************************************************************************)

\* A request in the table stays there.
LEMMA RequestsStay ==
    ASSUME Shape, [Next]_vars, NEW id \in Ids, Exists(id)
    PROVE  Exists(id)'
<1> USE DEF Shape, TypeOK, Exists, Ids
<1>1. ASSUME NEW h \in Handlers, Put(h)
      PROVE  Exists(id)'
  BY <1>1 DEF Put, Write, Emp, Date, WorkOK
<1>2. ASSUME NEW h \in Handlers, Update(h)
      PROVE  Exists(id)'
  <2>1. Emp(h) \in Employees /\ Date(h) \in Dates
    BY <1>2 DEF Update, Emp, Date, WorkOK
  <2>2. work[h].decision # "NONE"
    BY <1>2 DEF Update, WorkOK, Deciding, Decisions, Ledger!Decisions
  <2>3. QED BY <1>2, <2>1, <2>2 DEF Update, Write
<1>3. CASE UNCHANGED leave
  BY <1>3
<1>4. QED
  BY <1>1, <1>2, <1>3 DEF Next, vars, Submit, StartDecision, Proceed, Die, Propagate, CatchUp,
     ReadBalance, AuditCreate, Find, Refind, AuditDecision

Books == audit \cup UNION { Owed(h) : h \in Handlers }

\* An audit item that is written or owed stays so.
LEMMA ItemsStay ==
    ASSUME Shape, [Next]_vars
    PROVE  Books \subseteq Books'
<1> USE DEF Shape, TypeOK
<1>1. audit \subseteq audit'
  BY DEF Next, vars, Submit, StartDecision, Proceed, Die, Propagate, CatchUp, ReadBalance, Put,
     AuditCreate, Find, Refind, Update, AuditDecision
<1>2. ASSUME NEW g \in Handlers
      PROVE  Owed(g) \subseteq Owed(g)' \cup audit'
  <2>1. ASSUME NEW h \in Handlers, h # g,
               \/ \E e \in Employees, d \in Dates, type \in Types, len \in Lengths :
                    Submit(h, e, d, type, len)
               \/ \E id \in Ids, decision \in Decisions : StartDecision(h, id, decision)
               \/ Proceed(h)
        PROVE  work'[g] = work[g]
    BY <2>1 DEF Submit, StartDecision, Proceed, ReadBalance, Put, AuditCreate, Find, Refind,
       Update, AuditDecision, Finish, Goto
  <2>2. CASE work'[g] = work[g]
    BY <2>2 DEF Owed
  <2>3. CASE AuditCreate(g) \/ AuditDecision(g)
    BY <2>3 DEF AuditCreate, AuditDecision
  <2>4. ASSUME \/ \E e \in Employees, d \in Dates, type \in Types, len \in Lengths :
                    Submit(g, e, d, type, len)
               \/ \E id \in Ids, decision \in Decisions : StartDecision(g, id, decision)
               \/ ReadBalance(g) \/ Put(g) \/ Find(g) \/ Refind(g) \/ Update(g)
        PROVE  Owed(g) = {}
    BY <2>4 DEF Submit, StartDecision, ReadBalance, Put, Find, Refind, Update, Owed
  <2>5. CASE \/ \E h \in Handlers : Die(h)
             \/ \E id \in Ids : Propagate(id) \/ CatchUp(id)
             \/ UNCHANGED vars
    BY <2>2, <2>5 DEF vars, Die, Propagate, CatchUp
  <2>6. CASE \E h \in Handlers :
               \/ \E e \in Employees, d \in Dates, type \in Types, len \in Lengths :
                    Submit(h, e, d, type, len)
               \/ \E id \in Ids, decision \in Decisions : StartDecision(h, id, decision)
               \/ Proceed(h)
    BY <2>1, <2>2, <2>3, <2>4, <2>6 DEF Proceed
  <2>7. QED BY <2>5, <2>6 DEF Next
<1>3. QED BY <1>1, <1>2 DEF Books

-----------------------------------------------------------------------------
\* A decision only reaches a request that was made (leave.ts:60-91).
THEOREM DecisionsAreReal == Spec => []DecisionsReal
<1>1. Init => DecisionsReal
  BY DEF Init, DecisionsReal, Idle
<1>2. Shape /\ DecisionsReal /\ [Next]_vars => DecisionsReal'
  <2> SUFFICES ASSUME Shape, DecisionsReal, [Next]_vars, NEW h \in Handlers,
                      work'[h].pc \in {"refind", "update", "auditDecision"}
               PROVE  Exists(work[h].id)'
    BY DEF DecisionsReal
  <2> USE DEF Shape, TypeOK
  <2>1. ASSUME NEW id \in Ids, work'[h].id = id, Exists(id)
        PROVE  Exists(work[h].id)'
    <3>1. Exists(id)'
      BY <2>1, RequestsStay
    <3>2. QED BY <2>1, <3>1 DEF Exists
  <2>2. CASE work'[h] = work[h]
    <3>1. work[h].id \in Ids /\ Exists(work[h].id)
      BY <2>2 DEF DecisionsReal, WorkOK
    <3>2. QED BY <2>1, <2>2, <3>1
  <2>3. CASE Find(h) \/ Refind(h)
    <3>1. work[h].id \in Ids /\ Finds(work[h].id) /\ work'[h].id = work[h].id
      BY <2>3, Steady, Ended DEF Find, Refind, WorkOK, Deciding
    <3>2. Exists(work[h].id)
      BY <3>1 DEF Finds
    <3>3. QED BY <2>1, <3>1, <3>2
  <2>4. CASE Update(h)
    <3>1. work[h].id \in Ids /\ Exists(work[h].id) /\ work'[h].id = work[h].id
      BY <2>4, Steady DEF Update, WorkOK, Deciding, DecisionsReal
    <3>2. QED BY <2>1, <3>1
  <2>5. CASE ReadBalance(h) \/ Put(h) \/ AuditCreate(h) \/ AuditDecision(h)
    BY <2>5, Steady, Ended DEF ReadBalance, Put, AuditCreate, AuditDecision
  <2>6. CASE Starts(h)
    BY <2>6, Started
  <2>7. QED BY <2>2, <2>3, <2>4, <2>5, <2>6, Moves DEF Proceed
<1>3. QED BY <1>1, <1>2, ShapeInv, PTL DEF Spec

\* Every request and every decision on it has its audit item, or an invocation
\* that owes it (REQ-AUDIT-001).
THEOREM LeaveAudited == Spec => []Audited
<1>1. Init => Audited
  BY DEF Init, Audited, Exists, NoEntry, Ledger!NoEntry, Decisions, Ledger!Decisions
<1>2. Shape /\ DecisionsReal /\ Audited /\ [Next]_vars => Audited'
  <2> SUFFICES ASSUME Shape, DecisionsReal, Audited, [Next]_vars,
                      NEW e \in Employees, NEW d \in Dates
               PROVE  /\ Exists(<<e, d>>)' => [id |-> <<e, d>>, action |-> "CREATE"] \in Books'
                      /\ leave'[e][d].status \in Decisions =>
                           [id |-> <<e, d>>, action |-> leave'[e][d].status] \in Books'
    BY DEF Audited, Books, Decisions, Ledger!Decisions
  <2>1. /\ Exists(<<e, d>>) => [id |-> <<e, d>>, action |-> "CREATE"] \in Books
        /\ leave[e][d].status \in Decisions =>
             [id |-> <<e, d>>, action |-> leave[e][d].status] \in Books
    BY DEF Audited, Books
  <2>2. Books \subseteq Books'
    BY ItemsStay
  <2>3. CASE leave'[e][d] = leave[e][d]
    BY <2>1, <2>2, <2>3 DEF Exists
  <2>4. ASSUME NEW h \in Handlers, Put(h), Emp(h) = e, Date(h) = d
        PROVE  /\ leave'[e][d].status = "PENDING"
               /\ [id |-> <<e, d>>, action |-> "CREATE"] \in Books'
    <3>1. work[h].id = <<e, d>>
      BY <2>4 DEF Shape, WorkOK, Put, Emp, Date, Ids
    <3>2. work'[h].pc = "auditCreate" /\ work'[h].id = <<e, d>>
      BY <2>4, <3>1 DEF Put, Goto, Shape, TypeOK, Work
    <3>3. [id |-> <<e, d>>, action |-> "CREATE"] \in Owed(h)'
      BY <3>2 DEF Owed
    <3>4. leave'[e][d].status = "PENDING"
      BY <2>4 DEF Put, Write, Shape, TypeOK
    <3>5. QED BY <3>3, <3>4 DEF Books
  <2>5. ASSUME NEW h \in Handlers, Update(h), Emp(h) = e, Date(h) = d
        PROVE  /\ Exists(<<e, d>>)
               /\ leave'[e][d].status = work[h].decision
               /\ [id |-> <<e, d>>, action |-> work[h].decision] \in Books'
    <3>1. work[h].id = <<e, d>>
      BY <2>5 DEF Shape, WorkOK, Update, Emp, Date, Ids
    <3>2. /\ work'[h].pc = "auditDecision" /\ work'[h].id = <<e, d>>
          /\ work'[h].decision = work[h].decision
      BY <2>5, <3>1 DEF Update, Goto, Shape, TypeOK, Work
    <3>3. [id |-> <<e, d>>, action |-> work[h].decision] \in Owed(h)'
      BY <3>2 DEF Owed
    <3>4. leave'[e][d].status = work[h].decision
      BY <2>5 DEF Update, Write, Shape, TypeOK, Entry
    <3>5. Exists(<<e, d>>)
      BY <2>5, <3>1 DEF Update, DecisionsReal
    <3>6. QED BY <3>3, <3>4, <3>5 DEF Books
  <2>6. \/ leave'[e][d] = leave[e][d]
        \/ \E h \in Handlers : (Put(h) \/ Update(h)) /\ Emp(h) = e /\ Date(h) = d
    <3>1. CASE UNCHANGED leave
      BY <3>1
    <3>2. ASSUME NEW h \in Handlers, Put(h) \/ Update(h), ~(Emp(h) = e /\ Date(h) = d)
          PROVE  leave'[e][d] = leave[e][d]
      BY <3>2 DEF Put, Write, Update, Shape, TypeOK
    <3>3. QED
      BY <3>1, <3>2 DEF Next, vars, Submit, StartDecision, Proceed, Die, Propagate, CatchUp,
         ReadBalance, AuditCreate, Find, Refind, AuditDecision
  <2>7. QED
    BY <2>1, <2>2, <2>3, <2>4, <2>5, <2>6 DEF Decisions, Ledger!Decisions
<1>3. QED BY <1>1, <1>2, ShapeInv, DecisionsAreReal, PTL DEF Spec

-----------------------------------------------------------------------------
(***************************************************************************)
(* The service implements the ledger.  A submission is checked against the *)
(* balance at one await and entered at a later one; the two make one step  *)
(* of the ledger because nothing that happens between them changes the     *)
(* paid days of the employee: no other submission of the employee is under *)
(* way, and a decision changes a status and nothing else.  For the same    *)
(* reason it does not matter which versions of the items the balance is    *)
(* read from, once all of them show what the employee submitted before.    *)
(***************************************************************************)

\* Two invocations that are alive do not submit for one employee.
Alone ==
    \A g, h \in Handlers \ dead :
        g # h /\ Submitting(g) /\ Submitting(h) => Emp(g) # Emp(h)

\* Whatever version of an item a query returns while its employee submits, it has
\* the paid days of the item.
Current ==
    \A h \in Handlers \ dead : Submitting(h) =>
        \A d \in Dates : readable[Emp(h)][d] = {Ledger!Days(leave[Emp(h)][d])}

Fits(e, len) == ~Ledger!Insufficient(Ledger!UsedDays(Ledger!PaidDays(leave[e])), len)

\* A paid request about to be entered still fits the balance.
Checked ==
    \A h \in Handlers \ dead :
        work[h].pc = "put" /\ work[h].type = "PAID" => Fits(Emp(h), work[h].len)

\* Of submissions that are apart, one stays alone with the balance,
LEMMA AloneStep ==
    ASSUME Apart, Shape, Alone, [Next]_vars
    PROVE  Alone'
<1> USE DEF Shape, TypeOK
<1>1. ASSUME NEW h \in Handlers \ dead, NEW e \in Employees, NEW d \in Dates,
             NEW type \in Types, NEW len \in Lengths, Submit(h, e, d, type, len)
      PROVE  Alone'
  <2>1. /\ dead' = dead
        /\ work'[h].id = <<e, d>>
        /\ \A g \in Handlers \ {h} : work'[g] = work[g]
        /\ \A g \in Handlers \ dead : Submitting(g) => Emp(g) # e
    BY <1>1 DEF Submit, Shown, Idle
  <2>2. QED BY <2>1 DEF Alone, Submitting, Emp
<1>2. ASSUME dead \subseteq dead',
             \A g \in Handlers : \/ work'[g] = work[g]
                                 \/ work'[g].pc \notin {"balance", "put"}
                                 \/ /\ work[g].pc \in {"balance", "put"}
                                    /\ work'[g].id = work[g].id
      PROVE  Alone'
  BY <1>2 DEF Alone, Submitting, Emp
<1>3. ASSUME NEW h \in Handlers, Proceed(h)
      PROVE  Alone'
  <2>1. dead' = dead /\ \A g \in Handlers \ {h} : work'[g] = work[g]
    BY <1>3 DEF Proceed, ReadBalance, Put, AuditCreate, Find, Refind, Update,
       AuditDecision, Finish, Goto
  <2>2. \/ work'[h].pc \notin {"balance", "put"}
        \/ work[h].pc \in {"balance", "put"} /\ work'[h].id = work[h].id
    BY <1>3, Steady, Ended DEF Proceed, ReadBalance, Put, AuditCreate, Find, Refind, Update,
       AuditDecision
  <2>3. QED BY <2>1, <2>2, <1>2
<1>4. ASSUME NEW h \in Handlers, NEW id \in Ids, NEW decision \in Decisions,
             StartDecision(h, id, decision)
      PROVE  Alone'
  <2>1. dead' = dead /\ work'[h].pc = "find" /\ \A g \in Handlers \ {h} : work'[g] = work[g]
    BY <1>4 DEF StartDecision, Idle
  <2>2. QED BY <2>1, <1>2
<1>5. CASE UNCHANGED work /\ dead \subseteq dead'
  BY <1>5, <1>2
<1>6. QED BY <1>1, <1>3, <1>4, <1>5 DEF Next, vars, Die, Propagate, CatchUp

\* A decision keeps the paid days of every item.
LEMMA DecisionKeepsDays ==
    ASSUME Shape, NEW g \in Handlers, Update(g), NEW e \in Employees, NEW d \in Dates
    PROVE  /\ Ledger!Days(leave'[e][d]) = Ledger!Days(leave[e][d])
           /\ readable[e][d] = {Ledger!Days(leave[e][d])} =>
                readable'[e][d] = {Ledger!Days(leave'[e][d])}
<1> USE DEF Shape, TypeOK
<1>1. Emp(g) \in Employees /\ Date(g) \in Dates
  BY DEF Update, WorkOK, Emp, Date, Ids
<1> DEFINE entry == [leave[Emp(g)][Date(g)] EXCEPT !.status = work[g].decision]
<1>2. leave[Emp(g)][Date(g)] \in Entry
  BY <1>1
<1>3. Ledger!Days(entry) = Ledger!Days(leave[Emp(g)][Date(g)])
  BY <1>2 DEF Entry, Ledger!Days
<1>4. /\ leave' = [leave EXCEPT ![Emp(g)][Date(g)] = entry]
      /\ readable' = [readable EXCEPT ![Emp(g)][Date(g)] = @ \cup {Ledger!Days(entry)}]
  BY DEF Update, Write
<1> HIDE DEF entry
<1>5. CASE e = Emp(g) /\ d = Date(g)
  BY <1>1, <1>3, <1>4, <1>5
<1>6. CASE ~(e = Emp(g) /\ d = Date(g))
  BY <1>1, <1>4, <1>6
<1>7. QED BY <1>5, <1>6

\* every version it may read stays current,
LEMMA CurrentStep ==
    ASSUME Apart, Shape, Alone, Current, [Next]_vars
    PROVE  Current'
<1> SUFFICES ASSUME NEW h \in Handlers, h \notin dead', Submitting(h)', NEW d \in Dates
             PROVE  (readable[Emp(h)][d] = {Ledger!Days(leave[Emp(h)][d])})'
  BY DEF Current
<1> USE DEF Shape, TypeOK
<1>1. h \notin dead
  BY DEF Next, vars, Submit, StartDecision, Proceed, ReadBalance, Put, AuditCreate, Find,
     Refind, Update, AuditDecision, Die, Propagate, CatchUp
<1>2. ASSUME NEW e \in Employees, NEW date \in Dates, NEW type \in Types,
             NEW len \in Lengths, Submit(h, e, date, type, len)
      PROVE  (readable[Emp(h)][d] = {Ledger!Days(leave[Emp(h)][d])})'
  <2>1. Emp(h)' = e /\ readable[e][d] = {Ledger!Days(leave[e][d])}
        /\ UNCHANGED <<leave, readable>>
    BY <1>2 DEF Submit, Shown, Idle, Emp
  <2>2. QED BY <2>1
<1>3. CASE Submitting(h) /\ work'[h].id = work[h].id
  <2> DEFINE e == Emp(h)
  <2>1. /\ Emp(h)' = e /\ e \in Employees
        /\ readable[e][d] = {Ledger!Days(leave[e][d])}
        /\ Emp(h) = e
    BY <1>1, <1>3 DEF Current, Submitting, Emp, WorkOK, Ids
  <2> HIDE DEF e
  <2>2. CASE UNCHANGED <<leave, readable>>
    BY <2>1, <2>2
  <2>3. ASSUME NEW g \in Handlers \ dead, Put(g)
        PROVE  leave'[e] = leave[e] /\ readable'[e] = readable[e]
    <3>1. g # h
      BY <2>3, <1>3, Steady DEF Put, Submitting
    <3>2. Emp(g) # e
      BY <3>1, <1>1, <1>3, <2>1, <2>3 DEF Alone, Put, Submitting
    <3>3. QED BY <3>2, <2>1, <2>3 DEF Put, Write
  <2>4. ASSUME NEW g \in Handlers, Update(g)
        PROVE  readable'[e][d] = {Ledger!Days(leave'[e][d])}
    BY <2>1, <2>4, DecisionKeepsDays
  <2>5. ASSUME NEW id \in Ids, CatchUp(id)
        PROVE  leave'[e] = leave[e] /\ readable'[e][d] = {Ledger!Days(leave[e][d])}
    BY <2>1, <2>5 DEF CatchUp, Ids
  <2>6. \/ UNCHANGED <<leave, readable>>
        \/ \E g \in Handlers \ dead : Put(g)
        \/ \E g \in Handlers : Update(g)
        \/ \E id \in Ids : CatchUp(id)
    BY DEF Next, vars, Submit, StartDecision, Proceed, Die, Propagate,
       ReadBalance, AuditCreate, Find, Refind, AuditDecision
  <2>7. QED BY <2>1, <2>2, <2>3, <2>4, <2>5, <2>6
<1>4. \/ Submitting(h) /\ work'[h].id = work[h].id
      \/ \E e \in Employees, date \in Dates, type \in Types, len \in Lengths :
           Submit(h, e, date, type, len)
  <2>1. CASE work'[h] = work[h]
    BY <2>1 DEF Submitting
  <2>2. CASE ReadBalance(h)
    BY <2>2, Steady, Ended DEF ReadBalance, Submitting
  <2>3. CASE Put(h) \/ AuditCreate(h) \/ Find(h) \/ Refind(h) \/ Update(h) \/ AuditDecision(h)
    BY <2>3, Steady, Ended DEF Put, AuditCreate, Find, Refind, Update, AuditDecision, Submitting
  <2>4. ASSUME NEW id \in Ids, NEW decision \in Decisions, StartDecision(h, id, decision)
        PROVE  FALSE
    BY <2>4 DEF StartDecision, Idle, Submitting
  <2>5. QED BY <2>1, <2>2, <2>3, <2>4, Moves DEF Starts, Proceed
<1>5. QED BY <1>2, <1>3, <1>4

\* and what it has checked still fits when it writes.
LEMMA CheckedStep ==
    ASSUME Apart, Shape, Alone, Current, Checked, [Next]_vars
    PROVE  Checked'
<1> SUFFICES ASSUME NEW h \in Handlers, h \notin dead',
                    work'[h].pc = "put", work'[h].type = "PAID"
             PROVE  Fits(Emp(h), work[h].len)'
  BY DEF Checked
<1> USE DEF Shape, TypeOK
<1>1. h \notin dead
  BY DEF Next, vars, Submit, StartDecision, Proceed, ReadBalance, Put, AuditCreate, Find,
     Refind, Update, AuditDecision, Die, Propagate, CatchUp
<1>2. ASSUME NEW e \in Employees, NEW len, Ledger!PaidDays(leave'[e]) = Ledger!PaidDays(leave[e]),
             Emp(h)' = e, work'[h].len = len, Fits(e, len)
      PROVE  Fits(Emp(h), work[h].len)'
  BY <1>2 DEF Fits
<1>3. CASE work'[h] = work[h]
  <2>1. Fits(Emp(h), work[h].len) /\ Emp(h) \in Employees /\ Submitting(h)
    BY <1>1, <1>3 DEF Checked, Submitting, WorkOK, Emp, Ids
  <2>2. Ledger!PaidDays(leave'[Emp(h)]) = Ledger!PaidDays(leave[Emp(h)])
    <3>1. CASE UNCHANGED leave
      BY <3>1
    <3>2. ASSUME NEW g \in Handlers \ dead, Put(g)
          PROVE  leave'[Emp(h)] = leave[Emp(h)]
      <4>1. g # h
        BY <3>2, <1>3 DEF Put, Goto
      <4>2. Emp(g) # Emp(h)
        BY <4>1, <1>1, <2>1, <3>2 DEF Alone, Put, Submitting
      <4>3. QED BY <4>2, <2>1, <3>2 DEF Put, Write
    <3>3. ASSUME NEW g \in Handlers, Update(g)
          PROVE  \A d \in Dates :
                    Ledger!Days(leave'[Emp(h)][d]) = Ledger!Days(leave[Emp(h)][d])
      BY <2>1, <3>3, DecisionKeepsDays
    <3>4. \/ UNCHANGED leave
          \/ \E g \in Handlers \ dead : Put(g)
          \/ \E g \in Handlers : Update(g)
      BY DEF Next, vars, Submit, StartDecision, Proceed, Die, Propagate, CatchUp,
         ReadBalance, AuditCreate, Find, Refind, AuditDecision
    <3>5. QED BY <2>1, <3>1, <3>2, <3>3, <3>4 DEF Ledger!PaidDays
  <2> DEFINE e == Emp(h)
             len == work[h].len
  <2>3. e \in Employees /\ Fits(e, len) /\ Emp(h)' = e /\ work'[h].len = len
        /\ Ledger!PaidDays(leave'[e]) = Ledger!PaidDays(leave[e])
    BY <2>1, <2>2, <1>3 DEF Emp
  <2> HIDE DEF e, len
  <2>4. QED BY <2>3, <1>2
<1>4. CASE ReadBalance(h)
  <2> DEFINE e == Emp(h)
             len == work[h].len
  <2>2. e \in Employees
    BY <1>4 DEF ReadBalance, WorkOK, Emp, Ids
  <2>4. ASSUME NEW days \in DaysRead(e)
        PROVE  days = Ledger!PaidDays(leave[e])
    <3>1. \A d \in Dates : days[d] = Ledger!Days(leave[e][d])
      BY <1>1, <1>4, <2>4 DEF DaysRead, Current, ReadBalance, Submitting
    <3>2. days = [d \in Dates |-> days[d]]
      BY <2>4 DEF DaysRead
    <3>3. QED BY <3>1, <3>2 DEF Ledger!PaidDays
  <2>5. PICK days \in DaysRead(e) :
          IF Ledger!Insufficient(Ledger!UsedDays(days), len) THEN Finish(h) ELSE Goto(h, "put")
    BY <1>4 DEF ReadBalance
  <2>1. Fits(e, len) /\ leave' = leave /\ Emp(h)' = e /\ work'[h].len = len
    <3>1. Goto(h, "put") /\ ~Ledger!Insufficient(Ledger!UsedDays(days), len)
      BY <2>5, Ended
    <3>2. Fits(e, len)
      BY <2>4, <3>1 DEF Fits
    <3>3. QED BY <1>4, <3>1, <3>2, Steady DEF ReadBalance, Emp
  <2> HIDE DEF e, len
  <2>3. QED BY <2>1, <2>2, <1>2
<1>5. work'[h] = work[h] \/ ReadBalance(h)
  <2>1. CASE Starts(h)
    BY <2>1, Started
  <2>2. CASE Put(h) \/ AuditCreate(h) \/ Find(h) \/ Refind(h) \/ Update(h) \/ AuditDecision(h)
    BY <2>2, Steady, Ended DEF Put, AuditCreate, Find, Refind, Update, AuditDecision
  <2>3. QED BY <2>1, <2>2, Moves DEF Proceed
<1>6. QED BY <1>3, <1>4, <1>5

\* The leave service implements the ledger when an employee submits again only
\* once every replica shows the last request, whatever decisions interleave,
\* whichever versions of decided requests the balance is read from and whatever
\* invocations die (leave/service.ts:25-94, 124-150).
THEOREM LeaveImplementsLedger ==
    ASSUME Apart
    PROVE  Spec => ImplementsLedger
<1>1. Init => Ledger!Init /\ Alone /\ Current /\ Checked
  BY DEF Init, Ledger!Init, NoEntry, Alone, Current, Checked, Submitting, Idle
<1>2. Shape /\ Alone /\ [Next]_vars => Alone'
  BY AloneStep
<1>a. Shape /\ Alone /\ Current /\ [Next]_vars => Current'
  BY CurrentStep
<1>3. Shape /\ Alone /\ Current /\ Checked /\ [Next]_vars => Checked'
  BY CheckedStep
<1>4. Shape /\ DecisionsReal /\ Checked /\ [Next]_vars => [Ledger!Next]_leave
  <2> SUFFICES ASSUME Shape, DecisionsReal, Checked, [Next]_vars
               PROVE  [Ledger!Next]_leave
    OBVIOUS
  <2> USE DEF Shape, TypeOK
  <2>1. ASSUME NEW h \in Handlers \ dead, Put(h)
        PROVE  Ledger!Next
    <3>1. /\ Emp(h) \in Employees /\ Date(h) \in Dates
          /\ work[h].type \in Types /\ work[h].len \in Lengths
      BY <2>1 DEF Put, WorkOK, Emp, Date, Ids
    <3>2. Ledger!Enter(Emp(h), Date(h), work[h].type, work[h].len)
      BY <2>1 DEF Put, Write, Ledger!Enter, Checked, Fits
    <3>3. QED BY <3>1, <3>2 DEF Ledger!Next, Types
  <2>2. ASSUME NEW h \in Handlers \ dead, Update(h)
        PROVE  Ledger!Next
    <3>1. /\ Emp(h) \in Employees /\ Date(h) \in Dates
          /\ work[h].decision \in Decisions /\ work[h].id \in Ids
      BY <2>2 DEF Update, WorkOK, Deciding, Emp, Date, Ids
    <3>2. leave[Emp(h)][Date(h)].status # "NONE"
      BY <2>2, <3>1 DEF Update, DecisionsReal, Exists, Emp, Date
    <3>3. Ledger!Decide(Emp(h), Date(h), work[h].decision)
      BY <2>2, <3>2 DEF Update, Write, Ledger!Decide
    <3>4. QED BY <3>1, <3>3 DEF Ledger!Next, Decisions
  <2>3. \/ UNCHANGED leave
        \/ \E h \in Handlers \ dead : Put(h) \/ Update(h)
    BY DEF Next, vars, Submit, StartDecision, Proceed, Die, Propagate, CatchUp,
       ReadBalance, AuditCreate, Find, Refind, AuditDecision
  <2>4. QED BY <2>1, <2>2, <2>3
<1>5. QED
  BY <1>1, <1>2, <1>a, <1>3, <1>4, ShapeInv, DecisionsAreReal, PTL
  DEF Spec, ImplementsLedger, Ledger!Spec

-----------------------------------------------------------------------------
(***************************************************************************)
(* The quota.  No entry on the ledger takes the paid days beyond it, so    *)
(* the service keeps the quota as far as it implements the ledger.         *)
(***************************************************************************)
Lens == Lengths \cup {0}

\* As long as every length is a number, the days used are the sum of the paid
\* ones.
LEMMA UsedIsSum ==
    ASSUME Ledger!NaN \notin Lengths, NEW days \in [Dates -> Lens]
    PROVE  /\ Ledger!UsedDays(days) = SumFunctionOnSet(days, Dates)
           /\ SumFunctionOnSet(days, Dates) \in Nat
           /\ \A d \in Dates : days[d] \in Nat
<1>1. \A d \in Dates : days[d] \in Nat /\ days[d] # Ledger!NaN
  <2>1. \A len \in Lens : len \in Nat
    BY LengthAssumption DEF Ledger!NaN, Lens
  <2>2. QED BY <2>1 DEF Ledger!NaN
<1>2. DOMAIN days = Dates /\ IsFiniteSet(Dates)
  BY DateAssumption
<1>3. Ledger!SumFunction(days) = SumFunctionOnSet(days, Dates)
  <2>1. Ledger!SumFunction(days) = SumFunctionOnSet(days, DOMAIN days)
    BY DEF Ledger!SumFunction, Ledger!SumFunctionOnSet, Ledger!FoldFunctionOnSet,
           Ledger!MapThenFoldSet, SumFunctionOnSet, FoldFunctionOnSet, MapThenFoldSet
  <2>2. QED BY <1>2, <2>1
<1>4. Ledger!UsedDays(days) = SumFunctionOnSet(days, Dates)
  BY <1>1, <1>2, <1>3 DEF Ledger!UsedDays
<1>5. SumFunctionOnSet(days, Dates) \in Nat
  BY <1>1, <1>2, SumNat
<1>6. QED BY <1>1, <1>4, <1>5

\* Paid days, as the ledger counts them.
LEMMA PaidDaysTyped ==
    ASSUME NEW book \in [Dates -> Entry]
    PROVE  Ledger!PaidDays(book) \in [Dates -> Lens]
BY DEF Ledger!PaidDays, Ledger!Days, Entry, Lens

\* What a step of the ledger leaves within the quota.
LEMMA LedgerKeepsQuota ==
    ASSUME Ledger!NaN \notin Lengths, TypeOK, TypeOK', WithinQuota, [Ledger!Next]_leave
    PROVE  WithinQuota'
<1> SUFFICES ASSUME NEW f \in Employees
             PROVE  Ledger!UsedDays(Ledger!PaidDays(leave'[f])) <= Quota
  BY DEF WithinQuota
<1> DEFINE before == Ledger!PaidDays(leave[f])
           after  == Ledger!PaidDays(leave'[f])
<1>1. before \in [Dates -> Lens] /\ after \in [Dates -> Lens]
  BY PaidDaysTyped DEF TypeOK
<1>2. Ledger!UsedDays(before) <= Quota
  BY DEF WithinQuota
<1>3. /\ Ledger!UsedDays(before) = SumFunctionOnSet(before, Dates)
      /\ SumFunctionOnSet(before, Dates) \in Nat /\ \A d \in Dates : before[d] \in Nat
  <2> HIDE DEF before
  <2>1. QED BY <1>1, UsedIsSum
<1>4. /\ Ledger!UsedDays(after) = SumFunctionOnSet(after, Dates)
      /\ SumFunctionOnSet(after, Dates) \in Nat /\ \A d \in Dates : after[d] \in Nat
  <2> HIDE DEF after
  <2>1. QED BY <1>1, UsedIsSum
<1>5. CASE after = before
  BY <1>2, <1>5
<1>6. ASSUME NEW e \in Employees, NEW d \in Dates, NEW type \in Ledger!Types,
             NEW len \in Lengths, Ledger!Enter(e, d, type, len)
      PROVE  Ledger!UsedDays(after) <= Quota
  <2>1. leave' = [leave EXCEPT ![e][d] = [status |-> "PENDING", type |-> type, len |-> len]]
    BY <1>6 DEF Ledger!Enter
  <2>2. CASE f # e
    <3>1. leave'[f] = leave[f]
      BY <2>1, <2>2 DEF TypeOK
    <3>2. QED BY <1>5, <3>1 DEF Ledger!PaidDays, Ledger!Days
  <2>3. CASE f = e
    <3>1. /\ after[d] = IF type = "PAID" THEN len ELSE 0
          /\ \A x \in Dates \ {d} : after[x] = before[x]
      BY <2>1, <2>3 DEF TypeOK, Ledger!PaidDays, Ledger!Days
    <3>2. SumFunctionOnSet(after, Dates) = SumFunctionOnSet(before, Dates) - before[d] + after[d]
      <4>1. IsFiniteSet(Dates) /\ \A x \in Dates : before[x] \in Int /\ after[x] \in Int
        BY <1>3, <1>4, DateAssumption
      <4> HIDE DEF before, after
      <4>2. QED BY <3>1, <4>1, SumReplace
    <3>3. type = "PAID" => Ledger!UsedDays(before) + len <= Quota
      <4>1. len # Ledger!NaN /\ Ledger!UsedDays(before) # Ledger!NaN /\ len \in Nat
        BY <1>3, LengthAssumption DEF Ledger!NaN
      <4>2. type = "PAID" => ~Ledger!Insufficient(Ledger!UsedDays(before), len)
        BY <1>6, <2>3 DEF Ledger!Enter
      <4>3. QED BY <1>3, <4>1, <4>2, LengthAssumption DEF Ledger!Insufficient
    <3>4. QED
      <4>1. len \in Nat /\ before[d] \in Nat /\ Quota \in Nat
        BY <1>3, LengthAssumption DEF Ledger!NaN
      <4> HIDE DEF before, after
      <4>2. QED BY <1>2, <1>3, <1>4, <3>1, <3>2, <3>3, <4>1
  <2>4. QED BY <2>2, <2>3
<1>7. ASSUME NEW e \in Employees, NEW d \in Dates, NEW decision \in Ledger!Decisions,
             Ledger!Decide(e, d, decision)
      PROVE  after = before
  <2>1. \A x \in Dates : leave'[f][x].type = leave[f][x].type /\ leave'[f][x].len = leave[f][x].len
    <3>1. \A x \in Dates : leave[f][x] \in Entry
      BY DEF TypeOK
    <3>2. leave' = [leave EXCEPT ![e][d].status = decision]
      BY <1>7 DEF Ledger!Decide
    <3>3. QED BY <3>1, <3>2 DEF TypeOK, Entry
  <2>2. QED BY <2>1 DEF Ledger!PaidDays, Ledger!Days
<1>8. CASE UNCHANGED leave
  BY <1>5, <1>8
<1>9. QED BY <1>5, <1>6, <1>7, <1>8 DEF Ledger!Next

\* However decisions and the submissions of other employees interleave, and
\* whoever dies, no employee is granted more paid days than the quota, as long as
\* the own submissions are apart and every length is a number (an unreadable
\* date makes the days used not a number, after which anything is entered).
THEOREM LeaveWithinQuota ==
    ASSUME Apart, Ledger!NaN \notin Lengths
    PROVE  Spec => []WithinQuota
<1>1. Init => WithinQuota
  <2> SUFFICES ASSUME Init, NEW e \in Employees
               PROVE  Ledger!UsedDays(Ledger!PaidDays(leave[e])) <= Quota
    BY DEF WithinQuota
  <2> DEFINE days == Ledger!PaidDays(leave[e])
  <2>1. days \in [Dates -> Lens] /\ \A d \in Dates : days[d] = 0
    BY DEF Init, NoEntry, Ledger!NoEntry, Ledger!PaidDays, Ledger!Days, Lens
  <2> HIDE DEF days
  <2>2. Ledger!UsedDays(days) = SumFunctionOnSet(days, Dates) /\ \A d \in Dates : days[d] \in Nat
    BY <2>1, UsedIsSum
  <2>3. SumFunctionOnSet(days, Dates) = 0
    BY <2>1, <2>2, SumNat, DateAssumption
  <2>4. QED BY <2>2, <2>3, LengthAssumption DEF days
<1>2. TypeOK /\ TypeOK' /\ WithinQuota /\ [Ledger!Next]_leave => WithinQuota'
  BY LedgerKeepsQuota
<1>3. Spec => [][Ledger!Next]_leave
  BY LeaveImplementsLedger, PTL DEF ImplementsLedger, Ledger!Spec
<1>4. QED BY <1>1, <1>2, <1>3, LeaveType, PTL DEF Spec

=============================================================================
