-------------------------------- MODULE Leave --------------------------------
(***************************************************************************)
(* LeaveService (packages/core/src/leave/service.ts) over its DynamoDB     *)
(* repository (packages/data/src/dynamo/leave.ts).  A request is a Lambda  *)
(* invocation that interleaves with others at every await.  Queries are    *)
(* eventually consistent: a balance is summed over items that may be       *)
(* behind, and requests are looked up by id through the GSI2 index, which  *)
(* is filled some time after the table and asked for one item only.        *)
(***************************************************************************)
EXTENDS Integers, FiniteSets, Functions

CONSTANTS
    Employees,
    Dates,        \* start dates
    Lengths,      \* lengths of the requests made, in days (or NaN)
    Quota,        \* paid days a year
    Rank,         \* Rank[e]: the order of the employee ids
    Handlers,     \* how many invocations may be in flight at once
    Deciders,     \* the handlers that serve managers
    Apart,        \* an employee submits once every replica shows the own
                  \* earlier submissions
    Faults        \* an invocation may die at any await

\* Dates are days of years of four digits.
ASSUME DateAssumption == Dates \subseteq Nat /\ IsFiniteSet(Dates)
ASSUME RankAssumption == Rank \in [Employees -> Nat]
ASSUME LengthAssumption == Lengths \subseteq Nat \cup {-1} /\ Quota \in Nat
ASSUME DeciderAssumption == Deciders \subseteq Handlers
ASSUME SwitchAssumption == Apart \in BOOLEAN /\ Faults \in BOOLEAN

VARIABLES
    leave,        \* leave[e][d]: the item LEAVE#e#d
    readable,     \* readable[e][d]: the paid days of the versions of it that a
                  \* query may still return
    indexed,      \* ids the GSI2 index shows
    audit,        \* the audit items, by what they record
    dead,         \* the invocations that died: they stay where they were
    work          \* work[h]: the invocation of handler h

vars == <<leave, readable, indexed, audit, dead, work>>

Ledger == INSTANCE LeaveLedger WITH ledger <- leave

Types     == Ledger!Types
Decisions == Ledger!Decisions
NoEntry   == Ledger!NoEntry
Ids       == Employees \X Dates

Entry == [status : {"NONE", "PENDING"} \cup Decisions,
          type   : Types \cup {"NONE"},
          len    : Lengths \cup {0}]

AuditItem == [id : Ids, action : {"CREATE"} \cup Decisions]

Steps == {"idle", "balance", "put", "auditCreate",
          "find", "refind", "update", "auditDecision"}

\* An invocation: where it is, the request it is about and, for a submission,
\* the entry it makes; for a manager's, the decision.
Work == [pc : Steps, id : Ids \cup {<<>>}, type : Types \cup {"NONE"},
         len : Lengths \cup {0}, decision : Decisions \cup {"NONE"}]

Idle == [pc |-> "idle", id |-> <<>>, type |-> "NONE", len |-> 0, decision |-> "NONE"]

Init ==
    /\ leave = [e \in Employees |-> [d \in Dates |-> NoEntry]]
    /\ readable = [e \in Employees |-> [d \in Dates |-> {0}]]
    /\ indexed = {}
    /\ audit = {}
    /\ dead = {}
    /\ work = [h \in Handlers |-> Idle]

Emp(h)  == work[h].id[1]
Date(h) == work[h].id[2]

Finish(h)   == work' = [work EXCEPT ![h] = Idle]
Goto(h, pc) == work' = [work EXCEPT ![h].pc = pc]

\* A write of the item of h: a query may return it from now on, and an earlier
\* version as well until every replica has caught up.
Write(h, entry) ==
    /\ leave' = [leave EXCEPT ![Emp(h)][Date(h)] = entry]
    /\ readable' = [readable EXCEPT ![Emp(h)][Date(h)] = @ \cup {Ledger!Days(entry)}]

Exists(id) == leave[id[1]][id[2]].status # "NONE"

-----------------------------------------------------------------------------
(***************************************************************************)
(* createRequest.                                                          *)
(***************************************************************************)
Submitting(h) == work[h].pc \in {"balance", "put"}

\* Every replica shows what e has submitted.
Shown(e) ==
    /\ \A h \in Handlers \ dead : ~(Submitting(h) /\ Emp(h) = e)
    /\ \A d \in Dates : readable[e][d] = {Ledger!Days(leave[e][d])}

Submit(h, e, d, type, len) ==
    /\ work[h].pc = "idle"
    /\ Apart => Shown(e)
    /\ work' = [work EXCEPT ![h] = [Idle EXCEPT
                  !.pc = IF type = "PAID" THEN "balance" ELSE "put",
                  !.id = <<e, d>>, !.type = type, !.len = len]]
    /\ UNCHANGED <<leave, readable, indexed, audit, dead>>

\* findByEmployee: a query without ConsistentRead; of each item it returns
\* the version of the replica that answers.  The balance uses its days only.
DaysRead(e) ==
    { days \in [Dates -> Lengths \cup {0}] : \A d \in Dates : days[d] \in readable[e][d] }

\* MUTANT: a balance that is used up is not noticed when it is exactly met.
ReadBalanceOffByOne(h) ==
    /\ work[h].pc = "balance"
    /\ \E days \in DaysRead(Emp(h)) :
         IF Ledger!Insufficient(Ledger!UsedDays(days), work[h].len - 1)
         THEN Finish(h)
         ELSE Goto(h, "put")
    /\ UNCHANGED <<leave, readable, indexed, audit, dead>>

\* getLeaveBalance: the repository ignores the status it is asked for.
ReadBalance(h) ==
    /\ work[h].pc = "balance"
    /\ \E days \in DaysRead(Emp(h)) :
         IF Ledger!Insufficient(Ledger!UsedDays(days), work[h].len)
         THEN Finish(h)
         ELSE Goto(h, "put")
    /\ UNCHANGED <<leave, readable, indexed, audit, dead>>

\* MUTANT: the audit item is forgotten.
PutAndReturn(h) ==
    /\ work[h].pc = "put"
    /\ Write(h, [status |-> "PENDING", type |-> work[h].type, len |-> work[h].len])
    /\ Finish(h)
    /\ UNCHANGED <<indexed, audit, dead>>

\* An unconditional Put: a request with the same start date is replaced.
Put(h) ==
    /\ work[h].pc = "put"
    /\ Write(h, [status |-> "PENDING", type |-> work[h].type, len |-> work[h].len])
    /\ Goto(h, "auditCreate")
    /\ UNCHANGED <<indexed, audit, dead>>

\* The audit item that h has still to append, if any.
Owed(h) ==
    CASE work[h].pc = "auditCreate"   -> {[id |-> work[h].id, action |-> "CREATE"]}
      [] work[h].pc = "auditDecision" -> {[id |-> work[h].id, action |-> work[h].decision]}
      [] OTHER -> {}

AuditCreate(h) ==
    /\ work[h].pc = "auditCreate"
    /\ audit' = audit \cup Owed(h)
    /\ Finish(h)
    /\ UNCHANGED <<leave, readable, indexed, dead>>

-----------------------------------------------------------------------------
(***************************************************************************)
(* approveRequest and rejectRequest.                                       *)
(***************************************************************************)
StartDecision(h, id, decision) ==
    /\ h \in Deciders
    /\ work[h].pc = "idle"
    /\ work' = [work EXCEPT ![h] = [Idle EXCEPT
                  !.pc = "find", !.id = id, !.decision = decision]]
    /\ UNCHANGED <<leave, readable, indexed, audit, dead>>

\* The order of the index: DATE#start#LEAVE#employee#start.
Before(x, y) == x[2] < y[2] \/ (x[2] = y[2] /\ Rank[x[1]] < Rank[y[1]])

\* MUTANT: the lookup returns nothing but the key, whether it exists or not.
FindsAnything(id) == TRUE

\* findById: Limit 1 is applied before the filter on the id, so only the first
\* item of the index can be found.
Finds(id) == id \in indexed /\ \A x \in indexed : x = id \/ Before(id, x)

Find(h) ==
    /\ work[h].pc = "find"
    /\ IF Finds(work[h].id) THEN Goto(h, "refind") ELSE Finish(h)
    /\ UNCHANGED <<leave, readable, indexed, audit, dead>>

\* update looks the request up again and throws when it is not found.
Refind(h) ==
    /\ work[h].pc = "refind"
    /\ IF Finds(work[h].id) THEN Goto(h, "update") ELSE Finish(h)
    /\ UNCHANGED <<leave, readable, indexed, audit, dead>>

\* MUTANT: the action of the body is stored for the status.
UpdateVerb(h) ==
    /\ work[h].pc = "update"
    /\ Write(h, [leave[Emp(h)][Date(h)] EXCEPT !.status = "approve"])
    /\ Goto(h, "auditDecision")
    /\ UNCHANGED <<indexed, audit, dead>>

\* MUTANT: a Put of the changed fields alone.
UpdateByPut(h) ==
    /\ work[h].pc = "update"
    /\ Write(h, [NoEntry EXCEPT !.status = work[h].decision])
    /\ Goto(h, "auditDecision")
    /\ UNCHANGED <<indexed, audit, dead>>

Update(h) ==
    /\ work[h].pc = "update"
    /\ Write(h, [leave[Emp(h)][Date(h)] EXCEPT !.status = work[h].decision])
    /\ Goto(h, "auditDecision")
    /\ UNCHANGED <<indexed, audit, dead>>

AuditDecision(h) ==
    /\ work[h].pc = "auditDecision"
    /\ audit' = audit \cup Owed(h)
    /\ Finish(h)
    /\ UNCHANGED <<leave, readable, indexed, dead>>

-----------------------------------------------------------------------------
\* The index catches up with a request in the table.
Propagate(id) ==
    /\ Exists(id) /\ id \notin indexed
    /\ indexed' = indexed \cup {id}
    /\ UNCHANGED <<leave, readable, audit, dead, work>>

\* Every replica has caught up with a request.
CatchUp(id) ==
    /\ readable[id[1]][id[2]] # {Ledger!Days(leave[id[1]][id[2]])}
    /\ readable' = [readable EXCEPT ![id[1]][id[2]] = {Ledger!Days(leave[id[1]][id[2]])}]
    /\ UNCHANGED <<leave, indexed, audit, dead, work>>

\* The invocation dies: the steps it has not reached never happen.  One handler
\* survives (a bound).
Die(h) ==
    /\ Faults /\ \E g \in Handlers \ dead : g # h
    /\ work[h].pc # "idle"
    /\ dead' = dead \cup {h}
    /\ UNCHANGED <<leave, readable, indexed, audit, work>>

Proceed(h) ==
    \/ ReadBalance(h) \/ Put(h) \/ AuditCreate(h)
    \/ Find(h) \/ Refind(h) \/ Update(h) \/ AuditDecision(h)

Next ==
    \/ \E h \in Handlers \ dead :
         \/ \E e \in Employees, d \in Dates, type \in Types, len \in Lengths :
              Submit(h, e, d, type, len)
         \/ \E id \in Ids, decision \in Decisions : StartDecision(h, id, decision)
         \/ Proceed(h)
         \/ Die(h)
    \/ \E id \in Ids : Propagate(id) \/ CatchUp(id)

Spec == Init /\ [][Next]_vars

-----------------------------------------------------------------------------
(***************************************************************************)
(* Properties.                                                             *)
(***************************************************************************)
TypeOK ==
    /\ leave \in [Employees -> [Dates -> Entry]]
    /\ readable \in [Employees -> [Dates -> SUBSET (Lengths \cup {0})]]
    /\ indexed \subseteq Ids
    /\ audit \subseteq AuditItem
    /\ dead \subseteq Handlers
    /\ work \in [Handlers -> Work]

\* No employee holds more paid days than the quota, however decisions and
\* submissions of other employees interleave and whatever the balance read is
\* behind of (REQ-LEAVE-007; holds when an employee's submissions are Apart: a
\* second one made before every replica shows the first can exceed it).
WithinQuota ==
    \A e \in Employees : Ledger!UsedDays(Ledger!PaidDays(leave[e])) <= Quota

\* The service implements the ledger: although the balance is read two awaits
\* before the request is entered, and from items whose decisions it may not
\* show, it is the balance when the request is entered (submissions Apart).
ImplementsLedger == Ledger!Spec

\* Every request on the books, and the decision on it, has its audit item or
\* an invocation that owes it; only a death between the write and the append
\* loses one, however submissions and decisions interleave (REQ-AUDIT-001).
Audited ==
    \A e \in Employees, d \in Dates :
        LET Written(action) ==
              [id |-> <<e, d>>, action |-> action] \in
                  audit \cup UNION { Owed(h) : h \in Handlers }
        IN  /\ Exists(<<e, d>>) => Written("CREATE")
            /\ leave[e][d].status \in Decisions => Written(leave[e][d].status)

\* A decision only ever reaches a request that was made: the update never
\* creates an item, although it is an upsert by key.
DecisionsReal ==
    \A h \in Handlers : work[h].pc \in {"refind", "update", "auditDecision"} =>
        Exists(work[h].id)

-----------------------------------------------------------------------------
(***************************************************************************)
(* What the documents say and the code does not do.                        *)
(***************************************************************************)

\* REQ-LEAVE-003: a manager approves or rejects a request; the lookup does not
\* answer "not found" for a request the index shows.
RequestsFound ==
    [][ \A h \in Handlers :
          work[h].pc = "find" /\ work[h].id \in indexed => work'[h].pc # "idle" ]_vars

=============================================================================
