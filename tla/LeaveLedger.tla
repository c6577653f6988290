----------------------------- MODULE LeaveLedger -----------------------------
(***************************************************************************)
(* What the leave service promises: a ledger of requests, one per employee *)
(* and start date.  A paid request is entered only while the paid days on  *)
(* the ledger stay within the yearly quota, and a decision changes the     *)
(* status of an entered request and nothing else.  The check and the entry *)
(* are one step.                                                           *)
(***************************************************************************)
EXTENDS Integers, Functions

CONSTANTS Employees,
          Dates,      \* start dates
          Lengths,    \* lengths, in days, of the requests made
          Quota       \* paid days a year (10)

VARIABLE ledger       \* ledger[e][d]: the request of e that starts on d

Types     == {"PAID", "UNPAID"}
Decisions == {"APPROVED", "REJECTED"}
NoEntry   == [status |-> "NONE", type |-> "NONE", len |-> 0]

\* An unreadable date makes the length of a request not a number, and with it
\* the days used; no comparison with it holds.
NaN == -1

\* Days of each request of an employee that the balance counts: every paid
\* request, whatever its status.
Days(entry)    == IF entry.type = "PAID" THEN entry.len ELSE 0
PaidDays(book) == [d \in Dates |-> Days(book[d])]

UsedDays(days) ==
    IF \E d \in DOMAIN days : days[d] = NaN THEN NaN ELSE SumFunction(days)

\* paidLeaveRemaining < days, for a request of at least one day.
Insufficient(used, len) == used # NaN /\ len # NaN /\ used + len > Quota

Init == ledger = [e \in Employees |-> [d \in Dates |-> NoEntry]]

Enter(e, d, type, len) ==
    /\ type = "PAID" => ~Insufficient(UsedDays(PaidDays(ledger[e])), len)
    /\ ledger' = [ledger EXCEPT ![e][d] =
                    [status |-> "PENDING", type |-> type, len |-> len]]

Decide(e, d, decision) ==
    /\ ledger[e][d].status # "NONE"
    /\ ledger' = [ledger EXCEPT ![e][d].status = decision]

Next ==
    \E e \in Employees, d \in Dates :
        \/ \E type \in Types, len \in Lengths : Enter(e, d, type, len)
        \/ \E decision \in Decisions : Decide(e, d, decision)

Spec == Init /\ [][Next]_ledger

=============================================================================
