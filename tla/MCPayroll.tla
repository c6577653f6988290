------------------------------ MODULE MCPayroll ------------------------------
(***************************************************************************)
(* Instances of Payroll for TLC.                                           *)
(***************************************************************************)
EXTENDS Payroll

\* An hourly rate that is rounded up (60024 / 12 / 4), and one that is whole.
SomeSalaries == { [amount |-> 60024, salaryType |-> "ANNUAL"],
                  [amount |-> 30, salaryType |-> "HOURLY"] }
=============================================================================
