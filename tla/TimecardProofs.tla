--------------------------- MODULE TimecardProofs ---------------------------
(***************************************************************************)
(* The promises of Timecard hold for every set of employees and every      *)
(* length of the idempotency window.                                       *)
(***************************************************************************)
EXTENDS Timecard, CommonLemmas

\* Recording keeps the shape of the timecards.
THEOREM TimecardType == Spec => []TypeOK
<1>1. Init => TypeOK
  BY DEF Init, TypeOK
<1>2. TypeOK /\ [Next]_card => TypeOK'
  BY DEF TypeOK, Next, Record
<1>3. QED BY <1>1, <1>2, PTL DEF Spec

\* Every timecard is always a run of the state machine whose entries are at
\* least the idempotency window apart.
THEOREM TimecardValid ==
    ASSUME Times \subseteq Int, Window \in Nat
    PROVE  Spec => [](ValidCards /\ SpacedCards)
<1>1. Init => ValidCards /\ SpacedCards
  BY DEF Init, ValidCards, SpacedCards, FollowsMachine, SpacedBy, Recorded, NoAction
<1>2. TypeOK /\ ValidCards /\ SpacedCards /\ [Next]_card
        => ValidCards' /\ SpacedCards'
  <2> SUFFICES ASSUME TypeOK, ValidCards, SpacedCards, [Next]_card
               PROVE  ValidCards' /\ SpacedCards'
    OBVIOUS
  <2>1. CASE UNCHANGED card
    BY <2>1 DEF ValidCards, SpacedCards
  <2>2. ASSUME NEW e \in Employees, NEW a \in Actions, NEW t \in Times, Record(e, a, t)
        PROVE  ValidCards' /\ SpacedCards'
    <3>1. PICK s \in States, to \in States :
             SessionIs(card[e], s) /\ <<s, a, to>> \in Transitions
      BY <2>2 DEF Record
    <3>2. card[e] \in [Times -> Actions \cup {NoAction}]
      BY DEF TypeOK
    <3>3. \A u \in Recorded(card[e]) : t - u >= Window /\ u # t
      BY <2>2 DEF Record
    <3>4. FollowsMachine(card[e]) /\ SpacedBy(card[e], Window)
      BY DEF ValidCards, SpacedCards
    <3>5. LET new == [card[e] EXCEPT ![t] = a]
          IN  FollowsMachine(new) /\ SpacedBy(new, Window)
      BY <3>1, <3>2, <3>3, <3>4, ExtendLog
    <3>6. card'[e] = [card[e] EXCEPT ![t] = a]
      BY <2>2 DEF Record, TypeOK
    <3>7. \A f \in Employees : f # e => card'[f] = card[f]
      BY <2>2 DEF Record, TypeOK
    <3>8. \A f \in Employees : FollowsMachine(card'[f]) /\ SpacedBy(card'[f], Window)
      BY <3>5, <3>6, <3>7 DEF ValidCards, SpacedCards
    <3>9. QED BY <3>8 DEF ValidCards, SpacedCards
  <2>3. QED BY <2>1, <2>2 DEF Next
<1>3. QED BY <1>1, <1>2, TimecardType, PTL DEF Spec

=============================================================================
