---------------------------- MODULE MCBackOffice ----------------------------
(***************************************************************************)
(* The back office for TLC.                                                *)
(***************************************************************************)
EXTENDS BackOffice, TLC

CONSTANTS ann, bob

\* Policies with a leaf or a section of up to two fields, of which only some that
\* take effect later.
General == { policy \in Cascade!Documents[Depth] : DOMAIN policy \subseteq {"x"} }
Later == [x |-> Cascade!Node([x |-> Cascade!Leaf("2")])]
SomeLayers == [fields : General, effectiveFrom : {0}]
              \cup [fields : {Later}, effectiveFrom : {1, 2}]

AllYears == 1980 .. 2099
LeapAndNext == {2024, 2025}
\* JP_LABOR: 1.25, 0.25, 1.35, 1.5
JpRates == [standard |-> 125, lateNight |-> 25, holiday |-> 135, excess60h |-> 150]
Both == Permutations({ann, bob})
=============================================================================
