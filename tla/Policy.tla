------------------------------- MODULE Policy -------------------------------
(***************************************************************************)
(* The policy cascade: packages/core/src/policies/resolver.ts over the     *)
(* layers PolicyService reads.  A value is a leaf (a number, a text, a     *)
(* list) or a node, a function from field names to values.                 *)
(***************************************************************************)
EXTENDS Integers, Sequences, TLC

CONSTANTS Fields, Leaves, Depth     \* Depth: how deep sections are nested

Leaf(x) == [leaf |-> x]
Node(fields) == [node |-> fields]
IsNode(v) == DOMAIN v = {"node"}

\* The documents with n levels of sections at most.
Documents[n \in 0 .. Depth] ==
    LET values == [leaf : Leaves] \cup (IF n = 0 THEN {} ELSE [node : Documents[n - 1]])
    IN  UNION { [fs -> values] : fs \in SUBSET Fields }

\* The fields of override over those of base; nodes are merged, leaves replaced.
Merge[n \in 0 .. Depth] ==
    [pair \in Documents[n] \X Documents[n] |->
        LET base == pair[1]
            override == pair[2]
        IN  [f \in DOMAIN base \cup DOMAIN override |->
                IF f \notin DOMAIN override THEN base[f]
                ELSE IF f \in DOMAIN base /\ IsNode(base[f]) /\ IsNode(override[f])
                     THEN Node(Merge[n - 1][<<base[f].node, override[f].node>>])
                     ELSE override[f]]]

\* MUTANT: nested sections are replaced and not merged
deepMergePlain_Shallow(base, override) == override @@ base

deepMergePlain(base, override) == Merge[Depth][<<base, override>>]

\* A layer: its fields, and when it takes effect (0: it does not say).  A
\* reference date of 0 is none.
isEffective(layer, reference) ==
    layer.effectiveFrom = 0 \/ reference = 0 \/ layer.effectiveFrom <= reference

\* A missing layer changes nothing, like one without fields.
Over(result, layer, reference) ==
    IF isEffective(layer, reference) THEN deepMergePlain(result, layer.fields) ELSE result

\* Region, company, group, employee; the region's defaults always count.
resolveCascadeWithRegion(layers, reference) ==
    Over(Over(Over(layers[1].fields, layers[2], reference), layers[3], reference),
         layers[4], reference)

-----------------------------------------------------------------------------
(* Reference: what a layer says of a path, without merging.                *)

\* A layer is silent when it does not get that far, and closed when a leaf stands
\* where the path goes on.
Silent == [nothing |-> "silent"]
Closed == [nothing |-> "closed"]
Section == [nothing |-> "section"]

Below(v, f) ==
    IF IsNode(v) THEN (IF f \in DOMAIN v.node THEN v.node[f] ELSE Silent)
    ELSE IF v = Silent THEN Silent ELSE Closed

\* The value at the end of a path.
At(fields, path) ==
    LET v[i \in 0 .. Len(path)] == IF i = 0 THEN Node(fields) ELSE Below(v[i - 1], path[i])
    IN  v[Len(path)]

\* What can be seen of it: a leaf, that there is a section, or nothing.
Seen(v) == IF IsNode(v) THEN Section ELSE IF v = Closed THEN Silent ELSE v

InForce(layers, reference) ==
    { i \in 1 .. 4 : i = 1 \/ isEffective(layers[i], reference) }

\* The most specific layer in force that is not silent has its way.
Decided(layers, reference, path) ==
    LET speak == { i \in InForce(layers, reference) : At(layers[i].fields, path) # Silent }
    IN  IF speak = {} THEN Silent
        ELSE At(layers[CHOOSE i \in speak : \A j \in speak : j <= i].fields, path)

\* Down to one level below the deepest leaf.
Paths == UNION { [1 .. k -> Fields] : k \in 1 .. Depth + 2 }

\* Every field of the merged policy is what the most specific layer in force says
\* of it, and a section that one layer replaced by a single value hides the fields
\* below it (deepMergePlain, isEffective and the order of the layers, against a
\* definition that merges nothing).
FieldsDecided(layers, reference) ==
    LET merged == resolveCascadeWithRegion(layers, reference)
    IN  \A path \in Paths : Seen(At(merged, path)) = Seen(Decided(layers, reference, path))
=============================================================================
