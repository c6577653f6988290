---------------------------- MODULE CommonLemmas ----------------------------
(***************************************************************************)
(* Lemmas the proofs of several components share: what an entry does to a  *)
(* log that follows the state machine, and what a fold over a finite set   *)
(* computes.  The library's induction theorems take an operator; those     *)
(* here argue with a smallest counterexample, a member of a set.           *)
(***************************************************************************)
EXTENDS StateMachine, SequencesExt, FiniteSetTheorems, WellFoundedInduction, TLAPS

\* An action allowed in the state the log shows, at a time after all recorded
\* ones and w away from them, keeps the log a run of the machine.
LEMMA ExtendLog ==
    ASSUME NEW T \in SUBSET Int, NEW w \in Nat,
           NEW log \in [T -> Actions \cup {NoAction}],
           NEW t \in T, NEW a \in Actions, NEW s, NEW to \in States,
           SessionIs(log, s),
           <<s, a, to>> \in Transitions,
           \A u \in Recorded(log) : t - u >= w /\ u # t
    PROVE  LET new == [log EXCEPT ![t] = a]
           IN  /\ SessionIs(new, to)
               /\ FollowsMachine(log) => FollowsMachine(new)
               /\ SpacedBy(log, w) => SpacedBy(new, w)
<1> DEFINE new == [log EXCEPT ![t] = a]
<1>1. /\ Recorded(new) = Recorded(log) \cup {t}
      /\ new[t] = a
      /\ \A u \in Recorded(log) : u # t => new[u] = log[u]
  BY DEF Recorded, Actions, NoAction, new
<1>2. t \in Int /\ \A u \in Recorded(log) : u \in Int
  BY DEF Recorded
<1>3. \A u \in Recorded(log) : u < t /\ t - u >= w /\ new[u] = log[u]
  <2> SUFFICES ASSUME NEW u \in Recorded(log)
               PROVE  u < t /\ t - u >= w /\ new[u] = log[u]
    OBVIOUS
  <2>1. u \in Int /\ t - u >= w /\ u # t
    BY <1>2
  <2>2. u < t
    BY <2>1, <1>2
  <2>3. QED BY <2>1, <2>2, <1>1
<1>4. s \in States
  BY DEF Transitions, States
<1> HIDE DEF new
<1>5. SessionIs(new, to)
  <2>1. \A u \in Recorded(new) : u <= t
    BY <1>1, <1>2, <1>3
  <2>2. t \in Recorded(new) /\ <<s, new[t], to>> \in Transitions
    BY <1>1
  <2>3. QED BY <2>1, <2>2, <1>4 DEF SessionIs
<1>6. ASSUME SpacedBy(log, w)
      PROVE  SpacedBy(new, w)
  <2> SUFFICES ASSUME NEW p \in Recorded(new), NEW u \in Recorded(new), p < u
               PROVE  u - p >= w
    BY DEF SpacedBy
  <2>1. CASE u = t
    BY <2>1, <1>1, <1>3
  <2>2. CASE u # t
    BY <2>2, <1>1, <1>2, <1>3, <1>6 DEF SpacedBy
  <2>3. QED BY <2>1, <2>2
<1>7. ASSUME FollowsMachine(log)
      PROVE  FollowsMachine(new)
  <2> SUFFICES ASSUME NEW u \in Recorded(new)
               PROVE  \/ /\ \A x \in Recorded(new) : u <= x
                         /\ new[u] = "CLOCK_IN"
                      \/ \E p \in Recorded(new), from, s1, to1 \in States :
                           /\ Precedes(new, p, u)
                           /\ <<from, new[p], s1>> \in Transitions
                           /\ <<s1, new[u], to1>> \in Transitions
    BY DEF FollowsMachine
  <2>1. CASE u = t
    <3>1. CASE Recorded(log) = {}
      <4>1. s = "IDLE"
        BY <3>1 DEF SessionIs
      <4>2. a = "CLOCK_IN"
        BY <4>1 DEF Transitions
      <4>3. \A x \in Recorded(new) : u <= x
        BY <2>1, <3>1, <1>1, <1>2
      <4>4. QED BY <2>1, <4>2, <4>3, <1>1
    <3>2. CASE Recorded(log) # {}
      <4>1. PICK p \in Recorded(log), from \in States :
              /\ \A x \in Recorded(log) : x <= p
              /\ <<from, log[p], s>> \in Transitions
        BY <3>2 DEF SessionIs
      <4>2. p \in Recorded(new) /\ p < u /\ new[p] = log[p]
        BY <4>1, <1>1, <1>3, <2>1
      <4>3. Precedes(new, p, u)
        BY <4>1, <4>2, <1>1, <1>2, <2>1 DEF Precedes
      <4>4. <<from, new[p], s>> \in Transitions /\ <<s, new[u], to>> \in Transitions
        BY <4>1, <4>2, <2>1, <1>1
      <4>5. QED BY <4>2, <4>3, <4>4, <1>4
    <3>3. QED BY <3>1, <3>2
  <2>2. CASE u # t
    <3>1. u \in Recorded(log) /\ new[u] = log[u] /\ u < t
      BY <2>2, <1>1, <1>3
    <3>2. CASE \A x \in Recorded(log) : u <= x /\ log[u] = "CLOCK_IN"
      BY <3>1, <3>2, <1>1, <1>2
    <3>3. CASE \E p \in Recorded(log), from, s1, to1 \in States :
                 /\ Precedes(log, p, u)
                 /\ <<from, log[p], s1>> \in Transitions
                 /\ <<s1, log[u], to1>> \in Transitions
      <4>1. PICK p \in Recorded(log), from \in States, s1 \in States, to1 \in States :
                 /\ Precedes(log, p, u)
                 /\ <<from, log[p], s1>> \in Transitions
                 /\ <<s1, log[u], to1>> \in Transitions
        BY <3>3
      <4>2. p \in Recorded(new) /\ new[p] = log[p]
        BY <1>1, <1>3
      <4>3. Precedes(new, p, u)
        BY <4>1, <3>1, <1>1, <1>2 DEF Precedes
      <4>4. QED BY <4>1, <4>2, <4>3, <3>1
    <3>4. QED BY <3>1, <3>2, <3>3, <1>7 DEF FollowsMachine
  <2>3. QED BY <2>1, <2>2
<1>8. QED BY <1>5, <1>6, <1>7 DEF new

-----------------------------------------------------------------------------
(***************************************************************************)
(* Folds over a finite set.                                                *)
(***************************************************************************)
\* A family of subsets of a finite set has a smallest member.
LEMMA SmallestSubset ==
    ASSUME NEW S, IsFiniteSet(S), NEW B \in SUBSET SUBSET S, B # {}
    PROVE  \E T \in B : \A U \in B : U \subseteq T => U = T
<1>1. IsWellFoundedOn(StrictSubsetOrdering(S), FiniteSubsetsOf(S))
  BY FS_StrictSubsetOrderingWellFounded
<1>2. FiniteSubsetsOf(S) = SUBSET S
  BY FS_FiniteSubsetsOfFinite
<1>3. \E T \in B : \A U \in B : <<U, T>> \notin StrictSubsetOrdering(S)
  BY <1>1, <1>2, WFMin
<1>4. QED BY <1>3 DEF StrictSubsetOrdering

\* h folds step over every subset of T, from base, taking out ch[U] first.
FoldsOver(h, T, base, ch, step) ==
    h = [U \in SUBSET T |-> IF U = {} THEN base ELSE step[ch[U]][h[U \ {ch[U]}]]]

\* Two folds agree wherever both are defined.
LEMMA FoldsAgree ==
    ASSUME NEW S, IsFiniteSet(S), NEW base, NEW ch, NEW step,
           \A U \in SUBSET S : U # {} => ch[U] \in U,
           NEW V \in SUBSET S, NEW W \in SUBSET S, NEW h, NEW k,
           FoldsOver(h, V, base, ch, step), FoldsOver(k, W, base, ch, step),
           NEW U \in SUBSET S, U \subseteq V, U \subseteq W
    PROVE  h[U] = k[U]
<1> DEFINE B == { X \in SUBSET U : h[X] # k[X] }
<1> SUFFICES ASSUME B # {} PROVE FALSE
  OBVIOUS
<1>1. PICK X \in B : \A Y \in B : Y \subseteq X => Y = X
  <2>1. B \in SUBSET SUBSET S
    OBVIOUS
  <2> HIDE DEF B
  <2>2. QED BY <2>1, SmallestSubset
<1>2. X \in SUBSET V /\ X \in SUBSET W /\ X \in SUBSET S
  OBVIOUS
<1>3. /\ h[X] = IF X = {} THEN base ELSE step[ch[X]][h[X \ {ch[X]}]]
      /\ k[X] = IF X = {} THEN base ELSE step[ch[X]][k[X \ {ch[X]}]]
  BY <1>2 DEF FoldsOver
<1>4. X # {}
  BY <1>3
<1>5. X \ {ch[X]} \notin B
  BY <1>1, <1>2, <1>4
<1>6. QED BY <1>1, <1>3, <1>4, <1>5

\* A fold over the subsets of a finite set exists.
LEMMA FoldExists ==
    ASSUME NEW S, IsFiniteSet(S), NEW base, NEW ch, NEW step,
           \A U \in SUBSET S : U # {} => ch[U] \in U
    PROVE  \E h : FoldsOver(h, S, base, ch, step)
<1> DEFINE Folds(h, T) == FoldsOver(h, T, base, ch, step)
           B == { T \in SUBSET S : ~ \E h : Folds(h, T) }
<1> SUFFICES ASSUME B # {} PROVE FALSE
  OBVIOUS
<1>1. PICK T \in B : \A U \in B : U \subseteq T => U = T
  <2>1. B \in SUBSET SUBSET S
    OBVIOUS
  <2> HIDE DEF B
  <2>2. QED BY <2>1, SmallestSubset
<1> DEFINE part(U) == CHOOSE h : Folds(h, U)
           all == [U \in SUBSET T |->
                     IF U = {} THEN base
                     ELSE LET V == U \ {ch[U]} IN step[ch[U]][part(V)[V]]]
<1>2. \A U \in SUBSET T : U # T => Folds(part(U), U)
  <2> TAKE U \in SUBSET T
  <2> HAVE U # T
  <2>1. \E h : Folds(h, U)
    BY <1>1
  <2> HIDE DEF Folds
  <2>2. QED BY <2>1
<1>3. \A U \in SUBSET T : U # {} => ch[U] \in U /\ U \ {ch[U]} # T /\ U \ {ch[U]} \in SUBSET T
  BY <1>1
<1> HIDE DEF part
<1>4. ASSUME NEW U \in SUBSET T, U # T
      PROVE  part(U)[U] = all[U]
  <2>1. part(U)[U] = IF U = {} THEN base ELSE step[ch[U]][part(U)[U \ {ch[U]}]]
    <3>1. FoldsOver(part(U), U, base, ch, step) /\ U \in SUBSET U
      BY <1>2, <1>4
    <3>2. QED BY <3>1 DEF FoldsOver
  <2>2. CASE U # {}
    <3> DEFINE V == U \ {ch[U]}
    <3>1. V \in SUBSET T /\ V # T /\ V \subseteq U /\ V \in SUBSET S /\ U \in SUBSET S
      BY <1>1, <1>3, <2>2
    <3>2. FoldsOver(part(V), V, base, ch, step) /\ FoldsOver(part(U), U, base, ch, step)
      BY <1>2, <1>4, <3>1
    <3>3. part(U)[V] = part(V)[V]
      <4> HIDE DEF V
      <4>1. QED BY <3>1, <3>2, FoldsAgree
    <3>4. QED BY <2>1, <2>2, <3>3
  <2>3. QED BY <2>1, <2>2
<1>5. Folds(all, T)
  <2>1. ASSUME NEW U \in SUBSET T
        PROVE  all[U] = IF U = {} THEN base ELSE step[ch[U]][all[U \ {ch[U]}]]
    <3>1. CASE U = {}
      BY <3>1
    <3>2. CASE U # {}
      BY <1>3, <1>4, <3>2
    <3>3. QED BY <3>1, <3>2
  <2>2. all = [U \in SUBSET T |-> all[U]]
    OBVIOUS
  <2> HIDE DEF all
  <2>3. QED BY <2>1, <2>2 DEF FoldsOver
<1>6. QED BY <1>1, <1>5

\* A fold of a step that stays in a set stays in it.
LEMMA FoldType ==
    ASSUME NEW S, IsFiniteSet(S), NEW A, NEW base \in A, NEW ch, NEW step,
           \A U \in SUBSET S : U # {} => ch[U] \in U,
           \A x \in S, a \in A : step[x][a] \in A,
           NEW h, FoldsOver(h, S, base, ch, step)
    PROVE  \A U \in SUBSET S : h[U] \in A
<1> DEFINE B == { U \in SUBSET S : h[U] \notin A }
<1> SUFFICES ASSUME B # {} PROVE FALSE
  OBVIOUS
<1>1. PICK U \in B : \A V \in B : V \subseteq U => V = U
  <2>1. B \in SUBSET SUBSET S
    OBVIOUS
  <2> HIDE DEF B
  <2>2. QED BY <2>1, SmallestSubset
<1>2. h[U] = IF U = {} THEN base ELSE step[ch[U]][h[U \ {ch[U]}]]
  BY DEF FoldsOver
<1>3. U # {} /\ ch[U] \in U /\ ch[U] \in S
  BY <1>1, <1>2
<1>4. h[U \ {ch[U]}] \in A
  BY <1>1, <1>3
<1>5. QED BY <1>1, <1>2, <1>3, <1>4

-----------------------------------------------------------------------------
(***************************************************************************)
(* Sums of the values of a function over a finite set.                     *)
(***************************************************************************)
SumStep(fun, S) == [x \in S |-> [v \in Int |-> fun[x] + v]]
AnyOf(S) == [U \in SUBSET S |-> CHOOSE x \in U : TRUE]

\* The equation SumFunctionOnSet solves, over the subsets of S.
SumsOver(h, fun, S) ==
    h = [U \in SUBSET S |-> IF U = {} THEN 0
           ELSE fun[CHOOSE x \in U : TRUE] + h[U \ {CHOOSE x \in U : TRUE}]]

\* A sum over a set is the fold the community module chooses.
LEMMA SumIsChosen ==
    ASSUME NEW fun, NEW S
    PROVE  SumFunctionOnSet(fun, S) = (CHOOSE h : SumsOver(h, fun, S))[S]
BY DEF SumFunctionOnSet, FoldFunctionOnSet, MapThenFoldSet, SumsOver

\* It takes elements one by one.
LEMMA AnyOfPicks ==
    ASSUME NEW S PROVE \A U \in SUBSET S : U # {} => AnyOf(S)[U] \in U
BY DEF AnyOf

\* Partial sums are numbers,
LEMMA SumsTyped ==
    ASSUME NEW S, IsFiniteSet(S), NEW fun, \A x \in S : fun[x] \in Int,
           NEW h, SumsOver(h, fun, S)
    PROVE  \A U \in SUBSET S : h[U] \in Int
<1> DEFINE B == { U \in SUBSET S : h[U] \notin Int }
<1> SUFFICES ASSUME B # {} PROVE FALSE
  OBVIOUS
<1>1. PICK U \in B : \A V \in B : V \subseteq U => V = U
  <2>1. B \in SUBSET SUBSET S
    OBVIOUS
  <2> HIDE DEF B
  <2>2. QED BY <2>1, SmallestSubset
<1> DEFINE x == CHOOSE y \in U : TRUE
<1>2. h[U] = IF U = {} THEN 0 ELSE fun[x] + h[U \ {x}]
  BY DEF SumsOver
<1>3. U # {} /\ x \in U /\ x \in S
  BY <1>1, <1>2
<1> HIDE DEF x
<1>4. h[U \ {x}] \in Int
  BY <1>1, <1>3
<1>5. QED BY <1>1, <1>2, <1>3, <1>4

\* The sum over a finite set is a solution of that equation on it.
LEMMA SumSolves ==
    ASSUME NEW S, IsFiniteSet(S), NEW fun, \A x \in S : fun[x] \in Int
    PROVE  \E h : /\ SumsOver(h, fun, S)
                  /\ \A U \in SUBSET S : h[U] \in Int
                  /\ FoldsOver(h, S, 0, AnyOf(S), SumStep(fun, S))
                  /\ SumFunctionOnSet(fun, S) = h[S]
<1> DEFINE ch == AnyOf(S)
           step == SumStep(fun, S)
<1>1. \A U \in SUBSET S : U # {} => ch[U] \in U
  BY AnyOfPicks
<1>2. \A x \in S, a \in Int : step[x][a] \in Int /\ step[x][a] = fun[x] + a
  BY DEF SumStep
<1>3. \A U \in SUBSET S : ch[U] = CHOOSE x \in U : TRUE
  BY DEF AnyOf
<1> HIDE DEF ch, step
<1>4. ASSUME NEW h, FoldsOver(h, S, 0, ch, step)
      PROVE  SumsOver(h, fun, S) /\ \A U \in SUBSET S : h[U] \in Int
  <2>1. \A U \in SUBSET S : h[U] \in Int
    <3>1. 0 \in Int /\ \A x \in S, a \in Int : step[x][a] \in Int
      BY <1>2
    <3>2. QED BY <1>1, <1>4, <3>1, FoldType
  <2>2. \A U \in SUBSET S : U # {} => step[ch[U]][h[U \ {ch[U]}]] = fun[ch[U]] + h[U \ {ch[U]}]
    BY <1>1, <1>2, <2>1
  <2>3. h = [U \in SUBSET S |-> IF U = {} THEN 0 ELSE fun[ch[U]] + h[U \ {ch[U]}]]
    BY <1>4, <2>2 DEF FoldsOver
  <2>4. QED BY <1>3, <2>1, <2>3 DEF SumsOver
<1>5. \E h : SumsOver(h, fun, S)
  BY <1>1, <1>4, FoldExists
<1> DEFINE sum == CHOOSE h : SumsOver(h, fun, S)
<1>6. SumsOver(sum, fun, S)
  BY <1>5
<1> HIDE DEF sum
<1>7. \A U \in SUBSET S : sum[U] \in Int
  BY <1>6, SumsTyped
<1>8. FoldsOver(sum, S, 0, ch, step)
  <2>1. \A U \in SUBSET S : U # {} => step[ch[U]][sum[U \ {ch[U]}]] = fun[ch[U]] + sum[U \ {ch[U]}]
    BY <1>1, <1>2, <1>7
  <2>2. sum = [U \in SUBSET S |-> IF U = {} THEN 0 ELSE fun[ch[U]] + sum[U \ {ch[U]}]]
    BY <1>3, <1>6 DEF SumsOver
  <2>3. QED BY <2>1, <2>2 DEF FoldsOver
<1>9. QED BY <1>6, <1>7, <1>8, SumIsChosen DEF sum, ch, step

\* and the same in whatever set they are taken.
LEMMA SumsAgree ==
    ASSUME NEW S, IsFiniteSet(S), NEW fun, NEW V \in SUBSET S,
           NEW h, SumsOver(h, fun, S), NEW k, SumsOver(k, fun, V)
    PROVE  h[V] = k[V]
<1> DEFINE B == { U \in SUBSET V : h[U] # k[U] }
<1> SUFFICES ASSUME B # {} PROVE FALSE
  OBVIOUS
<1>1. PICK U \in B : \A W \in B : W \subseteq U => W = U
  <2>1. B \in SUBSET SUBSET S
    OBVIOUS
  <2> HIDE DEF B
  <2>2. QED BY <2>1, SmallestSubset
<1> DEFINE x == CHOOSE y \in U : TRUE
<1>2. /\ h[U] = IF U = {} THEN 0 ELSE fun[x] + h[U \ {x}]
      /\ k[U] = IF U = {} THEN 0 ELSE fun[x] + k[U \ {x}]
  BY <1>1 DEF SumsOver
<1>3. U # {} /\ x \in U
  BY <1>1, <1>2
<1> HIDE DEF x
<1>4. U \ {x} \notin B /\ U \ {x} \in SUBSET V
  BY <1>1, <1>3
<1>5. QED BY <1>1, <1>2, <1>3, <1>4

\* The sum over the empty set, and one element taken out of a sum.
LEMMA SumFirst ==
    ASSUME NEW S, IsFiniteSet(S), NEW fun, \A x \in S : fun[x] \in Int
    PROVE  /\ SumFunctionOnSet(fun, S) \in Int
           /\ S = {} => SumFunctionOnSet(fun, S) = 0
           /\ LET x == CHOOSE y \in S : TRUE
              IN  S # {} => SumFunctionOnSet(fun, S) = fun[x] + SumFunctionOnSet(fun, S \ {x})
<1>1. PICK h : /\ SumsOver(h, fun, S)
               /\ \A U \in SUBSET S : h[U] \in Int
               /\ SumFunctionOnSet(fun, S) = h[S]
  BY SumSolves
<1> DEFINE x == CHOOSE y \in S : TRUE
           T == S \ {x}
<1>2. h[S] = IF S = {} THEN 0 ELSE fun[x] + h[T]
  BY <1>1 DEF SumsOver
<1>3. IsFiniteSet(T) /\ T \in SUBSET S
  BY FS_Subset
<1>4. SumFunctionOnSet(fun, T) = h[T]
  <2>1. \A y \in T : fun[y] \in Int
    OBVIOUS
  <2> HIDE DEF T
  <2>2. PICK k : SumsOver(k, fun, T) /\ SumFunctionOnSet(fun, T) = k[T]
    BY <1>3, <2>1, SumSolves
  <2>3. QED BY <1>1, <1>3, <2>2, SumsAgree
<1>5. QED BY <1>1, <1>2, <1>4

\* A sum without one of its terms.
LEMMA SumRemove ==
    ASSUME NEW S, IsFiniteSet(S), NEW fun, \A x \in S : fun[x] \in Int, NEW x \in S
    PROVE  /\ SumFunctionOnSet(fun, S) = fun[x] + SumFunctionOnSet(fun, S \ {x})
           /\ SumFunctionOnSet(fun, S \ {x}) \in Int
<1> DEFINE sum(T) == SumFunctionOnSet(fun, T)
           B == { T \in SUBSET S : \E y \in T : sum(T) # fun[y] + sum(T \ {y}) }
<1>1. \A T \in SUBSET S :
         /\ sum(T) \in Int
         /\ T # {} => \E c \in T : sum(T) = fun[c] + sum(T \ {c})
  <2> TAKE T \in SUBSET S
  <2>1. IsFiniteSet(T) /\ \A y \in T : fun[y] \in Int
    BY FS_Subset
  <2>2. QED BY <2>1, SumFirst
<1>2. SUFFICES ASSUME B # {} PROVE FALSE
  BY <1>1
<1>3. PICK T \in B : \A U \in B : U \subseteq T => U = T
  <2>1. B \in SUBSET SUBSET S
    OBVIOUS
  <2> HIDE DEF B
  <2>2. QED BY <1>2, <2>1, SmallestSubset
<1> HIDE DEF sum
<1>4. PICK y \in T : sum(T) # fun[y] + sum(T \ {y})
  BY <1>3
<1>5. PICK c \in T : sum(T) = fun[c] + sum(T \ {c})
  BY <1>1, <1>4
<1>6. c # y /\ T \ {c} \notin B /\ T \ {y} \notin B
  BY <1>3, <1>4, <1>5
<1> DEFINE R == T \ {c, y}
<1>7. sum(T \ {c}) = fun[y] + sum(R) /\ sum(T \ {y}) = fun[c] + sum(R)
  <2>1. /\ T \ {c} \in SUBSET S /\ y \in T \ {c} /\ (T \ {c}) \ {y} = R
        /\ T \ {y} \in SUBSET S /\ c \in T \ {y} /\ (T \ {y}) \ {c} = R
    BY <1>6
  <2>2. QED BY <1>6, <2>1
<1>8. fun[c] \in Int /\ fun[y] \in Int /\ sum(R) \in Int
  BY <1>1
<1> HIDE DEF R
<1>9. QED BY <1>4, <1>5, <1>7, <1>8

\* Functions that agree on a set have the same sum over it.
LEMMA SumSame ==
    ASSUME NEW S, IsFiniteSet(S), NEW f, NEW g,
           \A x \in S : f[x] \in Int /\ g[x] = f[x]
    PROVE  SumFunctionOnSet(g, S) = SumFunctionOnSet(f, S)
<1>1. PICK h : SumsOver(h, f, S) /\ SumFunctionOnSet(f, S) = h[S]
  BY SumSolves
<1>2. \A x \in S : g[x] \in Int
  OBVIOUS
<1>3. PICK k : SumsOver(k, g, S) /\ SumFunctionOnSet(g, S) = k[S]
  BY <1>2, SumSolves
<1>4. SumsOver(k, f, S)
  <2>1. \A U \in SUBSET S : U # {} => (CHOOSE x \in U : TRUE) \in S
    OBVIOUS
  <2>2. k = [U \in SUBSET S |-> IF U = {} THEN 0
               ELSE f[CHOOSE x \in U : TRUE] + k[U \ {CHOOSE x \in U : TRUE}]]
    BY <1>3, <2>1 DEF SumsOver
  <2>3. QED BY <2>2 DEF SumsOver
<1>5. S \in SUBSET S
  OBVIOUS
<1>6. QED BY <1>1, <1>3, <1>4, <1>5, SumsAgree

\* A sum of a function whose value changes at one argument.
LEMMA SumReplace ==
    ASSUME NEW S, IsFiniteSet(S), NEW f, NEW g, NEW x \in S,
           \A y \in S : f[y] \in Int /\ g[y] \in Int,
           \A y \in S \ {x} : g[y] = f[y]
    PROVE  SumFunctionOnSet(g, S) = SumFunctionOnSet(f, S) - f[x] + g[x]
<1> DEFINE T == S \ {x}
<1>1. IsFiniteSet(T) /\ \A y \in T : f[y] \in Int /\ g[y] = f[y]
  BY FS_Subset
<1>2. SumFunctionOnSet(g, T) = SumFunctionOnSet(f, T)
  <2> HIDE DEF T
  <2>1. QED BY <1>1, SumSame
<1>3. /\ SumFunctionOnSet(g, S) = g[x] + SumFunctionOnSet(g, T)
      /\ SumFunctionOnSet(f, S) = f[x] + SumFunctionOnSet(f, T)
      /\ SumFunctionOnSet(f, T) \in Int
  BY SumRemove
<1>4. QED BY <1>2, <1>3

\* A sum of nothing but zeros, and of natural numbers.
LEMMA SumNat ==
    ASSUME NEW S, IsFiniteSet(S), NEW f, \A x \in S : f[x] \in Nat
    PROVE  /\ SumFunctionOnSet(f, S) \in Nat
           /\ (\A x \in S : f[x] = 0) => SumFunctionOnSet(f, S) = 0
<1> DEFINE sum(T) == SumFunctionOnSet(f, T)
           zero(T) == \A x \in T : f[x] = 0
           B == { T \in SUBSET S : sum(T) \notin Nat \/ (zero(T) /\ sum(T) # 0) }
<1> SUFFICES ASSUME B # {} PROVE FALSE
  OBVIOUS
<1>1. PICK T \in B : \A U \in B : U \subseteq T => U = T
  <2>1. B \in SUBSET SUBSET S
    OBVIOUS
  <2> HIDE DEF B
  <2>2. QED BY <2>1, SmallestSubset
<1>2. IsFiniteSet(T) /\ \A y \in T : f[y] \in Int
  BY FS_Subset
<1>3. CASE T = {}
  BY <1>1, <1>2, <1>3, SumFirst
<1>4. CASE T # {}
  <2>1. PICK c \in T : TRUE
    BY <1>4
  <2>2. sum(T) = f[c] + sum(T \ {c})
    BY <1>2, SumRemove
  <2>3. T \ {c} \notin B /\ T \ {c} \in SUBSET S /\ f[c] \in Nat
    BY <1>1
  <2> HIDE DEF sum
  <2>4. QED BY <1>1, <2>2, <2>3
<1>5. QED BY <1>3, <1>4

\* Sums over an initial segment.
LEMMA SumUpTo ==
    ASSUME NEW n \in Nat, NEW hours, \A i \in 1 .. n : hours[i] \in Int
    PROVE  /\ SumFunctionOnSet(hours, 1 .. 0) = 0
           /\ \A k \in 1 .. n : /\ SumFunctionOnSet(hours, 1 .. k - 1) \in Int
                                /\ SumFunctionOnSet(hours, 1 .. k) \in Int
                                /\ SumFunctionOnSet(hours, 1 .. k)
                                     = SumFunctionOnSet(hours, 1 .. k - 1) + hours[k]
<1>1. 1 .. 0 = {} /\ IsFiniteSet({})
  BY FS_EmptySet
<1>2. SumFunctionOnSet(hours, 1 .. 0) = 0
  BY <1>1, SumFirst
<1>3. ASSUME NEW k \in 1 .. n
      PROVE  /\ SumFunctionOnSet(hours, 1 .. k - 1) \in Int
             /\ SumFunctionOnSet(hours, 1 .. k) \in Int
             /\ SumFunctionOnSet(hours, 1 .. k) = SumFunctionOnSet(hours, 1 .. k - 1) + hours[k]
  <2>1. IsFiniteSet(1 .. k) /\ k \in 1 .. k /\ (1 .. k) \ {k} = 1 .. k - 1
    BY FS_Interval
  <2>2. \A i \in 1 .. k : hours[i] \in Int
    OBVIOUS
  <2>3. /\ SumFunctionOnSet(hours, 1 .. k) = hours[k] + SumFunctionOnSet(hours, 1 .. k - 1)
        /\ SumFunctionOnSet(hours, 1 .. k - 1) \in Int
    BY <2>1, <2>2, SumRemove
  <2>4. QED BY <2>2, <2>3
<1>4. QED BY <1>2, <1>3

-----------------------------------------------------------------------------
(***************************************************************************)
(* Greatest numbers.                                                       *)
(***************************************************************************)
Positions(S) == S \subseteq Int

\* A set of numbers that is finite and not empty has a greatest one.
LEMMA MaxExists ==
    ASSUME NEW S, IsFiniteSet(S), Positions(S)
    PROVE  \A U \in SUBSET S : U # {} => \E m \in U : \A x \in U : m >= x
<1> DEFINE B == { U \in SUBSET S : U # {} /\ \A m \in U : \E x \in U : ~ m >= x }
<1> SUFFICES ASSUME B # {} PROVE FALSE
  OBVIOUS
<1>1. PICK U \in B : \A V \in B : V \subseteq U => V = U
  <2>1. B \in SUBSET SUBSET S
    OBVIOUS
  <2> HIDE DEF B
  <2>2. QED BY <2>1, SmallestSubset
<1>2. PICK x \in U : TRUE
  BY <1>1
<1>3. U # {x}
  <2> SUFFICES ASSUME U = {x} PROVE FALSE
    OBVIOUS
  <2>1. x \in Int /\ x >= x
    BY <1>1, <1>2 DEF Positions
  <2>2. \A m \in U : \E y \in U : ~ m >= y
    BY <1>1
  <2>3. QED BY <2>1, <2>2
<1> DEFINE V == U \ {x}
<1>4. V # {} /\ V \notin B /\ V \in SUBSET S
  BY <1>1, <1>2, <1>3
<1>5. PICK m \in V : \A y \in V : m >= y
  BY <1>4
<1>6. x \in Int /\ m \in Int /\ \A y \in U : y \in Int
  BY <1>1 DEF Positions
<1>7. \A y \in U : y = x \/ m >= y
  BY <1>5
<1>8. (\A y \in U : m >= y) \/ (\A y \in U : x >= y)
  <2> HIDE DEF B
  <2>1. QED BY <1>6, <1>7
<1>9. QED BY <1>1, <1>2, <1>5, <1>8

\* The greatest number is one of them.
LEMMA MaxPicks ==
    ASSUME NEW S, IsFiniteSet(S), Positions(S)
    PROVE  \A U \in SUBSET S : U # {} => Max(U) \in U /\ \A x \in U : x <= Max(U)
<1> SUFFICES ASSUME NEW U \in SUBSET S, U # {}
             PROVE  Max(U) \in U /\ \A x \in U : x <= Max(U)
  OBVIOUS
<1>1. \E m \in U : \A x \in U : m >= x
  BY MaxExists
<1>2. Max(U) \in U /\ \A x \in U : Max(U) >= x
  BY <1>1 DEF Max
<1>3. QED BY <1>2

-----------------------------------------------------------------------------
(***************************************************************************)
(* Least numbers.                                                          *)
(***************************************************************************)
\* Positions in a log, a month, a fold or a path, and levels of a document.
Numbers(B) == B \subseteq Nat

\* A set of natural numbers that is not empty has a least one.
LEMMA LeastNumber ==
    ASSUME NEW B, Numbers(B), B # {}
    PROVE  \E m \in B : \A x \in B : m <= x
<1>1. PICK n \in B : TRUE
  OBVIOUS
<1>2. B \subseteq Nat
  BY DEF Numbers
<1> DEFINE S == 0 .. n
           F == { U \in SUBSET S : \E k \in B : U = 0 .. k }
<1>3. n \in Nat /\ 0 .. n \in F
  BY <1>1, <1>2
<1>4. IsFiniteSet(S)
  BY <1>3, FS_Interval
<1>5. F \in SUBSET SUBSET S /\ F # {}
  BY <1>3
<1>6. PICK T \in F : \A U \in F : U \subseteq T => U = T
  <2> HIDE DEF F, S
  <2>1. QED BY <1>4, <1>5, SmallestSubset
<1>7. PICK k \in B : T = 0 .. k
  BY <1>6
<1>8. ASSUME NEW x \in B, ~ k <= x PROVE FALSE
  <2>1. x \in Nat /\ k \in Nat /\ x < k
    BY <1>2, <1>8
  <2>2. 0 .. x \subseteq T /\ 0 .. x \in F
    BY <1>6, <1>7, <2>1
  <2>3. k \in T /\ k \notin 0 .. x
    BY <1>7, <2>1
  <2>4. QED BY <1>6, <2>2, <2>3
<1>9. QED BY <1>8

-----------------------------------------------------------------------------
(***************************************************************************)
(* Folds from the left.                                                    *)
(***************************************************************************)

\* The greatest of every subset of 1 .. n.
Largest(n) == [U \in SUBSET (1 .. n) |-> Max(U)]

\* The greatest number of an initial segment.
LEMMA LargestPicks ==
    ASSUME NEW n \in Nat
    PROVE  /\ IsFiniteSet(1 .. n)
           /\ \A U \in SUBSET (1 .. n) : U # {} => Largest(n)[U] \in U /\ Max(U) \in U
           /\ \A k \in 1 .. n : /\ Max(1 .. k) = k /\ (1 .. k) \ {k} = 1 .. k - 1
                                 /\ 1 .. k \in SUBSET (1 .. n) /\ 1 .. k # {}
<1> DEFINE S == 1 .. n
<1>1. IsFiniteSet(S)
  BY FS_Interval
<1>2. Positions(S)
  BY DEF Positions
<1>3. \A U \in SUBSET S : U # {} => Max(U) \in U /\ \A x \in U : x <= Max(U)
  <2> HIDE DEF S
  <2>1. QED BY <1>1, <1>2, MaxPicks
<1>4. ASSUME NEW k \in 1 .. n
      PROVE  /\ Max(1 .. k) = k /\ (1 .. k) \ {k} = 1 .. k - 1
             /\ 1 .. k \in SUBSET S /\ 1 .. k # {}
  <2>1. 1 .. k \in SUBSET S /\ k \in 1 .. k
    OBVIOUS
  <2>2. Max(1 .. k) \in 1 .. k /\ \A x \in 1 .. k : x <= Max(1 .. k)
    BY <1>3, <2>1
  <2>3. k <= Max(1 .. k)
    BY <2>1, <2>2
  <2>4. QED BY <2>1, <2>2, <2>3
<1>5. QED BY <1>1, <1>3, <1>4 DEF Largest

\* h folds the first n steps from base, from the left.
LeftFolds(h, n, base, step) ==
    h = [U \in SUBSET (1 .. n) |-> IF U = {} THEN base ELSE step[Max(U)][h[U \ {Max(U)}]]]
Stays(step, n, A) == \A i \in 1 .. n, a \in A : step[i][a] \in A
AllIn(h, n, A) == \A U \in SUBSET (1 .. n) : h[U] \in A

\* A fold from the left whose steps stay in a set.
LEMMA LeftFold ==
    ASSUME NEW n \in Nat, NEW A, NEW base \in A, NEW step, Stays(step, n, A)
    PROVE  \E h : LeftFolds(h, n, base, step) /\ AllIn(h, n, A)
<1> DEFINE S == 1 .. n
           ch == Largest(n)
<1>1. IsFiniteSet(S) /\ \A U \in SUBSET S : U # {} => ch[U] \in U
  BY LargestPicks
<1>2. \A U \in SUBSET S : ch[U] = Max(U)
  BY DEF Largest
<1> HIDE DEF S, ch
<1>3. PICK h : FoldsOver(h, S, base, ch, step)
  BY <1>1, FoldExists
<1>4. \A i \in S, a \in A : step[i][a] \in A
  BY DEF S, Stays
<1>5. \A U \in SUBSET S : h[U] \in A
  BY <1>1, <1>3, <1>4, FoldType
<1>6. h = [U \in SUBSET S |-> IF U = {} THEN base ELSE step[Max(U)][h[U \ {Max(U)}]]]
  BY <1>2, <1>3 DEF FoldsOver
<1>7. QED BY <1>5, <1>6 DEF S, LeftFolds, AllIn
=============================================================================
