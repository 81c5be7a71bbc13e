--------------------------- MODULE EvaluationProofs ---------------------------
(***************************************************************************)
(* What the gate guarantees of the baseline, and how the outputs made of   *)
(* one run agree, for every tolerance and every set of runs of any size.   *)
(*                                                                         *)
(* Of the baseline nothing is used of how the metrics come about: the gate *)
(* compares only values it has found to be rates.  That the outputs agree  *)
(* rests on sums over the cases of a run, and so does its dialect.  Such a *)
(* fact is proved from the smallest set of cases, keys or places for which *)
(* it would not hold.                                                      *)
(***************************************************************************)
EXTENDS Evaluation, FiniteSetTheorems, WellFoundedInduction, TLAPS

-----------------------------------------------------------------------------
(* The baseline.                                                            *)
\* The baseline clears the floors, it sank by at most a tolerance with every
\* promotion, and the ghost holds numbers.
HInv ==
  /\ history.promoted \in Nat
  /\ history.first \in [Watched -> Int]
  /\ DOMAIN history = {"first", "promoted"}

\* A baseline that can be read has every watched metric and clears every floor.
BaselineHolds ==
  File(baseline) => \A w \in Watched : /\ baseline.m.headline[w] \in Rate
                                       /\ baseline.m.headline[w] >= Floor[w]

BInv == HInv /\ BaselineHolds /\ DriftBounded

\* Rates are numbers.
LEMMA RateIsInt == Rate \subseteq Int
BY DEF Rate, One

\* Every floor is a rate.
LEMMA FloorIsRate == \A w \in Watched : Floor[w] \in Rate
BY DEF Floor, Watched, Rate, One

\* The gate passes a run only with every watched metric a rate at its floor.
LEMMA PassesFloor ==
  ASSUME Passes
  PROVE  \A w \in Watched : metrics.m.headline[w] \in Rate /\ metrics.m.headline[w] >= Floor[w]
BY DEF Passes, BelowFloor

\* A file that is absent or broken is not whole.
LEMMA NotWhole == ~File(NoFile) /\ ~File(Broken)
BY DEF File, NoFile, Broken

\* Before anything is promoted there is no baseline.
LEMMA InitBInv == Init => BInv
<1> SUFFICES ASSUME Init PROVE BInv
  OBVIOUS
<1>1. HInv
  BY DEF Init, HInv, Floor, Watched
<1>2. ~File(baseline)
  BY NotWhole DEF Init
<1> QED BY <1>1, <1>2 DEF BInv, BaselineHolds, DriftBounded

\* A promotion starts a history at its own values, or lowers the baseline by
\* at most one tolerance and counts one promotion more.
LEMMA PromoteBInv ==
  ASSUME BInv, Promote
  PROVE  BInv'
<1>1. \A w \in Watched : metrics.m.headline[w] \in Rate /\ metrics.m.headline[w] >= Floor[w]
  BY PassesFloor DEF Promote
<1>2. baseline' = metrics
  BY DEF Promote
<1>3. BaselineHolds'
  BY <1>1, <1>2 DEF BaselineHolds
<1>4. CASE ~Comparable
  <2>1. history' = [first |-> Watch(metrics.m), promoted |-> 0]
    BY <1>4 DEF Promote
  <2>2. HInv'
    <3>1. \A w \in Watched : metrics.m.headline[w] \in Int
      BY <1>1, RateIsInt
    <3>2. Watch(metrics.m) \in [Watched -> Int]
      BY <3>1 DEF Watch
    <3>3. history'.first = Watch(metrics.m) /\ history'.promoted = 0
      BY <2>1
    <3>4. DOMAIN history' = {"first", "promoted"}
      BY <2>1
    <3> QED BY <3>2, <3>3, <3>4 DEF HInv
  <2>3. ASSUME NEW w \in Watched
        PROVE  history'.first[w] - baseline'.m.headline[w] <= Tolerance * history'.promoted
    <3>1. history'.first[w] = metrics.m.headline[w] /\ history'.promoted = 0
      BY <2>1 DEF Watch
    <3>2. metrics.m.headline[w] \in Int
      BY <1>1, RateIsInt
    <3>3. Tolerance * 0 = 0
      BY ToleranceAssumption
    <3>4. baseline'.m.headline[w] = metrics.m.headline[w]
      BY <1>2
    <3> HIDE DEF Watch
    <3> QED BY <3>1, <3>2, <3>3, <3>4
  <2> QED BY <1>3, <2>2, <2>3 DEF BInv, DriftBounded
<1>5. CASE Comparable
  <2>1. history' = [history EXCEPT !.promoted = history.promoted + 1]
    BY <1>5 DEF Promote
  <2>2. /\ history'.promoted = history.promoted + 1
        /\ history'.first = history.first
        /\ DOMAIN history' = DOMAIN history
    BY <2>1 DEF BInv, HInv
  <2>3. HInv'
    BY <2>2 DEF BInv, HInv
  <2>4. ASSUME NEW w \in Watched
        PROVE  history'.first[w] - baseline'.m.headline[w] <= Tolerance * history'.promoted
    <3> DEFINE first == history.first[w]
    <3> DEFINE old == baseline.m.headline[w]
    <3> DEFINE new == metrics.m.headline[w]
    <3> DEFINE n == history.promoted
    <3>1. File(baseline) /\ Regressed(metrics.m, baseline.m) = {}
      BY <1>5 DEF Promote, Passes, Comparable
    <3>2. old \in Rate /\ new \in Rate
      BY <1>1, <3>1 DEF BInv, BaselineHolds
    <3>3. ~(new < old - Tolerance)
      BY <3>1, <3>2 DEF Regressed
    <3>4. first - old <= Tolerance * n
      BY <3>1 DEF BInv, DriftBounded
    <3>5. first \in Int /\ old \in Int /\ new \in Int /\ n \in Nat /\ Tolerance \in Nat
      <4>1. first \in Int /\ n \in Nat
        BY DEF BInv, HInv
      <4>2. old \in Int /\ new \in Int
        BY <3>2, RateIsInt
      <4> QED BY <4>1, <4>2, ToleranceAssumption
    <3> HIDE DEF first, old, new, n
    <3>6. Tolerance * (n + 1) = Tolerance * n + Tolerance
      BY <3>5
    <3>7. Tolerance * n \in Int
      BY <3>5
    <3>8. first - new <= Tolerance * (n + 1)
      BY <3>3, <3>4, <3>5, <3>6, <3>7
    <3> QED BY <3>8, <2>2, <1>2 DEF first, new, n
  <2> QED BY <1>3, <2>3, <2>4 DEF BInv, DriftBounded
<1> QED BY <1>4, <1>5

\* No other step writes a baseline that can be read, or touches the ghost.
LEMMA NextBInv ==
  ASSUME BInv, [Next]_vars
  PROVE  BInv'
<1>1. CASE Promote
  BY <1>1, PromoteBInv
<1>2. ASSUME UNCHANGED history, UNCHANGED baseline \/ ~File(baseline')
      PROVE  BInv'
  BY <1>2 DEF BInv, HInv, BaselineHolds, DriftBounded
<1>3. CASE NewRun
  BY <1>2, <1>3 DEF NewRun
<1>4. CASE BuildMetrics \/ BuildInterrupted \/ BuildRaises
  BY <1>2, <1>4 DEF BuildMetrics, BuildInterrupted, BuildRaises
<1>5. CASE Gate \/ GateRaises \/ Upgrade
  BY <1>2, <1>5 DEF Gate, GateRaises, Upgrade
<1>6. CASE PromoteInterrupted \/ RemoveBaseline
  <2>1. UNCHANGED history /\ ~File(baseline')
    BY <1>6, NotWhole DEF PromoteInterrupted, RemoveBaseline
  <2> QED BY <1>2, <2>1
<1>7. CASE UNCHANGED vars
  BY <1>2, <1>7 DEF vars
<1> QED BY <1>1, <1>3, <1>4, <1>5, <1>6, <1>7 DEF Next

\* The inductive invariant holds throughout.
THEOREM BInvAlways == Spec => []BInv
<1>1. Init => BInv
  BY InitBInv
<1>2. BInv /\ [Next]_vars => BInv'
  BY NextBInv
<1> QED BY <1>1, <1>2, PTL DEF Spec

\* After n promotions of one version, no watched metric of the baseline is
\* further than n tolerances below the first of them (gate.py:74-81).
THEOREM DriftBoundedAlways == Spec => []DriftBounded
<1>1. BInv => DriftBounded
  BY DEF BInv
<1> QED BY <1>1, BInvAlways, PTL

\* The baseline is what was promoted last, or its replacement was cut off.
Kept == baseline = Broken \/ baseline = known

LEMMA KeptInductive == Kept /\ [Next]_vars => Kept'
<1> SUFFICES ASSUME Kept, [Next]_vars PROVE Kept'
  OBVIOUS
<1>1. CASE Promote \/ RemoveBaseline
  BY <1>1 DEF Promote, RemoveBaseline, Kept
<1>2. CASE PromoteInterrupted
  BY <1>2 DEF PromoteInterrupted, Kept
<1>3. CASE UNCHANGED <<baseline, known>>
  BY <1>3 DEF Kept
<1> QED
  BY <1>1, <1>2, <1>3
  DEF Next, NewRun, BuildMetrics, BuildInterrupted, BuildRaises, Gate, GateRaises, Upgrade, vars

\* A run that passes is not worse than what was promoted last and not deleted
\* since: a replacement of the baseline that was cut off stops every gate and
\* does not leave the floors alone (gate.py:69-99).
THEOREM PassNotWorseAlways == Spec => PassNotWorse
<1> DEFINE Holds ==
      (Gate \/ Promote) /\ outcome' = "pass" =>
        /\ BelowFloor(metrics.m) = {}
        /\ File(known) /\ known.schema_version = metrics.schema_version =>
             /\ Regressed(metrics.m, known.m) = {}
             /\ SlicesRegressed(metrics.m, known.m) = {}
<1>1. Init => Kept
  BY DEF Init, Kept
<1>2. ASSUME Kept, Gate \/ Promote, outcome' = "pass"
      PROVE  Holds
  <2>1. baseline = known
    BY <1>2 DEF Gate, Promote, GateReads, Kept
  <2>2. Passes
    BY <1>2 DEF Gate, Promote
  <2> QED BY <2>1, <2>2 DEF Passes, Comparable
<1>3. Kept => [Holds]_vars
  BY <1>2
<1> HIDE DEF Holds
<1>4. Spec => [][Holds]_vars
  BY <1>1, <1>3, KeptInductive, PTL DEF Spec
<1> QED BY <1>4 DEF PassNotWorse, Holds

\* What passes the gate is measured in rates.
LEMMA WatchOfPassing == Passes => Watch(metrics.m) \in [Watched -> Rate]
BY PassesFloor DEF Watch

\* Every step keeps every variable to its range: files are written in the
\* version of the day, and versions only grow.
LEMMA TypeInductive == TypeOK /\ [Next]_vars => TypeOK'
<1> SUFFICES ASSUME TypeOK, [Next]_vars PROVE TypeOK'
  OBVIOUS
<1>1. 1 .. schema \subseteq 1 .. (schema + 1) /\ schema \in Int
  BY BoundsAssumption DEF TypeOK
<1>2. CASE NewRun
  BY <1>2, NotWhole DEF NewRun, TypeOK
<1>3. CASE BuildMetrics \/ BuildInterrupted \/ BuildRaises
  BY <1>1, <1>3, NotWhole DEF BuildMetrics, BuildInterrupted, BuildRaises, TypeOK, Written
<1>4. CASE Gate \/ GateRaises
  BY <1>4 DEF Gate, GateRaises, TypeOK
<1>5. CASE Promote
  <2>1. metrics' = metrics /\ baseline' = metrics /\ schema' = schema /\ folder' = folder
    BY <1>5 DEF Promote
  <2>2. history'.first \in [Watched -> Rate] /\ history'.promoted \in 0 .. MaxPromotions
    <3>1. CASE Comparable
      <4>1. /\ history' = [history EXCEPT !.promoted = history.promoted + 1]
            /\ history.promoted < MaxPromotions
        BY <1>5, <3>1 DEF Promote
      <4>2. history'.first = history.first
        BY <4>1
      <4>3. \/ history'.promoted = history.promoted + 1
            \/ history'.promoted = history.promoted
        BY <4>1
      <4> QED BY <4>1, <4>2, <4>3, BoundsAssumption DEF TypeOK
    <3>2. CASE ~Comparable
      <4>1. history' = [first |-> Watch(metrics.m), promoted |-> 0]
        BY <1>5, <3>2 DEF Promote
      <4>2. Watch(metrics.m) \in [Watched -> Rate]
        BY <1>5, WatchOfPassing DEF Promote
      <4> QED BY <4>1, <4>2, BoundsAssumption
    <3> QED BY <3>1, <3>2
  <2>3. outcome' = "pass"
    BY <1>5 DEF Promote
  <2> QED BY <2>1, <2>2, <2>3 DEF TypeOK
<1>6. CASE PromoteInterrupted \/ RemoveBaseline
  BY <1>6, NotWhole DEF PromoteInterrupted, RemoveBaseline, TypeOK
<1>7. CASE Upgrade
  <2>1. schema' \in 1 .. MaxVersion /\ 1 .. schema \subseteq 1 .. schema'
    BY <1>1, <1>7, BoundsAssumption DEF Upgrade, TypeOK
  <2> QED BY <1>7, <2>1 DEF Upgrade, TypeOK
<1>8. CASE UNCHANGED vars
  BY <1>8 DEF vars, TypeOK
<1> QED BY <1>2, <1>3, <1>4, <1>5, <1>6, <1>7, <1>8 DEF Next

\* Every variable keeps to its range, whatever the runs and the bounds.
THEOREM TypeCorrect == Spec => []TypeOK
<1>1. Init => TypeOK
  BY BoundsAssumption, NotWhole, FloorIsRate DEF Init, TypeOK, Floor, Watched
<1>2. TypeOK /\ [Next]_vars => TypeOK'
  BY TypeInductive
<1> QED BY <1>1, <1>2, PTL DEF Spec

-----------------------------------------------------------------------------
(* Sums.                                                                    *)

\* A set of natural numbers has a least one.
LEMMA LeastOf ==
  ASSUME NEW T \in SUBSET Nat, T # {}
  PROVE  \E m \in T : \A y \in T : m <= y
<1> DEFINE Less == OpToRel(<, Nat)
<1>1. IsWellFoundedOn(Less, Nat)
  BY NatLessThanWellFounded
<1>2. \A ss : ss \in Less <=> ss \in Nat \X Nat /\ ss[1] < ss[2]
  BY Zenon DEF OpToRel
<1> HIDE DEF Less
<1>3. PICK m \in T : \A y \in T : <<y, m>> \notin Less
  BY <1>1, WFMin
<1>4. ASSUME NEW y \in T PROVE m <= y
  <2>1. ~(y < m)
    BY <1>2, <1>3
  <2> QED BY <2>1
<1>5. QED BY <1>4

\* Among the subsets of a finite set that are bad, one is smallest.
LEMMA SmallestOf ==
  ASSUME NEW S, IsFiniteSet(S), NEW Bad \in SUBSET (SUBSET S), Bad # {}
  PROVE  \E s \in Bad : \A x \in s : s \ {x} \notin Bad
<1>1. \A s \in SUBSET S : IsFiniteSet(s) /\ Cardinality(s) \in Nat
  BY FS_Subset, FS_CardinalityType
<1>2. PICK m \in {Cardinality(s) : s \in Bad} : \A y \in {Cardinality(s) : s \in Bad} : m <= y
  <2> DEFINE T == {Cardinality(s) : s \in Bad}
  <2>1. T \in SUBSET Nat /\ T # {}
    BY <1>1
  <2> HIDE DEF T
  <2>2. \E m \in T : \A y \in T : m <= y
    BY <2>1, LeastOf
  <2> QED BY <2>2 DEF T
<1>3. PICK s \in Bad : m = Cardinality(s)
  BY <1>2
<1>4. ASSUME NEW x \in s PROVE s \ {x} \notin Bad
  <2>1. Cardinality(s \ {x}) = Cardinality(s) - 1
    BY <1>1, FS_RemoveElement
  <2>2. ~(Cardinality(s) <= Cardinality(s) - 1)
    BY <1>1
  <2> QED BY <1>2, <1>3, <2>1, <2>2
<1> QED BY <1>4

\* The table SumFunction looks its sum up in.
Pick(s) == CHOOSE x \in s : TRUE
IsSums(f, sums) ==
  sums = [s \in SUBSET DOMAIN f |-> IF s = {} THEN 0 ELSE f[Pick(s)] + sums[s \ {Pick(s)}]]
Sums(f) == CHOOSE sums : IsSums(f, sums)

\* The element a sum takes off a set is one of it.
LEMMA PickIn == ASSUME NEW s, s # {} PROVE Pick(s) \in s
BY DEF Pick

\* There is a table of the sums over the subsets of a finite domain: of
\* the sizes for which there is none, one would be the least.
LEMMA SumsExist ==
  ASSUME NEW f, IsFiniteSet(DOMAIN f)
  PROVE  \E sums : IsSums(f, sums)
<1> DEFINE S == DOMAIN f
<1> DEFINE Upto(n) == {s \in SUBSET S : Cardinality(s) <= n}
<1> DEFINE Fits(n, t) == t = [s \in Upto(n) |-> IF s = {} THEN 0 ELSE f[Pick(s)] + t[s \ {Pick(s)}]]
<1> DEFINE Bad == {n \in Nat : ~ \E t : Fits(n, t)}
<1>1. \A s \in SUBSET S : IsFiniteSet(s) /\ Cardinality(s) \in Nat /\ Cardinality(s) <= Cardinality(S)
  BY FS_Subset, FS_CardinalityType
<1>2. \A n \in Nat : \E t : Fits(n, t)
  <2>1. SUFFICES ASSUME Bad # {} PROVE FALSE
    OBVIOUS
  <2>2. PICK n \in Bad : \A y \in Bad : n <= y
    BY <2>1, LeastOf
  <2>3. n # 0
    <3>1. \A s \in Upto(0) : s = {}
      BY <1>1, FS_EmptySet
    <3>2. Fits(0, [s \in Upto(0) |-> 0])
      BY <3>1
    <3> QED BY <3>2
  <2>4. n - 1 \in Nat /\ n - 1 \notin Bad
    <3> HIDE DEF Fits
    <3>1. n \in Nat /\ ~(n <= n - 1)
      BY <2>2
    <3> HIDE DEF Bad
    <3> QED BY <2>2, <2>3, <3>1
  <2>5. PICK t : Fits(n - 1, t)
    <3> HIDE DEF Fits
    <3> QED BY <2>4
  <2> DEFINE u == [s \in Upto(n) |-> IF s = {} THEN 0 ELSE f[Pick(s)] + t[s \ {Pick(s)}]]
  <2>6. ASSUME NEW s \in Upto(n), s # {}
        PROVE  u[s \ {Pick(s)}] = t[s \ {Pick(s)}]
    <3> DEFINE r == s \ {Pick(s)}
    <3>1. Cardinality(r) = Cardinality(s) - 1
      BY <1>1, <2>6, PickIn, FS_RemoveElement
    <3>2. r \in Upto(n - 1) /\ r \in Upto(n)
      BY <3>1, <1>1
    <3>3. t[r] = IF r = {} THEN 0 ELSE f[Pick(r)] + t[r \ {Pick(r)}]
      BY <2>5, <3>2
    <3>4. u[r] = IF r = {} THEN 0 ELSE f[Pick(r)] + t[r \ {Pick(r)}]
      BY <3>2
    <3> QED BY <3>3, <3>4
  <2>7. u = [s \in Upto(n) |-> IF s = {} THEN 0 ELSE f[Pick(s)] + u[s \ {Pick(s)}]]
    <3> DEFINE v == [s \in Upto(n) |-> IF s = {} THEN 0 ELSE f[Pick(s)] + u[s \ {Pick(s)}]]
    <3>1. ASSUME NEW s \in Upto(n) PROVE u[s] = v[s]
      BY <2>6
    <3>2. DOMAIN u = Upto(n) /\ DOMAIN v = Upto(n) /\ u = [s \in Upto(n) |-> u[s]] /\ v = [s \in Upto(n) |-> v[s]]
      OBVIOUS
    <3> HIDE DEF u, v
    <3>3. u = v
      BY <3>1, <3>2
    <3> QED BY <3>3 DEF v
  <2>8. Fits(n, u)
    BY <2>7
  <2> QED BY <2>2, <2>8
<1>3. PICK t : Fits(Cardinality(S), t)
  BY <1>1, <1>2
<1>4. Upto(Cardinality(S)) = SUBSET S
  BY <1>1
<1>5. IsSums(f, t)
  BY <1>3, <1>4 DEF IsSums
<1> QED BY <1>5

\* What SumFunction adds up, an element at a time.
LEMMA SumIs ==
  ASSUME NEW f, IsFiniteSet(DOMAIN f)
  PROVE  /\ SumFunction(f) = Sums(f)[DOMAIN f]
         /\ Sums(f)[{}] = 0
         /\ \A s \in SUBSET DOMAIN f : s # {} =>
              Pick(s) \in s /\ Sums(f)[s] = f[Pick(s)] + Sums(f)[s \ {Pick(s)}]
<1>1. SumFunction(f) = Sums(f)[DOMAIN f]
  BY Zenon DEF SumFunction, SumFunctionOnSet, FoldFunctionOnSet, MapThenFoldSet, Sums, IsSums, Pick
<1>2. IsSums(f, Sums(f))
  BY SumsExist DEF Sums
<1>3. \A s \in SUBSET DOMAIN f : Sums(f)[s] = IF s = {} THEN 0 ELSE f[Pick(s)] + Sums(f)[s \ {Pick(s)}]
  BY <1>2 DEF IsSums
<1> QED BY <1>1, <1>3, PickIn

\* The things whose key is one of s, or is x.
With(X, key, s) == {c \in X : key[c] \in s}
Having(X, key, x) == {c \in X : key[c] = x}

\* Nothing has its key in no set.
LEMMA WithNone == ASSUME NEW X, NEW key PROVE Cardinality(With(X, key, {})) = 0
<1>1. With(X, key, {}) = {}
  BY DEF With
<1> QED BY <1>1, FS_EmptySet

\* A set of keys and one of its keys share out the things counted.
LEMMA WithSplit ==
  ASSUME NEW X, IsFiniteSet(X), NEW key, NEW s, NEW x \in s
  PROVE  /\ Cardinality(With(X, key, s)) =
              Cardinality(With(X, key, s \ {x})) + Cardinality(Having(X, key, x))
         /\ Cardinality(With(X, key, s \ {x})) \in Nat
         /\ Cardinality(Having(X, key, x)) \in Nat
<1> DEFINE A == With(X, key, s \ {x})
<1> DEFINE B == Having(X, key, x)
<1>1. With(X, key, s) = A \cup B /\ A \cap B = {}
  BY DEF With, Having
<1>2. IsFiniteSet(A) /\ IsFiniteSet(B)
  <2>1. A \subseteq X /\ B \subseteq X
    BY DEF With, Having
  <2> QED BY <2>1, FS_Subset
<1> HIDE DEF A, B
<1>3. Cardinality(A) \in Nat /\ Cardinality(B) \in Nat
  BY <1>2, FS_CardinalityType
<1>4. Cardinality(A \cup B) = Cardinality(A) + Cardinality(B) - Cardinality(A \cap B)
  BY <1>2, FS_Union
<1>5. Cardinality(A \cap B) = 0
  BY <1>1, FS_EmptySet
<1>6. Cardinality(With(X, key, s)) = Cardinality(A) + Cardinality(B)
  BY <1>1, <1>3, <1>4, <1>5
<1> QED BY <1>3, <1>6 DEF A, B

\* Finitely many things, counted at the key of each, are counted once.
LEMMA SumSplits ==
  ASSUME NEW C, IsFiniteSet(C), NEW key, NEW f, IsFiniteSet(DOMAIN f),
         \A c \in C : key[c] \in DOMAIN f,
         \A k \in DOMAIN f : f[k] = Cardinality(Having(C, key, k))
  PROVE  SumFunction(f) = Cardinality(C)
<1> DEFINE n(s) == Cardinality(With(C, key, s))
<1> DEFINE Bad == {s \in SUBSET DOMAIN f : Sums(f)[s] # n(s)}
<1>1. Bad = {}
  <2>1. SUFFICES ASSUME Bad # {} PROVE FALSE
    OBVIOUS
  <2>2. PICK s \in Bad : \A x \in s : s \ {x} \notin Bad
    <3> HIDE DEF Bad
    <3>1. Bad \in SUBSET (SUBSET DOMAIN f)
      BY DEF Bad
    <3> QED BY <2>1, <3>1, SmallestOf
  <2>3. s # {}
    BY SumIs, WithNone
  <2> DEFINE x == Pick(s)
  <2> DEFINE r == s \ {x}
  <2>4. x \in s /\ Sums(f)[s] = f[x] + Sums(f)[r]
    BY <2>3, SumIs
  <2> HIDE DEF x
  <2>5. Sums(f)[r] = n(r)
    BY <2>2, <2>4
  <2>6. f[x] = Cardinality(Having(C, key, x))
    BY <2>4
  <2>7. n(s) = n(r) + Cardinality(Having(C, key, x))
        /\ n(r) \in Nat /\ Cardinality(Having(C, key, x)) \in Nat
    BY <2>4, WithSplit
  <2> DEFINE b == Cardinality(Having(C, key, x))
  <2>8. b + n(r) = n(r) + b
    <3> HIDE DEF b, n
    <3> QED BY <2>7 DEF b
  <2>9. Sums(f)[s] = n(s)
    BY <2>4, <2>5, <2>6, <2>7, <2>8
  <2> QED BY <2>2, <2>9
<1>2. Sums(f)[DOMAIN f] = n(DOMAIN f)
  BY <1>1
<1>3. With(C, key, DOMAIN f) = C
  BY DEF With
<1> QED BY <1>2, <1>3, SumIs

\* A sum of n numbers up to b is at most b * n.
LEMMA SumBound ==
  ASSUME NEW f, IsFiniteSet(DOMAIN f), NEW b \in Nat, \A x \in DOMAIN f : f[x] \in 0 .. b
  PROVE  SumFunction(f) \in 0 .. b * Cardinality(DOMAIN f)
<1> DEFINE Bad == {s \in SUBSET DOMAIN f : Sums(f)[s] \notin 0 .. b * Cardinality(s)}
<1>1. Bad = {}
  <2>1. SUFFICES ASSUME Bad # {} PROVE FALSE
    OBVIOUS
  <2>2. PICK s \in Bad : \A x \in s : s \ {x} \notin Bad
    <3> HIDE DEF Bad
    <3>1. Bad \in SUBSET (SUBSET DOMAIN f)
      BY DEF Bad
    <3> QED BY <2>1, <3>1, SmallestOf
  <2>3. s # {}
    <3>1. Cardinality({}) = 0
      BY FS_EmptySet
    <3>2. 0 \in 0 .. b * 0
      OBVIOUS
    <3>3. Sums(f)[{}] = 0
      BY SumIs
    <3>4. {} \notin Bad
      BY <3>1, <3>2, <3>3
    <3> HIDE DEF Bad
    <3> QED BY <2>2, <3>4
  <2> DEFINE x == Pick(s)
  <2> DEFINE r == s \ {x}
  <2>4. x \in s /\ Sums(f)[s] = f[x] + Sums(f)[r]
    BY <2>3, SumIs
  <2> HIDE DEF x
  <2>5. Sums(f)[r] \in 0 .. b * Cardinality(r)
    BY <2>2, <2>4
  <2>6. Cardinality(r) = Cardinality(s) - 1 /\ Cardinality(s) \in Nat
    <3>1. IsFiniteSet(s)
      BY FS_Subset
    <3> QED BY <3>1, <2>4, FS_RemoveElement, FS_CardinalityType
  <2> DEFINE n == Cardinality(s)
  <2>7. b * (n - 1) = b * n - b /\ b * n \in Int
    <3> HIDE DEF n
    <3>1. n \in Nat
      BY <2>6 DEF n
    <3> QED BY <3>1
  <2>8. f[x] \in 0 .. b
    BY <2>4
  <2> DEFINE p == b * n
  <2>9. Sums(f)[r] \in 0 .. p - b /\ p \in Int
    BY <2>5, <2>6, <2>7
  <2> HIDE DEF p
  <2>10. f[x] + Sums(f)[r] \in 0 .. p
    BY <2>8, <2>9
  <2> QED BY <2>2, <2>4, <2>10 DEF p
<1>2. Sums(f)[DOMAIN f] \in 0 .. b * Cardinality(DOMAIN f)
  BY <1>1
<1> QED BY <1>2, SumIs

\* What is nowhere less is no less in sum, and less if it is somewhere less.
LEMMA SumLess ==
  ASSUME NEW D, IsFiniteSet(D), NEW f \in [D -> Int], NEW g \in [D -> Int],
         \A x \in D : f[x] <= g[x]
  PROVE  /\ SumFunction(f) \in Int /\ SumFunction(g) \in Int
         /\ SumFunction(f) <= SumFunction(g)
         /\ (\E x \in D : f[x] < g[x]) => SumFunction(f) < SumFunction(g)
<1> DEFINE F == Sums(f)
<1> DEFINE G == Sums(g)
<1> DEFINE Good(s) == /\ F[s] \in Int /\ G[s] \in Int /\ F[s] <= G[s]
                      /\ (\E x \in s : f[x] < g[x]) => F[s] < G[s]
<1> DEFINE Bad == {s \in SUBSET D : ~Good(s)}
<1>0. DOMAIN f = D /\ DOMAIN g = D
  OBVIOUS
<1>1. Bad = {}
  <2>1. SUFFICES ASSUME Bad # {} PROVE FALSE
    OBVIOUS
  <2>2. PICK s \in Bad : \A x \in s : s \ {x} \notin Bad
    <3> HIDE DEF Bad
    <3>1. Bad \in SUBSET (SUBSET D)
      BY DEF Bad
    <3> QED BY <2>1, <3>1, SmallestOf
  <2>3. s # {}
    <3>1. F[{}] = 0 /\ G[{}] = 0
      BY <1>0, SumIs
    <3>2. Good({})
      BY <3>1
    <3> QED BY <3>2
  <2> DEFINE x == Pick(s)
  <2> DEFINE r == s \ {x}
  <2>4. x \in s /\ F[s] = f[x] + F[r] /\ G[s] = g[x] + G[r]
    BY <1>0, <2>3, SumIs
  <2> HIDE DEF x
  <2>5. Good(r)
    <3> HIDE DEF Good
    <3> QED BY <2>2, <2>4
  <2>6. f[x] \in Int /\ g[x] \in Int /\ f[x] <= g[x]
    BY <2>4
  <2> HIDE DEF F, G
  <2>7. F[s] \in Int /\ G[s] \in Int /\ F[s] <= G[s]
    BY <2>4, <2>5, <2>6
  <2>8. ASSUME NEW y \in s, f[y] < g[y] PROVE F[s] < G[s]
    <3>1. CASE y = x
      BY <2>4, <2>5, <2>6, <2>8, <3>1
    <3>2. CASE y # x
      <4>1. F[r] < G[r]
        BY <2>5, <2>8, <3>2
      <4> QED BY <2>4, <2>5, <2>6, <4>1
    <3> QED BY <3>1, <3>2
  <2>9. Good(s)
    BY <2>7, <2>8
  <2> QED BY <2>2, <2>9
<1>2. Good(D)
  BY <1>1
<1> QED BY <1>0, <1>2, SumIs

\* The sets of keys of which fewer than nine in ten are good, and keys of
\* which none is such.
Short(C, G, K, key) ==
  {s \in SUBSET K : ~(9000 * Cardinality(With(C, key, s)) <= 10000 * Cardinality(With(G, key, s)))}

\* Of the sets of keys that fall short, one is smallest.
LEMMA ShortestOf ==
  ASSUME NEW C, NEW G, NEW K, IsFiniteSet(K), NEW key, Short(C, G, K, key) # {}
  PROVE  \E s \in Short(C, G, K, key) : \A x \in s : s \ {x} \notin Short(C, G, K, key)
<1>1. Short(C, G, K, key) \in SUBSET (SUBSET K)
  BY DEF Short
<1> QED BY <1>1, SmallestOf

Worth(C, G, K, key) ==
  \A k \in K : 9000 * Cardinality(Having(C, key, k)) <= 10000 * Cardinality(Having(G, key, k))

\* Parts that are worth it are worth it together: if nine in ten of each
\* key's things are good, so are nine in ten of all.
LEMMA ShareOfAll ==
  ASSUME NEW C, IsFiniteSet(C), NEW G \in SUBSET C, NEW K, IsFiniteSet(K), NEW key,
         \A c \in C : key[c] \in K,
         Worth(C, G, K, key)
  PROVE  9000 * Cardinality(C) <= 10000 * Cardinality(G)
<1> DEFINE n(X, s) == Cardinality(With(X, key, s))
<1> DEFINE Bad == Short(C, G, K, key)
<1>0. IsFiniteSet(G)
  BY FS_Subset
<1>1. Bad = {}
  <2>1. SUFFICES ASSUME Bad # {} PROVE FALSE
    OBVIOUS
  <2>2. PICK s \in Bad : \A x \in s : s \ {x} \notin Bad
    BY <2>1, ShortestOf
  <2>3. s # {}
    <3>1. n(C, {}) = 0 /\ n(G, {}) = 0
      BY WithNone
    <3>2. ~(9000 * n(C, s) <= 10000 * n(G, s))
      BY <2>2 DEF Short
    <3> HIDE DEF n
    <3>3. 9000 * 0 <= 10000 * 0
      OBVIOUS
    <3> QED BY <3>1, <3>2, <3>3
  <2>4. PICK x : x \in s
    BY <2>3
  <2> DEFINE r == s \ {x}
  <2> DEFINE at(X) == Cardinality(Having(X, key, x))
  <2>5. /\ n(C, s) = n(C, r) + at(C) /\ n(C, r) \in Nat /\ at(C) \in Nat
        /\ n(G, s) = n(G, r) + at(G) /\ n(G, r) \in Nat /\ at(G) \in Nat
    <3>1. n(C, s) = n(C, r) + at(C) /\ n(C, r) \in Nat /\ at(C) \in Nat
      BY <2>4, WithSplit
    <3>2. n(G, s) = n(G, r) + at(G) /\ n(G, r) \in Nat /\ at(G) \in Nat
      BY <1>0, <2>4, WithSplit
    <3> QED BY <3>1, <3>2
  <2>6. 9000 * at(C) <= 10000 * at(G)
    <3>1. x \in K
      BY <2>2, <2>4 DEF Short
    <3> QED BY <3>1 DEF Worth
  <2>7. 9000 * n(C, r) <= 10000 * n(G, r)
    BY <2>2, <2>4 DEF Short
  <2>8. ~(9000 * n(C, s) <= 10000 * n(G, s))
    BY <2>2 DEF Short
  <2> HIDE DEF n, at, r
  <2> QED BY <2>5, <2>6, <2>7, <2>8
<1>2. 9000 * n(C, K) <= 10000 * n(G, K)
  BY <1>1 DEF Short
<1>3. With(C, key, K) = C /\ With(G, key, K) = G
  BY DEF With
<1> QED BY <1>2, <1>3

-----------------------------------------------------------------------------
(* The longest increasing subsequence.                                      *)

\* The largest of some of the numbers up to n is one of them.
LEMMA MaxIn ==
  ASSUME NEW n \in Nat, NEW T \in SUBSET (0 .. n), T # {}
  PROVE  Max(T) \in T /\ \A y \in T : Max(T) >= y
<1>1. PICK m \in {n - x : x \in T} : \A y \in {n - x : x \in T} : m <= y
  <2>1. \A x \in T : n - x \in Nat
    OBVIOUS
  <2>2. {n - x : x \in T} \in SUBSET Nat
    BY <2>1
  <2>3. {n - x : x \in T} # {}
    OBVIOUS
  <2> QED BY <2>2, <2>3, LeastOf
<1>2. PICK x \in T : m = n - x
  BY <1>1
<1>3. \A y \in T : x >= y
  <2>1. ASSUME NEW y \in T PROVE n - x <= n - y
    BY <1>1, <1>2
  <2> QED BY <1>2, <2>1
<1> QED BY <1>3 DEF Max

\* The table of the folds of _lis_length, over the sets of indices.
Longest(seq, best, x) ==
  Append(best, 1 + Max({0} \cup {best[j] : j \in {i \in DOMAIN best : seq[i] < x}}))
IsTable(seq, t) ==
  t = [s \in SUBSET DOMAIN seq |->
         IF s = {} THEN <<>> ELSE Longest(seq, t[s \ {Max(s)}], seq[Max(s)])]
Table(seq) == CHOOSE t : IsTable(seq, t)

\* There is a table of the folds over the sets of indices.
LEMMA TableExists ==
  ASSUME NEW n \in Nat, NEW seq, DOMAIN seq = 1 .. n
  PROVE  \E t : IsTable(seq, t)
<1> DEFINE S == DOMAIN seq
<1> DEFINE Upto(k) == {s \in SUBSET S : Cardinality(s) <= k}
<1> DEFINE Entry(t, s) == IF s = {} THEN <<>> ELSE Longest(seq, t[s \ {Max(s)}], seq[Max(s)])
<1> DEFINE Fits(k, t) == t = [s \in Upto(k) |-> Entry(t, s)]
<1> DEFINE Bad == {k \in Nat : ~ \E t : Fits(k, t)}
<1>1. \A s \in SUBSET S : IsFiniteSet(s) /\ Cardinality(s) \in Nat /\ Cardinality(s) <= Cardinality(S)
  <2>1. IsFiniteSet(S)
    BY FS_Interval
  <2> QED BY <2>1, FS_Subset, FS_CardinalityType
<1>2. ASSUME NEW s \in SUBSET S, s # {} PROVE Max(s) \in s
  <2>1. s \in SUBSET (0 .. n)
    OBVIOUS
  <2> QED BY <1>2, <2>1, MaxIn
<1>3. \A k \in Nat : \E t : Fits(k, t)
  <2>1. SUFFICES ASSUME Bad # {} PROVE FALSE
    OBVIOUS
  <2>2. PICK k \in Bad : \A y \in Bad : k <= y
    BY <2>1, LeastOf
  <2>3. k # 0
    <3>1. \A s \in Upto(0) : s = {}
      BY <1>1, FS_EmptySet
    <3>2. Fits(0, [s \in Upto(0) |-> <<>>])
      BY <3>1
    <3> QED BY <3>2
  <2>4. k - 1 \in Nat /\ k - 1 \notin Bad
    <3> HIDE DEF Fits
    <3>1. k \in Nat /\ ~(k <= k - 1)
      BY <2>2
    <3> HIDE DEF Bad
    <3> QED BY <2>2, <2>3, <3>1
  <2>5. PICK t : Fits(k - 1, t)
    <3> HIDE DEF Fits
    <3> QED BY <2>4
  <2> DEFINE u == [s \in Upto(k) |-> Entry(t, s)]
  <2>6. ASSUME NEW s \in Upto(k), s # {}
        PROVE  u[s \ {Max(s)}] = t[s \ {Max(s)}]
    <3> DEFINE r == s \ {Max(s)}
    <3>1. Cardinality(r) = Cardinality(s) - 1
      BY <1>1, <1>2, <2>6, FS_RemoveElement
    <3>2. r \in Upto(k - 1) /\ r \in Upto(k)
      BY <3>1, <1>1
    <3> HIDE DEF Entry
    <3>3. t[r] = Entry(t, r)
      BY <2>5, <3>2
    <3>4. u[r] = Entry(t, r)
      BY <3>2
    <3> QED BY <3>3, <3>4
  <2>7. ASSUME NEW s \in Upto(k) PROVE Entry(u, s) = Entry(t, s)
    <3> HIDE DEF u
    <3> QED BY <2>6
  <2>8. Fits(k, u)
    <3> HIDE DEF Entry
    <3>1. u = [s \in Upto(k) |-> Entry(t, s)]
      OBVIOUS
    <3> HIDE DEF u
    <3>2. [s \in Upto(k) |-> Entry(t, s)] = [s \in Upto(k) |-> Entry(u, s)]
      BY <2>7
    <3> QED BY <3>1, <3>2
  <2> QED BY <2>2, <2>8
<1>4. PICK t : Fits(Cardinality(S), t)
  BY <1>1, <1>3
<1>5. Upto(Cardinality(S)) = SUBSET S
  BY <1>1
<1>6. IsTable(seq, t)
  BY <1>4, <1>5 DEF IsTable
<1> QED BY <1>6

\* A fold takes one index after the other, the highest last.
LEMMA TableIs ==
  ASSUME NEW n \in Nat, NEW seq, DOMAIN seq = 1 .. n
  PROVE  /\ Table(seq)[{}] = <<>>
         /\ \A s \in SUBSET (1 .. n) : s # {} =>
              Table(seq)[s] = Longest(seq, Table(seq)[s \ {Max(s)}], seq[Max(s)])
<1>1. IsTable(seq, Table(seq))
  BY TableExists DEF Table
<1>2. \A s \in SUBSET DOMAIN seq : Table(seq)[s] =
        IF s = {} THEN <<>> ELSE Longest(seq, Table(seq)[s \ {Max(s)}], seq[Max(s)])
  BY <1>1 DEF IsTable
<1> QED BY <1>2

\* _lis_length (trajectory.py:37-46) is the largest entry of the last fold.
LEMMA LisIs ==
  ASSUME NEW seq
  PROVE  LisLength(seq) =
           Max({0} \cup {Table(seq)[DOMAIN seq][i] : i \in DOMAIN Table(seq)[DOMAIN seq]})
BY Zenon DEF LisLength, FoldLeft, MapThenFoldSet, Table, IsTable, Longest

\* The largest of some numbers up to n is the one no other exceeds.
LEMMA MaxUnique ==
  ASSUME NEW n \in Nat, NEW T \in SUBSET (0 .. n), NEW m \in T, \A y \in T : y <= m
  PROVE  Max(T) = m
<1>1. Max(T) \in T /\ \A y \in T : Max(T) >= y
  BY MaxIn
<1> DEFINE x == Max(T)
<1>2. x \in T /\ x >= m /\ x <= m
  BY <1>1
<1> HIDE DEF x
<1>3. x \in Nat /\ m \in Nat
  BY <1>2
<1>4. x = m
  BY <1>2, <1>3
<1> QED BY <1>4 DEF x

\* One more step of the fold.
LEMMA TableStep ==
  ASSUME NEW n \in Nat, NEW seq, DOMAIN seq = 1 .. n, NEW k \in 1 .. n
  PROVE  Table(seq)[1 .. k] = Longest(seq, Table(seq)[1 .. (k - 1)], seq[k])
<1> DEFINE I == 1 .. k
<1>1. k \in Nat /\ I \in SUBSET (1 .. n) /\ I # {} /\ I \in SUBSET (0 .. k) /\ k \in I
  OBVIOUS
<1>2. I \ {k} = 1 .. (k - 1)
  OBVIOUS
<1>3. \A y \in I : y <= k
  OBVIOUS
<1> HIDE DEF I
<1>4. Max(I) = k
  BY <1>1, <1>3, MaxUnique
<1>5. Table(seq)[I] = Longest(seq, Table(seq)[I \ {Max(I)}], seq[Max(I)])
  BY <1>1, TableIs
<1> QED BY <1>2, <1>4, <1>5 DEF I

\* Of n places at most n are in increasing order.
LEMMA LisBound ==
  ASSUME NEW n \in Nat, NEW seq, DOMAIN seq = 1 .. n
  PROVE  LisLength(seq) \in 0 .. n
<1> DEFINE best(k) == Table(seq)[1 .. k]
<1> DEFINE Good(k) == best(k) \in Seq(Nat) /\ Len(best(k)) = k /\ \A i \in 1 .. k : best(k)[i] \in 0 .. k
<1> DEFINE Bad == {k \in 0 .. n : ~Good(k)}
<1>1. \A k \in 0 .. n : Good(k)
  <2>1. SUFFICES ASSUME Bad # {} PROVE FALSE
    <3> HIDE DEF Good
    <3> QED OBVIOUS
  <2>2. PICK k \in Bad : \A y \in Bad : k <= y
    <3> HIDE DEF Good
    <3>1. Bad \in SUBSET Nat
      OBVIOUS
    <3> HIDE DEF Bad
    <3> QED BY <2>1, <3>1, LeastOf
  <2>3. k # 0
    <3>1. 1 .. 0 = {}
      OBVIOUS
    <3>2. best(0) = <<>>
      BY <3>1, TableIs
    <3>3. Good(0)
      BY <3>1, <3>2
    <3> QED BY <3>3
  <2>4. k - 1 \in 0 .. n /\ Good(k - 1)
    <3> HIDE DEF Good
    <3>1. k \in 0 .. n /\ k - 1 \in 0 .. n /\ ~(k <= k - 1)
      BY <2>2, <2>3
    <3> QED BY <2>2, <3>1
  <2> DEFINE b == best(k - 1)
  <2> DEFINE T == {0} \cup {b[j] : j \in {i \in DOMAIN b : seq[i] < seq[k]}}
  <2>5. best(k) = Append(b, 1 + Max(T))
    <3>1. k \in 1 .. n
      BY <2>2, <2>3
    <3>2. best(k) = Longest(seq, b, seq[k])
      BY <3>1, TableStep
    <3> HIDE DEF b
    <3> QED BY <3>2 DEF Longest, b
  <2>6. Max(T) \in 0 .. (k - 1)
    <3>1. T \in SUBSET (0 .. (k - 1)) /\ T # {}
      BY <2>4
    <3> HIDE DEF T, Good
    <3>2. k - 1 \in Nat
      BY <2>4
    <3> DEFINE j == k - 1
    <3>3. T \in SUBSET (0 .. j) /\ j \in Nat
      BY <3>1, <3>2
    <3> HIDE DEF j
    <3>4. Max(T) \in T
      BY <3>1, <3>3, MaxIn
    <3> QED BY <3>1, <3>4
  <2> HIDE DEF T
  <2>7. Good(k)
    <3> DEFINE v == 1 + Max(T)
    <3>1. v \in 0 .. k /\ v \in Nat
      BY <2>6, <2>2
    <3>2. b \in Seq(Nat) /\ Len(b) = k - 1 /\ \A i \in 1 .. (k - 1) : b[i] \in 0 .. (k - 1)
      BY <2>4
    <3> DEFINE c == Append(b, v)
    <3> HIDE DEF v, b
    <3>3. c \in Seq(Nat) /\ Len(c) = k
      BY <3>1, <3>2, <2>2
    <3>4. ASSUME NEW i \in 1 .. k PROVE c[i] \in 0 .. k
      <4>1. CASE i = k
        BY <3>1, <3>2, <4>1, <2>2
      <4>2. CASE i # k
        BY <3>1, <3>2, <4>2, <2>2
      <4> QED BY <4>1, <4>2
    <3>5. best(k) = c
      BY <2>5 DEF v
    <3> HIDE DEF c
    <3> QED BY <3>3, <3>4, <3>5
  <2> QED BY <2>2, <2>7
<1>2. DOMAIN best(n) = 1 .. n /\ \A i \in 1 .. n : best(n)[i] \in 0 .. n
  BY <1>1
<1> DEFINE T == {0} \cup {best(n)[i] : i \in DOMAIN best(n)}
<1>3. T \in SUBSET (0 .. n) /\ T # {}
  BY <1>2
<1>4. LisLength(seq) = Max(T)
  BY LisIs
<1> HIDE DEF T
<1> QED BY <1>3, <1>4, MaxIn

-----------------------------------------------------------------------------
(* Rates.                                                                   *)

\* Products keep an order.
LEMMA Product ==
  ASSUME NEW b \in Nat, NEW x \in Int, NEW y \in Int, x <= y
  PROVE  b * x <= b * y
<1> DEFINE e == y - x
<1>1. e \in Nat /\ y = x + e
  OBVIOUS
<1> HIDE DEF e
<1>2. b * (x + e) = b * x + b * e /\ b * e \in Nat /\ b * x \in Int
  BY <1>1
<1>3. b * y = b * x + b * e
  BY <1>1, <1>2
<1> QED BY <1>2, <1>3

\* A quotient lies where the products with its divisor put it.
LEMMA Quotient ==
  ASSUME NEW a \in Nat, NEW b \in Nat \ {0}, NEW lo \in Int, NEW hi \in Int,
         b * lo <= a, a < b * (hi + 1)
  PROVE  a \div b \in lo .. hi
<1> DEFINE d == a \div b
<1>1. d \in Int /\ b * d <= a /\ a < b * (d + 1)
  OBVIOUS
<1> HIDE DEF d
<1>2. ASSUME d < lo PROVE FALSE
  <2>1. b * (d + 1) <= b * lo
    BY <1>1, <1>2, Product
  <2>2. b * (d + 1) \in Int /\ b * lo \in Int
    BY <1>1
  <2> QED BY <1>1, <2>1, <2>2
<1>3. ASSUME hi < d PROVE FALSE
  <2>1. b * (hi + 1) <= b * d
    BY <1>1, <1>3, Product
  <2>2. b * (hi + 1) \in Int /\ b * d \in Int
    BY <1>1
  <2> QED BY <1>1, <2>1, <2>2
<1> QED BY <1>1, <1>2, <1>3 DEF d

\* A part of a whole is rounded to a rate.
LEMMA RateRounded ==
  ASSUME NEW num \in Nat, NEW den \in Nat \ {0}, num <= den
  PROVE  Round4(num, den) \in Rate
<1> DEFINE a == 20000 * num + den
<1> DEFINE b == 2 * den
<1>1. a \in Nat /\ b \in Nat \ {0} /\ b * 0 <= a /\ a < b * (10000 + 1)
  OBVIOUS
<1>2. Round4(num, den) = a \div b
  BY DEF Round4, One
<1> HIDE DEF a, b
<1>3. a \div b \in 0 .. 10000
  BY <1>1, Quotient
<1> QED BY <1>2, <1>3 DEF Rate, One

\* So the ratio of a finite set is a rate, or missing when the set is empty.
LEMMA RateOfPart ==
  ASSUME NEW D, IsFiniteSet(D), NEW T \in SUBSET D
  PROVE  Ratio(Cardinality(T), Cardinality(D)) \in Rate \cup {NoRate}
<1>1. IsFiniteSet(T) /\ Cardinality(T) \in Nat /\ Cardinality(D) \in Nat /\ Cardinality(T) <= Cardinality(D)
  BY FS_Subset, FS_CardinalityType
<1> QED BY <1>1, RateRounded DEF Ratio

\* A mean of scores is rounded to a rate.
LEMMA MeanIsRate ==
  ASSUME NEW n \in Nat \ {0}, NEW sum \in 0 .. One * n
  PROVE  (2 * sum + n) \div (2 * n) \in Rate
<1> DEFINE a == 2 * sum + n
<1> DEFINE b == 2 * n
<1>1. a \in Nat /\ b \in Nat \ {0} /\ b * 0 <= a /\ a < b * (10000 + 1)
  BY DEF One
<1>2. SUFFICES a \div b \in Rate
  OBVIOUS
<1> HIDE DEF a, b
<1>3. a \div b \in 0 .. 10000
  BY <1>1, Quotient
<1> QED BY <1>3 DEF Rate, One

-----------------------------------------------------------------------------
(* Scores and records.                                                      *)

\* The length of two sequences put together.
LEMMA Concat ==
  ASSUME NEW S, NEW s \in Seq(S), NEW t \in Seq(S)
  PROVE  s \o t \in Seq(S) /\ Len(s \o t) = Len(s) + Len(t) /\ Len(s) \in Nat /\ Len(t) \in Nat
OBVIOUS

\* Every case has stages expected of it, so no score divides by zero.
LEMMA StagesExpected ==
  ASSUME NEW status, NEW family
  PROVE  /\ Len(expected_stages(status, family)) \in Nat \ {0}
         /\ Len(expected_stages(status, family)) >= 11
         /\ DOMAIN expected_stages(status, family) = 1 .. Len(expected_stages(status, family))
<1> DEFINE A == TRAJECTORY_BASE
<1> DEFINE B == IF status = "ELIGIBLE" THEN TRAJECTORY_ELIGIBLE_EXTRA ELSE <<>>
<1> DEFINE C == IF family = "PAY" THEN TRAJECTORY_PAY_EXTRA ELSE <<>>
<1> DEFINE S == {TRAJECTORY_BASE[i] : i \in 1 .. 11}
                  \cup {"amount_quoted", "claim_submitted", "case_reference_issued", "payment_method"}
<1>1. A \in Seq(S) /\ Len(A) = 11
  <2>1. A \in Seq({TRAJECTORY_BASE[i] : i \in 1 .. 11})
    BY DEF TRAJECTORY_BASE
  <2>2. Len(A) = 11
    BY DEF TRAJECTORY_BASE
  <2> HIDE DEF A
  <2> QED BY <2>1, <2>2
<1>2. TRAJECTORY_ELIGIBLE_EXTRA \in Seq(S) /\ TRAJECTORY_PAY_EXTRA \in Seq(S)
  <2>1. "amount_quoted" \in S /\ "claim_submitted" \in S /\ "case_reference_issued" \in S /\ "payment_method" \in S
    OBVIOUS
  <2> HIDE DEF S
  <2> QED BY <2>1 DEF TRAJECTORY_ELIGIBLE_EXTRA, TRAJECTORY_PAY_EXTRA
<1> HIDE DEF S
<1>3. B \in Seq(S) /\ C \in Seq(S)
  BY <1>2
<1>4. expected_stages(status, family) = A \o B \o C
  BY DEF expected_stages
<1> HIDE DEF A, B, C
<1> DEFINE AB == A \o B
<1>5. AB \in Seq(S) /\ Len(AB) \in Nat \ {0} /\ Len(AB) >= 11
  <2>1. AB \in Seq(S) /\ Len(AB) = Len(A) + Len(B) /\ Len(B) \in Nat
    BY <1>1, <1>3, Concat
  <2> QED BY <1>1, <2>1
<1> HIDE DEF AB
<1>6. AB \o C \in Seq(S) /\ Len(AB \o C) \in Nat \ {0} /\ Len(AB \o C) >= 11
  <2>1. AB \o C \in Seq(S) /\ Len(AB \o C) = Len(AB) + Len(C) /\ Len(C) \in Nat
    BY <1>3, <1>5, Concat
  <2> QED BY <1>5, <2>1
<1>7. expected_stages(status, family) = AB \o C
  BY <1>4 DEF AB
<1> QED BY <1>6, <1>7

\* No more of them are hit than are expected.
LEMMA HitLength ==
  ASSUME NEW hit, NEW expected, NEW fmt, NEW n \in Nat, DOMAIN expected = 1 .. n
  PROVE  \E m \in 0 .. n : DOMAIN HitExpected(hit, expected, fmt) = 1 .. m
<1> DEFINE found == {i \in DOMAIN expected : expected[i] \in DOMAIN hit}
<1> DEFINE m == Cardinality(found)
<1>1. DOMAIN HitExpected(hit, expected, fmt) = 1 .. m
  BY DEF HitExpected
<1>2. m \in 0 .. n
  <2>1. found \subseteq 1 .. n /\ IsFiniteSet(1 .. n) /\ Cardinality(1 .. n) = n
    BY FS_Interval
  <2> QED BY <2>1, FS_Subset, FS_CardinalityType
<1> QED BY <1>1, <1>2

\* The score of a conversation is a rate, whatever was said in it.
LEMMA ScoreIsRate ==
  ASSUME NEW transcript, NEW fmt, NEW status, NEW family
  PROVE  Annotate(transcript, fmt, status, family).score \in Rate
<1> DEFINE text == Rendered(transcript)
<1> DEFINE expected == expected_stages(status, family)
<1> DEFINE found == HitExpected(StagesHit(text, fmt), expected, fmt)
<1> DEFINE n == Len(expected)
<1>1. n \in Nat \ {0} /\ DOMAIN expected = 1 .. n
  BY StagesExpected
<1>2. Annotate(transcript, fmt, status, family).score =
        IF text = <<>> THEN 0 ELSE Round4(LisLength(found), n)
  BY DEF Annotate, NoTrajectory
<1> HIDE DEF text, expected, n
<1>3. PICK m \in 0 .. n : DOMAIN found = 1 .. m
  BY <1>1, HitLength
<1> HIDE DEF found
<1>4. LisLength(found) \in 0 .. n
  BY <1>1, <1>3, LisBound
<1>5. Round4(LisLength(found), n) \in Rate
  BY <1>1, <1>4, RateRounded
<1> QED BY <1>2, <1>5 DEF Rate, One

\* What the re-score takes of a record besides its trajectory is as in base.
IsRecordOf(r, base) ==
  /\ r.expected_status = base.expected_status /\ r.actual_status = base.actual_status
  /\ r.expected_amount = base.expected_amount /\ r.quotes = base.quotes

\* The annotation of a record leaves the rest of it.
LEMMA RecordAnnotated ==
  ASSUME NEW c, NEW result, NEW t, NEW r, r = [result_to_record(c, result) EXCEPT !.trajectory = t]
  PROVE  r.trajectory = t /\ IsRecordOf(r, result_to_record(c, result))
BY DEF result_to_record, IsRecordOf

\* The records of a run: the annotation is made in the run's dialect, the
\* rest is made of the case alone.
LEMMA RecordsOf ==
  ASSUME NEW run, NEW recs, recs = Records(run)
  PROVE  /\ DOMAIN recs = DOMAIN run
         /\ \A c \in DOMAIN run :
              /\ recs[c].trajectory = Annotation[c][run[c].chat][DialectOf(run)]
              /\ IsRecordOf(recs[c], result_to_record(c, run[c]))
<1>1. DOMAIN recs = DOMAIN run
  BY DEF Records
<1>2. ASSUME NEW c \in DOMAIN run
      PROVE  /\ recs[c].trajectory = Annotation[c][run[c].chat][DialectOf(run)]
             /\ IsRecordOf(recs[c], result_to_record(c, run[c]))
  <2> DEFINE t == Annotation[c][run[c].chat][DialectOf(run)]
  <2>1. recs[c] = [result_to_record(c, run[c]) EXCEPT !.trajectory = t]
    BY DEF Records
  <2> HIDE DEF t
  <2>2. recs[c].trajectory = t /\ IsRecordOf(recs[c], result_to_record(c, run[c]))
    BY <2>1, RecordAnnotated
  <2> QED BY <2>2 DEF t
<1> QED BY <1>1, <1>2

\* The table of the annotations holds what annotate_trajectory returns.
LEMMA AnnotationIs ==
  ASSUME NEW c \in Case, NEW chat \in Chat, NEW fmt \in Dialect
  PROVE  Annotation[c][chat][fmt] =
           Annotate(Transcript[chat], fmt, normalize_status(Expected[c].status), Expected[c].family)
BY DEF Annotation

\* A run has a dialect.
LEMMA DialectIs == ASSUME NEW run PROVE DialectOf(run) \in Dialect
BY DEF DialectOf, DetectDialect, Dialect

\* Finitely many records with a rate for a score.
Scored(recs) == IsFiniteSet(DOMAIN recs) /\ \A c \in DOMAIN recs : recs[c].trajectory.score \in Rate

\* The records of a run are finitely many and scored in rates.
LEMMA RecordsScored ==
  ASSUME NEW run \in Run
  PROVE  Scored(Records(run))
<1>1. DOMAIN Records(run) = DOMAIN run
  BY RecordsOf
<1>2. IsFiniteSet(DOMAIN run) /\ DOMAIN run \subseteq Case /\ \A c \in DOMAIN run : run[c].chat \in Chat
  BY RunAssumption
<1>3. ASSUME NEW c \in DOMAIN run PROVE Records(run)[c].trajectory.score \in Rate
  <2>1. Records(run)[c].trajectory = Annotation[c][run[c].chat][DialectOf(run)]
    BY RecordsOf
  <2>2. c \in Case /\ run[c].chat \in Chat /\ DialectOf(run) \in Dialect
    BY <1>2, DialectIs
  <2> QED BY <2>1, <2>2, AnnotationIs, ScoreIsRate
<1> QED BY <1>1, <1>2, <1>3 DEF Scored

-----------------------------------------------------------------------------
(* The parts of metrics.json.                                               *)

\* What a function makes of a finite set is finite.
LEMMA ImageFinite ==
  ASSUME NEW D, IsFiniteSet(D), NEW f, DOMAIN f = D, NEW T, T = {f[c] : c \in D}, f \in [D -> T]
  PROVE  IsFiniteSet(T)
<1>1. f \in Surjection(D, T)
  BY DEF Surjection
<1> QED BY <1>1, FS_Surjection

\* The rows of metrics.json are of the records, with the re-scored pass of
\* each.
LEMMA CasesOf ==
  ASSUME NEW recs, NEW m, m = compute_metrics(recs)
  PROVE  /\ DOMAIN m.cases = DOMAIN recs
         /\ \A c \in DOMAIN recs :
              /\ m.cases[c].rescored_pass = RescoredPass(recs[c])
              /\ m.cases[c].system_code_prefix = recs[c].system_code_prefix
BY DEF compute_metrics, CaseRows

\* The other parts of metrics.json.
LEMMA PartsOf ==
  ASSUME NEW recs, NEW m, m = compute_metrics(recs)
  PROVE  /\ m.headline = Headline(recs) /\ m.confusion = Confusion(recs)
         /\ DOMAIN m.slices = {"family", "regime", "expected_status", "decision_class", "system_code_prefix"}
         /\ \A d \in DOMAIN m.slices : m.slices[d] = SliceBy(recs, d)
BY DEF compute_metrics

\* The mean of the scores is a rate, or missing when nobody was heard.
LEMMA MeanOfScores ==
  ASSUME NEW recs, Scored(recs)
  PROVE  ScoreMean(recs) \in Rate \cup {NoRate}
<1> DEFINE heard == {c \in DOMAIN recs : recs[c].trajectory.heard}
<1> DEFINE f == [c \in heard |-> recs[c].trajectory.score]
<1> DEFINE n == Cardinality(heard)
<1> DEFINE sum == SumFunction(f)
<1>1. ScoreMean(recs) = IF heard = {} THEN NoRate ELSE (2 * sum + n) \div (2 * n)
  BY DEF ScoreMean
<1>2. IsFiniteSet(heard)
  BY FS_Subset DEF Scored
<1>3. n \in Nat /\ (heard # {} => n # 0)
  BY <1>2, FS_CardinalityType, FS_EmptySet
<1>4. sum \in 0 .. One * n
  <2>1. DOMAIN f = heard /\ \A c \in DOMAIN f : f[c] \in 0 .. One
    BY DEF Scored, Rate
  <2>2. One \in Nat
    BY DEF One
  <2> HIDE DEF f, heard
  <2> QED BY <1>2, <2>1, <2>2, SumBound
<1> HIDE DEF heard, n, sum
<1>5. CASE heard # {}
  <2>1. n \in Nat \ {0}
    BY <1>3, <1>5
  <2>2. (2 * sum + n) \div (2 * n) \in Rate
    BY <1>4, <2>1, MeanIsRate
  <2> QED BY <1>1, <1>5, <2>2
<1> QED BY <1>1, <1>5

\* What the headline gives is a rate or missing.
LEMMA HeadlineRates ==
  ASSUME NEW recs, Scored(recs)
  PROVE  \A h \in DOMAIN Headline(recs) : Headline(recs)[h] \in Rate \cup {NoRate}
<1> DEFINE D == DOMAIN recs
<1> DEFINE heard == {c \in D : recs[c].trajectory.heard}
<1> DEFINE Ok(x) == x \in Rate \cup {NoRate}
<1>0. IsFiniteSet(D)
  BY DEF Scored
<1>1. ASSUME NEW T \in SUBSET D PROVE Ok(Ratio(Cardinality(T), Cardinality(D)))
  BY <1>0, RateOfPart
<1>2. Ok(RateOf(recs, LAMBDA r : r.overall_pass))
  <2>1. {c \in D : recs[c].overall_pass} \in SUBSET D
    OBVIOUS
  <2> HIDE DEF Ok
  <2> QED BY <1>1, <2>1 DEF RateOf, Count
<1>3. Ok(RateOf(recs, RescoredPass))
  <2>1. {c \in D : RescoredPass(recs[c])} \in SUBSET D
    OBVIOUS
  <2> HIDE DEF Ok
  <2> QED BY <1>1, <2>1 DEF RateOf, Count
<1>4. Ok(RateOf(recs, LAMBDA r : r.overall_pass = RescoredPass(r)))
  <2>1. {c \in D : recs[c].overall_pass = RescoredPass(recs[c])} \in SUBSET D
    OBVIOUS
  <2> HIDE DEF Ok
  <2> QED BY <1>1, <2>1 DEF RateOf, Count
<1>5. Ok(RateOf(recs, Clean))
  <2>1. {c \in D : Clean(recs[c])} \in SUBSET D
    OBVIOUS
  <2> HIDE DEF Ok
  <2> QED BY <1>1, <2>1 DEF RateOf, Count
<1>6. Ok(RateOf(recs, Terminal))
  <2>1. {c \in D : Terminal(recs[c])} \in SUBSET D
    OBVIOUS
  <2> HIDE DEF Ok
  <2> QED BY <1>1, <2>1 DEF RateOf, Count
<1>7. Ok(RateOf(recs, RightDecision))
  <2>1. {c \in D : RightDecision(recs[c])} \in SUBSET D
    OBVIOUS
  <2> HIDE DEF Ok
  <2> QED BY <1>1, <2>1 DEF RateOf, Count
<1>8. Ok(RateOf(recs, AmountsMatch))
  <2>1. {c \in D : AmountsMatch(recs[c])} \in SUBSET D
    OBVIOUS
  <2> HIDE DEF Ok
  <2> QED BY <1>1, <2>1 DEF RateOf, Count
<1>9. Ok(Ratio(Cardinality({c \in heard : recs[c].trajectory.intent}), Cardinality(heard)))
  <2>1. IsFiniteSet(heard) /\ {c \in heard : recs[c].trajectory.intent} \in SUBSET heard
    BY <1>0, FS_Subset
  <2> HIDE DEF heard
  <2> QED BY <2>1, RateOfPart
<1>10. Ok(ScoreMean(recs))
  BY MeanOfScores
<1>11. /\ Headline(recs).goal_success_rate = RateOf(recs, LAMBDA r : r.overall_pass)
       /\ Headline(recs).rescored_success_rate = RateOf(recs, RescoredPass)
       /\ Headline(recs).judge_agreement = RateOf(recs, LAMBDA r : r.overall_pass = RescoredPass(r))
       /\ Headline(recs).clean_run_rate = RateOf(recs, Clean)
       /\ Headline(recs).terminal_decision_rate = RateOf(recs, Terminal)
       /\ Headline(recs).decision_accuracy = RateOf(recs, RightDecision)
       /\ Headline(recs).amount_accuracy = RateOf(recs, AmountsMatch)
       /\ Headline(recs).intent_recognition_rate
            = Ratio(Cardinality({c \in heard : recs[c].trajectory.intent}), Cardinality(heard))
       /\ Headline(recs).trajectory_match_mean = ScoreMean(recs)
       /\ DOMAIN Headline(recs) = {"goal_success_rate", "rescored_success_rate", "judge_agreement",
            "clean_run_rate", "terminal_decision_rate", "decision_accuracy", "amount_accuracy",
            "intent_recognition_rate", "trajectory_match_mean"}
  BY DEF Headline
<1> HIDE DEF heard
<1> QED BY <1>2, <1>3, <1>4, <1>5, <1>6, <1>7, <1>8, <1>9, <1>10, <1>11

\* Of a confusion matrix every case has one cell, and those on its diagonal
\* have the right decision.
LEMMA ConfusionSums ==
  ASSUME NEW recs, Scored(recs), NEW conf, conf = Confusion(recs), NEW right,
         right = [x \in DOMAIN conf |-> IF x[1] = x[2] THEN conf[x] ELSE 0]
  PROVE  /\ SumFunction(conf) = Cardinality(DOMAIN recs)
         /\ SumFunction(right) = Cardinality({c \in DOMAIN recs : RightDecision(recs[c])})
<1> DEFINE D == DOMAIN recs
<1> DEFINE seen == UNION {{recs[c].expected_status, recs[c].actual_status} : c \in D}
<1> DEFINE key == [c \in D |-> <<recs[c].expected_status, recs[c].actual_status>>]
<1> DEFINE R == {c \in D : RightDecision(recs[c])}
<1>0. IsFiniteSet(D) /\ IsFiniteSet(R)
  BY FS_Subset DEF Scored
<1>1. IsFiniteSet(seen \X seen)
  <2> DEFINE E == {recs[c].expected_status : c \in D}
  <2> DEFINE A == {recs[c].actual_status : c \in D}
  <2> DEFINE e == [c \in D |-> recs[c].expected_status]
  <2> DEFINE a == [c \in D |-> recs[c].actual_status]
  <2>0. DOMAIN e = D /\ DOMAIN a = D /\ E = {e[c] : c \in D} /\ A = {a[c] : c \in D}
        /\ e \in [D -> E] /\ a \in [D -> A]
    OBVIOUS
  <2>3. seen = E \cup A
    OBVIOUS
  <2> HIDE DEF seen, E, A, e, a
  <2>1. IsFiniteSet(E)
    BY <1>0, <2>0, ImageFinite
  <2>2. IsFiniteSet(A)
    BY <1>0, <2>0, ImageFinite
  <2>4. IsFiniteSet(seen)
    BY <2>1, <2>2, <2>3, FS_Union
  <2> QED BY <2>4, FS_Product
<1>2. \A c \in D : key[c] \in seen \X seen
  OBVIOUS
<1>3. DOMAIN conf = seen \X seen
  BY DEF Confusion
<1>4. ASSUME NEW x \in seen \X seen
      PROVE  conf[x] = Cardinality(Having(D, key, x))
  <2>1. conf[x] = Cardinality({c \in D : recs[c].expected_status = x[1] /\ recs[c].actual_status = x[2]})
    BY DEF Confusion, Count
  <2>2. {c \in D : recs[c].expected_status = x[1] /\ recs[c].actual_status = x[2]} = Having(D, key, x)
    BY DEF Having
  <2> QED BY <2>1, <2>2
<1>5. ASSUME NEW x \in seen \X seen
      PROVE  right[x] = Cardinality(Having(R, key, x))
  <2>1. CASE x[1] = x[2]
    <3>1. Having(R, key, x) = Having(D, key, x)
      BY <2>1 DEF Having, RightDecision
    <3> QED BY <1>3, <1>4, <2>1, <3>1
  <2>2. CASE x[1] # x[2]
    <3>1. Having(R, key, x) = {}
      BY <2>2 DEF Having, RightDecision
    <3> QED BY <1>3, <2>2, <3>1, FS_EmptySet
  <2> QED BY <2>1, <2>2
<1>6. DOMAIN right = seen \X seen
  BY <1>3
<1> DEFINE K == seen \X seen
<1> HIDE DEF K, key, R, seen
<1>7. SumFunction(conf) = Cardinality(D)
  BY <1>0, <1>1, <1>2, <1>3, <1>4, SumSplits
<1>8. SumFunction(right) = Cardinality(R)
  <2>1. \A c \in R : key[c] \in seen \X seen
    BY <1>2 DEF R
  <2> QED BY <1>0, <1>1, <1>5, <1>6, <2>1, SumSplits
<1> QED BY <1>7, <1>8 DEF R

\* Of the slices of a dimension every case has one.
LEMMA SliceSums ==
  ASSUME NEW recs, Scored(recs), NEW d, NEW s, s = SliceBy(recs, d)
  PROVE  /\ SumFunction([k \in DOMAIN s |-> s[k].n]) = Cardinality(DOMAIN recs)
         /\ SumFunction([k \in DOMAIN s |-> s[k].passed]) = Cardinality({c \in DOMAIN recs : RescoredPass(recs[c])})
<1> DEFINE D == DOMAIN recs
<1> DEFINE K == {recs[c][d] : c \in D}
<1> DEFINE key == [c \in D |-> recs[c][d]]
<1> DEFINE P == {c \in D : RescoredPass(recs[c])}
<1> DEFINE f == [k \in DOMAIN s |-> s[k].n]
<1> DEFINE g == [k \in DOMAIN s |-> s[k].passed]
<1>0. IsFiniteSet(D) /\ IsFiniteSet(P)
  BY FS_Subset DEF Scored
<1>1. IsFiniteSet(K)
  <2>1. DOMAIN key = D /\ K = {key[c] : c \in D} /\ key \in [D -> K]
    OBVIOUS
  <2> HIDE DEF K, key
  <2> QED BY <1>0, <2>1, ImageFinite
<1>2. DOMAIN s = K
  BY DEF SliceBy
<1>3. ASSUME NEW k \in K
      PROVE  s[k].n = Cardinality(Having(D, key, k)) /\ s[k].passed = Cardinality(Having(P, key, k))
  <2> DEFINE some == [c \in {e \in D : recs[e][d] = k} |-> recs[c]]
  <2>1. s[k] = SliceBundle(some)
    BY DEF SliceBy
  <2>2. s[k].n = Cardinality(DOMAIN some) /\ s[k].passed = Cardinality({c \in DOMAIN some : RescoredPass(some[c])})
    BY <2>1 DEF SliceBundle, Count
  <2>3. DOMAIN some = Having(D, key, k)
    BY DEF Having
  <2>4. {c \in DOMAIN some : RescoredPass(some[c])} = Having(P, key, k)
    BY DEF Having
  <2> QED BY <2>2, <2>3, <2>4
<1>4. \A c \in D : key[c] \in K
  OBVIOUS
<1>5. \A c \in P : key[c] \in K
  OBVIOUS
<1>6. DOMAIN f = K /\ DOMAIN g = K /\ (\A k \in K : f[k] = s[k].n /\ g[k] = s[k].passed)
  BY <1>2
<1> HIDE DEF K, key, P, f, g
<1>7. SumFunction(f) = Cardinality(D)
  BY <1>0, <1>1, <1>3, <1>4, <1>6, SumSplits
<1>8. SumFunction(g) = Cardinality(P)
  BY <1>0, <1>1, <1>3, <1>5, <1>6, SumSplits
<1> QED BY <1>7, <1>8 DEF f, g, P

-----------------------------------------------------------------------------
(* The dialect of a run.                                                    *)

\* In an empty conversation no stage is heard.
LEMMA NoStages ==
  ASSUME NEW fmt PROVE DOMAIN StagesHit(<<>>, fmt) = {}
<1>1. \A phrases : Places(<<>>, phrases) = {}
  BY DEF Places
<1>2. \A rx : Matches(<<>>, rx) = {}
  BY <1>1 DEF Matches
<1>3. IntentPlaces(<<>>) = {}
  BY <1>1 DEF IntentPlaces
<1>4. \A s : StagePlaces(<<>>, s, fmt) = {}
  BY <1>2, <1>3 DEF StagePlaces
<1> QED BY <1>4 DEF StagesHit

\* The stages of an annotation are those heard in the conversation.
LEMMA HeardIs ==
  ASSUME NEW c \in Case, NEW chat \in Chat, NEW fmt \in Dialect
  PROVE  DOMAIN Annotation[c][chat][fmt].hit = Heard(chat, fmt)
<1> DEFINE text == Rendered(Transcript[chat])
<1> DEFINE a == Annotation[c][chat][fmt]
<1>1. a.hit = IF text = <<>> THEN <<>> ELSE StagesHit(text, fmt)
  <2>1. a = Annotate(Transcript[chat], fmt, normalize_status(Expected[c].status), Expected[c].family)
    BY AnnotationIs
  <2> HIDE DEF a
  <2> QED BY <2>1 DEF Annotate, NoTrajectory
<1> HIDE DEF text, a
<1>2. CASE text = <<>>
  <2>1. DOMAIN a.hit = {}
    BY <1>1, <1>2
  <2>2. Heard(chat, fmt) = {}
    BY <1>2, NoStages DEF Heard, text
  <2> QED BY <2>1, <2>2 DEF a
<1>3. CASE text # <<>>
  BY <1>1, <1>3 DEF Heard, text, a
<1> QED BY <1>2, <1>3

\* Three things are finitely many.
LEMMA ThreeFinite == ASSUME NEW x, NEW y, NEW z PROVE IsFiniteSet({x, y, z})
<1>1. IsFiniteSet({x}) /\ IsFiniteSet({y}) /\ IsFiniteSet({z})
  BY FS_Singleton
<1>2. IsFiniteSet({x} \cup {y})
  BY <1>1, FS_Union
<1>3. IsFiniteSet(({x} \cup {y}) \cup {z})
  BY <1>1, <1>2, FS_Union
<1>4. {x, y, z} = ({x} \cup {y}) \cup {z}
  OBVIOUS
<1> QED BY <1>3, <1>4

\* The canonical stages are finitely many.
LEMMA StageFinite == IsFiniteSet(Stage)
<1> DEFINE A == {"greeting", "intent_stated", "intent_recognized"}
<1> DEFINE B == {"decision_disclosure", "identity_collection", "identity_provided"}
<1> DEFINE C == {"otp_channel_selection", "otp_entered", "identity_verified"}
<1> DEFINE D == {"booking_retrieved", "claim_details_collection", "decision_rendered"}
<1> DEFINE E == {"amount_quoted", "payment_method", "claim_submitted"}
<1> DEFINE F == {"case_reference_issued", "terminal_outcome", "wrapup"}
<1>1. IsFiniteSet(A) /\ IsFiniteSet(B) /\ IsFiniteSet(C) /\ IsFiniteSet(D) /\ IsFiniteSet(E) /\ IsFiniteSet(F)
  BY ThreeFinite
<1>2. Stage = (A \cup B \cup C) \cup (D \cup E \cup F)
  BY DEF Stage, STAGE_MAP
<1> HIDE DEF A, B, C, D, E, F
<1>3. IsFiniteSet(A \cup B) /\ IsFiniteSet(D \cup E)
  BY <1>1, FS_Union
<1>4. IsFiniteSet(A \cup B \cup C) /\ IsFiniteSet(D \cup E \cup F)
  BY <1>1, <1>3, FS_Union
<1>5. IsFiniteSet((A \cup B \cup C) \cup (D \cup E \cup F))
  BY <1>4, FS_Union
<1> QED BY <1>2, <1>5

\* So are those heard in a conversation.
LEMMA HeardCount == ASSUME NEW chat, NEW fmt PROVE Cardinality(Heard(chat, fmt)) \in Nat
<1>1. Heard(chat, fmt) \subseteq Stage
  BY DEF Heard, StagesHit
<1> QED BY <1>1, StageFinite, FS_Subset, FS_CardinalityType

\* The hits of one dialect over the conversations of a run.
HitsIn(run, fmt) == [c \in DOMAIN run |-> Cardinality(Heard(run[c].chat, fmt))]

\* The dialect of a run is the one with more hits, bravo when they are even.
LEMMA DialectByHits ==
  ASSUME NEW run \in Run
  PROVE  DialectOf(run) =
           IF SumFunction(HitsIn(run, "alpha")) > SumFunction(HitsIn(run, "bravo"))
           THEN "alpha" ELSE "bravo"
<1> DEFINE stages == [c \in DOMAIN run |->
                   [fmt \in Dialect |-> Cardinality(DOMAIN Annotation[c][run[c].chat][fmt].hit)]]
<1>1. ASSUME NEW fmt \in Dialect
      PROVE  [c \in DOMAIN stages |-> stages[c][fmt]] = HitsIn(run, fmt)
  <2>1. ASSUME NEW c \in DOMAIN run
        PROVE  stages[c][fmt] = Cardinality(Heard(run[c].chat, fmt))
    <3>1. c \in Case /\ run[c].chat \in Chat
      BY RunAssumption
    <3>2. DOMAIN Annotation[c][run[c].chat][fmt].hit = Heard(run[c].chat, fmt)
      BY <3>1, HeardIs
    <3> QED BY <3>2
  <2>2. DOMAIN stages = DOMAIN run
    OBVIOUS
  <2> HIDE DEF stages
  <2> QED BY <2>1, <2>2 DEF HitsIn
<1>2. "alpha" \in Dialect /\ "bravo" \in Dialect
  BY DEF Dialect
<1>3. DialectOf(run) = DetectDialect(stages)
  BY DEF DialectOf
<1> HIDE DEF stages
<1> QED BY <1>1, <1>2, <1>3 DEF DetectDialect

\* A conversation worded in a dialect, or in none, shows no fewer stages in
\* it than in the other.
LEMMA HeardMore ==
  ASSUME NEW chat \in Chat, NEW fmt \in Dialect, NEW other \in Dialect \ {fmt},
         Wording[chat] \in {fmt, None}
  PROVE  /\ Cardinality(Heard(chat, other)) <= Cardinality(Heard(chat, fmt))
         /\ Wording[chat] = fmt => Cardinality(Heard(chat, other)) < Cardinality(Heard(chat, fmt))
<1> DEFINE h(f) == Cardinality(Heard(chat, f))
<1>1. h(fmt) \in Nat /\ h(other) \in Nat
  BY HeardCount
<1>2. CASE Wording[chat] = fmt
  <2>1. h(fmt) > h(other)
    BY <1>2, WordingAssumption
  <2> HIDE DEF h
  <2>2. h(other) < h(fmt) /\ h(other) <= h(fmt)
    BY <1>1, <2>1
  <2> QED BY <2>2 DEF h
<1>3. CASE Wording[chat] # fmt
  <2>1. Wording[chat] \notin Dialect
    BY <1>3 DEF None, Dialect
  <2>2. Heard(chat, fmt) = {} /\ Heard(chat, other) = {}
    BY <2>1, WordingAssumption
  <2>3. h(fmt) = h(other)
    BY <2>2
  <2> HIDE DEF h
  <2>4. h(other) <= h(fmt)
    BY <1>1, <2>3
  <2> QED BY <1>3, <2>4 DEF h
<1> QED BY <1>2, <1>3

\* A run worded in one dialect is read in it.
LEMMA DialectRight ==
  ASSUME NEW run \in Run, NEW fmt \in Dialect,
         \A c \in DOMAIN run : Wording[run[c].chat] \in {fmt, None},
         NEW e \in DOMAIN run, Wording[run[e].chat] = fmt
  PROVE  DialectOf(run) = fmt
<1>1. \A c \in DOMAIN run : run[c].chat \in Chat
  BY RunAssumption
<1>2. PICK other \in Dialect \ {fmt} : {fmt, other} = {"alpha", "bravo"}
  BY DEF Dialect
<1> DEFINE f == HitsIn(run, other)
<1> DEFINE g == HitsIn(run, fmt)
<1>3. f \in [DOMAIN run -> Int] /\ g \in [DOMAIN run -> Int]
  BY HeardCount DEF HitsIn
<1>4. \A c \in DOMAIN run : f[c] <= g[c]
  BY <1>1, HeardMore DEF HitsIn
<1>5. f[e] < g[e]
  BY <1>1, HeardMore DEF HitsIn
<1>6. IsFiniteSet(DOMAIN run)
  BY RunAssumption
<1> HIDE DEF f, g
<1>7. SumFunction(f) \in Int /\ SumFunction(g) \in Int /\ SumFunction(f) < SumFunction(g)
  BY <1>3, <1>4, <1>5, <1>6, SumLess
<1>8. CASE fmt = "alpha"
  <2>1. other = "bravo"
    BY <1>2, <1>8
  <2>2. SumFunction(HitsIn(run, "alpha")) > SumFunction(HitsIn(run, "bravo"))
    BY <1>7, <1>8, <2>1 DEF f, g
  <2> QED BY <1>8, <2>2, DialectByHits
<1>9. CASE fmt = "bravo"
  <2>1. other = "alpha"
    BY <1>2, <1>9
  <2>2. ~(SumFunction(HitsIn(run, "alpha")) > SumFunction(HitsIn(run, "bravo")))
    BY <1>7, <1>9, <2>1 DEF f, g
  <2> QED BY <1>9, <2>2, DialectByHits
<1> QED BY <1>8, <1>9 DEF Dialect

\* But for a claim that is to stay pending, the re-score is of the parts of
\* a record its own case gives.
LEMMA SameScore ==
  ASSUME NEW r, NEW s, NEW base, IsRecordOf(r, base), IsRecordOf(s, base), s.expected_status # "PENDING"
  PROVE  RescoredPass(r) = RescoredPass(s)
<1>1. /\ r.expected_status = s.expected_status /\ r.actual_status = s.actual_status
      /\ r.expected_amount = s.expected_amount /\ r.quotes = s.quotes
  BY DEF IsRecordOf
<1>2. AmountsMatch(r) = AmountsMatch(s)
  BY <1>1 DEF AmountsMatch
<1> QED BY <1>1, <1>2 DEF RescoredPass

-----------------------------------------------------------------------------
(* The metrics.json of a folder.                                            *)

\* Nine in ten are rounded to no less.
LEMMA ShareRounded ==
  ASSUME NEW n \in Nat \ {0}, NEW good \in 0 .. n, 9000 * n <= 10000 * good
  PROVE  Round4(good, n) \in Rate /\ Round4(good, n) >= 9000
<1> DEFINE a == 20000 * good + n
<1> DEFINE b == 2 * n
<1>1. a \in Nat /\ b \in Nat \ {0} /\ b * 9000 <= a /\ a < b * (10000 + 1)
  OBVIOUS
<1>2. Round4(good, n) = a \div b
  BY DEF Round4, One
<1> HIDE DEF a, b
<1>3. a \div b \in 9000 .. 10000
  BY <1>1, Quotient
<1> QED BY <1>2, <1>3 DEF Rate, One

\* A row of the coverage matrix that is done has nine good cases in ten.
LEMMA RowDone ==
  ASSUME NEW recs, NEW m, m = compute_metrics(recs), NEW key, NEW G, NEW prefix,
         key = [c \in DOMAIN recs |-> recs[c].system_code_prefix],
         G = {c \in DOMAIN recs : RescoredPass(recs[c])},
         prefix \in DOMAIN build_rows(m), build_rows(m)[prefix].status = "done"
  PROVE  9000 * Cardinality(Having(DOMAIN recs, key, prefix)) <= 10000 * Cardinality(Having(G, key, prefix))
<1> DEFINE of == {c \in DOMAIN m.cases : m.cases[c].system_code_prefix = prefix}
<1> DEFINE n == Cardinality(of)
<1> DEFINE good == Cardinality({c \in of : m.cases[c].rescored_pass})
<1>1. build_rows(m)[prefix].status =
        IF n < DoneMinN THEN "under-sampled"
        ELSE IF One * good >= DONE_MIN_SCORE * n THEN "done" ELSE "partial"
  BY DEF build_rows
<1>2. One * good >= DONE_MIN_SCORE * n
  <2> HIDE DEF n, good
  <2> QED BY <1>1
<1>3. of = Having(DOMAIN recs, key, prefix)
  BY CasesOf DEF Having
<1>4. {c \in of : m.cases[c].rescored_pass} = Having(G, key, prefix)
  BY CasesOf DEF Having
<1>5. n = Cardinality(Having(DOMAIN recs, key, prefix)) /\ good = Cardinality(Having(G, key, prefix))
  BY <1>3, <1>4
<1> HIDE DEF n, good, of
<1>7. 10000 * good >= 9000 * n
  BY <1>2 DEF One, DONE_MIN_SCORE
<1> QED BY <1>5, <1>7

\* If every row is done, the re-scored success is above the gate's floor.
LEMMA DoneFloor ==
  ASSUME NEW recs, Scored(recs), DOMAIN recs # {}, NEW m, m = compute_metrics(recs),
         \A prefix \in DOMAIN build_rows(m) : build_rows(m)[prefix].status = "done"
  PROVE  "rescored_success_rate" \notin BelowFloor(m)
<1> DEFINE D == DOMAIN recs
<1> DEFINE G == {c \in D : RescoredPass(recs[c])}
<1> DEFINE key == [c \in D |-> recs[c].system_code_prefix]
<1> DEFINE K == DOMAIN build_rows(m)
<1>0. IsFiniteSet(D)
  BY DEF Scored
<1>1. K = {key[c] : c \in D} /\ \A c \in D : key[c] \in K
  <2>1. K = {m.cases[c].system_code_prefix : c \in DOMAIN m.cases}
    BY DEF build_rows
  <2> HIDE DEF K
  <2>2. K = {key[c] : c \in D}
    BY <2>1, CasesOf
  <2> HIDE DEF key
  <2> QED BY <2>2
<1>2. IsFiniteSet(K)
  <2>1. DOMAIN key = D /\ key \in [D -> K]
    BY <1>1
  <2> HIDE DEF K, key
  <2> QED BY <1>0, <1>1, <2>1, ImageFinite
<1>3. Worth(D, G, K, key)
  BY RowDone DEF Worth
<1>4. G \in SUBSET D
  OBVIOUS
<1>5. 9000 * Cardinality(D) <= 10000 * Cardinality(G)
  <2> HIDE DEF K, key, G
  <2> QED BY <1>0, <1>1, <1>2, <1>3, <1>4, ShareOfAll
<1>6. Cardinality(D) \in Nat \ {0} /\ Cardinality(G) \in 0 .. Cardinality(D)
  BY <1>0, <1>4, FS_Subset, FS_CardinalityType, FS_EmptySet
<1>7. m.headline.rescored_success_rate = Round4(Cardinality(G), Cardinality(D))
  <2>1. m.headline = Headline(recs)
    BY PartsOf
  <2>2. Headline(recs).rescored_success_rate = RateOf(recs, RescoredPass)
    BY DEF Headline
  <2>3. RateOf(recs, RescoredPass) = Ratio(Cardinality(G), Cardinality(D))
    BY DEF RateOf, Count
  <2> HIDE DEF G
  <2>4. Ratio(Cardinality(G), Cardinality(D)) = Round4(Cardinality(G), Cardinality(D))
    BY <1>6 DEF Ratio
  <2> QED BY <2>1, <2>2, <2>3, <2>4
<1> DEFINE r == m.headline.rescored_success_rate
<1>8. r \in Rate /\ r >= 9000
  <2> HIDE DEF G
  <2> QED BY <1>5, <1>6, <1>7, ShareRounded
<1>9. Floor["rescored_success_rate"] = 7000
  BY DEF Floor
<1> HIDE DEF r
<1>10. r \in Rate /\ r >= Floor["rescored_success_rate"]
  BY <1>8, <1>9 DEF Rate, One
<1> QED BY <1>10 DEF BelowFloor, r

\* A whole file holds the metrics of the folder, which build_metrics gets
\* through.
MeasuredOf(file) ==
  File(file) => Builds(folder) /\ \E version : file = Written(Measured[folder], version)

MInv == folder \in Run /\ MeasuredOf(metrics)

\* A whole metrics.json holds the metrics of its folder.
LEMMA WholeIs ==
  ASSUME MInv, File(metrics)
  PROVE  folder \in Run /\ DOMAIN folder # {} /\ metrics.m = compute_metrics(Records(folder))
<1>1. PICK version : metrics = Written(Measured[folder], version)
  BY DEF MInv, MeasuredOf
<1>2. metrics.m = Measured[folder]
  BY <1>1 DEF Written
<1>3. folder \in Run /\ Builds(folder)
  BY DEF MInv, MeasuredOf
<1>4. Measured[folder] = compute_metrics(Records(folder))
  BY <1>3 DEF Measured
<1> QED BY <1>2, <1>3, <1>4 DEF Builds

\* A folder starts without a metrics.json.
LEMMA InitMInv == Init => MInv
BY NotWhole DEF Init, MInv, MeasuredOf

\* The file is written from its own folder's records, and a new folder has
\* none.
LEMMA NextMInv ==
  ASSUME MInv, [Next]_vars
  PROVE  MInv'
<1>1. CASE NewRun
  BY <1>1, NotWhole DEF NewRun, MInv, MeasuredOf
<1>2. CASE BuildMetrics
  <2>1. folder' = folder /\ metrics' = Written(Measured[folder], schema) /\ Builds(folder)
    BY <1>2 DEF BuildMetrics
  <2>2. Builds(folder') /\ \E version : metrics' = Written(Measured[folder'], version)
    BY <2>1
  <2> QED BY <2>1, <2>2 DEF MInv, MeasuredOf
<1>3. CASE BuildInterrupted
  BY <1>3, NotWhole DEF BuildInterrupted, MInv, MeasuredOf
<1>4. ASSUME UNCHANGED <<folder, metrics>> PROVE MInv'
  BY <1>4 DEF MInv, MeasuredOf
<1>5. CASE BuildRaises \/ Gate \/ Promote \/ PromoteInterrupted \/ GateRaises \/ Upgrade \/ RemoveBaseline
  BY <1>4, <1>5 DEF BuildRaises, Gate, Promote, PromoteInterrupted, GateRaises, Upgrade, RemoveBaseline
<1>6. CASE UNCHANGED vars
  BY <1>4, <1>6 DEF vars
<1> QED BY <1>1, <1>2, <1>3, <1>5, <1>6 DEF Next

\* The metrics.json of a folder is always of that folder, or cannot be read
\* (run.py:43-78).
THEOREM MInvAlways == Spec => []MInv
BY InitMInv, NextMInv, PTL DEF Spec

\* A matrix in which all is done is of a run above the floor.
LEMMA MInvDone == MInv => DoneMeansFloor
<1> SUFFICES ASSUME MInv, File(metrics),
               \A row \in {build_rows(metrics.m)[p] : p \in DOMAIN build_rows(metrics.m)} : row.status = "done"
             PROVE  "rescored_success_rate" \notin BelowFloor(metrics.m)
  BY DEF DoneMeansFloor
<1> DEFINE recs == Records(folder)
<1>1. folder \in Run /\ DOMAIN folder # {} /\ metrics.m = compute_metrics(recs)
  BY WholeIs
<1>2. DOMAIN recs # {} /\ Scored(recs)
  BY <1>1, RecordsOf, RecordsScored
<1>3. \A p \in DOMAIN build_rows(metrics.m) : build_rows(metrics.m)[p].status = "done"
  OBVIOUS
<1> HIDE DEF recs
<1> QED BY <1>1, <1>2, <1>3, DoneFloor

\* The parts of one metrics.json agree, and the coverage matrix and the gate
\* agree on it.
LEMMA MInvOutputs == MInv => OutputsAgree
<1> SUFFICES ASSUME MInv, File(metrics) PROVE OutputsAgree
  BY DEF OutputsAgree
<1> DEFINE m == metrics.m
<1> DEFINE recs == Records(folder)
<1> DEFINE D == DOMAIN recs
<1> DEFINE n == Cardinality(DOMAIN m.cases)
<1> DEFINE right == [x \in DOMAIN m.confusion |-> IF x[1] = x[2] THEN m.confusion[x] ELSE 0]
<1> DEFINE good == Cardinality({c \in DOMAIN m.cases : m.cases[c].rescored_pass})
<1> DEFINE P == {c \in D : RescoredPass(recs[c])}
<1>1. m = compute_metrics(recs) /\ Scored(recs)
  BY WholeIs, RecordsScored
<1> HIDE DEF m, recs
<1>2. n = Cardinality(D) /\ good = Cardinality(P)
  <2>1. DOMAIN m.cases = D
    BY <1>1, CasesOf
  <2>2. {c \in DOMAIN m.cases : m.cases[c].rescored_pass} = P
    BY <1>1, CasesOf
  <2> QED BY <2>1, <2>2
<1>3. /\ m.headline = Headline(recs) /\ m.confusion = Confusion(recs)
      /\ \A d \in DOMAIN m.slices : m.slices[d] = SliceBy(recs, d)
  BY <1>1, PartsOf
<1>4. \A h \in DOMAIN m.headline : m.headline[h] \in Rate \cup {NoRate}
  BY <1>1, <1>3, HeadlineRates
<1>5. /\ SumFunction(m.confusion) = Cardinality(D)
      /\ SumFunction(right) = Cardinality({c \in D : RightDecision(recs[c])})
  <2> DEFINE conf == m.confusion
  <2>1. right = [x \in DOMAIN conf |-> IF x[1] = x[2] THEN conf[x] ELSE 0] /\ conf = Confusion(recs)
    BY <1>3
  <2> HIDE DEF right, conf
  <2>2. /\ SumFunction(conf) = Cardinality(D)
        /\ SumFunction(right) = Cardinality({c \in D : RightDecision(recs[c])})
    BY <1>1, <2>1, ConfusionSums
  <2> QED BY <2>2 DEF conf
<1>6. m.headline.decision_accuracy = Ratio(Cardinality({c \in D : RightDecision(recs[c])}), Cardinality(D))
  <2>1. Headline(recs).decision_accuracy = RateOf(recs, RightDecision)
    BY DEF Headline
  <2>2. RateOf(recs, RightDecision) = Ratio(Cardinality({c \in D : RightDecision(recs[c])}), Cardinality(D))
    BY DEF RateOf, Count
  <2> QED BY <1>3, <2>1, <2>2
<1>7. m.headline.rescored_success_rate = Ratio(Cardinality(P), Cardinality(D))
  <2>1. Headline(recs).rescored_success_rate = RateOf(recs, RescoredPass)
    BY DEF Headline
  <2>2. RateOf(recs, RescoredPass) = Ratio(Cardinality(P), Cardinality(D))
    BY DEF RateOf, Count
  <2> QED BY <1>3, <2>1, <2>2
<1>8. ASSUME NEW d \in DOMAIN m.slices
      PROVE  /\ SumFunction([k \in DOMAIN m.slices[d] |-> m.slices[d][k].n]) = Cardinality(D)
             /\ SumFunction([k \in DOMAIN m.slices[d] |-> m.slices[d][k].passed]) = Cardinality(P)
  <2> DEFINE s == m.slices[d]
  <2>1. s = SliceBy(recs, d)
    BY <1>3
  <2> HIDE DEF s
  <2>2. /\ SumFunction([k \in DOMAIN s |-> s[k].n]) = Cardinality(D)
        /\ SumFunction([k \in DOMAIN s |-> s[k].passed]) = Cardinality(P)
    BY <1>1, <2>1, SliceSums
  <2> QED BY <2>2 DEF s
<1>9. DoneMeansFloor
  BY MInvDone
<1> HIDE DEF n, good, right, P
<1>10. /\ SumFunction(m.confusion) = n
       /\ m.headline.decision_accuracy = Ratio(SumFunction(right), n)
       /\ m.headline.rescored_success_rate = Ratio(good, n)
       /\ \A d \in DOMAIN m.slices :
             /\ SumFunction([k \in DOMAIN m.slices[d] |-> m.slices[d][k].n]) = n
             /\ SumFunction([k \in DOMAIN m.slices[d] |-> m.slices[d][k].passed]) = good
  BY <1>2, <1>5, <1>6, <1>7, <1>8
<1> QED BY <1>4, <1>9, <1>10 DEF OutputsAgree, m, n, right, good

\* Whatever runs are evaluated, killed while writing or promoted: the matrix,
\* the slices, the rows and the headline of a metrics.json count the same
\* cases, and a coverage matrix that is done is of a run above the floor
\* (metrics.py:65-168, coverage.py:39-80, gate.py:60-72).
THEOREM OutputsAlwaysAgree == Spec => []OutputsAgree
BY MInvAlways, MInvOutputs, PTL

\* The re-score of a case is its own.
LEMMA MInvLocal == MInv => RescoreLocal
<1> SUFFICES ASSUME MInv, File(metrics), NEW c \in DOMAIN metrics.m.cases,
                    Records([d \in {c} |-> folder[c]])[c].expected_status # "PENDING"
             PROVE  metrics.m.cases[c].rescored_pass = RescoredPass(Records([d \in {c} |-> folder[c]])[c])
  BY DEF RescoreLocal
<1> DEFINE one == [d \in {c} |-> folder[c]]
<1> DEFINE alone == Records(one)[c]
<1> DEFINE rec == Records(folder)[c]
<1> DEFINE base == result_to_record(c, folder[c])
<1>1. metrics.m = compute_metrics(Records(folder))
  BY WholeIs
<1>2. c \in DOMAIN folder /\ metrics.m.cases[c].rescored_pass = RescoredPass(rec)
  BY <1>1, CasesOf, RecordsOf
<1>3. IsRecordOf(rec, base)
  BY <1>2, RecordsOf
<1>4. IsRecordOf(alone, base)
  <2>1. c \in DOMAIN one /\ one[c] = folder[c]
    OBVIOUS
  <2> HIDE DEF one
  <2>2. IsRecordOf(Records(one)[c], result_to_record(c, one[c]))
    BY <2>1, RecordsOf
  <2> QED BY <2>1, <2>2
<1>5. alone.expected_status # "PENDING"
  OBVIOUS
<1> HIDE DEF alone, rec, base
<1>6. RescoredPass(rec) = RescoredPass(alone)
  BY <1>3, <1>4, <1>5, SameScore
<1> QED BY <1>2, <1>6 DEF alone

\* The dialect of a run is that of its conversations.
LEMMA MInvDialect == MInv => DialectOfRun
<1> SUFFICES ASSUME MInv, NEW fmt \in Dialect,
                    \A c \in DOMAIN folder : Wording[folder[c].chat] \in {fmt, None},
                    NEW e \in DOMAIN folder, Wording[folder[e].chat] = fmt
             PROVE  DialectOf(folder) = fmt
  BY DEF DialectOfRun
<1> QED BY DialectRight DEF MInv

\* Whatever the other cases of a run are, a case that is not to stay pending
\* is passed or failed as it would be alone, and conversations of one dialect
\* are read in it (run.py:27-40, metrics.py:42-57).
THEOREM CasesAreKeptApart == Spec => []CasesKeptApart
<1>1. MInv => CasesKeptApart
  BY MInvLocal, MInvDialect DEF CasesKeptApart
<1> QED BY <1>1, MInvAlways, PTL

-----------------------------------------------------------------------------
(* Saying it again.                                                         *)

\* The smallest of some numbers is one of them.
LEMMA MinIn ==
  ASSUME NEW T \in SUBSET Nat, T # {}
  PROVE  Min(T) \in T /\ \A y \in T : Min(T) <= y
<1>1. PICK m \in T : \A y \in T : m <= y
  BY LeastOf
<1> QED BY <1>1 DEF Min

\* Only one is.
LEMMA MinUnique ==
  ASSUME NEW T \in SUBSET Nat, NEW m \in T, \A y \in T : m <= y
  PROVE  Min(T) = m
<1>1. Min(T) \in T /\ \A y \in T : Min(T) <= y
  BY MinIn
<1>2. Min(T) \in Nat /\ m \in Nat /\ Min(T) <= m /\ m <= Min(T)
  BY <1>1
<1> QED BY <1>2

\* B goes on from A: it adds only places from the turn after n on, and none if
\* A has none.
GoesOn(n, A, B) ==
  /\ A \subseteq B /\ B \subseteq Nat
  /\ \A p \in A : p < At(n + 1, 0)
  /\ \A p \in B \ A : p >= At(n + 1, 0)
  /\ B # {} => A # {}

\* What goes on from A starts where A does.
LEMMA GoesOnMin ==
  ASSUME NEW n \in Nat, NEW A, NEW B, GoesOn(n, A, B), A # {}
  PROVE  B # {} /\ Min(B) = Min(A)
<1> DEFINE e == At(n + 1, 0)
<1>1. A \in SUBSET Nat /\ B \in SUBSET Nat /\ A \subseteq B /\ B # {}
  BY DEF GoesOn
<1>0. e \in Nat /\ (\A p \in A : p < e) /\ (\A p \in B \ A : p >= e)
  <2>1. e \in Nat
    BY DEF At, Width
  <2> QED BY <2>1 DEF GoesOn
<1> DEFINE m == Min(A)
<1>2. m \in A /\ \A y \in A : m <= y
  BY <1>1, MinIn
<1> HIDE DEF e, m
<1>3. ASSUME NEW p \in B PROVE m <= p
  <2>1. CASE p \in A
    BY <1>2, <2>1
  <2>2. CASE p \notin A
    <3>1. m < e /\ p >= e
      BY <1>0, <1>2, <2>2
    <3> QED BY <1>0, <1>1, <1>2, <3>1
  <2> QED BY <2>1, <2>2
<1>4. m \in B
  BY <1>1, <1>2
<1>5. Min(B) = m
  BY <1>1, <1>3, <1>4, MinUnique
<1> QED BY <1>1, <1>5 DEF m

\* Where a place is.
LEMMA PlaceIs ==
  ASSUME NEW i \in Nat, NEW j \in 0 .. 9
  PROVE  /\ At(i, j) \in Nat /\ At(i, j) \div Width = i
         /\ At(i, j) - (At(i, j) % Width) = At(i, 0)
         /\ \A k \in Nat : i < k => At(i, j) < At(k, 0)
         /\ \A k \in Nat : k <= i => At(i, j) >= At(k, 0)
BY DEF At, Width

\* Texts: turns by number, with fewer than Width phrases each.
IsText(text) ==
  /\ DOMAIN text \subseteq Nat \ {0}
  /\ \A i \in DOMAIN text : DOMAIN text[i].phrases \subseteq 1 .. 9

\* Text two is text one, and again some of its turns after the turn n.
Again(n, one, two) ==
  /\ IsText(one) /\ IsText(two) /\ DOMAIN one \subseteq 1 .. n
  /\ \A i \in DOMAIN one : i \in DOMAIN two /\ two[i] = one[i]
  /\ \A i \in DOMAIN two \ DOMAIN one : i > n /\ \E e \in DOMAIN one : two[i] = one[e]

\* What a place of some phrases is.
LEMMA PlacesAre ==
  ASSUME NEW text, NEW phrases, NEW p
  PROVE  p \in Places(text, phrases) <=>
           \E i \in DOMAIN text : \E j \in DOMAIN text[i].phrases :
             text[i].phrases[j] \in phrases /\ p = At(i, j)
BY DEF Places

\* The places of phrases go on when turns are said again.
LEMMA PlacesGoOn ==
  ASSUME NEW n \in Nat, NEW one, NEW two, Again(n, one, two), NEW phrases
  PROVE  GoesOn(n, Places(one, phrases), Places(two, phrases))
<1> DEFINE A == Places(one, phrases)
<1> DEFINE B == Places(two, phrases)
<1>1. A \subseteq B
  BY PlacesAre DEF Again
<1>2. B \subseteq Nat
  <2>1. ASSUME NEW p \in B PROVE p \in Nat
    <3>1. PICK i \in DOMAIN two : \E j \in DOMAIN two[i].phrases : p = At(i, j)
      BY <2>1, PlacesAre
    <3>2. PICK j \in DOMAIN two[i].phrases : p = At(i, j)
      BY <3>1
    <3>3. i \in Nat /\ j \in 0 .. 9
      BY DEF Again, IsText
    <3> QED BY <3>2, <3>3, PlaceIs
  <2> QED BY <2>1
<1>3. ASSUME NEW p \in A PROVE p < At(n + 1, 0)
  <2>1. PICK i \in DOMAIN one : \E j \in DOMAIN one[i].phrases : p = At(i, j)
    BY PlacesAre
  <2>2. PICK j \in DOMAIN one[i].phrases : p = At(i, j)
    BY <2>1
  <2>3. i \in Nat /\ j \in 0 .. 9 /\ n + 1 \in Nat /\ i < n + 1
    BY DEF Again, IsText
  <2> QED BY <2>2, <2>3, PlaceIs
<1>4. ASSUME NEW p \in B \ A PROVE p >= At(n + 1, 0)
  <2>1. PICK i \in DOMAIN two : \E j \in DOMAIN two[i].phrases : two[i].phrases[j] \in phrases /\ p = At(i, j)
    BY PlacesAre
  <2>2. PICK j \in DOMAIN two[i].phrases : two[i].phrases[j] \in phrases /\ p = At(i, j)
    BY <2>1
  <2>3. i \notin DOMAIN one
    BY <2>2, PlacesAre DEF Again
  <2>4. i \in Nat /\ j \in 0 .. 9 /\ n + 1 \in Nat /\ n + 1 <= i
    BY <2>3 DEF Again, IsText
  <2> QED BY <2>2, <2>4, PlaceIs
<1>5. ASSUME NEW p \in B PROVE A # {}
  <2>1. PICK i \in DOMAIN two : \E j \in DOMAIN two[i].phrases : two[i].phrases[j] \in phrases
    BY PlacesAre
  <2>2. PICK e \in DOMAIN one : two[i] = one[e]
    BY DEF Again
  <2>3. PICK j \in DOMAIN one[e].phrases : one[e].phrases[j] \in phrases
    BY <2>1, <2>2
  <2>4. At(e, j) \in A
    BY <2>3, PlacesAre
  <2> QED BY <2>4
<1> HIDE DEF A, B
<1>6. GoesOn(n, A, B)
  BY <1>1, <1>2, <1>3, <1>4, <1>5 DEF GoesOn
<1> QED BY <1>6 DEF A, B

\* The places moved to the start of their lines.
Lines(text, places, by) ==
  {p - (p % Width) : p \in {q \in places : text[q \div Width].role = by}}

\* What the start of a line with some phrases is.
LEMMA LinesAre ==
  ASSUME NEW text, IsText(text), NEW phrases, NEW by, NEW p
  PROVE  p \in Lines(text, Places(text, phrases), by) <=>
           \E i \in DOMAIN text : \E j \in DOMAIN text[i].phrases :
             text[i].phrases[j] \in phrases /\ text[i].role = by /\ p = At(i, 0)
<1>1. ASSUME NEW q \in Places(text, phrases), text[q \div Width].role = by, p = q - (q % Width)
      PROVE  \E i \in DOMAIN text : \E j \in DOMAIN text[i].phrases :
               text[i].phrases[j] \in phrases /\ text[i].role = by /\ p = At(i, 0)
  <2>1. PICK i \in DOMAIN text : \E j \in DOMAIN text[i].phrases : text[i].phrases[j] \in phrases /\ q = At(i, j)
    BY PlacesAre
  <2>2. PICK j \in DOMAIN text[i].phrases : text[i].phrases[j] \in phrases /\ q = At(i, j)
    BY <2>1
  <2>3. i \in Nat /\ j \in 0 .. 9
    BY DEF IsText
  <2>4. q \div Width = i /\ q - (q % Width) = At(i, 0)
    BY <2>2, <2>3, PlaceIs
  <2> QED BY <1>1, <2>2, <2>4
<1>2. ASSUME NEW i \in DOMAIN text, NEW j \in DOMAIN text[i].phrases,
             text[i].phrases[j] \in phrases, text[i].role = by, p = At(i, 0)
      PROVE  p \in Lines(text, Places(text, phrases), by)
  <2> DEFINE q == At(i, j)
  <2>1. q \in Places(text, phrases)
    BY <1>2, PlacesAre
  <2>2. i \in Nat /\ j \in 0 .. 9
    BY DEF IsText
  <2>3. q \div Width = i /\ q - (q % Width) = At(i, 0)
    BY <2>2, PlaceIs
  <2> HIDE DEF q
  <2> QED BY <1>2, <2>1, <2>3 DEF Lines
<1>3. ASSUME p \in Lines(text, Places(text, phrases), by)
      PROVE  \E q \in Places(text, phrases) : text[q \div Width].role = by /\ p = q - (q % Width)
  BY <1>3 DEF Lines
<1> QED BY <1>1, <1>2, <1>3

\* So do the starts of their lines.
LEMMA LinesGoOn ==
  ASSUME NEW n \in Nat, NEW one, NEW two, Again(n, one, two), NEW phrases, NEW by
  PROVE  GoesOn(n, Lines(one, Places(one, phrases), by), Lines(two, Places(two, phrases), by))
<1> DEFINE A == Lines(one, Places(one, phrases), by)
<1> DEFINE B == Lines(two, Places(two, phrases), by)
<1>0. IsText(one) /\ IsText(two)
  BY DEF Again
<1>1. A \subseteq B
  BY <1>0, LinesAre DEF Again
<1>2. ASSUME NEW p \in B
      PROVE  \E i \in DOMAIN two : i \in Nat /\ p = At(i, 0) /\ (i \in DOMAIN one => p \in A)
  <2>1. PICK i \in DOMAIN two : \E j \in DOMAIN two[i].phrases :
             two[i].phrases[j] \in phrases /\ two[i].role = by /\ p = At(i, 0)
    BY <1>0, LinesAre
  <2>2. i \in Nat
    BY DEF Again, IsText
  <2>3. i \in DOMAIN one => p \in A
    BY <1>0, <2>1, LinesAre DEF Again
  <2> QED BY <2>1, <2>2, <2>3
<1>3. B \subseteq Nat
  BY <1>2, PlaceIs
<1>4. ASSUME NEW p \in A PROVE p < At(n + 1, 0)
  <2>1. PICK i \in DOMAIN one : p = At(i, 0)
    BY <1>0, LinesAre
  <2>2. i \in Nat /\ n + 1 \in Nat /\ i < n + 1 /\ 0 \in 0 .. 9
    BY DEF Again, IsText
  <2> QED BY <2>1, <2>2, PlaceIs
<1>5. ASSUME NEW p \in B \ A PROVE p >= At(n + 1, 0)
  <2>1. PICK i \in DOMAIN two : i \in Nat /\ p = At(i, 0) /\ i \notin DOMAIN one
    BY <1>2
  <2>2. n + 1 \in Nat /\ n + 1 <= i /\ 0 \in 0 .. 9
    BY <2>1 DEF Again
  <2> QED BY <2>1, <2>2, PlaceIs
<1>6. ASSUME NEW p \in B PROVE A # {}
  <2>1. PICK i \in DOMAIN two : \E j \in DOMAIN two[i].phrases :
             two[i].phrases[j] \in phrases /\ two[i].role = by
    BY <1>0, LinesAre
  <2>2. PICK e \in DOMAIN one : two[i] = one[e]
    BY DEF Again
  <2>3. At(e, 0) \in A
    BY <1>0, <2>1, <2>2, LinesAre
  <2> QED BY <2>3
<1> HIDE DEF A, B
<1>7. GoesOn(n, A, B)
  BY <1>1, <1>3, <1>4, <1>5, <1>6 DEF GoesOn
<1> QED BY <1>7 DEF A, B

\* So do the matches of a detector (taxonomy.py).
LEMMA MatchesGoOn ==
  ASSUME NEW n \in Nat, NEW one, NEW two, Again(n, one, two), NEW rx
  PROVE  GoesOn(n, Matches(one, rx), Matches(two, rx))
<1>1. CASE rx.by = "anyone"
  BY <1>1, PlacesGoOn DEF Matches
<1>2. CASE rx.by # "anyone"
  <2>1. Matches(one, rx) = Lines(one, Places(one, rx.phrases), rx.by)
        /\ Matches(two, rx) = Lines(two, Places(two, rx.phrases), rx.by)
    BY <1>2 DEF Matches, Lines
  <2> QED BY <2>1, LinesGoOn
<1> QED BY <1>1, <1>2

\* The turns of the customer.
Spoke(text) == {i \in DOMAIN text : text[i].role = "customer"}

\* The customer spoke first where they spoke first (trajectory.py).
LEMMA IntentFromSame ==
  ASSUME NEW n \in Nat, NEW one, NEW two, Again(n, one, two)
  PROVE  IntentFrom(two) = IntentFrom(one)
<1> DEFINE A == Spoke(one)
<1> DEFINE B == Spoke(two)
<1>1. A \in SUBSET Nat /\ B \in SUBSET Nat /\ A \subseteq B
  BY DEF Again, IsText, Spoke
<1>2. B # {} => A # {}
  BY DEF Again, Spoke
<1>3. ASSUME A # {} PROVE Min(B) = Min(A)
  <2> DEFINE m == Min(A)
  <2>1. m \in A /\ \A y \in A : m <= y
    BY <1>1, <1>3, MinIn
  <2> HIDE DEF m
  <2>2. ASSUME NEW p \in B PROVE m <= p
    <3>1. CASE p \in DOMAIN one
      <4>1. p \in A
        BY <3>1 DEF Again, Spoke
      <4> QED BY <2>1, <4>1
    <3>2. CASE p \notin DOMAIN one
      <4>1. p > n /\ p \in Nat
        BY <1>1, <3>2 DEF Again, Spoke
      <4>2. m \in 1 .. n
        BY <2>1 DEF Again, Spoke
      <4> QED BY <4>1, <4>2
    <3> QED BY <3>1, <3>2
  <2>3. Min(B) = m
    BY <1>1, <2>1, <2>2, MinUnique
  <2> QED BY <2>3 DEF m
<1>4. IntentFrom(one) = (IF A = {} THEN 0 ELSE At(Min(A), 0))
      /\ IntentFrom(two) = (IF B = {} THEN 0 ELSE At(Min(B), 0))
  BY DEF IntentFrom, Spoke
<1> QED BY <1>1, <1>2, <1>3, <1>4

\* The places of the intent go on, when it is heard at all.
LEMMA IntentGoesOn ==
  ASSUME NEW n \in Nat, NEW one, NEW two, Again(n, one, two), IntentInScope(one)
  PROVE  GoesOn(n, IntentPlaces(one), IntentPlaces(two))
<1> DEFINE A == Places(one, IntentPhrases)
<1> DEFINE B == Places(two, IntentPhrases)
<1> DEFINE e == IntentFrom(one)
<1>1. GoesOn(n, A, B)
  BY PlacesGoOn
<1>2. IntentPlaces(one) = {p \in A : p >= e} /\ IntentPlaces(two) = {p \in B : p >= e}
  BY IntentFromSame DEF IntentPlaces
<1>3. A # {} => IntentPlaces(one) # {}
  BY DEF IntentInScope
<1> HIDE DEF A, B, e
<1> QED BY <1>1, <1>2, <1>3 DEF GoesOn

\* The places of one detector of a stage.
PlacesOf(text, fmt, key) ==
  IF key = "__intent__" THEN IntentPlaces(text) ELSE Matches(text, STAGE_RX[fmt][key])

\* The places of a stage go on.
LEMMA StageGoesOn ==
  ASSUME NEW n \in Nat, NEW one, NEW two, Again(n, one, two), IntentInScope(one), NEW stage, NEW fmt
  PROVE  GoesOn(n, StagePlaces(one, stage, fmt), StagePlaces(two, stage, fmt))
<1> DEFINE K == STAGE_MAP[stage][fmt]
<1> DEFINE A(key) == PlacesOf(one, fmt, key)
<1> DEFINE B(key) == PlacesOf(two, fmt, key)
<1> DEFINE a == StagePlaces(one, stage, fmt)
<1> DEFINE b == StagePlaces(two, stage, fmt)
<1>1. ASSUME NEW key \in K PROVE GoesOn(n, A(key), B(key))
  <2>1. CASE key = "__intent__"
    BY <2>1, IntentGoesOn DEF PlacesOf
  <2>2. CASE key # "__intent__"
    BY <2>2, MatchesGoOn DEF PlacesOf
  <2> QED BY <2>1, <2>2
<1>2. /\ \A p : p \in a <=> \E key \in K : p \in A(key)
      /\ \A p : p \in b <=> \E key \in K : p \in B(key)
  BY DEF StagePlaces, PlacesOf
<1> HIDE DEF K, A, B, a, b
<1>3. a \subseteq b /\ b \subseteq Nat
  BY <1>1, <1>2 DEF GoesOn
<1>4. \A p \in a : p < At(n + 1, 0)
  BY <1>1, <1>2 DEF GoesOn
<1>5. \A p \in b \ a : p >= At(n + 1, 0)
  BY <1>1, <1>2 DEF GoesOn
<1>6. b # {} => a # {}
  BY <1>1, <1>2 DEF GoesOn
<1>7. GoesOn(n, a, b)
  BY <1>3, <1>4, <1>5, <1>6 DEF GoesOn
<1> QED BY <1>7 DEF a, b

\* What is only said again is not heard anew.
LEMMA HitAgain ==
  ASSUME NEW n \in Nat, NEW one, NEW two, Again(n, one, two), IntentInScope(one), NEW fmt
  PROVE  StagesHit(two, fmt) = StagesHit(one, fmt)
<1> DEFINE A(s) == StagePlaces(one, s, fmt)
<1> DEFINE B(s) == StagePlaces(two, s, fmt)
<1>1. \A s \in Stage : GoesOn(n, A(s), B(s))
  BY StageGoesOn
<1> HIDE DEF A, B
<1>2. \A s \in Stage : (B(s) # {} <=> A(s) # {}) /\ (A(s) # {} => Min(B(s)) = Min(A(s)))
  BY <1>1, GoesOnMin DEF GoesOn
<1>3. {s \in Stage : B(s) # {}} = {s \in Stage : A(s) # {}}
  BY <1>2
<1> DEFINE S == {s \in Stage : A(s) # {}}
<1>4. [s \in S |-> Min(B(s))] = [s \in S |-> Min(A(s))]
  BY <1>2
<1>5. StagesHit(one, fmt) = [s \in {s \in Stage : A(s) # {}} |-> Min(A(s))]
      /\ StagesHit(two, fmt) = [s \in {s \in Stage : B(s) # {}} |-> Min(B(s))]
  BY DEF StagesHit, A, B
<1> QED BY <1>3, <1>4, <1>5

\* A conversation that starts again shows its turns, and some of them again.
LEMMA RenderedAgain ==
  ASSUME NEW chat, IsTranscript(chat), NEW k \in 0 .. Len(chat)
  PROVE  Again(Len(chat), Rendered(chat), Rendered(chat \o SubSeq(chat, 1, k)))
<1> DEFINE Turn == [role : STRING, phrases : Seq(STRING)]
<1> DEFINE n == Len(chat)
<1> DEFINE two == chat \o SubSeq(chat, 1, k)
<1>1. chat \in Seq(Turn) /\ n \in Nat
  BY DEF IsTranscript
<1>2. /\ DOMAIN chat = 1 .. n /\ DOMAIN two = 1 .. (n + k)
      /\ \A i \in 1 .. n : two[i] = chat[i]
      /\ \A i \in (n + 1) .. (n + k) : two[i] = chat[i - n] /\ i - n \in 1 .. n
  <2> DEFINE s == SubSeq(chat, 1, k)
  <2> HIDE DEF Turn
  <2>1. Len(s) = k /\ s \in Seq(Turn) /\ \A i \in 1 .. k : s[i] = chat[i]
    BY <1>1
  <2> HIDE DEF s
  <2>2. Len(chat \o s) = n + k /\ DOMAIN (chat \o s) = 1 .. (n + k)
    BY <1>1, <2>1
  <2>3. \A i \in 1 .. (n + k) : (chat \o s)[i] = IF i <= n THEN chat[i] ELSE s[i - n]
    BY <1>1, <2>1
  <2>4. two = chat \o s
    BY DEF s
  <2>5. DOMAIN chat = 1 .. n
    BY <1>1
  <2> HIDE DEF two
  <2>6. \A i \in 1 .. n : two[i] = chat[i]
    BY <1>1, <2>3, <2>4
  <2>7. \A i \in (n + 1) .. (n + k) : two[i] = chat[i - n] /\ i - n \in 1 .. n
    <3> SUFFICES ASSUME NEW i \in (n + 1) .. (n + k) PROVE two[i] = chat[i - n] /\ i - n \in 1 .. n
      OBVIOUS
    <3>1. i \in 1 .. (n + k) /\ ~(i <= n) /\ i - n \in 1 .. k /\ i - n \in 1 .. n
      BY <1>1
    <3> QED BY <2>1, <2>3, <2>4, <3>1
  <2> QED BY <2>2, <2>4, <2>5, <2>6, <2>7
<1>3. \A i \in 1 .. n : DOMAIN chat[i].phrases \subseteq 1 .. 9
  <2> SUFFICES ASSUME NEW i \in 1 .. n PROVE DOMAIN chat[i].phrases \subseteq 1 .. 9
    OBVIOUS
  <2>0. chat[i] \in Turn
    <3> HIDE DEF Turn
    <3> QED BY <1>1
  <2>1. chat[i] \in Turn /\ Len(chat[i].phrases) < 10
    BY <2>0, <1>2 DEF IsTranscript, Width
  <2>2. chat[i].phrases \in Seq(STRING)
    BY <2>1
  <2> QED BY <2>1, <2>2
<1> HIDE DEF two, n
<1>4. \A i \in 1 .. (n + k) : i \in 1 .. n \/ (i \in (n + 1) .. (n + k) /\ i > n)
  BY <1>1
<1> DEFINE a == Rendered(chat)
<1> DEFINE b == Rendered(two)
<1>5. /\ DOMAIN a = {i \in 1 .. n : chat[i].role \in Roles} /\ \A i \in DOMAIN a : a[i] = chat[i]
      /\ DOMAIN b = {i \in 1 .. (n + k) : two[i].role \in Roles} /\ \A i \in DOMAIN b : b[i] = two[i]
  BY <1>2 DEF Rendered
<1> HIDE DEF a, b
<1>6. IsText(a)
  <2>1. \A i \in DOMAIN a : i \in 1 .. n /\ i \in Nat \ {0} /\ a[i] = chat[i]
    BY <1>1, <1>5
  <2> QED BY <1>3, <2>1 DEF IsText
<1>7. ASSUME NEW i \in DOMAIN b
      PROVE  /\ i \in Nat \ {0} /\ DOMAIN b[i].phrases \subseteq 1 .. 9
             /\ i \in DOMAIN a \/ (i > n /\ \E e \in DOMAIN a : b[i] = a[e])
  <2>1. CASE i \in 1 .. n
    <3>1. b[i] = chat[i] /\ chat[i].role \in Roles
      BY <1>2, <1>5, <2>1
    <3> QED BY <1>3, <1>5, <2>1, <3>1
  <2>2. CASE i \in (n + 1) .. (n + k) /\ i > n
    <3> DEFINE e == i - n
    <3>1. b[i] = chat[e] /\ e \in 1 .. n
      BY <1>2, <1>5, <2>2
    <3>2. e \in DOMAIN a /\ b[i] = a[e]
      BY <1>2, <1>5, <2>2, <3>1
    <3>3. i \in Nat \ {0}
      BY <1>1, <2>2
    <3> QED BY <1>3, <2>2, <3>1, <3>2, <3>3
  <2> QED BY <1>4, <1>5, <2>1, <2>2
<1>8. IsText(b)
  BY <1>7 DEF IsText
<1>9. \A i \in DOMAIN a : i \in DOMAIN b /\ b[i] = a[i]
  <2> SUFFICES ASSUME NEW i \in DOMAIN a PROVE i \in DOMAIN b /\ b[i] = a[i]
    OBVIOUS
  <2>1. i \in 1 .. n /\ i \in 1 .. (n + k) /\ two[i] = chat[i] /\ chat[i].role \in Roles
    BY <1>1, <1>2, <1>5
  <2> QED BY <1>5, <2>1
<1>10. DOMAIN a \subseteq 1 .. n
  BY <1>5
<1>11. Again(n, a, b)
  BY <1>6, <1>7, <1>8, <1>9, <1>10 DEF Again
<1> QED BY <1>11 DEF n, a, b, two

\* The score of a conversation is of the stages it hits.
LEMMA ScoreOfHit ==
  ASSUME NEW one, NEW two, NEW fmt, NEW status, NEW family,
         Rendered(one) = <<>> <=> Rendered(two) = <<>>,
         StagesHit(Rendered(one), fmt) = StagesHit(Rendered(two), fmt)
  PROVE  Annotate(one, fmt, status, family).score = Annotate(two, fmt, status, family).score
<1> DEFINE Of(t, hit) ==
      IF t = <<>> THEN 0
      ELSE Round4(LisLength(HitExpected(hit, expected_stages(status, family), fmt)),
                  Len(expected_stages(status, family)))
<1>1. Annotate(one, fmt, status, family).score = Of(Rendered(one), StagesHit(Rendered(one), fmt))
  BY DEF Annotate, NoTrajectory
<1>2. Annotate(two, fmt, status, family).score = Of(Rendered(two), StagesHit(Rendered(two), fmt))
  BY DEF Annotate, NoTrajectory
<1> QED BY <1>1, <1>2

\* A conversation that starts again scores as it did before.
LEMMA RestartScoresSame ==
  ASSUME NEW chat, IsTranscript(chat), NEW k \in 0 .. Len(chat), IntentInScope(Rendered(chat)),
         NEW fmt, NEW status, NEW family
  PROVE  Annotate(chat \o SubSeq(chat, 1, k), fmt, status, family).score
           = Annotate(chat, fmt, status, family).score
<1> DEFINE n == Len(chat)
<1> DEFINE two == chat \o SubSeq(chat, 1, k)
<1> DEFINE a == Rendered(chat)
<1> DEFINE b == Rendered(two)
<1>1. n \in Nat
  BY DEF IsTranscript
<1>2. Again(n, a, b)
  BY RenderedAgain
<1>3. IntentInScope(a)
  OBVIOUS
<1>4. a = <<>> <=> b = <<>>
  <2>1. a = [i \in DOMAIN a |-> a[i]] /\ b = [i \in DOMAIN b |-> b[i]]
    BY DEF Rendered
  <2> HIDE DEF a, b
  <2>2. a = <<>> <=> DOMAIN a = {}
    BY <2>1
  <2>3. b = <<>> <=> DOMAIN b = {}
    BY <2>1
  <2>4. DOMAIN a = {} <=> DOMAIN b = {}
    BY <1>2 DEF Again
  <2> QED BY <2>2, <2>3, <2>4
<1>5. StagesHit(b, fmt) = StagesHit(a, fmt)
  <2> HIDE DEF n, a, b
  <2> QED BY <1>1, <1>2, <1>3, HitAgain
<1> QED BY <1>4, <1>5, ScoreOfHit

\* So it does in every run.
LEMMA RunEarnsNothing == MInv => RestartEarnsNothing
<1> SUFFICES ASSUME MInv, NEW c \in DOMAIN folder, NEW status \in {"ELIGIBLE", "NOT_ELIGIBLE"},
                    NEW family \in {"CORE", "PAY"},
                    IntentInScope(Rendered(Transcript[folder[c].chat])),
                    NEW k \in DOMAIN RestartScores[folder[c].chat][status][family]
             PROVE  RestartScores[folder[c].chat][status][family][k]
                      = RestartScores[folder[c].chat][status][family][0]
  BY DEF RestartEarnsNothing
<1> DEFINE name == folder[c].chat
<1> DEFINE chat == Transcript[name]
<1> DEFINE fmt == Wording[name]
<1> DEFINE scores == RestartScores[name][status][family]
<1>1. name \in Chat /\ IsTranscript(chat)
  BY RunAssumption, TranscriptAssumption DEF MInv
<1> HIDE DEF name
<1>2. scores = [i \in 0 .. Len(chat) |-> Annotate(chat \o SubSeq(chat, 1, i), fmt, status, family).score]
  BY <1>1 DEF RestartScores
<1>3. k \in 0 .. Len(chat) /\ Len(chat) \in Nat
  BY <1>1, <1>2 DEF IsTranscript, name
<1>4. 0 \in 0 .. Len(chat)
  BY <1>3
<1>5. \A i \in 0 .. Len(chat) : scores[i] = Annotate(chat, fmt, status, family).score
  <2> SUFFICES ASSUME NEW i \in 0 .. Len(chat) PROVE scores[i] = Annotate(chat, fmt, status, family).score
    OBVIOUS
  <2>1. IntentInScope(Rendered(chat))
    BY DEF name
  <2>2. scores[i] = Annotate(chat \o SubSeq(chat, 1, i), fmt, status, family).score
    BY <1>2
  <2> HIDE DEF scores, chat
  <2> QED BY <1>1, <2>1, <2>2, RestartScoresSame
<1>6. scores[k] = scores[0]
  <2> HIDE DEF scores
  <2> QED BY <1>3, <1>4, <1>5
<1> QED BY <1>6 DEF name

-----------------------------------------------------------------------------
(* The designed order.                                                      *)

(* The sort.                                                               *)
(***************************************************************************)
\* The places of the list that the sort puts before place i, and the k-th
\* in the sorted order.
Before(e, fmt, F, i) ==
  {j \in F : \/ StagePos(e[j], fmt) < StagePos(e[i], fmt)
             \/ StagePos(e[j], fmt) = StagePos(e[i], fmt) /\ j < i}
Nth(e, fmt, F, k) == CHOOSE i \in F : Cardinality(Before(e, fmt, F, i)) = k - 1

\* The sort is a total order.
LEMMA BeforeOrders ==
  ASSUME NEW e, NEW fmt, NEW F \in SUBSET Nat, \A i \in F : StagePos(e[i], fmt) \in Int,
         NEW i \in F, NEW j \in F
  PROVE  /\ i \notin Before(e, fmt, F, i)
         /\ i # j => (i \in Before(e, fmt, F, j) \/ j \in Before(e, fmt, F, i))
         /\ i \in Before(e, fmt, F, j) => Before(e, fmt, F, i) \subseteq Before(e, fmt, F, j)
<1> DEFINE p == [x \in F |-> StagePos(e[x], fmt)]
<1>1. \A x \in F : p[x] \in Int /\ x \in Nat
  OBVIOUS
<1>2. \A y \in F : Before(e, fmt, F, y) = {x \in F : p[x] < p[y] \/ (p[x] = p[y] /\ x < y)}
  BY DEF Before
<1> HIDE DEF p
<1>3. i \notin Before(e, fmt, F, i)
  BY <1>1, <1>2
<1>4. i # j => (i \in Before(e, fmt, F, j) \/ j \in Before(e, fmt, F, i))
  BY <1>1, <1>2
<1>5. ASSUME i \in Before(e, fmt, F, j), NEW x \in Before(e, fmt, F, i)
      PROVE  x \in Before(e, fmt, F, j)
  <2>1. x \in F /\ p[x] \in Int /\ p[i] \in Int /\ p[j] \in Int /\ x \in Nat /\ i \in Nat /\ j \in Nat
    BY <1>1, <1>2, <1>5
  <2>2. /\ p[x] < p[i] \/ (p[x] = p[i] /\ x < i)
        /\ p[i] < p[j] \/ (p[i] = p[j] /\ i < j)
    BY <1>2, <1>5
  <2>3. p[x] < p[j] \/ (p[x] = p[j] /\ x < j)
    BY <2>1, <2>2
  <2> QED BY <1>2, <2>1, <2>3
<1> QED BY <1>3, <1>4, <1>5

\* A larger finite set has more elements.
LEMMA MoreElements ==
  ASSUME NEW B, IsFiniteSet(B), NEW A \in SUBSET B, NEW x \in B \ A
  PROVE  /\ Cardinality(A) \in Nat /\ Cardinality(B) \in Nat
         /\ Cardinality(A) < Cardinality(B)
<1>1. IsFiniteSet(A) /\ Cardinality(A) \in Nat /\ Cardinality(B) \in Nat /\ Cardinality(B \ {x}) = Cardinality(B) - 1
  BY FS_Subset, FS_CardinalityType, FS_RemoveElement
<1>2. A \in SUBSET (B \ {x}) /\ IsFiniteSet(B \ {x})
  BY FS_Subset
<1>3. Cardinality(A) <= Cardinality(B \ {x})
  BY <1>2, FS_Subset
<1> QED BY <1>1, <1>3

\* What is sorted before has the lower rank.
LEMMA RankGrows ==
  ASSUME NEW e, NEW fmt, NEW F \in SUBSET Nat, IsFiniteSet(F), \A i \in F : StagePos(e[i], fmt) \in Int,
         NEW i \in F, NEW j \in F
  PROVE  /\ Cardinality(Before(e, fmt, F, i)) \in 0 .. (Cardinality(F) - 1)
         /\ i \in Before(e, fmt, F, j) =>
              Cardinality(Before(e, fmt, F, i)) < Cardinality(Before(e, fmt, F, j))
<1> DEFINE A == Before(e, fmt, F, i)
<1> DEFINE B == Before(e, fmt, F, j)
<1>1. A \in SUBSET F /\ B \in SUBSET F /\ IsFiniteSet(B)
  BY FS_Subset DEF Before
<1>2. i \notin A /\ (i \in B => A \subseteq B)
  BY BeforeOrders
<1> HIDE DEF A, B
<1>3. Cardinality(A) \in Nat /\ Cardinality(F) \in Nat /\ Cardinality(A) < Cardinality(F)
  BY <1>1, <1>2, MoreElements
<1>4. i \in B => Cardinality(A) < Cardinality(B)
  BY <1>1, <1>2, MoreElements
<1>5. Cardinality(A) \in 0 .. (Cardinality(F) - 1)
  BY <1>3
<1> QED BY <1>4, <1>5 DEF A, B

\* Every rank is taken once: the k-th is found, and everything is the k-th
\* for some k.
LEMMA NthIs ==
  ASSUME NEW e, NEW fmt, NEW F \in SUBSET Nat, IsFiniteSet(F), \A i \in F : StagePos(e[i], fmt) \in Int
  PROVE  /\ \A k \in 1 .. Cardinality(F) :
              Nth(e, fmt, F, k) \in F /\ Cardinality(Before(e, fmt, F, Nth(e, fmt, F, k))) = k - 1
         /\ \A i \in F : /\ Cardinality(Before(e, fmt, F, i)) + 1 \in 1 .. Cardinality(F)
                         /\ Nth(e, fmt, F, Cardinality(Before(e, fmt, F, i)) + 1) = i
         /\ \A k, l \in 1 .. Cardinality(F) :
              k < l => Nth(e, fmt, F, k) \in Before(e, fmt, F, Nth(e, fmt, F, l))
<1> DEFINE m == Cardinality(F)
<1> DEFINE R == 0 .. (m - 1)
<1> DEFINE r == [i \in F |-> Cardinality(Before(e, fmt, F, i))]
<1>1. m \in Nat
  BY FS_CardinalityType
<1>2. \A i, j \in F : i \in Before(e, fmt, F, j) => r[i] < r[j]
  BY RankGrows
<1>3. \A i, j \in F : i # j => i \in Before(e, fmt, F, j) \/ j \in Before(e, fmt, F, i)
  BY BeforeOrders
<1>4. \A i \in F : r[i] \in R
  BY RankGrows
<1>5. DOMAIN r = F /\ r \in [F -> R]
  BY <1>4
<1>6. \A i \in F : r[i] = Cardinality(Before(e, fmt, F, i))
  OBVIOUS
<1>7. IsFiniteSet(R) /\ Cardinality(R) = m
  <2> DEFINE z == m - 1
  <2>1. 0 \in Int /\ z \in Int
    BY <1>1
  <2> HIDE DEF z
  <2>2. IsFiniteSet(0 .. z) /\ Cardinality(0 .. z) = IF 0 > z THEN 0 ELSE z - 0 + 1
    BY <2>1, FS_Interval
  <2>3. (IF 0 > z THEN 0 ELSE z - 0 + 1) = m
    BY <1>1 DEF z
  <2> QED BY <2>2, <2>3 DEF R, z
<1>8. \A i \in F : r[i] \in Nat
  BY <1>4, <1>1
<1> HIDE DEF r, R
<1>9. \A i, j \in F : r[i] = r[j] => i = j
  BY <1>2, <1>3, <1>8
<1>10. r \in Injection(F, R)
  BY <1>5, <1>9 DEF Injection, IsInjective
<1>11. r \in Surjection(F, R)
  BY <1>7, <1>10, FS_Injection
<1>12. ASSUME NEW k \in 1 .. m PROVE Nth(e, fmt, F, k) \in F /\ r[Nth(e, fmt, F, k)] = k - 1
  <2>1. k - 1 \in R
    BY <1>1 DEF R
  <2>2. \E i \in F : r[i] = k - 1
    BY <1>11, <2>1 DEF Surjection
  <2>3. \E i \in F : Cardinality(Before(e, fmt, F, i)) = k - 1
    BY <1>6, <2>2
  <2>4. Nth(e, fmt, F, k) \in F /\ Cardinality(Before(e, fmt, F, Nth(e, fmt, F, k))) = k - 1
    BY <2>3 DEF Nth
  <2> QED BY <1>6, <2>4
<1>13. ASSUME NEW i \in F PROVE r[i] + 1 \in 1 .. m /\ Nth(e, fmt, F, r[i] + 1) = i
  <2>1. PICK k \in 1 .. m : k - 1 = r[i] /\ k = r[i] + 1
    <3> DEFINE x == r[i]
    <3>1. x \in 0 .. (m - 1) /\ m \in Nat
      BY <1>1, <1>4 DEF R
    <3> HIDE DEF x, m
    <3>2. x + 1 \in 1 .. m /\ x + 1 - 1 = x
      BY <3>1
    <3>3. \E k \in 1 .. m : k - 1 = x /\ k = x + 1
      BY <3>1, <3>2
    <3> QED BY <3>3 DEF x
  <2>2. k \in 1 .. m /\ k - 1 = r[i]
    BY <2>1
  <2>3. Nth(e, fmt, F, k) \in F /\ r[Nth(e, fmt, F, k)] = r[i]
    BY <1>12, <2>2
  <2>4. Nth(e, fmt, F, k) = i
    BY <1>9, <2>3
  <2> QED BY <2>1, <2>4
<1>14. ASSUME NEW k \in 1 .. m, NEW l \in 1 .. m, k < l
       PROVE  Nth(e, fmt, F, k) \in Before(e, fmt, F, Nth(e, fmt, F, l))
  <2> DEFINE i == Nth(e, fmt, F, k)
  <2> DEFINE j == Nth(e, fmt, F, l)
  <2>1. i \in F /\ j \in F /\ r[i] = k - 1 /\ r[j] = l - 1
    BY <1>12
  <2> HIDE DEF i, j
  <2>2. i # j /\ ~(r[j] < r[i])
    BY <1>1, <1>14, <2>1
  <2>3. i \in Before(e, fmt, F, j)
    BY <1>2, <1>3, <2>1, <2>2
  <2> QED BY <2>3 DEF i, j
<1>15. \A k \in 1 .. m : Nth(e, fmt, F, k) \in F /\ Cardinality(Before(e, fmt, F, Nth(e, fmt, F, k))) = k - 1
  BY <1>6, <1>12
<1>16. \A i \in F : /\ Cardinality(Before(e, fmt, F, i)) + 1 \in 1 .. m
                   /\ Nth(e, fmt, F, Cardinality(Before(e, fmt, F, i)) + 1) = i
  BY <1>6, <1>13
<1> QED BY <1>14, <1>15, <1>16

-----------------------------------------------------------------------------
(* The places of the stages that are expected of a case.                    *)

(* The places of the stages that are expected of a case.                   *)
(***************************************************************************)
\* Where alpha's flow has them, and bravo's.
AlphaPlaces ==
  [greeting |-> 2,
   intent_stated |-> 8,
   decision_disclosure |-> 22,
   identity_collection |-> 26,
   identity_provided |-> 28,
   otp_channel_selection |-> 32,
   otp_entered |-> 38,
   identity_verified |-> 40,
   booking_retrieved |-> 32,
   decision_rendered |-> 54,
   amount_quoted |-> 15,
   claim_submitted |-> 50,
   case_reference_issued |-> 52,
   payment_method |-> 48]
BravoPlaces ==
  [greeting |-> 2,
   intent_stated |-> 4,
   decision_disclosure |-> 10,
   identity_collection |-> 14,
   identity_provided |-> 18,
   otp_channel_selection |-> 20,
   otp_entered |-> 24,
   identity_verified |-> 26,
   booking_retrieved |-> 28,
   decision_rendered |-> 32,
   amount_quoted |-> 38,
   claim_submitted |-> 46,
   case_reference_issued |-> 50,
   payment_method |-> 40]

\* The stages but the intent that some case expects.
Due == DOMAIN AlphaPlaces

\* A stage is where the earliest of its detectors is.
LEMMA PlacedAt ==
  ASSUME NEW stage, NEW fmt, "__intent__" \notin STAGE_MAP[stage][fmt],
         NEW key \in STAGE_MAP[stage][fmt],
         \A k \in STAGE_MAP[stage][fmt] :
           STAGE_POS[fmt][k] \in Nat /\ STAGE_POS[fmt][key] <= STAGE_POS[fmt][k]
  PROVE  StagePos(stage, fmt) = STAGE_POS[fmt][key]
<1> DEFINE K == STAGE_MAP[stage][fmt]
<1> DEFINE p(k) == STAGE_POS[fmt][k]
<1> DEFINE T == {p(k) : k \in K}
<1>1. K \ {"__intent__"} = K /\ K # {}
  OBVIOUS
<1>2. StagePos(stage, fmt) = Min(T)
  <2> HIDE DEF p
  <2>1. StagePos(stage, fmt) = IF K \ {"__intent__"} = {} THEN NoPos ELSE Min({p(k) : k \in K \ {"__intent__"}})
    BY DEF StagePos, p
  <2> HIDE DEF K
  <2> QED BY <1>1, <2>1
<1>3. /\ key \in K
      /\ \A k \in K : p(k) \in Nat /\ p(key) <= p(k)
  OBVIOUS
<1> HIDE DEF K, p
<1>4. T \in SUBSET Nat /\ p(key) \in T /\ \A y \in T : p(key) <= y
  BY <1>3
<1> HIDE DEF T
<1>5. Min(T) = p(key)
  BY <1>4, MinUnique
<1> QED BY <1>2, <1>5 DEF p

\* The places of alpha's stages.
LEMMA AlphaPlaced == \A stage \in Due : StagePos(stage, "alpha") = AlphaPlaces[stage]
<1>1. StagePos("greeting", "alpha") = 2
  <2>1. STAGE_MAP["greeting"]["alpha"] = {"bot_greeting"}
    BY DEF STAGE_MAP
  <2>2. STAGE_POS["alpha"]["bot_greeting"] = 2
    BY DEF STAGE_POS
  <2>3. /\ "bot_greeting" \in STAGE_MAP["greeting"]["alpha"]
        /\ "__intent__" \notin STAGE_MAP["greeting"]["alpha"]
    BY <2>1
  <2> QED BY <2>1, <2>2, <2>3, PlacedAt
<1>2. StagePos("intent_stated", "alpha") = 8
  <2>1. STAGE_MAP["intent_stated"]["alpha"] = {"customer_disruption_intent"}
    BY DEF STAGE_MAP
  <2>2. STAGE_POS["alpha"]["customer_disruption_intent"] = 8
    BY DEF STAGE_POS
  <2>3. /\ "customer_disruption_intent" \in STAGE_MAP["intent_stated"]["alpha"]
        /\ "__intent__" \notin STAGE_MAP["intent_stated"]["alpha"]
    BY <2>1
  <2> QED BY <2>1, <2>2, <2>3, PlacedAt
<1>3. StagePos("decision_disclosure", "alpha") = 22
  <2>1. STAGE_MAP["decision_disclosure"]["alpha"] = {"automated_decision_disclosure"}
    BY DEF STAGE_MAP
  <2>2. STAGE_POS["alpha"]["automated_decision_disclosure"] = 22
    BY DEF STAGE_POS
  <2>3. /\ "automated_decision_disclosure" \in STAGE_MAP["decision_disclosure"]["alpha"]
        /\ "__intent__" \notin STAGE_MAP["decision_disclosure"]["alpha"]
    BY <2>1
  <2> QED BY <2>1, <2>2, <2>3, PlacedAt
<1>4. StagePos("identity_collection", "alpha") = 26
  <2>1. STAGE_MAP["identity_collection"]["alpha"] = {"identity_request"}
    BY DEF STAGE_MAP
  <2>2. STAGE_POS["alpha"]["identity_request"] = 26
    BY DEF STAGE_POS
  <2>3. /\ "identity_request" \in STAGE_MAP["identity_collection"]["alpha"]
        /\ "__intent__" \notin STAGE_MAP["identity_collection"]["alpha"]
    BY <2>1
  <2> QED BY <2>1, <2>2, <2>3, PlacedAt
<1>5. StagePos("identity_provided", "alpha") = 28
  <2>1. STAGE_MAP["identity_provided"]["alpha"] = {"identity_provided"}
    BY DEF STAGE_MAP
  <2>2. STAGE_POS["alpha"]["identity_provided"] = 28
    BY DEF STAGE_POS
  <2>3. /\ "identity_provided" \in STAGE_MAP["identity_provided"]["alpha"]
        /\ "__intent__" \notin STAGE_MAP["identity_provided"]["alpha"]
    BY <2>1
  <2> QED BY <2>1, <2>2, <2>3, PlacedAt
<1>6. StagePos("otp_channel_selection", "alpha") = 32
  <2>1. STAGE_MAP["otp_channel_selection"]["alpha"] = {"otp_channel_selection", "otp_channel_chosen"}
    BY DEF STAGE_MAP
  <2>2. STAGE_POS["alpha"]["otp_channel_selection"] = 32 /\ STAGE_POS["alpha"]["otp_channel_chosen"] = 34
    BY DEF STAGE_POS
  <2>3. /\ "otp_channel_selection" \in STAGE_MAP["otp_channel_selection"]["alpha"]
        /\ "__intent__" \notin STAGE_MAP["otp_channel_selection"]["alpha"]
    BY <2>1
  <2> QED BY <2>1, <2>2, <2>3, PlacedAt
<1>7. StagePos("otp_entered", "alpha") = 38
  <2>1. STAGE_MAP["otp_entered"]["alpha"] = {"otp_entered"}
    BY DEF STAGE_MAP
  <2>2. STAGE_POS["alpha"]["otp_entered"] = 38
    BY DEF STAGE_POS
  <2>3. /\ "otp_entered" \in STAGE_MAP["otp_entered"]["alpha"]
        /\ "__intent__" \notin STAGE_MAP["otp_entered"]["alpha"]
    BY <2>1
  <2> QED BY <2>1, <2>2, <2>3, PlacedAt
<1>8. StagePos("identity_verified", "alpha") = 40
  <2>1. STAGE_MAP["identity_verified"]["alpha"] = {"otp_verified"}
    BY DEF STAGE_MAP
  <2>2. STAGE_POS["alpha"]["otp_verified"] = 40
    BY DEF STAGE_POS
  <2>3. /\ "otp_verified" \in STAGE_MAP["identity_verified"]["alpha"]
        /\ "__intent__" \notin STAGE_MAP["identity_verified"]["alpha"]
    BY <2>1
  <2> QED BY <2>1, <2>2, <2>3, PlacedAt
<1>9. StagePos("booking_retrieved", "alpha") = 32
  <2>1. STAGE_MAP["booking_retrieved"]["alpha"] = {"otp_channel_selection"}
    BY DEF STAGE_MAP
  <2>2. STAGE_POS["alpha"]["otp_channel_selection"] = 32
    BY DEF STAGE_POS
  <2>3. /\ "otp_channel_selection" \in STAGE_MAP["booking_retrieved"]["alpha"]
        /\ "__intent__" \notin STAGE_MAP["booking_retrieved"]["alpha"]
    BY <2>1
  <2> QED BY <2>1, <2>2, <2>3, PlacedAt
<1>10. StagePos("decision_rendered", "alpha") = 54
  <2>1. STAGE_MAP["decision_rendered"]["alpha"] = {"outcome_eligible_final", "outcome_not_eligible_final"}
    BY DEF STAGE_MAP
  <2>2. /\ STAGE_POS["alpha"]["outcome_eligible_final"] = 54
        /\ STAGE_POS["alpha"]["outcome_not_eligible_final"] = 54
    BY DEF STAGE_POS
  <2>3. /\ "outcome_eligible_final" \in STAGE_MAP["decision_rendered"]["alpha"]
        /\ "__intent__" \notin STAGE_MAP["decision_rendered"]["alpha"]
    BY <2>1
  <2> QED BY <2>1, <2>2, <2>3, PlacedAt
<1>11. StagePos("amount_quoted", "alpha") = 15
  <2>1. STAGE_MAP["amount_quoted"]["alpha"] = {"compensation_amount_quoted_provisional"}
    BY DEF STAGE_MAP
  <2>2. STAGE_POS["alpha"]["compensation_amount_quoted_provisional"] = 15
    BY DEF STAGE_POS
  <2>3. /\ "compensation_amount_quoted_provisional" \in STAGE_MAP["amount_quoted"]["alpha"]
        /\ "__intent__" \notin STAGE_MAP["amount_quoted"]["alpha"]
    BY <2>1
  <2> QED BY <2>1, <2>2, <2>3, PlacedAt
<1>12. StagePos("claim_submitted", "alpha") = 50
  <2>1. STAGE_MAP["claim_submitted"]["alpha"] = {"claim_submitted"}
    BY DEF STAGE_MAP
  <2>2. STAGE_POS["alpha"]["claim_submitted"] = 50
    BY DEF STAGE_POS
  <2>3. /\ "claim_submitted" \in STAGE_MAP["claim_submitted"]["alpha"]
        /\ "__intent__" \notin STAGE_MAP["claim_submitted"]["alpha"]
    BY <2>1
  <2> QED BY <2>1, <2>2, <2>3, PlacedAt
<1>13. StagePos("case_reference_issued", "alpha") = 52
  <2>1. STAGE_MAP["case_reference_issued"]["alpha"] = {"case_reference_issued"}
    BY DEF STAGE_MAP
  <2>2. STAGE_POS["alpha"]["case_reference_issued"] = 52
    BY DEF STAGE_POS
  <2>3. /\ "case_reference_issued" \in STAGE_MAP["case_reference_issued"]["alpha"]
        /\ "__intent__" \notin STAGE_MAP["case_reference_issued"]["alpha"]
    BY <2>1
  <2> QED BY <2>1, <2>2, <2>3, PlacedAt
<1>14. StagePos("payment_method", "alpha") = 48
  <2>1. STAGE_MAP["payment_method"]["alpha"] = {"payment_method_collection"}
    BY DEF STAGE_MAP
  <2>2. STAGE_POS["alpha"]["payment_method_collection"] = 48
    BY DEF STAGE_POS
  <2>3. /\ "payment_method_collection" \in STAGE_MAP["payment_method"]["alpha"]
        /\ "__intent__" \notin STAGE_MAP["payment_method"]["alpha"]
    BY <2>1
  <2> QED BY <2>1, <2>2, <2>3, PlacedAt
<1> QED BY <1>1, <1>2, <1>3, <1>4, <1>5, <1>6, <1>7, <1>8, <1>9, <1>10, <1>11, <1>12, <1>13, <1>14 DEF Due, AlphaPlaces, BravoPlaces

\* The places of bravo's stages.
LEMMA BravoPlaced == \A stage \in Due : StagePos(stage, "bravo") = BravoPlaces[stage]
<1>1. StagePos("greeting", "bravo") = 2
  <2>1. STAGE_MAP["greeting"]["bravo"] = {"greeting"}
    BY DEF STAGE_MAP
  <2>2. STAGE_POS["bravo"]["greeting"] = 2
    BY DEF STAGE_POS
  <2>3. /\ "greeting" \in STAGE_MAP["greeting"]["bravo"]
        /\ "__intent__" \notin STAGE_MAP["greeting"]["bravo"]
    BY <2>1
  <2> QED BY <2>1, <2>2, <2>3, PlacedAt
<1>2. StagePos("intent_stated", "bravo") = 4
  <2>1. STAGE_MAP["intent_stated"]["bravo"] = {"customer_intent"}
    BY DEF STAGE_MAP
  <2>2. STAGE_POS["bravo"]["customer_intent"] = 4
    BY DEF STAGE_POS
  <2>3. /\ "customer_intent" \in STAGE_MAP["intent_stated"]["bravo"]
        /\ "__intent__" \notin STAGE_MAP["intent_stated"]["bravo"]
    BY <2>1
  <2> QED BY <2>1, <2>2, <2>3, PlacedAt
<1>3. StagePos("decision_disclosure", "bravo") = 10
  <2>1. STAGE_MAP["decision_disclosure"]["bravo"] = {"automated_decision_banner"}
    BY DEF STAGE_MAP
  <2>2. STAGE_POS["bravo"]["automated_decision_banner"] = 10
    BY DEF STAGE_POS
  <2>3. /\ "automated_decision_banner" \in STAGE_MAP["decision_disclosure"]["bravo"]
        /\ "__intent__" \notin STAGE_MAP["decision_disclosure"]["bravo"]
    BY <2>1
  <2> QED BY <2>1, <2>2, <2>3, PlacedAt
<1>4. StagePos("identity_collection", "bravo") = 14
  <2>1. STAGE_MAP["identity_collection"]["bravo"] = {"full_name_collection", "booking_reference_collection"}
    BY DEF STAGE_MAP
  <2>2. /\ STAGE_POS["bravo"]["full_name_collection"] = 14
        /\ STAGE_POS["bravo"]["booking_reference_collection"] = 16
    BY DEF STAGE_POS
  <2>3. /\ "full_name_collection" \in STAGE_MAP["identity_collection"]["bravo"]
        /\ "__intent__" \notin STAGE_MAP["identity_collection"]["bravo"]
    BY <2>1
  <2> QED BY <2>1, <2>2, <2>3, PlacedAt
<1>5. StagePos("identity_provided", "bravo") = 18
  <2>1. STAGE_MAP["identity_provided"]["bravo"] = {"identity_confirmation_summary"}
    BY DEF STAGE_MAP
  <2>2. STAGE_POS["bravo"]["identity_confirmation_summary"] = 18
    BY DEF STAGE_POS
  <2>3. /\ "identity_confirmation_summary" \in STAGE_MAP["identity_provided"]["bravo"]
        /\ "__intent__" \notin STAGE_MAP["identity_provided"]["bravo"]
    BY <2>1
  <2> QED BY <2>1, <2>2, <2>3, PlacedAt
<1>6. StagePos("otp_channel_selection", "bravo") = 20
  <2>1. STAGE_MAP["otp_channel_selection"]["bravo"] = {"otp_channel_selection"}
    BY DEF STAGE_MAP
  <2>2. STAGE_POS["bravo"]["otp_channel_selection"] = 20
    BY DEF STAGE_POS
  <2>3. /\ "otp_channel_selection" \in STAGE_MAP["otp_channel_selection"]["bravo"]
        /\ "__intent__" \notin STAGE_MAP["otp_channel_selection"]["bravo"]
    BY <2>1
  <2> QED BY <2>1, <2>2, <2>3, PlacedAt
<1>7. StagePos("otp_entered", "bravo") = 24
  <2>1. STAGE_MAP["otp_entered"]["bravo"] = {"otp_code_entry"}
    BY DEF STAGE_MAP
  <2>2. STAGE_POS["bravo"]["otp_code_entry"] = 24
    BY DEF STAGE_POS
  <2>3. /\ "otp_code_entry" \in STAGE_MAP["otp_entered"]["bravo"]
        /\ "__intent__" \notin STAGE_MAP["otp_entered"]["bravo"]
    BY <2>1
  <2> QED BY <2>1, <2>2, <2>3, PlacedAt
<1>8. StagePos("identity_verified", "bravo") = 26
  <2>1. STAGE_MAP["identity_verified"]["bravo"] = {"identity_verified"}
    BY DEF STAGE_MAP
  <2>2. STAGE_POS["bravo"]["identity_verified"] = 26
    BY DEF STAGE_POS
  <2>3. /\ "identity_verified" \in STAGE_MAP["identity_verified"]["bravo"]
        /\ "__intent__" \notin STAGE_MAP["identity_verified"]["bravo"]
    BY <2>1
  <2> QED BY <2>1, <2>2, <2>3, PlacedAt
<1>9. StagePos("booking_retrieved", "bravo") = 28
  <2>1. STAGE_MAP["booking_retrieved"]["bravo"] = {"booking_retrieved_trip_confirmation"}
    BY DEF STAGE_MAP
  <2>2. STAGE_POS["bravo"]["booking_retrieved_trip_confirmation"] = 28
    BY DEF STAGE_POS
  <2>3. /\ "booking_retrieved_trip_confirmation" \in STAGE_MAP["booking_retrieved"]["bravo"]
        /\ "__intent__" \notin STAGE_MAP["booking_retrieved"]["bravo"]
    BY <2>1
  <2> QED BY <2>1, <2>2, <2>3, PlacedAt
<1>10. StagePos("decision_rendered", "bravo") = 32
  <2>1. STAGE_MAP["decision_rendered"]["bravo"] =
          {"eligibility_eligible", "eligibility_not_eligible", "eligibility_no_determination", "adverse_decision_extra"}
    BY DEF STAGE_MAP
  <2>2. /\ STAGE_POS["bravo"]["eligibility_eligible"] = 32
        /\ STAGE_POS["bravo"]["eligibility_not_eligible"] = 32
        /\ STAGE_POS["bravo"]["eligibility_no_determination"] = 36
        /\ STAGE_POS["bravo"]["adverse_decision_extra"] = 32
    BY DEF STAGE_POS
  <2>3. /\ "eligibility_eligible" \in STAGE_MAP["decision_rendered"]["bravo"]
        /\ "__intent__" \notin STAGE_MAP["decision_rendered"]["bravo"]
    BY <2>1
  <2> QED BY <2>1, <2>2, <2>3, PlacedAt
<1>11. StagePos("amount_quoted", "bravo") = 38
  <2>1. STAGE_MAP["amount_quoted"]["bravo"] = {"compensation_amount_quoted"}
    BY DEF STAGE_MAP
  <2>2. STAGE_POS["bravo"]["compensation_amount_quoted"] = 38
    BY DEF STAGE_POS
  <2>3. /\ "compensation_amount_quoted" \in STAGE_MAP["amount_quoted"]["bravo"]
        /\ "__intent__" \notin STAGE_MAP["amount_quoted"]["bravo"]
    BY <2>1
  <2> QED BY <2>1, <2>2, <2>3, PlacedAt
<1>12. StagePos("claim_submitted", "bravo") = 46
  <2>1. STAGE_MAP["claim_submitted"]["bravo"] =
          {"claim_review_summary", "claim_submission_consent", "claim_submitted_confirmation"}
    BY DEF STAGE_MAP
  <2>2. /\ STAGE_POS["bravo"]["claim_review_summary"] = 46
        /\ STAGE_POS["bravo"]["claim_submission_consent"] = 48
        /\ STAGE_POS["bravo"]["claim_submitted_confirmation"] = 48
    BY DEF STAGE_POS
  <2>3. /\ "claim_review_summary" \in STAGE_MAP["claim_submitted"]["bravo"]
        /\ "__intent__" \notin STAGE_MAP["claim_submitted"]["bravo"]
    BY <2>1
  <2> QED BY <2>1, <2>2, <2>3, PlacedAt
<1>13. StagePos("case_reference_issued", "bravo") = 50
  <2>1. STAGE_MAP["case_reference_issued"]["bravo"] = {"case_reference_issued"}
    BY DEF STAGE_MAP
  <2>2. STAGE_POS["bravo"]["case_reference_issued"] = 50
    BY DEF STAGE_POS
  <2>3. /\ "case_reference_issued" \in STAGE_MAP["case_reference_issued"]["bravo"]
        /\ "__intent__" \notin STAGE_MAP["case_reference_issued"]["bravo"]
    BY <2>1
  <2> QED BY <2>1, <2>2, <2>3, PlacedAt
<1>14. StagePos("payment_method", "bravo") = 40
  <2>1. STAGE_MAP["payment_method"]["bravo"] = {"payment_method_disclosure", "payment_email_confirmation"}
    BY DEF STAGE_MAP
  <2>2. /\ STAGE_POS["bravo"]["payment_method_disclosure"] = 40
        /\ STAGE_POS["bravo"]["payment_email_confirmation"] = 42
    BY DEF STAGE_POS
  <2>3. /\ "payment_method_disclosure" \in STAGE_MAP["payment_method"]["bravo"]
        /\ "__intent__" \notin STAGE_MAP["payment_method"]["bravo"]
    BY <2>1
  <2> QED BY <2>1, <2>2, <2>3, PlacedAt
<1> QED BY <1>1, <1>2, <1>3, <1>4, <1>5, <1>6, <1>7, <1>8, <1>9, <1>10, <1>11, <1>12, <1>13, <1>14 DEF Due, AlphaPlaces, BravoPlaces

\* The intent has no place.
LEMMA IntentPlaced == \A fmt \in Dialect : StagePos("intent_recognized", fmt) = NoPos
<1>1. STAGE_MAP["intent_recognized"]["alpha"] = {"__intent__"} /\ STAGE_MAP["intent_recognized"]["bravo"] = {"__intent__"}
  BY DEF STAGE_MAP
<1>2. \A fmt \in Dialect : STAGE_MAP["intent_recognized"][fmt] \ {"__intent__"} = {}
  BY <1>1 DEF Dialect
<1> QED BY <1>2 DEF StagePos

\* Every other stage has one, earlier than none; two have the same place only
\* in alpha, whose question how to verify also shows that the booking is found.
LEMMA DuePlaced ==
  ASSUME NEW fmt \in Dialect
  PROVE  /\ \A s \in Due : StagePos(s, fmt) \in Nat /\ StagePos(s, fmt) < NoPos
         /\ \A s, t \in Due : StagePos(s, fmt) = StagePos(t, fmt) =>
              \/ s = t
              \/ s = "otp_channel_selection" /\ t = "booking_retrieved" /\ fmt = "alpha"
              \/ t = "otp_channel_selection" /\ s = "booking_retrieved" /\ fmt = "alpha"
<1>1. CASE fmt = "alpha"
  <2>1. \A s \in Due : AlphaPlaces[s] \in Nat /\ AlphaPlaces[s] < 1998
    BY DEF Due, AlphaPlaces
  <2>2. \A s, t \in Due : AlphaPlaces[s] = AlphaPlaces[t] =>
              \/ s = t
              \/ s = "otp_channel_selection" /\ t = "booking_retrieved"
              \/ t = "otp_channel_selection" /\ s = "booking_retrieved"
    BY DEF Due, AlphaPlaces
  <2> QED BY <1>1, <2>1, <2>2, AlphaPlaced DEF NoPos
<1>2. CASE fmt = "bravo"
  <2>1. \A s \in Due : BravoPlaces[s] \in Nat /\ BravoPlaces[s] < 1998
    BY DEF Due, AlphaPlaces, BravoPlaces
  <2>2. \A s, t \in Due : BravoPlaces[s] = BravoPlaces[t] => s = t
    BY DEF Due, AlphaPlaces, BravoPlaces
  <2> QED BY <1>2, <2>1, <2>2, BravoPlaced DEF NoPos
<1> QED BY <1>1, <1>2 DEF Dialect

\* Where the elements of two sequences put together are.
LEMMA ConcatAt ==
  ASSUME NEW S, NEW T, NEW s \in Seq(S), NEW t \in Seq(T), NEW i \in 1 .. Len(s \o t)
  PROVE  /\ i \in 1 .. Len(s) => (s \o t)[i] = s[i]
         /\ i \notin 1 .. Len(s) => (s \o t)[i] \in T
<1>1. Len(s) \in Nat /\ Len(t) \in Nat /\ Len(s \o t) = Len(s) + Len(t)
  OBVIOUS
<1>2. (s \o t)[i] = IF i <= Len(s) THEN s[i] ELSE t[i - Len(s)]
  BY <1>1
<1>3. i \notin 1 .. Len(s) => ~(i <= Len(s)) /\ i - Len(s) \in 1 .. Len(t)
  BY <1>1
<1>4. \A k \in 1 .. Len(t) : t[k] \in T
  OBVIOUS
<1>5. i \in 1 .. Len(s) => i <= Len(s)
  BY <1>1
<1> QED BY <1>2, <1>3, <1>4, <1>5

\* The stages that come on top of the base.
Extras == {"amount_quoted", "claim_submitted", "case_reference_issued", "payment_method"}

\* Where in the list of the expected stages those are that a place does not
\* tell apart.
LEMMA ExpectedAt ==
  ASSUME NEW status, NEW family, NEW i \in 1 .. Len(expected_stages(status, family))
  PROVE  /\ i \in 1 .. 11 => expected_stages(status, family)[i] = TRAJECTORY_BASE[i]
         /\ i \notin 1 .. 11 => expected_stages(status, family)[i] \in Extras
<1> DEFINE A == TRAJECTORY_BASE
<1> DEFINE B == IF status = "ELIGIBLE" THEN TRAJECTORY_ELIGIBLE_EXTRA ELSE <<>>
<1> DEFINE C == IF family = "PAY" THEN TRAJECTORY_PAY_EXTRA ELSE <<>>
<1> DEFINE S == {TRAJECTORY_BASE[k] : k \in 1 .. 11}
<1>1. A \in Seq(S) /\ Len(A) = 11
  <2>1. A \in Seq(S)
    BY DEF TRAJECTORY_BASE
  <2>2. Len(A) = 11
    BY DEF TRAJECTORY_BASE
  <2> QED BY <2>1, <2>2
<1>2. B \in Seq(Extras) /\ C \in Seq(Extras)
  <2>1. "amount_quoted" \in Extras /\ "claim_submitted" \in Extras /\ "case_reference_issued" \in Extras /\ "payment_method" \in Extras
    BY DEF Extras
  <2>2. TRAJECTORY_ELIGIBLE_EXTRA \in Seq(Extras) /\ TRAJECTORY_PAY_EXTRA \in Seq(Extras)
    BY <2>1 DEF TRAJECTORY_ELIGIBLE_EXTRA, TRAJECTORY_PAY_EXTRA
  <2> QED BY <2>2
<1>3. expected_stages(status, family) = A \o B \o C
  BY DEF expected_stages
<1> HIDE DEF A, B, C, S
<1> DEFINE D == B \o C
<1>4. D \in Seq(Extras)
  BY <1>2
<1>5. A \o B \o C = A \o D
  BY <1>1, <1>2
<1> HIDE DEF D
<1>6. /\ i \in 1 .. Len(A) => (A \o D)[i] = A[i]
      /\ i \notin 1 .. Len(A) => (A \o D)[i] \in Extras
  <2>1. i \in 1 .. Len(A \o D)
    BY <1>3, <1>5
  <2> QED BY <1>1, <1>4, <2>1, ConcatAt
<1> QED BY <1>1, <1>3, <1>5, <1>6 DEF A

\* So each is a stage with a place or the intent, which is third.
LEMMA ExpectedAre ==
  ASSUME NEW status, NEW family, NEW i \in 1 .. Len(expected_stages(status, family))
  PROVE  /\ expected_stages(status, family)[i] \in Due \cup {"intent_recognized"}
         /\ expected_stages(status, family)[i] = "intent_recognized" <=> i = 3
         /\ expected_stages(status, family)[i] = "otp_channel_selection" => i = 7
         /\ expected_stages(status, family)[i] = "booking_retrieved" => i = 10
<1>1. \A k \in 1 .. 11 :
         /\ TRAJECTORY_BASE[k] \in Due \cup {"intent_recognized"}
         /\ TRAJECTORY_BASE[k] = "intent_recognized" <=> k = 3
         /\ TRAJECTORY_BASE[k] = "otp_channel_selection" => k = 7
         /\ TRAJECTORY_BASE[k] = "booking_retrieved" => k = 10
  BY DEF TRAJECTORY_BASE, Due, AlphaPlaces
<1>2. \A s \in Extras : s \in Due /\ s # "intent_recognized" /\ s # "otp_channel_selection" /\ s # "booking_retrieved"
  BY DEF Extras, Due, AlphaPlaces
<1>3. CASE i \in 1 .. 11
  BY <1>1, <1>3, ExpectedAt
<1>4. CASE i \notin 1 .. 11
  BY <1>2, <1>4, ExpectedAt
<1> QED BY <1>3, <1>4

-----------------------------------------------------------------------------
(* How long the longest increasing order is.                                *)

\* How many values a sequence takes up to i.
Values(seq, i) == {seq[j] : j \in 1 .. i}
CountUpTo(seq, i) == Cardinality(Values(seq, i))

\* They are finitely many.
LEMMA ValuesFinite ==
  ASSUME NEW n \in Nat, NEW seq, DOMAIN seq = 1 .. n, NEW i \in 0 .. n
  PROVE  IsFiniteSet(Values(seq, i)) /\ CountUpTo(seq, i) \in Nat
<1> DEFINE D == 1 .. i
<1> DEFINE f == [j \in D |-> seq[j]]
<1> DEFINE T == Values(seq, i)
<1>1. IsFiniteSet(D)
  BY FS_Interval
<1>2. DOMAIN f = D /\ T = {f[j] : j \in D} /\ f \in [D -> T]
  BY DEF Values
<1> HIDE DEF D, f, T
<1>3. IsFiniteSet(T)
  BY <1>1, <1>2, ImageFinite
<1> QED BY <1>3, FS_CardinalityType DEF T, CountUpTo

\* A sequence that never falls up to m - 1, and not rises at m.
Flows(seq, m) ==
  /\ DOMAIN seq = 1 .. m /\ \A i \in 1 .. m : seq[i] \in Nat
  /\ \A i, j \in 1 .. (m - 1) : i < j => seq[i] <= seq[j]
  /\ seq[m] <= seq[m - 1]

\* They grow with the sequence.
LEMMA CountGrows ==
  ASSUME NEW m \in Nat \ {0, 1}, NEW seq, Flows(seq, m), NEW i \in 1 .. (m - 1), NEW j \in 1 .. (m - 1)
  PROVE  /\ i <= j => CountUpTo(seq, i) <= CountUpTo(seq, j)
         /\ seq[i] < seq[j] => CountUpTo(seq, i) < CountUpTo(seq, j)
<1> DEFINE A == Values(seq, i)
<1> DEFINE B == Values(seq, j)
<1>0. /\ i \in 0 .. m /\ j \in 0 .. m /\ m \in Nat /\ DOMAIN seq = 1 .. m
      /\ \A a \in 1 .. m : seq[a] \in Nat
      /\ \A a, b \in 1 .. (m - 1) : a < b => seq[a] <= seq[b]
  BY DEF Flows
<1>1. IsFiniteSet(B) /\ CountUpTo(seq, i) = Cardinality(A) /\ CountUpTo(seq, j) = Cardinality(B)
  BY <1>0, ValuesFinite DEF CountUpTo
<1>2. i <= j => A \subseteq B
  BY <1>0 DEF Values
<1>3. i <= j => Cardinality(A) <= Cardinality(B)
  BY <1>1, <1>2, FS_Subset
<1>4. ASSUME seq[i] < seq[j] PROVE Cardinality(A) < Cardinality(B)
  <2>1. i < j
    <3>1. ASSUME ~(i < j) PROVE FALSE
      <4>1. i = j \/ j < i
        BY <1>0, <3>1
      <4>2. seq[j] <= seq[i] /\ seq[i] \in Nat /\ seq[j] \in Nat
        BY <1>0, <4>1
      <4> QED BY <1>4, <4>2
    <3> QED BY <3>1
  <2>2. A \in SUBSET B
    BY <1>0, <1>2, <2>1
  <2>3. seq[j] \in B
    BY <1>0 DEF Values
  <2>4. seq[j] \notin A
    <3>1. ASSUME NEW a \in 1 .. i, seq[a] = seq[j] PROVE FALSE
      <4>1. a \in 1 .. (m - 1) /\ a \in 1 .. m /\ i \in 1 .. m /\ j \in 1 .. m /\ (a = i \/ a < i)
        BY <1>0
      <4>2. seq[a] <= seq[i] /\ seq[a] \in Nat /\ seq[i] \in Nat /\ seq[j] \in Nat
        BY <1>0, <4>1
      <4> QED BY <1>4, <3>1, <4>2
    <3> QED BY <3>1 DEF Values
  <2> HIDE DEF A, B
  <2> QED BY <1>1, <2>2, <2>3, <2>4, MoreElements
<1> QED BY <1>1, <1>3, <1>4

\* What the values before k that are below the k-th make of it.
Below(seq, best, k) == {0} \cup {best[j] : j \in {i \in DOMAIN best : seq[i] < seq[k]}}

\* One step of the fold counts the values up to its index.
LEMMA CountStep ==
  ASSUME NEW m \in Nat \ {0, 1}, NEW seq, Flows(seq, m), NEW k \in 1 .. (m - 1), NEW best,
         DOMAIN best = 1 .. (k - 1), \A i \in 1 .. (k - 1) : best[i] = CountUpTo(seq, i)
  PROVE  1 + Max(Below(seq, best, k)) = CountUpTo(seq, k)
<1> DEFINE c(i) == CountUpTo(seq, i)
<1> DEFINE T == Below(seq, best, k)
<1> DEFINE L == {i \in 1 .. (k - 1) : seq[i] < seq[k]}
<1>0. /\ m \in Nat /\ DOMAIN seq = 1 .. m
      /\ \A a \in 1 .. m : seq[a] \in Nat
      /\ \A a, b \in 1 .. (m - 1) : a < b => seq[a] <= seq[b]
  BY DEF Flows
<1>1. \A i \in 0 .. m : IsFiniteSet(Values(seq, i)) /\ c(i) = Cardinality(Values(seq, i)) /\ c(i) \in Nat
  BY <1>0, ValuesFinite DEF CountUpTo
<1>2. k \in 1 .. m /\ k \in 0 .. m /\ \A i \in 1 .. (k - 1) : i \in 1 .. (m - 1) /\ i \in 1 .. m /\ i \in 0 .. m /\ i < k
  BY <1>0
<1>3. \A i, j \in 1 .. (m - 1) : /\ i <= j => c(i) <= c(j)
                               /\ seq[i] < seq[j] => c(i) < c(j)
  BY CountGrows
<1>4. T = {0} \cup {c(i) : i \in L}
  BY DEF Below
<1>5. CASE L = {}
  <2>1. \A i \in 1 .. (k - 1) : seq[i] = seq[k]
    <3> SUFFICES ASSUME NEW i \in 1 .. (k - 1) PROVE seq[i] = seq[k]
      OBVIOUS
    <3>1. seq[i] <= seq[k] /\ ~(seq[i] < seq[k]) /\ seq[i] \in Nat /\ seq[k] \in Nat
      BY <1>0, <1>2, <1>5
    <3> QED BY <3>1
  <2>2. Values(seq, k) = {} \cup {seq[k]}
    <3>1. \A i \in 1 .. k : i = k \/ i \in 1 .. (k - 1)
      BY <1>0
    <3>2. k \in 1 .. k
      BY <1>0
    <3> QED BY <2>1, <3>1, <3>2 DEF Values
  <2>3. Cardinality(Values(seq, k)) = 1
    <3>1. IsFiniteSet({}) /\ Cardinality({}) = 0 /\ seq[k] \notin {}
      BY FS_EmptySet
    <3>2. Cardinality({} \cup {seq[k]}) = Cardinality({}) + 1
      BY <3>1, FS_AddElement
    <3> QED BY <2>2, <3>1, <3>2
  <2>4. T = {0}
    BY <1>4, <1>5
  <2> HIDE DEF T
  <2>5. T \in SUBSET (0 .. 0) /\ 0 \in T /\ \A y \in T : y <= 0
    BY <2>4
  <2>6. Max(T) = 0
    BY <2>5, MaxUnique
  <2> QED BY <1>1, <1>2, <2>3, <2>6 DEF T
<1>6. CASE L # {}
  <2> DEFINE M == {k - i : i \in L}
  <2>1. M \in SUBSET Nat /\ M # {}
    BY <1>2, <1>6
  <2>2. PICK d \in M : \A y \in M : d <= y
    <3> HIDE DEF M
    <3> QED BY <2>1, LeastOf
  <2>3. PICK i \in L : d = k - i
    OBVIOUS
  <2>4. \A a \in L : a <= i
    <3> SUFFICES ASSUME NEW a \in L PROVE a <= i
      OBVIOUS
    <3>1. k - i <= k - a
      BY <2>2, <2>3
    <3> QED BY <3>1
  <2>5. i \in 1 .. (k - 1) /\ seq[i] < seq[k]
    OBVIOUS
  <2>6. \A a \in 1 .. (k - 1) : a <= i \/ seq[a] = seq[k]
    <3> SUFFICES ASSUME NEW a \in 1 .. (k - 1), ~(a <= i) PROVE seq[a] = seq[k]
      OBVIOUS
    <3>1. a \notin L
      BY <2>4
    <3>2. seq[a] <= seq[k] /\ ~(seq[a] < seq[k]) /\ seq[a] \in Nat /\ seq[k] \in Nat
      BY <1>0, <1>2, <3>1
    <3> QED BY <3>2
  <2> HIDE DEF L, M
  <2>7. Values(seq, k) = Values(seq, i) \cup {seq[k]}
    <3>1. ASSUME NEW a \in 1 .. k PROVE seq[a] \in Values(seq, i) \cup {seq[k]}
      <4>1. CASE a = k
        BY <4>1
      <4>2. CASE a # k
        <5>1. a \in 1 .. (k - 1)
          BY <1>0, <4>2
        <5>2. a <= i => a \in 1 .. i
          BY <2>5
        <5> QED BY <2>6, <5>1, <5>2 DEF Values
      <4> QED BY <4>1, <4>2
    <3>2. \A a \in 1 .. i : a \in 1 .. k
      BY <2>5
    <3>3. k \in 1 .. k
      BY <1>0
    <3> QED BY <3>1, <3>2, <3>3 DEF Values
  <2>8. seq[k] \notin Values(seq, i)
    <3>1. ASSUME NEW a \in 1 .. i, seq[a] = seq[k] PROVE FALSE
      <4>1. a \in 1 .. (m - 1) /\ i \in 1 .. (m - 1) /\ a \in 1 .. m /\ i \in 1 .. m /\ (a = i \/ a < i)
        BY <1>2, <2>5
      <4>2. seq[a] <= seq[i] /\ seq[a] \in Nat /\ seq[i] \in Nat /\ seq[k] \in Nat
        BY <1>0, <1>2, <4>1
      <4> QED BY <2>5, <3>1, <4>2
    <3> QED BY <3>1 DEF Values
  <2>9. c(k) = c(i) + 1
    <3>1. i \in 0 .. m
      BY <1>2, <2>5
    <3>2. IsFiniteSet(Values(seq, i)) /\ c(i) = Cardinality(Values(seq, i)) /\ c(k) = Cardinality(Values(seq, k))
      BY <1>1, <1>2, <3>1
    <3> HIDE DEF c
    <3>3. Cardinality(Values(seq, i) \cup {seq[k]}) = Cardinality(Values(seq, i)) + 1
      BY <2>8, <3>2, FS_AddElement
    <3> QED BY <2>7, <3>2, <3>3
  <2>10. \A a \in L : c(a) \in Nat /\ c(a) <= c(i)
    <3> SUFFICES ASSUME NEW a \in L PROVE c(a) \in Nat /\ c(a) <= c(i)
      OBVIOUS
    <3>1. a \in 1 .. (m - 1) /\ i \in 1 .. (m - 1) /\ a <= i /\ a \in 0 .. m
      BY <1>2, <2>4, <2>5 DEF L
    <3>2. c(a) \in Nat
      BY <1>1, <3>1
    <3>3. c(a) <= c(i)
      BY <3>1, CountGrows
    <3> QED BY <3>2, <3>3
  <2>11. c(i) \in Nat
    BY <2>10
  <2> HIDE DEF c, T
  <2>12. T \in SUBSET (0 .. c(i)) /\ c(i) \in T /\ \A y \in T : y <= c(i)
    BY <1>4, <2>10, <2>11
  <2>13. Max(T) = c(i)
    BY <2>11, <2>12, MaxUnique
  <2> QED BY <2>9, <2>11, <2>13 DEF c, T
<1> QED BY <1>5, <1>6

\* _lis_length (trajectory.py:37-46) of such a sequence counts its values.
LEMMA LisOfFlow ==
  ASSUME NEW m \in Nat \ {0, 1}, NEW seq, Flows(seq, m)
  PROVE  LisLength(seq) = CountUpTo(seq, m - 1)
<1> DEFINE best(k) == Table(seq)[1 .. k]
<1> DEFINE c(i) == CountUpTo(seq, i)
<1> DEFINE Good(k) == /\ best(k) \in Seq(Nat) /\ Len(best(k)) = k
                      /\ \A i \in 1 .. k : best(k)[i] = c(i)
<1> DEFINE Bad == {k \in 0 .. (m - 1) : ~Good(k)}
<1>0. m \in Nat /\ DOMAIN seq = 1 .. m
  BY DEF Flows
<1>1. \A i \in 0 .. m : c(i) \in Nat
  BY <1>0, ValuesFinite
<1>2. \A k \in 1 .. m : best(k) = Append(best(k - 1), 1 + Max(Below(seq, best(k - 1), k)))
  <2> SUFFICES ASSUME NEW k \in 1 .. m
               PROVE  best(k) = Append(best(k - 1), 1 + Max(Below(seq, best(k - 1), k)))
    OBVIOUS
  <2> DEFINE b == best(k - 1)
  <2>1. best(k) = Longest(seq, b, seq[k])
    BY <1>0, TableStep
  <2> HIDE DEF b
  <2> QED BY <2>1 DEF Longest, Below, b
<1> HIDE DEF c
<1>3. \A k \in 0 .. (m - 1) : Good(k)
  <2>1. SUFFICES ASSUME Bad # {} PROVE FALSE
    <3> HIDE DEF Good
    <3> QED OBVIOUS
  <2>2. PICK k \in Bad : \A y \in Bad : k <= y
    <3> HIDE DEF Good
    <3>1. Bad \in SUBSET Nat
      OBVIOUS
    <3> HIDE DEF Bad
    <3> QED BY <2>1, <3>1, LeastOf
  <2>3. k # 0
    <3>1. 1 .. 0 = {}
      OBVIOUS
    <3>2. best(0) = <<>>
      BY <1>0, <3>1, TableIs
    <3>3. Good(0)
      BY <3>1, <3>2
    <3> QED BY <3>3
  <2>4. k \in 1 .. (m - 1) /\ k \in 1 .. m /\ k \in 0 .. m /\ k - 1 \in 0 .. (m - 1) /\ Good(k - 1)
    <3> HIDE DEF Good
    <3>1. k \in 0 .. (m - 1) /\ k \in 1 .. (m - 1) /\ k - 1 \in 0 .. (m - 1) /\ ~(k <= k - 1)
      BY <1>0, <2>2, <2>3
    <3>2. k \in 1 .. m /\ k \in 0 .. m
      BY <1>0, <3>1
    <3> QED BY <2>2, <3>1, <3>2
  <2> DEFINE b == best(k - 1)
  <2>5. b \in Seq(Nat) /\ Len(b) = k - 1 /\ DOMAIN b = 1 .. (k - 1) /\ \A i \in 1 .. (k - 1) : b[i] = c(i)
    <3>1. b \in Seq(Nat) /\ Len(b) = k - 1 /\ \A i \in 1 .. (k - 1) : b[i] = c(i)
      BY <2>4
    <3> HIDE DEF b
    <3> QED BY <3>1
  <2>6. best(k) = Append(b, 1 + Max(Below(seq, b, k)))
    BY <1>2, <2>4
  <2> HIDE DEF b
  <2>7. 1 + Max(Below(seq, b, k)) = c(k)
    BY <2>4, <2>5, CountStep DEF c
  <2>8. best(k) = Append(b, c(k)) /\ c(k) \in Nat
    BY <1>1, <2>4, <2>6, <2>7
  <2> DEFINE d == best(k)
  <2>9. d = Append(b, c(k))
    BY <2>8
  <2> HIDE DEF d
  <2>10. d \in Seq(Nat) /\ Len(d) = k
    BY <2>4, <2>5, <2>8, <2>9
  <2>11. ASSUME NEW i \in 1 .. k PROVE d[i] = c(i)
    <3>1. CASE i = k
      <4>1. d[Len(b) + 1] = c(k)
        BY <2>5, <2>8, <2>9
      <4>2. Len(b) + 1 = k
        BY <2>4, <2>5
      <4> QED BY <3>1, <4>1, <4>2
    <3>2. CASE i # k
      <4>1. i \in 1 .. (k - 1)
        BY <2>4, <3>2
      <4>2. d[i] = b[i]
        BY <2>5, <2>8, <2>9, <4>1
      <4> QED BY <2>5, <4>1, <4>2
    <3> QED BY <3>1, <3>2
  <2>12. Good(k)
    BY <2>10, <2>11 DEF d
  <2> QED BY <2>2, <2>12
<1> DEFINE b == best(m - 1)
<1> DEFINE v == 1 + Max(Below(seq, b, m))
<1> DEFINE w == c(m - 1)
<1>4. b \in Seq(Nat) /\ Len(b) = m - 1 /\ \A i \in 1 .. (m - 1) : b[i] = c(i)
  <2>1. m - 1 \in 0 .. (m - 1)
    BY <1>0
  <2> QED BY <1>3, <2>1
<1>5. best(m) = Append(b, v)
  BY <1>0, <1>2
<1>6. w \in Nat /\ \A i \in 1 .. (m - 1) : c(i) \in Nat /\ c(i) <= w
  <2>1. m - 1 \in 1 .. (m - 1) /\ m - 1 \in 0 .. m
    BY <1>0
  <2>2. \A i \in 1 .. (m - 1) : i <= m - 1 /\ i \in 0 .. m
    BY <1>0
  <2>3. \A i \in 1 .. (m - 1) : c(i) <= w
    BY <2>1, <2>2, CountGrows DEF c
  <2> QED BY <1>1, <2>1, <2>2, <2>3
<1>7. \A i \in 1 .. (m - 1) : seq[i] < seq[m] => c(i) < w
  <2> SUFFICES ASSUME NEW i \in 1 .. (m - 1), seq[i] < seq[m] PROVE c(i) < w
    OBVIOUS
  <2>1. m - 1 \in 1 .. (m - 1) /\ m - 1 \in 1 .. m /\ i \in 1 .. m /\ m \in 1 .. m
    BY <1>0
  <2>2. seq[i] < seq[m - 1]
    <3>1. seq[i] \in Nat /\ seq[m] \in Nat /\ seq[m - 1] \in Nat /\ seq[m] <= seq[m - 1]
      BY <2>1 DEF Flows
    <3> QED BY <3>1
  <2> QED BY <2>1, <2>2, CountGrows DEF c
<1>8. w >= 1
  <2> DEFINE l == m - 1
  <2> DEFINE V == Values(seq, l)
  <2>1. l \in 0 .. m /\ l \in 1 .. l
    BY <1>0
  <2> HIDE DEF l
  <2>2. IsFiniteSet(V) /\ CountUpTo(seq, l) = Cardinality(V) /\ seq[l] \in V
    BY <1>0, <2>1, ValuesFinite DEF Values, CountUpTo
  <2> HIDE DEF V
  <2>3. Cardinality(V) \in Nat /\ Cardinality(V) # 0
    BY <2>2, FS_CardinalityType, FS_EmptySet
  <2>4. w = Cardinality(V)
    BY <2>2 DEF c, l
  <2> HIDE DEF w
  <2> QED BY <2>3, <2>4
<1> HIDE DEF w, best
<1>9. DOMAIN b = 1 .. (m - 1)
  <2> HIDE DEF b
  <2> QED BY <1>4
<1> HIDE DEF b
<1>10. v \in 1 .. w
  <2> DEFINE T == Below(seq, b, m)
  <2>1. T = {0} \cup {c(j) : j \in {i \in 1 .. (m - 1) : seq[i] < seq[m]}}
    BY <1>4, <1>9 DEF Below
  <2>2. \A j \in {i \in 1 .. (m - 1) : seq[i] < seq[m]} : c(j) \in 0 .. (w - 1)
    <3> SUFFICES ASSUME NEW j \in 1 .. (m - 1), seq[j] < seq[m] PROVE c(j) \in 0 .. (w - 1)
      OBVIOUS
    <3>1. c(j) \in Nat /\ w \in Nat /\ c(j) < w
      BY <1>6, <1>7
    <3> QED BY <3>1
  <2>3. w - 1 \in Nat /\ 0 \in 0 .. (w - 1)
    BY <1>6, <1>8
  <2> HIDE DEF T
  <2> DEFINE u == w - 1
  <2>4. u \in Nat /\ T \in SUBSET (0 .. u) /\ T # {}
    BY <2>1, <2>2, <2>3
  <2> HIDE DEF u
  <2>5. Max(T) \in 0 .. u
    BY <2>4, MaxIn
  <2> DEFINE x == Max(T)
  <2>6. x \in 0 .. (w - 1) /\ v = 1 + x
    BY <2>5 DEF u, T
  <2> HIDE DEF x, v
  <2> QED BY <1>6, <2>6
<1> HIDE DEF v
<1> DEFINE d == Append(b, v)
<1>11. v \in Nat
  BY <1>6, <1>10
<1>12. DOMAIN d = 1 .. m /\ \A i \in 1 .. m : d[i] = IF i = m THEN v ELSE c(i)
  <2>1. DOMAIN d = 1 .. (Len(b) + 1) /\ d[Len(b) + 1] = v /\ \A i \in 1 .. Len(b) : d[i] = b[i]
    BY <1>4, <1>11
  <2>2. Len(b) + 1 = m /\ Len(b) = m - 1
    BY <1>0, <1>4
  <2> HIDE DEF d
  <2>3. \A i \in 1 .. m : i = m \/ i \in 1 .. (m - 1)
    BY <1>0
  <2> QED BY <1>4, <2>1, <2>2, <2>3
<1> DEFINE T == {0} \cup {d[i] : i \in DOMAIN d}
<1>13. LisLength(seq) = Max(T)
  <2>1. LisLength(seq) = Max({0} \cup {Table(seq)[DOMAIN seq][i] : i \in DOMAIN Table(seq)[DOMAIN seq]})
    BY LisIs
  <2>2. Table(seq)[DOMAIN seq] = d
    BY <1>0, <1>5 DEF best
  <2> HIDE DEF d
  <2> QED BY <2>1, <2>2
<1>14. T \in SUBSET (0 .. w) /\ w \in T
  <2> HIDE DEF d
  <2>1. ASSUME NEW i \in 1 .. m PROVE d[i] \in 0 .. w
    <3>1. CASE i = m
      BY <1>6, <1>10, <1>12, <3>1
    <3>2. CASE i # m
      <4>1. i \in 1 .. (m - 1)
        BY <1>0, <3>2
      <4>2. d[i] = c(i) /\ c(i) \in Nat /\ c(i) <= w /\ w \in Nat
        BY <1>6, <1>12, <3>2, <4>1
      <4> QED BY <4>2
    <3> QED BY <3>1, <3>2
  <2>2. 0 \in 0 .. w
    BY <1>6
  <2>3. m - 1 \in 1 .. m /\ m - 1 # m
    BY <1>0
  <2>4. d[m - 1] = w
    BY <1>12, <2>3 DEF w
  <2> QED BY <1>12, <2>1, <2>2, <2>3, <2>4
<1> HIDE DEF T
<1>15. Max(T) = w
  <2>1. \A y \in T : y <= w
    BY <1>6, <1>14
  <2> QED BY <1>6, <1>14, <2>1, MaxUnique
<1> QED BY <1>13, <1>15 DEF w, c

-----------------------------------------------------------------------------
(* The score of a conversation in order.                                    *)

\* A text goes on from itself, so its places are numbers.
LEMMA HitsAre ==
  ASSUME NEW n \in Nat, NEW text, Again(n, text, text), NEW fmt
  PROVE  /\ \A s \in DOMAIN StagesHit(text, fmt) : StagesHit(text, fmt)[s] \in Nat
         /\ (fmt = "alpha" /\ "otp_channel_selection" \in DOMAIN StagesHit(text, fmt)
               /\ "booking_retrieved" \in DOMAIN StagesHit(text, fmt))
              => StagesHit(text, fmt)["otp_channel_selection"] <= StagesHit(text, fmt)["booking_retrieved"]
<1> DEFINE P(s) == StagePlaces(text, s, fmt)
<1> DEFINE hit == StagesHit(text, fmt)
<1>1. \A s : P(s) \subseteq Nat
  <2> SUFFICES ASSUME NEW s, NEW p \in P(s) PROVE p \in Nat
    OBVIOUS
  <2>1. PICK key \in STAGE_MAP[s][fmt] : p \in PlacesOf(text, fmt, key)
    BY DEF StagePlaces, PlacesOf
  <2>2. CASE key = "__intent__"
    <3>1. p \in Places(text, IntentPhrases)
      BY <2>1, <2>2 DEF PlacesOf, IntentPlaces
    <3> QED BY <3>1, PlacesGoOn DEF GoesOn
  <2>3. CASE key # "__intent__"
    <3>1. p \in Matches(text, STAGE_RX[fmt][key])
      BY <2>1, <2>3 DEF PlacesOf
    <3> QED BY <3>1, MatchesGoOn DEF GoesOn
  <2> QED BY <2>2, <2>3
<1>2. hit = [s \in {t \in Stage : P(t) # {}} |-> Min(P(s))]
  BY DEF StagesHit
<1>3. fmt = "alpha" => P("booking_retrieved") \subseteq P("otp_channel_selection")
  <2>1. /\ STAGE_MAP["booking_retrieved"]["alpha"] = {"otp_channel_selection"}
        /\ "otp_channel_selection" \in STAGE_MAP["otp_channel_selection"]["alpha"]
    BY DEF STAGE_MAP
  <2> QED BY <2>1 DEF StagePlaces
<1> HIDE DEF P, hit
<1>4. \A s \in DOMAIN hit : P(s) \in SUBSET Nat /\ P(s) # {} /\ hit[s] = Min(P(s))
  BY <1>1, <1>2
<1>5. \A s \in DOMAIN hit : hit[s] \in P(s) /\ \A y \in P(s) : hit[s] <= y
  BY <1>4, MinIn
<1>6. \A s \in DOMAIN hit : hit[s] \in Nat
  BY <1>4, <1>5
<1>7. (fmt = "alpha" /\ "otp_channel_selection" \in DOMAIN hit /\ "booking_retrieved" \in DOMAIN hit)
        => hit["otp_channel_selection"] <= hit["booking_retrieved"]
  BY <1>3, <1>5
<1> QED BY <1>6, <1>7 DEF hit

\* The hits of the expected stages, in the designed order.
LEMMA HitExpectedIs ==
  ASSUME NEW hit, NEW e, NEW fmt, \A i \in DOMAIN e : e[i] \in DOMAIN hit
  PROVE  HitExpected(hit, e, fmt) =
           [k \in 1 .. Cardinality(DOMAIN e) |-> hit[e[Nth(e, fmt, DOMAIN e, k)]]]
<1> DEFINE G == {i \in DOMAIN e : e[i] \in DOMAIN hit}
<1>1. HitExpected(hit, e, fmt) = [k \in 1 .. Cardinality(G) |-> hit[e[Nth(e, fmt, G, k)]]]
  BY DEF HitExpected, Nth, Before
<1>2. G = DOMAIN e
  OBVIOUS
<1> HIDE DEF G
<1> QED BY <1>1, <1>2

\* The expected stages that have a place.
DesignedOf(e, fmt) == {s \in {e[i] : i \in DOMAIN e} : StagePos(s, fmt) # NoPos}

\* What is known of a conversation that reaches every expected stage in order.
Ordered(hit, e, fmt) ==
  /\ \A i \in DOMAIN e : e[i] \in DOMAIN hit
  /\ \A s \in DOMAIN hit : hit[s] \in Nat
  /\ (fmt = "alpha" /\ "otp_channel_selection" \in DOMAIN hit /\ "booking_retrieved" \in DOMAIN hit)
       => hit["otp_channel_selection"] <= hit["booking_retrieved"]
  /\ \A s, t \in DesignedOf(e, fmt) : StagePos(s, fmt) < StagePos(t, fmt) => hit[s] <= hit[t]
  /\ \E s \in DesignedOf(e, fmt) : hit["intent_recognized"] <= hit[s]

\* Its places in the designed order, intent last, make as long an increasing
\* sequence as there are different ones.
LEMMA FlowCount ==
  ASSUME NEW status, NEW family, NEW fmt \in Dialect, NEW hit,
         NEW e, e = expected_stages(status, family), Ordered(hit, e, fmt)
  PROVE  LisLength(HitExpected(hit, e, fmt)) = Cardinality({hit[s] : s \in DesignedOf(e, fmt)})
<1> DEFINE n == Len(e)
<1> DEFINE F == 1 .. n
<1> DEFINE N(k) == Nth(e, fmt, F, k)
<1> DEFINE B(i) == Before(e, fmt, F, i)
<1> DEFINE pos(i) == StagePos(e[i], fmt)
<1> DEFINE seq == HitExpected(hit, e, fmt)
<1>1. n \in Nat /\ n >= 11 /\ DOMAIN e = F
  BY StagesExpected
<1>2. \A i \in F : /\ e[i] \in Due \cup {"intent_recognized"}
                   /\ e[i] = "intent_recognized" <=> i = 3
                   /\ e[i] = "otp_channel_selection" => i = 7
                   /\ e[i] = "booking_retrieved" => i = 10
  BY ExpectedAre
<1>3. IsFiniteSet(F) /\ Cardinality(F) = n /\ F \in SUBSET Nat
  <2>1. IsFiniteSet(1 .. n) /\ Cardinality(1 .. n) = IF 1 > n THEN 0 ELSE n - 1 + 1
    BY <1>1, FS_Interval
  <2>2. (IF 1 > n THEN 0 ELSE n - 1 + 1) = n
    BY <1>1
  <2> QED BY <2>1, <2>2
<1>4. \A i \in F : pos(i) \in Nat /\ (i # 3 => pos(i) < NoPos) /\ (i = 3 => pos(i) = NoPos)
  <2> SUFFICES ASSUME NEW i \in F
               PROVE  pos(i) \in Nat /\ (i # 3 => pos(i) < NoPos) /\ (i = 3 => pos(i) = NoPos)
    OBVIOUS
  <2> HIDE DEF F
  <2>1. NoPos \in Nat
    BY DEF NoPos
  <2>2. i # 3 => e[i] \in Due
    BY <1>2
  <2>3. i = 3 => e[i] = "intent_recognized"
    BY <1>2
  <2> QED BY <2>1, <2>2, <2>3, DuePlaced, IntentPlaced
<1>5. 3 \in F
  BY <1>1
<1>6. seq = [k \in 1 .. n |-> hit[e[N(k)]]]
  <2>1. \A i \in DOMAIN e : e[i] \in DOMAIN hit
    BY DEF Ordered
  <2>2. seq = [k \in 1 .. Cardinality(DOMAIN e) |-> hit[e[Nth(e, fmt, DOMAIN e, k)]]]
    BY <2>1, HitExpectedIs
  <2> HIDE DEF seq, F, n
  <2> QED BY <1>1, <1>3, <2>2
<1> HIDE DEF F, n
<1>7. /\ \A k \in 1 .. n : N(k) \in F /\ Cardinality(B(N(k))) = k - 1
      /\ \A i \in F : Cardinality(B(i)) + 1 \in 1 .. n /\ N(Cardinality(B(i)) + 1) = i
      /\ \A k, l \in 1 .. n : k < l => N(k) \in B(N(l))
  <2>1. \A i \in F : StagePos(e[i], fmt) \in Int
    BY <1>4
  <2> QED BY <1>3, <2>1, NthIs
<1>8. \A i, j \in F : i \in B(j) <=> (pos(i) < pos(j) \/ (pos(i) = pos(j) /\ i < j))
  BY DEF Before
<1> HIDE DEF N, B, pos, seq
<1>9. N(n) = 3
  <2>1. B(3) = F \ {3}
    <3>1. B(3) \subseteq F
      BY DEF B, Before
    <3>2. ASSUME NEW i \in F PROVE i \in B(3) <=> i # 3
      <4>1. NoPos \in Nat /\ pos(i) \in Nat /\ pos(3) = NoPos /\ (i # 3 => pos(i) < NoPos)
        BY <1>4, <1>5 DEF NoPos
      <4> QED BY <1>5, <1>8, <4>1
    <3> QED BY <3>1, <3>2
  <2>2. Cardinality(B(3)) = n - 1
    BY <1>3, <1>5, <2>1, FS_RemoveElement
  <2>3. n - 1 + 1 = n
    BY <1>1
  <2> QED BY <1>5, <1>7, <2>2, <2>3
<1>10. \A k \in 1 .. (n - 1) : k \in 1 .. n /\ N(k) \in F /\ N(k) # 3
  <2> SUFFICES ASSUME NEW k \in 1 .. (n - 1) PROVE k \in 1 .. n /\ N(k) \in F /\ N(k) # 3
    OBVIOUS
  <2>1. k \in 1 .. n /\ n \in 1 .. n /\ k < n
    BY <1>1
  <2>2. N(k) \in F /\ N(k) \in B(3)
    BY <1>7, <1>9, <2>1
  <2>3. 3 \notin B(3)
    BY <1>4, <1>5, <1>8 DEF NoPos
  <2> QED BY <2>1, <2>2, <2>3
<1>11. \A i \in F : hit[e[i]] \in Nat
  BY <1>1 DEF Ordered
<1>12. \A i \in F \ {3} : e[i] \in DesignedOf(e, fmt) /\ e[i] \in Due
  <2> SUFFICES ASSUME NEW i \in F \ {3} PROVE e[i] \in DesignedOf(e, fmt) /\ e[i] \in Due
    OBVIOUS
  <2>1. e[i] \in Due
    BY <1>2
  <2>2. StagePos(e[i], fmt) # NoPos
    <3>1. pos(i) \in Nat /\ pos(i) < NoPos /\ NoPos \in Nat
      BY <1>4 DEF NoPos
    <3> QED BY <3>1 DEF pos
  <2> QED BY <1>1, <2>1, <2>2 DEF DesignedOf
<1>13. \A s \in DesignedOf(e, fmt) : \E i \in F \ {3} : s = e[i]
  <2> SUFFICES ASSUME NEW s \in DesignedOf(e, fmt) PROVE \E i \in F \ {3} : s = e[i]
    OBVIOUS
  <2>1. PICK i \in F : s = e[i]
    BY <1>1 DEF DesignedOf
  <2>2. i # 3
    BY <1>4, <2>1 DEF DesignedOf, pos
  <2> QED BY <2>1, <2>2
<1>14. \A i, j \in F \ {3} : i \in B(j) => hit[e[i]] <= hit[e[j]]
  <2> SUFFICES ASSUME NEW i \in F \ {3}, NEW j \in F \ {3}, i \in B(j)
               PROVE  hit[e[i]] <= hit[e[j]]
    OBVIOUS
  <2>1. hit[e[i]] \in Nat /\ hit[e[j]] \in Nat
    BY <1>11
  <2>2. CASE pos(i) < pos(j)
    BY <1>12, <2>2 DEF Ordered, pos
  <2>3. CASE pos(i) = pos(j) /\ i < j
    <3>1. /\ e[i] = "otp_channel_selection" => i = 7
          /\ e[j] = "otp_channel_selection" => j = 7
          /\ e[i] = "booking_retrieved" => i = 10
          /\ e[j] = "booking_retrieved" => j = 10
      BY <1>2
    <3>2. \/ e[i] = e[j]
          \/ e[i] = "otp_channel_selection" /\ e[j] = "booking_retrieved" /\ fmt = "alpha"
          \/ e[j] = "otp_channel_selection" /\ e[i] = "booking_retrieved" /\ fmt = "alpha"
      BY <1>12, <2>3, DuePlaced DEF pos
    <3>3. ~(e[j] = "otp_channel_selection" /\ e[i] = "booking_retrieved")
      BY <2>3, <3>1
    <3>4. CASE e[i] = e[j]
      BY <2>1, <3>4
    <3>5. CASE e[i] = "otp_channel_selection" /\ e[j] = "booking_retrieved" /\ fmt = "alpha"
      <4>1. e[i] \in DOMAIN hit /\ e[j] \in DOMAIN hit
        BY <1>1 DEF Ordered
      <4> QED BY <3>5, <4>1 DEF Ordered
    <3> QED BY <3>2, <3>3, <3>4, <3>5
  <2> QED BY <1>8, <2>2, <2>3
<1>15. DOMAIN seq = 1 .. n /\ \A k \in 1 .. n : seq[k] = hit[e[N(k)]] /\ seq[k] \in Nat
  BY <1>6, <1>7, <1>11
<1>16. \A k, l \in 1 .. (n - 1) : k < l => seq[k] <= seq[l]
  BY <1>7, <1>10, <1>14, <1>15
<1>17. \A i \in F \ {3} : \E k \in 1 .. (n - 1) : N(k) = i
  <2> SUFFICES ASSUME NEW i \in F \ {3} PROVE \E k \in 1 .. (n - 1) : N(k) = i
    OBVIOUS
  <2> DEFINE k == Cardinality(B(i)) + 1
  <2>1. k \in 1 .. n /\ N(k) = i
    BY <1>7
  <2> HIDE DEF k
  <2>2. k # n
    BY <1>9, <2>1
  <2>3. k \in 1 .. (n - 1)
    BY <1>1, <2>1, <2>2
  <2> QED BY <2>1, <2>3
<1>18. seq[n] <= seq[n - 1]
  <2>1. PICK s \in DesignedOf(e, fmt) : hit["intent_recognized"] <= hit[s]
    BY DEF Ordered
  <2>2. PICK i \in F \ {3} : s = e[i]
    BY <1>13
  <2>3. PICK k \in 1 .. (n - 1) : N(k) = i
    BY <1>17
  <2>4. seq[k] = hit[s] /\ k \in 1 .. n
    BY <1>10, <1>15, <2>2, <2>3
  <2>5. n - 1 \in 1 .. (n - 1) /\ n - 1 \in 1 .. n /\ n \in 1 .. n /\ (k = n - 1 \/ k < n - 1)
    BY <1>1
  <2>6. seq[n] = hit["intent_recognized"]
    BY <1>2, <1>5, <1>9, <1>15, <2>5
  <2>7. seq[k] <= seq[n - 1]
    <3>1. seq[k] \in Nat
      BY <1>15, <2>4
    <3> QED BY <1>16, <2>5, <3>1
  <2>8. seq[n] \in Nat /\ seq[k] \in Nat /\ seq[n - 1] \in Nat
    BY <1>15, <2>4, <2>5
  <2> QED BY <2>1, <2>4, <2>6, <2>7, <2>8
<1>19. Flows(seq, n)
  BY <1>15, <1>16, <1>18 DEF Flows
<1>20. LisLength(seq) = Cardinality(Values(seq, n - 1))
  <2>1. n \in Nat \ {0, 1}
    BY <1>1
  <2> QED BY <1>19, <2>1, LisOfFlow DEF CountUpTo
<1>21. Values(seq, n - 1) = {hit[s] : s \in DesignedOf(e, fmt)}
  <2>1. ASSUME NEW k \in 1 .. (n - 1) PROVE seq[k] \in {hit[s] : s \in DesignedOf(e, fmt)}
    BY <1>10, <1>12, <1>15
  <2>2. ASSUME NEW s \in DesignedOf(e, fmt) PROVE \E k \in 1 .. (n - 1) : hit[s] = seq[k]
    BY <1>10, <1>13, <1>15, <1>17
  <2> QED BY <2>1, <2>2 DEF Values
<1> QED BY <1>20, <1>21 DEF seq

\* The word for an outcome does not change what is expected of a case.
LEMMA NormalExpected ==
  ASSUME NEW status, NEW family
  PROVE  expected_stages(normalize_status(status), family) = expected_stages(status, family)
<1>1. normalize_status(status) = "ELIGIBLE" <=> status = "ELIGIBLE"
  <2>1. CASE status = "INELIGIBLE"
    BY <2>1, Zenon DEF normalize_status
  <2>2. CASE status = "none"
    BY <2>2, Zenon DEF normalize_status
  <2>3. CASE status # "INELIGIBLE" /\ status # "none"
    BY <2>3, Zenon DEF normalize_status
  <2> QED BY <2>1, <2>2, <2>3
<1> QED BY <1>1 DEF expected_stages

\* What a conversation in which something was heard is annotated with.
LEMMA HeardAnnotation ==
  ASSUME NEW chat, NEW fmt, NEW status, NEW family, NEW a, a = Annotate(chat, fmt, status, family),
         NEW stage, stage \in DOMAIN a.hit
  PROVE  /\ a.hit = StagesHit(Rendered(chat), fmt)
         /\ a.score = Round4(LisLength(HitExpected(a.hit, expected_stages(status, family), fmt)),
                             Len(expected_stages(status, family)))
<1> DEFINE text == Rendered(chat)
<1> DEFINE e == expected_stages(status, family)
<1>1. a = IF text = <<>> THEN NoTrajectory
          ELSE [heard |-> TRUE, hit |-> StagesHit(text, fmt), intent |-> IntentPlaces(text) # {},
                score |-> Round4(LisLength(HitExpected(StagesHit(text, fmt), e, fmt)), Len(e))]
  BY DEF Annotate
<1> HIDE DEF text, e
<1>2. text # <<>>
  <2>1. text = <<>> => a.hit = <<>>
    BY <1>1 DEF NoTrajectory
  <2>2. DOMAIN <<>> = {}
    OBVIOUS
  <2> QED BY <2>1, <2>2
<1>3. a.hit = StagesHit(text, fmt) /\ a.score = Round4(LisLength(HitExpected(StagesHit(text, fmt), e, fmt)), Len(e))
  BY <1>1, <1>2
<1> QED BY <1>3 DEF text, e

\* FlowCounted of one conversation.
Counted(a, e, fmt) ==
  (/\ {e[i] : i \in DOMAIN e} \subseteq DOMAIN a.hit
   /\ \A s, t \in DesignedOf(e, fmt) : StagePos(s, fmt) < StagePos(t, fmt) => a.hit[s] <= a.hit[t]
   /\ \E s \in DesignedOf(e, fmt) : a.hit["intent_recognized"] <= a.hit[s])
  => a.score = Round4(Cardinality({a.hit[s] : s \in DesignedOf(e, fmt)}), Len(e))

\* A conversation that reaches what is expected in order scores the places.
LEMMA RunFlowCounted == MInv => FlowCounted
<1>0. FlowCounted <=>
        \A c \in DOMAIN folder :
          Counted(Annotation[c][folder[c].chat][DialectOf(folder)],
                  expected_stages(Expected[c].status, Expected[c].family), DialectOf(folder))
  BY Zenon DEF FlowCounted, Counted, DesignedOf
<1> SUFFICES ASSUME MInv, NEW c \in DOMAIN folder,
               NEW fmt, fmt = DialectOf(folder),
               NEW a, a = Annotation[c][folder[c].chat][fmt],
               NEW e, e = expected_stages(Expected[c].status, Expected[c].family),
               {e[i] : i \in DOMAIN e} \subseteq DOMAIN a.hit,
               \A s, t \in DesignedOf(e, fmt) : StagePos(s, fmt) < StagePos(t, fmt) => a.hit[s] <= a.hit[t],
               \E s \in DesignedOf(e, fmt) : a.hit["intent_recognized"] <= a.hit[s]
             PROVE  a.score = Round4(Cardinality({a.hit[s] : s \in DesignedOf(e, fmt)}), Len(e))
  BY <1>0 DEF Counted
<1> DEFINE chat == Transcript[folder[c].chat]
<1> DEFINE status == Expected[c].status
<1> DEFINE family == Expected[c].family
<1> DEFINE n == Len(chat)
<1> DEFINE text == Rendered(chat)
<1> DEFINE hit == a.hit
<1>1. fmt \in Dialect /\ c \in Case /\ folder[c].chat \in Chat /\ IsTranscript(chat)
  BY RunAssumption, TranscriptAssumption, DialectIs DEF MInv
<1>2. a = Annotate(chat, fmt, normalize_status(status), family)
  BY <1>1, AnnotationIs
<1>3. expected_stages(normalize_status(status), family) = e
  BY NormalExpected
<1>4. \A i \in DOMAIN e : e[i] \in DOMAIN hit
  OBVIOUS
<1>5. \E stage : stage \in DOMAIN hit
  <2>1. 1 \in DOMAIN e
    BY StagesExpected
  <2> QED BY <1>4, <2>1
<1>6. hit = StagesHit(text, fmt) /\ a.score = Round4(LisLength(HitExpected(hit, e, fmt)), Len(e))
  <2>1. PICK stage : stage \in DOMAIN a.hit
    BY <1>5
  <2> HIDE DEF chat, status, family
  <2> QED BY <1>2, <1>3, <2>1, HeardAnnotation
<1>7. n \in Nat /\ Again(n, text, text)
  <2>1. n \in Nat
    BY <1>1 DEF IsTranscript
  <2>2. 0 \in 0 .. n
    BY <2>1
  <2> HIDE DEF chat
  <2>3. Again(n, text, Rendered(chat \o SubSeq(chat, 1, 0)))
    BY <1>1, <2>2, RenderedAgain
  <2> HIDE DEF n, text
  <2> QED BY <2>1, <2>3 DEF Again
<1>8. /\ \A s \in DOMAIN hit : hit[s] \in Nat
      /\ (fmt = "alpha" /\ "otp_channel_selection" \in DOMAIN hit /\ "booking_retrieved" \in DOMAIN hit)
           => hit["otp_channel_selection"] <= hit["booking_retrieved"]
  <2> HIDE DEF n, text, hit
  <2> QED BY <1>6, <1>7, HitsAre
<1>9. Ordered(hit, e, fmt)
  BY <1>4, <1>8 DEF Ordered
<1>10. LisLength(HitExpected(hit, e, fmt)) = Cardinality({hit[s] : s \in DesignedOf(e, fmt)})
  BY <1>1, <1>9, FlowCount
<1> QED BY <1>6, <1>10

\* The flow score is earned: by reaching the stages of the case in the order
\* they were designed, and by nothing that is only said again.
THEOREM ScoreIsEarned == Spec => []ScoreEarned
<1>1. MInv => ScoreEarned
  BY RunEarnsNothing, RunFlowCounted DEF ScoreEarned
<1> QED BY <1>1, MInvAlways, PTL
=============================================================================
