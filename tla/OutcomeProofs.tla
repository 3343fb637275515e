----------------------------- MODULE OutcomeProofs -----------------------------
(***************************************************************************)
(* Proofs about the two modules that say what an outcome is worth: first   *)
(* about PlannerFeedback, for any roles, costs, promises and thresholds of *)
(* the economics, any number of rows, children and samples, and every      *)
(* bound; then about ReproductionLab, for any calls, contracts, files and  *)
(* output directories, and every bound.  The modules share no state.       *)
(***************************************************************************)
EXTENDS PlannerFeedback, ReproductionLab, FiniteSetTheorems, WellFoundedInduction, TLAPS

-----------------------------------------------------------------------------
(* Sums over finite sets *)

\* A set that has zero and the successor of each natural in it has all of them.
LEMMA CountingUp ==
  ASSUME NEW G, 0 \in G, \A n \in Nat : n \in G => n + 1 \in G
  PROVE  \A n \in Nat : n \in G
<1> DEFINE R == {ss \in Nat \X Nat : ss[1] < ss[2]}
           T == {n \in Nat : n \notin G}
<1>1. IsWellFoundedOn(R, Nat)
  BY NatLessThanWellFounded DEF OpToRel
<1>2. T = {}
  <2>1. SUFFICES ASSUME T # {} PROVE FALSE
    OBVIOUS
  <2>2. PICK m \in T : \A e \in T : ~ (<<e, m>> \in R)
    <3>1. T \in SUBSET Nat
      OBVIOUS
    <3> HIDE DEF R, T
    <3> QED
      BY <1>1, <2>1, <3>1, WFMin
  <2>3. m \in Nat /\ m # 0 /\ m \notin G
    BY <2>2
  <2>4. m - 1 \in Nat /\ m - 1 < m /\ (m - 1) + 1 = m
    BY <2>3
  <2>5. m - 1 \notin T
    BY <2>2, <2>3, <2>4
  <2> QED
    BY <2>3, <2>4, <2>5
<1> QED
  BY <1>2

\* The member of a set a sum begins with, and the set without it.
Any(s) == CHOOSE x \in s : TRUE

\* A finite set that is not empty has one member more than without its first.
LEMMA OneLess ==
  ASSUME NEW S, IsFiniteSet(S), NEW s \in SUBSET S, s # {}
  PROVE  /\ Any(s) \in s /\ s \ {Any(s)} \in SUBSET S
         /\ Cardinality(s) \in Nat /\ Cardinality(s \ {Any(s)}) \in Nat
         /\ Cardinality(s) = Cardinality(s \ {Any(s)}) + 1
<1>1. Any(s) \in s
  BY DEF Any
<1>2. IsFiniteSet(s)
  BY FS_Subset
<1>3. Cardinality(s) \in Nat
  BY <1>2, FS_CardinalityType
<1>4. Cardinality(s \ {Any(s)}) = Cardinality(s) - 1 /\ IsFiniteSet(s \ {Any(s)})
  BY <1>1, <1>2, FS_RemoveElement
<1>5. Cardinality(s \ {Any(s)}) \in Nat
  BY <1>4, FS_CardinalityType
<1>6. s \ {Any(s)} \in SUBSET S
  OBVIOUS
<1> QED
  BY <1>1, <1>3, <1>4, <1>5, <1>6

\* A part of a finite set that has no more than zero members is empty.
LEMMA NothingLeft ==
  ASSUME NEW S, IsFiniteSet(S), NEW s \in SUBSET S, Cardinality(s) <= 0
  PROVE  s = {}
<1>1. SUFFICES ASSUME s # {} PROVE FALSE
  OBVIOUS
<1>2. Cardinality(s) \in Nat /\ Cardinality(s \ {Any(s)}) \in Nat
      /\ Cardinality(s) = Cardinality(s \ {Any(s)}) + 1
  BY <1>1, OneLess
<1> QED
  BY <1>2

\* The sum of one member after the other.
Added(W, f, s) == W[s] = IF s = {} THEN 0 ELSE f[Any(s)] + W[s \ {Any(s)}]

\* SumFunction computes what its recursion over the members says.
LEMMA SumLoop ==
  ASSUME NEW S, IsFiniteSet(S), NEW f, DOMAIN f = S
  PROVE  \E W : SumFunction(f) = W[S] /\ \A s \in SUBSET S : Added(W, f, s)
<1> DEFINE body(g) == [s \in SUBSET S |-> IF s = {} THEN 0 ELSE f[Any(s)] + g[s \ {Any(s)}]]
           iter == CHOOSE g : g = body(g)
           Upto(g, n) == \A s \in SUBSET S : Cardinality(s) <= n => Added(g, f, s)
           G == {n \in Nat : \E g : Upto(g, n)}
<1>1. SumFunction(f) = iter[S]
  BY Zenon DEF SumFunction, SumFunctionOnSet, FoldFunctionOnSet, MapThenFoldSet, Any
<1>2. 0 \in G
  <2>1. Upto([s \in SUBSET S |-> 0], 0)
    <3>1. SUFFICES ASSUME NEW s \in SUBSET S, Cardinality(s) <= 0
                   PROVE  Added([u \in SUBSET S |-> 0], f, s)
      OBVIOUS
    <3>2. s = {}
      BY <3>1, NothingLeft
    <3> QED
      BY <3>2 DEF Added
  <2> QED
    BY <2>1
<1>3. ASSUME NEW n \in Nat, n \in G PROVE n + 1 \in G
  <2>1. PICK g : Upto(g, n)
    BY <1>3
  <2> DEFINE h == [s \in SUBSET S |-> IF Cardinality(s) <= n THEN g[s]
                                         ELSE f[Any(s)] + g[s \ {Any(s)}]]
  <2>2. ASSUME NEW s \in SUBSET S, Cardinality(s) <= n + 1 PROVE Added(h, f, s)
    <3>1. CASE s = {}
      <4>1. Cardinality(s) = 0
        BY <3>1, FS_EmptySet
      <4>2. Added(g, f, s)
        BY <2>1, <4>1
      <4> QED
        BY <3>1, <4>1, <4>2 DEF Added
    <3>2. CASE s # {}
      <4>1. /\ s \ {Any(s)} \in SUBSET S /\ Any(s) \in s
            /\ Cardinality(s) \in Nat /\ Cardinality(s \ {Any(s)}) \in Nat
            /\ Cardinality(s) = Cardinality(s \ {Any(s)}) + 1
        BY <3>2, OneLess
      <4>2. Cardinality(s \ {Any(s)}) <= n
        BY <2>2, <4>1
      <4>3. h[s \ {Any(s)}] = g[s \ {Any(s)}]
        BY <4>1, <4>2
      <4>4. h[s] = f[Any(s)] + g[s \ {Any(s)}]
        <5>1. CASE Cardinality(s) <= n
          <6>1. Added(g, f, s)
            BY <2>1, <5>1
          <6>2. g[s] = f[Any(s)] + g[s \ {Any(s)}]
            BY <3>2, <4>1, <6>1 DEF Added
          <6> QED
            BY <5>1, <6>2
        <5>2. CASE ~(Cardinality(s) <= n)
          BY <4>1, <5>2
        <5> QED
          BY <5>1, <5>2
      <4> HIDE DEF h
      <4> QED
        BY <3>2, <4>1, <4>3, <4>4 DEF Added
    <3> QED
      BY <3>1, <3>2
  <2>3. Upto(h, n + 1)
    BY <2>2
  <2> HIDE DEF h, Upto
  <2> QED
    BY <2>3
<1>4. Cardinality(S) \in Nat
  BY FS_CardinalityType
<1>5. Cardinality(S) \in G
  <2> HIDE DEF G
  <2> QED
    BY <1>2, <1>3, <1>4, CountingUp
<1>6. PICK g : \A s \in SUBSET S : Added(g, f, s)
  <2>1. PICK g : Upto(g, Cardinality(S))
    BY <1>5
  <2>2. ASSUME NEW s \in SUBSET S PROVE Cardinality(s) <= Cardinality(S)
    BY FS_Subset
  <2> QED
    BY <2>1, <2>2
<1>7. \E h : h = body(h)
  <2> DEFINE h == [s \in SUBSET S |-> g[s]]
  <2>1. ASSUME NEW s \in SUBSET S
        PROVE  h[s] = IF s = {} THEN 0 ELSE f[Any(s)] + h[s \ {Any(s)}]
    <3>1. Added(g, f, s) /\ s \ {Any(s)} \in SUBSET S
      BY <1>6
    <3> QED
      BY <3>1 DEF Added
  <2>2. h = body(h)
    BY <2>1
  <2> HIDE DEF h, body
  <2> QED
    BY <2>2
<1>8. iter = body(iter)
  <2> HIDE DEF body
  <2> QED
    BY <1>7
<1>9. \A s \in SUBSET S : Added(iter, f, s)
  <2> HIDE DEF iter
  <2>1. ASSUME NEW s \in SUBSET S
        PROVE  iter[s] = IF s = {} THEN 0 ELSE f[Any(s)] + iter[s \ {Any(s)}]
    BY <1>8
  <2> QED
    BY <2>1, Zenon DEF Added
<1> HIDE DEF iter
<1> QED
  BY <1>1, <1>9

\* A sum of n numbers between lo and hi.
LEMMA SumBounds ==
  ASSUME NEW S, IsFiniteSet(S), NEW lo \in Int, NEW hi \in Int, NEW f, DOMAIN f = S,
         \A x \in S : f[x] \in Int /\ lo <= f[x] /\ f[x] <= hi
  PROVE  /\ SumFunction(f) \in Int /\ Cardinality(S) \in Nat
         /\ lo * Cardinality(S) <= SumFunction(f) /\ SumFunction(f) <= hi * Cardinality(S)
<1>1. PICK W : SumFunction(f) = W[S] /\ \A s \in SUBSET S : Added(W, f, s)
  BY SumLoop
<1> DEFINE G == {n \in Nat : \A s \in SUBSET S : Cardinality(s) = n =>
                   W[s] \in Int /\ lo * n <= W[s] /\ W[s] <= hi * n}
<1>2. 0 \in G
  <2>1. ASSUME NEW s \in SUBSET S, Cardinality(s) = 0 PROVE W[s] = 0
    <3>1. s = {}
      BY <2>1, NothingLeft
    <3> QED
      BY <1>1, <3>1 DEF Added
  <2> QED
    BY <2>1
<1>3. ASSUME NEW n \in Nat, n \in G PROVE n + 1 \in G
  <2>1. ASSUME NEW s \in SUBSET S, Cardinality(s) = n + 1
        PROVE  W[s] \in Int /\ lo * (n + 1) <= W[s] /\ W[s] <= hi * (n + 1)
    <3>1. s # {}
      BY <2>1, FS_EmptySet
    <3>2. /\ s \ {Any(s)} \in SUBSET S /\ Any(s) \in s
          /\ Cardinality(s) \in Nat /\ Cardinality(s \ {Any(s)}) \in Nat
          /\ Cardinality(s) = Cardinality(s \ {Any(s)}) + 1
      BY <3>1, OneLess
    <3>3. W[s] = f[Any(s)] + W[s \ {Any(s)}]
      BY <1>1, <3>1, <3>2 DEF Added
    <3>4. W[s \ {Any(s)}] \in Int /\ lo * n <= W[s \ {Any(s)}] /\ W[s \ {Any(s)}] <= hi * n
      BY <1>3, <2>1, <3>2
    <3>5. f[Any(s)] \in Int /\ lo <= f[Any(s)] /\ f[Any(s)] <= hi
      BY <3>2
    <3>6. lo * (n + 1) = lo * n + lo /\ hi * (n + 1) = hi * n + hi /\ lo * n \in Int /\ hi * n \in Int
      OBVIOUS
    <3> QED
      BY <3>3, <3>4, <3>5, <3>6
  <2> QED
    BY <2>1
<1>4. Cardinality(S) \in Nat
  BY FS_CardinalityType
<1>5. Cardinality(S) \in G
  <2> HIDE DEF G
  <2> QED
    BY <1>2, <1>3, <1>4, CountingUp
<1> QED
  BY <1>1, <1>4, <1>5

\* A quotient is between the bounds of what is divided.
LEMMA DivBounds ==
  ASSUME NEW a \in Int, NEW c \in Nat \ {0}, NEW lo \in Int, NEW hi \in Int,
         lo * c <= a, a <= hi * c
  PROVE  a \div c \in Int /\ lo <= a \div c /\ a \div c <= hi
<1>1. a \div c \in Int
  OBVIOUS
<1>2. c * (a \div c) <= a /\ c * (a \div c) + c > a
  OBVIOUS
<1>3. lo <= a \div c
  BY SMT
<1>4. a \div c <= hi
  BY SMT
<1> QED
  BY <1>1, <1>3, <1>4
-----------------------------------------------------------------------------
(* What the scores of the planner can be *)

\* What a rounded quotient is at least.
LEMMA QuotientAtLeast ==
  ASSUME NEW a \in Int, NEW c \in Nat \ {0}, NEW lo \in Int, lo * c <= a
  PROVE  a \div c \in Int /\ lo <= a \div c
BY SMT

\* What a rounded quotient is at most.
LEMMA QuotientAtMost ==
  ASSUME NEW a \in Int, NEW c \in Nat \ {0}, NEW hi \in Int, a <= hi * c
  PROVE  a \div c \in Int /\ a \div c <= hi
BY SMT

\* A finite set of samples, with gains in per cent.
History(H) ==
  IsFiniteSet(H) /\ \A s \in H : s.raw \in Percent /\ s.expected \in Percent /\ s.actual \in Percent

\* A part of a history is a history.
LEMMA PartOfHistory ==
  ASSUME NEW H, History(H), NEW part \in SUBSET H
  PROVE  History(part) /\ Cardinality(part) \in Nat
<1>1. IsFiniteSet(part)
  BY FS_Subset DEF History
<1> QED
  BY <1>1, FS_CardinalityType DEF History

\* The mean of ratios between lo and hi is between lo and hi.
LEMMA MeanBounds ==
  ASSUME NEW H, History(H), NEW field \in {"raw", "expected"}, NEW lo \in Int, NEW hi \in Int,
         \A s \in Weighed(H, field) :
           /\ lo <= Ratios(H, field)[s] /\ Ratios(H, field)[s] <= hi
           /\ Ratios(H, field)[s] \in Int,
         Weighed(H, field) # {}
  PROVE  Mean(H, field) \in Int /\ lo <= Mean(H, field) /\ Mean(H, field) <= hi
<1> DEFINE C == Weighed(H, field)
           f == Ratios(H, field)
           n == Cardinality(C)
<1>1. C \in SUBSET H
  BY DEF Weighed
<1>2. IsFiniteSet(C)
  BY <1>1, PartOfHistory DEF History
<1>3. DOMAIN f = C
  BY DEF Ratios
<1>4. \A s \in C : f[s] \in Int /\ lo <= f[s] /\ f[s] <= hi
  OBVIOUS
<1> HIDE DEF f, C
<1>5. SumFunction(f) \in Int /\ n \in Nat /\ lo * n <= SumFunction(f) /\ SumFunction(f) <= hi * n
  BY <1>2, <1>3, <1>4, SumBounds
<1>6. n # 0
  <2>1. C # {}
    BY DEF C
  <2> QED
    BY <1>2, <2>1, FS_EmptySet
<1>7. Mean(H, field) = SumFunction(f) \div n
  BY DEF Mean, C, f
<1> HIDE DEF n
<1> QED
  BY <1>5, <1>6, <1>7, DivBounds

\* A ratio of realized and expected gain lies between 0 and the cap of 150.
LEMMA RatioIs ==
  ASSUME NEW H, History(H), NEW field \in {"raw", "expected"}, NEW s \in Weighed(H, field)
  PROVE  LET a == (100 * s.actual) \div s[field] IN
         /\ s \in H /\ s[field] \in 6..100 /\ s.actual \in Percent
         /\ a \in Nat /\ Ratios(H, field)[s] = AtMost(150, a)
<1>1. s \in H /\ s[field] > 5
  BY DEF Weighed
<1>2. s[field] \in Percent /\ s.actual \in Percent
  BY <1>1 DEF History
<1>3. s[field] \in 6..100 /\ s[field] \in Nat \ {0}
  BY <1>1, <1>2 DEF Percent
<1>4. (100 * s.actual) \div s[field] \in Int /\ 0 <= (100 * s.actual) \div s[field]
  <2>1. 100 * s.actual \in Int /\ 0 * s[field] <= 100 * s.actual
    BY <1>2, <1>3 DEF Percent
  <2> QED
    BY <1>3, <2>1, QuotientAtLeast
<1> QED
  BY <1>1, <1>2, <1>3, <1>4 DEF Ratios

\* The mean of the ratios lies between them.
LEMMA MeanIs ==
  ASSUME NEW H, History(H), NEW field \in {"raw", "expected"}
  PROVE  Mean(H, field) \in 0..150
<1>1. CASE Weighed(H, field) = {}
  BY <1>1 DEF Mean
<1>2. CASE Weighed(H, field) # {}
  <2>1. ASSUME NEW s \in Weighed(H, field)
        PROVE  Ratios(H, field)[s] \in 0..150
    BY RatioIs DEF AtMost
  <2>2. \A s \in Weighed(H, field) :
          /\ 0 <= Ratios(H, field)[s] /\ Ratios(H, field)[s] <= 150
          /\ Ratios(H, field)[s] \in Int
    BY <2>1
  <2>3. Mean(H, field) \in Int /\ 0 <= Mean(H, field) /\ Mean(H, field) <= 150
    BY <1>2, <2>2, MeanBounds
  <2> QED
    BY <2>3
<1> QED
  BY <1>1, <1>2

\* Samples that brought all they promised have a mean of a hundred at least,
LEMMA MeanOfFull ==
  ASSUME NEW H, History(H), NEW field \in {"raw", "expected"}, \A s \in H : s.actual = 100
  PROVE  Mean(H, field) \in 100..150
<1>1. CASE Weighed(H, field) = {}
  BY <1>1 DEF Mean
<1>2. CASE Weighed(H, field) # {}
  <2>1. ASSUME NEW s \in Weighed(H, field)
        PROVE  Ratios(H, field)[s] \in 100..150
    <3> DEFINE a == (100 * s.actual) \div s[field]
    <3>1. s \in H /\ s[field] \in 6..100 /\ a \in Nat /\ Ratios(H, field)[s] = AtMost(150, a)
      BY RatioIs
    <3>2. s.actual = 100
      BY <3>1
    <3>3. 100 * 100 \in Int /\ s[field] \in Nat \ {0} /\ 100 * s[field] <= 100 * 100
      BY <3>1
    <3>4. 100 <= (100 * 100) \div s[field]
      BY <3>3, QuotientAtLeast
    <3> QED
      BY <3>1, <3>2, <3>4 DEF AtMost
  <2>2. \A s \in Weighed(H, field) :
          /\ 100 <= Ratios(H, field)[s] /\ Ratios(H, field)[s] <= 150
          /\ Ratios(H, field)[s] \in Int
    BY <2>1
  <2>3. Mean(H, field) \in Int /\ 100 <= Mean(H, field) /\ Mean(H, field) <= 150
    BY <1>2, <2>2, MeanBounds
  <2> QED
    BY <2>3
<1> QED
  BY <1>1, <1>2

\* and samples that brought nothing one of zero.
LEMMA MeanOfWorthless ==
  ASSUME NEW H, History(H), H # {}, \A s \in H : s.actual = 0 /\ s.raw > 5
  PROVE  Mean(H, "raw") = 0 /\ Weighed(H, "raw") = H
<1>1. Weighed(H, "raw") = H
  BY DEF Weighed
<1>2. ASSUME NEW s \in H PROVE Ratios(H, "raw")[s] = 0
  <2> DEFINE a == (100 * s.actual) \div s["raw"]
  <2>1. s["raw"] \in 6..100 /\ a \in Nat /\ Ratios(H, "raw")[s] = AtMost(150, a)
    BY <1>1, RatioIs
  <2>2. s.actual = 0
    OBVIOUS
  <2>3. 100 * 0 \in Int /\ s["raw"] \in Nat \ {0} /\ 100 * 0 <= 0 * s["raw"]
    BY <2>1
  <2>4. (100 * 0) \div s["raw"] <= 0
    BY <2>3, QuotientAtMost
  <2> QED
    BY <2>1, <2>2, <2>4 DEF AtMost
<1>3. \A s \in Weighed(H, "raw") :
        /\ 0 <= Ratios(H, "raw")[s] /\ Ratios(H, "raw")[s] <= 0 /\ Ratios(H, "raw")[s] \in Int
  BY <1>1, <1>2
<1>4. Mean(H, "raw") \in Int /\ 0 <= Mean(H, "raw") /\ Mean(H, "raw") <= 0
  BY <1>1, <1>3, MeanBounds
<1> QED
  BY <1>1, <1>4

\* A calibration factor shifts by a quarter at most, and never down for what brought all.
LEMMA CalibrationIs ==
  ASSUME NEW H, History(H), NEW role, NEW source
  PROVE  /\ action_calibration(H, role, source) \in 75..125
         /\ (\A s \in Of(H, role) : s.actual = 100) =>
              action_calibration(H, role, source) >= 100
<1> DEFINE own == From(Of(H, role), source)
           used == IF Cardinality(own) >= MinSamples THEN own ELSE Of(H, role)
           n == Cardinality(used)
           ramp == FullSamples - MinSamples + 1
           weight == AtMost(100, (100 * (n - MinSamples + 1)) \div ramp)
           m == Mean(used, "raw")
           shift == ((m - 100) * weight) \div 100
<1>1. MinSamples \in Nat \ {0} /\ ramp \in Nat \ {0}
  BY EconomicsAssumption
<1>2. used \in SUBSET H /\ used \in SUBSET Of(H, role)
  BY DEF Of, From
<1>3. History(used) /\ n \in Nat
  BY <1>2, PartOfHistory
<1>4. action_calibration(H, role, source)
        = IF n < MinSamples THEN 100 ELSE 100 + AtLeast(-MaxAdjustment, AtMost(MaxAdjustment, shift))
  BY DEF action_calibration
<1> HIDE DEF used
<1>5. m \in 0..150
  BY <1>3, MeanIs
<1> HIDE DEF n, m, ramp
<1>6. (100 * (n - MinSamples + 1)) \div ramp \in Int
      /\ (n >= MinSamples => 0 <= (100 * (n - MinSamples + 1)) \div ramp)
  <2>1. 100 * (n - MinSamples + 1) \in Int
    BY <1>1, <1>3
  <2>2. n >= MinSamples => 0 * ramp <= 100 * (n - MinSamples + 1)
    BY <1>1, <1>3
  <2> QED
    BY <1>1, <2>1, <2>2, QuotientAtLeast
<1>7. weight \in Int /\ (n >= MinSamples => 0 <= weight)
  BY <1>6 DEF AtMost
<1> HIDE DEF weight
<1>8. shift \in Int
  BY <1>5, <1>7
<1>9. m >= 100 /\ n >= MinSamples => shift >= 0
  <2>1. SUFFICES ASSUME m >= 100, n >= MinSamples PROVE shift >= 0
    OBVIOUS
  <2>2. (m - 100) * weight \in Int /\ 0 * 100 <= (m - 100) * weight
    BY <1>5, <1>7, <2>1
  <2> QED
    BY <2>2, QuotientAtLeast
<1> HIDE DEF shift
<1>10. (\A s \in Of(H, role) : s.actual = 100) => m >= 100
  BY <1>2, <1>3, MeanOfFull DEF m
<1> QED
  BY <1>1, <1>3, <1>4, <1>8, <1>9, <1>10 DEF AtMost, AtLeast, MaxAdjustment

\* The contextual penalty is half at worst, and none for what brought all it promised.
LEMMA ContextIs ==
  ASSUME NEW H, History(H), NEW role, NEW source, NEW branch
  PROVE  /\ ContextualPenalty(H, role, source, branch) \in 50..100
         /\ (\A s \in Of(H, role) : s.actual = 100) =>
              ContextualPenalty(H, role, source, branch) = 100
<1> DEFINE context == Contextual(H, role, source, branch)
           m == Mean(context, "expected")
<1>1. context \in SUBSET H /\ context \in SUBSET Of(H, role)
  BY DEF Contextual, Newest, Of, From
<1>2. History(context)
  BY <1>1, PartOfHistory
<1>3. m \in 0..150
  BY <1>2, MeanIs
<1>4. (\A s \in Of(H, role) : s.actual = 100) => m >= 100
  BY <1>1, <1>2, MeanOfFull
<1>5. ContextualPenalty(H, role, source, branch)
        = IF Cardinality(Weighed(context, "expected")) >= 2 /\ m < 75 THEN AtLeast(50, m) ELSE 100
  BY DEF ContextualPenalty
<1> HIDE DEF m
<1> QED
  BY <1>3, <1>4, <1>5 DEF AtLeast

Factor(role, recentRoles) == IF role \in recentRoles THEN 75 ELSE 100

\* Three quarters or all of a promise, not yet divided by a hundred.
LEMMA WholeIs ==
  ASSUME NEW b \in 0..100, NEW f \in {75, 100}  PROVE b * f \in Nat /\ b * f <= 10000
<1> DEFINE whole == b * f
<1>1. whole \in Int /\ 0 <= whole /\ whole <= 100 * 100
  <2>1. CASE f = 75
    BY <2>1
  <2>2. CASE f = 100
    BY <2>2
  <2> QED
    BY <2>1, <2>2
<1> HIDE DEF whole
<1>2. whole \in Nat /\ whole <= 10000
  BY <1>1
<1> QED
  BY <1>2 DEF whole

\* The gain that is expected of an action, and the same with its efficiency.
LEMMA GainIs ==
  ASSUME NEW H, History(H), NEW role \in Roles, NEW source, NEW branch, NEW recentRoles
  PROVE  LET gain == expected_evidence_gain(H, role, source, branch, recentRoles)
             whole == Base[role] * Factor(role, recentRoles)
         IN /\ gain \in Percent /\ Base[role] \in 0..100
            /\ gain * 100 <= whole
            /\ ContextualPenalty(H, role, source, branch) = 100 => gain = whole \div 100
<1> DEFINE P == ContextualPenalty(H, role, source, branch)
           F == Factor(role, recentRoles)
           gain == (Base[role] * F * P) \div 10000
<1>1. Base[role] \in 0..100
  BY EconomicsAssumption
<1>2. P \in 50..100 /\ F \in {75, 100}
  BY ContextIs DEF Factor
<1>3. expected_evidence_gain(H, role, source, branch, recentRoles) = gain
  BY DEF expected_evidence_gain, Factor
<1> HIDE DEF P, F
<1> DEFINE whole == Base[role] * F
<1>4. whole \in Nat /\ whole <= 10000
  <2> HIDE DEF gain
  <2> QED
    BY <1>1, <1>2, WholeIs
<1>5. gain = (whole * P) \div 10000
  OBVIOUS
<1> HIDE DEF whole, gain
<1> DEFINE total == whole * P
<1>6. total \in Int /\ 0 <= total /\ total <= whole * 100
  BY <1>2, <1>4
<1>7. gain = total \div 10000
  BY <1>5
<1>8. P = 100 => total = whole * 100
  OBVIOUS
<1> HIDE DEF total
<1>9. gain \in 0..100
  <2>1. whole * 100 <= 100 * 10000
    BY <1>4
  <2>2. 0 * 10000 <= total
    BY <1>6
  <2>3. whole * 100 \in Int /\ 100 * 10000 \in Int
    BY <1>4
  <2>4. total <= 100 * 10000
    BY <1>6, <2>1, <2>3
  <2>5. 10000 \in Nat \ {0}
    OBVIOUS
  <2> QED
    BY <1>6, <1>7, <2>2, <2>4, <2>5, DivBounds
<1>10. gain * 100 <= whole
  <2>1. 10000 * gain <= total
    BY <1>6, <1>7
  <2> QED
    BY <1>4, <1>6, <1>9, <2>1
<1>11. P = 100 => gain = whole \div 100
  BY <1>4, <1>6, <1>7, <1>8
<1> QED
  BY <1>1, <1>3, <1>9, <1>10, <1>11 DEF Percent, P, F, whole

\* The gains that are stored with a decision are per cent.
LEMMA EconomicsAre ==
  ASSUME NEW H, History(H), NEW role \in Roles, NEW source, NEW branch, NEW recentRoles
  PROVE  LET e == action_economics(H, role, source, branch, recentRoles)
         IN e.raw \in Percent /\ e.expected \in Percent
<1> DEFINE raw == expected_evidence_gain(H, role, source, branch, recentRoles)
           cal == action_calibration(H, role, source)
<1>1. raw \in 0..100
  BY GainIs DEF Percent
<1>2. cal \in 75..125
  BY CalibrationIs
<1>3. action_economics(H, role, source, branch, recentRoles).raw = raw
      /\ action_economics(H, role, source, branch, recentRoles).expected
           = AtMost(100, (raw * cal) \div 100)
  BY DEF action_economics
<1> HIDE DEF raw, cal
<1>4. raw * cal \in Int /\ 0 <= raw * cal
  BY <1>1, <1>2
<1>5. (raw * cal) \div 100 \in Int /\ 0 <= (raw * cal) \div 100
  BY <1>4
<1> QED
  BY <1>1, <1>3, <1>5 DEF Percent, AtMost

-----------------------------------------------------------------------------
(* A failure lowers a score *)

\* A nonempty finite set of numbers, or of what a function maps to numbers, has a largest member.
LEMMA LargestExists ==
  ASSUME NEW S, IsFiniteSet(S), S # {}, NEW f, \A x \in S : f[x] \in Int
  PROVE  \E x \in S : \A y \in S : f[y] <= f[x]
<1> DEFINE Has(s) == s # {} => \E x \in s : \A y \in s : f[y] <= f[x]
           G == {n \in Nat : \A s \in SUBSET S : Cardinality(s) = n => Has(s)}
<1>1. 0 \in G
  <2>1. ASSUME NEW s \in SUBSET S, Cardinality(s) = 0 PROVE s = {}
    BY <2>1, NothingLeft
  <2> QED
    BY <2>1
<1>2. ASSUME NEW n \in Nat, n \in G PROVE n + 1 \in G
  <2>1. ASSUME NEW s \in SUBSET S, Cardinality(s) = n + 1, s # {}
        PROVE  \E x \in s : \A y \in s : f[y] <= f[x]
    <3>1. /\ Any(s) \in s /\ s \ {Any(s)} \in SUBSET S /\ Cardinality(s \ {Any(s)}) = n
      <4>1. Cardinality(s \ {Any(s)}) \in Nat
            /\ Cardinality(s) = Cardinality(s \ {Any(s)}) + 1
            /\ Any(s) \in s /\ s \ {Any(s)} \in SUBSET S
        BY <2>1, OneLess
      <4> QED
        BY <2>1, <4>1
    <3>2. CASE s \ {Any(s)} = {}
      <4>1. \A y \in s : y = Any(s)
        BY <3>2
      <4>2. f[Any(s)] \in Int
        BY <3>1
      <4>3. \A y \in s : f[y] <= f[Any(s)]
        BY <4>1, <4>2
      <4> QED
        BY <3>1, <4>3
    <3>3. CASE s \ {Any(s)} # {}
      <4>1. PICK x \in s \ {Any(s)} : \A y \in s \ {Any(s)} : f[y] <= f[x]
        BY <1>2, <3>1, <3>3
      <4>2. f[x] \in Int /\ f[Any(s)] \in Int
        BY <3>1
      <4>3. CASE f[Any(s)] <= f[x]
        BY <4>1, <4>3
      <4>4. CASE ~(f[Any(s)] <= f[x])
        <5>1. ASSUME NEW y \in s PROVE f[y] <= f[Any(s)]
          <6>1. f[y] \in Int
            OBVIOUS
          <6>2. y # Any(s) => f[y] <= f[x]
            BY <4>1
          <6> QED
            BY <4>2, <4>4, <6>1, <6>2
        <5> QED
          BY <3>1, <5>1
      <4> QED
        BY <4>3, <4>4
    <3> QED
      BY <3>2, <3>3
  <2> QED
    BY <2>1
<1>3. Cardinality(S) \in Nat
  BY FS_CardinalityType
<1>4. Cardinality(S) \in G
  <2> HIDE DEF G
  <2> QED
    BY <1>1, <1>2, <1>3, CountingUp
<1> QED
  BY <1>4

\* The newest n samples of n or more are n at least.
LEMMA NewestAreEnough ==
  ASSUME NEW H, IsFiniteSet(H), \A s \in H : s.at \in Int, NEW n \in Nat, n <= Cardinality(H)
  PROVE  /\ Newest(H, n) \in SUBSET H
         /\ Cardinality(Newest(H, n)) \in Nat /\ n <= Cardinality(Newest(H, n))
<1> DEFINE N == Newest(H, n)
           rest == H \ N
<1>1. N \in SUBSET H
  BY DEF Newest
<1>2. IsFiniteSet(N) /\ IsFiniteSet(rest)
  BY <1>1, FS_Subset
<1>3. Cardinality(N) \in Nat
  BY <1>2, FS_CardinalityType
<1>4. SUFFICES ASSUME Cardinality(N) < n PROVE FALSE
  BY <1>1, <1>3
<1>5. rest # {}
  <2>1. SUFFICES ASSUME rest = {} PROVE FALSE
    OBVIOUS
  <2>2. N = H
    BY <1>1, <2>1
  <2> HIDE DEF N
  <2> QED
    BY <1>3, <1>4, <2>2
<1>6. PICK x \in rest : \A y \in rest : y.at <= x.at
  <2> DEFINE f == [s \in rest |-> s.at]
  <2>1. \A s \in rest : f[s] \in Int
    OBVIOUS
  <2> HIDE DEF f
  <2>2. PICK x \in rest : \A y \in rest : f[y] <= f[x]
    BY <1>2, <1>5, <2>1, LargestExists
  <2> QED
    BY <2>2 DEF f
<1> DEFINE later == {u \in H : u.at > x.at}
<1>7. later \in SUBSET N
  <2>1. ASSUME NEW u \in later, u \notin N PROVE FALSE
    <3>1. u \in rest /\ u.at > x.at /\ u.at <= x.at /\ u.at \in Int /\ x.at \in Int
      BY <1>6, <2>1
    <3> QED
      BY <3>1
  <2> QED
    BY <2>1
<1>8. Cardinality(later) \in Nat /\ Cardinality(later) <= Cardinality(N)
  <2> HIDE DEF later, N
  <2> QED
    BY <1>2, <1>7, FS_Subset, FS_CardinalityType
<1>9. Cardinality(later) < n
  BY <1>3, <1>4, <1>8
<1>10. x \in N
  BY <1>9 DEF Newest
<1> QED
  BY <1>10

\* What brought all it promised has no viability penalty.
LEMMA PenaltyOfFull ==
  ASSUME NEW H, History(H), NEW source, NEW candidate,
         \A s \in Of(H, candidate) : s.actual = 100
  PROVE  Penalty(H, source, candidate) = 100
<1> DEFINE own == From(Of(H, candidate), source)
           recent == Newest(own, RecentSamples)
<1>1. recent \in SUBSET H /\ \A s \in recent : s.actual = 100
  BY DEF Newest, Of, From
<1>2. History(recent)
  BY <1>1, PartOfHistory
<1>3. Mean(recent, "raw") \in 100..150
  BY <1>1, <1>2, MeanOfFull
<1>4. ~(Mean(recent, "raw") < RecoveryRatio)
  BY <1>3 DEF RecoveryRatio
<1> QED
  BY <1>4, Zenon DEF Penalty

\* What brought nothing, often enough, has the full viability penalty.
LEMMA PenaltyOfWorthless ==
  ASSUME NEW H, History(H), \A s \in H : s.at \in Int, NEW source, NEW candidate,
         LET own == From(Of(H, candidate), source)
         IN  /\ Cardinality(own) >= ViabilitySamples /\ Cardinality(own) >= RecentSamples
             /\ \A s \in own : s.actual = 0 /\ s.raw > 5
  PROVE  Penalty(H, source, candidate) = 25
<1> DEFINE own == From(Of(H, candidate), source)
           recent == Newest(own, RecentSamples)
<1>1. own \in SUBSET H
  BY DEF Of, From
<1>2. History(own) /\ IsFiniteSet(own) /\ Cardinality(own) \in Nat
  BY <1>1, PartOfHistory DEF History
<1>3. /\ Cardinality(own) >= ViabilitySamples /\ Cardinality(own) >= RecentSamples
      /\ \A s \in own : s.actual = 0 /\ s.raw > 5 /\ s.at \in Int
  BY <1>1
<1>4. RecentSamples \in Nat \ {0}
  BY EconomicsAssumption
<1>5. Penalty(H, source, candidate)
        = IF /\ Cardinality(own) >= ViabilitySamples
             /\ Cardinality(Weighed(recent, "raw")) >= RecentSamples
             /\ Mean(recent, "raw") < RecoveryRatio
          THEN AtLeast(25, 25 + (75 * Mean(recent, "raw")) \div RecoveryRatio)
          ELSE 100
  BY DEF Penalty
<1> HIDE DEF own
<1>6. recent \in SUBSET own /\ Cardinality(recent) \in Nat /\ RecentSamples <= Cardinality(recent)
  BY <1>2, <1>3, <1>4, NewestAreEnough
<1> HIDE DEF recent
<1>7. History(recent)
  BY <1>2, <1>6, PartOfHistory
<1>8. recent # {}
  <2>1. SUFFICES ASSUME recent = {} PROVE FALSE
    OBVIOUS
  <2>2. Cardinality(recent) = 0
    BY <2>1, FS_EmptySet
  <2> QED
    BY <1>4, <1>6, <2>2
<1>9. \A s \in recent : s.actual = 0 /\ s.raw > 5
  BY <1>3, <1>6
<1>10. Mean(recent, "raw") = 0 /\ Weighed(recent, "raw") = recent
  BY <1>7, <1>8, <1>9, MeanOfWorthless
<1>11. Cardinality(Weighed(recent, "raw")) >= RecentSamples
  BY <1>4, <1>6, <1>10
<1>12. AtLeast(25, 25 + (75 * Mean(recent, "raw")) \div RecoveryRatio) = 25
  BY <1>10 DEF AtLeast, RecoveryRatio
<1>13. Mean(recent, "raw") < RecoveryRatio
  BY <1>10 DEF RecoveryRatio
<1> QED
  BY <1>3, <1>5, <1>11, <1>12, <1>13, Zenon

\* A score, of the expected gain, the cost and the penalty of an action.
Graded(expected, cost, penalty) == 1000 * (((100 * expected) \div cost) * penalty) + expected

\* Products are ordered as their factors are.
LEMMA CancelLess ==
  ASSUME NEW a \in Int, NEW b \in Int, NEW c \in Nat \ {0}, c * a < c * b
  PROVE  a < b
BY SMT

LEMMA Cheaper ==
  ASSUME NEW c \in Nat, NEW d \in Nat, NEW a \in Nat, c <= d
  PROVE  c * a <= d * a
BY SMT

\* The better promise stays the better one when recent roles count three quarters.
LEMMA Promises ==
  ASSUME NEW a \in 0..100, NEW b \in 0..100, NEW x \in {75, 100}, NEW y \in {75, 100},
         a > 5, b >= a, x <= y
  PROVE  a * x <= b * y /\ 4 * 100 <= b * y /\ b * y \in Int /\ a * x \in Int
<1>1. CASE x = 75 /\ y = 75
  BY <1>1
<1>2. CASE x = 75 /\ y = 100
  BY <1>2
<1>3. CASE x = 100 /\ y = 100
  BY <1>3
<1> QED
  BY <1>1, <1>2, <1>3

\* Of two actions of which one promises no more and costs no less than the other,
\* and is held to bring a quarter more than that at most, the one with a quarter of
\* the other's penalty scores less.
LEMMA ScoresApart ==
  ASSUME NEW good \in Percent, NEW poor \in Percent, 4 <= good, 4 * poor <= 5 * good,
         NEW c \in 1..100, NEW d \in 1..100, c <= d
  PROVE  ~(Graded(good, c, 100) <= Graded(poor, d, 25))
<1> DEFINE p == (100 * poor) \div d
           g == (100 * good) \div c
<1>0. good \in 0..100 /\ poor \in 0..100
  BY DEF Percent
<1>1. p \in Int /\ 0 <= p
  <2>1. 0 * d <= 100 * poor /\ 100 * poor \in Int /\ d \in Nat \ {0}
    BY <1>0
  <2> QED
    BY <2>1, QuotientAtLeast
<1>2. d * p <= 100 * poor
  BY <1>0
<1>3. g \in Int /\ good <= g
  <2>1. good * c <= 100 * good /\ 100 * good \in Int /\ c \in Nat \ {0} /\ good \in Int
    BY <1>0
  <2> QED
    BY <2>1, QuotientAtLeast
<1>4. 100 * good < c * g + c
  BY <1>0
<1> HIDE DEF p, g
<1>5. c * (g + 1) <= d * (g + 1)
  BY <1>0, <1>3, Cheaper
<1>6. d * (4 * p) < d * (5 * (g + 1))
  <2>1. d * (4 * p) = 4 * (d * p) /\ d * (5 * (g + 1)) = 5 * (d * (g + 1))
        /\ c * (g + 1) = c * g + c /\ d * p \in Int /\ d * (g + 1) \in Int /\ c * g \in Int
    BY <1>1, <1>3
  <2> QED
    BY <1>0, <1>2, <1>4, <1>5, <2>1
<1>7. 4 * p < 5 * (g + 1)
  <2>1. 4 * p \in Int /\ 5 * (g + 1) \in Int /\ d \in Nat \ {0}
    BY <1>1, <1>3
  <2> QED
    BY <1>6, <2>1, CancelLess
<1>8. p * 25 + 1 <= g * 100
  BY <1>0, <1>1, <1>3, <1>7
<1> QED
  BY <1>0, <1>1, <1>3, <1>8 DEF p, g, Graded

\* An action whose samples were all worthless scores less than one that promises as much
\* for no more and has brought all it promised.
LEMMA FailureScoresLess ==
  ASSUME NEW H, History(H), \A s \in H : s.at \in Int,
         NEW w \in Roles, NEW r \in Roles, NEW source, NEW branch, NEW recentRoles,
         Base[w] > 5, Base[r] >= Base[w], Cost[r] <= Cost[w], r \in recentRoles => w \in recentRoles,
         LET own == From(Of(H, w), source)
         IN  /\ Cardinality(own) >= ViabilitySamples /\ Cardinality(own) >= RecentSamples
             /\ \A s \in own : s.actual = 0 /\ s.raw > 5,
         \A s \in Of(H, r) : s.actual = 100
  PROVE  ~(Score(H, r, source, branch, recentRoles) <= Score(H, w, source, branch, recentRoles))
<1> DEFINE ew == action_economics(H, w, source, branch, recentRoles)
           er == action_economics(H, r, source, branch, recentRoles)
           gw == expected_evidence_gain(H, w, source, branch, recentRoles)
           gr == expected_evidence_gain(H, r, source, branch, recentRoles)
           cw == action_calibration(H, w, source)
           cr == action_calibration(H, r, source)
           fw == Factor(w, recentRoles)
           fr == Factor(r, recentRoles)
<1>1. Penalty(H, source, w) = 25 /\ Penalty(H, source, r) = 100
  BY PenaltyOfFull, PenaltyOfWorthless
<1>2. /\ Score(H, w, source, branch, recentRoles) = Graded(ew.expected, Cost[w], 25)
      /\ Score(H, r, source, branch, recentRoles) = Graded(er.expected, Cost[r], 100)
  BY <1>1 DEF Score, action_economics, Graded
<1>3. ew.expected = AtMost(100, (gw * cw) \div 100) /\ er.expected = AtMost(100, (gr * cr) \div 100)
  BY DEF action_economics
<1>4. ew.expected \in Percent /\ er.expected \in Percent
  BY EconomicsAre
<1>5. cw \in 75..125 /\ cr \in 100..125
  BY CalibrationIs
<1>6. ContextualPenalty(H, r, source, branch) = 100
  BY ContextIs
<1>7. /\ gw \in Percent /\ gr \in Percent /\ gw * 100 <= Base[w] * fw
      /\ gr = (Base[r] * fr) \div 100 /\ Base[w] \in 0..100 /\ Base[r] \in 0..100
  BY <1>6, GainIs
<1>8. fw \in {75, 100} /\ fr \in {75, 100} /\ fw <= fr
  BY DEF Factor
<1>9. Cost[w] \in 1..100 /\ Cost[r] \in 1..100
  BY EconomicsAssumption
<1> HIDE DEF ew, er, gw, gr, cw, cr, fw, fr
<1>10. Base[w] * fw <= Base[r] * fr /\ 4 * 100 <= Base[r] * fr /\ Base[r] * fr \in Int /\ Base[w] * fw \in Int
  <2> DEFINE a == Base[w]
             b == Base[r]
  <2>1. a \in 0..100 /\ b \in 0..100 /\ a > 5 /\ b >= a
    BY <1>7
  <2> HIDE DEF a, b
  <2>2. a * fw <= b * fr /\ 4 * 100 <= b * fr /\ b * fr \in Int /\ a * fw \in Int
    BY <1>8, <2>1, Promises
  <2> QED
    BY <2>2 DEF a, b
<1>11. gw <= gr /\ 4 <= gr
  <2>1. gw * 100 <= Base[r] * fr /\ gw \in Int /\ 100 \in Nat \ {0}
    BY <1>7, <1>10 DEF Percent
  <2> QED
    BY <1>7, <1>10, <2>1, QuotientAtLeast
<1>12. gr <= er.expected
  <2>1. gr * 100 <= gr * cr /\ gr * cr \in Int /\ gr \in Int
    BY <1>5, <1>7 DEF Percent
  <2>2. (gr * cr) \div 100 \in Int /\ gr <= (gr * cr) \div 100
    BY <2>1, QuotientAtLeast
  <2> QED
    BY <1>3, <1>7, <2>2 DEF AtMost, Percent
<1>13. 4 * ew.expected <= 5 * gw
  <2>1. gw * cw <= gw * 125 /\ gw * cw \in Int
    BY <1>5, <1>7 DEF Percent
  <2> DEFINE part == (gw * cw) \div 100
  <2>2. part \in Int /\ 100 * part <= gw * cw
    BY <2>1
  <2>3. ew.expected = AtMost(100, part) /\ gw \in 0..100
    BY <1>3, <1>7 DEF Percent
  <2> HIDE DEF part
  <2>4. 4 * part <= 5 * gw
    BY <2>1, <2>2, <2>3
  <2> QED
    BY <2>2, <2>3, <2>4 DEF AtMost
<1>14. 4 <= er.expected /\ 4 * ew.expected <= 5 * er.expected
  <2> DEFINE x == ew.expected
             y == er.expected
  <2>1. /\ x \in 0..100 /\ y \in 0..100 /\ gw \in 0..100 /\ gr \in 0..100
        /\ gw <= gr /\ 4 <= gr /\ gr <= y /\ 4 * x <= 5 * gw
    BY <1>4, <1>7, <1>11, <1>12, <1>13 DEF Percent
  <2> HIDE DEF x, y
  <2>2. 4 <= y /\ 4 * x <= 5 * y
    BY <2>1
  <2> QED
    BY <2>2 DEF x, y
<1>16. ~(Graded(er.expected, Cost[r], 100) <= Graded(ew.expected, Cost[w], 25))
  <2> DEFINE poor == ew.expected
             good == er.expected
             c == Cost[r]
             d == Cost[w]
  <2>1. /\ poor \in Percent /\ good \in Percent /\ 4 <= good /\ 4 * poor <= 5 * good
        /\ c \in 1..100 /\ d \in 1..100 /\ c <= d
    BY <1>4, <1>9, <1>14
  <2> HIDE DEF poor, good, c, d
  <2>2. ~(Graded(good, c, 100) <= Graded(poor, d, 25))
    BY <2>1, ScoresApart
  <2> QED
    BY <2>2 DEF poor, good, c, d
<1> QED
  BY <1>2, <1>16, Zenon

-----------------------------------------------------------------------------
(* The inductive invariant of the feedback *)

Past == {"completed", "failed"}

\* Rows come one after the other, and after their parents.
QueueInv ==
  /\ status \in [TaskId -> {"none", "active", "asking", "handing", "completed", "failed"}]
  /\ row \in [TaskId -> [parent : 0..MaxTasks, role : Roles \cup {"evidence", "executor"}, eval : BOOLEAN]]
  /\ \A t \in TaskId : /\ row[t].parent \in 0..(t - 1)
                       /\ row[t].parent # NoTask => t \in Rows /\ row[t].parent \in Rows
                       /\ row[t].eval => t \in Rows /\ row[t].role \in Roles
  /\ \A t \in Rows, u \in TaskId : u < t => u \in Rows

\* A row finishes once.
FinishedInv ==
  /\ finished \in Seq(TaskId)
  /\ \A i, j \in DOMAIN finished : finished[i] = finished[j] => i = j
  /\ \A t \in TaskId : (\E i \in DOMAIN finished : finished[i] = t) <=> status[t] \in Past

DecisionInv ==
  /\ decision \in [TaskId -> {"null", "open", "end"}]
  /\ action \in [TaskId -> Roles \cup {NoRole}]
  /\ economics \in [TaskId -> [raw : Percent, expected : Percent]]
  /\ \A t \in TaskId : /\ decision[t] # "null" => status[t] = "completed" /\ ~row[t].eval
                       /\ action[t] # NoRole => decision[t] # "null" /\ row[t].role # "executor"

\* The sample of a row that is not decided is one of its parent's action, if that acted.
OutcomeInv ==
  /\ outcome \in [TaskId -> Outcome \cup {NoOutcome}]
  /\ Cardinality(Sampled(outcome)) <= MaxRows
  /\ \A t \in Sampled(outcome) :
       /\ status[t] = "completed" /\ ~row[t].eval
       /\ outcome[t].parent \in Ancestry[t] /\ ~row[outcome[t].parent].eval
       /\ decision[t] = "null" /\ row[t].parent # NoTask /\ action[row[t].parent] # NoRole
            => outcome[t].parent = row[t].parent
  /\ \A t, u \in Sampled(outcome) : outcome[t].parent = outcome[u].parent => t = u

CreditInv ==
  /\ owed \subseteq TaskId
  /\ \A t \in owed : row[t].role = "executor" /\ status[t] = "completed"
  /\ feedback \subseteq [task : TaskId, origin : TaskId]
  /\ \A f \in feedback :
       /\ row[f.task].role = "executor" /\ status[f.task] = "completed"
       /\ action[f.origin] # NoRole /\ f.origin \in Ancestry[f.task]
       /\ \A g \in feedback : g.task = f.task => g = f

ShadowInv ==
  /\ \A t \in ShadowRows : Children(t) = {}
  /\ evaluations \subseteq Evaluation
  /\ \A e \in evaluations :
       /\ {e.selected, e.shadow} \subseteq Children(e.parent)
       /\ e.status = "completed" => status[e.selected] = "completed" /\ status[e.shadow] = "completed"

Full == Cardinality(Sampled(outcome)) = MaxRows

\* The action a row answers is measured, unless samples have been pushed out or its
\* own measurement has failed.
Replied(t) ==
  Ordinary(t) /\ row[t].parent # NoTask /\ action[row[t].parent] # NoRole
    => Measured(row[t].parent) \/ Full \/ t \in refused

DecidedInv == \A t \in TaskId : decision[t] # "null" => Replied(t)

StoreInv == /\ QueueInv /\ FinishedInv /\ DecisionInv /\ OutcomeInv /\ CreditInv
            /\ ShadowInv /\ DecidedInv

AtRow == mpc \in {"choose", "mark", "spawn", "add", "insert"}
Judging == mpc \in {"choose", "mark"}
Spawning == mpc \in {"spawn", "add", "insert"}

PassTypes ==
  /\ mpc \in {"shadows", "load", "row", "choose", "mark", "spawn", "add", "insert"}
  /\ chosen \in Roles \cup {NoRole}
  /\ plan \subseteq TaskId /\ cur \in 0..MaxTasks /\ child \in 0..MaxTasks
  /\ kids \in 0..MaxChildren /\ budget \in 0..MaxPerPlan /\ mishaps \in 0..MaxMishaps
  /\ traces \subseteq [task : TaskId, role : Roles, over : SUBSET Roles]
  /\ refused \subseteq TaskId /\ cases \in BOOLEAN

\* Where the planner is: the rows it has yet to take up have no children, nor has
\* the one it decides, and that one is measured before.
Place ==
  /\ \A t \in plan : status[t] = "completed" /\ ~row[t].eval /\ Children(t) = {} /\ t # cur
  /\ IF AtRow THEN cur \in TaskId /\ status[cur] = "completed" /\ ~row[cur].eval ELSE cur = NoTask
  /\ Judging => Children(cur) = {} /\ Replied(cur)
  /\ mpc = "mark" => chosen \in Roles /\ row[cur].role # "executor"
  /\ Spawning => action[cur] \in Roles
  /\ mpc \in {"add", "insert"} => child \in Children(cur) /\ row[child].role \in Roles
  /\ mpc = "insert" =>
       \E s \in ShadowRows : row[s].parent = cur /\ \A v \in ShadowRows : v <= s

FeedbackInv == StoreInv /\ PassTypes /\ Place

-----------------------------------------------------------------------------
(* Ancestors *)

Upwards(r) == \A t \in TaskId : r[t].parent \in 0..(t - 1)

Climbs(r, A, t) == A[t] = IF r[t].parent = NoTask THEN {t} ELSE {t} \cup A[r[t].parent]

\* The walk up the parents is what its recursion says.
LEMMA AncestryUnfolds ==
  ASSUME NEW r, Upwards(r)
  PROVE  \A t \in TaskId : Climbs(r, AncestryIn(r), t)
<1> DEFINE body(g) == [t \in TaskId |-> IF r[t].parent = NoTask THEN {t} ELSE {t} \cup g[r[t].parent]]
           walk == CHOOSE g : g = body(g)
           Upto(g, n) == \A t \in TaskId : t <= n => Climbs(r, g, t)
           G == {n \in Nat : \E g : Upto(g, n)}
<1>0. TaskId \in SUBSET Nat /\ MaxTasks \in Nat /\ NoTask = 0
  BY FeedbackAssumption DEF TaskId, NoTask
<1>1. AncestryIn(r) = walk
  BY Zenon DEF AncestryIn
<1>2. 0 \in G
  <2>1. Upto([t \in TaskId |-> {}], 0)
    BY DEF TaskId
  <2> QED
    BY <2>1
<1>3. ASSUME NEW n \in Nat, n \in G PROVE n + 1 \in G
  <2>1. PICK g : Upto(g, n)
    BY <1>3
  <2> DEFINE h == [t \in TaskId |-> IF t <= n THEN g[t]
                                      ELSE IF r[t].parent = NoTask THEN {t} ELSE {t} \cup g[r[t].parent]]
  <2>2. ASSUME NEW t \in TaskId, t <= n + 1 PROVE Climbs(r, h, t)
    <3>1. r[t].parent \in 0..(t - 1) /\ t \in Nat
      BY <1>0 DEF Upwards
    <3>2. r[t].parent # NoTask => r[t].parent \in TaskId /\ r[t].parent <= n
      BY <1>0, <2>2, <3>1 DEF TaskId
    <3>3. r[t].parent # NoTask => h[r[t].parent] = g[r[t].parent]
      BY <3>2
    <3>4. h[t] = IF r[t].parent = NoTask THEN {t} ELSE {t} \cup g[r[t].parent]
      <4>1. CASE t <= n
        <5>1. Climbs(r, g, t)
          BY <2>1, <4>1
        <5> QED
          BY <4>1, <5>1 DEF Climbs
      <4>2. CASE ~(t <= n)
        BY <4>2
      <4> QED
        BY <4>1, <4>2
    <3> HIDE DEF h
    <3> QED
      BY <3>3, <3>4 DEF Climbs
  <2>3. Upto(h, n + 1)
    BY <2>2
  <2> HIDE DEF h, Upto
  <2> QED
    BY <2>3
<1>5. MaxTasks \in G
  <2> HIDE DEF G
  <2> QED
    BY <1>0, <1>2, <1>3, CountingUp
<1>6. PICK g : \A t \in TaskId : Climbs(r, g, t)
  BY <1>5 DEF TaskId
<1>7. \E h : h = body(h)
  <2> DEFINE h == [t \in TaskId |-> g[t]]
  <2>1. ASSUME NEW t \in TaskId
        PROVE  h[t] = IF r[t].parent = NoTask THEN {t} ELSE {t} \cup h[r[t].parent]
    <3>1. r[t].parent # NoTask => r[t].parent \in TaskId
      BY <1>0 DEF Upwards, TaskId
    <3>2. Climbs(r, g, t)
      BY <1>6
    <3> QED
      BY <3>1, <3>2 DEF Climbs
  <2>2. h = body(h)
    BY <2>1
  <2> HIDE DEF h, body
  <2> QED
    BY <2>2
<1>8. walk = body(walk)
  <2> HIDE DEF body
  <2> QED
    BY <1>7
<1>9. \A t \in TaskId : Climbs(r, walk, t)
  <2> HIDE DEF walk
  <2>1. ASSUME NEW t \in TaskId
        PROVE  walk[t] = IF r[t].parent = NoTask THEN {t} ELSE {t} \cup walk[r[t].parent]
    BY <1>8
  <2> QED
    BY <2>1, Zenon DEF Climbs
<1> HIDE DEF walk
<1> QED
  BY <1>1, <1>9

\* Who is in it is the row itself, or has a child in it, and is no later than the row.
LEMMA AncestryIs ==
  ASSUME NEW r, Upwards(r)
  PROVE  \A t \in TaskId :
           LET A == AncestryIn(r) IN
           /\ t \in A[t] /\ A[t] \in SUBSET (1..t) /\ A[t] \in SUBSET TaskId
           /\ r[t].parent # NoTask => r[t].parent \in A[t]
           /\ \A o \in A[t] : /\ o # t => \E c \in TaskId : r[c].parent = o /\ c <= t
                              /\ o # t => r[t].parent # NoTask /\ o <= r[t].parent
<1> DEFINE A == AncestryIn(r)
           Good(t) == /\ t \in A[t] /\ A[t] \in SUBSET (1..t)
                      /\ r[t].parent # NoTask => r[t].parent \in A[t]
                      /\ \A o \in A[t] : /\ o # t => \E c \in TaskId : r[c].parent = o /\ c <= t
                                         /\ o # t => r[t].parent # NoTask /\ o <= r[t].parent
           G == {n \in Nat : \A t \in TaskId : t <= n => Good(t)}
<1>0. TaskId \in SUBSET Nat /\ MaxTasks \in Nat /\ NoTask = 0
  BY FeedbackAssumption DEF TaskId, NoTask
<1>1. \A t \in TaskId : Climbs(r, A, t)
  BY AncestryUnfolds
<1> HIDE DEF A
<1>2. 0 \in G
  BY DEF TaskId
<1>3. ASSUME NEW n \in Nat, n \in G PROVE n + 1 \in G
  <2>1. ASSUME NEW t \in TaskId, t <= n + 1 PROVE Good(t)
    <3>1. r[t].parent \in 0..(t - 1) /\ t \in Nat /\ t >= 1
      BY <1>0 DEF Upwards, TaskId
    <3>2. CASE r[t].parent = NoTask
      <4>1. A[t] = {t}
        BY <1>1, <3>2 DEF Climbs
      <4> QED
        BY <3>1, <3>2, <4>1
    <3>3. CASE r[t].parent # NoTask
      <4> DEFINE p == r[t].parent
      <4>1. A[t] = {t} \cup A[p]
        BY <1>1, <3>3 DEF Climbs
      <4>2. p \in TaskId /\ p <= n /\ p < t /\ p \in Nat
        BY <1>0, <2>1, <3>1, <3>3 DEF TaskId
      <4>3. Good(p)
        BY <1>3, <4>2
      <4>4. A[t] \in SUBSET (1..t) /\ t \in A[t] /\ p \in A[t]
        BY <3>1, <4>1, <4>2, <4>3
      <4>5. ASSUME NEW o \in A[t], o # t
            PROVE  (\E c \in TaskId : r[c].parent = o /\ c <= t) /\ o <= p
        <5>1. o \in A[p] /\ o \in 1..p
          BY <4>1, <4>3, <4>5
        <5>2. CASE o = p
          BY <3>1, <4>2, <5>2
        <5>3. CASE o # p
          <6>1. PICK c \in TaskId : r[c].parent = o /\ c <= p
            BY <4>3, <5>1, <5>3
          <6> QED
            BY <1>0, <3>1, <4>2, <5>1, <6>1
        <5> QED
          BY <5>2, <5>3
      <4> QED
        BY <3>3, <4>4, <4>5
    <3> QED
      BY <3>2, <3>3
  <2> HIDE DEF Good
  <2> QED
    BY <2>1
<1>4. MaxTasks \in G
  <2> HIDE DEF G
  <2> QED
    BY <1>0, <1>2, <1>3, CountingUp
<1>5. \A t \in TaskId : Good(t)
  BY <1>4 DEF TaskId
<1>6. ASSUME NEW t \in TaskId PROVE 1..t \in SUBSET TaskId
  BY <1>0 DEF TaskId
<1> QED
  BY <1>5, <1>6 DEF A

\* Rows with the same parents up to a row have the same ancestors up to it.
LEMMA AncestrySame ==
  ASSUME NEW r, NEW q, Upwards(r), Upwards(q), NEW m \in Nat,
         \A t \in TaskId : t <= m => q[t].parent = r[t].parent
  PROVE  \A t \in TaskId : t <= m => AncestryIn(q)[t] = AncestryIn(r)[t]
<1> DEFINE A == AncestryIn(r)
           B == AncestryIn(q)
           G == {n \in Nat : \A t \in TaskId : t <= n /\ t <= m => B[t] = A[t]}
<1>0. TaskId \in SUBSET Nat /\ MaxTasks \in Nat /\ NoTask = 0
  BY FeedbackAssumption DEF TaskId, NoTask
<1>1. \A t \in TaskId : Climbs(r, A, t) /\ Climbs(q, B, t)
  BY AncestryUnfolds
<1> HIDE DEF A, B
<1>2. 0 \in G
  BY DEF TaskId
<1>3. ASSUME NEW n \in Nat, n \in G PROVE n + 1 \in G
  <2>1. ASSUME NEW t \in TaskId, t <= n + 1, t <= m PROVE B[t] = A[t]
    <3>1. r[t].parent \in 0..(t - 1) /\ t \in Nat /\ t >= 1 /\ q[t].parent = r[t].parent
      BY <1>0, <2>1 DEF Upwards, TaskId
    <3>2. r[t].parent # NoTask =>
            r[t].parent \in TaskId /\ r[t].parent <= n /\ r[t].parent <= m
      BY <1>0, <2>1, <3>1 DEF TaskId
    <3>3. r[t].parent # NoTask => B[r[t].parent] = A[r[t].parent]
      BY <1>3, <3>2
    <3>4. Climbs(r, A, t) /\ Climbs(q, B, t)
      BY <1>1
    <3> QED
      BY <3>1, <3>3, <3>4, Zenon DEF Climbs
  <2> QED
    BY <2>1
<1>4. MaxTasks \in G
  <2> HIDE DEF G
  <2> QED
    BY <1>0, <1>2, <1>3, CountingUp
<1> QED
  BY <1>4 DEF TaskId, A, B

-----------------------------------------------------------------------------
(* What samples are made of *)

\* Rows are finitely many naturals, and no row is zero.
LEMMA TasksFinite ==
  /\ TaskId \in SUBSET Nat /\ IsFiniteSet(TaskId) /\ NoTask = 0 /\ NoTask \notin TaskId
  /\ MaxTasks \in Nat /\ MaxRows \in Nat \ {0} /\ TaskId \in SUBSET (0..MaxTasks)
<1>1. IsFiniteSet(1..MaxTasks)
  BY FeedbackAssumption, FS_Interval
<1> QED
  BY <1>1, FeedbackAssumption DEF TaskId, NoTask

\* Rows come after their parents.
LEMMA QueueGoesUp ==
  ASSUME QueueInv  PROVE Upwards(row)
BY DEF QueueInv, Upwards

\* The origin of a row is the nearest of its ancestors, itself included, that acted.
LEMMA OriginIs ==
  ASSUME QueueInv, NEW t \in TaskId
  PROVE  LET acted == {u \in Ancestry[t] : action[u] # NoRole}
         IN  IF acted = {} THEN Origin(t) = NoTask
             ELSE Origin(t) \in acted /\ \A v \in acted : v <= Origin(t)
<1> DEFINE acted == {u \in Ancestry[t] : action[u] # NoRole}
<1>1. CASE acted = {}
  BY <1>1 DEF Origin
<1>2. CASE acted # {}
  <2>1. acted \in SUBSET TaskId
    BY AncestryIs, QueueGoesUp DEF Ancestry
  <2>2. IsFiniteSet(acted) /\ acted \in SUBSET Nat
    BY <2>1, TasksFinite, FS_Subset
  <2>3. Origin(t) = CHOOSE u \in acted : \A v \in acted : v <= u
    BY <1>2, Zenon DEF Origin
  <2> HIDE DEF acted
  <2>4. \E u \in acted : \A v \in acted : v <= u
    <3> DEFINE f == [u \in acted |-> u]
    <3>1. \A u \in acted : f[u] \in Int
      BY <2>2
    <3>2. \A u \in acted : f[u] = u
      OBVIOUS
    <3> HIDE DEF f
    <3>3. PICK u \in acted : \A v \in acted : f[v] <= f[u]
      BY <1>2, <2>2, <3>1, LargestExists
    <3> QED
      BY <3>2, <3>3
  <2>5. Origin(t) \in acted /\ \A v \in acted : v <= Origin(t)
    BY <2>3, <2>4
  <2> QED
    BY <1>2, <2>5 DEF acted
<1> QED
  BY <1>1, <1>2

\* The origin of a row has acted; it is the parent when that acted and the row did not.
LEMMA OriginFacts ==
  ASSUME QueueInv, DecisionInv, NEW t \in TaskId
  PROVE  /\ Origin(t) # NoTask => /\ Origin(t) \in TaskId /\ Origin(t) \in Ancestry[t]
                                  /\ action[Origin(t)] \in Roles
                                  /\ ~row[Origin(t)].eval
         /\ row[t].parent # NoTask /\ action[row[t].parent] # NoRole =>
              /\ Origin(t) # NoTask
              /\ action[t] = NoRole => Origin(t) = row[t].parent
<1> DEFINE acted == {u \in Ancestry[t] : action[u] # NoRole}
<1>0. /\ Ancestry[t] \in SUBSET TaskId
      /\ row[t].parent # NoTask => row[t].parent \in Ancestry[t]
      /\ \A o \in Ancestry[t] : o # t => o <= row[t].parent
  BY AncestryIs, QueueGoesUp DEF Ancestry
<1>1. IF acted = {} THEN Origin(t) = NoTask
      ELSE Origin(t) \in acted /\ \A v \in acted : v <= Origin(t)
  BY OriginIs
<1>2. ASSUME Origin(t) # NoTask
      PROVE  /\ Origin(t) \in TaskId /\ Origin(t) \in Ancestry[t] /\ action[Origin(t)] \in Roles
             /\ ~row[Origin(t)].eval
  <2>1. Origin(t) \in acted
    BY <1>1, <1>2
  <2> QED
    BY <1>0, <2>1 DEF DecisionInv
<1>3. ASSUME row[t].parent # NoTask, action[row[t].parent] # NoRole
      PROVE  /\ Origin(t) # NoTask
             /\ action[t] = NoRole => Origin(t) = row[t].parent
  <2>1. row[t].parent \in acted
    BY <1>0, <1>3
  <2>2. Origin(t) \in acted /\ row[t].parent <= Origin(t)
    BY <1>1, <2>1
  <2>3. Origin(t) \in TaskId /\ row[t].parent \in TaskId
    BY <1>0, <2>1, <2>2
  <2>4. action[t] = NoRole => Origin(t) <= row[t].parent
    BY <1>0, <2>2
  <2>5. Origin(t) \in Nat /\ row[t].parent \in Nat /\ Origin(t) # NoTask
    BY <2>3, TasksFinite
  <2>6. action[t] = NoRole => Origin(t) = row[t].parent
    BY <2>2, <2>4, <2>5
  <2> QED
    BY <2>5, <2>6
<1> QED
  BY <1>2, <1>3

\* A finished row has its own place in the order of finishing.
LEMMA ObservedAt ==
  ASSUME FinishedInv, NEW t \in TaskId, status[t] \in Past
  PROVE  /\ observed_at(t) \in Int
         /\ observed_at(t) \in DOMAIN finished /\ finished[observed_at(t)] = t
<1>1. \E i \in DOMAIN finished : finished[i] = t
  BY DEF FinishedInv
<1>2. observed_at(t) \in DOMAIN finished /\ finished[observed_at(t)] = t
  BY <1>1 DEF observed_at
<1>3. DOMAIN finished \in SUBSET Int
  BY DEF FinishedInv
<1> QED
  BY <1>2, <1>3

\* The samples are a history.
LEMMA SamplesAre ==
  ASSUME FinishedInv, DecisionInv, OutcomeInv
  PROVE  History(Samples) /\ \A s \in Samples : s.at \in Int
<1> DEFINE sample(t) ==
             [of |-> outcome[t].parent, source |-> row[outcome[t].parent].role,
              role |-> outcome[t].role, raw |-> economics[outcome[t].parent].raw,
              expected |-> outcome[t].expected, actual |-> outcome[t].actual,
              at |-> observed_at(t)]
<1>1. Samples = {sample(t) : t \in Sampled(outcome)}
  BY DEF Samples
<1>2. IsFiniteSet(Sampled(outcome))
  BY TasksFinite, FS_Subset DEF Sampled
<1>3. ASSUME NEW t \in Sampled(outcome)
      PROVE  /\ sample(t).raw \in Percent /\ sample(t).expected \in Percent
             /\ sample(t).actual \in Percent /\ sample(t).at \in Int
  <2>1. t \in TaskId /\ outcome[t] \in Outcome /\ status[t] \in Past
    BY DEF Sampled, OutcomeInv, Past
  <2>2. outcome[t].parent \in TaskId /\ outcome[t].expected \in Percent /\ outcome[t].actual \in Percent
    BY <2>1 DEF Outcome
  <2>3. economics[outcome[t].parent].raw \in Percent
    BY <2>2 DEF DecisionInv
  <2> QED
    BY <2>1, <2>2, <2>3, ObservedAt
<1> HIDE DEF sample
<1>4. IsFiniteSet(Samples)
  <2> DEFINE K == Sampled(outcome)
             f == [t \in K |-> sample(t)]
  <2>1. f \in Surjection(K, Samples)
    BY <1>1 DEF Surjection
  <2> HIDE DEF f, K
  <2>2. IsFiniteSet(K)
    BY <1>2 DEF K
  <2> QED
    BY <2>1, <2>2, FS_Surjection
<1> QED
  BY <1>1, <1>3, <1>4 DEF History

-----------------------------------------------------------------------------
(* DELETE ... OFFSET max_rows *)

\* One row too many loses the oldest, and no more.
LEMMA PrunedIs ==
  ASSUME FinishedInv, NEW f \in [TaskId -> Outcome \cup {NoOutcome}],
         \A t \in Sampled(f) : status[t] \in Past, Cardinality(Sampled(f)) <= MaxRows + 1
  PROVE  /\ Pruned(f) \in [TaskId -> Outcome \cup {NoOutcome}]
         /\ \A t \in TaskId : Pruned(f)[t] \in {f[t], NoOutcome}
         /\ Cardinality(Sampled(Pruned(f))) <= MaxRows
         /\ Cardinality(Sampled(f)) <= MaxRows => Pruned(f) = f
         /\ Cardinality(Sampled(f)) = MaxRows + 1 => Cardinality(Sampled(Pruned(f))) = MaxRows
<1> DEFINE K == Sampled(f)
           M == MaxRows
<1>0. M \in Nat \ {0}
  BY TasksFinite
<1>1. K \in SUBSET TaskId /\ IsFiniteSet(K)
  BY TasksFinite, FS_Subset DEF Sampled
<1>2. Cardinality(K) \in Nat
  BY <1>1, FS_CardinalityType
<1>3. \A t \in TaskId : Pruned(f)[t] = IF t \in K /\ Cardinality(Newer(f, t)) >= M
                                       THEN NoOutcome ELSE f[t]
  BY DEF Pruned
<1>4. Pruned(f) \in [TaskId -> Outcome \cup {NoOutcome}]
  BY DEF Pruned
<1>5. \A t \in K : observed_at(t) \in Int /\ finished[observed_at(t)] = t
  BY <1>1, ObservedAt
<1>6. ASSUME NEW t \in K PROVE Newer(f, t) \in SUBSET (K \ {t})
  BY <1>5, <1>6 DEF Newer
<1>7. ASSUME NEW s \in SUBSET K
      PROVE  IsFiniteSet(s) /\ Cardinality(s) \in Nat /\ Cardinality(s) <= Cardinality(K)
  BY <1>1, FS_Subset, FS_CardinalityType
<1>8. ASSUME NEW t \in K PROVE Cardinality(K \ {t}) = Cardinality(K) - 1 /\ K \ {t} \in SUBSET K
  BY <1>1, FS_RemoveElement
<1>9. ASSUME NEW s, NEW r \in SUBSET s, s \in SUBSET K
      PROVE  Cardinality(r) \in Nat /\ Cardinality(s) \in Nat /\ Cardinality(r) <= Cardinality(s)
  <2>1. IsFiniteSet(s)
    BY <1>1, <1>9, FS_Subset
  <2> QED
    BY <2>1, FS_Subset, FS_CardinalityType
<1>10. CASE Cardinality(K) <= M
  <2>1. ASSUME NEW t \in K PROVE ~(Cardinality(Newer(f, t)) >= M)
    <3>1. Cardinality(Newer(f, t)) \in Nat /\ Cardinality(Newer(f, t)) <= Cardinality(K \ {t})
          /\ Cardinality(K \ {t}) = Cardinality(K) - 1
      BY <1>6, <1>8, <1>9
    <3> QED
      BY <1>0, <1>2, <1>10, <3>1
  <2>2. \A t \in TaskId : Pruned(f)[t] = f[t]
    BY <1>3, <2>1
  <2>3. Pruned(f) = f
    BY <1>4, <2>2
  <2> QED
    BY <1>0, <1>2, <1>3, <1>4, <1>10, <2>3
<1>11. CASE Cardinality(K) = M + 1
  <2>1. K # {}
    <3>1. SUFFICES ASSUME K = {} PROVE FALSE
      OBVIOUS
    <3>2. Cardinality(K) = 0
      BY <3>1, FS_EmptySet
    <3> QED
      BY <1>0, <1>11, <3>2
  <2>2. PICK o \in K : \A t \in K : observed_at(o) <= observed_at(t)
    <3> DEFINE age == [t \in K |-> -observed_at(t)]
    <3>1. \A t \in K : age[t] \in Int /\ age[t] = -observed_at(t)
      BY <1>5
    <3> HIDE DEF age
    <3>2. PICK o \in K : \A t \in K : age[t] <= age[o]
      BY <1>1, <2>1, <3>1, LargestExists
    <3> QED
      BY <1>5, <3>1, <3>2
  <2>3. Newer(f, o) = K \ {o}
    <3>1. ASSUME NEW t \in K \ {o} PROVE observed_at(t) > observed_at(o)
      <4>1. observed_at(t) # observed_at(o)
        BY <1>5
      <4> QED
        BY <1>5, <2>2, <4>1
    <3> QED
      BY <1>6, <3>1 DEF Newer
  <2>4. Cardinality(K \ {o}) = M
    BY <1>0, <1>8, <1>11
  <2>5. Cardinality(Newer(f, o)) >= M
    BY <1>0, <2>3, <2>4
  <2>6. ASSUME NEW t \in K \ {o} PROVE ~(Cardinality(Newer(f, t)) >= M)
    <3>1. o \notin Newer(f, t)
      BY <1>5, <2>2 DEF Newer
    <3>2. Newer(f, t) \in SUBSET ((K \ {o}) \ {t})
      BY <1>6, <3>1
    <3>3. IsFiniteSet(K \ {o})
      BY <1>7
    <3>4. Cardinality((K \ {o}) \ {t}) = M - 1
      BY <2>4, <3>3, FS_RemoveElement
    <3>5. Cardinality(Newer(f, t)) \in Nat /\ Cardinality(Newer(f, t)) <= M - 1
      BY <1>9, <3>2, <3>4
    <3> QED
      BY <1>0, <3>5
  <2>7. \A t \in TaskId : Pruned(f)[t] = IF t = o THEN NoOutcome ELSE f[t]
    BY <1>3, <2>5, <2>6
  <2>8. Sampled(Pruned(f)) = K \ {o}
    BY <2>7 DEF Sampled
  <2> QED
    BY <1>0, <1>4, <1>11, <2>4, <2>7, <2>8
<1> QED
  BY <1>0, <1>2, <1>10, <1>11

-----------------------------------------------------------------------------
(* How the rows may change *)

\* A row is queued for a parent that is not a shadow; the parent stays as it is
\* or, when it is being run, asks or hands on.
Inserted(c, p, role, eval) ==
  /\ c \in TaskId /\ Fresh(c) /\ p \in Rows /\ ~row[p].eval
  /\ role \in Roles \cup {"evidence", "executor"} /\ eval \in BOOLEAN /\ (eval => role \in Roles)
  /\ row' = [row EXCEPT ![c] = [parent |-> p, role |-> role, eval |-> eval]]
  /\ status' \in [TaskId -> {"none", "active", "asking", "handing", "completed", "failed"}]
  /\ status'[c] = "active" /\ finished' = finished
  /\ \A u \in TaskId \ {c, p} : status'[u] = status[u]
  /\ status'[p] # status[p] => status[p] = "active" /\ status'[p] \in {"asking", "handing"}

\* A row of which the run goes on or ends.
Moved(t, s) ==
  /\ t \in TaskId /\ status[t] \in {"active", "asking", "handing"}
  /\ s \in {"active", "completed", "failed"}
  /\ status' = [status EXCEPT ![t] = s] /\ row' = row
  /\ finished' = IF s \in Past THEN Append(finished, t) ELSE finished

\* What every such change leaves: the rows that are there, and what is completed.
Kept ==
  /\ \A t \in Rows : t \in Rows' /\ row'[t] = row[t] /\ Ancestry'[t] = Ancestry[t]
  /\ \A t \in TaskId : /\ status[t] = "completed" => status'[t] = "completed"
                       /\ t \in Rows' \ Rows => status'[t] = "active"
                       /\ row'[t].eval => (row[t].eval /\ row'[t] = row[t]) \/ t \notin Rows
  /\ QueueInv' /\ FinishedInv'

\* An inserted row is the newest, and nothing else of the rows changes.
LEMMA InsertedRows ==
  ASSUME StoreInv, NEW c, NEW p, NEW role, NEW eval, Inserted(c, p, role, eval)
  PROVE  /\ Kept /\ Rows' = Rows \cup {c} /\ c \notin Rows /\ p \in TaskId /\ p # c
         /\ row'[c] = [parent |-> p, role |-> role, eval |-> eval]
         /\ \A t \in TaskId : Children(t)' = IF t = p THEN Children(t) \cup {c} ELSE Children(t)
         /\ \A t \in Rows : t < c
<1> USE DEF StoreInv
<1>0. /\ TaskId \in SUBSET Nat /\ NoTask = 0 /\ MaxTasks \in Nat /\ 0 \notin TaskId
      /\ TaskId \in SUBSET (0..MaxTasks) /\ c \in TaskId /\ p \in TaskId /\ p # c /\ status[c] = "none"
  BY TasksFinite DEF Inserted, Rows, Fresh
<1>1. \A t \in TaskId : status[t] # "none" => status'[t] # "none"
  BY <1>0 DEF Inserted
<1>2. Rows' = Rows \cup {c} /\ c \notin Rows
  BY <1>0, <1>1 DEF Inserted, Rows
<1>3. \A t \in Rows : t < c /\ t \in TaskId
  <2>1. ASSUME NEW t \in Rows PROVE t < c
    <3>1. t \in TaskId /\ t # c
      BY <1>2 DEF Rows
    <3>2. c < t => c \in Rows
      BY <1>0 DEF QueueInv
    <3> QED
      BY <1>0, <1>2, <3>1, <3>2
  <2> QED
    BY <2>1 DEF Rows
<1>4. /\ row'[c] = [parent |-> p, role |-> role, eval |-> eval]
      /\ \A t \in TaskId : t # c => row'[t] = row[t]
      /\ row' \in [TaskId -> [parent : 0..MaxTasks, role : Roles \cup {"evidence", "executor"}, eval : BOOLEAN]]
  BY <1>0 DEF Inserted, QueueInv
<1>5. p < c
  BY <1>3 DEF Inserted
<1>6. QueueInv'
  <2>1. \A t \in TaskId : row'[t].parent \in 0..(t - 1)
    BY <1>0, <1>4, <1>5 DEF QueueInv
  <2>2. \A t \in TaskId : /\ row'[t].parent # NoTask => t \in Rows' /\ row'[t].parent \in Rows'
                          /\ row'[t].eval => t \in Rows' /\ row'[t].role \in Roles
    BY <1>2, <1>4 DEF QueueInv, Inserted
  <2>3. ASSUME NEW t \in Rows', NEW u \in TaskId, u < t PROVE u \in Rows'
    <3>1. CASE t = c
      BY <1>2, <2>3, <3>1 DEF Inserted, Fresh, Rows
    <3>2. CASE t # c
      BY <1>2, <2>3, <3>2 DEF QueueInv
    <3> QED
      BY <3>1, <3>2
  <2>4. status' \in [TaskId -> {"none", "active", "asking", "handing", "completed", "failed"}]
    BY DEF Inserted
  <2> QED
    BY <1>4, <2>1, <2>2, <2>3, <2>4 DEF QueueInv
<1>7. \A t \in TaskId : status[t] # status'[t] => /\ status[t] \notin Past /\ status'[t] \notin Past
                                                  /\ status[t] # "completed"
  BY <1>0 DEF Inserted, Past
<1>8. FinishedInv'
  <2>1. \A t \in TaskId : status[t] \in Past <=> status'[t] \in Past
    BY <1>7
  <2> QED
    BY <2>1 DEF FinishedInv, Inserted
<1>9. \A t \in Rows : Ancestry'[t] = Ancestry[t]
  <2>1. Upwards(row) /\ Upwards(row')
    BY <1>6 DEF QueueInv, Upwards
  <2>2. \A t \in TaskId : t <= c - 1 => row'[t].parent = row[t].parent
    BY <1>0, <1>4
  <2>3. c - 1 \in Nat
    BY <1>0
  <2>4. \A t \in TaskId : t <= c - 1 => AncestryIn(row')[t] = AncestryIn(row)[t]
    BY <2>1, <2>2, <2>3, AncestrySame
  <2>5. ASSUME NEW t \in Rows PROVE t <= c - 1
    <3>1. t \in Nat /\ c \in Nat /\ t < c
      BY <1>0, <1>3
    <3> QED
      BY <3>1
  <2> QED
    BY <1>3, <2>4, <2>5 DEF Ancestry
<1>10. \A t \in TaskId : Children(t)' = IF t = p THEN Children(t) \cup {c} ELSE Children(t)
  <2>1. \A t \in TaskId : \A u : u \in Children(t)' <=> (u \in Children(t) \/ (t = p /\ u = c))
    BY <1>2, <1>3, <1>4 DEF Children
  <2> QED
    BY <2>1
<1>11. Kept
  <2>1. \A t \in Rows : t \in Rows' /\ row'[t] = row[t]
    BY <1>2, <1>3, <1>4
  <2>2. \A t \in TaskId : status[t] = "completed" => status'[t] = "completed"
    BY <1>7
  <2>3. \A t \in Rows' \ Rows : status'[t] = "active"
    BY <1>2 DEF Inserted
  <2>4. \A t \in TaskId : row'[t].eval => (row[t].eval /\ row'[t] = row[t]) \/ t \notin Rows
    BY <1>2, <1>4
  <2> QED
    BY <1>6, <1>8, <1>9, <2>1, <2>2, <2>3, <2>4 DEF Kept
<1> QED
  BY <1>0, <1>2, <1>3, <1>4, <1>10, <1>11

\* A row that is moved on changes its status only.
LEMMA MovedRows ==
  ASSUME StoreInv, NEW t, NEW s, Moved(t, s)
  PROVE  /\ Kept /\ Rows' = Rows /\ row' = row /\ status'[t] = s
         /\ \A u : Children(u)' = Children(u)
<1> USE DEF StoreInv
<1>1. /\ \A u \in TaskId : status'[u] = IF u = t THEN s ELSE status[u]
      /\ status' \in [TaskId -> {"none", "active", "asking", "handing", "completed", "failed"}]
      /\ t \in TaskId /\ row' = row /\ status[t] \notin Past /\ status[t] # "none" /\ s # "none"
  BY DEF Moved, QueueInv, Past
<1>2. Rows' = Rows
  BY <1>1 DEF Rows
<1>3. QueueInv'
  BY <1>1, <1>2 DEF QueueInv
<1>4. FinishedInv'
  <2>1. CASE s \in Past
    <3>1. finished' = Append(finished, t) /\ finished \in Seq(TaskId)
      BY <2>1 DEF Moved, FinishedInv
    <3>2. /\ finished' \in Seq(TaskId) /\ DOMAIN finished' = DOMAIN finished \cup {Len(finished) + 1}
          /\ finished'[Len(finished) + 1] = t /\ \A i \in DOMAIN finished : finished'[i] = finished[i]
          /\ Len(finished) + 1 \notin DOMAIN finished
      BY <1>1, <3>1
    <3>3. \A i \in DOMAIN finished : finished[i] # t
      BY <1>1 DEF FinishedInv
    <3>4. \A i, j \in DOMAIN finished' : finished'[i] = finished'[j] => i = j
      BY <3>2, <3>3 DEF FinishedInv
    <3>5. \A u \in TaskId : (\E i \in DOMAIN finished' : finished'[i] = u)
                              <=> (u = t \/ \E i \in DOMAIN finished : finished[i] = u)
      BY <3>2
    <3>6. \A u \in TaskId : status'[u] \in Past <=> (u = t \/ status[u] \in Past)
      BY <1>1, <2>1
    <3> QED
      BY <3>2, <3>4, <3>5, <3>6 DEF FinishedInv
  <2>2. CASE s \notin Past
    <3>1. finished' = finished
      BY <2>2 DEF Moved
    <3>2. \A u \in TaskId : status'[u] \in Past <=> status[u] \in Past
      BY <1>1, <2>2
    <3> QED
      BY <3>1, <3>2 DEF FinishedInv
  <2> QED
    BY <2>1, <2>2
<1>5. Ancestry' = Ancestry
  BY <1>1 DEF Ancestry
<1>6. \A u : Children(u)' = Children(u)
  BY <1>1, <1>2 DEF Children
<1>7. Kept
  BY <1>1, <1>2, <1>3, <1>4, <1>5 DEF Kept, Past
<1> QED
  BY <1>1, <1>2, <1>6, <1>7

\* What is recorded about the rows stays true of them.
LEMMA CreditKept ==
  ASSUME StoreInv, Kept, UNCHANGED <<action, feedback>>,
         owed' \subseteq TaskId, \A t \in owed' : row'[t].role = "executor" /\ status'[t] = "completed"
  PROVE  CreditInv'
<1> USE DEF StoreInv
<1>1. ASSUME NEW f \in feedback
      PROVE  /\ row'[f.task].role = "executor" /\ status'[f.task] = "completed"
             /\ Ancestry'[f.task] = Ancestry[f.task]
  <2>1. f.task \in TaskId /\ row[f.task].role = "executor" /\ status[f.task] = "completed"
    BY DEF CreditInv
  <2>2. f.task \in Rows
    BY <2>1 DEF Rows
  <2> QED
    BY <2>1, <2>2 DEF Kept
<1> QED
  BY <1>1 DEF CreditInv

\* A step of a worker that leaves what is recorded alone keeps what it says.
LEMMA StoreKept ==
  ASSUME StoreInv, Kept, CreditInv', UNCHANGED <<decision, action, economics, outcome, refused, evaluations>>,
         \A t \in ShadowRows' : Children(t)' = {}
  PROVE  StoreInv'
<1> USE DEF StoreInv
<1>1. \A t \in TaskId : status[t] = "completed" => /\ t \in Rows /\ row'[t] = row[t]
                                                   /\ status'[t] = "completed"
                                                   /\ Ancestry'[t] = Ancestry[t]
  BY DEF Kept, Rows
<1>2. DecisionInv'
  <2>1. \A t \in TaskId : /\ decision[t] # "null" => status'[t] = "completed" /\ ~row'[t].eval
                          /\ action[t] # NoRole => decision[t] # "null" /\ row'[t].role # "executor"
    BY <1>1 DEF DecisionInv
  <2> QED
    BY <2>1 DEF DecisionInv
<1>3. Sampled(outcome)' = Sampled(outcome)
  BY DEF Sampled
<1>4. ASSUME NEW t \in Sampled(outcome)
      PROVE  /\ status'[t] = "completed" /\ ~row'[t].eval
             /\ outcome[t].parent \in Ancestry'[t] /\ ~row'[outcome[t].parent].eval
             /\ decision[t] = "null" /\ row'[t].parent # NoTask /\ action[row'[t].parent] # NoRole
                  => outcome[t].parent = row'[t].parent
  <2>1. t \in TaskId /\ status[t] = "completed" /\ ~row[t].eval /\ outcome[t].parent \in Ancestry[t]
        /\ ~row[outcome[t].parent].eval /\ outcome[t].parent \in TaskId
    BY DEF OutcomeInv, Sampled, Outcome
  <2>2. outcome[t].parent \in Rows
    <3>1. outcome[t].parent <= t
      BY <2>1, AncestryIs, QueueGoesUp, TasksFinite DEF Ancestry
    <3>2. t \in Rows
      BY <1>1, <2>1
    <3>3. t \in Nat /\ outcome[t].parent \in Nat
      BY <2>1, TasksFinite
    <3>4. outcome[t].parent = t \/ outcome[t].parent < t
      BY <3>1, <3>3
    <3> QED
      BY <2>1, <3>2, <3>4 DEF QueueInv
  <2>3. ~row'[outcome[t].parent].eval
    BY <2>1, <2>2 DEF Kept
  <2> QED
    BY <1>1, <2>1, <2>3 DEF OutcomeInv
<1>5. OutcomeInv'
  BY <1>3, <1>4 DEF OutcomeInv
<1>6. ShadowInv'
  <2>1. ASSUME NEW e \in evaluations
        PROVE  /\ {e.selected, e.shadow} \subseteq Children(e.parent)'
               /\ e.status = "completed" => status'[e.selected] = "completed" /\ status'[e.shadow] = "completed"
    <3>1. e.selected \in TaskId /\ e.shadow \in TaskId
      BY DEF ShadowInv, Evaluation
    <3>2. {e.selected, e.shadow} \subseteq Children(e.parent)
      BY DEF ShadowInv
    <3>3. {e.selected, e.shadow} \subseteq Children(e.parent)'
      BY <3>2 DEF Children, Kept
    <3> QED
      BY <1>1, <3>1, <3>3 DEF ShadowInv
  <2> QED
    BY <2>1 DEF ShadowInv
<1>7. DecidedInv'
  <2>1. ASSUME NEW t \in TaskId, decision[t] # "null" PROVE Replied(t)'
    <3>1. row'[t] = row[t] /\ Replied(t)
      BY <1>1, <2>1 DEF DecisionInv, DecidedInv
    <3> QED
      BY <3>1 DEF Replied, Ordinary, CapabilityEvidence, Measured, Full, Sampled
  <2> QED
    BY <2>1 DEF DecidedInv
<1> QED
  BY <1>2, <1>5, <1>6, <1>7 DEF Kept

\* The planner's place does not move, and no row it minds gets a child.
LEMMA PlaceKept ==
  ASSUME StoreInv, PassTypes, Place, Kept, UNCHANGED <<decisionVars, outcome, refused, planVars>>,
         \A t \in TaskId : status[t] = "completed" => Children(t)' = Children(t),
         \A t \in ShadowRows' : t \in ShadowRows
  PROVE  Place'
<1> USE DEF decisionVars, planVars
<1>1. \A t \in TaskId : status[t] = "completed" => t \in Rows /\ row'[t] = row[t] /\ status'[t] = "completed"
  BY DEF Kept, Rows
<1>2. AtRow => cur \in TaskId /\ status[cur] = "completed" /\ ~row[cur].eval
  BY DEF Place
<1>3. /\ AtRow' = AtRow /\ Judging' = Judging /\ Spawning' = Spawning
      /\ Judging \/ Spawning => AtRow
  BY DEF AtRow, Judging, Spawning
<1>4. \A t \in plan' : status'[t] = "completed" /\ ~row'[t].eval /\ Children(t)' = {} /\ t # cur'
  BY <1>1 DEF Place, PassTypes
<1>5. IF AtRow' THEN cur' \in TaskId /\ status'[cur'] = "completed" /\ ~row'[cur'].eval ELSE cur' = NoTask
  BY <1>1, <1>2, <1>3 DEF Place
<1>6. ASSUME Judging PROVE Children(cur)' = {} /\ Replied(cur)'
  <2>1. cur \in TaskId /\ status[cur] = "completed" /\ Children(cur) = {} /\ Replied(cur)
    BY <1>2, <1>3, <1>6 DEF Place
  <2>2. row'[cur] = row[cur]
    BY <1>1, <2>1
  <2> QED
    BY <2>1, <2>2 DEF Replied, Ordinary, CapabilityEvidence, Measured, Full, Sampled
<1>7. mpc' = "mark" => chosen' \in Roles /\ row'[cur'].role # "executor"
  BY <1>1, <1>2 DEF Place, AtRow
<1>8. Spawning' => action'[cur'] \in Roles
  BY <1>3 DEF Place
<1>9. ASSUME mpc \in {"add", "insert"} PROVE child' \in Children(cur)' /\ row'[child'].role \in Roles
  <2>1. child \in Children(cur) /\ row[child].role \in Roles
    BY <1>9 DEF Place
  <2>2. child \in Rows /\ row[child].parent = cur
    BY <2>1 DEF Children
  <2>3. child \in Rows' /\ row'[child] = row[child]
    BY <2>2 DEF Kept
  <2> QED
    BY <2>1, <2>2, <2>3 DEF Children
<1>10. ASSUME mpc = "insert"
       PROVE  \E s \in ShadowRows' : row'[s].parent = cur' /\ \A v \in ShadowRows' : v <= s
  <2>1. PICK s \in ShadowRows : row[s].parent = cur /\ \A v \in ShadowRows : v <= s
    BY <1>10 DEF Place
  <2>2. s \in Rows /\ row[s].eval
    BY DEF ShadowRows
  <2>3. s \in Rows' /\ row'[s] = row[s]
    BY <2>2 DEF Kept
  <2>4. s \in ShadowRows'
    BY <2>2, <2>3 DEF ShadowRows
  <2> QED
    BY <2>1, <2>3, <2>4
<1> QED
  BY <1>3, <1>4, <1>5, <1>6, <1>7, <1>8, <1>9, <1>10 DEF Place

-----------------------------------------------------------------------------
(* Workers *)

\* An execution that waits for its feedback waits for it still.
LEMMA OwedKept ==
  ASSUME StoreInv, Kept, NEW t \in owed
  PROVE  t \in TaskId /\ row'[t].role = "executor" /\ status'[t] = "completed"
BY DEF StoreInv, CreditInv, Kept, Rows

\* A row that a worker moves on keeps everything.
LEMMA MovedKeeps ==
  ASSUME FeedbackInv, NEW t, NEW s, Moved(t, s), UNCHANGED feedback, plannerUnchanged,
         owed' = owed \/ (owed' = owed \cup {t} /\ row[t].role = "executor" /\ s = "completed"),
         mishaps' \in 0..MaxMishaps
  PROVE  FeedbackInv'
<1> USE DEF FeedbackInv
<1>1. /\ Kept /\ Rows' = Rows /\ row' = row /\ status'[t] = s /\ t \in TaskId
      /\ \A u : Children(u)' = Children(u)
  BY MovedRows DEF Moved
<1>2. ShadowRows' = ShadowRows
  BY <1>1 DEF ShadowRows
<1>3. /\ owed \subseteq TaskId
      /\ \A u \in owed : row'[u].role = "executor" /\ status'[u] = "completed"
  BY <1>1, OwedKept DEF StoreInv, CreditInv
<1>4. owed' \subseteq TaskId /\ \A u \in owed' : row'[u].role = "executor" /\ status'[u] = "completed"
  BY <1>1, <1>3
<1>5. /\ UNCHANGED <<decision, action, economics, outcome, refused, traces, evaluations, feedback>>
      /\ UNCHANGED <<decisionVars, outcome, refused, cases, planVars>>
  BY DEF plannerUnchanged, decisionVars, learnVars
<1>6. CreditInv'
  BY <1>1, <1>4, <1>5, CreditKept
<1>7. \A u \in ShadowRows' : Children(u)' = {}
  BY <1>1, <1>2 DEF StoreInv, ShadowInv
<1>8. StoreInv'
  BY <1>1, <1>5, <1>6, <1>7, StoreKept
<1>9. Place'
  BY <1>1, <1>2, <1>5, PlaceKept
<1>10. PassTypes'
  BY <1>5 DEF PassTypes, planVars
<1> QED
  BY <1>8, <1>9, <1>10

\* An agent ends its run.
LEMMA RunKeeps ==
  ASSUME FeedbackInv, NEW t \in TaskId, Run(t)  PROVE FeedbackInv'
<1>1. PICK s \in {"completed", "failed"} :
        /\ Ends(t, s)
        /\ owed' = IF row[t].role = "executor" /\ s = "completed" THEN owed \cup {t} ELSE owed
  BY DEF Run
<1>2. Moved(t, s)
  BY <1>1 DEF Run, Claimable, Ends, Moved, Past
<1>3. owed' = owed \/ (owed' = owed \cup {t} /\ row[t].role = "executor" /\ s = "completed")
  BY <1>1
<1>4. mishaps' \in 0..MaxMishaps /\ plannerUnchanged /\ UNCHANGED feedback
  BY DEF Run, FeedbackInv, PassTypes
<1> QED
  BY <1>2, <1>3, <1>4, MovedKeeps

\* An agent ends its run after the child it has inserted.
LEMMA EndAfterChildKeeps ==
  ASSUME FeedbackInv, NEW t \in TaskId, EndAfterChild(t)  PROVE FeedbackInv'
<1>1. PICK s \in {"completed", "failed"} : Ends(t, s) /\ status[t] \in {"asking", "handing"}
  BY DEF EndAfterChild
<1>2. Moved(t, s)
  BY <1>1 DEF Ends, Moved, Past
<1>3. mishaps' \in 0..MaxMishaps /\ plannerUnchanged /\ UNCHANGED feedback /\ owed' = owed
  BY DEF EndAfterChild, FeedbackInv, PassTypes
<1> QED
  BY <1>2, <1>3, MovedKeeps

\* A child of a row that runs is no child of a row the planner minds.
LEMMA AddChildKeeps ==
  ASSUME FeedbackInv, NEW t \in TaskId, AddChild(t)  PROVE FeedbackInv'
<1> USE DEF FeedbackInv
<1>0. status[t] = "active" /\ ~row[t].eval /\ t \in Rows
  BY DEF AddChild, Claimable, Rows
<1>1. PICK c \in TaskId, role \in {"executor", "evidence"}, s \in {"asking", "handing"} :
        /\ Fresh(c)
        /\ status' = [status EXCEPT ![c] = "active", ![t] = s]
        /\ row' = [row EXCEPT ![c] = [parent |-> t, role |-> role, eval |-> FALSE]]
  <2> DEFINE role == IF CapabilityEvidence(t) THEN "executor" ELSE "evidence"
             s    == IF CapabilityEvidence(t) THEN "handing" ELSE "asking"
  <2>1. PICK c \in TaskId :
          /\ Fresh(c)
          /\ status' = [status EXCEPT ![c] = "active", ![t] = s]
          /\ row' = [row EXCEPT ![c] = [parent |-> t, role |-> role, eval |-> FALSE]]
    BY DEF AddChild
  <2>2. role \in {"executor", "evidence"} /\ s \in {"asking", "handing"}
    OBVIOUS
  <2> HIDE DEF role, s
  <2> QED
    BY <2>1, <2>2
<1>2. Inserted(c, t, role, FALSE)
  <2>1. status \in [TaskId -> {"none", "active", "asking", "handing", "completed", "failed"}]
    BY DEF StoreInv, QueueInv
  <2>2. c # t
    BY <1>0, <1>1 DEF Fresh
  <2>3. /\ status' \in [TaskId -> {"none", "active", "asking", "handing", "completed", "failed"}]
        /\ status'[c] = "active" /\ status'[t] = s /\ \A u \in TaskId \ {c, t} : status'[u] = status[u]
    BY <1>1, <2>1, <2>2
  <2>4. finished' = finished
    BY DEF AddChild
  <2> QED
    BY <1>0, <1>1, <2>3, <2>4 DEF Inserted
<1>3. /\ Kept /\ Rows' = Rows \cup {c} /\ c \notin Rows /\ ~row'[c].eval
      /\ \A u \in TaskId : Children(u)' = IF u = t THEN Children(u) \cup {c} ELSE Children(u)
  <2>1. row'[c] = [parent |-> t, role |-> role, eval |-> FALSE]
    BY <1>1 DEF StoreInv, QueueInv
  <2>2. ~row'[c].eval
    BY <2>1
  <2> QED
    BY <1>2, <2>2, InsertedRows
<1>4. \A u \in ShadowRows' : u \in ShadowRows /\ u # t /\ u \in TaskId
  BY <1>0, <1>3 DEF ShadowRows, Kept, Rows
<1>5. \A u \in ShadowRows' : Children(u)' = {}
  BY <1>3, <1>4 DEF StoreInv, ShadowInv
<1>6. /\ UNCHANGED <<decision, action, economics, outcome, refused, traces, evaluations, feedback, owed>>
      /\ UNCHANGED <<decisionVars, outcome, refused, cases, planVars>>
  BY DEF AddChild, plannerUnchanged, decisionVars, learnVars
<1>7. owed' \subseteq TaskId /\ \A u \in owed' : row'[u].role = "executor" /\ status'[u] = "completed"
  BY <1>3, <1>6, OwedKept
<1>8. CreditInv'
  BY <1>3, <1>6, <1>7, CreditKept
<1>9. StoreInv'
  BY <1>3, <1>5, <1>6, <1>8, StoreKept
<1>10. \A u \in TaskId : status[u] = "completed" => Children(u)' = Children(u)
  BY <1>0, <1>3
<1>11. Place'
  BY <1>3, <1>4, <1>6, <1>10, PlaceKept
<1>12. mishaps' \in 0..MaxMishaps
  BY DEF AddChild, PassTypes
<1>13. PassTypes'
  BY <1>6, <1>12 DEF PassTypes, planVars
<1> QED
  BY <1>9, <1>11, <1>13

\* What only concerns owed feedback leaves rows, decisions and samples alone.
LEMMA OwedKeeps ==
  ASSUME FeedbackInv, UNCHANGED queueVars, plannerUnchanged, CreditInv', mishaps' \in 0..MaxMishaps
  PROVE  FeedbackInv'
<1> USE DEF FeedbackInv, queueVars, plannerUnchanged, decisionVars, learnVars, planVars
<1>1. QueueInv'
  BY DEF StoreInv, QueueInv, Rows
<1>2. FinishedInv' /\ DecisionInv' /\ OutcomeInv'
  BY DEF StoreInv, FinishedInv, DecisionInv, OutcomeInv, Sampled, Ancestry
<1>3. ShadowInv' /\ DecidedInv'
  BY DEF StoreInv, ShadowInv, ShadowRows, Rows, Children, DecidedInv, Replied, Ordinary,
         CapabilityEvidence, Measured, Full, Sampled
<1>4. PassTypes'
  BY DEF PassTypes
<1>5. Place'
  BY DEF Place, AtRow, Judging, Spawning, ShadowRows, Rows, Children, Replied, Ordinary,
         CapabilityEvidence, Measured, Full, Sampled
<1> QED
  BY <1>1, <1>2, <1>3, <1>4, <1>5 DEF StoreInv

\* A proven execution is fed back once, to the nearest row that acted.
LEMMA FeedbackKeeps ==
  ASSUME FeedbackInv, NEW t \in TaskId, record_verified_outcome_feedback(t)  PROVE FeedbackInv'
<1> USE DEF FeedbackInv, StoreInv
<1> DEFINE o == Origin(t)
<1>1. /\ t \in owed /\ owed' = owed \ {t} /\ UNCHANGED <<queueVars, mishaps>> /\ plannerUnchanged
      /\ \/ feedback' = feedback
         \/ /\ o # NoTask /\ ~\E f \in feedback : f.task = t
            /\ feedback' = feedback \cup {[task |-> t, origin |-> o]}
  BY DEF record_verified_outcome_feedback, FeedbackOrigin
<1>2. row[t].role = "executor" /\ status[t] = "completed"
  BY <1>1 DEF CreditInv
<1>3. o # NoTask => o \in TaskId /\ o \in Ancestry[t] /\ action[o] \in Roles /\ action[o] # NoRole
  <2>1. o # NoTask => o \in TaskId /\ o \in Ancestry[t] /\ action[o] \in Roles
    BY OriginFacts
  <2>2. o # NoTask => action[o] # NoRole
    <3>1. Origin(t) # NoTask => action[Origin(t)] # NoRole
      BY OriginIs
    <3> QED
      BY <3>1
  <2> QED
    BY <2>1, <2>2
<1> HIDE DEF o
<1>4. UNCHANGED <<row, status, finished, action>> /\ Ancestry' = Ancestry
  BY <1>1 DEF queueVars, plannerUnchanged, decisionVars, Ancestry
<1>7. CreditInv'
  <2>5. CASE feedback' = feedback
    BY <1>1, <1>4, <2>5 DEF CreditInv
  <2>6. CASE /\ o # NoTask /\ ~\E f \in feedback : f.task = t
             /\ feedback' = feedback \cup {[task |-> t, origin |-> o]}
    <3> DEFINE new == [task |-> t, origin |-> o]
    <3>1. new.task = t /\ new.origin = o /\ new \in [task : TaskId, origin : TaskId]
      BY <1>3, <2>6
    <3>2. feedback' = feedback \cup {new}
      BY <2>6
    <3> HIDE DEF new
    <3>3. \A f \in feedback' :
            /\ row[f.task].role = "executor" /\ status[f.task] = "completed"
            /\ action[f.origin] # NoRole /\ f.origin \in Ancestry[f.task]
      BY <1>2, <1>3, <2>6, <3>1, <3>2 DEF CreditInv
    <3>4. \A f, g \in feedback' : g.task = f.task => g = f
      BY <2>6, <3>1, <3>2 DEF CreditInv
    <3> QED
      BY <1>1, <1>4, <3>1, <3>2, <3>3, <3>4 DEF CreditInv
  <2> QED
    BY <1>1, <2>5, <2>6
<1>8. mishaps' \in 0..MaxMishaps
  BY <1>1 DEF PassTypes
<1> QED
  BY <1>1, <1>7, <1>8, OwedKeeps

\* A worker dies between its two statements.
LEMMA WorkerKilledKeeps ==
  ASSUME FeedbackInv, NEW t \in TaskId, WorkerKilled(t)  PROVE FeedbackInv'
<1> USE DEF FeedbackInv
<1>1. mishaps' \in 0..MaxMishaps /\ UNCHANGED <<row, finished, feedback>> /\ plannerUnchanged
  BY FeedbackAssumption DEF WorkerKilled, PassTypes
<1>2. CASE status[t] \in {"asking", "handing"} /\ status' = [status EXCEPT ![t] = "active"] /\ UNCHANGED owed
  <2>1. Moved(t, "active")
    BY <1>1, <1>2 DEF Moved, Past
  <2> QED
    BY <1>1, <1>2, <2>1, MovedKeeps
<1>3. CASE t \in owed /\ owed' = owed \ {t} /\ UNCHANGED status
  <2>1. UNCHANGED queueVars /\ UNCHANGED action /\ Ancestry' = Ancestry
    BY <1>1, <1>3 DEF queueVars, plannerUnchanged, decisionVars, Ancestry
  <2>2. CreditInv'
    BY <1>1, <1>3, <2>1 DEF StoreInv, CreditInv
  <2> QED
    BY <1>1, <2>1, <2>2, OwedKeeps
<1> QED
  BY <1>2, <1>3 DEF WorkerKilled

-----------------------------------------------------------------------------
(* The planner between its rows *)

\* With the same rows everything read off the rows is the same.
LEMMA SameRows ==
  ASSUME UNCHANGED queueVars
  PROVE  /\ UNCHANGED <<status, row, finished>> /\ Rows' = Rows /\ ShadowRows' = ShadowRows
         /\ Ancestry' = Ancestry /\ \A t : Children(t)' = Children(t)
BY DEF queueVars, Rows, ShadowRows, Ancestry, Children

\* A step that leaves rows, decisions and samples alone.
LEMMA EvaluationsKeep ==
  ASSUME StoreInv, UNCHANGED <<queueVars, decisionVars, outcome, refused, feedback, owed>>,
         \A e \in evaluations' :
           /\ e \in Evaluation /\ {e.selected, e.shadow} \subseteq Children(e.parent)
           /\ e.status = "completed" => status[e.selected] = "completed" /\ status[e.shadow] = "completed"
  PROVE  StoreInv' /\ \A t : Replied(t)' = Replied(t)
<1> USE DEF StoreInv, decisionVars
<1>1. /\ UNCHANGED <<status, row, finished>> /\ Rows' = Rows /\ ShadowRows' = ShadowRows
      /\ Ancestry' = Ancestry /\ \A t : Children(t)' = Children(t)
  BY SameRows
<1>2. \A t : Replied(t)' = Replied(t)
  BY <1>1 DEF Replied, Ordinary, CapabilityEvidence, Measured, Full, Sampled
<1>3. QueueInv' /\ FinishedInv' /\ DecisionInv'
  BY <1>1 DEF QueueInv, FinishedInv, DecisionInv
<1>4. OutcomeInv' /\ CreditInv'
  BY <1>1 DEF OutcomeInv, CreditInv, Sampled
<1>5. ShadowInv' /\ DecidedInv'
  BY <1>1, <1>2 DEF ShadowInv, DecidedInv
<1> QED
  BY <1>2, <1>3, <1>4, <1>5

\* A step of the planner between two of its statements keeps what is recorded.
LEMMA StoreSame ==
  ASSUME StoreInv, UNCHANGED <<queueVars, decisionVars, outcome, refused, evaluations, feedback, owed>>
  PROVE  StoreInv' /\ \A t : Replied(t)' = Replied(t)
BY EvaluationsKeep DEF StoreInv, ShadowInv

\* Outside a row the planner has only rows to take up.
LEMMA Between ==
  ASSUME mpc' \in {"shadows", "load", "row"}, cur' = NoTask,
         \A t \in plan' : t \in TaskId /\ status'[t] = "completed" /\ ~row'[t].eval /\ Children(t)' = {}
  PROVE  Place'
<1>1. ~AtRow' /\ ~Judging' /\ ~Spawning' /\ mpc' \notin {"mark", "add", "insert"}
  BY DEF AtRow, Judging, Spawning
<1>2. \A t \in plan' : t # cur'
  BY TasksFinite
<1> QED
  BY <1>1, <1>2 DEF Place

\* The rows that wait for the planner wait on.
LEMMA PlanWaits ==
  ASSUME FeedbackInv, UNCHANGED queueVars, NEW t \in plan
  PROVE  t \in TaskId /\ status'[t] = "completed" /\ ~row'[t].eval /\ Children(t)' = {} /\ t # cur
BY SameRows DEF FeedbackInv, PassTypes, Place

\* planning_tasks reads rows that have no children.
LEMMA LoadKeeps ==
  ASSUME FeedbackInv, Load  PROVE FeedbackInv'
<1> USE DEF FeedbackInv
<1>1. /\ UNCHANGED <<queueVars, decisionVars, outcome, refused, evaluations, feedback, owed>>
      /\ UNCHANGED <<traces, chosen, kids, child, mishaps, cur, cases>>
      /\ mpc \in {"load", "shadows"} /\ mpc' \in {"shadows", "row"}
      /\ plan' \in SUBSET {t \in TaskId : Plannable(t)} /\ budget' \in {0, MaxPerPlan}
  <2>1. plan' \in SUBSET {t \in TaskId : Plannable(t)}
    BY DEF Load
  <2> QED
    BY <2>1 DEF Load, workersUnchanged, learnVars
<1>2. StoreInv'
  BY <1>1, StoreSame
<1>3. cur' = NoTask
  BY <1>1 DEF Place, AtRow
<1>4. \A t \in plan' : t \in TaskId /\ status'[t] = "completed" /\ ~row'[t].eval /\ Children(t)' = {}
  BY <1>1, SameRows DEF Plannable
<1>5. Place'
  BY <1>1, <1>3, <1>4, Between
<1>6. PassTypes'
  <2>1. budget' \in 0..MaxPerPlan
    BY <1>1, FeedbackAssumption
  <2> QED
    BY <1>1, <2>1 DEF PassTypes
<1> QED
  BY <1>2, <1>5, <1>6

\* A pass ends.
LEMMA PlanDoneKeeps ==
  ASSUME FeedbackInv, PlanDone  PROVE FeedbackInv'
<1> USE DEF FeedbackInv
<1>1. /\ UNCHANGED <<queueVars, decisionVars, outcome, refused, evaluations, feedback, owed>>
      /\ UNCHANGED <<traces, chosen, kids, child, mishaps, cur, plan, cases>>
      /\ mpc = "row" /\ mpc' = "shadows" /\ budget' = 0
  BY DEF PlanDone, workersUnchanged, learnVars
<1>2. StoreInv'
  BY <1>1, StoreSame
<1>3. cur' = NoTask
  BY <1>1 DEF Place, AtRow
<1>4. Place'
  BY <1>1, <1>3, Between, PlanWaits
<1>5. PassTypes'
  BY <1>1, FeedbackAssumption DEF PassTypes
<1> QED
  BY <1>2, <1>4, <1>5

\* The planner dies, wherever it is.
LEMMA PlannerKilledKeeps ==
  ASSUME FeedbackInv, PlannerKilled  PROVE FeedbackInv'
<1> USE DEF FeedbackInv
<1>1. /\ UNCHANGED <<queueVars, decisionVars, outcome, refused, evaluations, feedback, owed>>
      /\ traces' = traces /\ cases' = cases /\ mpc' = "shadows" /\ plan' = {} /\ cur' = NoTask /\ chosen' = NoRole
      /\ kids' = 0 /\ child' = NoTask /\ budget' = 0 /\ mishaps < MaxMishaps /\ mishaps' = mishaps + 1
  BY DEF PlannerKilled, learnVars
<1>2. StoreInv'
  BY <1>1, StoreSame
<1>3. Place'
  BY <1>1, Between
<1>4. PassTypes'
  BY <1>1, FeedbackAssumption DEF PassTypes, NoTask
<1> QED
  BY <1>2, <1>3, <1>4

\* The first research case touches no row.
LEMMA RegisterCaseKeeps ==
  ASSUME FeedbackInv, RegisterCase  PROVE FeedbackInv'
<1> USE DEF FeedbackInv, planVars
<1>1. /\ UNCHANGED <<queueVars, decisionVars, outcome, refused, evaluations, feedback, owed>>
      /\ UNCHANGED <<traces, planVars>> /\ cases' = TRUE /\ mishaps < MaxMishaps /\ mishaps' = mishaps + 1
  BY DEF RegisterCase, learnVars
<1>2. StoreInv' /\ \A t : Replied(t)' = Replied(t)
  BY <1>1, StoreSame
<1>3. Place'
  <2>1. /\ UNCHANGED <<status, row, action>> /\ ShadowRows' = ShadowRows
        /\ \A t : Children(t)' = Children(t)
    BY <1>1, SameRows DEF decisionVars
  <2>2. /\ AtRow' = AtRow /\ Judging' = Judging /\ Spawning' = Spawning
        /\ Children(cur)' = Children(cur) /\ Replied(cur)' = Replied(cur)
    BY <1>1, <1>2, <2>1 DEF AtRow, Judging, Spawning
  <2>3. Children(cur') = Children(cur) /\ cur' = cur
    BY <1>1
  <2> QED
    BY <1>1, <2>1, <2>2, <2>3 DEF Place
<1>4. PassTypes'
  BY <1>1, FeedbackAssumption DEF PassTypes
<1> QED
  BY <1>2, <1>3, <1>4

\* A shadow's evaluation ends with the shadow, or once both sides have delivered.
LEMMA ProcessedIs ==
  ASSUME StoreInv, NEW e \in evaluations
  PROVE  /\ Processed(e) \in Evaluation
         /\ {Processed(e).selected, Processed(e).shadow} \subseteq Children(Processed(e).parent)
         /\ Processed(e).status = "completed" =>
              status[Processed(e).selected] = "completed" /\ status[Processed(e).shadow] = "completed"
<1> USE DEF StoreInv
<1>1. /\ e \in Evaluation /\ {e.selected, e.shadow} \subseteq Children(e.parent)
      /\ e.status = "completed" => status[e.selected] = "completed" /\ status[e.shadow] = "completed"
  BY DEF ShadowInv
<1>2. CASE Processed(e) = e
  BY <1>1, <1>2
<1>3. CASE Processed(e) = [e EXCEPT !.status = "failed"]
  BY <1>1, <1>3 DEF Evaluation
<1>4. CASE /\ Processed(e) = [e EXCEPT !.status = "completed"]
           /\ status[e.shadow] = "completed" /\ SelectedMeasured(e)
  <2>1. e.selected \in Sampled(outcome)
    BY <1>1, <1>4 DEF SelectedMeasured, Sampled, Evaluation
  <2>2. status[e.selected] = "completed"
    BY <2>1 DEF OutcomeInv
  <2> QED
    BY <1>1, <1>4, <2>2 DEF Evaluation
<1>5. CASE e.status = "pending"
  <2>1. CASE status[e.shadow] = "failed"
    <3>1. Processed(e) = [e EXCEPT !.status = "failed"]
      BY <1>5, <2>1 DEF Processed
    <3> QED
      BY <1>3, <3>1
  <2>2. CASE status[e.shadow] = "completed" /\ SelectedMeasured(e)
    <3>1. Processed(e) = [e EXCEPT !.status = "completed"]
      BY <1>5, <2>2 DEF Processed
    <3> QED
      BY <1>4, <2>2, <3>1
  <2>3. CASE status[e.shadow] # "failed" /\ ~(status[e.shadow] = "completed" /\ SelectedMeasured(e))
    <3>1. Processed(e) = e
      BY <1>5, <2>3 DEF Processed
    <3> QED
      BY <1>2, <3>1
  <2> QED
    BY <2>1, <2>2, <2>3
<1>6. CASE e.status # "pending"
  BY <1>2, <1>6 DEF Processed
<1> QED
  BY <1>5, <1>6

\* _process_shadow_evaluations compares what has been delivered.
LEMMA ProcessShadowsKeeps ==
  ASSUME FeedbackInv, ProcessShadows  PROVE FeedbackInv'
<1> USE DEF FeedbackInv
<1>1. /\ UNCHANGED <<queueVars, decisionVars, outcome, refused, feedback, owed>>
      /\ UNCHANGED <<traces, chosen, kids, child, mishaps, cur, plan, budget, cases>>
      /\ evaluations' = {Processed(e) : e \in evaluations}
      /\ mpc = "shadows" /\ mpc' = "load"
  BY DEF ProcessShadows, workersUnchanged, learnVars
<1>2. StoreInv'
  BY <1>1, ProcessedIs, EvaluationsKeep
<1>3. cur' = NoTask
  BY <1>1 DEF Place, AtRow
<1>4. Place'
  BY <1>1, <1>3, Between, PlanWaits
<1>5. PassTypes'
  BY <1>1 DEF PassTypes
<1> QED
  BY <1>2, <1>4, <1>5

-----------------------------------------------------------------------------
(* The planner at a row *)

\* A decision about a row without children, whose own answer has been measured.
LEMMA DecideKeeps ==
  ASSUME StoreInv, cur \in TaskId, status[cur] = "completed", ~row[cur].eval, Children(cur) = {},
         Replied(cur), NEW d \in {"open", "end"}, NEW r \in Roles \cup {NoRole},
         r # NoRole => row[cur].role # "executor", mark_planner_decision(cur, d, r),
         UNCHANGED <<queueVars, outcome, refused, evaluations, feedback, owed>>
  PROVE  StoreInv' /\ action'[cur] = r
<1> USE DEF StoreInv
<1>1. /\ UNCHANGED <<status, row, finished>> /\ Rows' = Rows /\ ShadowRows' = ShadowRows
      /\ Ancestry' = Ancestry /\ \A t : Children(t)' = Children(t)
  BY SameRows
<1>2. \A t \in TaskId : row[t].parent # cur
  BY TasksFinite DEF QueueInv, Children
<1>3. /\ decision' \in [TaskId -> {"null", "open", "end"}] /\ action' \in [TaskId -> Roles \cup {NoRole}]
      /\ decision'[cur] = d /\ action'[cur] = r
      /\ \A t \in TaskId : t # cur => decision'[t] = decision[t] /\ action'[t] = action[t]
  BY DEF mark_planner_decision, DecisionInv
<1>4. economics' \in [TaskId -> [raw : Percent, expected : Percent]]
  <2> DEFINE e == action_economics(Samples, r, row[cur].role, Branch(cur), RecentRoles(cur))
             new == IF r = NoRole THEN NoEconomics ELSE [raw |-> e.raw, expected |-> e.expected]
  <2>1. economics' = [economics EXCEPT ![cur] = new]
    BY Zenon DEF mark_planner_decision
  <2>2. new \in [raw : Percent, expected : Percent]
    <3>1. CASE r = NoRole
      BY <3>1 DEF NoEconomics, Percent
    <3>2. CASE r # NoRole
      <4>1. History(Samples) /\ r \in Roles
        BY <3>2, SamplesAre
      <4>2. e.raw \in Percent /\ e.expected \in Percent
        BY <4>1, EconomicsAre
      <4> HIDE DEF e
      <4> QED
        BY <3>2, <4>2
    <3> QED
      BY <3>1, <3>2
  <2> HIDE DEF new
  <2> QED
    BY <2>1, <2>2 DEF DecisionInv
<1>5. QueueInv' /\ FinishedInv'
  BY <1>1 DEF QueueInv, FinishedInv
<1>6. DecisionInv'
  BY <1>1, <1>3, <1>4 DEF DecisionInv
<1>7. Sampled(outcome)' = Sampled(outcome) /\ outcome' = outcome
  BY DEF Sampled
<1>8. OutcomeInv'
  <2>1. ASSUME NEW t \in Sampled(outcome), decision'[t] = "null", row[t].parent # NoTask,
               action'[row[t].parent] # NoRole
        PROVE  outcome[t].parent = row[t].parent
    <3>1. t \in TaskId /\ t # cur /\ row[t].parent # cur /\ row[t].parent \in TaskId
      BY <1>2, <1>3, <2>1 DEF Sampled, QueueInv, Rows
    <3> QED
      BY <1>3, <2>1, <3>1 DEF OutcomeInv
  <2> QED
    BY <1>1, <1>7, <2>1 DEF OutcomeInv
<1>9. CreditInv'
  <2>1. ASSUME NEW f \in feedback PROVE action'[f.origin] # NoRole
    <3>1. /\ f.task \in TaskId /\ f.origin \in TaskId /\ row[f.task].role = "executor"
          /\ action[f.origin] # NoRole /\ f.origin \in Ancestry[f.task]
      BY DEF CreditInv
    <3>2. f.origin # cur
      <4>1. SUFFICES ASSUME f.origin = cur PROVE FALSE
        OBVIOUS
      <4>2. f.task # cur
        BY <3>1, <4>1 DEF DecisionInv
      <4>3. \E c \in TaskId : row[c].parent = cur
        BY <3>1, <4>1, <4>2, AncestryIs, QueueGoesUp DEF Ancestry
      <4> QED
        BY <1>2, <4>3
    <3> QED
      BY <1>3, <3>1, <3>2
  <2> QED
    BY <1>1, <2>1 DEF CreditInv
<1>10. ShadowInv'
  BY <1>1 DEF ShadowInv
<1>11. ASSUME NEW t \in TaskId, decision'[t] # "null" PROVE Replied(t)'
  <2>1. Replied(t)
    BY <1>3, <1>11 DEF DecidedInv
  <2>2. row[t].parent # NoTask => action'[row[t].parent] = action[row[t].parent]
    BY <1>2, <1>3 DEF QueueInv, Rows
  <2> QED
    BY <1>1, <1>7, <2>1, <2>2 DEF Replied, Ordinary, CapabilityEvidence, Measured, Full
<1> QED
  BY <1>3, <1>5, <1>6, <1>8, <1>9, <1>10, <1>11 DEF DecidedInv

\* Where a decision is made.
LEMMA AtDecision ==
  ASSUME FeedbackInv, mpc \in {"choose", "mark"}
  PROVE  /\ cur \in TaskId /\ status[cur] = "completed" /\ ~row[cur].eval
         /\ Children(cur) = {} /\ Replied(cur)
BY DEF FeedbackInv, Place, AtRow, Judging

\* choose_next ends a branch.
LEMMA StopKeeps ==
  ASSUME FeedbackInv, Stop  PROVE FeedbackInv'
<1> USE DEF FeedbackInv
<1>1. /\ UNCHANGED <<queueVars, outcome, refused, evaluations, feedback, owed>>
      /\ UNCHANGED <<chosen, kids, child, mishaps, plan, budget, cases>>
      /\ mpc = "choose" /\ mpc' = "row" /\ cur' = NoTask /\ mark_planner_decision(cur, "end", NoRole)
      /\ traces' \subseteq traces
  BY DEF Stop, workersUnchanged
<1>2. StoreInv'
  BY <1>1, AtDecision, DecideKeeps
<1>3. Place'
  BY <1>1, Between, PlanWaits
<1>4. PassTypes'
  BY <1>1, FeedbackAssumption DEF PassTypes, NoTask
<1> QED
  BY <1>2, <1>3, <1>4

\* An action is chosen for the row that is decided.
LEMMA ChosenKeeps ==
  ASSUME FeedbackInv, mpc = "choose", mpc' = "mark", row[cur].role # "executor", chosen' \in Roles,
         UNCHANGED <<queueVars, decisionVars, outcome, refused, evaluations, feedback, owed, cur, plan>>
  PROVE  StoreInv' /\ Place'
<1> USE DEF FeedbackInv
<1>1. /\ cur \in TaskId /\ status[cur] = "completed" /\ ~row[cur].eval
      /\ Children(cur) = {} /\ Replied(cur)
  BY AtDecision
<1>2. StoreInv' /\ Replied(cur)'
  BY <1>1, StoreSame
<1>3. AtRow' /\ Judging' /\ ~Spawning' /\ mpc' = "mark"
  BY DEF AtRow, Judging, Spawning
<1>4. /\ status' = status /\ row' = row /\ \A t : Children(t)' = Children(t)
  BY SameRows
<1>5. \A t \in plan' : status'[t] = "completed" /\ ~row'[t].eval /\ Children(t)' = {} /\ t # cur'
  BY <1>4 DEF Place
<1> QED
  BY <1>1, <1>2, <1>3, <1>4, <1>5 DEF Place

\* select_action records its trace.
LEMMA SelectKeeps ==
  ASSUME FeedbackInv, Select  PROVE FeedbackInv'
<1> USE DEF FeedbackInv
<1>1. /\ UNCHANGED <<queueVars, decisionVars, outcome, refused, evaluations, feedback, owed>>
      /\ UNCHANGED <<kids, child, mishaps, cur, plan, budget, cases>>
      /\ mpc = "choose" /\ mpc' = "mark" /\ row[cur].role # "executor"
  BY DEF Select, workersUnchanged
<1>2. PICK C \in Candidates : \E r \in Best(cur, C) :
        /\ traces' = traces \cup {[task |-> cur, role |-> r, over |-> C]}
        /\ chosen' \in IF r # row[cur].role THEN {r} ELSE Roles \ {r}
  BY DEF Select
<1>3. PICK r \in Best(cur, C) :
        /\ traces' = traces \cup {[task |-> cur, role |-> r, over |-> C]}
        /\ chosen' \in IF r # row[cur].role THEN {r} ELSE Roles \ {r}
  BY <1>2
<1>4. C \in SUBSET Roles /\ r \in C /\ r \in Roles
  BY DEF Candidates, Best, select_action
<1>5. chosen' \in Roles
  BY <1>3, <1>4
<1>6. cur \in TaskId
  BY <1>1, AtDecision
<1>8. StoreInv' /\ Place'
  BY <1>1, <1>5, ChosenKeeps
<1>9. PassTypes'
  <2>1. [task |-> cur, role |-> r, over |-> C] \in [task : TaskId, role : Roles, over : SUBSET Roles]
    BY <1>4, <1>6
  <2>2. traces' \subseteq [task : TaskId, role : Roles, over : SUBSET Roles]
    BY <1>3, <2>1 DEF PassTypes
  <2> QED
    BY <1>1, <1>5, <2>2 DEF PassTypes
<1> QED
  BY <1>8, <1>9

\* A bound forensics case or a quality gate names the action.
LEMMA RouteKeeps ==
  ASSUME FeedbackInv, Route  PROVE FeedbackInv'
<1> USE DEF FeedbackInv
<1>1. /\ UNCHANGED <<queueVars, decisionVars, outcome, refused, evaluations, feedback, owed>>
      /\ UNCHANGED <<traces, kids, child, mishaps, cur, plan, budget, cases>>
      /\ mpc = "choose" /\ mpc' = "mark" /\ row[cur].role # "executor" /\ chosen' \in Roles
  BY DEF Route, workersUnchanged, learnVars
<1>2. StoreInv' /\ Place'
  BY <1>1, ChosenKeeps
<1>3. PassTypes'
  BY <1>1 DEF PassTypes
<1> QED
  BY <1>2, <1>3

\* The decision is stored for a row that is measured.
LEMMA MarkKeeps ==
  ASSUME FeedbackInv, Mark  PROVE FeedbackInv'
<1> USE DEF FeedbackInv
<1>1. /\ UNCHANGED <<queueVars, outcome, refused, evaluations, feedback, owed>>
      /\ UNCHANGED <<traces, chosen, child, cur, plan, budget, cases>>
      /\ mpc = "mark" /\ mpc' = "spawn" /\ mark_planner_decision(cur, "open", chosen)
      /\ kids' \in 1..MaxChildren /\ mishaps' = mishaps + 2 * (kids' - 1) /\ mishaps' <= MaxMishaps
  BY DEF Mark, learnVars
<1>2. /\ cur \in TaskId /\ status[cur] = "completed" /\ ~row[cur].eval
      /\ Children(cur) = {} /\ Replied(cur)
  BY <1>1, AtDecision
<1>3. chosen \in Roles /\ row[cur].role # "executor"
  BY <1>1 DEF Place
<1>4. StoreInv' /\ action'[cur] = chosen
  BY <1>1, <1>2, <1>3, DecideKeeps
<1>5. Place'
  <2>1. AtRow' /\ ~Judging' /\ Spawning' /\ mpc' = "spawn"
    BY <1>1 DEF AtRow, Judging, Spawning
  <2>2. cur' = cur /\ plan' = plan /\ status' = status /\ row' = row
        /\ \A t : Children(t)' = Children(t)
    BY <1>1, SameRows
  <2>3. \A t \in plan' : status'[t] = "completed" /\ ~row'[t].eval /\ Children(t)' = {} /\ t # cur'
    BY <2>2 DEF Place
  <2> QED
    BY <1>2, <1>3, <1>4, <2>1, <2>2, <2>3 DEF Place
<1>6. PassTypes'
  <2>1. kids' \in 1..MaxChildren /\ mishaps \in 0..MaxMishaps
    BY <1>1 DEF PassTypes
  <2>2. mishaps' = mishaps + 2 * (kids' - 1) /\ mishaps' <= MaxMishaps
    BY <1>1
  <2>3. MaxMishaps \in Nat /\ MaxChildren \in Nat
    BY FeedbackAssumption
  <2> DEFINE k == kids'
             m == mishaps'
  <2>4. k \in 1..MaxChildren /\ m = mishaps + 2 * (k - 1) /\ m <= MaxMishaps
    BY <2>1, <2>2
  <2> HIDE DEF k, m
  <2>5. k \in 0..MaxChildren /\ m \in 0..MaxMishaps
    BY <2>1, <2>3, <2>4
  <2> QED
    BY <1>1, <2>5 DEF PassTypes, k, m
<1> QED
  BY <1>4, <1>5, <1>6

-----------------------------------------------------------------------------
(* The planner and the children of a decision *)

\* Between the children of a row.
LEMMA AtChildren ==
  ASSUME FeedbackInv, Spawning
  PROVE  /\ AtRow /\ cur \in TaskId /\ cur \in Rows /\ status[cur] = "completed" /\ ~row[cur].eval
         /\ action[cur] \in Roles
         /\ \A t \in plan : t \in TaskId /\ status[t] = "completed" /\ ~row[t].eval
                            /\ Children(t) = {} /\ t # cur
<1>1. AtRow
  BY DEF Spawning, AtRow
<1> QED
  BY <1>1 DEF FeedbackInv, PassTypes, Place, Rows

\* The planner goes from one child to the next.
LEMMA SpawningOn ==
  ASSUME FeedbackInv, Spawning, mpc' = "spawn",
         UNCHANGED <<queueVars, decisionVars, cur, plan>>
  PROVE  Place'
<1>1. AtRow' /\ ~Judging' /\ Spawning' /\ mpc' \notin {"mark", "add", "insert"}
  BY DEF AtRow, Judging, Spawning
<1>2. cur' = cur /\ plan' = plan /\ status' = status /\ row' = row /\ action' = action
      /\ \A t : Children(t)' = Children(t)
  BY SameRows DEF decisionVars
<1> QED
  BY <1>1, <1>2, AtChildren DEF Place

\* A duplicate of the task list is skipped.
LEMMA DuplicateKeeps ==
  ASSUME FeedbackInv, Duplicate  PROVE FeedbackInv'
<1> USE DEF FeedbackInv
<1>1. /\ UNCHANGED <<queueVars, decisionVars, outcome, refused, evaluations, feedback, owed>>
      /\ UNCHANGED <<traces, chosen, child, mishaps, cur, plan, budget, cases>>
      /\ mpc = "spawn" /\ mpc' = "spawn" /\ kids > 0 /\ kids' = kids - 1
  BY DEF Duplicate, workersUnchanged, learnVars
<1>2. StoreInv'
  BY <1>1, StoreSame
<1>3. Place'
  BY <1>1, SpawningOn DEF Spawning
<1>4. PassTypes'
  BY <1>1, FeedbackAssumption DEF PassTypes
<1> QED
  BY <1>2, <1>3, <1>4

\* No shadow is added.
LEMMA NoShadowKeeps ==
  ASSUME FeedbackInv, NoShadow  PROVE FeedbackInv'
<1> USE DEF FeedbackInv
<1>1. /\ UNCHANGED <<queueVars, decisionVars, outcome, refused, evaluations, feedback, owed>>
      /\ UNCHANGED <<traces, chosen, child, mishaps, cur, plan, budget, kids, cases>>
      /\ mpc = "add" /\ mpc' = "spawn"
  BY DEF NoShadow, workersUnchanged, learnVars
<1>2. StoreInv'
  BY <1>1, StoreSame
<1>3. Place'
  BY <1>1, SpawningOn DEF Spawning
<1>4. PassTypes'
  BY <1>1 DEF PassTypes
<1> QED
  BY <1>2, <1>3, <1>4

\* The children of a decision are complete.
LEMMA SpawnDoneKeeps ==
  ASSUME FeedbackInv, SpawnDone  PROVE FeedbackInv'
<1> USE DEF FeedbackInv
<1>1. /\ UNCHANGED <<queueVars, decisionVars, outcome, refused, evaluations, feedback, owed>>
      /\ UNCHANGED <<mishaps, plan, budget, cases>>
      /\ mpc' = "row" /\ cur' = NoTask /\ chosen' = NoRole /\ kids' = 0 /\ child' = NoTask
      /\ traces' \subseteq traces
  BY DEF SpawnDone, workersUnchanged
<1>2. StoreInv'
  BY <1>1, StoreSame
<1>3. Place'
  BY <1>1, Between, PlanWaits
<1>4. PassTypes'
  BY <1>1, FeedbackAssumption DEF PassTypes, NoTask
<1> QED
  BY <1>2, <1>3, <1>4

\* The planner queues a child of the row it has decided, or a shadow beside one.
LEMMA QueuedByPlanner ==
  ASSUME FeedbackInv, Spawning, NEW c \in TaskId, NEW role \in Roles, NEW eval \in BOOLEAN,
         Insert(c, cur, role, eval),
         UNCHANGED <<decisionVars, outcome, refused, evaluations, feedback, owed, cur>>
  PROVE  /\ StoreInv' /\ c \in Children(cur)' /\ row'[c].role = role /\ (row'[c].eval <=> eval)
         /\ status'[cur] = "completed" /\ ~row'[cur].eval /\ action'[cur] \in Roles
         /\ \A t \in plan : t \in TaskId /\ status'[t] = "completed" /\ ~row'[t].eval
                            /\ Children(t)' = {} /\ t # cur
         /\ \A t \in Children(cur) : t \in Children(cur)' /\ row'[t] = row[t]
         /\ \A t \in ShadowRows' : t <= c
<1> USE DEF FeedbackInv
<1>1. /\ AtRow /\ cur \in TaskId /\ cur \in Rows /\ status[cur] = "completed" /\ ~row[cur].eval
      /\ action[cur] \in Roles
      /\ \A t \in plan : t \in TaskId /\ status[t] = "completed" /\ ~row[t].eval
                         /\ Children(t) = {} /\ t # cur
  BY AtChildren
<1>2. /\ row \in [TaskId -> [parent : 0..MaxTasks, role : Roles \cup {"evidence", "executor"}, eval : BOOLEAN]]
      /\ status \in [TaskId -> {"none", "active", "asking", "handing", "completed", "failed"}]
  BY DEF StoreInv, QueueInv
<1>3. /\ Fresh(c) /\ status' = [status EXCEPT ![c] = "active"] /\ finished' = finished
      /\ row' = [row EXCEPT ![c] = [parent |-> cur, role |-> role, eval |-> eval]]
  BY DEF Insert
<1>4. Inserted(c, cur, role, eval)
  <2>1. c # cur
    BY <1>1, <1>3 DEF Fresh
  <2>2. /\ status' \in [TaskId -> {"none", "active", "asking", "handing", "completed", "failed"}]
        /\ status'[c] = "active" /\ \A u \in TaskId \ {c, cur} : status'[u] = status[u]
        /\ status'[cur] = status[cur]
    BY <1>1, <1>2, <1>3, <2>1
  <2> QED
    BY <1>1, <1>3, <2>2 DEF Inserted
<1>5. /\ Kept /\ Rows' = Rows \cup {c} /\ c \notin Rows /\ cur # c
      /\ \A t \in TaskId : Children(t)' = IF t = cur THEN Children(t) \cup {c} ELSE Children(t)
      /\ \A t \in Rows : t < c
  BY <1>4, InsertedRows
<1>6. row'[c].parent = cur /\ row'[c].role = role /\ (row'[c].eval <=> eval)
  BY <1>2, <1>3
<1>7. /\ UNCHANGED <<decision, action, economics, outcome, refused, evaluations, feedback, owed>>
  BY DEF decisionVars
<1>8. ASSUME NEW t \in ShadowRows' PROVE Children(t)' = {}
  <2>1. t \in TaskId /\ t # cur /\ t \in Rows' /\ row'[t].eval
    <3>1. t \in Rows' /\ row'[t].eval
      BY <1>8 DEF ShadowRows
    <3>2. ~row'[cur].eval
      BY <1>1, <1>5 DEF Kept
    <3> QED
      BY <3>1, <3>2 DEF Rows
  <2>2. CASE t = c
    <3>1. \A u \in Rows : row[u].parent # c
      BY <1>5, TasksFinite DEF StoreInv, QueueInv, Rows
    <3> QED
      BY <1>5, <2>1, <2>2, <3>1 DEF Children
  <2>3. CASE t # c
    <3>1. t \in ShadowRows
      BY <1>5, <2>1, <2>3 DEF ShadowRows, Kept
    <3> QED
      BY <1>5, <2>1, <3>1 DEF StoreInv, ShadowInv
  <2> QED
    BY <2>2, <2>3
<1>9. owed' \subseteq TaskId /\ \A u \in owed' : row'[u].role = "executor" /\ status'[u] = "completed"
  BY <1>5, <1>7, OwedKept
<1>10. CreditInv'
  BY <1>5, <1>7, <1>9, CreditKept
<1>11. StoreInv'
  BY <1>5, <1>7, <1>8, <1>10, StoreKept
<1>12. \A t \in TaskId : status[t] = "completed" => status'[t] = "completed" /\ row'[t] = row[t]
  BY <1>5 DEF Kept, Rows
<1>13. \A t \in Children(cur) : t \in Children(cur)' /\ row'[t] = row[t]
  BY <1>1, <1>5 DEF Children, Kept
<1>14. \A t \in ShadowRows' : t <= c
  <2>1. ASSUME NEW t \in Rows' PROVE t <= c
    <3>1. t \in Nat /\ c \in Nat
      BY TasksFinite DEF Rows
    <3>2. t = c \/ t < c
      BY <1>5
    <3> QED
      BY <3>1, <3>2
  <2> QED
    BY <2>1 DEF ShadowRows
<1> QED
  BY <1>1, <1>5, <1>6, <1>7, <1>11, <1>12, <1>13, <1>14

\* A child is created while the budget lasts.
LEMMA SpawnKeeps ==
  ASSUME FeedbackInv, Spawn  PROVE FeedbackInv'
<1> USE DEF FeedbackInv
<1>1. /\ UNCHANGED <<decisionVars, outcome, refused, evaluations, feedback, owed>>
      /\ UNCHANGED <<traces, chosen, mishaps, cur, plan, cases>>
      /\ mpc = "spawn" /\ mpc' = "add" /\ kids > 0 /\ budget > 0
      /\ kids' = kids - 1 /\ budget' = budget - 1
  BY DEF Spawn, workersUnchanged, learnVars
<1>2. PICK c \in TaskId : Insert(c, cur, action[cur], FALSE) /\ child' = c
  BY DEF Spawn
<1>3. Spawning
  BY <1>1 DEF Spawning
<1> DEFINE role == action[cur]
<1>4. role \in Roles /\ cur \in TaskId
  BY <1>3, AtChildren
<1>5. /\ StoreInv' /\ c \in Children(cur)' /\ row'[c].role = role
      /\ status'[cur] = "completed" /\ ~row'[cur].eval /\ action'[cur] \in Roles
      /\ \A t \in plan : status'[t] = "completed" /\ ~row'[t].eval /\ Children(t)' = {} /\ t # cur
  BY <1>1, <1>2, <1>3, <1>4, QueuedByPlanner
<1>6. Place'
  <2>1. AtRow' /\ ~Judging' /\ Spawning' /\ mpc' \notin {"mark", "insert"}
    BY <1>1 DEF AtRow, Judging, Spawning
  <2> HIDE DEF role
  <2> QED
    BY <1>1, <1>2, <1>4, <1>5, <2>1 DEF Place
<1>7. PassTypes'
  <2>1. child' \in 0..MaxTasks
    BY <1>2, TasksFinite
  <2> QED
    BY <1>1, <2>1, FeedbackAssumption DEF PassTypes
<1> QED
  BY <1>5, <1>6, <1>7

\* A shadow's row is inserted before its evaluation.
LEMMA AddShadowKeeps ==
  ASSUME FeedbackInv, AddShadow  PROVE FeedbackInv'
<1> USE DEF FeedbackInv
<1>1. /\ UNCHANGED <<decisionVars, outcome, refused, evaluations, feedback, owed>>
      /\ UNCHANGED <<traces, chosen, mishaps, cur, plan, child, kids, budget, cases>>
      /\ mpc = "add" /\ mpc' = "insert"
  BY DEF AddShadow, workersUnchanged, learnVars
<1>2. PICK role \in Alternatives, c \in TaskId : Insert(c, cur, role, TRUE)
  BY DEF AddShadow
<1>3. Spawning /\ role \in Roles
  BY <1>1 DEF Spawning, Alternatives
<1>4. cur \in TaskId
  BY <1>3, AtChildren
<1>5. /\ StoreInv' /\ c \in Children(cur)' /\ row'[c].role = role /\ row'[c].eval
      /\ status'[cur] = "completed" /\ ~row'[cur].eval /\ action'[cur] \in Roles
      /\ \A t \in plan : status'[t] = "completed" /\ ~row'[t].eval /\ Children(t)' = {} /\ t # cur
      /\ \A t \in Children(cur) : t \in Children(cur)' /\ row'[t] = row[t]
      /\ \A t \in ShadowRows' : t <= c
  <2> DEFINE eval == TRUE
  <2>1. eval \in BOOLEAN /\ Insert(c, cur, role, eval)
    BY <1>2
  <2>2. eval
    OBVIOUS
  <2> HIDE DEF eval
  <2> QED
    BY <1>1, <1>3, <2>1, <2>2, QueuedByPlanner
<1>6. Place'
  <2>1. AtRow' /\ ~Judging' /\ Spawning' /\ mpc' # "mark"
    BY <1>1 DEF AtRow, Judging, Spawning
  <2>2. child' \in Children(cur)' /\ row'[child'].role \in Roles
    <3>1. child \in Children(cur) /\ row[child].role \in Roles
      BY <1>1 DEF Place
    <3> QED
      BY <1>1, <1>5, <3>1 DEF Children
  <2>3. c \in ShadowRows' /\ row'[c].parent = cur'
    BY <1>1, <1>5 DEF Children, ShadowRows
  <2> QED
    BY <1>1, <1>4, <1>5, <2>1, <2>2, <2>3 DEF Place, Children
<1>7. PassTypes'
  BY <1>1 DEF PassTypes
<1> QED
  BY <1>5, <1>6, <1>7

\* The shadow that was just queued is compared with the child it was queued beside.
LEMMA InsertEvaluationKeeps ==
  ASSUME FeedbackInv, InsertEvaluation  PROVE FeedbackInv'
<1> USE DEF FeedbackInv
<1> DEFINE s == CHOOSE u \in ShadowRows : \A v \in ShadowRows : v <= u
           new == [parent |-> cur, selected |-> child, shadow |-> s, selectedRole |-> row[child].role,
                   shadowRole |-> row[s].role, status |-> "pending"]
<1>1. /\ UNCHANGED <<queueVars, decisionVars, outcome, refused, feedback, owed>>
      /\ UNCHANGED <<traces, chosen, mishaps, cur, plan, child, kids, budget, cases>>
      /\ mpc = "insert" /\ mpc' = "spawn" /\ evaluations' = evaluations \cup {new}
  BY DEF InsertEvaluation, workersUnchanged, learnVars
<1>2. Spawning
  BY <1>1 DEF Spawning
<1>3. cur \in TaskId
  BY <1>2, AtChildren
<1>4. s \in ShadowRows /\ row[s].parent = cur /\ row[s].role \in Roles
  <2>1. PICK u \in ShadowRows : row[u].parent = cur /\ \A v \in ShadowRows : v <= u
    BY <1>1 DEF Place
  <2>2. s \in ShadowRows /\ \A v \in ShadowRows : v <= s
    BY <2>1
  <2> HIDE DEF s
  <2>3. s \in Nat /\ u \in Nat /\ s <= u /\ u <= s
    BY <2>1, <2>2, TasksFinite DEF ShadowRows, Rows
  <2>4. s = u
    BY <2>3
  <2>5. row[s].role \in Roles
    BY <2>2 DEF ShadowRows, Rows, StoreInv, QueueInv
  <2> QED
    BY <2>1, <2>2, <2>4, <2>5
<1> HIDE DEF s
<1>5. child \in Children(cur) /\ row[child].role \in Roles
  BY <1>1 DEF Place
<1>6. /\ new.parent = cur /\ new.selected = child /\ new.shadow = s /\ new.status = "pending"
      /\ new \in Evaluation
  BY <1>3, <1>4, <1>5 DEF Evaluation, Children, ShadowRows, Rows
<1> HIDE DEF new
<1>7. \A e \in evaluations' :
        /\ e \in Evaluation /\ {e.selected, e.shadow} \subseteq Children(e.parent)
        /\ e.status = "completed" => status[e.selected] = "completed" /\ status[e.shadow] = "completed"
  BY <1>1, <1>4, <1>5, <1>6 DEF StoreInv, ShadowInv, Children, ShadowRows
<1>8. StoreInv'
  BY <1>1, <1>7, EvaluationsKeep
<1>9. Place'
  BY <1>1, <1>2, SpawningOn
<1>10. PassTypes'
  BY <1>1 DEF PassTypes
<1> QED
  BY <1>8, <1>9, <1>10

-----------------------------------------------------------------------------
(* The planner measures *)

\* A row whose own action has not been decided is the answer to its parent's.
LEMMA AnswersParent ==
  ASSUME StoreInv, NEW t \in TaskId, decision[t] = "null",
         row[t].parent # NoTask, action[row[t].parent] # NoRole
  PROVE  Origin(t) = row[t].parent
<1>1. action[t] = NoRole
  BY DEF StoreInv, DecisionInv
<1> QED
  BY <1>1, OriginFacts DEF StoreInv

\* What record_action_outcome does not record has been recorded before.
LEMMA MeasuredBefore ==
  ASSUME StoreInv, NEW t \in TaskId, should_calibrate(t) => ~NewSample(t)
  PROVE  Replied(t)
<1> USE DEF StoreInv
<1>1. SUFFICES ASSUME Ordinary(t), row[t].parent # NoTask, action[row[t].parent] # NoRole,
                      decision[t] = "null"
               PROVE  Measured(row[t].parent)
  BY DEF Replied, DecidedInv
<1>2. Origin(t) = row[t].parent
  BY <1>1, AnswersParent
<1>3. Origin(t) # NoTask /\ ~NewSample(t)
  BY <1>1, <1>2 DEF should_calibrate, Ordinary
<1>4. CASE Measured(Origin(t))
  BY <1>2, <1>4
<1>5. CASE outcome[t] # NoOutcome
  <2>1. t \in Sampled(outcome)
    BY <1>5 DEF Sampled
  <2>2. outcome[t].parent = row[t].parent
    BY <1>1, <2>1 DEF OutcomeInv
  <2> QED
    BY <2>2 DEF Measured
<1> QED
  BY <1>3, <1>4, <1>5 DEF NewSample

\* A step that changes samples only, keeps what they are, and keeps what is decided measured.
LEMMA SamplesKeep ==
  ASSUME StoreInv, UNCHANGED <<queueVars, decisionVars, evaluations, feedback, owed>>,
         OutcomeInv', \A t \in TaskId : decision[t] # "null" => Replied(t)'
  PROVE  StoreInv'
<1> USE DEF StoreInv, decisionVars
<1>1. /\ UNCHANGED <<status, row, finished>> /\ Rows' = Rows /\ ShadowRows' = ShadowRows
      /\ Ancestry' = Ancestry /\ \A t : Children(t)' = Children(t)
  BY SameRows
<1>2. QueueInv' /\ FinishedInv' /\ DecisionInv'
  BY <1>1 DEF QueueInv, FinishedInv, DecisionInv
<1>3. CreditInv' /\ ShadowInv' /\ DecidedInv'
  BY <1>1 DEF CreditInv, ShadowInv, DecidedInv
<1> QED
  BY <1>2, <1>3

\* A new sample is the first of its action, and what is measured stays so, unless
\* there are as many samples as the table keeps.
LEMMA NewSampleKeeps ==
  ASSUME StoreInv, NEW t \in TaskId, status[t] = "completed", ~row[t].eval,
         NEW actual \in Percent, NewSample(t), record_action_outcome(t, actual),
         UNCHANGED <<queueVars, decisionVars, refused, evaluations, feedback, owed>>
  PROVE  StoreInv' /\ Replied(t)'
<1> USE DEF StoreInv
<1> DEFINE o == Origin(t)
           new == [parent |-> o, role |-> action[o], expected |-> economics[o].expected, actual |-> actual]
           f == [outcome EXCEPT ![t] = new]
<1>1. /\ UNCHANGED <<status, row, finished, action, decision, economics>> /\ Ancestry' = Ancestry
  BY SameRows DEF decisionVars
<1>2. o # NoTask /\ ~Measured(o) /\ outcome[t] = NoOutcome
  BY DEF NewSample
<1>3. o \in TaskId /\ o \in Ancestry[t] /\ action[o] \in Roles /\ ~row[o].eval
  BY <1>2, OriginFacts
<1>4. outcome' = Pruned(f)
  BY Zenon DEF record_action_outcome
<1>5. new \in Outcome /\ new.parent = o
  <2>1. economics[o] \in [raw : Percent, expected : Percent]
    BY <1>3 DEF DecisionInv
  <2>2. economics[o].expected \in Percent
    BY <2>1
  <2> HIDE DEF o
  <2> QED
    BY <1>3, <2>2 DEF Outcome
<1>6. decision[t] = "null" /\ row[t].parent # NoTask /\ action[row[t].parent] # NoRole => o = row[t].parent
  BY AnswersParent
<1> HIDE DEF o, new
<1>7. new # NoOutcome
  <2>1. NoOutcome.parent = NoTask
    BY DEF NoOutcome
  <2> QED
    BY <1>2, <1>5, <2>1
<1>8. /\ f \in [TaskId -> Outcome \cup {NoOutcome}] /\ f[t] = new
      /\ \A u \in TaskId : u # t => f[u] = outcome[u]
  BY <1>5 DEF OutcomeInv
<1> HIDE DEF f
<1>9. Sampled(f) = Sampled(outcome) \cup {t} /\ t \notin Sampled(outcome)
  BY <1>2, <1>7, <1>8 DEF Sampled
<1>10. /\ Cardinality(Sampled(f)) = Cardinality(Sampled(outcome)) + 1
       /\ Cardinality(Sampled(outcome)) \in Nat /\ Cardinality(Sampled(outcome)) <= MaxRows
  <2>1. IsFiniteSet(Sampled(outcome))
    BY TasksFinite, FS_Subset DEF Sampled
  <2> QED
    BY <1>9, <2>1, FS_AddElement, FS_CardinalityType DEF OutcomeInv
<1>11. \A u \in Sampled(f) : status[u] \in Past
  BY <1>9 DEF OutcomeInv, Past
<1>12. MaxRows \in Nat \ {0}
  BY TasksFinite
<1>13. Cardinality(Sampled(f)) <= MaxRows + 1
  BY <1>10, <1>12
<1>14. /\ outcome' \in [TaskId -> Outcome \cup {NoOutcome}]
       /\ \A u \in TaskId : outcome'[u] \in {f[u], NoOutcome}
       /\ Cardinality(Sampled(outcome')) <= MaxRows
       /\ Cardinality(Sampled(f)) <= MaxRows => outcome' = f
       /\ Cardinality(Sampled(f)) = MaxRows + 1 => Cardinality(Sampled(outcome')) = MaxRows
  BY <1>4, <1>8, <1>11, <1>13, PrunedIs
<1>15. outcome' = f \/ Full'
  BY <1>10, <1>12, <1>14 DEF Full
<1>16. Full => Full'
  BY <1>10, <1>12, <1>14 DEF Full
<1>17. \A u \in Sampled(outcome') : u \in Sampled(f) /\ outcome'[u] = f[u]
  BY <1>14 DEF Sampled
<1>18. OutcomeInv'
  <2>1. ASSUME NEW u \in Sampled(outcome')
        PROVE  /\ status[u] = "completed" /\ ~row[u].eval
               /\ outcome'[u].parent \in Ancestry[u] /\ ~row[outcome'[u].parent].eval
               /\ decision[u] = "null" /\ row[u].parent # NoTask /\ action[row[u].parent] # NoRole
                    => outcome'[u].parent = row[u].parent
    <3>1. CASE u = t
      <4>1. outcome'[u].parent = o
        BY <1>5, <1>8, <1>17, <3>1
      <4> QED
        BY <1>3, <1>6, <3>1, <4>1
    <3>2. CASE u # t
      <4>1. u \in Sampled(outcome) /\ outcome'[u] = outcome[u]
        BY <1>8, <1>9, <1>17, <3>2 DEF Sampled
      <4> QED
        BY <4>1 DEF OutcomeInv
    <3> QED
      BY <3>1, <3>2
  <2>2. ASSUME NEW u \in Sampled(outcome'), u # t
        PROVE  u \in Sampled(outcome) /\ outcome'[u] = outcome[u] /\ outcome'[u].parent # o
    <3>1. u \in Sampled(outcome) /\ outcome'[u] = outcome[u]
      BY <1>8, <1>9, <1>17, <2>2 DEF Sampled
    <3> QED
      BY <1>2, <3>1 DEF Measured, Sampled
  <2>3. \A u \in Sampled(outcome') : u = t => outcome'[u].parent = o
    BY <1>5, <1>8, <1>17
  <2>4. \A u, v \in Sampled(outcome') : outcome'[u].parent = outcome'[v].parent => u = v
    BY <2>2, <2>3 DEF OutcomeInv
  <2>5. Sampled(outcome)' = Sampled(outcome')
    BY DEF Sampled
  <2> QED
    BY <1>1, <1>14, <2>1, <2>4, <2>5 DEF OutcomeInv
<1> DEFINE Stays(p) == (\E u \in TaskId : outcome'[u].parent = p) \/ Full'
<1>19. ASSUME NEW p, \E u \in TaskId : outcome[u].parent = p, p # NoTask PROVE Stays(p)
  <2>1. PICK u \in TaskId : outcome[u].parent = p
    BY <1>19
  <2>2. NoOutcome.parent = NoTask
    BY DEF NoOutcome
  <2>3. f[u] = outcome[u]
    BY <1>2, <1>8, <1>19, <2>1, <2>2
  <2> QED
    BY <1>15, <2>1, <2>3
<1>20. Stays(o)
  BY <1>5, <1>8, <1>15
<1>21. \A u \in TaskId :
         Replied(u)' <=> (Ordinary(u) /\ row[u].parent # NoTask /\ action[row[u].parent] # NoRole
                            => Stays(row[u].parent) \/ u \in refused)
  BY <1>1 DEF Replied, Ordinary, CapabilityEvidence, Measured
<1> HIDE DEF Stays
<1>24. ASSUME NEW u \in TaskId, Replied(u) PROVE Replied(u)'
  <2>1. SUFFICES ASSUME Ordinary(u), row[u].parent # NoTask, action[row[u].parent] # NoRole
                 PROVE  Stays(row[u].parent) \/ u \in refused
    BY <1>21
  <2>2. CASE Full
    BY <1>16, <2>2 DEF Stays
  <2>3. CASE ~Full /\ u \notin refused
    <3>1. \E v \in TaskId : outcome[v].parent = row[u].parent
      BY <1>24, <2>1, <2>3 DEF Replied, Measured
    <3> QED
      BY <1>19, <2>1, <3>1
  <2> QED
    BY <2>2, <2>3
<1>22. Replied(t)'
  <2>1. CASE decision[t] # "null"
    BY <1>24, <2>1 DEF DecidedInv
  <2>2. CASE decision[t] = "null"
    BY <1>6, <1>20, <1>21, <2>2
  <2> QED
    BY <2>1, <2>2
<1>23. \A u \in TaskId : decision[u] # "null" => Replied(u)'
  BY <1>24 DEF DecidedInv
<1> QED
  BY <1>18, <1>22, <1>23, SamplesKeep

\* A measurement that fails leaves the samples as they are, and is remembered.
LEMMA RefusalKeeps ==
  ASSUME StoreInv, NEW t \in TaskId, UNCHANGED <<queueVars, decisionVars, outcome, evaluations, feedback, owed>>,
         refused' = refused \cup {t}
  PROVE  StoreInv' /\ Replied(t)'
<1> USE DEF StoreInv
<1>1. /\ UNCHANGED <<status, row, finished, action, decision, economics>> /\ Ancestry' = Ancestry
  BY SameRows DEF decisionVars
<1>2. OutcomeInv'
  BY <1>1 DEF OutcomeInv, Sampled
<1>3. Replied(t)' /\ \A u \in TaskId : Replied(u) => Replied(u)'
  BY <1>1 DEF Replied, Ordinary, CapabilityEvidence, Measured, Full, Sampled
<1>4. \A u \in TaskId : decision[u] # "null" => Replied(u)'
  BY <1>3 DEF DecidedInv
<1> QED
  BY <1>2, <1>3, <1>4, SamplesKeep

\* A row of the pass is taken up, and measured when it answers an action.
LEMMA CalibrateKeeps ==
  ASSUME FeedbackInv, Calibrate  PROVE FeedbackInv'
<1> USE DEF FeedbackInv
<1>1. /\ UNCHANGED <<queueVars, decisionVars, evaluations, feedback, owed>>
      /\ UNCHANGED <<traces, chosen, kids, child, budget, cases>>
      /\ mpc = "row" /\ mpc' = "choose"
  BY DEF Calibrate
<1>2. PICK t \in plan :
        /\ plan' = plan \ {t} /\ cur' = t
        /\ \/ ~should_calibrate(t) /\ UNCHANGED <<outcome, refused, mishaps>>
           \/ /\ should_calibrate(t) /\ UNCHANGED <<refused, mishaps>>
              /\ \E actual \in IF row[t].role = "executor" THEN {0} ELSE {0, 100} :
                   record_action_outcome(t, actual)
           \/ /\ UNCHANGED outcome /\ mishaps < MaxMishaps /\ mishaps' = mishaps + 1
              /\ refused' = refused \cup {t}
  BY DEF Calibrate
<1>4. t \in TaskId /\ status[t] = "completed" /\ ~row[t].eval /\ Children(t) = {}
  BY DEF PassTypes, Place
<1>5. StoreInv' /\ Replied(t)' /\ refused' \in SUBSET TaskId /\ mishaps' \in 0..MaxMishaps
  <2>1. refused \in SUBSET TaskId /\ mishaps \in 0..MaxMishaps
    BY DEF PassTypes
  <2>2. CASE ~should_calibrate(t) /\ UNCHANGED <<outcome, refused, mishaps>>
    <3>1. Replied(t)
      BY <1>4, <2>2, MeasuredBefore
    <3> QED
      BY <1>1, <2>1, <2>2, <3>1, StoreSame
  <2>3. CASE /\ should_calibrate(t) /\ UNCHANGED <<refused, mishaps>>
             /\ \E actual \in IF row[t].role = "executor" THEN {0} ELSE {0, 100} :
                  record_action_outcome(t, actual)
    <3>1. PICK actual \in {0, 100} : record_action_outcome(t, actual)
      BY <2>3
    <3>2. CASE NewSample(t)
      <4>1. actual \in Percent
        BY DEF Percent
      <4> QED
        BY <1>1, <1>4, <2>1, <2>3, <3>1, <3>2, <4>1, NewSampleKeeps
    <3>3. CASE ~NewSample(t)
      <4>1. outcome' = outcome
        BY <3>1, <3>3 DEF record_action_outcome
      <4>2. Replied(t)
        BY <1>4, <3>3, MeasuredBefore
      <4> QED
        BY <1>1, <2>1, <2>3, <4>1, <4>2, StoreSame
    <3> QED
      BY <3>2, <3>3
  <2>4. CASE /\ UNCHANGED outcome /\ mishaps < MaxMishaps /\ mishaps' = mishaps + 1
             /\ refused' = refused \cup {t}
    <3>1. StoreInv' /\ Replied(t)'
      BY <1>1, <1>4, <2>4, RefusalKeeps
    <3>2. mishaps' \in 0..MaxMishaps
      BY <2>1, <2>4, FeedbackAssumption
    <3> QED
      BY <1>4, <2>1, <2>4, <3>1, <3>2
  <2> QED
    BY <1>2, <2>2, <2>3, <2>4
<1>6. Place'
  <2>1. AtRow' /\ Judging' /\ ~Spawning' /\ mpc' = "choose"
    BY <1>1 DEF AtRow, Judging, Spawning
  <2>2. status' = status /\ row' = row /\ \A u : Children(u)' = Children(u)
    BY <1>1, SameRows
  <2>3. \A u \in plan' : status'[u] = "completed" /\ ~row'[u].eval /\ Children(u)' = {} /\ u # cur'
    BY <1>2, <2>2 DEF Place
  <2>4. Replied(cur)' /\ Children(cur)' = {}
    BY <1>2, <1>4, <1>5, <2>2 DEF Replied, Ordinary, CapabilityEvidence, Measured, Full, Sampled
  <2> QED
    BY <1>2, <1>4, <2>1, <2>2, <2>3, <2>4 DEF Place
<1>7. PassTypes'
  <2>1. cur' \in 0..MaxTasks
    BY <1>2, <1>4, TasksFinite
  <2> QED
    BY <1>1, <1>2, <1>5, <2>1 DEF PassTypes
<1> QED
  BY <1>5, <1>6, <1>7

-----------------------------------------------------------------------------
(* The theorems about the feedback *)

\* The first row, and nothing recorded.
LEMMA FeedbackInitOk ==
  ASSUME FeedbackInit  PROVE FeedbackInv
<1> USE DEF FeedbackInit
<1>0. /\ NoTask = 0 /\ TaskId \in SUBSET Nat /\ MaxTasks \in Nat /\ MaxRows \in Nat \ {0}
      /\ \A t \in TaskId : t \in 1..MaxTasks
  BY TasksFinite DEF TaskId
<1>1. \A t \in TaskId : row[t].parent = NoTask /\ row[t].role = RootRole /\ row[t].eval = FALSE
  OBVIOUS
<1>2. Rows \in SUBSET {1} /\ ShadowRows = {}
  BY <1>1 DEF Rows, ShadowRows
<1>3. QueueInv
  <2>1. row \in [TaskId -> [parent : 0..MaxTasks, role : Roles \cup {"evidence", "executor"}, eval : BOOLEAN]]
    BY <1>0, FeedbackAssumption
  <2>2. \A t \in Rows, u \in TaskId : u < t => u \in Rows
    BY <1>0, <1>2 DEF Rows
  <2>3. \A t \in TaskId : row[t].parent \in 0..(t - 1)
    BY <1>0, <1>1
  <2> QED
    BY <1>1, <2>1, <2>2, <2>3 DEF QueueInv
<1>4. FinishedInv
  BY DEF FinishedInv, Past
<1>5. DecisionInv
  <2>1. NoEconomics \in [raw : Percent, expected : Percent]
    BY DEF NoEconomics, Percent
  <2> QED
    BY <2>1 DEF DecisionInv, NoRole
<1>6. Sampled(outcome) = {} /\ Cardinality(Sampled(outcome)) = 0
  BY FS_EmptySet DEF Sampled
<1>7. OutcomeInv
  <2>1. outcome \in [TaskId -> Outcome \cup {NoOutcome}]
    OBVIOUS
  <2> HIDE DEF FeedbackInit
  <2> QED
    BY <1>0, <1>6, <2>1 DEF OutcomeInv
<1>8. CreditInv /\ ShadowInv /\ DecidedInv
  BY <1>2 DEF CreditInv, ShadowInv, DecidedInv
<1>9. PassTypes
  <2>1. refused \subseteq TaskId /\ cases \in BOOLEAN
    BY Zenon
  <2> QED
    BY <1>0, <2>1, FeedbackAssumption DEF PassTypes
<1>10. Place
  BY DEF Place, AtRow, Judging, Spawning
<1> QED
  BY <1>3, <1>4, <1>5, <1>7, <1>8, <1>9, <1>10 DEF FeedbackInv, StoreInv

\* Every step of the planner and of a worker, and every kill, keeps the invariant.
LEMMA FeedbackStep ==
  ASSUME FeedbackInv, [FeedbackNext]_feedbackVars  PROVE FeedbackInv'
<1>1. CASE PlannerStep
  BY <1>1, ProcessShadowsKeeps, LoadKeeps, CalibrateKeeps, PlanDoneKeeps, StopKeeps, SelectKeeps,
     RouteKeeps, MarkKeeps, SpawnKeeps, DuplicateKeeps, SpawnDoneKeeps, AddShadowKeeps, NoShadowKeeps,
     InsertEvaluationKeeps DEF PlannerStep
<1>2. CASE PlannerKilled \/ RegisterCase
  BY <1>2, PlannerKilledKeeps, RegisterCaseKeeps
<1>3. ASSUME NEW t \in TaskId, WorkerStep(t) PROVE FeedbackInv'
  BY <1>3, RunKeeps, AddChildKeeps, EndAfterChildKeeps, FeedbackKeeps DEF WorkerStep
<1>4. ASSUME NEW t \in TaskId, WorkerKilled(t) PROVE FeedbackInv'
  BY <1>4, WorkerKilledKeeps
<1>5. CASE UNCHANGED feedbackVars
  <2>1. /\ UNCHANGED <<queueVars, decisionVars, outcome, refused, evaluations, feedback, owed>>
        /\ UNCHANGED <<traces, mpc, plan, cur, chosen, kids, budget, child, mishaps, cases>>
    BY <1>5 DEF feedbackVars, learnVars, planVars
  <2>2. StoreInv' /\ \A t : Replied(t)' = Replied(t)
    BY <2>1, StoreSame DEF FeedbackInv
  <2>3. PassTypes'
    BY <2>1 DEF FeedbackInv, PassTypes
  <2>4. /\ UNCHANGED <<status, row, finished, action>> /\ Rows' = Rows /\ ShadowRows' = ShadowRows
        /\ \A t : Children(t)' = Children(t)
    BY <2>1, SameRows DEF decisionVars
  <2>5. Replied(cur)' = Replied(cur) /\ Children(cur)' = Children(cur) /\ Children(cur') = Children(cur)
    BY <2>1, <2>2, <2>4 DEF Replied, Ordinary, CapabilityEvidence, Measured, Full, Children, Rows
  <2>6. Place'
    BY <2>1, <2>4, <2>5 DEF FeedbackInv, Place, AtRow, Judging, Spawning
  <2> QED
    BY <2>2, <2>3, <2>6 DEF FeedbackInv
<1> QED
  BY <1>1, <1>2, <1>3, <1>4, <1>5 DEF FeedbackNext

\* The rows and what is recorded about them agree, at every step of the planner and
\* of the workers, wherever one of them is killed.
THEOREM FeedbackInvariant == FeedbackSpec => []FeedbackInv
<1>1. FeedbackInit => FeedbackInv
  BY FeedbackInitOk
<1>2. FeedbackInv /\ [FeedbackNext]_feedbackVars => FeedbackInv'
  BY FeedbackStep
<1> QED
  BY <1>1, <1>2, PTL DEF FeedbackSpec

\* A sample and a credit are the action's own.
LEMMA CreditIsOwn ==
  ASSUME FeedbackInv  PROVE CreditIsEarned
<1> USE DEF FeedbackInv, StoreInv
<1>1. FeedbackTypes
  BY DEF FeedbackTypes, QueueInv, FinishedInv, DecisionInv, OutcomeInv, CreditInv, ShadowInv,
         PassTypes, Past
<1>2. \A t, u \in TaskId : outcome[t] # NoOutcome =>
        /\ outcome[t].parent \in Ancestry[t]
        /\ outcome[u].parent = outcome[t].parent => t = u
  <2>1. SUFFICES ASSUME NEW t \in TaskId, NEW u \in TaskId, outcome[t] # NoOutcome
                 PROVE  /\ outcome[t].parent \in Ancestry[t]
                        /\ outcome[u].parent = outcome[t].parent => t = u
    BY Zenon
  <2>2. t \in Sampled(outcome) /\ outcome[t].parent \in TaskId
    BY <2>1 DEF Sampled, OutcomeInv, Outcome
  <2>3. NoOutcome.parent \notin TaskId
    BY TasksFinite DEF NoOutcome
  <2>4. outcome[u].parent = outcome[t].parent => u \in Sampled(outcome)
    BY <2>2, <2>3 DEF Sampled
  <2> QED
    BY <2>2, <2>4 DEF OutcomeInv
<1>3. \A f \in feedback :
        /\ row[f.task].role = "executor" /\ status[f.task] = "completed"
        /\ action[f.origin] # NoRole /\ f.origin \in Ancestry[f.task]
        /\ \A g \in feedback : g.task = f.task => g = f
  BY DEF CreditInv
<1> QED
  BY <1>1, <1>2, <1>3, Zenon DEF CreditIsEarned

\* However often a row is planned again, whoever is killed, and whatever its descendants
\* report, an action has one sample, recorded for a row of its own branch, and a proven
\* execution is credited once, to the action it descends from (record_action_outcome and
\* record_verified_outcome_feedback).
THEOREM CreditGoesToTheAction == FeedbackSpec => []CreditIsEarned
<1>1. FeedbackInv => CreditIsEarned
  BY CreditIsOwn
<1> QED
  BY <1>1, FeedbackInvariant, PTL

\* What is recorded leaves the shadows apart.
LEMMA ShadowsAreApart ==
  ASSUME FeedbackInv  PROVE ShadowsOnlyCompare
<1> USE DEF FeedbackInv, StoreInv
<1>1. ASSUME NEW t \in ShadowRows
      PROVE  /\ decision[t] = "null" /\ Children(t) = {}
             /\ outcome[t] = NoOutcome /\ \A u \in TaskId : outcome[u].parent # t
  <2>1. t \in TaskId /\ row[t].eval
    BY DEF ShadowRows, Rows
  <2>2. decision[t] = "null" /\ Children(t) = {}
    BY <2>1 DEF DecisionInv, ShadowInv
  <2>3. outcome[t] = NoOutcome
    BY <2>1 DEF OutcomeInv, Sampled
  <2>4. ASSUME NEW u \in TaskId PROVE outcome[u].parent # t
    <3>1. CASE outcome[u] = NoOutcome
      BY <2>1, <3>1, TasksFinite DEF NoOutcome
    <3>2. CASE outcome[u] # NoOutcome
      BY <2>1, <3>2 DEF OutcomeInv, Sampled
    <3> QED
      BY <3>1, <3>2
  <2> QED
    BY <2>2, <2>3, <2>4
<1> QED
  BY <1>1 DEF ShadowsOnlyCompare, ShadowInv

\* A shadow row never becomes a branch, teaches the policy nothing, and is compared with
\* the selected child next to it after both have delivered (planning_tasks,
\* insert_shadow_evaluation, record_shadow_outcome).
THEOREM ShadowsStayShadows == FeedbackSpec => []ShadowsOnlyCompare
<1>1. FeedbackInv => ShadowsOnlyCompare
  BY ShadowsAreApart
<1> QED
  BY <1>1, FeedbackInvariant, PTL

\* The planner measures an answer to an action before it decides what follows from it,
\* in whatever pass it takes the row up; only newer samples push the measure out again, and
\* only a measurement that failed of this very row is passed over
\* (plan_existing, should_calibrate, record_action_outcome).
THEOREM MeasuredBeforeDecided == FeedbackSpec => []DecidedIsMeasured
<1>1. FeedbackInv => DecidedIsMeasured
  BY DEF FeedbackInv, StoreInv, DecidedInv, Replied, Full, Rows, DecidedIsMeasured
<1> QED
  BY <1>1, FeedbackInvariant, PTL

\* The policy's one claim, for every history: select_action does not choose an action whose
\* samples were all worthless over one of the same promise and cost that brought all it
\* promised, whatever the other samples, the branch and the calibration make of the scores.
LEMMA SelectedIsNoFailure ==
  ASSUME FeedbackInv, NEW C \in Candidates, NEW w \in Best(cur, C), NEW r \in C
  PROVE  LET own == From(Of(Samples, w), row[cur].role)
         IN  ~/\ Base[w] > 5 /\ Base[r] >= Base[w] /\ Cost[r] <= Cost[w]
              /\ r \in RecentRoles(cur) => w \in RecentRoles(cur)
              /\ Cardinality(own) >= ViabilitySamples /\ Cardinality(own) >= RecentSamples
              /\ \A s \in own : s.actual = 0 /\ s.raw > 5
              /\ \A s \in Of(Samples, r) : s.actual = 100
<1>1. History(Samples) /\ \A s \in Samples : s.at \in Int
  BY SamplesAre DEF FeedbackInv, StoreInv
<1>2. /\ C \in SUBSET Roles /\ w \in Roles /\ r \in Roles
      /\ Score(Samples, r, row[cur].role, Branch(cur), RecentRoles(cur))
           <= Score(Samples, w, row[cur].role, Branch(cur), RecentRoles(cur))
  BY DEF Candidates, Best, select_action
<1>3. SUFFICES ASSUME Base[w] > 5, Base[r] >= Base[w], Cost[r] <= Cost[w],
                      r \in RecentRoles(cur) => w \in RecentRoles(cur),
                      LET own == From(Of(Samples, w), row[cur].role)
                      IN  /\ Cardinality(own) >= ViabilitySamples /\ Cardinality(own) >= RecentSamples
                          /\ \A s \in own : s.actual = 0 /\ s.raw > 5,
                      \A s \in Of(Samples, r) : s.actual = 100
               PROVE  FALSE
  BY Zenon
<1>4. ~(Score(Samples, r, row[cur].role, Branch(cur), RecentRoles(cur))
           <= Score(Samples, w, row[cur].role, Branch(cur), RecentRoles(cur)))
  <2> DEFINE H == Samples
             source == row[cur].role
             branch == Branch(cur)
             recent == RecentRoles(cur)
  <2>1. /\ History(H) /\ \A s \in H : s.at \in Int
        /\ r \in recent => w \in recent
        /\ LET own == From(Of(H, w), source)
           IN  /\ Cardinality(own) >= ViabilitySamples /\ Cardinality(own) >= RecentSamples
               /\ \A s \in own : s.actual = 0 /\ s.raw > 5
        /\ \A s \in Of(H, r) : s.actual = 100
    BY <1>1, <1>3
  <2> HIDE DEF H, source, branch, recent
  <2>2. ~(Score(H, r, source, branch, recent) <= Score(H, w, source, branch, recent))
    BY <1>2, <1>3, <2>1, FailureScoresLess
  <2> QED
    BY <2>2 DEF H, source, branch, recent
<1> QED
  BY <1>2, <1>4

\* Only select_action adds a trace, of what it has selected and from what.
LEMMA LearnsStep ==
  ASSUME FeedbackInv, [FeedbackNext]_feedbackVars, NEW x \in traces' \ traces
  PROVE  \E C \in Candidates : \E w \in Best(cur, C) : x = [task |-> cur, role |-> w, over |-> C]
<1>1. CASE PlannerStep
  <2>1. CASE Select
    BY <2>1 DEF Select
  <2>2. CASE ~Select
    <3>1. traces' \in SUBSET traces
      BY <1>1, <2>2 DEF PlannerStep, ProcessShadows, Load, Calibrate, PlanDone, Stop, Route, Mark, Spawn,
         Duplicate, SpawnDone, AddShadow, NoShadow, InsertEvaluation, learnVars
    <3> QED
      BY <3>1
  <2> QED
    BY <2>1, <2>2
<1>2. CASE PlannerKilled \/ RegisterCase
  BY <1>2 DEF PlannerKilled, RegisterCase, learnVars
<1>3. ASSUME NEW t \in TaskId, WorkerStep(t) \/ WorkerKilled(t) PROVE traces' = traces
  BY <1>3 DEF WorkerStep, WorkerKilled, Run, AddChild, EndAfterChild,
     record_verified_outcome_feedback, plannerUnchanged, learnVars
<1>4. CASE UNCHANGED feedbackVars
  BY <1>4 DEF feedbackVars, learnVars
<1> QED
  BY <1>1, <1>2, <1>3, <1>4 DEF FeedbackNext

\* What failed is not chosen again where something as cheap and as promising has worked:
\* every selection that select_action records keeps the promise, after any history that
\* the planner and its workers can have produced.
THEOREM FailureIsLearnt == FeedbackSpec => LearnsFromFailure
<1> DEFINE Apt(x) ==
      \A r \in x.over :
       LET own == From(Of(Samples, x.role), row[x.task].role)
       IN  ~/\ Base[x.role] > 5 /\ Base[r] >= Base[x.role] /\ Cost[r] <= Cost[x.role]
            /\ r \in RecentRoles(x.task) => x.role \in RecentRoles(x.task)
            /\ Cardinality(own) >= ViabilitySamples /\ Cardinality(own) >= RecentSamples
            /\ \A s \in own : s.actual = 0 /\ s.raw > 5
            /\ \A s \in Of(Samples, r) : s.actual = 100
<1>1. ASSUME FeedbackInv, [FeedbackNext]_feedbackVars
      PROVE  \A x \in traces' \ traces : Apt(x)
  <2>1. ASSUME NEW x \in traces' \ traces PROVE Apt(x)
    <3>1. PICK C \in Candidates : \E w \in Best(cur, C) : x = [task |-> cur, role |-> w, over |-> C]
      BY <1>1, LearnsStep
    <3>2. PICK w \in Best(cur, C) : x = [task |-> cur, role |-> w, over |-> C]
      BY <3>1
    <3>3. x.task = cur /\ x.role = w /\ x.over = C
      BY <3>2
    <3>4. ASSUME NEW r \in C
          PROVE  LET own == From(Of(Samples, w), row[cur].role)
                 IN  ~/\ Base[w] > 5 /\ Base[r] >= Base[w] /\ Cost[r] <= Cost[w]
                      /\ r \in RecentRoles(cur) => w \in RecentRoles(cur)
                      /\ Cardinality(own) >= ViabilitySamples /\ Cardinality(own) >= RecentSamples
                      /\ \A s \in own : s.actual = 0 /\ s.raw > 5
                      /\ \A s \in Of(Samples, r) : s.actual = 100
      BY <1>1, SelectedIsNoFailure
    <3> QED
      BY <3>3, <3>4
  <2> QED
    BY <2>1
<1> QED
  BY <1>1, FeedbackInvariant, PTL DEF FeedbackSpec, LearnsFromFailure

-----------------------------------------------------------------------------
(* The reproduction lab *)

USE LabAssumption, NamesAssumption

-----------------------------------------------------------------------------
(* The inductive invariant of the lab *)

Boxes == [state : {"none", "creating", "created", "starting", "running", "exited", "removed"},
          tree : Commits \cup {"none", "mixed"}, exit : Int, wrote : Contracts \cup {"none", "empty"}]
Jobs == [contract : Contracts \cup {"none"}, dir : Dirs \cup {"none"}, copied : SUBSET Paths,
         tree : Commits \cup {"none", "mixed"}, exit : Int,
         error : {"none", "wait", "timeout_stop_unconfirmed"}, stopped : BOOLEAN,
         output : {"none", "PASS", "FAIL", "NOT_RUN"},
         cleanup : {"NOT_NEEDED", "REMOVED", "FAILED"},
         sandbox : {"none", "process", "container"}, read : Nat, buffer : Nat, truncated : BOOLEAN]
Statuses == {"none", "SANDBOXED", "not_started", "execution_timeout", "FAIL", "NOT_RUN",
             "INCONCLUSIVE", "INCOMPLETE", "TIMED_OUT", "FAILED", "SUCCEEDED"}
Processes == [up : BOOLEAN, child : Offspring \cup {"none"}]
Reports == [status : Statuses, level3 : {"none", "PASS", "FAIL", "NOT_RUN", "INCONCLUSIVE"},
            contract : Contracts \cup {"none"}]
Outputs == Contracts \cup {"absent", "empty", "part", "none"}

Types ==
  /\ manifest \in Contracts \cup {"none"} /\ file \in Contracts \cup {"invalid"}
  /\ head \in Commits /\ work \in [Paths -> Commits \cup {"edited", "absent"}]
  /\ pc \in [Runs -> Stages] /\ job \in [Runs -> Jobs] /\ container \in [Runs -> Boxes]
  /\ process \in [Runs -> Processes] /\ out \in [Dirs -> Outputs] /\ report \in [Runs -> Reports]
  /\ events \in 0..MaxEvents

\* Who works, or has worked with success, in its output directory.
Holds(r) == pc[r] \in Inside \/ report[r].status = "SUCCEEDED"

\* The contract a call works for is of the bundle's case, the tree it has copied is
\* of the pinned commit, and no container runs before it is asked for.
Prepared(r) ==
  /\ pc[r] = "idle" => job[r] = NoJob
  /\ pc[r] \in {"load", "git", "docker", "mkdir"} \cup Inside =>
       job[r].sandbox = "none" /\ job[r].dir \in Dirs
  /\ pc[r] \in {"git", "docker", "mkdir"} \cup Inside =>
       job[r].contract \in Contracts /\ CaseOf[job[r].contract] = Case
  /\ pc[r] \in {"load", "git", "docker", "mkdir"} => job[r].tree = "none"
  /\ pc[r] = "copy" => job[r].tree \in {"none", CommitOf[job[r].contract]}
  /\ pc[r] \in {"start", "unstart"} => job[r].tree = CommitOf[job[r].contract]
  /\ pc[r] \in {"idle", "load", "git", "docker", "mkdir", "copy", "start"} =>
       container[r].state = "none"
  /\ pc[r] \in {"load", "git", "docker", "mkdir", "copy", "start", "wait"} =>
       job[r].error = "none" /\ ~job[r].stopped

\* A container that was started is of the pinned tree; a call without an error
\* knows that it has ended, and how.
Watched(r) ==
  /\ pc[r] \in {"wait", "stop", "collect", "verify", "cleanup", "judge"} =>
       container[r].tree = CommitOf[job[r].contract]
  /\ pc[r] \in {"wait", "stop", "collect", "verify", "cleanup"} =>
       container[r].state \in {"running", "exited"}
  /\ pc[r] = "stop" => job[r].error = "none" /\ job[r].stopped
  /\ pc[r] \in {"collect", "verify", "cleanup"} /\ job[r].error = "none" =>
       container[r].state = "exited"
  /\ pc[r] = "judge" => container[r].state \in {"running", "exited", "removed"}
  /\ pc[r] = "judge" /\ job[r].error = "none" => container[r].state \in {"exited", "removed"}
  /\ pc[r] \in {"collect", "verify", "cleanup", "judge"}
       /\ job[r].error = "none" /\ ~job[r].stopped => job[r].exit = container[r].exit
  /\ pc[r] = "judge" /\ job[r].cleanup = "REMOVED" => container[r].state = "removed"

\* What passed is in the directory, and is what the container wrote.
Collected(r) ==
  /\ Holds(r) => job[r].dir \in Dirs /\ out[job[r].dir] # "absent"
  /\ pc[r] = "verify" =>
       job[r].error = "none" /\ out[job[r].dir] \in {container[r].wrote, "empty"}
  /\ pc[r] \in {"cleanup", "judge"} /\ job[r].output = "PASS" =>
       /\ job[r].error = "none"
       /\ out[job[r].dir] = job[r].contract /\ container[r].wrote = job[r].contract

\* What has been answered stays true.
Answered(r) ==
  /\ report[r].status = "none" <=> pc[r] # "done"
  /\ report[r].status = "SUCCEEDED" =>
       LET c == report[r].contract box == container[r] IN
       /\ box.state = "removed" /\ box.exit = 0 /\ box.tree = CommitOf[c]
       /\ box.wrote = c /\ out[job[r].dir] = c
       /\ CaseOf[c] = Case /\ c \in Contracts
  /\ report[r].status \notin {"none", "INCOMPLETE", "execution_timeout"} =>
       container[r].state \notin {"starting", "running"}

\* What a sandbox has read and not kept, it has marked.
Counted(r) ==
  pc[r] = "sandbox" \/ report[r].status = "SANDBOXED" =>
    job[r].buffer <= MaxOutput /\ (~job[r].truncated => job[r].read = job[r].buffer)

\* Only a sandbox has a process, and a docker client ends with its container; what is left of
\* it when it has answered is what the answer allows.
Reaped(r) ==
  /\ pc[r] \notin {"sandbox", "done", "dead"} => process[r] = NoProcess
  /\ pc[r] = "sandbox" /\ ~process[r].up => container[r].state \notin {"starting", "running"}
  /\ report[r].status # "none" => ~process[r].up
  /\ report[r].status \notin {"none", "SANDBOXED", "execution_timeout"} => process[r].child = "none"
  /\ report[r].status = "SANDBOXED" => process[r].child \notin HoldsPipes
  /\ report[r].status = "execution_timeout" => process[r].child \notin InGroup

RunSound(r) == Prepared(r) /\ Watched(r) /\ Collected(r) /\ Answered(r) /\ Counted(r)

Apart == \A r, q \in Runs : r # q /\ Holds(r) /\ Holds(q) => job[r].dir # job[q].dir

LabInv == Types /\ Apart /\ (\A r \in Runs : RunSound(r)) /\ (\A r \in Runs : Reaped(r))

-----------------------------------------------------------------------------
(* How a step changes the state *)

\* What a call does leaves the other calls and their containers alone.
Others(r) == \A q \in Runs \ {r} : /\ pc'[q] = pc[q] /\ job'[q] = job[q]
                                   /\ container'[q] = container[q] /\ report'[q] = report[q]
                                   /\ process'[q] = process[q]

\* A call writes only into its own directory, or into one that was not there.
Within(r) ==
  /\ \A d \in Dirs : out'[d] # out[d] => (Holds(r) /\ d = job[r].dir) \/ out[d] = "absent"
  /\ Holds(r)' => \/ Holds(r) /\ job'[r].dir = job[r].dir
                  \/ out[job'[r].dir] = "absent"

\* A call that moves on: its stage and its job, and nobody else's.
LEMMA GotoFacts ==
  ASSUME Types, NEW r \in Runs, NEW stage \in Stages, NEW new \in Jobs, Goto(r, stage, new)
  PROVE  /\ pc' \in [Runs -> Stages] /\ pc'[r] = stage
         /\ job' \in [Runs -> Jobs] /\ job'[r] = new
         /\ report' = report
         /\ \A q \in Runs \ {r} : pc'[q] = pc[q] /\ job'[q] = job[q]
BY DEF Types, Goto

\* A call that answers.
LEMMA ReturnFacts ==
  ASSUME Types, NEW r \in Runs, NEW ending \in Statuses, Return(r, ending)
  PROVE  /\ pc' \in [Runs -> Stages] /\ pc'[r] = "done"
         /\ job' = job
         /\ report' \in [Runs -> Reports]
         /\ report'[r].status = ending /\ report'[r].contract = job[r].contract
         /\ \A q \in Runs \ {r} : pc'[q] = pc[q] /\ report'[q] = report[q]
<1>1. status_map(ending) \in {"none", "PASS", "FAIL", "NOT_RUN", "INCONCLUSIVE"}
  <2>1. CASE ending = "SUCCEEDED"
    <3>1. status_map(ending) = "PASS"
      BY <2>1, Zenon DEF status_map
    <3> QED  BY <3>1
  <2>2. CASE ending \in {"FAILED", "FAIL"}
    <3>1. status_map(ending) = "FAIL" \/ status_map(ending) = "PASS"
      BY <2>2 DEF status_map
    <3> QED  BY <3>1
  <2> QED
    BY <2>1, <2>2 DEF status_map
<1>2. [status |-> ending, level3 |-> status_map(ending), contract |-> job[r].contract] \in Reports
  BY <1>1 DEF Types, Jobs, Reports
<1>3. report'[r] = [status |-> ending, level3 |-> status_map(ending), contract |-> job[r].contract]
  BY DEF Types, Return
<1>4. report' \in [Runs -> Reports] /\ \A q \in Runs \ {r} : report'[q] = report[q]
  BY <1>2 DEF Types, Return
<1>5. "done" \in Stages
  BY DEF Stages
<1> QED
  BY <1>3, <1>4, <1>5 DEF Types, Return

\* Another call keeps what it relies on.
LEMMA OthersKeep ==
  ASSUME LabInv, Types', NEW r \in Runs, NEW q \in Runs \ {r}, Others(r),
         Holds(q) => out'[job[q].dir] = out[job[q].dir]
  PROVE  RunSound(q)' /\ Reaped(q)' /\ (Holds(q)' <=> Holds(q))
<1> USE DEF LabInv, Others
<1>0. RunSound(q) /\ Reaped(q)
  OBVIOUS
<1>h. Holds(q)' <=> Holds(q)
  BY DEF Holds
<1>1. Prepared(q)'
  BY <1>0 DEF RunSound, Prepared
<1>2. Watched(q)'
  BY <1>0 DEF RunSound, Watched
<1>3. Collected(q)'
  BY <1>0, <1>h DEF RunSound, Collected, Holds, Inside
<1>4. Answered(q)'
  BY <1>0 DEF RunSound, Answered, Holds
<1>5. Counted(q)'
  BY <1>0 DEF RunSound, Counted
<1>6. Reaped(q)'
  BY <1>0 DEF Reaped
<1> QED
  BY <1>h, <1>1, <1>2, <1>3, <1>4, <1>5, <1>6 DEF RunSound

\* So a step of one call keeps the invariant if that call keeps its part.
LEMMA StepKeeps ==
  ASSUME LabInv, Types', NEW r \in Runs, Others(r), Within(r), RunSound(r)', Reaped(r)'
  PROVE  LabInv'
<1>1. ASSUME NEW q \in Runs \ {r}, Holds(q)  PROVE out'[job[q].dir] = out[job[q].dir]
  <2>1. job[q].dir \in Dirs /\ out[job[q].dir] # "absent"
    BY <1>1 DEF LabInv, RunSound, Collected
  <2>2. Holds(r) => job[r].dir # job[q].dir
    BY <1>1 DEF LabInv, Apart
  <2> QED
    BY <2>1, <2>2 DEF Within
<1>2. \A q \in Runs \ {r} : RunSound(q)' /\ Reaped(q)' /\ (Holds(q)' <=> Holds(q))
  BY <1>1, OthersKeep
<1>3. ASSUME NEW q \in Runs \ {r}, Holds(q), Holds(r)'  PROVE job'[r].dir # job'[q].dir
  <2>1. job'[q].dir = job[q].dir
    BY DEF Others
  <2>2. out[job[q].dir] # "absent"
    BY <1>3 DEF LabInv, RunSound, Collected
  <2>3. Holds(r) => job[r].dir # job[q].dir
    BY <1>3 DEF LabInv, Apart
  <2> QED
    BY <1>3, <2>1, <2>2, <2>3 DEF Within
<1>4. ASSUME NEW p \in Runs, NEW q \in Runs, p # q, Holds(p)', Holds(q)'
      PROVE  job'[p].dir # job'[q].dir
  <2>1. CASE p = r
    BY <1>2, <1>3, <1>4, <2>1
  <2>2. CASE q = r
    BY <1>2, <1>3, <1>4, <2>2
  <2>3. CASE p # r /\ q # r
    BY <1>2, <1>4, <2>3 DEF LabInv, Apart, Others
  <2> QED
    BY <2>1, <2>2, <2>3
<1>5. Apart'
  BY <1>4 DEF Apart
<1> QED
  BY <1>2, <1>5 DEF LabInv

\* What one call may have done to the containers, the processes, the directories and the count
\* of faults.
Loose(r) ==
  /\ container' \in [Runs -> Boxes] /\ process' \in [Runs -> Processes]
  /\ out' \in [Dirs -> Outputs] /\ events' \in 0..MaxEvents
  /\ \A q \in Runs \ {r} : container'[q] = container[q] /\ process'[q] = process[q]
  /\ bundle

LEMMA LooseGotoKeeps ==
  ASSUME LabInv, NEW r \in Runs, NEW stage \in Stages, NEW new \in Jobs, Goto(r, stage, new),
         Loose(r), Within(r), RunSound(r)', Reaped(r)'
  PROVE  LabInv'
<1>1. Types
  BY DEF LabInv
<1>2. Types'
  BY <1>1, GotoFacts DEF Types, Loose, bundle
<1>3. Others(r)
  BY <1>1, GotoFacts DEF Others, Loose
<1> QED
  BY <1>2, <1>3, StepKeeps

LEMMA LooseReturnKeeps ==
  ASSUME LabInv, NEW r \in Runs, NEW ending \in Statuses, Return(r, ending),
         Loose(r), Within(r), RunSound(r)', Reaped(r)'
  PROVE  LabInv'
<1>1. Types
  BY DEF LabInv
<1>2. Types'
  BY <1>1, ReturnFacts DEF Types, Loose, bundle
<1>3. Others(r)
  BY <1>1, ReturnFacts DEF Others, Loose
<1> QED
  BY <1>2, <1>3, StepKeeps

\* Outside a sandbox the processes are left alone, and the call has none.
Bounded(r) ==
  /\ container' \in [Runs -> Boxes] /\ out' \in [Dirs -> Outputs] /\ events' \in 0..MaxEvents
  /\ \A q \in Runs \ {r} : container'[q] = container[q]
  /\ outside

LEMMA BoundedFacts ==
  ASSUME Types, NEW r \in Runs, Bounded(r)
  PROVE  Loose(r) /\ process' = process
BY DEF Bounded, Loose, Types, outside

LEMMA GotoKeeps ==
  ASSUME LabInv, NEW r \in Runs, pc[r] \notin {"sandbox", "done", "dead"},
         NEW stage \in Stages, NEW new \in Jobs, stage # "sandbox", Goto(r, stage, new),
         Bounded(r), Within(r), RunSound(r)'
  PROVE  LabInv'
<1>1. Types /\ RunSound(r) /\ Reaped(r)
  BY DEF LabInv
<1>2. pc'[r] = stage /\ report' = report
  BY <1>1, GotoFacts
<1>3. report[r].status = "none" /\ process[r] = NoProcess
  BY <1>1 DEF RunSound, Answered, Reaped
<1>4. Loose(r) /\ process' = process
  BY <1>1, BoundedFacts
<1>5. Reaped(r)'
  BY <1>2, <1>3, <1>4 DEF Reaped
<1> QED
  BY <1>4, <1>5, LooseGotoKeeps

LEMMA ReturnKeeps ==
  ASSUME LabInv, NEW r \in Runs, pc[r] \notin {"sandbox", "done", "dead"},
         NEW ending \in Statuses, Return(r, ending),
         Bounded(r), Within(r), RunSound(r)'
  PROVE  LabInv'
<1>1. Types /\ Reaped(r)
  BY DEF LabInv
<1>2. pc'[r] = "done"
  BY <1>1, ReturnFacts
<1>3. process[r] = NoProcess
  BY <1>1 DEF Reaped
<1>4. Loose(r) /\ process' = process
  BY <1>1, BoundedFacts
<1>5. Reaped(r)'
  BY <1>2, <1>3, <1>4 DEF Reaped, NoProcess, HoldsPipes, InGroup
<1> QED
  BY <1>4, <1>5, LooseReturnKeeps

\* A fault is counted within its bound.
LEMMA EventFacts ==
  ASSUME Types, Event \/ UNCHANGED events
  PROVE  events' \in 0..MaxEvents
BY DEF Types, Event

\* An answer that claims nothing: the call did not run, or its container is gone.
LEMMA PlainReturnKeeps ==
  ASSUME LabInv, NEW r \in Runs, pc[r] \notin {"sandbox", "done", "dead"},
         NEW ending \in Statuses \ {"none", "SUCCEEDED", "SANDBOXED", "execution_timeout"},
         Return(r, ending), Bounded(r), UNCHANGED out,
         ending # "INCOMPLETE" => container'[r].state \notin {"starting", "running"}
  PROVE  LabInv'
<1>1. Types
  BY DEF LabInv
<1>2. /\ pc'[r] = "done" /\ job' = job
      /\ report'[r].status = ending
  BY <1>1, ReturnFacts
<1>3. Within(r) /\ ~Holds(r)'
  BY <1>2 DEF Within, Holds, Inside
<1>4. Prepared(r)' /\ Watched(r)'
  BY <1>2 DEF Prepared, Watched, Inside
<1>5. Collected(r)'
  BY <1>2, <1>3 DEF Collected
<1>6. Answered(r)' /\ Counted(r)'
  BY <1>2 DEF Answered, Counted
<1> QED
  BY <1>3, <1>4, <1>5, <1>6, ReturnKeeps DEF RunSound

-----------------------------------------------------------------------------
(* verify_bundle *)

\* The options of a call, and a bundle that is not intact.
LEMMA LevelOneKeeps ==
  ASSUME LabInv, NEW r \in Runs, LevelOne(r)  PROVE LabInv'
<1>1. Types /\ RunSound(r)
  BY DEF LabInv
<1>2. Bounded(r) /\ UNCHANGED <<container, out>>
  BY <1>1 DEF Bounded, Types, LevelOne
<1>3. pc[r] = "idle" /\ job[r] = NoJob /\ container[r].state = "none"
  BY <1>1 DEF LevelOne, RunSound, Prepared
<1>4. CASE Return(r, "FAIL")
  BY <1>2, <1>3, <1>4, PlainReturnKeeps DEF Statuses
<1>5. CASE Return(r, "NOT_RUN")
  BY <1>2, <1>3, <1>5, PlainReturnKeeps DEF Statuses
<1>6. ASSUME NEW d \in Dirs, Goto(r, "load", [job[r] EXCEPT !.dir = d])  PROVE LabInv'
  <2> DEFINE new == [job[r] EXCEPT !.dir = d]
  <2>0. job[r] \in Jobs /\ "load" \in Stages
    BY <1>1 DEF Types, Stages
  <2>1. new \in Jobs
    BY <2>0 DEF Jobs
  <2>2. pc'[r] = "load" /\ job'[r] = new /\ report' = report
    BY <1>1, <1>6, <2>0, <2>1, GotoFacts
  <2>3. /\ new.dir = d /\ new.sandbox = "none" /\ new.tree = "none" /\ new.error = "none" /\ ~new.stopped
    BY <1>3 DEF NoJob
  <2>4. report'[r].status = "none"
    BY <1>1, <1>3, <2>2 DEF RunSound, Answered
  <2> HIDE DEF new
  <2>5. ~Holds(r)'
    BY <2>2, <2>4 DEF Holds, Inside
  <2>6. Prepared(r)' /\ Watched(r)'
    BY <1>2, <1>3, <2>2, <2>3 DEF Prepared, Watched, Inside
  <2>7. Collected(r)' /\ Answered(r)' /\ Counted(r)'
    BY <2>2, <2>4, <2>5 DEF Collected, Answered, Counted
  <2>8. Within(r)
    BY <1>2, <2>5 DEF Within
  <2> QED
    BY <1>2, <1>3, <1>6, <2>0, <2>1, <2>6, <2>7, <2>8, GotoKeeps DEF RunSound, new
<1> QED
  BY <1>4, <1>5, <1>6 DEF LevelOne

\* A valid contract of the bundle's case, or an answer.
LEMMA LoadContractKeeps ==
  ASSUME LabInv, NEW r \in Runs, LoadContract(r)  PROVE LabInv'
<1>1. Types /\ RunSound(r)
  BY DEF LabInv
<1>2. Bounded(r) /\ UNCHANGED <<container, out>>
  BY <1>1 DEF Bounded, Types, LoadContract
<1>3. /\ pc[r] = "load" /\ container[r].state = "none" /\ report[r].status = "none"
      /\ job[r].sandbox = "none" /\ job[r].dir \in Dirs /\ job[r].tree = "none"
      /\ job[r].error = "none" /\ ~job[r].stopped
  BY <1>1 DEF LoadContract, RunSound, Prepared, Answered
<1>4. CASE Return(r, "FAIL")
  BY <1>2, <1>3, <1>4, PlainReturnKeeps DEF Statuses
<1>5. CASE file \in Contracts /\ CaseOf[file] = Case /\ Goto(r, "git", [job[r] EXCEPT !.contract = file])
  <2> DEFINE new == [job[r] EXCEPT !.contract = file]
  <2>0. job[r] \in Jobs /\ "git" \in Stages
    BY <1>1 DEF Types, Stages
  <2>1. new \in Jobs
    BY <1>5, <2>0 DEF Jobs
  <2>2. pc'[r] = "git" /\ job'[r] = new /\ report' = report
    BY <1>1, <1>5, <2>0, <2>1, GotoFacts
  <2>3. /\ new.contract = file /\ new.dir = job[r].dir /\ new.sandbox = "none" /\ new.tree = "none"
        /\ new.error = "none" /\ ~new.stopped
    BY <1>1, <1>3 DEF Types, Jobs
  <2> HIDE DEF new
  <2>5. ~Holds(r)'
    BY <1>3, <2>2 DEF Holds, Inside
  <2>6. Prepared(r)' /\ Watched(r)'
    BY <1>2, <1>3, <1>5, <2>2, <2>3 DEF Prepared, Watched, Inside
  <2>7. Collected(r)' /\ Answered(r)' /\ Counted(r)'
    BY <1>3, <2>2, <2>5 DEF Collected, Answered, Counted
  <2>8. Within(r)
    BY <1>2, <2>5 DEF Within
  <2> QED
    BY <1>2, <1>3, <1>5, <2>0, <2>1, <2>6, <2>7, <2>8, GotoKeeps DEF RunSound, new
<1> QED
  BY <1>4, <1>5 DEF LoadContract, load_reproduction_contract, OfCase

-----------------------------------------------------------------------------
(* run_reproduction_contract *)

\* A call before its directory is made moves on with the job it has.
LEMMA EarlyGoto ==
  ASSUME LabInv, NEW r \in Runs, NEW stage \in {"docker", "mkdir"}, Goto(r, stage, job[r]),
         pc[r] \in {"git", "docker"}, UNCHANGED <<container, out, events>>, outside
  PROVE  LabInv'
<1>1. Types /\ RunSound(r)
  BY DEF LabInv
<1>2. Bounded(r)
  BY <1>1 DEF Bounded, Types
<1>3. stage \in Stages /\ job[r] \in Jobs
  BY <1>1 DEF Types, Stages
<1>4. pc'[r] = stage /\ job'[r] = job[r] /\ report' = report
  BY <1>1, <1>3, GotoFacts
<1>5. report[r].status = "none"
  BY <1>1 DEF RunSound, Answered
<1>6. ~Holds(r)'
  BY <1>4, <1>5 DEF Holds, Inside
<1>7. Prepared(r)' /\ Watched(r)'
  BY <1>1, <1>4 DEF RunSound, Prepared, Watched, Inside
<1>8. Collected(r)' /\ Answered(r)' /\ Counted(r)'
  BY <1>4, <1>5, <1>6 DEF Collected, Answered, Counted
<1>9. Within(r)
  BY <1>6 DEF Within
<1> QED
  BY <1>2, <1>3, <1>7, <1>8, <1>9, GotoKeeps DEF RunSound

LEMMA VerifyGitTargetKeeps ==
  ASSUME LabInv, NEW r \in Runs, _verify_git_target(r)  PROVE LabInv'
<1>1. Types /\ RunSound(r)
  BY DEF LabInv
<1>2. Bounded(r) /\ UNCHANGED <<container, out>>
  BY <1>1 DEF Bounded, Types, _verify_git_target
<1>3. container[r].state = "none" /\ pc[r] \in {"git", "docker"}
  BY <1>1 DEF RunSound, Prepared, _verify_git_target
<1>4. CASE Return(r, "INCONCLUSIVE")
  BY <1>2, <1>3, <1>4, PlainReturnKeeps DEF Statuses
<1> QED
  BY <1>4, EarlyGoto DEF _verify_git_target

LEMMA FindDockerKeeps ==
  ASSUME LabInv, NEW r \in Runs, FindDocker(r)  PROVE LabInv'
<1>1. Types /\ RunSound(r)
  BY DEF LabInv
<1>2. Bounded(r) /\ UNCHANGED <<container, out>>
  BY <1>1 DEF Bounded, Types, FindDocker
<1>3. container[r].state = "none" /\ pc[r] \in {"git", "docker"}
  BY <1>1 DEF RunSound, Prepared, FindDocker
<1>4. CASE Return(r, "NOT_RUN")
  BY <1>2, <1>3, <1>4, PlainReturnKeeps DEF Statuses
<1> QED
  BY <1>4, EarlyGoto DEF FindDocker

\* The directory was not there: nobody else has it.
LEMMA PrepareOutputDirectoryKeeps ==
  ASSUME LabInv, NEW r \in Runs, _prepare_output_directory(r)  PROVE LabInv'
<1>1. Types /\ RunSound(r)
  BY DEF LabInv
<1>3. /\ pc[r] = "mkdir" /\ container[r].state = "none" /\ report[r].status = "none"
      /\ job[r].sandbox = "none" /\ job[r].dir \in Dirs /\ job[r].tree = "none"
      /\ job[r].contract \in Contracts /\ CaseOf[job[r].contract] = Case
      /\ job[r].error = "none" /\ ~job[r].stopped
  BY <1>1 DEF _prepare_output_directory, RunSound, Prepared, Answered
<1>2. Bounded(r) /\ UNCHANGED container
  BY <1>1, <1>3 DEF Bounded, Types, _prepare_output_directory, Outputs
<1>4. CASE Return(r, "INCONCLUSIVE") /\ UNCHANGED out
  BY <1>2, <1>3, <1>4, PlainReturnKeeps DEF Statuses
<1>5. CASE /\ out[job[r].dir] = "absent" /\ out' = [out EXCEPT ![job[r].dir] = "empty"]
           /\ Goto(r, "copy", job[r])
  <2>1. job[r] \in Jobs /\ "copy" \in Stages
    BY <1>1 DEF Types, Stages, Inside
  <2>2. pc'[r] = "copy" /\ job'[r] = job[r] /\ report' = report
    BY <1>1, <1>5, <2>1, GotoFacts
  <2>3. out'[job[r].dir] = "empty"
    BY <1>1, <1>3, <1>5 DEF Types
  <2>4. Within(r)
    BY <1>1, <1>3, <1>5, <2>2 DEF Within, Types
  <2>6. Prepared(r)' /\ Watched(r)'
    BY <1>2, <1>3, <2>2 DEF Prepared, Watched, Inside
  <2>7. Collected(r)' /\ Answered(r)' /\ Counted(r)'
    BY <1>3, <2>2, <2>3 DEF Collected, Answered, Counted
  <2> QED
    BY <1>2, <1>3, <1>5, <2>1, <2>4, <2>6, <2>7, GotoKeeps DEF RunSound
<1> QED
  BY <1>4, <1>5 DEF _prepare_output_directory, Vacant

\* A file that is copied has the blob of the pinned tree.
LEMMA CopyFileKeeps ==
  ASSUME LabInv, NEW r \in Runs, CopyFile(r)  PROVE LabInv'
<1>1. Types /\ RunSound(r)
  BY DEF LabInv
<1>2. Bounded(r) /\ UNCHANGED <<container, out>>
  BY <1>1 DEF Bounded, Types, CopyFile
<1> DEFINE commit == CommitOf[job[r].contract]
<1>3. /\ pc[r] = "copy" /\ container[r].state = "none" /\ report[r].status = "none"
      /\ job[r].sandbox = "none" /\ job[r].dir \in Dirs /\ job[r].tree \in {"none", commit}
      /\ job[r].contract \in Contracts /\ CaseOf[job[r].contract] = Case
      /\ job[r].error = "none" /\ ~job[r].stopped
      /\ out[job[r].dir] # "absent" /\ Holds(r)
  BY <1>1 DEF CopyFile, RunSound, Prepared, Answered, Collected, Holds, Inside
<1>4. CASE Return(r, "INCOMPLETE")
  BY <1>2, <1>3, <1>4, PlainReturnKeeps DEF Statuses
<1>5. ASSUME NEW p \in Paths, NEW stage \in {"copy", "start"}, work[p] = commit,
             Goto(r, stage, [job[r] EXCEPT !.copied = @ \cup {p},
                    !.tree = IF work[p] = commit /\ @ # "mixed" THEN commit ELSE "mixed"])
      PROVE  LabInv'
  <2> DEFINE new == [job[r] EXCEPT !.copied = @ \cup {p},
                    !.tree = IF work[p] = commit /\ @ # "mixed" THEN commit ELSE "mixed"]
  <2>0. commit \in Commits /\ commit # "mixed"
    BY <1>3 DEF Commits
  <2>1. new \in Jobs /\ stage \in Stages
    <3> DEFINE copied == job[r].copied \cup {p}
               tree == IF work[p] = commit /\ job[r].tree # "mixed" THEN commit ELSE "mixed"
    <3>1. job[r] \in Jobs
      BY <1>1 DEF Types
    <3>2. copied \in SUBSET Paths /\ tree \in Commits \cup {"none", "mixed"}
      BY <2>0, <3>1 DEF Jobs
    <3>3. new = [job[r] EXCEPT !.copied = copied, !.tree = tree]
      OBVIOUS
    <3> HIDE DEF copied, tree
    <3>4. new \in Jobs
      BY <3>1, <3>2, <3>3 DEF Jobs
    <3> QED
      BY <3>4 DEF Stages, Inside
  <2>2. pc'[r] = stage /\ job'[r] = new /\ report' = report
    BY <1>1, <1>5, <2>1, GotoFacts
  <2>3. /\ new.contract = job[r].contract /\ new.dir = job[r].dir /\ new.sandbox = "none"
        /\ new.tree = commit /\ new.error = "none" /\ ~new.stopped
    BY <1>1, <1>3, <1>5, <2>0 DEF Types, Jobs
  <2> HIDE DEF new
  <2>6. Prepared(r)' /\ Watched(r)'
    BY <1>2, <1>3, <2>2, <2>3 DEF Prepared, Watched, Inside
  <2>7. Collected(r)' /\ Answered(r)' /\ Counted(r)'
    BY <1>2, <1>3, <2>2, <2>3 DEF Collected, Answered, Counted
  <2>8. Within(r)
    BY <1>2, <1>3, <2>2, <2>3 DEF Within
  <2> QED
    BY <1>2, <1>3, <1>5, <2>1, <2>6, <2>7, <2>8, GotoKeeps DEF RunSound, new
<1>6. ASSUME NEW p \in Paths \ job[r].copied, BlobMatches(commit, p),
             Goto(r, IF job[r].copied \cup {p} = Paths THEN "start" ELSE "copy",
                 [job[r] EXCEPT !.copied = @ \cup {p},
                    !.tree = IF work[p] = commit /\ @ # "mixed" THEN commit ELSE "mixed"])
      PROVE  LabInv'
  <2> DEFINE stage == IF job[r].copied \cup {p} = Paths THEN "start" ELSE "copy"
  <2>1. stage \in {"copy", "start"} /\ p \in Paths
    OBVIOUS
  <2>2. work[p] = commit
    BY <1>6 DEF BlobMatches
  <2> QED
    BY <1>5, <1>6, <2>1, <2>2
<1> QED
  BY <1>4, <1>6 DEF CopyFile

\* docker rm -f: nothing of the container runs any more, and nothing else of it changes.
LEMMA RemovedFacts ==
  ASSUME Types, NEW r \in Runs, container' = Removed(r)
  PROVE  /\ container' \in [Runs -> Boxes]
         /\ \A q \in Runs \ {r} : container'[q] = container[q]
         /\ container'[r].state \notin {"starting", "running"}
         /\ container[r].state \in {"running", "exited", "removed"} => container'[r].state = "removed"
         /\ container'[r].tree = container[r].tree /\ container'[r].exit = container[r].exit
         /\ container'[r].wrote = container[r].wrote
<1> DEFINE state == IF container[r].state \in {"none", "creating"} THEN container[r].state ELSE "removed"
<1>1. container' = [container EXCEPT ![r].state = state]
  BY DEF Removed
<1>2. container[r] \in Boxes
  BY DEF Types
<1>3. state \in {"none", "creating", "removed"}
  OBVIOUS
<1>4. container[r].state \in {"running", "exited", "removed"} => state = "removed"
  OBVIOUS
<1> HIDE DEF state
<1>5. container'[r] = [container[r] EXCEPT !.state = state]
  BY <1>1 DEF Types
<1>6. container'[r] \in Boxes
  BY <1>2, <1>3, <1>5 DEF Boxes
<1> QED
  BY <1>1, <1>2, <1>3, <1>4, <1>5, <1>6 DEF Types, Boxes

\* docker stop and docker kill: a running container has ended.
LEMMA HaltedFacts ==
  ASSUME Types, NEW r \in Runs, container' = Halted(r)
  PROVE  /\ container' \in [Runs -> Boxes]
         /\ \A q \in Runs \ {r} : container'[q] = container[q]
         /\ container'[r].state = IF container[r].state = "running" THEN "exited" ELSE container[r].state
         /\ container'[r].tree = container[r].tree /\ container'[r].wrote = container[r].wrote
<1>1. container[r] \in Boxes
  BY DEF Types
<1>2. CASE container[r].state = "running"
  <2> DEFINE code == 137
             halted == [container[r] EXCEPT !.state = "exited", !.exit = code]
  <2>1. container' = [container EXCEPT ![r] = halted]
    BY <1>2, Zenon DEF Halted
  <2>2. code \in Int
    OBVIOUS
  <2> HIDE DEF code
  <2>3. halted \in Boxes /\ halted.state = "exited"
        /\ halted.tree = container[r].tree /\ halted.wrote = container[r].wrote
    BY <1>1, <2>2 DEF Boxes
  <2> HIDE DEF halted
  <2> QED
    BY <1>2, <2>1, <2>3 DEF Types
<1>3. CASE container[r].state # "running"
  <2>1. container' = [container EXCEPT ![r] = container[r]]
    BY <1>3, Zenon DEF Halted
  <2> QED
    BY <1>3, <2>1 DEF Types
<1> QED
  BY <1>2, <1>3

\* A container that is asked for holds the tree that was copied.
LEMMA StartedFacts ==
  ASSUME Types, NEW r \in Runs,
         NEW s \in {"none", "creating", "created", "starting", "running"},
         container' = [container EXCEPT ![r].state = s, ![r].tree = job[r].tree]
  PROVE  /\ container' \in [Runs -> Boxes]
         /\ \A q \in Runs \ {r} : container'[q] = container[q]
         /\ container'[r].state = s /\ container'[r].tree = job[r].tree
<1>1. container[r] \in Boxes /\ job[r] \in Jobs
  BY DEF Types
<1>2. container'[r] = [state |-> s, tree |-> job[r].tree, exit |-> container[r].exit,
                       wrote |-> container[r].wrote]
  BY <1>1 DEF Types, Boxes
<1>3. container'[r] \in Boxes
  BY <1>1, <1>2 DEF Boxes, Jobs
<1>4. container' = [container EXCEPT ![r] = container'[r]]
  BY <1>2 DEF Types
<1>5. container'[r].state = s /\ container'[r].tree = job[r].tree
  BY <1>1, <1>2 DEF Boxes
<1> QED
  BY <1>3, <1>4, <1>5 DEF Types

\* What every call inside its directory knows.
Busy(r) == /\ job[r].sandbox = "none" /\ job[r].dir \in Dirs
           /\ job[r].contract \in Contracts /\ CaseOf[job[r].contract] = Case
           /\ report[r].status = "none" /\ Holds(r) /\ out[job[r].dir] # "absent"

LEMMA BusyInside ==
  ASSUME NEW r \in Runs, RunSound(r), pc[r] \in Inside  PROVE Busy(r)
BY DEF RunSound, Prepared, Answered, Collected, Busy, Holds, Inside

\* docker run, and what the client learns of it.
LEMMA StartContainerKeeps ==
  ASSUME LabInv, NEW r \in Runs, StartContainer(r)  PROVE LabInv'
<1>1. Types /\ RunSound(r)
  BY DEF LabInv
<1>2. UNCHANGED out /\ outside /\ events' \in 0..MaxEvents /\ out' \in [Dirs -> Outputs]
  BY <1>1, EventFacts DEF StartContainer, Types
<1>3. /\ pc[r] = "start" /\ Busy(r) /\ job[r].tree = CommitOf[job[r].contract]
      /\ job[r].error = "none" /\ ~job[r].stopped /\ container[r].state = "none"
  BY <1>1, BusyInside DEF StartContainer, RunSound, Prepared, Inside
<1>4. ASSUME NEW ending \in {"NOT_RUN", "INCOMPLETE"}, Return(r, ending), UNCHANGED container
      PROVE  LabInv'
  <2>1. Bounded(r)
    BY <1>1, <1>2, <1>4 DEF Bounded, Types
  <2> QED
    BY <1>2, <1>3, <1>4, <2>1, PlainReturnKeeps DEF Statuses
<1>5. ASSUME NEW stage \in {"wait", "unstart"},
             NEW s \in {"none", "creating", "created", "starting", "running"},
             Goto(r, stage, job[r]), stage = "wait" => s = "running",
             container' = [container EXCEPT ![r].state = s, ![r].tree = job[r].tree]
      PROVE  LabInv'
  <2>1. job[r] \in Jobs /\ stage \in Stages
    BY <1>1 DEF Types, Stages, Inside
  <2>2. pc'[r] = stage /\ job'[r] = job[r] /\ report' = report
    BY <1>1, <1>5, <2>1, GotoFacts
  <2>3. Bounded(r) /\ container'[r].state = s /\ container'[r].tree = job[r].tree
    BY <1>1, <1>2, <1>5, StartedFacts DEF Bounded
  <2>4. Within(r)
    BY <1>2, <1>3, <2>2 DEF Within, Busy
  <2>5. Prepared(r)' /\ Watched(r)'
    BY <1>3, <1>5, <2>2, <2>3 DEF Busy, Prepared, Watched, Inside
  <2>6. Collected(r)' /\ Answered(r)' /\ Counted(r)'
    BY <1>2, <1>3, <2>2 DEF Busy, Collected, Answered, Counted
  <2> QED
    BY <1>3, <1>5, <2>1, <2>3, <2>4, <2>5, <2>6, GotoKeeps DEF RunSound
<1> QED
  BY <1>4, <1>5 DEF StartContainer

\* Only an answer about a container that is gone is a plain one.
LEMMA RemoveUnstartedKeeps ==
  ASSUME LabInv, NEW r \in Runs, RemoveUnstarted(r)  PROVE LabInv'
<1>1. Types /\ RunSound(r) /\ pc[r] = "unstart"
  BY DEF LabInv, RemoveUnstarted
<1>2. UNCHANGED out /\ outside /\ events' \in 0..MaxEvents /\ out' \in [Dirs -> Outputs]
  BY <1>1, EventFacts DEF RemoveUnstarted, Types
<1>3. Unstarted("REMOVED") = "NOT_RUN" /\ Unstarted("FAILED") = "INCOMPLETE"
  BY DEF Unstarted
<1>4. /\ container' \in [Runs -> Boxes]
      /\ \A q \in Runs \ {r} : container'[q] = container[q]
  BY <1>1, RemovedFacts DEF RemoveUnstarted, Types
<1>5. CASE Return(r, "NOT_RUN") /\ container' = Removed(r)
  <2>1. container'[r].state \notin {"starting", "running"}
    BY <1>1, <1>5, RemovedFacts
  <2> QED
    BY <1>1, <1>2, <1>4, <1>5, <2>1, PlainReturnKeeps DEF Statuses, Bounded
<1>6. CASE Return(r, "INCOMPLETE")
  BY <1>1, <1>2, <1>4, <1>6, PlainReturnKeeps DEF Statuses, Bounded
<1> QED
  BY <1>3, <1>5, <1>6 DEF RemoveUnstarted

\* A call inside its directory that moves on: what it works for and where stays, and what it
\* knows of its container and of its output is what is left to show.
LEMMA InsideGoto ==
  ASSUME LabInv, NEW r \in Runs, pc[r] \in Inside, NEW new \in Jobs,
         NEW stage \in {"collect", "stop", "verify", "cleanup", "judge"}, Goto(r, stage, new),
         Bounded(r), \A d \in Dirs : out'[d] # out[d] => d = job[r].dir,
         new.contract = job[r].contract, new.dir = job[r].dir, new.sandbox = "none",
         out'[job[r].dir] # "absent",
         container'[r].tree = CommitOf[job[r].contract],
         container'[r].state \in {"running", "exited", "removed"},
         stage # "judge" => container'[r].state \in {"running", "exited"},
         stage = "stop" => new.error = "none" /\ new.stopped,
         stage = "verify" =>
           new.error = "none" /\ out'[job[r].dir] \in {container'[r].wrote, "empty"},
         new.error = "none" /\ stage # "stop" => container'[r].state \in {"exited", "removed"},
         stage # "stop" /\ new.error = "none" /\ ~new.stopped => new.exit = container'[r].exit,
         stage = "judge" /\ new.cleanup = "REMOVED" => container'[r].state = "removed",
         stage \in {"cleanup", "judge"} /\ new.output = "PASS" =>
           /\ new.error = "none" /\ out'[job[r].dir] = new.contract
           /\ container'[r].wrote = new.contract
  PROVE  LabInv'
<1>1. Types /\ RunSound(r) /\ Busy(r) /\ stage \in Stages
  BY BusyInside DEF LabInv, Stages, Inside
<1>2. pc'[r] = stage /\ job'[r] = new /\ report' = report
  BY <1>1, GotoFacts
<1>3. Within(r)
  BY <1>1, <1>2 DEF Within, Busy
<1>4. Prepared(r)'
  BY <1>1, <1>2 DEF Busy, Prepared, Inside
<1>5. Watched(r)'
  BY <1>2 DEF Watched
<1>6. Collected(r)'
  BY <1>1, <1>2 DEF Busy, Collected
<1>7. Answered(r)' /\ Counted(r)'
  BY <1>1, <1>2 DEF Busy, Answered, Counted
<1> QED
  BY <1>1, <1>3, <1>4, <1>5, <1>6, <1>7, GotoKeeps DEF RunSound, Inside

\* docker wait: the exit code of a container that has ended, or an error.
LEMMA WaitKeeps ==
  ASSUME LabInv, NEW r \in Runs, Wait(r)  PROVE LabInv'
<1>1. Types /\ RunSound(r) /\ pc[r] = "wait" /\ pc[r] \in Inside
  BY DEF LabInv, Wait, Inside
<1>2. Bounded(r) /\ UNCHANGED <<container, out>>
  BY <1>1, EventFacts DEF Wait, Types, Bounded
<1>3. /\ Busy(r) /\ job[r].error = "none" /\ ~job[r].stopped
      /\ container[r].tree = CommitOf[job[r].contract] /\ container[r].state \in {"running", "exited"}
      /\ job[r] \in Jobs /\ container[r].exit \in Int
  BY <1>1, BusyInside DEF RunSound, Prepared, Watched, Types, Boxes
<1>4. CASE container[r].state = "exited" /\ Goto(r, "collect", [job[r] EXCEPT !.exit = container[r].exit])
  <2> DEFINE new == [job[r] EXCEPT !.exit = container[r].exit]
  <2>1. /\ new \in Jobs /\ new.contract = job[r].contract /\ new.dir = job[r].dir /\ new.sandbox = "none"
        /\ new.exit = container[r].exit
    BY <1>3 DEF Jobs, Busy
  <2> HIDE DEF new
  <2> QED
    BY <1>1, <1>2, <1>3, <1>4, <2>1, InsideGoto DEF Busy, new
<1>5. CASE Goto(r, "stop", [job[r] EXCEPT !.stopped = TRUE])
  <2> DEFINE new == [job[r] EXCEPT !.stopped = TRUE]
  <2>1. /\ new \in Jobs /\ new.contract = job[r].contract /\ new.dir = job[r].dir /\ new.sandbox = "none"
        /\ new.error = "none" /\ new.stopped
    BY <1>3 DEF Jobs, Busy
  <2> HIDE DEF new
  <2> QED
    BY <1>1, <1>2, <1>3, <1>5, <2>1, InsideGoto DEF Busy, new
<1>6. CASE Goto(r, "collect", [job[r] EXCEPT !.error = "wait"])
  <2> DEFINE new == [job[r] EXCEPT !.error = "wait"]
  <2>1. /\ new \in Jobs /\ new.contract = job[r].contract /\ new.dir = job[r].dir /\ new.sandbox = "none"
        /\ new.error = "wait"
    BY <1>3 DEF Jobs, Busy
  <2> HIDE DEF new
  <2> QED
    BY <1>1, <1>2, <1>3, <1>6, <2>1, InsideGoto DEF Busy, new
<1> QED
  BY <1>4, <1>5, <1>6 DEF Wait

\* A stop that is not confirmed is an error.
LEMMA StopContainerKeeps ==
  ASSUME LabInv, NEW r \in Runs, _stop_container(r)  PROVE LabInv'
<1>1. Types /\ RunSound(r) /\ pc[r] = "stop" /\ pc[r] \in Inside
  BY DEF LabInv, _stop_container, Inside
<1>2. /\ Bounded(r) /\ UNCHANGED out /\ container' \in {container, Halted(r)}
  BY <1>1, EventFacts, HaltedFacts DEF _stop_container, Types, Bounded
<1>3. /\ Busy(r) /\ job[r].error = "none" /\ job[r].stopped /\ job[r] \in Jobs
      /\ container[r].tree = CommitOf[job[r].contract] /\ container[r].state \in {"running", "exited"}
  BY <1>1, BusyInside DEF RunSound, Watched, Types
<1>4. /\ container'[r].tree = container[r].tree /\ container'[r].state \in {"running", "exited"}
      /\ container' = Halted(r) => container'[r].state = "exited"
  BY <1>1, <1>2, <1>3, HaltedFacts
<1>5. ASSUME NEW error \in {"none", "timeout_stop_unconfirmed"},
             Goto(r, "collect", [job[r] EXCEPT !.error = error]),
             error = "none" => container' = Halted(r)
      PROVE  LabInv'
  <2> DEFINE new == [job[r] EXCEPT !.error = error]
  <2>1. /\ new \in Jobs /\ new.contract = job[r].contract /\ new.dir = job[r].dir /\ new.sandbox = "none"
        /\ new.error = error /\ new.stopped
    BY <1>3 DEF Jobs, Busy
  <2> HIDE DEF new
  <2> QED
    BY <1>1, <1>2, <1>3, <1>4, <1>5, <2>1, InsideGoto DEF Busy, new
<1>6. StopError("STOPPED") = "none" /\ StopError("FAILED") = "timeout_stop_unconfirmed"
  BY DEF StopError
<1> QED
  BY <1>5, <1>6 DEF _stop_container

\* docker cp, from a container that has ended.
LEMMA CollectOutputKeeps ==
  ASSUME LabInv, NEW r \in Runs, CollectOutput(r)
  PROVE  LabInv' /\ (out' # out => container[r].state = "exited"
                                   /\ container[r].tree = CommitOf[job[r].contract])
<1>1. Types /\ RunSound(r) /\ pc[r] = "collect" /\ pc[r] \in Inside
  BY DEF LabInv, CollectOutput, Inside
<1>2. UNCHANGED container /\ outside /\ events' \in 0..MaxEvents
  BY <1>1, EventFacts DEF CollectOutput
<1>3. /\ Busy(r) /\ job[r] \in Jobs
      /\ container[r].tree = CommitOf[job[r].contract] /\ container[r].state \in {"running", "exited"}
      /\ job[r].error = "none" => container[r].state = "exited"
      /\ job[r].error = "none" /\ ~job[r].stopped => job[r].exit = container[r].exit
      /\ container[r].wrote \in Contracts \cup {"none", "empty"}
  BY <1>1, BusyInside DEF RunSound, Watched, Types, Boxes
<1>4. ASSUME NEW what \in Outputs, out' = [out EXCEPT ![job[r].dir] = what]
      PROVE  Bounded(r) /\ out'[job[r].dir] = what /\ \A d \in Dirs : out'[d] # out[d] => d = job[r].dir
  BY <1>1, <1>2, <1>3, <1>4 DEF Bounded, Types, Busy
<1>5. CASE job[r].error # "none" /\ Goto(r, "cleanup", [job[r] EXCEPT !.output = "NOT_RUN"]) /\ UNCHANGED out
  <2> DEFINE new == [job[r] EXCEPT !.output = "NOT_RUN"]
  <2>1. /\ new \in Jobs /\ new.contract = job[r].contract /\ new.dir = job[r].dir /\ new.sandbox = "none"
        /\ new.error = job[r].error /\ new.output = "NOT_RUN"
    BY <1>3 DEF Jobs, Busy
  <2>2. Bounded(r)
    BY <1>1, <1>2, <1>5 DEF Bounded, Types
  <2> HIDE DEF new
  <2> QED
    BY <1>1, <1>2, <1>3, <1>5, <2>1, <2>2, InsideGoto DEF Busy, new
<1>6. ASSUME job[r].error = "none", NEW got \in {container[r].wrote, "empty"},
             out' = [out EXCEPT ![job[r].dir] = got], Goto(r, "verify", job[r])
      PROVE  LabInv'
  <2>1. got \in Outputs /\ got # "absent"
    BY <1>3 DEF Outputs
  <2> QED
    BY <1>1, <1>2, <1>3, <1>4, <1>6, <2>1, InsideGoto DEF Busy
<1>7. CASE /\ job[r].error = "none" /\ out' = [out EXCEPT ![job[r].dir] = "part"]
           /\ Goto(r, "cleanup", [job[r] EXCEPT !.output = "FAIL"])
  <2> DEFINE new == [job[r] EXCEPT !.output = "FAIL"]
  <2>1. /\ new \in Jobs /\ new.contract = job[r].contract /\ new.dir = job[r].dir /\ new.sandbox = "none"
        /\ new.error = job[r].error /\ new.output = "FAIL" /\ new.stopped = job[r].stopped
        /\ new.exit = job[r].exit
    BY <1>3 DEF Jobs, Busy
  <2>2. "part" \in Outputs
    BY DEF Outputs
  <2> HIDE DEF new
  <2> QED
    BY <1>1, <1>2, <1>3, <1>4, <1>7, <2>1, <2>2, InsideGoto DEF Busy, new
<1>8. out' # out => job[r].error = "none"
  BY DEF CollectOutput
<1> QED
  BY <1>3, <1>5, <1>6, <1>7, <1>8 DEF CollectOutput

\* What passes is what the contract expects; the container wrote it, since it is not "empty".
LEMMA VerifyOutputsKeeps ==
  ASSUME LabInv, NEW r \in Runs, _verify_outputs(r)  PROVE LabInv'
<1>1. Types /\ RunSound(r) /\ pc[r] = "verify" /\ pc[r] \in Inside
  BY DEF LabInv, _verify_outputs, Inside
<1>2. Bounded(r) /\ UNCHANGED <<container, out>>
  BY <1>1 DEF _verify_outputs, Types, Bounded
<1>3. /\ Busy(r) /\ job[r] \in Jobs
      /\ container[r].tree = CommitOf[job[r].contract] /\ job[r].error = "none"
      /\ container[r].state = "exited" /\ out[job[r].dir] \in {container[r].wrote, "empty"}
      /\ ~job[r].stopped => job[r].exit = container[r].exit
  BY <1>1, BusyInside DEF RunSound, Watched, Collected, Types
<1>4. ASSUME NEW output \in {"PASS", "FAIL"}, Goto(r, "cleanup", [job[r] EXCEPT !.output = output]),
             output = "PASS" => out[job[r].dir] = job[r].contract
      PROVE  LabInv'
  <2> DEFINE new == [job[r] EXCEPT !.output = output]
  <2>1. /\ new \in Jobs /\ new.contract = job[r].contract /\ new.dir = job[r].dir /\ new.sandbox = "none"
        /\ new.error = "none" /\ new.output = output /\ new.stopped = job[r].stopped
        /\ new.exit = job[r].exit
    BY <1>3 DEF Jobs, Busy
  <2>2. output = "PASS" => container[r].wrote = job[r].contract
    BY <1>3, <1>4 DEF Busy
  <2> HIDE DEF new
  <2> QED
    BY <1>1, <1>2, <1>3, <1>4, <2>1, <2>2, InsideGoto DEF Busy, new
<1> DEFINE output == IF out[job[r].dir] = job[r].contract THEN "PASS" ELSE "FAIL"
<1>5. output \in {"PASS", "FAIL"} /\ (output = "PASS" => out[job[r].dir] = job[r].contract)
  OBVIOUS
<1>6. Goto(r, "cleanup", [job[r] EXCEPT !.output = output])
  BY DEF _verify_outputs
<1> HIDE DEF output
<1> QED
  BY <1>4, <1>5, <1>6

\* The finally branch: a removal that is confirmed is one.
LEMMA RemoveContainerKeeps ==
  ASSUME LabInv, NEW r \in Runs, _remove_container(r)  PROVE LabInv'
<1>1. Types /\ RunSound(r) /\ pc[r] = "cleanup" /\ pc[r] \in Inside
  BY DEF LabInv, _remove_container, Inside
<1>2. /\ Bounded(r) /\ UNCHANGED out /\ container' \in {container, Removed(r)}
  BY <1>1, EventFacts, RemovedFacts DEF _remove_container, Types, Bounded
<1>3. /\ Busy(r) /\ job[r] \in Jobs
      /\ container[r].tree = CommitOf[job[r].contract] /\ container[r].state \in {"running", "exited"}
      /\ job[r].error = "none" => container[r].state = "exited"
      /\ job[r].error = "none" /\ ~job[r].stopped => job[r].exit = container[r].exit
      /\ job[r].output = "PASS" =>
           /\ job[r].error = "none"
           /\ out[job[r].dir] = job[r].contract /\ container[r].wrote = job[r].contract
  BY <1>1, BusyInside DEF RunSound, Watched, Collected, Types
<1>4. /\ container'[r].tree = container[r].tree /\ container'[r].exit = container[r].exit
      /\ container'[r].wrote = container[r].wrote
      /\ container'[r].state \in {container[r].state, "removed"}
      /\ container' = Removed(r) => container'[r].state = "removed"
  BY <1>1, <1>2, <1>3, RemovedFacts
<1>5. ASSUME NEW cleanup \in {"REMOVED", "FAILED"}, Goto(r, "judge", [job[r] EXCEPT !.cleanup = cleanup]),
             cleanup = "REMOVED" => container' = Removed(r)
      PROVE  LabInv'
  <2> DEFINE new == [job[r] EXCEPT !.cleanup = cleanup]
  <2>1. /\ new \in Jobs /\ new.contract = job[r].contract /\ new.dir = job[r].dir /\ new.sandbox = "none"
        /\ new.error = job[r].error /\ new.output = job[r].output /\ new.stopped = job[r].stopped
        /\ new.exit = job[r].exit /\ new.cleanup = cleanup
    BY <1>3 DEF Jobs, Busy
  <2>2. Goto(r, "judge", new)
    BY <1>5
  <2> HIDE DEF new
  <2>3. /\ \A d \in Dirs : out'[d] # out[d] => d = job[r].dir
        /\ out'[job[r].dir] # "absent"
        /\ container'[r].tree = CommitOf[job[r].contract]
        /\ container'[r].state \in {"running", "exited", "removed"}
    BY <1>2, <1>3, <1>4 DEF Busy
  <2>4. /\ new.error = "none" => container'[r].state \in {"exited", "removed"}
        /\ new.error = "none" /\ ~new.stopped => new.exit = container'[r].exit
        /\ new.cleanup = "REMOVED" => container'[r].state = "removed"
    BY <1>3, <1>4, <1>5, <2>1
  <2>5. new.output = "PASS" => /\ new.error = "none" /\ out'[job[r].dir] = new.contract
                               /\ container'[r].wrote = new.contract
    BY <1>2, <1>3, <1>4, <2>1
  <2> QED
    BY <1>1, <1>2, <2>1, <2>2, <2>3, <2>4, <2>5, InsideGoto
<1> QED
  BY <1>5 DEF _remove_container

\* The status of a run says what its cleanup, its errors and its output say.
LEMMA StatusFacts ==
  ASSUME NEW j \in Jobs
  PROVE  /\ Status(j) \in {"INCOMPLETE", "TIMED_OUT", "SUCCEEDED", "FAILED"}
         /\ Status(j) # "INCOMPLETE" => j.cleanup = "REMOVED" /\ j.error = "none"
         /\ Status(j) = "SUCCEEDED" => ~j.stopped /\ j.output = "PASS" /\ j.exit = 0
<1>1. CASE j.cleanup # "REMOVED" \/ j.error # "none"
  <2>1. Status(j) = "INCOMPLETE"
    BY <1>1, Zenon DEF Status
  <2> QED
    BY <2>1
<1>2. CASE j.cleanup = "REMOVED" /\ j.error = "none" /\ j.stopped
  <2>1. Status(j) = "TIMED_OUT"
    BY <1>2 DEF Status
  <2> QED
    BY <1>2, <2>1
<1>3. CASE j.cleanup = "REMOVED" /\ j.error = "none" /\ ~j.stopped
  <2>1. Status(j) = IF j.output = "PASS" /\ j.exit = 0 THEN "SUCCEEDED" ELSE "FAILED"
    BY <1>3, Zenon DEF Status
  <2> QED
    BY <1>3, <2>1
<1> QED
  BY <1>1, <1>2, <1>3 DEF Jobs

\* A run that is judged to have succeeded is a reproduction.
LEMMA JudgeKeeps ==
  ASSUME LabInv, NEW r \in Runs, Judge(r)  PROVE LabInv'
<1>1. Types /\ RunSound(r) /\ pc[r] = "judge" /\ pc[r] \in Inside
  BY DEF LabInv, Judge, Inside
<1>2. Bounded(r) /\ UNCHANGED <<container, out>>
  BY <1>1 DEF Judge, Types, Bounded
<1>3. /\ Busy(r) /\ job[r] \in Jobs
      /\ container[r].tree = CommitOf[job[r].contract]
      /\ job[r].error = "none" /\ ~job[r].stopped => job[r].exit = container[r].exit
      /\ job[r].cleanup = "REMOVED" => container[r].state = "removed"
      /\ job[r].output = "PASS" =>
           /\ job[r].error = "none"
           /\ out[job[r].dir] = job[r].contract /\ container[r].wrote = job[r].contract
  BY <1>1, BusyInside DEF RunSound, Watched, Collected, Types
<1> DEFINE ending == Status(job[r])
<1>4. /\ ending \in {"INCOMPLETE", "TIMED_OUT", "SUCCEEDED", "FAILED"}
      /\ ending # "INCOMPLETE" => job[r].cleanup = "REMOVED" /\ job[r].error = "none"
      /\ ending = "SUCCEEDED" => ~job[r].stopped /\ job[r].output = "PASS" /\ job[r].exit = 0
  BY <1>3, StatusFacts
<1>5. Return(r, ending)
  BY DEF Judge
<1> HIDE DEF ending
<1>6. CASE ending # "SUCCEEDED"
  BY <1>1, <1>2, <1>3, <1>4, <1>5, <1>6, PlainReturnKeeps DEF Statuses
<1>7. CASE ending = "SUCCEEDED"
  <2>0. "SUCCEEDED" \in Statuses
    BY DEF Statuses
  <2>1. /\ pc'[r] = "done" /\ job' = job
        /\ report'[r].status = "SUCCEEDED" /\ report'[r].contract = job[r].contract
    BY <1>1, <1>5, <1>7, <2>0, ReturnFacts
  <2>2. Within(r)
    BY <1>2, <1>3, <2>1 DEF Within, Busy
  <2>3. Prepared(r)' /\ Watched(r)'
    BY <2>1 DEF Prepared, Watched, Inside
  <2>4. Collected(r)'
    BY <1>2, <1>3, <2>1 DEF Collected, Busy
  <2>5. Answered(r)'
    BY <1>2, <1>3, <1>4, <1>7, <2>1 DEF Answered, Busy
  <2>6. Counted(r)'
    BY <2>1 DEF Counted
  <2> QED
    BY <1>1, <1>2, <1>5, <1>7, <2>0, <2>2, <2>3, <2>4, <2>5, <2>6, ReturnKeeps DEF RunSound
<1> QED
  BY <1>6, <1>7

-----------------------------------------------------------------------------
(* run_in_sandbox, the engine and the surroundings *)

\* A sandbox begins with nothing read.
LEMMA BeginSandboxKeeps ==
  ASSUME LabInv, NEW r \in Runs, BeginSandbox(r)  PROVE LabInv'
<1>1. Types /\ RunSound(r) /\ Reaped(r) /\ pc[r] = "idle"
  BY DEF LabInv, BeginSandbox
<1>2. /\ job[r] = NoJob /\ job[r] \in Jobs /\ container[r] \in Boxes /\ container[r].state = "none"
      /\ report[r].status = "none" /\ process[r] = NoProcess
  BY <1>1 DEF RunSound, Prepared, Answered, Reaped, Types
<1>3. UNCHANGED <<out, events>> /\ bundle
  BY DEF BeginSandbox
<1>4. CASE Return(r, "not_started") /\ UNCHANGED <<process, container>>
  <2>1. Bounded(r)
    BY <1>1, <1>3, <1>4 DEF Bounded, Types, outside
  <2> QED
    BY <1>1, <1>2, <1>3, <1>4, <2>1, PlainReturnKeeps DEF Statuses
<1>5. ASSUME NEW kind \in {"process", "container"}, NEW s \in {"none", "starting", "running"},
             Goto(r, "sandbox", [job[r] EXCEPT !.sandbox = kind]),
             process' = [process EXCEPT ![r].up = TRUE],
             container' = [container EXCEPT ![r].state = s]
      PROVE  LabInv'
  <2> DEFINE new == [job[r] EXCEPT !.sandbox = kind]
  <2>1. [container[r] EXCEPT !.state = s] \in Boxes
    BY <1>2 DEF Boxes
  <2>2. NoProcess \in Processes /\ [NoProcess EXCEPT !.up = TRUE] \in Processes
        /\ [NoProcess EXCEPT !.up = TRUE].up
    BY DEF NoProcess, Processes
  <2>3. process' = [process EXCEPT ![r] = [NoProcess EXCEPT !.up = TRUE]]
    BY <1>2, <1>5
  <2>4. process' \in [Runs -> Processes] /\ process'[r].up
        /\ \A q \in Runs \ {r} : process'[q] = process[q]
    BY <1>1, <2>2, <2>3 DEF Types
  <2>5. container' \in [Runs -> Boxes] /\ \A q \in Runs \ {r} : container'[q] = container[q]
    BY <1>1, <1>5, <2>1 DEF Types
  <2>6. Loose(r)
    BY <1>1, <1>3, <2>4, <2>5 DEF Loose, Types
  <2>7. new \in Jobs /\ "sandbox" \in Stages
    BY <1>2 DEF Jobs, Stages
  <2>8. new.read = 0 /\ new.buffer = 0
    BY <1>2 DEF NoJob
  <2> HIDE DEF new
  <2>9. pc'[r] = "sandbox" /\ job'[r] = new /\ report' = report
    BY <1>1, <1>5, <2>7, GotoFacts DEF new
  <2>10. Within(r) /\ ~Holds(r)'
    BY <1>2, <1>3, <2>9 DEF Within, Holds, Inside
  <2>11. RunSound(r)'
    BY <1>2, <2>8, <2>9, <2>10
       DEF RunSound, Prepared, Watched, Collected, Answered, Counted, Inside
  <2>12. Reaped(r)'
    BY <1>2, <2>4, <2>9 DEF Reaped
  <2> QED
    BY <1>5, <2>6, <2>7, <2>10, <2>11, <2>12, LooseGotoKeeps DEF new
<1>6. container' = container => container' = [container EXCEPT ![r].state = "none"]
  BY <1>1, <1>2 DEF Types, Boxes
<1> QED
  BY <1>4, <1>5, <1>6 DEF BeginSandbox

\* A chunk that does not fit in what is kept is marked.
LEMMA ReadChunkKeeps ==
  ASSUME LabInv, NEW r \in Runs, ReadChunk(r)  PROVE LabInv'
<1>1. Types /\ RunSound(r) /\ Reaped(r) /\ pc[r] = "sandbox" /\ job[r] \in Jobs
  BY DEF LabInv, ReadChunk, Types
<1>2. /\ report[r].status = "none" /\ job[r].buffer \in 0..MaxOutput /\ job[r].read \in Nat
      /\ ~job[r].truncated => job[r].read = job[r].buffer
  BY <1>1 DEF RunSound, Answered, Counted, Jobs
<1>3. Loose(r) /\ UNCHANGED <<container, process, out>>
  BY <1>1, EventFacts DEF Loose, Types, ReadChunk, outside
<1>4. PICK size \in 1..(MaxOutput + 1) :
        LET room == MaxOutput - job[r].buffer
            kept == IF size <= room THEN size ELSE room
        IN Goto(r, "sandbox", [job[r] EXCEPT !.read = @ + size, !.buffer = @ + kept,
                                             !.truncated = @ \/ Overflows(size, room)])
  BY DEF ReadChunk
<1> DEFINE room == MaxOutput - job[r].buffer
           kept == IF size <= room THEN size ELSE room
           read == job[r].read + size
           buffer == job[r].buffer + kept
           truncated == job[r].truncated \/ Overflows(size, room)
           new == [job[r] EXCEPT !.read = read, !.buffer = buffer, !.truncated = truncated]
<1>5. Goto(r, "sandbox", new)
  BY <1>4
<1>6. read \in Nat /\ buffer \in Nat /\ buffer <= MaxOutput
  BY <1>2
<1>7. truncated \in BOOLEAN
  BY <1>1 DEF Jobs, Overflows
<1>8. ~truncated => read = buffer
  BY <1>1, <1>2 DEF Jobs, Overflows
<1> HIDE DEF read, buffer, truncated
<1>9. /\ new \in Jobs /\ new.read = read /\ new.buffer = buffer /\ new.truncated = truncated
  BY <1>1, <1>6, <1>7 DEF Jobs
<1> HIDE DEF new
<1>10. "sandbox" \in Stages
  BY DEF Stages
<1>11. pc'[r] = "sandbox" /\ job'[r] = new /\ report' = report
  BY <1>1, <1>5, <1>9, <1>10, GotoFacts
<1>12. Within(r) /\ ~Holds(r)'
  BY <1>2, <1>3, <1>11 DEF Within, Holds, Inside
<1>13. Prepared(r)' /\ Watched(r)' /\ Collected(r)' /\ Answered(r)'
  BY <1>2, <1>11, <1>12 DEF Prepared, Watched, Collected, Answered, Inside
<1>14. Counted(r)'
  BY <1>6, <1>8, <1>9, <1>11 DEF Counted
<1>15. Reaped(r)'
  BY <1>1, <1>2, <1>3, <1>11 DEF Reaped
<1> QED
  BY <1>3, <1>5, <1>9, <1>10, <1>12, <1>13, <1>14, <1>15, LooseGotoKeeps DEF RunSound

\* Every pipe at its end, and the command has ended; the container of a client that has ended, too.
LEMMA EndSandboxKeeps ==
  ASSUME LabInv, NEW r \in Runs, EndSandbox(r)  PROVE LabInv'
<1>1. Types /\ RunSound(r) /\ Reaped(r) /\ pc[r] = "sandbox" /\ Return(r, "SANDBOXED")
      /\ ~process[r].up /\ process[r].child \notin HoldsPipes
  BY DEF LabInv, EndSandbox
<1>2. Loose(r) /\ UNCHANGED <<container, process, out>>
  BY <1>1 DEF Loose, Types, EndSandbox, outside
<1>3. "SANDBOXED" \in Statuses
  BY DEF Statuses
<1>4. pc'[r] = "done" /\ job' = job /\ report'[r].status = "SANDBOXED"
  BY <1>1, <1>3, ReturnFacts
<1>5. Within(r) /\ ~Holds(r)'
  BY <1>2, <1>4 DEF Within, Holds, Inside
<1>6. container[r].state \notin {"starting", "running"}
  BY <1>1 DEF Reaped
<1>7. Prepared(r)' /\ Watched(r)' /\ Collected(r)' /\ Answered(r)'
  BY <1>2, <1>4, <1>5, <1>6 DEF Prepared, Watched, Collected, Answered, Inside
<1>8. Counted(r)'
  BY <1>1, <1>4 DEF RunSound, Counted
<1>9. Reaped(r)'
  BY <1>1, <1>2, <1>4 DEF Reaped
<1> QED
  BY <1>1, <1>2, <1>3, <1>5, <1>7, <1>8, <1>9, LooseReturnKeeps DEF RunSound

\* The process group is gone, whatever a container does.
LEMMA SandboxTimeoutKeeps ==
  ASSUME LabInv, NEW r \in Runs, SandboxTimeout(r)  PROVE LabInv'
<1>1. Types /\ RunSound(r) /\ Reaped(r) /\ pc[r] = "sandbox" /\ Return(r, "execution_timeout")
      /\ process[r] \in Processes
  BY DEF LabInv, SandboxTimeout, Types
<1>2. UNCHANGED <<container, out>> /\ bundle /\ events' \in 0..MaxEvents
  BY <1>1, EventFacts DEF SandboxTimeout
<1> DEFINE killed == KillGroup(process[r])
<1>3. killed \in Processes /\ ~killed.up /\ killed.child \notin InGroup
  BY <1>1 DEF KillGroup, Processes, InGroup
<1>4. process' = [process EXCEPT ![r] = killed]
  BY DEF SandboxTimeout
<1> HIDE DEF killed
<1>5. process'[r] = killed /\ Loose(r)
  BY <1>1, <1>2, <1>3, <1>4 DEF Types, Loose
<1>6. "execution_timeout" \in Statuses
  BY DEF Statuses
<1>7. pc'[r] = "done" /\ job' = job /\ report'[r].status = "execution_timeout"
  BY <1>1, <1>6, ReturnFacts
<1>8. Within(r) /\ ~Holds(r)'
  BY <1>2, <1>7 DEF Within, Holds, Inside
<1>9. Prepared(r)' /\ Watched(r)' /\ Collected(r)' /\ Answered(r)' /\ Counted(r)'
  BY <1>7, <1>8 DEF Prepared, Watched, Collected, Answered, Counted, Inside
<1>10. Reaped(r)'
  BY <1>3, <1>5, <1>7 DEF Reaped
<1> QED
  BY <1>1, <1>5, <1>6, <1>8, <1>9, <1>10, LooseReturnKeeps DEF RunSound

\* A step of the command or of its child: the process of one call, and nothing else.
LEMMA ProcessKeeps ==
  ASSUME LabInv, NEW r \in Runs, NEW p \in Processes, process' = [process EXCEPT ![r] = p],
         UNCHANGED <<pc, job, container, out, report>>, bundle, Event \/ UNCHANGED events,
         Reaped(r)'
  PROVE  LabInv'
<1>1. Types /\ RunSound(r)
  BY DEF LabInv
<1>2. Types'
  BY <1>1, EventFacts DEF Types, bundle
<1>3. Others(r) /\ Within(r)
  BY <1>1 DEF Others, Within, Types, Holds
<1>4. RunSound(r)'
  BY <1>1 DEF RunSound, Prepared, Watched, Collected, Answered, Counted, Holds
<1> QED
  BY <1>2, <1>3, <1>4, StepKeeps

\* Only a command that has not ended starts a child, so its call has not answered.
LEMMA ForksKeeps ==
  ASSUME LabInv, NEW r \in Runs, Forks(r)  PROVE LabInv'
<1>1. /\ Types /\ Reaped(r) /\ process[r] \in Processes /\ process[r].up
      /\ UNCHANGED <<pc, job, container, out, report>> /\ bundle /\ Event
  BY DEF LabInv, Types, Forks
<1>2. PICK kid \in Offspring : process' = [process EXCEPT ![r].child = kid]
  BY DEF Forks
<1> DEFINE p == [process[r] EXCEPT !.child = kid]
<1>3. p \in Processes /\ p.up
  BY <1>1 DEF Processes
<1>4. process' = [process EXCEPT ![r] = p]
  BY <1>2
<1> HIDE DEF p
<1>5. process'[r] = p
  BY <1>1, <1>4 DEF Types
<1>6. ~NoProcess.up
  BY DEF NoProcess
<1>7. Reaped(r)'
  BY <1>1, <1>3, <1>5, <1>6 DEF Reaped
<1> QED
  BY <1>1, <1>3, <1>4, <1>7, ProcessKeeps

\* What has ended is not left.
LEMMA ProcessEndsKeeps ==
  ASSUME LabInv, NEW r \in Runs, ProcessEnds(r)  PROVE LabInv'
<1>1. /\ Types /\ RunSound(r) /\ Reaped(r) /\ process[r] \in Processes
      /\ UNCHANGED <<pc, job, container, out, report, events>> /\ bundle
  BY DEF LabInv, Types, ProcessEnds
<1>2. ~NoProcess.up /\ NoProcess.child = "none"
  BY DEF NoProcess
<1>3. CASE /\ process[r].up /\ container[r].state \notin {"starting", "running"}
           /\ process' = [process EXCEPT ![r].up = FALSE]
  <2> DEFINE p == [process[r] EXCEPT !.up = FALSE]
  <2>1. p \in Processes /\ ~p.up
    BY <1>1 DEF Processes
  <2>2. process' = [process EXCEPT ![r] = p]
    BY <1>3
  <2> HIDE DEF p
  <2>3. process'[r] = p
    BY <1>1, <2>2 DEF Types
  <2>4. Reaped(r)'
    BY <1>1, <1>2, <1>3, <2>1, <2>3 DEF Reaped
  <2> QED
    BY <1>1, <2>1, <2>2, <2>4, ProcessKeeps
<1>4. CASE process[r].child # "none" /\ process' = [process EXCEPT ![r].child = "none"]
  <2> DEFINE p == [process[r] EXCEPT !.child = "none"]
  <2>1. p \in Processes /\ p.up = process[r].up /\ p.child = "none"
    BY <1>1 DEF Processes
  <2>2. process' = [process EXCEPT ![r] = p]
    BY <1>4
  <2> HIDE DEF p
  <2>3. process'[r] = p
    BY <1>1, <2>2 DEF Types
  <2>4. Reaped(r)'
    BY <1>1, <1>2, <1>4, <2>1, <2>3 DEF Reaped, HoldsPipes, InGroup
  <2> QED
    BY <1>1, <2>1, <2>2, <2>4, ProcessKeeps
<1> QED
  BY <1>3, <1>4 DEF ProcessEnds

\* A call that is killed knows nothing any more; what it has made stays as it is.
LEMMA KilledKeeps ==
  ASSUME LabInv, NEW r \in Runs, Killed(r)  PROVE LabInv'
<1>1. /\ Types /\ RunSound(r) /\ pc[r] # "done" /\ pc' = [pc EXCEPT ![r] = "dead"] /\ Event
      /\ UNCHANGED <<job, container, out, report>> /\ outside
  BY DEF LabInv, Killed
<1>2. pc' \in [Runs -> Stages] /\ pc'[r] = "dead"
  BY <1>1 DEF Types, Stages
<1>3. Types'
  BY <1>1, <1>2, EventFacts DEF Types, outside, bundle
<1>4. Others(r) /\ report[r].status = "none"
  BY <1>1 DEF Others, Types, RunSound, Answered, outside
<1>5. Within(r) /\ ~Holds(r)'
  BY <1>1, <1>2, <1>4 DEF Within, Holds, Inside
<1>6. RunSound(r)'
  BY <1>1, <1>2, <1>4, <1>5
     DEF RunSound, Prepared, Watched, Collected, Answered, Counted, Inside
<1>7. Reaped(r)'
  BY <1>1, <1>2, <1>4 DEF Reaped
<1> QED
  BY <1>3, <1>4, <1>5, <1>6, <1>7, StepKeeps

\* A step of the engine: the container of one call, and nothing else.
LEMMA EngineKeeps ==
  ASSUME LabInv, NEW r \in Runs, NEW box \in Boxes, container' = [container EXCEPT ![r] = box],
         UNCHANGED <<pc, job, out, report, events>>, outside, RunSound(r)',
         box.state \in {"starting", "running"} => container[r].state \in {"starting", "running"}
  PROVE  LabInv'
<1>1. Types /\ Reaped(r)
  BY DEF LabInv
<1>2. Types'
  BY <1>1 DEF Types, outside, bundle
<1>3. Others(r) /\ Within(r) /\ UNCHANGED process
  BY <1>1 DEF Others, Within, Types, Holds, outside
<1>4. container'[r] = box
  BY <1>1 DEF Types
<1>5. Reaped(r)'
  BY <1>1, <1>3, <1>4 DEF Reaped
<1> QED
  BY <1>2, <1>3, <1>5, StepKeeps

\* A request of a client that is gone starts nothing that is accounted for.
LEMMA EngineCatchesUpKeeps ==
  ASSUME LabInv, NEW r \in Runs, EngineCatchesUp(r)  PROVE LabInv'
<1>1. Types /\ RunSound(r) /\ container[r] \in Boxes
      /\ container[r].state \in {"creating", "starting"}
  BY DEF LabInv, EngineCatchesUp, Types
<1> DEFINE state == IF container[r].state = "creating" THEN "created" ELSE "running"
           box == [container[r] EXCEPT !.state = state]
<1>2. state \in {"created", "running"} /\ (container[r].state = "creating" => state = "created")
  OBVIOUS
<1>3. container' = [container EXCEPT ![r] = box]
  BY DEF EngineCatchesUp
<1> HIDE DEF state
<1>4. box \in Boxes /\ box.state = state
  BY <1>1, <1>2 DEF Boxes
<1> HIDE DEF box
<1>5. container'[r] = box /\ UNCHANGED <<pc, job, out, report>>
  BY <1>1, <1>3 DEF Types, EngineCatchesUp
<1>6. pc[r] = "unstart" \/ (pc[r] \in {"sandbox", "done", "dead"} /\ ~Holds(r))
  <2>1. pc[r] \in {"unstart", "sandbox", "done", "dead"}
    BY <1>1 DEF RunSound, Prepared, Watched, Types, Stages, Inside
  <2>2. report[r].status # "SUCCEEDED"
    BY <1>1 DEF RunSound, Answered
  <2> QED
    BY <2>1, <2>2 DEF Holds, Inside
<1>7. Prepared(r)'
  BY <1>1, <1>5, <1>6 DEF RunSound, Prepared, Inside
<1>8. Watched(r)'
  BY <1>1, <1>5, <1>6 DEF RunSound, Watched
<1>9. Collected(r)'
  BY <1>1, <1>5, <1>6 DEF RunSound, Collected, Holds, Inside
<1>10. Answered(r)' /\ Counted(r)'
  BY <1>1, <1>2, <1>4, <1>5, <1>6 DEF RunSound, Answered, Counted
<1> QED
  BY <1>1, <1>2, <1>3, <1>4, <1>7, <1>8, <1>9, <1>10, EngineKeeps DEF RunSound, EngineCatchesUp

\* The program ends; a container that a call watches, or has collected from, had ended before.
LEMMA ContainerExitsKeeps ==
  ASSUME LabInv, NEW r \in Runs, ContainerExits(r)  PROVE LabInv'
<1>1. Types /\ RunSound(r) /\ container[r] \in Boxes /\ container[r].state = "running"
  BY DEF LabInv, ContainerExits, Types
<1>2. PICK code \in {0, 1}, wrote \in Contracts \cup {"empty"} :
        container' = [container EXCEPT ![r].exit = code, ![r].wrote = wrote,
                        ![r].state = IF job[r].sandbox = "container" THEN "removed" ELSE "exited"]
  BY DEF ContainerExits
<1> DEFINE state == IF job[r].sandbox = "container" THEN "removed" ELSE "exited"
           box == [container[r] EXCEPT !.exit = code, !.wrote = wrote, !.state = state]
<1>3. state \in {"removed", "exited"} /\ (job[r].sandbox = "none" => state = "exited") /\ code \in Int
  OBVIOUS
<1>4. container' = [container EXCEPT ![r] = box]
  BY <1>2
<1> HIDE DEF state
<1>5. box \in Boxes /\ box.state = state /\ box.tree = container[r].tree
  BY <1>1, <1>3 DEF Boxes
<1> HIDE DEF box
<1>6. container'[r] = box /\ UNCHANGED <<pc, job, out, report>>
  BY <1>1, <1>4 DEF Types, ContainerExits
<1>7. Prepared(r)'
  BY <1>1, <1>6 DEF RunSound, Prepared, Inside
<1>8. Watched(r)'
  <2>1. pc[r] \in Inside => job[r].sandbox = "none"
    BY <1>1 DEF RunSound, Prepared
  <2> QED
    BY <1>1, <1>3, <1>5, <1>6, <2>1 DEF RunSound, Watched, Inside
<1>9. Collected(r)'
  <2>1. pc[r] # "verify" /\ (pc[r] \in {"cleanup", "judge"} => job[r].error # "none")
    BY <1>1 DEF RunSound, Watched, Collected
  <2> QED
    BY <1>1, <1>6, <2>1 DEF RunSound, Collected, Holds, Inside
<1>10. Answered(r)' /\ Counted(r)'
  BY <1>1, <1>3, <1>5, <1>6 DEF RunSound, Answered, Counted
<1> QED
  BY <1>3, <1>4, <1>5, <1>7, <1>8, <1>9, <1>10, EngineKeeps DEF RunSound, ContainerExits

\* The surroundings change, and no call does.
LEMMA EditKeeps ==
  ASSUME LabInv, Edit  PROVE LabInv'
<1>1. Types
  BY DEF LabInv
<1>2. UNCHANGED <<manifest, pc, job, container, process, out, report>> /\ events' \in 0..MaxEvents
  BY <1>1, EventFacts DEF Edit
<1>3. file' \in Contracts \cup {"invalid"} /\ head' \in Commits
      /\ work' \in [Paths -> Commits \cup {"edited", "absent"}]
  BY <1>1 DEF Types, Edit
<1>4. Types'
  BY <1>1, <1>2, <1>3 DEF Types
<1>5. \A r \in Runs : RunSound(r)'
  BY <1>2 DEF LabInv, RunSound, Prepared, Watched, Collected, Answered, Counted, Holds
<1>6. Apart'
  BY <1>2 DEF LabInv, Apart, Holds
<1>7. \A r \in Runs : Reaped(r)'
  BY <1>2 DEF LabInv, Reaped
<1> QED
  BY <1>4, <1>5, <1>6, <1>7 DEF LabInv

-----------------------------------------------------------------------------
(* The theorems about the lab *)

LEMMA LabInit == Init => LabInv
<1> SUFFICES ASSUME Init  PROVE LabInv
  OBVIOUS
<1>1. NoJob \in Jobs
  BY DEF NoJob, Jobs, NoExit
<1>2. NoContainer \in Boxes
  BY DEF NoContainer, Boxes, NoExit
<1>3. NoReport \in Reports
  BY DEF NoReport, Reports, Statuses
<1>p. NoProcess \in Processes
  BY DEF NoProcess, Processes
<1>4. Types
  BY <1>1, <1>2, <1>3, <1>p DEF Init, Types, Stages, Outputs
<1>5. ASSUME NEW r \in Runs
      PROVE  /\ pc[r] = "idle" /\ job[r] = NoJob /\ report[r].status = "none"
             /\ container[r].state = "none" /\ ~Holds(r) /\ process[r] = NoProcess
  BY DEF Init, NoReport, NoContainer, Holds, Inside
<1>6. \A r \in Runs : RunSound(r)
  BY <1>5 DEF RunSound, Prepared, Watched, Collected, Answered, Counted, Inside
<1>7. Apart
  BY <1>5 DEF Apart
<1>8. \A r \in Runs : Reaped(r)
  BY <1>5 DEF Reaped
<1> QED
  BY <1>4, <1>6, <1>7, <1>8 DEF LabInv

LEMMA LabStep == LabInv /\ [Next]_vars => LabInv'
<1> SUFFICES ASSUME LabInv, [Next]_vars  PROVE LabInv'
  OBVIOUS
<1>1. ASSUME NEW r \in Runs, BundleStep(r)  PROVE LabInv'
  BY <1>1, LevelOneKeeps, LoadContractKeeps, VerifyGitTargetKeeps, FindDockerKeeps,
     PrepareOutputDirectoryKeeps, CopyFileKeeps, StartContainerKeeps, RemoveUnstartedKeeps, WaitKeeps,
     StopContainerKeeps, CollectOutputKeeps, VerifyOutputsKeeps, RemoveContainerKeeps, JudgeKeeps
     DEF BundleStep, RunnerStep
<1>2. ASSUME NEW r \in Runs, Killed(r)  PROVE LabInv'
  BY <1>2, KilledKeeps
<1>3. ASSUME NEW r \in Runs, SandboxStep(r)  PROVE LabInv'
  BY <1>3, BeginSandboxKeeps, ReadChunkKeeps, EndSandboxKeeps, SandboxTimeoutKeeps, ForksKeeps,
     ProcessEndsKeeps DEF SandboxStep
<1>4. ASSUME NEW r \in Runs, EngineStep(r)  PROVE LabInv'
  BY <1>4, EngineCatchesUpKeeps, ContainerExitsKeeps DEF EngineStep
<1>5. CASE UNCHANGED vars
  BY <1>5 DEF vars, LabInv, Types, Apart, RunSound, Prepared, Watched, Collected, Answered, Counted,
              Reaped, Holds
<1> QED
  BY <1>1, <1>2, <1>3, <1>4, <1>5, EditKeeps DEF Next

\* The calls, their containers and their directories stay consistent, whatever the engine
\* does, whatever is edited and whichever call is killed.
THEOREM LabInvariant == Spec => []LabInv
BY LabInit, LabStep, PTL DEF Spec

\* What a call reports is true.
LEMMA InvReports == LabInv => ReportsAreTrue
<1> SUFFICES ASSUME LabInv  PROVE ReportsAreTrue
  OBVIOUS
<1>1. TypeOK
  <2>1. ASSUME NEW r \in Runs
        PROVE  /\ container[r].state \in {"none", "creating", "created", "starting", "running",
                                          "exited", "removed"}
               /\ report[r].status = "none" <=> pc[r] \notin {"done"}
               /\ report[r].status \in Statuses
               /\ report[r].level3 \in {"none", "PASS", "FAIL", "NOT_RUN", "INCONCLUSIVE"}
               /\ process[r] \in [up : BOOLEAN, child : Offspring \cup {"none"}]
    <3>1. container[r] \in Boxes /\ report[r] \in Reports /\ Answered(r) /\ process[r] \in Processes
      BY DEF LabInv, Types, RunSound
    <3> QED
      BY <3>1 DEF Boxes, Reports, Answered, Processes
  <2> QED
    BY <2>1 DEF LabInv, Types, TypeOK, Statuses
<1>2. \A r \in Runs : Answered(r) /\ Counted(r)
  BY DEF LabInv, RunSound
<1>3. \A r, q \in Runs : r # q /\ pc[r] \in Inside /\ pc[q] \in Inside => job[r].dir # job[q].dir
  BY DEF LabInv, Apart, Holds
<1> QED
  BY <1>1, <1>2, <1>3 DEF ReportsAreTrue, Answered, Counted

\* A run that is reported to have succeeded is a reproduction of the pinned commit in a
\* directory of its own, and an unmarked sandbox digest is of everything.
THEOREM ReportsStayTrue == Spec => []ReportsAreTrue
BY LabInvariant, InvReports, PTL

\* What a call leaves running when it has answered is what its answer allows.
THEOREM OutlivesIsTold == Spec => []WhatOutlivesAnAnswer
<1>1. LabInv => WhatOutlivesAnAnswer
  <2> SUFFICES ASSUME LabInv, NEW r \in Runs, report[r].status # "none"
               PROVE  /\ container[r].state \in {"starting", "running"} =>
                           report[r].status \in {"INCOMPLETE", "execution_timeout"}
                      /\ ~process[r].up
                      /\ process[r].child # "none" =>
                           \/ report[r].status = "SANDBOXED" /\ process[r].child \notin HoldsPipes
                           \/ report[r].status = "execution_timeout" /\ process[r].child \notin InGroup
    BY DEF WhatOutlivesAnAnswer
  <2>1. Answered(r) /\ Reaped(r)
    BY DEF LabInv, RunSound
  <2> QED
    BY <2>1 DEF Answered, Reaped
<1> QED
  BY <1>1, LabInvariant, PTL

\* Output is only ever copied from a container that has ended, and that held the pinned tree.
THEOREM OutputIsCollectedAtRest == Spec => CollectedAtRest
<1>1. LabInv /\ [Next]_vars =>
        [\A r \in Runs : pc[r] = "collect" /\ pc'[r] # "collect" /\ out' # out
           => container[r].state = "exited" /\ container[r].tree = CommitOf[job[r].contract]]_vars
  <2> SUFFICES ASSUME LabInv, [Next]_vars, ~UNCHANGED vars, NEW r \in Runs,
                      pc[r] = "collect", pc'[r] # "collect", out' # out
               PROVE  container[r].state = "exited" /\ container[r].tree = CommitOf[job[r].contract]
    OBVIOUS
  <2>1. PICK q \in Runs : _prepare_output_directory(q) \/ CollectOutput(q)
    BY DEF Next, BundleStep, RunnerStep, SandboxStep, EngineStep, LevelOne, LoadContract,
           _verify_git_target, FindDocker, CopyFile, StartContainer, RemoveUnstarted, Wait,
           _stop_container, _verify_outputs, _remove_container, Judge, BeginSandbox, ReadChunk,
           EndSandbox, SandboxTimeout, Forks, ProcessEnds, EngineCatchesUp, ContainerExits, Killed, Edit
  <2>2. q = r
    BY <2>1 DEF _prepare_output_directory, CollectOutput, Goto, Return, LabInv, Types
  <2>3. CollectOutput(r)
    BY <2>1, <2>2 DEF _prepare_output_directory
  <2> QED
    BY <2>3, CollectOutputKeeps
<1> QED
  BY <1>1, LabInvariant, PTL DEF Spec, CollectedAtRest
=============================================================================
