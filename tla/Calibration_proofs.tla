--------------------------- MODULE Calibration_proofs ---------------------------
(***************************************************************************)
(* The thresholds the evaluations choose are the best there are, for any   *)
(* trials, costs and number of scores: proofs about the metrics and about  *)
(* the studies that use them.                                              *)
(***************************************************************************)
EXTENDS EvaluationStudy, FiniteSetTheorems, WellFoundedInduction, TLAPS

(* Least and greatest elements, by induction in the form of a least          *)
(* counterexample                                                            *)

LEMMA LeastNatural ==
    ASSUME NEW S, S \subseteq Nat, S # {}
    PROVE  \E m \in S : \A n \in S : m <= n
<1>1. IsWellFoundedOn(OpToRel(<, Nat), Nat)
    BY NatLessThanWellFounded
<1>2. PICK m \in S : \A n \in S : ~(<<n, m>> \in OpToRel(<, Nat))
    BY <1>1, WFMin
<1>3. \A n \in S : ~(n < m)
    BY <1>2 DEF OpToRel
<1> QED BY <1>3

LEMMA Extremes ==
    ASSUME NEW S, S \subseteq Int, S # {}, IsFiniteSet(S)
    PROVE  \E low, high \in S : \A x \in S : low <= x /\ x <= high
<1> DEFINE Bounded(T) == \E low, high \in T : \A x \in T : low <= x /\ x <= high
           Sizes == {n \in Nat : \E T \in SUBSET S :
                         T # {} /\ Cardinality(T) = n /\ ~Bounded(T)}
<1>1. ASSUME Sizes # {} PROVE FALSE
  <2>1. PICK n \in Sizes : \A m \in Sizes : n <= m
    <3> HIDE DEF Sizes
    <3>1. Sizes \subseteq Nat
        BY DEF Sizes
    <3> QED BY <1>1, <3>1, LeastNatural
  <2>2. PICK T \in SUBSET S : T # {} /\ Cardinality(T) = n /\ ~Bounded(T)
      BY <2>1
  <2>3. PICK e \in T : TRUE
      BY <2>2
  <2> DEFINE R == T \ {e}
  <2>4. /\ IsFiniteSet(T) /\ IsFiniteSet(R)
        /\ Cardinality(R) = n - 1
      BY <2>2, <2>3, FS_Subset, FS_RemoveElement
  <2>5. Cardinality(R) \in Nat
      BY <2>4, FS_CardinalityType
  <2>6. R = {} \/ Bounded(R)
    <3>1. n \in Nat /\ n - 1 \in Nat /\ ~(n <= n - 1) /\ R \in SUBSET S
        BY <2>1, <2>2, <2>4, <2>5
    <3>2. n - 1 \notin Sizes
        BY <2>1, <3>1
    <3> HIDE DEF Bounded
    <3> QED BY <2>4, <3>1, <3>2
  <2>7. CASE R = {}
      BY <2>2, <2>3, <2>7
  <2>8. CASE Bounded(R)
    <3>1. PICK low, high \in R : \A x \in R : low <= x /\ x <= high
        BY <2>8
    <3>2. e \in Int /\ low \in Int /\ high \in Int /\ R \subseteq Int
        BY <2>2, <2>3
    <3> DEFINE l == IF e < low THEN e ELSE low
               h == IF e > high THEN e ELSE high
    <3>3. l \in T /\ h \in T /\ \A x \in T : l <= x /\ x <= h
        BY <2>3, <3>1, <3>2
    <3> QED BY <2>2, <3>3
  <2> QED BY <2>6, <2>7, <2>8
<1> QED BY <1>1, FS_CardinalityType

LEMMA LeastAndGreatest ==
    ASSUME NEW S, S \subseteq Int, S # {}, IsFiniteSet(S)
    PROVE  /\ Min(S) \in S /\ \A x \in S : Min(S) <= x
           /\ Max(S) \in S /\ \A x \in S : x <= Max(S)
<1>1. PICK low, high \in S : \A x \in S : low <= x /\ x <= high
    BY Extremes
<1>2. Min(S) \in S /\ \A x \in S : Min(S) <= x
    BY <1>1 DEF Min
<1>3. Max(S) \in S /\ \A x \in S : Max(S) >= x
    BY <1>1 DEF Max
<1> QED BY <1>2, <1>3

-----------------------------------------------------------------------------
(* The keys of min                                                           *)

LEMMA LessOfThree ==
    ASSUME NEW a, NEW b, NEW c, NEW x, NEW y, NEW z
    PROVE  KeyLess(<<a, b, c>>, <<x, y, z>>)
               <=> a < x \/ (a = x /\ (b < y \/ (b = y /\ c < z)))
BY DEF KeyLess

LEMMA LessOfFour ==
    ASSUME NEW a, NEW b, NEW c, NEW d, NEW x, NEW y, NEW z, NEW u
    PROVE  KeyLess(<<a, b, c, d>>, <<x, y, z, u>>)
               <=> a < x \/ (a = x /\ (b < y \/ (b = y /\ (c < z \/ (c = z /\ d < u)))))
BY DEF KeyLess

LEMMA LeastValue ==
    ASSUME NEW S, S # {}, NEW F, \A x \in S : F[x] \in Nat
    PROVE  \E x \in S : \A y \in S : F[x] <= F[y]
<1> DEFINE V == {F[x] : x \in S}
<1>1. V \subseteq Nat /\ V # {}
    OBVIOUS
<1>2. \E m \in V : \A n \in V : m <= n
    BY <1>1, LeastNatural
<1> QED BY <1>2

HasLeast(S, A, B, C, D) ==
    \E x \in S : \A y \in S :
        ~KeyLess(<<A[y], B[y], C[y], D[y]>>, <<A[x], B[x], C[x], D[x]>>)

\* min finds an element whose key no other key precedes.
LEMMA LeastKey ==
    ASSUME NEW S, S # {}, NEW A, NEW B, NEW C, NEW D,
           \A x \in S : A[x] \in Nat /\ B[x] \in Nat /\ C[x] \in Nat /\ D[x] \in Nat
    PROVE  HasLeast(S, A, B, C, D)
<1>1. PICK a \in S : \A y \in S : A[a] <= A[y]
    BY LeastValue
<1> DEFINE S1 == {x \in S : A[x] = A[a]}
<1>2. PICK b \in S1 : \A y \in S1 : B[b] <= B[y]
  <2>1. S1 # {} /\ \A x \in S1 : B[x] \in Nat
      OBVIOUS
  <2> HIDE DEF S1
  <2> QED BY <2>1, LeastValue
<1> DEFINE S2 == {x \in S1 : B[x] = B[b]}
<1>3. PICK c \in S2 : \A y \in S2 : C[c] <= C[y]
  <2>1. S2 # {} /\ \A x \in S2 : C[x] \in Nat
      BY <1>2
  <2> HIDE DEF S2
  <2> QED BY <2>1, LeastValue
<1> DEFINE S3 == {x \in S2 : C[x] = C[c]}
<1>4. PICK d \in S3 : \A y \in S3 : D[d] <= D[y]
  <2>1. S3 # {} /\ \A x \in S3 : D[x] \in Nat
      BY <1>3
  <2> HIDE DEF S3
  <2> QED BY <2>1, LeastValue
<1>5. ASSUME NEW y \in S
      PROVE  ~KeyLess(<<A[y], B[y], C[y], D[y]>>, <<A[d], B[d], C[d], D[d]>>)
  <2>1. /\ ~(A[y] < A[d])
        /\ A[y] = A[d] => ~(B[y] < B[d])
        /\ A[y] = A[d] /\ B[y] = B[d] => ~(C[y] < C[d])
        /\ A[y] = A[d] /\ B[y] = B[d] /\ C[y] = C[d] => ~(D[y] < D[d])
      BY <1>1, <1>2, <1>3, <1>4
  <2> QED BY <2>1, LessOfFour
<1> QED BY <1>4, <1>5 DEF HasLeast

\* The same for three values of which the last is the greatest possible.
LEMMA LeastKeyGreatest ==
    ASSUME NEW S, S # {}, NEW A, NEW B, NEW C, NEW top \in Int,
           \A x \in S : A[x] \in Nat /\ B[x] \in Nat /\ C[x] \in Int /\ C[x] <= top
    PROVE  \E x \in S : \A y \in S :
               ~KeyLess(<<A[y], B[y], -C[y]>>, <<A[x], B[x], -C[x]>>)
<1> DEFINE D == [x \in S |-> top - C[x]]
           Z == [x \in S |-> 0]
<1>1. \A x \in S : D[x] \in Nat /\ Z[x] \in Nat /\ D[x] = top - C[x]
    OBVIOUS
<1> HIDE DEF D, Z
<1>2. PICK x \in S : \A y \in S :
          ~KeyLess(<<A[y], B[y], D[y], Z[y]>>, <<A[x], B[x], D[x], Z[x]>>)
  <2>1. HasLeast(S, A, B, D, Z)
      BY <1>1, LeastKey
  <2> QED BY <2>1 DEF HasLeast
<1>3. ASSUME NEW y \in S
      PROVE  ~KeyLess(<<A[y], B[y], -C[y]>>, <<A[x], B[x], -C[x]>>)
  <2>1. ~(A[y] < A[x] \/ (A[y] = A[x] /\ (B[y] < B[x] \/ (B[y] = B[x] /\
            (D[y] < D[x] \/ (D[y] = D[x] /\ Z[y] < Z[x]))))))
    <3>1. ~KeyLess(<<A[y], B[y], D[y], Z[y]>>, <<A[x], B[x], D[x], Z[x]>>)
        BY <1>2
    <3> QED BY <3>1, LessOfFour, Zenon
  <2>2. -C[y] < -C[x] => D[y] < D[x]
      BY <1>1
  <2>3. ~(A[y] < A[x] \/ (A[y] = A[x] /\ (B[y] < B[x] \/ (B[y] = B[x] /\ -C[y] < -C[x]))))
      BY <2>1, <2>2
  <2> QED BY <2>3, LessOfThree
<1> QED BY <1>3

-----------------------------------------------------------------------------
(* Speaker verification                                                      *)

\* The scores of one class: some, of finitely many trials.
IsScores(f) ==
    /\ IsFiniteSet(DOMAIN f) /\ DOMAIN f # {}
    /\ \A k \in DOMAIN f : f[k] \in Int

LEMMA Counts ==
    ASSUME NEW f, IsScores(f), NEW t
    PROVE  /\ Size(f) \in Nat \ {0}
           /\ Cardinality({k \in DOMAIN f : f[k] < t}) \in 0..Size(f)
           /\ Cardinality({k \in DOMAIN f : f[k] >= t}) \in 0..Size(f)
<1>1. ASSUME NEW T \in SUBSET DOMAIN f PROVE Cardinality(T) \in 0..Size(f)
    BY FS_Subset, FS_CardinalityType DEF IsScores, Size
<1>2. Size(f) \in Nat \ {0}
    BY FS_CardinalityType, FS_EmptySet DEF IsScores, Size
<1>3. {k \in DOMAIN f : f[k] < t} \in SUBSET DOMAIN f
    OBVIOUS
<1>4. {k \in DOMAIN f : f[k] >= t} \in SUBSET DOMAIN f
    OBVIOUS
<1> QED BY <1>1, <1>2, <1>3, <1>4

LEMMA ScoreSet ==
    ASSUME NEW f, IsScores(f)
    PROVE  IsFiniteSet(Range(f)) /\ Range(f) # {} /\ Range(f) \subseteq Int
<1> DEFINE h == [k \in DOMAIN f |-> f[k]]
<1>1. h \in Surjection(DOMAIN f, Range(f))
    BY DEF Surjection, Range
<1>2. IsFiniteSet(Range(f))
    BY <1>1, FS_Surjection DEF IsScores
<1> QED BY <1>2 DEF IsScores, Range

\* S has the scores of both classes, from low to high.
Spans(S, low, high, g, i) ==
    /\ S # {} /\ IsFiniteSet(S)
    /\ \A x \in S : x \in Int /\ low <= x /\ x <= high
    /\ \A k \in DOMAIN g : g[k] \in S
    /\ \A k \in DOMAIN i : i[k] \in S
    /\ \A c : c \in CandidateThresholds(g, i) <=> c \in S \/ c = low - 1 \/ c = high + 1

LEMMA Observed ==
    ASSUME NEW g, NEW i, IsScores(g), IsScores(i)
    PROVE  \E S, low, high : low \in Int /\ high \in Int /\ Spans(S, low, high, g, i)
<1> DEFINE S == Range(g) \cup Range(i)
<1>1. S \subseteq Int /\ S # {} /\ IsFiniteSet(S)
    BY ScoreSet, FS_Union
<1>2. /\ Min(S) \in S /\ \A x \in S : Min(S) <= x
      /\ Max(S) \in S /\ \A x \in S : x <= Max(S)
  <2> HIDE DEF S
  <2> QED BY <1>1, LeastAndGreatest
<1>3. /\ Min(S) \in Int /\ Max(S) \in Int
      /\ \A x \in S : x \in Int /\ Min(S) <= x /\ x <= Max(S)
    BY <1>1, <1>2
<1>4. /\ \A k \in DOMAIN g : g[k] \in S
      /\ \A k \in DOMAIN i : i[k] \in S
    BY DEF Range
<1>5. \A c : c \in CandidateThresholds(g, i)
                 <=> c \in S \/ c = Min(S) - 1 \/ c = Max(S) + 1
    BY DEF CandidateThresholds
<1>6. Spans(S, Min(S), Max(S), g, i)
  <2> HIDE DEF S
  <2> QED BY <1>1, <1>3, <1>4, <1>5 DEF Spans
<1> QED BY <1>3, <1>6

LEMMA NextScore ==
    ASSUME NEW S, S \subseteq Int, IsFiniteSet(S), NEW t \in Int,
           NEW high \in Int, \A x \in S : x <= high
    PROVE  \E c \in S \cup {high + 1} : \A x \in S : x < t <=> x < c
<1> DEFINE above == {s \in S : s >= t}
<1>1. CASE above = {}
  <2>1. \A x \in S : x < t /\ x < high + 1
      BY <1>1
  <2> QED BY <2>1
<1>2. CASE above # {}
  <2>1. above \subseteq Int /\ IsFiniteSet(above)
      BY FS_Subset
  <2>2. Min(above) \in above /\ \A x \in above : Min(above) <= x
    <3> HIDE DEF above
    <3> QED BY <1>2, <2>1, LeastAndGreatest
  <2>3. PICK c \in above : \A x \in above : c <= x
      BY <2>2
  <2>4. \A x \in S : x < t <=> x < c
      BY <2>3
  <2> QED BY <2>3, <2>4
<1> QED BY <1>1, <1>2

\* Between two neighbouring scores all thresholds decide alike: one that is a
\* score, or one above them all, decides as any threshold does.
LEMMA SameDecisions ==
    ASSUME NEW g, NEW i, IsScores(g), IsScores(i), NEW t \in Int
    PROVE  \E c \in CandidateThresholds(g, i) :
               /\ c \in Int
               /\ \A k \in DOMAIN g : g[k] < t <=> g[k] < c
               /\ \A k \in DOMAIN i : i[k] < t <=> i[k] < c
<1>1. PICK S, low, high : low \in Int /\ high \in Int /\ Spans(S, low, high, g, i)
    BY Observed
<1>2. S \subseteq Int /\ IsFiniteSet(S) /\ high \in Int /\ \A x \in S : x <= high
    BY <1>1 DEF Spans
<1>3. PICK c \in S \cup {high + 1} : \A x \in S : x < t <=> x < c
    BY <1>2, NextScore
<1>4. c \in CandidateThresholds(g, i) /\ c \in Int
    BY <1>1, <1>2 DEF Spans
<1> QED BY <1>1, <1>3, <1>4 DEF Spans

LEMMA SameRates ==
    ASSUME NEW g, NEW i, IsScores(g), IsScores(i), NEW t \in Int
    PROVE  \E r \in Evaluated(g, i) :
               /\ Cost(r) = Cost(RatesAtThreshold(g, i, t))
               /\ Gap(r) = Gap(RatesAtThreshold(g, i, t))
<1>1. PICK c \in CandidateThresholds(g, i) :
          /\ c \in Int
          /\ \A k \in DOMAIN g : g[k] < t <=> g[k] < c
          /\ \A k \in DOMAIN i : i[k] < t <=> i[k] < c
    BY SameDecisions
<1>3. {k \in DOMAIN g : g[k] < t} = {k \in DOMAIN g : g[k] < c}
    BY <1>1
<1>4. {k \in DOMAIN i : i[k] >= t} = {k \in DOMAIN i : i[k] >= c}
    BY <1>1 DEF IsScores
<1> DEFINE r == RatesAtThreshold(g, i, c)
           q == RatesAtThreshold(g, i, t)
<1>5. /\ r.false_rejects = q.false_rejects /\ r.false_accepts = q.false_accepts
      /\ r.genuine_trials = q.genuine_trials /\ r.impostor_trials = q.impostor_trials
    BY <1>3, <1>4 DEF RatesAtThreshold, HowMany
<1>6. r \in Evaluated(g, i)
    BY DEF Evaluated
<1> HIDE DEF r, q
<1>7. Cost(r) = Cost(q) /\ Gap(r) = Gap(q)
    BY <1>5 DEF Cost, Gap
<1> QED BY <1>6, <1>7 DEF q

LEMMA RatedCandidates ==
    ASSUME NEW g, NEW i, IsScores(g), IsScores(i)
    PROVE  /\ Evaluated(g, i) # {}
           /\ \E top \in Int : \A r \in Evaluated(g, i) :
                  /\ r.threshold \in Int /\ r.threshold <= top
                  /\ r = RatesAtThreshold(g, i, r.threshold)
                  /\ r.false_accepts \in Nat
                  /\ Cost(r) \in Nat /\ Gap(r) \in Nat /\ BalancedError(r) \in Nat
<1>1. PICK S, low, high : low \in Int /\ high \in Int /\ Spans(S, low, high, g, i)
    BY Observed
<1>2. low <= high /\ S # {}
    BY <1>1 DEF Spans
<1>3. \A c \in CandidateThresholds(g, i) : c \in S \/ c = low - 1 \/ c = high + 1
    BY <1>1 DEF Spans
<1>4. \A c \in CandidateThresholds(g, i) : c \in Int /\ c <= high + 1
    BY <1>1, <1>2, <1>3 DEF Spans
<1>5. ASSUME NEW c \in CandidateThresholds(g, i)
      PROVE  LET r == RatesAtThreshold(g, i, c)
             IN  /\ r.threshold = c
                 /\ r.false_accepts \in Nat
                 /\ Cost(r) \in Nat /\ Gap(r) \in Nat /\ BalancedError(r) \in Nat
  <2> DEFINE r == RatesAtThreshold(g, i, c)
  <2>1. /\ r.threshold = c
        /\ r.false_rejects \in Nat /\ r.false_accepts \in Nat
        /\ r.genuine_trials \in Nat /\ r.impostor_trials \in Nat
    <3>1. /\ Size(g) \in Nat /\ Cardinality({k \in DOMAIN g : g[k] < c}) \in 0..Size(g)
          /\ Size(i) \in Nat /\ Cardinality({k \in DOMAIN i : i[k] >= c}) \in 0..Size(i)
        BY Counts
    <3> QED BY <3>1 DEF RatesAtThreshold, HowMany
  <2> HIDE DEF r
  <2>2. \A a, b \in Nat : a * b \in Nat
      OBVIOUS
  <2>3. /\ r.false_accepts * r.genuine_trials \in Nat
        /\ r.false_rejects * r.impostor_trials \in Nat
      BY <2>1, <2>2
  <2>4. Gap(r) \in Nat /\ BalancedError(r) \in Nat
      BY <2>3 DEF Gap, BalancedError, Magnitude
  <2>5. /\ MissWeight * r.false_rejects * r.impostor_trials \in Nat
        /\ FalseAlarmWeight * r.false_accepts * r.genuine_trials \in Nat
    <3>1. MissWeight \in Nat /\ FalseAlarmWeight \in Nat
        BY CostAssumption
    <3> QED BY <2>1, <2>2, <3>1
  <2>6. Cost(r) \in Nat
      BY <2>5 DEF Cost
  <2> QED BY <2>1, <2>4, <2>6 DEF r
<1>6. Evaluated(g, i) # {}
    BY <1>1, <1>2 DEF Spans, Evaluated
<1>7. ASSUME NEW r \in Evaluated(g, i)
      PROVE  /\ r.threshold \in Int /\ r.threshold <= high + 1
             /\ r = RatesAtThreshold(g, i, r.threshold)
             /\ r.false_accepts \in Nat
             /\ Cost(r) \in Nat /\ Gap(r) \in Nat /\ BalancedError(r) \in Nat
  <2>1. PICK c \in CandidateThresholds(g, i) : r = RatesAtThreshold(g, i, c)
      BY DEF Evaluated
  <2> QED BY <1>4, <1>5, <2>1
<1>8. high + 1 \in Int
    BY <1>1
<1> QED BY <1>6, <1>7, <1>8

LEMMA CheapestCandidate ==
    ASSUME NEW g, NEW i, IsScores(g), IsScores(i)
    PROVE  /\ MinimumDetectionCost(g, i) \in Evaluated(g, i)
           /\ \A r \in Evaluated(g, i) : Cost(MinimumDetectionCost(g, i)) <= Cost(r)
<1> DEFINE E == Evaluated(g, i)
           A == [r \in E |-> Cost(r)]
           B == [r \in E |-> r.false_accepts]
           C == [r \in E |-> r.threshold]
           least == MinimumDetectionCost(g, i)
<1>1. PICK top \in Int : \A r \in E :
          /\ r.threshold \in Int /\ r.threshold <= top
          /\ r.false_accepts \in Nat /\ Cost(r) \in Nat
    BY RatedCandidates
<1>2. E # {}
    BY RatedCandidates
<1>3. \A r \in E : A[r] \in Nat /\ B[r] \in Nat /\ C[r] \in Int /\ C[r] <= top
    BY <1>1
<1>4. \E x \in E : \A y \in E :
          ~KeyLess(<<A[y], B[y], -C[y]>>, <<A[x], B[x], -C[x]>>)
  <2> HIDE DEF E, A, B, C
  <2> QED BY <1>2, <1>3, LeastKeyGreatest
<1>5. \E x \in E : \A y \in E :
          ~KeyLess(<<Cost(y), y.false_accepts, -y.threshold>>,
                   <<Cost(x), x.false_accepts, -x.threshold>>)
    BY <1>4
<1>6. /\ least \in E
      /\ \A y \in E : ~KeyLess(<<Cost(y), y.false_accepts, -y.threshold>>,
                               <<Cost(least), least.false_accepts, -least.threshold>>)
    BY <1>5, Zenon DEF MinimumDetectionCost, LeastBy
<1>7. \A r \in E : ~(Cost(r) < Cost(least))
    BY <1>6, LessOfThree
<1> QED BY <1>1, <1>6, <1>7

LEMMA MostBalancedCandidate ==
    ASSUME NEW g, NEW i, IsScores(g), IsScores(i)
    PROVE  /\ EstimateEer(g, i) \in Evaluated(g, i)
           /\ \A r \in Evaluated(g, i) : Gap(EstimateEer(g, i)) <= Gap(r)
<1> DEFINE E == Evaluated(g, i)
           A == [r \in E |-> Gap(r)]
           B == [r \in E |-> BalancedError(r)]
           C == [r \in E |-> r.threshold]
           least == EstimateEer(g, i)
<1>1. PICK top \in Int : \A r \in E :
          /\ r.threshold \in Int /\ r.threshold <= top
          /\ BalancedError(r) \in Nat /\ Gap(r) \in Nat
    BY RatedCandidates
<1>2. E # {}
    BY RatedCandidates
<1>3. \A r \in E : A[r] \in Nat /\ B[r] \in Nat /\ C[r] \in Int /\ C[r] <= top
    BY <1>1
<1>4. \E x \in E : \A y \in E :
          ~KeyLess(<<A[y], B[y], -C[y]>>, <<A[x], B[x], -C[x]>>)
  <2> HIDE DEF E, A, B, C
  <2> QED BY <1>2, <1>3, LeastKeyGreatest
<1>5. \E x \in E : \A y \in E :
          ~KeyLess(<<Gap(y), BalancedError(y), -y.threshold>>,
                   <<Gap(x), BalancedError(x), -x.threshold>>)
    BY <1>4
<1>6. /\ least \in E
      /\ \A y \in E : ~KeyLess(<<Gap(y), BalancedError(y), -y.threshold>>,
                               <<Gap(least), BalancedError(least), -least.threshold>>)
    BY <1>5, Zenon DEF EstimateEer, LeastBy
<1>7. \A r \in E : ~(Gap(r) < Gap(least))
    BY <1>6, LessOfThree
<1> QED BY <1>1, <1>6, <1>7

\* Two candidates accept everything and nothing.
LEMMA DefaultDecisions ==
    ASSUME NEW g, NEW i, IsScores(g), IsScores(i)
    PROVE  /\ \E r \in Evaluated(g, i) : Cost(r) = FalseAlarmWeight * Size(g) * Size(i)
           /\ \E r \in Evaluated(g, i) : Cost(r) = MissWeight * Size(g) * Size(i)
<1>1. PICK S, low, high : low \in Int /\ high \in Int /\ Spans(S, low, high, g, i)
    BY Observed
<1>2. /\ \A k \in DOMAIN g : g[k] \in Int /\ low <= g[k] /\ g[k] <= high
      /\ \A k \in DOMAIN i : i[k] \in Int /\ low <= i[k] /\ i[k] <= high
      /\ low - 1 \in CandidateThresholds(g, i) /\ high + 1 \in CandidateThresholds(g, i)
    BY <1>1 DEF Spans
<1>3. /\ Size(g) \in Nat /\ Size(i) \in Nat
      /\ MissWeight \in Nat /\ FalseAlarmWeight \in Nat
    BY Counts, CostAssumption
<1> DEFINE all == RatesAtThreshold(g, i, low - 1)
           none == RatesAtThreshold(g, i, high + 1)
<1>4. all \in Evaluated(g, i) /\ none \in Evaluated(g, i)
    BY <1>2 DEF Evaluated
<1>5. /\ {k \in DOMAIN g : g[k] < low - 1} = {}
      /\ {k \in DOMAIN i : i[k] >= low - 1} = DOMAIN i
    BY <1>1, <1>2
<1>6. /\ {k \in DOMAIN g : g[k] < high + 1} = DOMAIN g
      /\ {k \in DOMAIN i : i[k] >= high + 1} = {}
    BY <1>1, <1>2
<1>7. /\ all.false_rejects = 0 /\ all.false_accepts = Size(i)
      /\ all.genuine_trials = Size(g) /\ all.impostor_trials = Size(i)
    BY <1>5, FS_EmptySet DEF RatesAtThreshold, HowMany, Size
<1>8. /\ none.false_rejects = Size(g) /\ none.false_accepts = 0
      /\ none.genuine_trials = Size(g) /\ none.impostor_trials = Size(i)
    BY <1>6, FS_EmptySet DEF RatesAtThreshold, HowMany, Size
<1> HIDE DEF all, none
<1>9. \A w, v, a, b \in Nat : /\ w * 0 * b + v * b * a = v * a * b
                              /\ w * a * b + v * 0 * a = w * a * b
    OBVIOUS
<1>10. /\ Cost(all) = MissWeight * 0 * Size(i) + FalseAlarmWeight * Size(i) * Size(g)
       /\ Cost(none) = MissWeight * Size(g) * Size(i) + FalseAlarmWeight * 0 * Size(g)
    BY <1>7, <1>8 DEF Cost
<1> QED BY <1>3, <1>4, <1>9, <1>10

LEMMA LeastWeight == Min({MissWeight, FalseAlarmWeight}) \in {MissWeight, FalseAlarmWeight}
<1> DEFINE W == {MissWeight, FalseAlarmWeight}
<1>1. \E x \in W : \A y \in W : x <= y
    BY CostAssumption
<1>2. (CHOOSE x \in W : \A y \in W : x <= y) \in W
    BY <1>1
<1> QED BY <1>2 DEF Min

LEMMA Calibrated ==
    ASSUME NEW trials, NEW evaluated,
           IsScores(ScoresOf(trials, "genuine")), IsScores(ScoresOf(trials, "impostor")),
           evaluated.observed_eer = EstimateEer(ScoresOf(trials, "genuine"),
                                                ScoresOf(trials, "impostor")),
           evaluated.minimum_dcf = MinimumDetectionCost(ScoresOf(trials, "genuine"),
                                                        ScoresOf(trials, "impostor"))
    PROVE  BestFor(trials, evaluated)
<1> DEFINE g == ScoresOf(trials, "genuine")
           i == ScoresOf(trials, "impostor")
           least == evaluated.minimum_dcf
           balanced == evaluated.observed_eer
<1>1. IsScores(g) /\ IsScores(i) /\ least = MinimumDetectionCost(g, i)
      /\ balanced = EstimateEer(g, i)
    OBVIOUS
<1> HIDE DEF g, i, least, balanced
<1>2. /\ least \in Evaluated(g, i)
      /\ \A r \in Evaluated(g, i) : Cost(least) <= Cost(r)
      /\ \A r \in Evaluated(g, i) : Gap(balanced) <= Gap(r)
    BY <1>1, CheapestCandidate, MostBalancedCandidate
<1>3. Cost(least) <= DefaultCost(least)
  <2>1. least.genuine_trials = Size(g) /\ least.impostor_trials = Size(i)
    <3>1. PICK t : least = RatesAtThreshold(g, i, t)
        BY <1>2, Zenon DEF Evaluated
    <3> QED BY <3>1 DEF RatesAtThreshold
  <2>2. \/ DefaultCost(least) = MissWeight * Size(g) * Size(i)
        \/ DefaultCost(least) = FalseAlarmWeight * Size(g) * Size(i)
      BY <2>1, LeastWeight DEF DefaultCost
  <2> QED BY <1>1, <1>2, <2>2, DefaultDecisions
<1>4. ASSUME NEW t \in Int
      PROVE  /\ Cost(least) <= Cost(RatesAtThreshold(g, i, t))
             /\ Gap(balanced) <= Gap(RatesAtThreshold(g, i, t))
    BY <1>1, <1>2, SameRates
<1>5. ThresholdsAround(Range(g) \cup Range(i)) \subseteq Int
  <2> DEFINE S == Range(g) \cup Range(i)
  <2>1. S \subseteq Int /\ S # {} /\ IsFiniteSet(S)
      BY <1>1, ScoreSet, FS_Union
  <2> HIDE DEF S
  <2>2. Min(S) \in Int /\ Max(S) \in Int
      BY <2>1, LeastAndGreatest
  <2>3. ThresholdsAround(S) \subseteq Int
      BY <2>2 DEF ThresholdsAround
  <2> QED BY <2>3 DEF S
<1> QED BY <1>3, <1>4, <1>5 DEF BestFor, g, i, least, balanced

-----------------------------------------------------------------------------
(* The studies of speaker verification                                       *)

IsTrials(trials) ==
    /\ IsFiniteSet(DOMAIN trials)
    /\ \A k \in DOMAIN trials : trials[k].score \in Int

LEMMA BothClassesScored ==
    ASSUME NEW trials, IsTrials(trials), ScoredManifestOK(trials),
           NEW p \in Partitions, NEW label \in Labels
    PROVE  IsScores(ScoresOf(TrialsFor(trials, p), label))
<1> DEFINE f == ScoresOf(TrialsFor(trials, p), label)
           D == {k \in DOMAIN trials : trials[k].partition = p /\ trials[k].label = label}
<1>1. DOMAIN f = D /\ \A k \in D : f[k] = trials[k].score
    BY DEF ScoresOf, TrialsFor, RestrictValues, Restrict
<1>2. D # {}
  <2>1. label \in LabelsIn(trials, p)
      BY DEF ScoredManifestOK
  <2> QED BY <2>1 DEF LabelsIn, ToSet
<1>3. IsFiniteSet(D)
    BY FS_Subset DEF IsTrials
<1> QED BY <1>1, <1>2, <1>3 DEF IsScores, IsTrials

CalibrationInv ==
    /\ \E S : scored \in Seq(S)
    /\ \A k \in DOMAIN scored : scored[k].score \in Int
    /\ scoredFile \notin {None, Torn} => IsTrials(scoredFile)
    /\ report # None => /\ IsTrials(report.trials) /\ ScoredManifestOK(report.trials)
                        /\ report = EvaluateScoredTrials(report.trials)

LEMMA SequenceFacts ==
    ASSUME NEW S, NEW s \in Seq(S), NEW e
    PROVE  /\ Append(s, e) \in Seq(S \cup {e})
           /\ DOMAIN s = 1..Len(s) /\ Len(s) \in Nat /\ IsFiniteSet(DOMAIN s)
           /\ DOMAIN Append(s, e) = 1..(Len(s) + 1)
           /\ \A k \in DOMAIN s : Append(s, e)[k] = s[k]
           /\ Append(s, e)[Len(s) + 1] = e
<1>1. DOMAIN s = 1..Len(s) /\ Len(s) \in Nat
    OBVIOUS
<1>2. IsFiniteSet(1..Len(s))
    BY <1>1, FS_Interval
<1> QED BY <1>1, <1>2

LEMMA CalibrationInit == StudyInit => CalibrationInv
<1> SUFFICES ASSUME StudyInit PROVE CalibrationInv
    OBVIOUS
<1>1. /\ scored = <<>> /\ report = None
      /\ scoredFile \in ScoredFiles \cup {None}
    BY DEF StudyInit, ScoringInit
<1>2. <<>> \in Seq({}) /\ DOMAIN <<>> = {}
    OBVIOUS
<1>3. ASSUME scoredFile \notin {None, Torn}
      PROVE  IsTrials(scoredFile)
  <2>1. scoredFile \in Seq(ToSet(scoredFile)) /\ \A t \in ToSet(scoredFile) : t.score \in Int
      BY <1>1, <1>3, StudyAssumption
  <2>2. IsFiniteSet(DOMAIN scoredFile)
      BY <2>1, SequenceFacts
  <2> QED BY <2>1, <2>2 DEF IsTrials, ToSet
<1> QED BY <1>1, <1>2, <1>3 DEF CalibrationInv

LEMMA CalibrationStep ==
    ASSUME CalibrationInv, [StudyNext]_studyVars
    PROVE  CalibrationInv'
<1>1. CASE UNCHANGED <<scored, scoredFile, report>>
    BY <1>1 DEF CalibrationInv
<1>2. CASE StartScoring \/ EnrollNext \/ StopScoring
  <2>1. (scored' = scored \/ scored' = <<>>) /\ UNCHANGED <<scoredFile, report>>
      BY <1>2 DEF StartScoring, EnrollNext, StopScoring, Fail
  <2>2. <<>> \in Seq({}) /\ DOMAIN <<>> = {}
      OBVIOUS
  <2> QED BY <1>1, <2>1, <2>2 DEF CalibrationInv
<1>3. CASE ScoreNext
  <2>1. /\ UNCHANGED <<scoredFile, report>>
        /\ \/ scored' = scored
           \/ \E m, t, h : \E s \in Scores : scored' = Append(scored, ScoredTrial(m, t, s, h))
      BY <1>3 DEF ScoreNext, Fail
  <2>2. ASSUME NEW m, NEW t, NEW h, NEW s \in Scores,
               scored' = Append(scored, ScoredTrial(m, t, s, h))
        PROVE  CalibrationInv'
    <3>1. PICK S : scored \in Seq(S)
        BY DEF CalibrationInv
    <3> DEFINE e == ScoredTrial(m, t, s, h)
    <3>2. e.score \in Int
        BY StudyAssumption DEF ScoredTrial
    <3> HIDE DEF e
    <3>3. \A k \in DOMAIN scored' : scored'[k].score \in Int
      <4> TAKE k \in DOMAIN scored'
      <4>1. k \in DOMAIN scored \/ k = Len(scored) + 1
          BY <2>2, <3>1, SequenceFacts DEF e
      <4> QED BY <2>2, <3>1, <3>2, <4>1, SequenceFacts DEF CalibrationInv, e
    <3>4. scored' \in Seq(S \cup {e})
        BY <2>2, <3>1, SequenceFacts DEF e
    <3> QED BY <2>1, <3>3, <3>4 DEF CalibrationInv
  <2> QED BY <1>1, <2>1, <2>2
<1>4. CASE WriteScored
  <2>1. /\ report' = report
        /\ \/ scored' = scored \/ scored' = <<>>
        /\ \/ scoredFile' = scored \/ scoredFile' = Torn \/ scoredFile' = scoredFile
      BY <1>4 DEF WriteScored, PutScored, Fail
  <2>2. <<>> \in Seq({}) /\ DOMAIN <<>> = {}
      OBVIOUS
  <2>3. IsTrials(scored)
      BY SequenceFacts DEF CalibrationInv, IsTrials
  <2>4. scoredFile' \notin {None, Torn} => IsTrials(scoredFile')
      BY <2>1, <2>3 DEF CalibrationInv
  <2>5. /\ \E S : scored' \in Seq(S)
        /\ \A k \in DOMAIN scored' : scored'[k].score \in Int
      BY <2>1, <2>2 DEF CalibrationInv
  <2> QED BY <2>1, <2>4, <2>5 DEF CalibrationInv
<1>5. CASE EvaluateScores
  <2>1. /\ UNCHANGED <<scored, scoredFile>>
        /\ scoredFile \notin {None, Torn} /\ ScoredManifestOK(scoredFile)
        /\ report' = EvaluateScoredTrials(scoredFile)
      BY <1>5 DEF EvaluateScores
  <2>2. report'.trials = scoredFile
      BY <2>1 DEF EvaluateScoredTrials
  <2> QED BY <2>1, <2>2 DEF CalibrationInv
<1>6. CASE \E path : Damage(path)
    BY <1>1, <1>6 DEF Damage
<1>7. CASE UNCHANGED scoringVars \/ UNCHANGED studyVars
    BY <1>1, <1>7 DEF scoringVars, studyVars
<1> QED BY <1>2, <1>3, <1>4, <1>5, <1>6, <1>7 DEF StudyNext, TrialScoringNext

\* The parts of a report.
LEMMA ReportParts ==
    ASSUME NEW trials, NEW least,
           least = MinimumDetectionCost(ScoresOf(TrialsFor(trials, "development"), "genuine"),
                                        ScoresOf(TrialsFor(trials, "development"), "impostor"))
    PROVE  LET r == EvaluateScoredTrials(trials)
               dev == TrialsFor(trials, "development")
               eva == TrialsFor(trials, "evaluation")
           IN  /\ r.trials = trials
               /\ r.development = EvaluatePartition(dev, least.threshold)
               /\ r.evaluation = EvaluatePartition(eva, least.threshold)
BY DEF EvaluateScoredTrials

\* A reported threshold is the cheapest there is for the development scores, and
\* each reported EER the best balance, whatever trials a manifest has; the threshold
\* applied to the evaluation trials was chosen without them.
THEOREM ThresholdIsAlwaysCalibrated == StudySpec => []ThresholdIsCalibrated
<1>1. ASSUME CalibrationInv PROVE ThresholdIsCalibrated
  <2> SUFFICES ASSUME report # None
               PROVE  /\ BestFor(TrialsFor(report.trials, "development"), report.development)
                      /\ BestFor(TrialsFor(report.trials, "evaluation"), report.evaluation)
                      /\ Cost(report.development.locked)
                             = Cost(report.development.minimum_dcf)
      BY DEF ThresholdIsCalibrated
  <2> DEFINE dev == TrialsFor(report.trials, "development")
             eva == TrialsFor(report.trials, "evaluation")
             dg == ScoresOf(dev, "genuine")
             di == ScoresOf(dev, "impostor")
             eg == ScoresOf(eva, "genuine")
             ei == ScoresOf(eva, "impostor")
             least == MinimumDetectionCost(dg, di)
  <2>1. /\ report = EvaluateScoredTrials(report.trials)
        /\ IsScores(dg) /\ IsScores(di) /\ IsScores(eg) /\ IsScores(ei)
      BY <1>1, BothClassesScored DEF CalibrationInv, Partitions, Labels
  <2>2. /\ report.development = EvaluatePartition(dev, least.threshold)
        /\ report.evaluation = EvaluatePartition(eva, least.threshold)
      BY <2>1, ReportParts
  <2>3. /\ report.development.locked = RatesAtThreshold(dg, di, least.threshold)
        /\ report.development.minimum_dcf = least
        /\ report.development.observed_eer = EstimateEer(dg, di)
        /\ report.evaluation.minimum_dcf = MinimumDetectionCost(eg, ei)
        /\ report.evaluation.observed_eer = EstimateEer(eg, ei)
    <3> HIDE DEF dev, eva
    <3> QED BY <2>2 DEF EvaluatePartition
  <2>4. least = RatesAtThreshold(dg, di, least.threshold)
    <3> HIDE DEF dg, di
    <3> QED BY <2>1, CheapestCandidate, RatedCandidates
  <2>5. BestFor(dev, report.development) /\ BestFor(eva, report.evaluation)
    <3> HIDE DEF dev, eva
    <3> QED BY <2>1, <2>3, Calibrated
  <2> QED BY <2>3, <2>4, <2>5
<1> QED BY <1>1, CalibrationInit, CalibrationStep, PTL DEF StudySpec
=============================================================================
