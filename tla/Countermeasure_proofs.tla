------------------------- MODULE Countermeasure_proofs -------------------------
(***************************************************************************)
(* The one-pass sweep of spoof_metrics.py counts what the public rule       *)
(* counts, the countermeasure threshold is the best there is, ties are      *)
(* never split, and the parts of a report add up to its whole, for any      *)
(* score manifest, costs and number of trials.                              *)
(***************************************************************************)
EXTENDS Calibration_proofs

-----------------------------------------------------------------------------
(* Order statistics                                                          *)

LEMMA Subsets ==
    ASSUME NEW f, IsScores(f), NEW A, NEW B, A \subseteq B, B \subseteq DOMAIN f
    PROVE  /\ IsFiniteSet(A) /\ IsFiniteSet(B)
           /\ Cardinality(A) \in Nat /\ Cardinality(B) \in Nat /\ Size(f) \in Nat
           /\ Cardinality(A) <= Cardinality(B) /\ Cardinality(B) <= Size(f)
<1>1. IsFiniteSet(DOMAIN f)
    BY DEF IsScores
<1>2. IsFiniteSet(B) /\ Cardinality(B) <= Size(f)
    BY <1>1, FS_Subset DEF Size
<1>3. IsFiniteSet(A) /\ Cardinality(A) <= Cardinality(B)
    BY <1>2, FS_Subset
<1> QED BY <1>1, <1>2, <1>3, FS_CardinalityType DEF Size

Below(f, t) == Cardinality({k \in DOMAIN f : f[k] < t})

LEMMA BelowGrows ==
    ASSUME NEW f, IsScores(f), NEW t \in Int, NEW u \in Int, t <= u
    PROVE  /\ Below(f, t) \in 0..Size(f) /\ Below(f, u) \in 0..Size(f)
           /\ Below(f, t) <= Below(f, u)
<1>1. /\ {k \in DOMAIN f : f[k] < t} \subseteq {k \in DOMAIN f : f[k] < u}
      /\ {k \in DOMAIN f : f[k] < u} \subseteq DOMAIN f
    BY DEF IsScores
<1> QED BY <1>1, Subsets DEF Below

\* Scores at the n-th place: fewer than n are below, n or more not above.
IsNth(f, n, v) ==
    /\ v \in Range(f)
    /\ Cardinality({k \in DOMAIN f : f[k] < v}) < n
    /\ n <= Cardinality({k \in DOMAIN f : f[k] <= v})

LEMMA NthExists ==
    ASSUME NEW f, IsScores(f), NEW n \in 1..Size(f)
    PROVE  \E v : IsNth(f, n, v)
<1>1. /\ Range(f) \subseteq Int /\ IsFiniteSet(Range(f)) /\ Range(f) # {}
      /\ \A k \in DOMAIN f : f[k] \in Range(f)
    BY ScoreSet DEF Range
<1>2. Size(f) \in Nat
    BY Counts
<1> DEFINE Enough == {v \in Range(f) : n <= Cardinality({k \in DOMAIN f : f[k] <= v})}
<1>3. Enough # {}
  <2>1. PICK high \in Range(f) : \A v \in Range(f) : v <= high
      BY <1>1, Extremes
  <2>2. {k \in DOMAIN f : f[k] <= high} = DOMAIN f
      BY <1>1, <2>1
  <2> QED BY <2>1, <2>2 DEF Size
<1>4. PICK v \in Enough : \A u \in Enough : v <= u
  <2>1. Enough \subseteq Int /\ IsFiniteSet(Enough)
      BY <1>1, FS_Subset
  <2> HIDE DEF Enough
  <2> QED BY <1>3, <2>1, Extremes
<1>5. Cardinality({k \in DOMAIN f : f[k] < v}) < n
  <2> DEFINE Lower == {u \in Range(f) : u < v}
  <2>1. CASE Lower = {}
    <3>1. {k \in DOMAIN f : f[k] < v} = {}
        BY <1>1, <2>1
    <3> QED BY <3>1, FS_EmptySet
  <2>2. CASE Lower # {}
    <3>1. Lower \subseteq Int /\ IsFiniteSet(Lower)
        BY <1>1, FS_Subset
    <3>2. PICK u \in Lower : \A x \in Lower : x <= u
      <4> HIDE DEF Lower
      <4> QED BY <2>2, <3>1, Extremes
    <3>3. {k \in DOMAIN f : f[k] < v} = {k \in DOMAIN f : f[k] <= u}
        BY <1>1, <3>2
    <3>4. u \notin Enough
        BY <1>1, <1>4, <3>2
    <3>5. Cardinality({k \in DOMAIN f : f[k] <= u}) \in Nat
        BY Subsets
    <3> QED BY <3>2, <3>3, <3>4, <3>5
  <2> QED BY <2>1, <2>2
<1> QED BY <1>4, <1>5 DEF IsNth

\* The n-th score is below a threshold exactly when n scores are.
LEMMA SortedCounts ==
    ASSUME NEW f, IsScores(f), NEW n \in 1..Size(f)
    PROVE  /\ Sorted(f)[n] \in Range(f) /\ Sorted(f)[n] \in Int
           /\ \A t \in Int : Sorted(f)[n] < t <=> n <= Below(f, t)
<1> DEFINE v == Sorted(f)[n]
<1>1. IsNth(f, n, v)
  <2>1. \E x \in Range(f) : /\ Cardinality({k \in DOMAIN f : f[k] < x}) < n
                            /\ n <= Cardinality({k \in DOMAIN f : f[k] <= x})
      BY NthExists DEF IsNth
  <2>2. v = CHOOSE x \in Range(f) : /\ Cardinality({k \in DOMAIN f : f[k] < x}) < n
                                    /\ n <= Cardinality({k \in DOMAIN f : f[k] <= x})
      BY DEF Sorted, HowMany
  <2> HIDE DEF v
  <2> QED BY <2>1, <2>2 DEF IsNth
<1> HIDE DEF v
<1>2. v \in Int /\ n \in Int
    BY <1>1, ScoreSet DEF IsNth
<1>3. ASSUME NEW t \in Int, v < t PROVE n <= Below(f, t)
  <2>1. /\ {k \in DOMAIN f : f[k] <= v} \subseteq {k \in DOMAIN f : f[k] < t}
        /\ {k \in DOMAIN f : f[k] < t} \subseteq DOMAIN f
      BY <1>2, <1>3 DEF IsScores
  <2> QED BY <1>1, <1>2, <2>1, Subsets DEF IsNth, Below
<1>4. ASSUME NEW t \in Int, t <= v PROVE ~(n <= Below(f, t))
  <2>1. Below(f, t) \in 0..Size(f) /\ Below(f, v) \in 0..Size(f)
        /\ Below(f, t) <= Below(f, v)
      BY <1>2, <1>4, BelowGrows
  <2>2. Below(f, v) < n /\ Size(f) \in Nat
      BY <1>1, Counts DEF IsNth, Below
  <2> QED BY <1>2, <2>1, <2>2
<1> QED BY <1>1, <1>2, <1>3, <1>4 DEF v, IsNth

LEMMA SortedLength ==
    ASSUME NEW f, IsScores(f)
    PROVE  Len(Sorted(f)) = Size(f) /\ DOMAIN Sorted(f) = 1..Size(f)
<1>1. Size(f) \in Nat
    BY Counts
<1>2. DOMAIN Sorted(f) = 1..Size(f)
    BY DEF Sorted
<1>3. Sorted(f) \in Seq(Int)
  <2> DEFINE nth(n) == CHOOSE v \in Range(f) : /\ HowMany(f, LAMBDA s : s < v) < n
                                              /\ n <= HowMany(f, LAMBDA s : s <= v)
  <2>1. Sorted(f) = [n \in 1..Size(f) |-> nth(n)]
      BY DEF Sorted
  <2> HIDE DEF nth
  <2>2. \A n \in 1..Size(f) : nth(n) \in Int
      BY <2>1, SortedCounts
  <2> QED BY <1>1, <2>1, <2>2
<1> QED BY <1>1, <1>2, <1>3

\* A cursor that has not passed the threshold is moved to the number of scores below it.
LEMMA AdvanceCounts ==
    ASSUME NEW f, IsScores(f), NEW t \in Int, NEW below \in Nat, below <= Below(f, t)
    PROVE  Advance(Sorted(f), below, t) = Below(f, t)
<1> DEFINE s == Sorted(f)
           b == Below(f, t)
<1>1. b \in Nat /\ Size(f) \in Nat /\ b <= Size(f) /\ below <= b
  <2>1. Size(f) \in Nat
      BY Counts
  <2>2. Below(f, t) \in 0..Size(f)
      BY BelowGrows
  <2> QED BY <2>1, <2>2
<1>2. Len(s) = Size(f) /\ \A n \in 1..Size(f) : s[n] < t <=> n <= b
    BY SortedLength, SortedCounts
<1> HIDE DEF s, b
<1>3. \A n \in below..Len(s) :
          (/\ \A i \in (below + 1)..n : s[i] < t
           /\ n = Len(s) \/ ~(s[n + 1] < t)) <=> n = b
  <2> SUFFICES ASSUME NEW n \in below..Len(s)
               PROVE  (/\ \A i \in (below + 1)..n : s[i] < t
                       /\ n = Len(s) \/ ~(s[n + 1] < t)) <=> n = b
      OBVIOUS
  <2>1. ASSUME \A i \in (below + 1)..n : s[i] < t PROVE n <= b
    <3>1. CASE n = below
        BY <1>1, <3>1
    <3>2. CASE n > below
      <4>1. n \in (below + 1)..n /\ n \in 1..Size(f)
          BY <1>1, <1>2, <3>2
      <4> QED BY <1>2, <2>1, <4>1
    <3> QED BY <1>1, <3>1, <3>2
  <2>2. ASSUME n = Len(s) \/ ~(s[n + 1] < t) PROVE b <= n
    <3>1. CASE n = Len(s)
        BY <1>1, <1>2, <3>1
    <3>2. CASE n # Len(s) /\ ~(s[n + 1] < t)
      <4>1. n + 1 \in 1..Size(f)
          BY <1>1, <1>2, <3>2
      <4> QED BY <1>1, <1>2, <3>2, <4>1
    <3> QED BY <2>2, <3>1, <3>2
  <2>3. ASSUME n = b
        PROVE  /\ \A i \in (below + 1)..n : s[i] < t
               /\ n = Len(s) \/ ~(s[n + 1] < t)
    <3>1. \A i \in (below + 1)..n : i \in 1..Size(f) /\ i <= b
        BY <1>1, <1>2, <2>3
    <3>2. n # Len(s) => n + 1 \in 1..Size(f) /\ ~(n + 1 <= b)
        BY <1>1, <1>2, <2>3
    <3> QED BY <1>2, <3>1, <3>2
  <2> QED BY <1>1, <2>1, <2>2, <2>3
<1>4. b \in below..Len(s)
    BY <1>1, <1>2
<1>5. (CHOOSE n \in below..Len(s) :
          /\ \A i \in (below + 1)..n : s[i] < t
          /\ n = Len(s) \/ ~(s[n + 1] < t)) = b
    BY <1>3, <1>4
<1> QED BY <1>5 DEF Advance, s, b

-----------------------------------------------------------------------------
(* The countermeasure                                                        *)

\* The scores of an accepted spoof manifest are probabilities of both classes.
IsProbabilities(f) == IsScores(f) /\ \A k \in DOMAIN f : f[k] \in 0..Top

LEMMA BothClassesPlayed ==
    ASSUME IsFiniteSet(DOMAIN spoofTrials), SpoofManifestOK(spoofTrials),
           NEW p \in Partitions, NEW label \in {"bonafide", "spoof"}
    PROVE  IsProbabilities(Probabilities(p, label))
<1> DEFINE f == Probabilities(p, label)
           D == {k \in DOMAIN spoofTrials : spoofTrials[k].partition = p
                                            /\ spoofTrials[k].label = label}
<1>1. DOMAIN f = D /\ \A k \in D : f[k] = spoofTrials[k].spoof_probability
    BY DEF Probabilities, SpoofTrials, RestrictValues, Restrict
<1>2. D # {}
  <2>1. label \in {t.label : t \in {x \in Range(spoofTrials) : x.partition = p}}
      BY DEF SpoofManifestOK, Partitions
  <2> QED BY <2>1 DEF Range
<1>3. \A k \in D : spoofTrials[k].spoof_probability \in 0..Top
    BY DEF SpoofManifestOK, Range
<1>4. IsFiniteSet(D)
    BY FS_Subset
<1>5. \A n \in 0..Top : n \in Int
    BY SpoofCostAssumption
<1> QED BY <1>1, <1>2, <1>3, <1>4, <1>5 DEF IsScores, IsProbabilities

\* A set of scores in order: each has its place.
InOrder(C, at) ==
    /\ Cardinality(C) \in Nat
    /\ \A n \in 1..Cardinality(C) : at[n] \in C
    /\ \A m, n \in 1..Cardinality(C) : m <= n => at[m] <= at[n]
    /\ \A c \in C : \E n \in 1..Cardinality(C) : at[n] = c

LEMMA SortedSet ==
    ASSUME NEW C, C \subseteq Int, C # {}, IsFiniteSet(C),
           NEW f, DOMAIN f = C, \A c \in C : f[c] = c
    PROVE  InOrder(C, Sorted(f))
<1> DEFINE at == Sorted(f)
           size == Cardinality(C)
<1>1. IsScores(f) /\ Size(f) = size /\ Range(f) = C
    BY DEF IsScores, Size, Range
<1>2. size \in Nat
    BY FS_CardinalityType
<1>3. \A n \in 1..size :
          at[n] \in C /\ at[n] \in Int /\ \A t \in Int : at[n] < t <=> n <= Below(f, t)
    BY <1>1, SortedCounts
<1>4. \A t \in Int : Below(f, t) \in 0..size
    BY <1>1, BelowGrows
<1> HIDE DEF at, size
<1>5. ASSUME NEW m \in 1..size, NEW n \in 1..size, m <= n
      PROVE  at[m] <= at[n]
  <2>1. at[m] \in Int /\ at[n] \in Int
      BY <1>3
  <2>2. Below(f, at[m]) \in Int
      BY <1>2, <1>4, <2>1
  <2>3. /\ at[m] < at[m] <=> m <= Below(f, at[m])
        /\ at[n] < at[m] <=> n <= Below(f, at[m])
      BY <1>3, <2>1
  <2> QED BY <1>2, <1>5, <2>1, <2>2, <2>3
<1>6. ASSUME NEW c \in C
      PROVE  \E n \in 1..size : at[n] = c
  <2> DEFINE A == {k \in C : f[k] < c}
             B == {k \in C : f[k] < c + 1}
             n == Below(f, c + 1)
  <2>1. c \in Int /\ c + 1 \in Int
      OBVIOUS
  <2>2. A \subseteq B /\ c \in B /\ c \notin A /\ B \subseteq C
    <3>1. \A k \in C : f[k] = k /\ k \in Int
        OBVIOUS
    <3>2. \A k : (k \in A <=> k \in C /\ k < c) /\ (k \in B <=> k \in C /\ k < c + 1)
        BY <3>1
    <3>3. c < c + 1 /\ ~(c < c) /\ \A k \in Int : k < c => k < c + 1
        BY <2>1
    <3> HIDE DEF A, B
    <3> QED BY <3>1, <3>2, <3>3
  <2>3. Below(f, c) = Cardinality(A) /\ n = Cardinality(B)
      BY DEF Below
  <2>4. n \in 0..size /\ Below(f, c) \in 0..size
      BY <1>4, <2>1
  <2> HIDE DEF A, B, n
  <2>5. IsFiniteSet(B) /\ A \subseteq B \ {c}
      BY <2>2, FS_Subset
  <2>6. Cardinality(B \ {c}) = Cardinality(B) - 1 /\ IsFiniteSet(B \ {c})
      BY <2>2, <2>5, FS_RemoveElement
  <2>7. Cardinality(A) <= Cardinality(B \ {c})
      BY <2>5, <2>6, FS_Subset
  <2>8. Below(f, c) <= n - 1
      BY <2>3, <2>6, <2>7
  <2>9. n \in 1..size
      BY <1>2, <2>4, <2>8
  <2>10. /\ at[n] \in Int
         /\ at[n] < c + 1 <=> n <= n
         /\ at[n] < c <=> n <= Below(f, c)
      BY <1>3, <2>1, <2>9 DEF n
  <2>11. at[n] = c
      BY <1>2, <2>1, <2>4, <2>8, <2>9, <2>10
  <2> QED BY <2>9, <2>11
<1> QED BY <1>2, <1>3, <1>5, <1>6 DEF at, size, InOrder

\* The thresholds of a sweep are its candidates in order, each in its place.
LEMMA SweptThresholds ==
    ASSUME NEW p, IsProbabilities(Probabilities(p, "bonafide")),
           IsProbabilities(Probabilities(p, "spoof"))
    PROVE  /\ Candidates(p) \subseteq 0..Top /\ Top \in Candidates(p)
           /\ IsFiniteSet(Candidates(p)) /\ InOrder(Candidates(p), Thresholds(p))
<1> DEFINE b == Probabilities(p, "bonafide")
           s == Probabilities(p, "spoof")
           C == Candidates(p)
<1>1. Top \in Nat
    BY SpoofCostAssumption
<1>2. /\ IsFiniteSet(Range(b)) /\ IsFiniteSet(Range(s))
      /\ Range(b) \subseteq 0..Top /\ Range(s) \subseteq 0..Top
  <2> HIDE DEF b, s
  <2>1. IsProbabilities(b) /\ IsProbabilities(s)
      BY DEF b, s
  <2> QED BY <2>1, ScoreSet DEF IsProbabilities, Range
<1>3. IsFiniteSet({0, Top})
  <2>1. {0, Top} \subseteq 0..Top /\ IsFiniteSet(0..Top)
      BY <1>1, FS_Interval
  <2> QED BY <2>1, FS_Subset
<1>4. C = {0, Top} \cup Range(b) \cup Range(s)
    BY DEF Candidates
<1> HIDE DEF b, s, C
<1>5. IsFiniteSet({0, Top} \cup Range(b))
    BY <1>2, <1>3, FS_Union
<1>6. IsFiniteSet(C)
    BY <1>2, <1>4, <1>5, FS_Union
<1>7. C \subseteq 0..Top /\ Top \in C /\ C \subseteq Int /\ C # {}
    BY <1>1, <1>2, <1>4
<1> DEFINE f == [c \in C |-> c]
<1>8. DOMAIN f = C /\ (\A c \in C : f[c] = c) /\ Thresholds(p) = Sorted(f)
    BY DEF Thresholds, C
<1> HIDE DEF f
<1>9. InOrder(C, Sorted(f))
    BY <1>6, <1>7, <1>8, SortedSet
<1> QED BY <1>6, <1>7, <1>8, <1>9 DEF C

Rated(p, t) == CountermeasureRates(Probabilities(p, "bonafide"), Probabilities(p, "spoof"), t)

LEMMA AtOrAbove ==
    ASSUME NEW f, IsScores(f), NEW t \in Int
    PROVE  Cardinality({k \in DOMAIN f : f[k] >= t}) = Size(f) - Below(f, t)
<1> DEFINE low == {k \in DOMAIN f : f[k] < t}
           high == {k \in DOMAIN f : f[k] >= t}
<1>1. high = DOMAIN f \ low /\ low = DOMAIN f \cap low /\ low \subseteq DOMAIN f
    BY DEF IsScores
<1>2. IsFiniteSet(low) /\ IsFiniteSet(DOMAIN f)
    BY <1>1, FS_Subset DEF IsScores
<1> HIDE DEF low, high
<1>3. Cardinality(high) = Cardinality(DOMAIN f) - Cardinality(DOMAIN f \cap low)
    BY <1>1, <1>2, FS_Difference
<1> QED BY <1>1, <1>3 DEF low, high, Size, Below

\* The point recorded for a threshold when the cursors count the scores below it.
LEMMA PointRates ==
    ASSUME NEW b, NEW s, IsScores(b), IsScores(s), NEW t \in Int
    PROVE  [threshold |-> t,
            bonafide_rejects |-> Size(Sorted(b)) - Below(b, t), spoof_accepts |-> Below(s, t),
            bonafide_trials |-> Size(Sorted(b)), spoof_trials |-> Size(Sorted(s))]
               = CountermeasureRates(b, s, t)
<1>1. Size(Sorted(b)) = Size(b) /\ Size(Sorted(s)) = Size(s)
  <2>1. ASSUME NEW f, IsScores(f) PROVE Size(Sorted(f)) = Size(f)
    <3>1. Size(f) \in Nat /\ DOMAIN Sorted(f) = 1..Size(f)
        BY <2>1, Counts, SortedLength
    <3>2. Cardinality(1..Size(f)) = Size(f)
        BY <3>1, FS_Interval
    <3> QED BY <3>1, <3>2 DEF Size
  <2> QED BY <2>1
<1>2. /\ Cardinality({k \in DOMAIN b : b[k] >= t}) = Size(b) - Below(b, t)
      /\ Cardinality({k \in DOMAIN s : s[k] < t}) = Below(s, t)
    BY AtOrAbove DEF Below
<1> QED BY <1>1, <1>2 DEF CountermeasureRates, HowMany

-----------------------------------------------------------------------------
(* The sweep                                                                 *)

Complete(p) == Len(swept[p]) = Cardinality(Candidates(p))

\* The points of the first thresholds, in order.
SweptInOrder(p) ==
    /\ swept[p] \in Seq({Rated(p, c) : c \in Candidates(p)})
    /\ \A n \in DOMAIN swept[p] : swept[p][n] = Rated(p, Thresholds(p)[n])

\* The cursors have not passed a threshold that is still to come.
CursorsBehind ==
    \A n \in (Len(swept[part]) + 1)..Cardinality(Candidates(part)) :
        /\ bonafideBelow <= Below(Probabilities(part, "bonafide"), Thresholds(part)[n])
        /\ spoofBelow <= Below(Probabilities(part, "spoof"), Thresholds(part)[n])

\* The report takes the best points of each sweep, and the threshold of the first.
ReportedFromSweep ==
    LET development == spoofReport["development"]
        evaluation == spoofReport["evaluation"]
    IN  /\ development.locked = Rated("development", SelectedThreshold)
        /\ development.minimum_cost = MinimumCountermeasureCost(swept["development"])
        /\ development.observed_eer = CountermeasureEer(swept["development"])
        /\ evaluation.minimum_cost = MinimumCountermeasureCost(swept["evaluation"])
        /\ evaluation.observed_eer = CountermeasureEer(swept["evaluation"])

SweepInv ==
    /\ IsFiniteSet(DOMAIN spoofTrials)
    /\ part \in Partitions /\ bonafideBelow \in Nat /\ spoofBelow \in Nat
    /\ DOMAIN swept = Partitions
    /\ \A p \in Partitions : SweptInOrder(p)
    /\ stage \in {"sweep", "report", "done"} => SpoofManifestOK(spoofTrials)
    /\ stage \in {"off", "load", "invalid"} =>
           /\ swept["development"] = <<>> /\ swept["evaluation"] = <<>>
           /\ part = "development" /\ bonafideBelow = 0 /\ spoofBelow = 0
    /\ stage = "sweep" =>
           /\ CursorsBehind
           /\ Len(swept[part]) <= Cardinality(Candidates(part))
           /\ IF part = "development" THEN swept["evaluation"] = <<>>
                                      ELSE Complete("development")
    /\ stage \in {"report", "done"} => Complete("development") /\ Complete("evaluation")
    /\ stage = "done" => ReportedFromSweep

LEMMA Frozen ==
    ASSUME spoofTrials' = spoofTrials, NEW p
    PROVE  /\ Probabilities(p, "bonafide")' = Probabilities(p, "bonafide")
           /\ Probabilities(p, "spoof")' = Probabilities(p, "spoof")
           /\ Candidates(p)' = Candidates(p)
           /\ Thresholds(p)' = Thresholds(p)
           /\ SpoofManifestOK(spoofTrials)' <=> SpoofManifestOK(spoofTrials)
           /\ \A t : Rated(p, t)' = Rated(p, t)
<1>1. \A label : Probabilities(p, label)' = Probabilities(p, label)
    BY DEF Probabilities, SpoofTrials, RestrictValues, Restrict
<1>2. Candidates(p)' = Candidates(p)
    BY <1>1 DEF Candidates
<1> QED BY <1>1, <1>2 DEF Thresholds, Rated

\* What the lemmas say of the partition being swept, under names of its own.
LEMMA PartitionFacts ==
    ASSUME IsFiniteSet(DOMAIN spoofTrials), SpoofManifestOK(spoofTrials), NEW p \in Partitions
    PROVE  /\ IsProbabilities(Probabilities(p, "bonafide"))
           /\ IsProbabilities(Probabilities(p, "spoof"))
           /\ Candidates(p) \subseteq 0..Top /\ Top \in Candidates(p)
           /\ IsFiniteSet(Candidates(p)) /\ InOrder(Candidates(p), Thresholds(p))
BY BothClassesPlayed, SweptThresholds

LEMMA SweepsOn ==
    ASSUME SweepInv, SweepThreshold
    PROVE  SweepInv'
<1> DEFINE C == Candidates(part)
           T == Thresholds(part)
           b == Probabilities(part, "bonafide")
           s == Probabilities(part, "spoof")
           old == swept[part]
           m == Len(old) + 1
           t == T[m]
           point == [threshold |-> t,
                     bonafide_rejects |-> Size(Sorted(b)) - bonafideBelow',
                     spoof_accepts |-> spoofBelow',
                     bonafide_trials |-> Size(Sorted(b)), spoof_trials |-> Size(Sorted(s))]
<1>1. /\ stage = "sweep" /\ Len(old) < Cardinality(C)
      /\ bonafideBelow' = Advance(Sorted(b), bonafideBelow, t)
      /\ spoofBelow' = Advance(Sorted(s), spoofBelow, t)
      /\ swept' = [swept EXCEPT ![part] = Append(old, point)]
      /\ UNCHANGED <<spoofTrials, asv, stage, part, spoofReport>>
    BY DEF SweepThreshold
<1>2. /\ SpoofManifestOK(spoofTrials) /\ part \in Partitions /\ IsFiniteSet(DOMAIN spoofTrials)
      /\ bonafideBelow \in Nat /\ spoofBelow \in Nat
      /\ old \in Seq({Rated(part, c) : c \in C}) /\ DOMAIN swept = Partitions
      /\ \A n \in DOMAIN old : old[n] = Rated(part, T[n])
    BY <1>1 DEF SweepInv, SweptInOrder
<1>3. IsScores(b) /\ IsScores(s) /\ C \subseteq 0..Top /\ InOrder(C, T)
    BY <1>2, PartitionFacts DEF IsProbabilities
<1>4. \A n \in m..Cardinality(C) :
          bonafideBelow <= Below(b, T[n]) /\ spoofBelow <= Below(s, T[n])
    BY <1>1 DEF SweepInv, CursorsBehind
<1>5. \A q \in Partitions : \A c : Rated(q, c)' = Rated(q, c)
    BY <1>1, Frozen
<1>6. Rated(part, t) = CountermeasureRates(b, s, t)
    BY DEF Rated
<1> HIDE DEF C, T, b, s, old
<1>7. Cardinality(C) \in Nat /\ Len(old) \in Nat /\ DOMAIN old = 1..Len(old)
    BY <1>2, <1>3 DEF InOrder
<1>8. m \in 1..Cardinality(C) /\ m \in m..Cardinality(C)
    BY <1>1, <1>7
<1>9. /\ \A n \in 1..Cardinality(C) : T[n] \in C /\ T[n] \in Int
      /\ \A n \in m..Cardinality(C) : n \in 1..Cardinality(C) /\ t <= T[n]
  <2>1. \A n \in 1..Cardinality(C) : T[n] \in C
      BY <1>3 DEF InOrder
  <2>2. \A c \in C : c \in Int
      BY <1>3, SpoofCostAssumption
  <2>3. \A n \in m..Cardinality(C) : m <= n /\ n \in 1..Cardinality(C)
      BY <1>7, <1>8
  <2>4. \A n \in m..Cardinality(C) : T[m] <= T[n]
      BY <1>3, <1>8, <2>3 DEF InOrder
  <2> QED BY <2>1, <2>2, <2>3, <2>4
<1>10. t \in Int /\ t \in C
    BY <1>8, <1>9
<1>11. bonafideBelow' = Below(b, t) /\ spoofBelow' = Below(s, t)
  <2> HIDE DEF t
  <2>1. bonafideBelow <= Below(b, t) /\ spoofBelow <= Below(s, t)
      BY <1>4, <1>8 DEF t
  <2> QED BY <1>1, <1>2, <1>3, <1>10, <2>1, AdvanceCounts
<1>12. point = Rated(part, t)
  <2> HIDE DEF t
  <2> QED BY <1>3, <1>6, <1>10, <1>11, PointRates
<1> HIDE DEF point
<1>13. /\ bonafideBelow' \in Nat /\ spoofBelow' \in Nat
       /\ \A n \in m..Cardinality(C) : /\ bonafideBelow' <= Below(b, T[n])
                                       /\ spoofBelow' <= Below(s, T[n])
  <2> HIDE DEF t
  <2>1. Size(b) \in Nat /\ Size(s) \in Nat
      BY <1>3, Counts
  <2>2. Below(b, t) \in 0..Size(b) /\ Below(s, t) \in 0..Size(s)
      BY <1>3, <1>10, BelowGrows
  <2> QED BY <1>3, <1>9, <1>10, <1>11, <2>1, <2>2, BelowGrows
<1>14. /\ swept'[part] = Append(old, point) /\ DOMAIN swept' = Partitions
       /\ \A q \in Partitions : q # part => swept'[q] = swept[q]
    BY <1>1, <1>2 DEF old
<1>15. /\ swept'[part] \in Seq({Rated(part, c) : c \in C})
       /\ Len(swept'[part]) = m
       /\ \A n \in DOMAIN swept'[part] : swept'[part][n] = Rated(part, T[n])
  <2> DEFINE Points == {Rated(part, c) : c \in C}
  <2>1. point \in Points
      BY <1>10, <1>12
  <2> HIDE DEF Points
  <2>2. old \in Seq(Points)
      BY <1>2 DEF Points
  <2>3. Append(old, point) \in Seq(Points) /\ Len(Append(old, point)) = m
      BY <2>1, <2>2
  <2>4. \A n \in 1..m : Append(old, point)[n] = Rated(part, T[n])
    <3> TAKE n \in 1..m
    <3>1. CASE n = m
        BY <1>12, <2>2, <3>1, SequenceFacts
    <3>2. CASE n \in 1..Len(old)
        BY <1>2, <1>7, <2>2, <3>2, SequenceFacts
    <3> QED BY <1>7, <3>1, <3>2
  <2> QED BY <1>14, <2>3, <2>4 DEF Points
<1>16. SweptInOrder(part)'
  <2>1. /\ Candidates(part)' = C /\ Thresholds(part)' = T
        /\ Probabilities(part, "bonafide")' = b /\ Probabilities(part, "spoof")' = s
        /\ \A c : Rated(part, c)' = Rated(part, c)
      BY <1>1, Frozen DEF C, T, b, s
  <2>2. {Rated(part, c) : c \in Candidates(part)}' = {Rated(part, c) : c \in C}
      BY <2>1
  <2>3. (\A n \in DOMAIN swept[part] : swept[part][n] = Rated(part, Thresholds(part)[n]))'
    <3>1. part' = part
        BY <1>1
    <3> QED BY <1>15, <2>1, <3>1 DEF Rated, b, s
  <2> QED BY <1>1, <1>15, <2>2, <2>3 DEF SweptInOrder
<1>17. ASSUME NEW q \in Partitions, q # part PROVE SweptInOrder(q)'
  <2>1. /\ Candidates(q)' = Candidates(q) /\ Thresholds(q)' = Thresholds(q)
        /\ \A c : Rated(q, c)' = Rated(q, c)
      BY <1>1, Frozen
  <2>2. swept'[q] = swept[q] /\ SweptInOrder(q)
      BY <1>14, <1>17 DEF SweepInv
  <2>3. {Rated(q, c) : c \in Candidates(q)}' = {Rated(q, c) : c \in Candidates(q)}
      BY <2>1
  <2> QED BY <2>1, <2>2, <2>3 DEF SweptInOrder
<1>18. CursorsBehind' /\ (Len(swept[part]) <= Cardinality(Candidates(part)))'
  <2>1. /\ Candidates(part)' = C /\ Thresholds(part)' = T
        /\ Probabilities(part, "bonafide")' = b /\ Probabilities(part, "spoof")' = s
      BY <1>1, Frozen DEF C, T, b, s
  <2>2. \A n \in (m + 1)..Cardinality(C) : n \in m..Cardinality(C)
      BY <1>7
  <2>3. \A n \in (m + 1)..Cardinality(C) :
            bonafideBelow' <= Below(b, T[n]) /\ spoofBelow' <= Below(s, T[n])
      BY <1>13, <2>2
  <2> QED BY <1>1, <1>8, <1>15, <2>1, <2>3 DEF CursorsBehind
<1>19. IF part = "development" THEN swept'["evaluation"] = <<>> ELSE Complete("development")'
  <2>1. CASE part = "development"
      BY <1>1, <1>14, <2>1 DEF SweepInv, Partitions
  <2>2. CASE part # "development"
      BY <1>1, <1>14, <2>2, Frozen DEF SweepInv, Partitions, Complete
  <2> QED BY <2>1, <2>2
<1>20. IsFiniteSet(DOMAIN spoofTrials') /\ SpoofManifestOK(spoofTrials)'
    BY <1>1, <1>2, Frozen
<1> QED BY <1>1, <1>2, <1>13, <1>14, <1>16, <1>17, <1>18, <1>19, <1>20 DEF SweepInv

\* A step that leaves the manifest and the points alone.
LEMMA SweptStays ==
    ASSUME UNCHANGED <<spoofTrials, swept>>, NEW q, SweptInOrder(q)
    PROVE  SweptInOrder(q)' /\ (Complete(q)' <=> Complete(q))
<1>1. /\ Candidates(q)' = Candidates(q) /\ Thresholds(q)' = Thresholds(q)
      /\ \A c : Rated(q, c)' = Rated(q, c)
    BY Frozen
<1>2. {Rated(q, c) : c \in Candidates(q)}' = {Rated(q, c) : c \in Candidates(q)}
    BY <1>1
<1> QED BY <1>1, <1>2 DEF SweptInOrder, Complete

\* A new sweep begins with its cursors at 0.
LEMMA CursorsAtZero ==
    ASSUME IsFiniteSet(DOMAIN spoofTrials), SpoofManifestOK(spoofTrials), NEW p \in Partitions
    PROVE  /\ Cardinality(Candidates(p)) \in Nat
           /\ \A n \in 1..Cardinality(Candidates(p)) :
                  /\ 0 <= Below(Probabilities(p, "bonafide"), Thresholds(p)[n])
                  /\ 0 <= Below(Probabilities(p, "spoof"), Thresholds(p)[n])
<1> DEFINE b == Probabilities(p, "bonafide")
           s == Probabilities(p, "spoof")
           T == Thresholds(p)
           C == Candidates(p)
<1>1. /\ IsScores(b) /\ IsScores(s)
      /\ C \subseteq 0..Top /\ Cardinality(C) \in Nat /\ \A n \in 1..Cardinality(C) : T[n] \in C
    BY PartitionFacts DEF IsProbabilities, InOrder
<1> HIDE DEF b, s, T, C
<1>2. \A n \in 1..Cardinality(C) : T[n] \in Int
  <2>1. \A c \in C : c \in Int
      BY <1>1, SpoofCostAssumption
  <2> QED BY <1>1, <2>1
<1>3. \A t \in Int : Below(b, t) \in 0..Size(b) /\ Below(s, t) \in 0..Size(s)
    BY <1>1, BelowGrows
<1> QED BY <1>1, <1>2, <1>3 DEF b, s, T, C

LEMMA SweepInit ==
    ASSUME StudyInit PROVE SweepInv
<1>1. /\ stage \in {"off", "load"} /\ part = "development"
      /\ bonafideBelow = 0 /\ spoofBelow = 0
      /\ swept = [p \in {"development", "evaluation"} |-> <<>>]
    BY DEF StudyInit, SpoofInit
<1>2. spoofTrials = <<>> \/ spoofTrials \in SpoofManifests
    BY DEF StudyInit, SpoofInit
<1>3. IsFiniteSet(DOMAIN spoofTrials)
  <2>1. \E S : spoofTrials \in Seq(S)
    <3>1. <<>> \in Seq({})
        OBVIOUS
    <3> QED BY <1>2, <3>1, StudyAssumption
  <2> QED BY <2>1, SequenceFacts
<1>4. \A p \in Partitions : SweptInOrder(p)
    BY <1>1 DEF Partitions, SweptInOrder
<1> QED BY <1>1, <1>3, <1>4 DEF SweepInv, Partitions

LEMMA ReportStays ==
    ASSUME UNCHANGED <<spoofTrials, swept, spoofReport>>
    PROVE  ReportedFromSweep' <=> ReportedFromSweep
<1>1. SelectedThreshold' = SelectedThreshold
    BY DEF SelectedThreshold
<1>2. Rated("development", SelectedThreshold)' = Rated("development", SelectedThreshold)
    BY <1>1, Frozen DEF Rated
<1> QED BY <1>2 DEF ReportedFromSweep

LEMMA SweepStep ==
    ASSUME SweepInv, [StudyNext]_studyVars
    PROVE  SweepInv'
<1>1. CASE UNCHANGED spoofVars
  <2>1. /\ UNCHANGED <<spoofTrials, swept, stage, part, bonafideBelow, spoofBelow, spoofReport>>
        /\ \A q : SweptInOrder(q) => SweptInOrder(q)' /\ (Complete(q)' <=> Complete(q))
      BY <1>1, SweptStays DEF spoofVars
  <2>2. CursorsBehind' <=> CursorsBehind
    <3>1. \A p : /\ Candidates(p)' = Candidates(p) /\ Thresholds(p)' = Thresholds(p)
                 /\ Probabilities(p, "bonafide")' = Probabilities(p, "bonafide")
                 /\ Probabilities(p, "spoof")' = Probabilities(p, "spoof")
        BY <2>1, Frozen
    <3> QED BY <2>1, <3>1 DEF CursorsBehind
  <2>3. ReportedFromSweep' <=> ReportedFromSweep
      BY <2>1, ReportStays
  <2>4. SpoofManifestOK(spoofTrials)' <=> SpoofManifestOK(spoofTrials)
      BY <2>1, Frozen
  <2>5. /\ Complete("development")' <=> Complete("development")
        /\ Complete("evaluation")' <=> Complete("evaluation")
        /\ \A q \in Partitions : SweptInOrder(q)'
      BY <2>1 DEF SweepInv, Partitions
  <2>6. Candidates(part)' = Candidates(part)
      BY <2>1, Frozen
  <2> QED BY <2>1, <2>2, <2>3, <2>4, <2>5, <2>6 DEF SweepInv
<1>2. CASE LoadSpoofScores
  <2>1. /\ stage = "load" /\ stage' \in {"sweep", "invalid"}
        /\ stage' = "sweep" => SpoofManifestOK(spoofTrials)
        /\ UNCHANGED <<spoofTrials, part, bonafideBelow, spoofBelow, swept>>
      BY <1>2 DEF LoadSpoofScores
  <2>2. /\ part = "development" /\ bonafideBelow = 0 /\ spoofBelow = 0
        /\ swept["development"] = <<>> /\ swept["evaluation"] = <<>>
      BY <2>1 DEF SweepInv
  <2>3. \A q \in Partitions : SweptInOrder(q)'
      BY <2>1, SweptStays DEF SweepInv
  <2>4. stage' = "sweep" => CursorsBehind' /\ (Len(swept[part]) <= Cardinality(Candidates(part)))'
    <3> SUFFICES ASSUME SpoofManifestOK(spoofTrials)
                 PROVE  CursorsBehind' /\ (Len(swept[part]) <= Cardinality(Candidates(part)))'
        BY <2>1
    <3>1. /\ Cardinality(Candidates(part)) \in Nat
          /\ \A n \in 1..Cardinality(Candidates(part)) :
                 /\ 0 <= Below(Probabilities(part, "bonafide"), Thresholds(part)[n])
                 /\ 0 <= Below(Probabilities(part, "spoof"), Thresholds(part)[n])
        BY CursorsAtZero DEF SweepInv
    <3>2. /\ Candidates(part)' = Candidates(part) /\ Thresholds(part)' = Thresholds(part)
          /\ Probabilities(part, "bonafide")' = Probabilities(part, "bonafide")
          /\ Probabilities(part, "spoof")' = Probabilities(part, "spoof")
        BY <2>1, Frozen
    <3>3. Len(swept[part]) = 0
        BY <2>2
    <3> QED BY <2>1, <2>2, <3>1, <3>2, <3>3 DEF CursorsBehind
  <2>5. stage' = "sweep" => SpoofManifestOK(spoofTrials)'
      BY <2>1, Frozen
  <2> QED BY <2>1, <2>2, <2>3, <2>4, <2>5 DEF SweepInv
<1>3. CASE SweepThreshold
    BY <1>3, SweepsOn
<1>4. CASE SweepEnds
  <2>1. /\ stage = "sweep" /\ Len(swept[part]) = Cardinality(Candidates(part))
        /\ bonafideBelow' = 0 /\ spoofBelow' = 0
        /\ UNCHANGED <<spoofTrials, swept, spoofReport>>
        /\ \/ part = "development" /\ part' = "evaluation" /\ stage' = stage
           \/ part # "development" /\ part' = part /\ stage' = "report"
      BY <1>4 DEF SweepEnds
  <2>2. \A q \in Partitions : SweptInOrder(q)' /\ (Complete(q)' <=> Complete(q))
      BY <2>1, SweptStays DEF SweepInv
  <2>3. CASE part = "development"
    <3>1. Complete("development") /\ swept["evaluation"] = <<>>
        BY <2>1, <2>3 DEF SweepInv, Complete
    <3>2. CursorsBehind' /\ (Len(swept[part]) <= Cardinality(Candidates(part)))'
      <4>1. /\ Cardinality(Candidates("evaluation")) \in Nat
            /\ \A n \in 1..Cardinality(Candidates("evaluation")) :
                 /\ 0 <= Below(Probabilities("evaluation", "bonafide"),
                               Thresholds("evaluation")[n])
                 /\ 0 <= Below(Probabilities("evaluation", "spoof"),
                               Thresholds("evaluation")[n])
          BY <2>1, CursorsAtZero DEF SweepInv, Partitions
      <4>2. /\ Candidates("evaluation")' = Candidates("evaluation")
            /\ Thresholds("evaluation")' = Thresholds("evaluation")
            /\ Probabilities("evaluation", "bonafide")' = Probabilities("evaluation", "bonafide")
            /\ Probabilities("evaluation", "spoof")' = Probabilities("evaluation", "spoof")
          BY <2>1, Frozen
      <4>3. part' = "evaluation" /\ Len(swept'["evaluation"]) = 0
          BY <2>1, <2>3, <3>1
      <4> QED BY <2>1, <4>1, <4>2, <4>3 DEF CursorsBehind
    <3> QED BY <2>1, <2>2, <2>3, <3>1, <3>2, Frozen DEF SweepInv, Partitions
  <2>4. CASE part # "development"
    <3>1. part = "evaluation" /\ Complete("development") /\ Complete("evaluation")
        BY <2>1, <2>4 DEF SweepInv, Complete, Partitions
    <3> QED BY <2>1, <2>2, <2>4, <3>1, Frozen DEF SweepInv, Partitions
  <2> QED BY <2>3, <2>4
<1>5. CASE ReportSpoof
  <2>1. /\ stage = "report" /\ stage' = "done"
        /\ UNCHANGED <<spoofTrials, part, bonafideBelow, spoofBelow, swept>>
        /\ spoofReport'["development"]
               = EvaluateSpoofPartition("development", SelectedThreshold)
        /\ spoofReport'["evaluation"]
               = EvaluateSpoofPartition("evaluation", SelectedThreshold)
      BY <1>5 DEF ReportSpoof
  <2>2. \A q \in Partitions : SweptInOrder(q)' /\ (Complete(q)' <=> Complete(q))
      BY <2>1, SweptStays DEF SweepInv
  <2>3. Complete("development") /\ Complete("evaluation")
      BY <2>1 DEF SweepInv
  <2>4. ReportedFromSweep'
    <3>1. SelectedThreshold' = SelectedThreshold
        BY <2>1 DEF SelectedThreshold
    <3>2. Rated("development", SelectedThreshold)' = Rated("development", SelectedThreshold)
        BY <2>1, <3>1, Frozen DEF Rated
    <3>3. /\ spoofReport'["development"].locked = Rated("development", SelectedThreshold)
          /\ spoofReport'["development"].minimum_cost
                 = MinimumCountermeasureCost(swept["development"])
          /\ spoofReport'["development"].observed_eer = CountermeasureEer(swept["development"])
          /\ spoofReport'["evaluation"].minimum_cost
                 = MinimumCountermeasureCost(swept["evaluation"])
          /\ spoofReport'["evaluation"].observed_eer = CountermeasureEer(swept["evaluation"])
        BY <2>1 DEF EvaluateSpoofPartition, Rated
    <3> QED BY <2>1, <3>2, <3>3 DEF ReportedFromSweep
  <2> QED BY <2>1, <2>2, <2>3, <2>4, Frozen DEF SweepInv, Partitions
<1>6. StudyNext => UNCHANGED spoofVars \/ SpoofNext
    BY DEF StudyNext
<1> QED BY <1>1, <1>2, <1>3, <1>4, <1>5, <1>6 DEF SpoofNext, studyVars

\* The cursors count, for every threshold of a sweep, what the public rule counts.
THEOREM SweepAlwaysMatchesRates == StudySpec => []SweepMatchesRates
<1>1. ASSUME SweepInv PROVE SweepMatchesRates
  <2> SUFFICES ASSUME NEW p \in Partitions, NEW i \in DOMAIN swept[p]
               PROVE  swept[p][i] = Rated(p, swept[p][i].threshold)
      BY DEF SweepMatchesRates, Rated
  <2>1. swept[p][i] = Rated(p, Thresholds(p)[i])
      BY <1>1 DEF SweepInv, SweptInOrder
  <2>2. \A t : Rated(p, t).threshold = t
      BY DEF Rated, CountermeasureRates
  <2> QED BY <2>1, <2>2
<1> QED BY <1>1, SweepInit, SweepStep, PTL DEF StudySpec

-----------------------------------------------------------------------------
(* The choice of the countermeasure threshold                                *)

\* Any threshold decides as the first candidate that is not below it.
LEMMA CandidateDecides ==
    ASSUME IsFiniteSet(DOMAIN spoofTrials), SpoofManifestOK(spoofTrials),
           NEW p \in Partitions, NEW t \in 0..Top
    PROVE  \E c \in Candidates(p) :
               /\ CountermeasureCost(Rated(p, c)) = CountermeasureCost(Rated(p, t))
               /\ SpoofGap(Rated(p, c)) = SpoofGap(Rated(p, t))
<1> DEFINE b == Probabilities(p, "bonafide")
           s == Probabilities(p, "spoof")
           C == Candidates(p)
           above == {x \in C : t <= x}
<1>1. /\ IsScores(b) /\ IsScores(s)
      /\ C \subseteq 0..Top /\ Top \in C /\ IsFiniteSet(C)
      /\ \A k \in DOMAIN b : b[k] \in C
      /\ \A k \in DOMAIN s : s[k] \in C
    BY PartitionFacts DEF IsProbabilities, Candidates, Range
<1>2. \A c \in C : c \in Int
    BY <1>1, SpoofCostAssumption
<1>3. t \in Int /\ t <= Top
    BY SpoofCostAssumption
<1>4. Rated(p, t) = CountermeasureRates(b, s, t)
      /\ \A c : Rated(p, c) = CountermeasureRates(b, s, c)
    BY DEF Rated
<1> HIDE DEF b, s, C
<1>5. PICK c \in above : \A x \in above : c <= x
  <2>1. above \subseteq Int /\ IsFiniteSet(above) /\ above # {}
      BY <1>1, <1>2, <1>3, FS_Subset
  <2> HIDE DEF above
  <2> QED BY <2>1, Extremes
<1>6. \A x \in C : x < t <=> x < c
    BY <1>2, <1>3, <1>5
<1>7. /\ {k \in DOMAIN s : s[k] < t} = {k \in DOMAIN s : s[k] < c}
      /\ {k \in DOMAIN b : b[k] >= t} = {k \in DOMAIN b : b[k] >= c}
  <2>1. \A x \in C : x >= t <=> x >= c
      BY <1>2, <1>3, <1>5, <1>6
  <2> QED BY <1>1, <1>6, <2>1
<1> DEFINE q == CountermeasureRates(b, s, c)
           r == CountermeasureRates(b, s, t)
<1>8. /\ q.bonafide_rejects = r.bonafide_rejects /\ q.spoof_accepts = r.spoof_accepts
      /\ q.bonafide_trials = r.bonafide_trials /\ q.spoof_trials = r.spoof_trials
    BY <1>7 DEF CountermeasureRates, HowMany
<1> HIDE DEF q, r
<1>9. CountermeasureCost(q) = CountermeasureCost(r) /\ SpoofGap(q) = SpoofGap(r)
    BY <1>8 DEF CountermeasureCost, SpoofGap
<1>10. Rated(p, t) = r /\ Rated(p, c) = q /\ c \in C
    BY <1>4, <1>5 DEF q, r
<1> QED BY <1>9, <1>10 DEF C

LEMMA RatedNumbers ==
    ASSUME NEW b, NEW s, IsScores(b), IsScores(s), NEW t
    PROVE  LET r == CountermeasureRates(b, s, t)
           IN  /\ r.threshold = t /\ r.spoof_accepts \in Nat /\ r.bonafide_rejects \in Nat
               /\ CountermeasureCost(r) \in Nat /\ SpoofGap(r) \in Nat /\ SpoofBalance(r) \in Nat
<1> DEFINE r == CountermeasureRates(b, s, t)
<1>1. /\ r.threshold = t
      /\ r.bonafide_rejects \in Nat /\ r.spoof_accepts \in Nat
      /\ r.bonafide_trials \in Nat /\ r.spoof_trials \in Nat
  <2>1. /\ Size(b) \in Nat /\ Cardinality({k \in DOMAIN b : b[k] >= t}) \in 0..Size(b)
        /\ Size(s) \in Nat /\ Cardinality({k \in DOMAIN s : s[k] < t}) \in 0..Size(s)
      BY Counts
  <2> QED BY <2>1 DEF CountermeasureRates, HowMany
<1> HIDE DEF r
<1>2. \A x, y \in Nat : x * y \in Nat
    OBVIOUS
<1>3. /\ r.bonafide_rejects * r.spoof_trials \in Nat
      /\ r.spoof_accepts * r.bonafide_trials \in Nat
    BY <1>1, <1>2
<1>4. SpoofGap(r) \in Nat /\ SpoofBalance(r) \in Nat
    BY <1>3 DEF SpoofGap, SpoofBalance, Magnitude
<1>5. /\ BonafideRejectWeight * r.bonafide_rejects * r.spoof_trials \in Nat
      /\ SpoofAcceptWeight * r.spoof_accepts * r.bonafide_trials \in Nat
  <2>1. BonafideRejectWeight \in Nat /\ SpoofAcceptWeight \in Nat
      BY SpoofCostAssumption
  <2> QED BY <1>1, <1>2, <2>1
<1>6. CountermeasureCost(r) \in Nat
    BY <1>5 DEF CountermeasureCost
<1> QED BY <1>1, <1>4, <1>6 DEF r

\* The points of a completed sweep are the rates at all the candidates.
LEMMA SweptPoints ==
    ASSUME SweepInv, NEW p \in Partitions, Complete(p), SpoofManifestOK(spoofTrials)
    PROVE  /\ Range(swept[p]) # {}
           /\ \A c \in Candidates(p) : Rated(p, c) \in Range(swept[p])
           /\ \A r \in Range(swept[p]) :
                  /\ r.threshold \in 0..Top /\ r = Rated(p, r.threshold)
                  /\ r.spoof_accepts \in Nat /\ r.bonafide_rejects \in Nat /\ r.threshold \in Nat
                  /\ CountermeasureCost(r) \in Nat /\ SpoofGap(r) \in Nat /\ SpoofBalance(r) \in Nat
<1> DEFINE C == Candidates(p)
           T == Thresholds(p)
<1>1. /\ IsScores(Probabilities(p, "bonafide")) /\ IsScores(Probabilities(p, "spoof"))
      /\ C \subseteq 0..Top /\ Top \in C /\ InOrder(C, T)
    BY PartitionFacts DEF SweepInv, IsProbabilities
<1>2. /\ \E S : swept[p] \in Seq(S)
      /\ Len(swept[p]) = Cardinality(C)
      /\ \A n \in DOMAIN swept[p] : swept[p][n] = Rated(p, T[n])
    BY DEF SweepInv, SweptInOrder, Complete
<1>3. DOMAIN swept[p] = 1..Cardinality(C)
    BY <1>2
<1> HIDE DEF C, T
<1>4. ASSUME NEW c \in C PROVE Rated(p, c) \in Range(swept[p])
  <2>1. PICK n \in 1..Cardinality(C) : T[n] = c
      BY <1>1 DEF InOrder
  <2> QED BY <1>2, <1>3, <2>1 DEF Range
<1>5. ASSUME NEW r \in Range(swept[p])
      PROVE  /\ r.threshold \in 0..Top /\ r = Rated(p, r.threshold)
             /\ r.spoof_accepts \in Nat /\ r.bonafide_rejects \in Nat /\ r.threshold \in Nat
             /\ CountermeasureCost(r) \in Nat /\ SpoofGap(r) \in Nat /\ SpoofBalance(r) \in Nat
  <2>1. PICK n \in 1..Cardinality(C) : r = Rated(p, T[n])
      BY <1>2, <1>3 DEF Range
  <2>2. T[n] \in 0..Top /\ T[n] \in Nat
    <3>1. T[n] \in C
        BY <1>1 DEF InOrder
    <3>2. \A k \in 0..Top : k \in Nat
        BY SpoofCostAssumption
    <3> QED BY <1>1, <3>1, <3>2
  <2>3. /\ r.threshold = T[n] /\ r.spoof_accepts \in Nat /\ r.bonafide_rejects \in Nat
        /\ CountermeasureCost(r) \in Nat /\ SpoofGap(r) \in Nat /\ SpoofBalance(r) \in Nat
      BY <1>1, <2>1, RatedNumbers DEF Rated
  <2> QED BY <2>1, <2>2, <2>3
<1> QED BY <1>1, <1>4, <1>5 DEF C

LEMMA CheapestPoint ==
    ASSUME NEW points, Range(points) # {},
           \A r \in Range(points) : /\ CountermeasureCost(r) \in Nat /\ r.spoof_accepts \in Nat
                                    /\ r.bonafide_rejects \in Nat /\ r.threshold \in Nat
    PROVE  /\ MinimumCountermeasureCost(points) \in Range(points)
           /\ \A r \in Range(points) :
                  CountermeasureCost(MinimumCountermeasureCost(points)) <= CountermeasureCost(r)
<1> DEFINE E == Range(points)
           A == [r \in E |-> CountermeasureCost(r)]
           B == [r \in E |-> r.spoof_accepts]
           C == [r \in E |-> r.bonafide_rejects]
           D == [r \in E |-> r.threshold]
           least == MinimumCountermeasureCost(points)
<1>1. \A r \in E : A[r] \in Nat /\ B[r] \in Nat /\ C[r] \in Nat /\ D[r] \in Nat
    OBVIOUS
<1>2. \E x \in E : \A y \in E :
          ~KeyLess(<<A[y], B[y], C[y], D[y]>>, <<A[x], B[x], C[x], D[x]>>)
  <2>1. E # {}
      OBVIOUS
  <2> HIDE DEF E, A, B, C, D
  <2>2. HasLeast(E, A, B, C, D)
      BY <1>1, <2>1, LeastKey
  <2> QED BY <2>2 DEF HasLeast
<1>3. \E x \in E : \A y \in E :
          ~KeyLess(<<CountermeasureCost(y), y.spoof_accepts, y.bonafide_rejects, y.threshold>>,
                   <<CountermeasureCost(x), x.spoof_accepts, x.bonafide_rejects, x.threshold>>)
    BY <1>2
<1>4. /\ least \in E
      /\ \A y \in E :
          ~KeyLess(<<CountermeasureCost(y), y.spoof_accepts, y.bonafide_rejects, y.threshold>>,
                   <<CountermeasureCost(least), least.spoof_accepts, least.bonafide_rejects,
                     least.threshold>>)
    BY <1>3, Zenon DEF MinimumCountermeasureCost, LeastBy
<1>5. \A r \in E : ~(CountermeasureCost(r) < CountermeasureCost(least))
    BY <1>4, LessOfFour
<1> QED BY <1>4, <1>5

LEMMA MostBalancedPoint ==
    ASSUME NEW points, Range(points) # {},
           \A r \in Range(points) : /\ SpoofGap(r) \in Nat /\ SpoofBalance(r) \in Nat
                                    /\ r.spoof_accepts \in Nat /\ r.threshold \in Nat
    PROVE  /\ CountermeasureEer(points) \in Range(points)
           /\ \A r \in Range(points) : SpoofGap(CountermeasureEer(points)) <= SpoofGap(r)
<1> DEFINE E == Range(points)
           A == [r \in E |-> SpoofGap(r)]
           B == [r \in E |-> SpoofBalance(r)]
           C == [r \in E |-> r.spoof_accepts]
           D == [r \in E |-> r.threshold]
           least == CountermeasureEer(points)
<1>1. \A r \in E : A[r] \in Nat /\ B[r] \in Nat /\ C[r] \in Nat /\ D[r] \in Nat
    OBVIOUS
<1>2. \E x \in E : \A y \in E :
          ~KeyLess(<<A[y], B[y], C[y], D[y]>>, <<A[x], B[x], C[x], D[x]>>)
  <2>1. E # {}
      OBVIOUS
  <2> HIDE DEF E, A, B, C, D
  <2>2. HasLeast(E, A, B, C, D)
      BY <1>1, <2>1, LeastKey
  <2> QED BY <2>2 DEF HasLeast
<1>3. \E x \in E : \A y \in E :
          ~KeyLess(<<SpoofGap(y), SpoofBalance(y), y.spoof_accepts, y.threshold>>,
                   <<SpoofGap(x), SpoofBalance(x), x.spoof_accepts, x.threshold>>)
    BY <1>2
<1>4. /\ least \in E
      /\ \A y \in E :
          ~KeyLess(<<SpoofGap(y), SpoofBalance(y), y.spoof_accepts, y.threshold>>,
                   <<SpoofGap(least), SpoofBalance(least), least.spoof_accepts, least.threshold>>)
    BY <1>3, Zenon DEF CountermeasureEer, LeastBy
<1>5. \A r \in E : ~(SpoofGap(r) < SpoofGap(least))
    BY <1>4, LessOfFour
<1> QED BY <1>4, <1>5

\* The selected threshold costs least on the development trials of all from 0
\* to 1, and so do the reported minimum and balance of each partition.
THEOREM CountermeasureIsAlwaysCalibrated == StudySpec => []CountermeasureIsCalibrated
<1>1. ASSUME SweepInv, stage = "done" PROVE CountermeasureIsCalibrated
  <2>1. /\ IsFiniteSet(DOMAIN spoofTrials) /\ SpoofManifestOK(spoofTrials)
        /\ \A p \in Partitions : Complete(p)
        /\ ReportedFromSweep
      BY <1>1 DEF SweepInv, Partitions
  <2>2. \A p \in Partitions :
            /\ spoofReport[p].minimum_cost = MinimumCountermeasureCost(swept[p])
            /\ spoofReport[p].observed_eer = CountermeasureEer(swept[p])
      BY <2>1 DEF ReportedFromSweep, Partitions
  <2>3. ASSUME NEW p \in Partitions, NEW t \in 0..Top
        PROVE  /\ CountermeasureCost(spoofReport[p].minimum_cost)
                      <= CountermeasureCost(Rated(p, t))
               /\ SpoofGap(spoofReport[p].observed_eer) <= SpoofGap(Rated(p, t))
    <3>1. PICK c \in Candidates(p) :
              /\ CountermeasureCost(Rated(p, c)) = CountermeasureCost(Rated(p, t))
              /\ SpoofGap(Rated(p, c)) = SpoofGap(Rated(p, t))
        BY <2>1, CandidateDecides
    <3>2. Rated(p, c) \in Range(swept[p])
        BY <1>1, <2>1, SweptPoints
    <3>3. /\ CountermeasureCost(spoofReport[p].minimum_cost)
                 <= CountermeasureCost(Rated(p, c))
          /\ SpoofGap(spoofReport[p].observed_eer) <= SpoofGap(Rated(p, c))
      <4> DEFINE points == swept[p]
      <4>1. /\ Range(points) # {}
            /\ \A r \in Range(points) :
                   /\ r.spoof_accepts \in Nat /\ r.bonafide_rejects \in Nat /\ r.threshold \in Nat
                   /\ CountermeasureCost(r) \in Nat /\ SpoofGap(r) \in Nat
                   /\ SpoofBalance(r) \in Nat
          BY <1>1, <2>1, SweptPoints
      <4> HIDE DEF points
      <4>2. CountermeasureCost(MinimumCountermeasureCost(points)) <= CountermeasureCost(Rated(p, c))
          BY <3>2, <4>1, CheapestPoint DEF points
      <4>3. SpoofGap(CountermeasureEer(points)) <= SpoofGap(Rated(p, c))
          BY <3>2, <4>1, MostBalancedPoint DEF points
      <4> QED BY <2>2, <4>2, <4>3 DEF points
    <3> QED BY <3>1, <3>3
  <2>4. CountermeasureCost(spoofReport["development"].locked)
            = CountermeasureCost(spoofReport["development"].minimum_cost)
    <3> DEFINE points == swept["development"]
               least == MinimumCountermeasureCost(points)
    <3>1. "development" \in Partitions
        BY DEF Partitions
    <3>2. /\ Range(points) # {}
          /\ \A r \in Range(points) :
                 /\ r = Rated("development", r.threshold)
                 /\ r.spoof_accepts \in Nat /\ r.bonafide_rejects \in Nat /\ r.threshold \in Nat
                 /\ CountermeasureCost(r) \in Nat
        BY <1>1, <2>1, <3>1, SweptPoints
    <3>3. spoofReport["development"].locked = Rated("development", least.threshold)
        BY <2>1 DEF ReportedFromSweep, SelectedThreshold
    <3>4. spoofReport["development"].minimum_cost = least
        BY <2>2, <3>1
    <3> HIDE DEF points
    <3>5. least \in Range(points)
        BY <3>2, CheapestPoint
    <3> HIDE DEF least
    <3> QED BY <3>2, <3>3, <3>4, <3>5
  <2> QED BY <2>3, <2>4 DEF CountermeasureIsCalibrated, Rated
<1>2. stage # "done" => CountermeasureIsCalibrated
    BY DEF CountermeasureIsCalibrated
<1>3. SweepInv => CountermeasureIsCalibrated
    BY <1>1, <1>2
<1> QED BY <1>3, SweepInit, SweepStep, PTL DEF StudySpec

-----------------------------------------------------------------------------
(* The tandem cost                                                           *)

\* Scores of one class as the detection error curve takes them: a list.
IsListed(f) == IsScores(f) /\ DOMAIN f \subseteq Nat

\* The scores of two lists are between the least and the greatest of them.
Lowest(b, s) == Min(Range(b) \cup Range(s))

Highest(b, s) == Max(Range(b) \cup Range(s))

LEMMA ListedBounds ==
    ASSUME NEW b, NEW s, IsListed(b), IsListed(s)
    PROVE  /\ Lowest(b, s) \in Int /\ Highest(b, s) \in Int /\ Lowest(b, s) <= Highest(b, s)
           /\ \A k \in DOMAIN b : b[k] \in Lowest(b, s)..Highest(b, s)
           /\ \A k \in DOMAIN s : s[k] \in Lowest(b, s)..Highest(b, s)
<1> DEFINE R == Range(b) \cup Range(s)
<1>1. /\ IsFiniteSet(Range(b)) /\ Range(b) # {} /\ Range(b) \subseteq Int
      /\ IsFiniteSet(Range(s)) /\ Range(s) \subseteq Int
    BY ScoreSet DEF IsListed
<1>2. R # {} /\ R \subseteq Int /\ IsFiniteSet(R)
    BY <1>1, FS_Union
<1>3. /\ \A k \in DOMAIN b : b[k] \in R
      /\ \A k \in DOMAIN s : s[k] \in R
    BY DEF Range
<1> HIDE DEF R
<1>4. /\ Min(R) \in R /\ \A x \in R : Min(R) <= x
      /\ Max(R) \in R /\ \A x \in R : x <= Max(R)
    BY <1>2, LeastAndGreatest
<1>5. Lowest(b, s) = Min(R) /\ Highest(b, s) = Max(R)
    BY DEF Lowest, Highest, R
<1>6. \A x \in R : x \in Lowest(b, s)..Highest(b, s)
    BY <1>2, <1>4, <1>5
<1>7. Lowest(b, s) \in Int /\ Highest(b, s) \in Int /\ Lowest(b, s) <= Highest(b, s)
    BY <1>2, <1>4, <1>5
<1> QED BY <1>3, <1>6, <1>7

Ranked(b, s, x) == <<ItemScore(b, s, x), 1 - x[1], x[2]>>

LEMMA ItemFacts ==
    ASSUME NEW b, NEW s, IsListed(b), IsListed(s)
    PROVE  /\ IsFiniteSet(CurveItems(b, s)) /\ CurveItems(b, s) # {}
           /\ \A x \in CurveItems(b, s) :
                  /\ x[1] \in {0, 1} /\ x[2] \in Nat
                  /\ ItemScore(b, s, x) \in Lowest(b, s)..Highest(b, s)
                  /\ x[2] \in DOMAIN b \cup DOMAIN s
                  /\ x[1] = 1 => x[2] \in DOMAIN b /\ ItemScore(b, s, x) = b[x[2]]
                  /\ x[1] = 0 => x[2] \in DOMAIN s /\ ItemScore(b, s, x) = s[x[2]]
           /\ \A k \in DOMAIN b : <<1, k>> \in CurveItems(b, s)
           /\ \A k \in DOMAIN s : <<0, k>> \in CurveItems(b, s)
<1>1. IsFiniteSet(DOMAIN b) /\ IsFiniteSet(DOMAIN s) /\ DOMAIN b # {}
    BY DEF IsListed, IsScores
<1>2. IsFiniteSet({1}) /\ IsFiniteSet({0})
    BY FS_Singleton
<1>3. IsFiniteSet({1} \X DOMAIN b) /\ IsFiniteSet({0} \X DOMAIN s)
    BY <1>1, <1>2, FS_Product
<1>4. IsFiniteSet(CurveItems(b, s))
    BY <1>3, FS_Union DEF CurveItems
<1>5. ASSUME NEW x \in CurveItems(b, s)
      PROVE  \/ x[1] = 1 /\ x[2] \in DOMAIN b /\ ItemScore(b, s, x) = b[x[2]]
             \/ x[1] = 0 /\ x[2] \in DOMAIN s /\ ItemScore(b, s, x) = s[x[2]]
    BY DEF CurveItems, ItemScore
<1>6. /\ \A k \in DOMAIN b : k \in Nat /\ b[k] \in Lowest(b, s)..Highest(b, s)
      /\ \A k \in DOMAIN s : k \in Nat /\ s[k] \in Lowest(b, s)..Highest(b, s)
    BY ListedBounds DEF IsListed
<1>7. \A k \in DOMAIN b : <<1, k>> \in CurveItems(b, s)
    BY DEF CurveItems
<1>8. \A k \in DOMAIN s : <<0, k>> \in CurveItems(b, s)
    BY DEF CurveItems
<1>9. CurveItems(b, s) # {}
    BY <1>1, <1>7
<1> DEFINE Item(x) ==
        /\ x[1] \in {0, 1} /\ x[2] \in Nat
        /\ ItemScore(b, s, x) \in Lowest(b, s)..Highest(b, s)
        /\ x[2] \in DOMAIN b \cup DOMAIN s
        /\ x[1] = 1 => x[2] \in DOMAIN b /\ ItemScore(b, s, x) = b[x[2]]
        /\ x[1] = 0 => x[2] \in DOMAIN s /\ ItemScore(b, s, x) = s[x[2]]
<1>10. ASSUME NEW x \in CurveItems(b, s) PROVE Item(x)
  <2>1. CASE x[1] = 1 /\ x[2] \in DOMAIN b /\ ItemScore(b, s, x) = b[x[2]]
      BY <1>6, <2>1
  <2>2. CASE x[1] = 0 /\ x[2] \in DOMAIN s /\ ItemScore(b, s, x) = s[x[2]]
      BY <1>6, <2>2
  <2> QED BY <1>5, <2>1, <2>2
<1> QED BY <1>4, <1>7, <1>8, <1>9, <1>10

LEMMA SortOrder ==
    ASSUME NEW b, NEW s, NEW x, NEW y
    PROVE  SortsBefore(b, s, x, y)
               <=> \/ ItemScore(b, s, x) < ItemScore(b, s, y)
                   \/ /\ ItemScore(b, s, x) = ItemScore(b, s, y)
                      /\ \/ 1 - x[1] < 1 - y[1]
                         \/ 1 - x[1] = 1 - y[1] /\ x[2] < y[2]
BY LessOfThree DEF SortsBefore

\* Of any items one comes last.
LEMMA LastItem ==
    ASSUME NEW b, NEW s, IsListed(b), IsListed(s),
           NEW Q, Q \subseteq CurveItems(b, s), Q # {}
    PROVE  \E x \in Q : \A y \in Q : ~SortsBefore(b, s, x, y)
<1>1. PICK high \in Int : \A k \in DOMAIN b \cup DOMAIN s : k <= high
  <2> DEFINE D == DOMAIN b \cup DOMAIN s
  <2>1. D \subseteq Int /\ D # {} /\ IsFiniteSet(D)
    <3>1. /\ IsFiniteSet(DOMAIN b) /\ IsFiniteSet(DOMAIN s) /\ DOMAIN b # {}
          /\ DOMAIN b \subseteq Nat /\ DOMAIN s \subseteq Nat
        BY DEF IsListed, IsScores
    <3>2. IsFiniteSet(D)
        BY <3>1, FS_Union
    <3> QED BY <3>1, <3>2
  <2> HIDE DEF D
  <2>2. \E low, high \in D : \A x \in D : low <= x /\ x <= high
      BY <2>1, Extremes
  <2> QED BY <2>1, <2>2 DEF D
<1> DEFINE top == Highest(b, s)
           A == [x \in Q |-> top - ItemScore(b, s, x)]
           B == [x \in Q |-> x[1]]
           C == [x \in Q |-> high - x[2]]
           Z == [x \in Q |-> 0]
<1>2. /\ top \in Int
      /\ \A x \in Q : /\ x[1] \in {0, 1} /\ x[2] \in Nat /\ x[2] <= high
                      /\ ItemScore(b, s, x) \in Int /\ ItemScore(b, s, x) <= top
  <2>1. Lowest(b, s) \in Int /\ Highest(b, s) \in Int
      BY ListedBounds
  <2> QED BY <1>1, <2>1, ItemFacts
<1>3. \A x \in Q : /\ A[x] = top - ItemScore(b, s, x) /\ B[x] = x[1]
                   /\ C[x] = high - x[2] /\ Z[x] = 0
    OBVIOUS
<1> HIDE DEF top, A, B, C, Z
<1>4. \A x \in Q : A[x] \in Nat /\ B[x] \in Nat /\ C[x] \in Nat /\ Z[x] \in Nat
    BY <1>1, <1>2, <1>3
<1>5. PICK x \in Q : \A y \in Q :
          ~KeyLess(<<A[y], B[y], C[y], Z[y]>>, <<A[x], B[x], C[x], Z[x]>>)
  <2>1. HasLeast(Q, A, B, C, Z)
      BY <1>4, LeastKey
  <2> QED BY <2>1 DEF HasLeast
<1>6. ASSUME NEW y \in Q PROVE ~SortsBefore(b, s, x, y)
  <2>1. ~(A[y] < A[x] \/ (A[y] = A[x] /\ (B[y] < B[x] \/ (B[y] = B[x] /\
            (C[y] < C[x] \/ (C[y] = C[x] /\ Z[y] < Z[x]))))))
    <3>1. ~KeyLess(<<A[y], B[y], C[y], Z[y]>>, <<A[x], B[x], C[x], Z[x]>>)
        BY <1>5
    <3> QED BY <3>1, LessOfFour, Zenon
  <2> DEFINE v == ItemScore(b, s, x)
             w == ItemScore(b, s, y)
  <2>2. v \in Int /\ w \in Int /\ top \in Int /\ x[1] \in Int /\ y[1] \in Int
        /\ x[2] \in Int /\ y[2] \in Int
      BY <1>2
  <2>3. /\ A[x] = top - v /\ A[y] = top - w /\ B[x] = x[1] /\ B[y] = y[1]
        /\ C[x] = high - x[2] /\ C[y] = high - y[2]
      BY <1>3
  <2> HIDE DEF v, w
  <2>4. ~(v < w \/ (v = w /\ (1 - x[1] < 1 - y[1] \/ (1 - x[1] = 1 - y[1] /\ x[2] < y[2]))))
      BY <1>1, <2>1, <2>2, <2>3
  <2> QED BY <2>4, SortOrder DEF v, w
<1> QED BY <1>5, <1>6

\* Items of one class are as many as their places.
LEMMA Tagged ==
    ASSUME NEW c, NEW K, IsFiniteSet(K)
    PROVE  Cardinality({c} \X K) = Cardinality(K)
<1>1. IsFiniteSet({c}) /\ Cardinality({c}) = 1
    BY FS_Singleton
<1>2. Cardinality({c} \X K) = 1 * Cardinality(K)
    BY <1>1, FS_Product
<1> QED BY <1>2, FS_CardinalityType

UpTo(b, s, x) == {y \in CurveItems(b, s) : ~SortsBefore(b, s, x, y)}

PointAt(b, s, x) ==
    [at |-> Cardinality(UpTo(b, s, x)),
     miss |-> Cardinality({y \in UpTo(b, s, x) : y[1] = 1}),
     false_accept |-> Size(s) - Cardinality({y \in UpTo(b, s, x) : y[1] = 0}),
     threshold |-> ItemScore(b, s, x)]

Start(b, s) == [at |-> 0, miss |-> 0, false_accept |-> Size(s),
                threshold |-> Lowest(b, s) - 1]

LEMMA CurvePoints ==
    ASSUME NEW b, NEW s
    PROVE  DetCurve(b, s) = {Start(b, s)} \cup {PointAt(b, s, x) : x \in CurveItems(b, s)}
BY DEF DetCurve, Start, PointAt, UpTo, Lowest

\* The items of both classes up to one, by the places of their scores.
LEMMA SplitByClass ==
    ASSUME NEW b, NEW s, IsListed(b), IsListed(s), NEW x \in CurveItems(b, s)
    PROVE  /\ Cardinality({y \in UpTo(b, s, x) : y[1] = 1})
                  = Cardinality({k \in DOMAIN b : <<1, k>> \in UpTo(b, s, x)})
           /\ Cardinality({y \in UpTo(b, s, x) : y[1] = 0})
                  = Cardinality({k \in DOMAIN s : <<0, k>> \in UpTo(b, s, x)})
<1> DEFINE U == UpTo(b, s, x)
           KB == {k \in DOMAIN b : <<1, k>> \in U}
           KS == {k \in DOMAIN s : <<0, k>> \in U}
<1>1. \A y \in U : \/ y[1] = 1 /\ y[2] \in DOMAIN b /\ y = <<1, y[2]>>
                   \/ y[1] = 0 /\ y[2] \in DOMAIN s /\ y = <<0, y[2]>>
    BY DEF UpTo, CurveItems
<1> HIDE DEF U
<1>2. {y \in U : y[1] = 1} = {1} \X KB
    BY <1>1
<1>3. {y \in U : y[1] = 0} = {0} \X KS
    BY <1>1
<1>4. IsFiniteSet(KB) /\ IsFiniteSet(KS)
    BY FS_Subset DEF IsListed, IsScores
<1> HIDE DEF KB, KS
<1>5. /\ Cardinality({1} \X KB) = Cardinality(KB)
      /\ Cardinality({0} \X KS) = Cardinality(KS)
    BY <1>4, Tagged
<1> QED BY <1>2, <1>3, <1>5 DEF U, KB, KS

\* A point after an item: it stands after the ties of its class, in list order, and
\* the bonafide items of a tie come before its spoof items.
LEMMA PointCounts ==
    ASSUME NEW b, NEW s, IsListed(b), IsListed(s), NEW x \in CurveItems(b, s)
    PROVE  LET v == ItemScore(b, s, x)
               d == PointAt(b, s, x)
           IN  /\ v \in Lowest(b, s)..Highest(b, s) /\ d.miss \in Nat /\ d.false_accept \in Nat
               /\ x[1] = 1 => d.miss > Below(b, v) /\ d.false_accept = Size(s) - Below(s, v)
               /\ x[1] = 0 => /\ d.miss = Below(b, v + 1)
                              /\ d.false_accept >= Size(s) - Below(s, v + 1)
<1> DEFINE v == ItemScore(b, s, x)
           U == UpTo(b, s, x)
           KB == {k \in DOMAIN b : <<1, k>> \in U}
           KS == {k \in DOMAIN s : <<0, k>> \in U}
           LB(t) == {k \in DOMAIN b : b[k] < t}
           LS(t) == {k \in DOMAIN s : s[k] < t}
<1>1. /\ v \in Lowest(b, s)..Highest(b, s) /\ v \in Int
      /\ x[1] \in {0, 1} /\ x[2] \in Nat
    BY ItemFacts
<1>2. /\ IsScores(b) /\ IsScores(s)
      /\ \A k \in DOMAIN b : k \in Nat /\ b[k] \in Int
      /\ \A k \in DOMAIN s : k \in Nat /\ s[k] \in Int
    BY DEF IsListed, IsScores
<1>3. \A k \in DOMAIN b :
          k \in KB <=> ~(v < b[k] \/ (v = b[k] /\ (1 - x[1] < 0 \/ (1 - x[1] = 0 /\ x[2] < k))))
  <2> TAKE k \in DOMAIN b
  <2> DEFINE y == <<1, k>>
  <2>1. y \in CurveItems(b, s) /\ ItemScore(b, s, y) = b[k] /\ y[1] = 1 /\ y[2] = k
      BY ItemFacts
  <2>2. k \in KB <=> ~SortsBefore(b, s, x, y)
      BY <2>1 DEF UpTo
  <2> HIDE DEF y, v
  <2> QED BY <2>1, <2>2, SortOrder DEF v
<1>4. \A k \in DOMAIN s :
          k \in KS <=> ~(v < s[k] \/ (v = s[k] /\ (1 - x[1] < 1 \/ (1 - x[1] = 1 /\ x[2] < k))))
  <2> TAKE k \in DOMAIN s
  <2> DEFINE y == <<0, k>>
  <2>1. y \in CurveItems(b, s) /\ ItemScore(b, s, y) = s[k] /\ y[1] = 0 /\ y[2] = k
      BY ItemFacts
  <2>2. k \in KS <=> ~SortsBefore(b, s, x, y)
      BY <2>1 DEF UpTo
  <2> HIDE DEF y, v
  <2> QED BY <2>1, <2>2, SortOrder DEF v
<1>5. /\ PointAt(b, s, x).miss = Cardinality(KB)
      /\ PointAt(b, s, x).false_accept = Size(s) - Cardinality(KS)
  <2>1. Cardinality({y \in U : y[1] = 1}) = Cardinality(KB)
      BY SplitByClass
  <2>2. Cardinality({y \in U : y[1] = 0}) = Cardinality(KS)
      BY SplitByClass
  <2>3. /\ PointAt(b, s, x).miss = Cardinality({y \in U : y[1] = 1})
        /\ PointAt(b, s, x).false_accept = Size(s) - Cardinality({y \in U : y[1] = 0})
      BY DEF PointAt
  <2> HIDE DEF U, KB, KS
  <2> QED BY <2>1, <2>2, <2>3
<1>6. x[1] = 1 => x[2] \in DOMAIN b /\ b[x[2]] = v
    BY ItemFacts
<1> HIDE DEF v, KB, KS
<1>7. KB \subseteq DOMAIN b /\ KS \subseteq DOMAIN s
    BY DEF KB, KS
<1>8. /\ Cardinality(KB) \in Nat /\ Cardinality(KS) \in Nat /\ Size(s) \in Nat
      /\ Cardinality(KS) <= Size(s)
    BY <1>2, <1>7, Subsets
<1>9. ASSUME x[1] = 1
      PROVE  Cardinality(KB) > Below(b, v) /\ Cardinality(KS) = Below(s, v)
  <2>1. KS = LS(v)
      BY <1>1, <1>2, <1>4, <1>7, <1>9
  <2>2. LB(v) \subseteq KB /\ x[2] \in KB /\ x[2] \notin LB(v)
      BY <1>1, <1>2, <1>3, <1>6, <1>9
  <2> HIDE DEF LB
  <2>3. LB(v) \subseteq KB \ {x[2]} /\ IsFiniteSet(KB)
      BY <1>2, <1>7, <2>2, Subsets
  <2>4. IsFiniteSet(KB \ {x[2]}) /\ Cardinality(KB \ {x[2]}) = Cardinality(KB) - 1
      BY <2>2, <2>3, FS_RemoveElement
  <2>5. Cardinality(LB(v)) <= Cardinality(KB) - 1 /\ Cardinality(LB(v)) \in Nat
      BY <2>3, <2>4, FS_Subset, FS_CardinalityType
  <2> QED BY <1>8, <2>1, <2>5 DEF Below, LB
<1>10. ASSUME x[1] = 0
       PROVE  Cardinality(KB) = Below(b, v + 1) /\ Cardinality(KS) <= Below(s, v + 1)
  <2>1. KB = LB(v + 1)
      BY <1>1, <1>2, <1>3, <1>7, <1>10
  <2>2. KS \subseteq LS(v + 1) /\ LS(v + 1) \subseteq DOMAIN s
      BY <1>1, <1>2, <1>4, <1>7, <1>10
  <2> HIDE DEF LS
  <2>3. Cardinality(KS) <= Cardinality(LS(v + 1))
      BY <1>2, <2>2, Subsets
  <2> QED BY <2>1, <2>3 DEF Below, LS
<1>11. Below(s, v) \in Nat /\ Below(s, v + 1) \in Nat
    BY <1>1, <1>2, BelowGrows
<1> QED BY <1>1, <1>5, <1>8, <1>9, <1>10, <1>11 DEF v

\* A point where every item of a score or less, and no other, is behind.
LEMMA FullPoint ==
    ASSUME NEW b, NEW s, IsListed(b), IsListed(s), NEW v \in Int
    PROVE  \E d \in DetCurve(b, s) : /\ d.miss = Below(b, v)
                                     /\ d.false_accept = Size(s) - Below(s, v)
<1> DEFINE Q == {y \in CurveItems(b, s) : ItemScore(b, s, y) < v}
<1>1. \A y \in CurveItems(b, s) : ItemScore(b, s, y) \in Int
    BY ItemFacts
<1>2. /\ \A k \in DOMAIN b : <<1, k>> \in Q <=> b[k] < v
      /\ \A k \in DOMAIN s : <<0, k>> \in Q <=> s[k] < v
  <2>1. /\ \A k \in DOMAIN b : <<1, k>> \in CurveItems(b, s) /\ ItemScore(b, s, <<1, k>>) = b[k]
        /\ \A k \in DOMAIN s : <<0, k>> \in CurveItems(b, s) /\ ItemScore(b, s, <<0, k>>) = s[k]
      BY ItemFacts
  <2> QED BY <2>1
<1>3. CASE Q = {}
  <2>1. Below(b, v) = 0 /\ Below(s, v) = 0
    <3>1. {k \in DOMAIN b : b[k] < v} = {} /\ {k \in DOMAIN s : s[k] < v} = {}
        BY <1>2, <1>3
    <3> QED BY <3>1, FS_EmptySet DEF Below
  <2>2. Size(s) \in Nat
      BY Counts DEF IsListed
  <2>3. Start(b, s) \in DetCurve(b, s)
      BY CurvePoints
  <2>4. Start(b, s).miss = 0 /\ Start(b, s).false_accept = Size(s)
      BY DEF Start
  <2> QED BY <2>1, <2>2, <2>3, <2>4
<1>4. CASE Q # {}
  <2>1. Q \subseteq CurveItems(b, s)
      OBVIOUS
  <2>2. \A y \in CurveItems(b, s) : y \in Q <=> ItemScore(b, s, y) < v
      OBVIOUS
  <2> HIDE DEF Q
  <2>3. PICK x \in Q : \A y \in Q : ~SortsBefore(b, s, x, y)
      BY <1>4, <2>1, LastItem
  <2>4. UpTo(b, s, x) = Q
    <3>1. ASSUME NEW y \in CurveItems(b, s), ~SortsBefore(b, s, x, y)
          PROVE  y \in Q
      <4>1. ~(ItemScore(b, s, x) < ItemScore(b, s, y))
          BY <3>1, SortOrder
      <4>2. ItemScore(b, s, x) \in Int /\ ItemScore(b, s, y) \in Int
            /\ ItemScore(b, s, x) < v
          BY <1>1, <2>1, <2>2, <2>3
      <4> QED BY <2>2, <4>1, <4>2
    <3> QED BY <2>1, <2>3, <3>1 DEF UpTo
  <2>5. PointAt(b, s, x) \in DetCurve(b, s)
      BY <2>1, <2>3, CurvePoints
  <2>6. /\ {k \in DOMAIN b : <<1, k>> \in Q} = {k \in DOMAIN b : b[k] < v}
        /\ {k \in DOMAIN s : <<0, k>> \in Q} = {k \in DOMAIN s : s[k] < v}
      BY <1>2
  <2>7. /\ Cardinality({y \in Q : y[1] = 1}) = Below(b, v)
        /\ Cardinality({y \in Q : y[1] = 0}) = Below(s, v)
    <3> DEFINE W == UpTo(b, s, x)
    <3>1. /\ Cardinality({y \in W : y[1] = 1}) = Cardinality({k \in DOMAIN b : <<1, k>> \in W})
          /\ Cardinality({y \in W : y[1] = 0}) = Cardinality({k \in DOMAIN s : <<0, k>> \in W})
        BY <2>1, <2>3, SplitByClass
    <3>2. W = Q
        BY <2>4
    <3> HIDE DEF W
    <3> QED BY <2>6, <3>1, <3>2 DEF Below
  <2>8. /\ PointAt(b, s, x).miss = Below(b, v)
        /\ PointAt(b, s, x).false_accept = Size(s) - Below(s, v)
      BY <2>4, <2>7 DEF PointAt
  <2> QED BY <2>5, <2>8
<1> QED BY <1>3, <1>4

LEMMA Scaled ==
    ASSUME NEW c \in Nat \ {0}, NEW p \in Nat \ {0}, NEW m \in Nat, NEW n \in Nat
    PROVE  /\ c * m * p \in Nat
           /\ m < n => c * m * p < c * n * p
           /\ m <= n => c * m * p <= c * n * p
<1> DEFINE w == c * p
<1>1. w \in Nat \ {0} /\ c * m * p = w * m /\ c * n * p = w * n
    OBVIOUS
<1> HIDE DEF w
<1>2. w * n = w * m + w * (n - m)
    BY <1>1
<1>3. /\ w * m \in Nat
      /\ m < n => w * (n - m) \in Nat \ {0}
      /\ m <= n => w * (n - m) \in Nat
    BY <1>1
<1> QED BY <1>1, <1>2, <1>3

\* With positive coefficients the cheapest point is one where no tie is split.
LEMMA CheapestIsFull ==
    ASSUME NEW b, NEW s, IsListed(b), IsListed(s),
           NEW c, c.c1 \in Nat \ {0}, c.c2 \in Nat \ {0}
    PROVE  \E v \in Lowest(b, s)..(Highest(b, s) + 1) :
               /\ TandemMinimum(c, b, s).miss = Below(b, v)
               /\ TandemMinimum(c, b, s).false_accept = Size(s) - Below(s, v)
<1> DEFINE S == DetCurve(b, s)
           m == Size(b)
           n == Size(s)
           cost(d) == TandemCost(c, d, b, s)
           low == Lowest(b, s)
           high == Highest(b, s)
<1>0. /\ low \in Int /\ high \in Int /\ low <= high
      /\ \A k \in DOMAIN b : b[k] \in low..high
      /\ \A k \in DOMAIN s : s[k] \in low..high
    BY ListedBounds
<1>1. /\ IsScores(b) /\ IsScores(s) /\ m \in Nat \ {0} /\ n \in Nat \ {0}
      /\ \A t \in Int : /\ Below(b, t) \in Nat /\ Below(s, t) \in Nat
                        /\ n - Below(s, t) \in Nat
  <2>1. IsScores(b) /\ IsScores(s)
      BY DEF IsListed
  <2>2. m \in Nat \ {0} /\ n \in Nat \ {0}
      BY <2>1, Counts
  <2>3. \A t \in Int : Below(b, t) \in 0..m /\ Below(s, t) \in 0..n
      BY <2>1, BelowGrows
  <2> HIDE DEF m, n
  <2> QED BY <2>1, <2>2, <2>3
<1>2. \A d \in S : /\ d.miss \in Nat /\ d.false_accept \in Nat
                   /\ d.threshold \in Int /\ d.threshold + 1 - low \in Nat
  <2>1. ASSUME NEW x \in CurveItems(b, s)
        PROVE  LET d == PointAt(b, s, x)
               IN  /\ d.miss \in Nat /\ d.false_accept \in Nat
                   /\ d.threshold \in Int /\ d.threshold + 1 - low \in Nat
    <3>1. PointAt(b, s, x).miss \in Nat /\ PointAt(b, s, x).false_accept \in Nat
        BY PointCounts
    <3>2. ItemScore(b, s, x) \in low..high /\ PointAt(b, s, x).threshold = ItemScore(b, s, x)
        BY PointCounts DEF PointAt
    <3> HIDE DEF low, high
    <3> QED BY <1>0, <3>1, <3>2
  <2>2. /\ Start(b, s).miss \in Nat /\ Start(b, s).false_accept \in Nat
        /\ Start(b, s).threshold \in Int /\ Start(b, s).threshold + 1 - low \in Nat
    <3>1. /\ Start(b, s).miss = 0 /\ Start(b, s).false_accept = n
          /\ Start(b, s).threshold = low - 1
        BY DEF Start
    <3> HIDE DEF low, n
    <3> QED BY <1>0, <1>1, <3>1
  <2> QED BY <2>1, <2>2, CurvePoints
<1>3. S # {}
    BY CurvePoints
<1>4. \A d : cost(d) = c.c1 * d.miss * n + c.c2 * d.false_accept * m
    BY DEF TandemCost
<1> HIDE DEF m, n, cost, low, high
<1>5. \A d \in S : cost(d) \in Nat
  <2> TAKE d \in S
  <2>1. c.c1 * d.miss * n \in Nat /\ c.c2 * d.false_accept * m \in Nat
      BY <1>1, <1>2, Scaled
  <2> QED BY <1>4, <2>1
<1> DEFINE d == TandemMinimum(c, b, s)
<1>6. d \in S /\ \A e \in S : cost(d) <= cost(e)
  <2> DEFINE Before(e, g) ==
          KeyLess(<<cost(e), e.false_accept, e.miss, e.threshold>>,
                  <<cost(g), g.false_accept, g.miss, g.threshold>>)
  <2>1. d = CHOOSE g \in S : \A e \in S : ~Before(e, g)
      BY DEF TandemMinimum, LeastBy, cost
  <2> HIDE DEF S, d
  <2> DEFINE A == [e \in S |-> cost(e)]
             B == [e \in S |-> e.false_accept]
             C == [e \in S |-> e.miss]
             D == [e \in S |-> e.threshold + 1 - low]
  <2>2. \A e \in S : A[e] \in Nat /\ B[e] \in Nat /\ C[e] \in Nat /\ D[e] \in Nat
      BY <1>2, <1>5
  <2>3. \A e \in S : /\ A[e] = cost(e) /\ B[e] = e.false_accept /\ C[e] = e.miss
                     /\ D[e] = e.threshold + 1 - low
      OBVIOUS
  <2> HIDE DEF A, B, C, D
  <2>4. PICK g \in S : \A e \in S :
            ~KeyLess(<<A[e], B[e], C[e], D[e]>>, <<A[g], B[g], C[g], D[g]>>)
    <3>1. HasLeast(S, A, B, C, D)
        BY <1>3, <2>2, LeastKey
    <3> QED BY <3>1 DEF HasLeast
  <2>5. ASSUME NEW e \in S PROVE ~Before(e, g)
    <3>1. ~(A[e] < A[g] \/ (A[e] = A[g] /\ (B[e] < B[g] \/ (B[e] = B[g] /\
              (C[e] < C[g] \/ (C[e] = C[g] /\ D[e] < D[g]))))))
      <4>1. ~KeyLess(<<A[e], B[e], C[e], D[e]>>, <<A[g], B[g], C[g], D[g]>>)
          BY <2>4
      <4> QED BY <4>1, LessOfFour, Zenon
    <3>2. e.threshold < g.threshold => D[e] < D[g]
      <4>1. \A h \in S : D[h] = h.threshold + 1 - low /\ h.threshold \in Int
          BY <1>2, <2>3
      <4> QED BY <1>0, <2>4, <4>1
    <3>3. ~(cost(e) < cost(g) \/ (cost(e) = cost(g) /\ (e.false_accept < g.false_accept
              \/ (e.false_accept = g.false_accept /\
                  (e.miss < g.miss \/ (e.miss = g.miss /\ e.threshold < g.threshold))))))
        BY <2>3, <2>4, <3>1, <3>2
    <3>4. Before(e, g) <=>
              cost(e) < cost(g) \/ (cost(e) = cost(g) /\ (e.false_accept < g.false_accept
                  \/ (e.false_accept = g.false_accept /\
                      (e.miss < g.miss \/ (e.miss = g.miss /\ e.threshold < g.threshold)))))
        BY LessOfFour
    <3> HIDE DEF Before
    <3> QED BY <3>3, <3>4
  <2>6. d \in S /\ \A e \in S : ~Before(e, d)
    <3> HIDE DEF Before
    <3> QED BY <2>1, <2>4, <2>5, Zenon
  <2>7. ASSUME NEW e \in S PROVE cost(d) <= cost(e)
    <3>1. ~(cost(e) < cost(d))
      <4>1. ~Before(e, d)
          BY <2>6
      <4> QED BY <4>1, LessOfFour, Zenon
    <3> QED BY <1>5, <2>6, <3>1
  <2> QED BY <2>6, <2>7
<1> HIDE DEF d
<1>7. ASSUME NEW v \in Int,
             \/ d.miss > Below(b, v) /\ d.false_accept >= n - Below(s, v)
             \/ d.miss >= Below(b, v) /\ d.false_accept > n - Below(s, v)
      PROVE  FALSE
  <2>1. PICK e \in S : e.miss = Below(b, v) /\ e.false_accept = n - Below(s, v)
      BY FullPoint DEF n
  <2>2. d.miss \in Nat /\ d.false_accept \in Nat /\ e.miss \in Nat /\ e.false_accept \in Nat
      BY <1>2, <1>6
  <2>3. /\ e.miss <= d.miss /\ e.false_accept <= d.false_accept
        /\ e.miss < d.miss \/ e.false_accept < d.false_accept
      BY <1>1, <1>7, <2>1, <2>2
  <2>4. /\ c.c1 * e.miss * n \in Nat /\ c.c1 * d.miss * n \in Nat
        /\ c.c1 * e.miss * n <= c.c1 * d.miss * n
        /\ e.miss < d.miss => c.c1 * e.miss * n < c.c1 * d.miss * n
      BY <1>1, <2>2, <2>3, Scaled
  <2>5. /\ c.c2 * e.false_accept * m \in Nat /\ c.c2 * d.false_accept * m \in Nat
        /\ c.c2 * e.false_accept * m <= c.c2 * d.false_accept * m
        /\ e.false_accept < d.false_accept
              => c.c2 * e.false_accept * m < c.c2 * d.false_accept * m
      BY <1>1, <2>2, <2>3, Scaled
  <2>6. cost(e) < cost(d)
      BY <1>4, <2>3, <2>4, <2>5
  <2> QED BY <1>5, <1>6, <2>1, <2>6
<1>8. d = Start(b, s) \/ \E x \in CurveItems(b, s) : d = PointAt(b, s, x)
    BY <1>6, CurvePoints
<1>9. CASE d = Start(b, s)
  <2>1. d.miss = 0 /\ d.false_accept = n
      BY <1>9 DEF Start, n
  <2>2. Below(b, low) = 0 /\ Below(s, low) = 0
    <3>1. {k \in DOMAIN b : b[k] < low} = {} /\ {k \in DOMAIN s : s[k] < low} = {}
        BY <1>0
    <3> QED BY <3>1, FS_EmptySet DEF Below
  <2>3. low \in low..(high + 1)
      BY <1>0
  <2> QED BY <1>1, <2>1, <2>2, <2>3 DEF d, n, low, high
<1>10. CASE \E x \in CurveItems(b, s) : d = PointAt(b, s, x)
  <2>1. PICK x \in CurveItems(b, s) : d = PointAt(b, s, x)
      BY <1>10
  <2> DEFINE v == ItemScore(b, s, x)
  <2>2. /\ v \in low..high /\ d.miss \in Nat /\ d.false_accept \in Nat
        /\ x[1] = 1 => d.miss > Below(b, v) /\ d.false_accept = n - Below(s, v)
        /\ x[1] = 0 => d.miss = Below(b, v + 1) /\ d.false_accept >= n - Below(s, v + 1)
      BY <2>1, PointCounts DEF n, low, high
  <2>3. x[1] \in {0, 1}
      BY ItemFacts
  <2> HIDE DEF v
  <2>4. v \in Int /\ v + 1 \in low..(high + 1) /\ v + 1 \in Int
      BY <1>0, <2>2
  <2>5. x[1] # 1
      BY <1>1, <1>7, <2>2, <2>4
  <2>6. d.miss = Below(b, v + 1) /\ d.false_accept >= n - Below(s, v + 1)
      BY <2>2, <2>3, <2>5
  <2>7. d.false_accept = n - Below(s, v + 1)
    <3> DEFINE left == n - Below(s, v + 1)
    <3>1. left \in Nat /\ d.false_accept >= left /\ Below(b, v + 1) \in Nat
        BY <1>1, <2>4, <2>6
    <3>2. ~(d.miss >= Below(b, v + 1) /\ d.false_accept > left)
        BY <1>7, <2>4
    <3> HIDE DEF left
    <3>3. d.false_accept = left
        BY <2>2, <2>6, <3>1, <3>2
    <3> QED BY <3>3 DEF left
  <2> QED BY <2>4, <2>6, <2>7 DEF d, n, low, high
<1> QED BY <1>8, <1>9, <1>10

AsvLists ==
    asv.target \in Seq(Int) /\ asv.nontarget \in Seq(Int) /\ asv.spoof \in Seq(Int)

\* Coefficients the evaluation goes on with are positive integers.
LEMMA CoefficientNumbers ==
    ASSUME AsvLists, CoefficientsOK(AsvCoefficients)
    PROVE  AsvCoefficients.c1 \in Nat \ {0} /\ AsvCoefficients.c2 \in Nat \ {0}
<1> DEFINE threshold == CurveEer(asv.target, asv.nontarget).threshold
           High(f) == {i \in DOMAIN f : f[i] >= threshold}
           hits == Cardinality(High(asv.target))
           accepts == Cardinality(High(asv.nontarget))
           spoofs == Cardinality(High(asv.spoof))
           targets == Size(asv.target)
           others == Size(asv.nontarget)
           attacks == Size(asv.spoof)
<1>1. ASSUME NEW f \in Seq(Int)
      PROVE  Size(f) \in Nat /\ Cardinality(High(f)) \in Nat
  <2>1. IsFiniteSet(DOMAIN f)
      BY SequenceFacts
  <2>2. IsFiniteSet(High(f))
      BY <2>1, FS_Subset
  <2> QED BY <2>1, <2>2, FS_CardinalityType DEF Size
<1>2. /\ hits \in Nat /\ accepts \in Nat /\ spoofs \in Nat
      /\ targets \in Nat /\ others \in Nat /\ attacks \in Nat
    BY <1>1 DEF AsvLists
<1>3. /\ AsvCoefficients.c1 = (1881 * hits * others - 190 * accepts * targets) * attacks
      /\ AsvCoefficients.c2 = 1000 * spoofs * targets * others
    BY DEF AsvCoefficients, HowMany
<1> HIDE DEF hits, accepts, spoofs, targets, others, attacks
<1>4. AsvCoefficients.c1 \in Int /\ AsvCoefficients.c2 \in Int
    BY <1>2, <1>3
<1> QED BY <1>4 DEF CoefficientsOK

\* Some trials of the manifest, as the tandem cost takes them.
SomeTrials(f) ==
    /\ DOMAIN f # {} /\ DOMAIN f \subseteq DOMAIN spoofTrials
    /\ \A k \in DOMAIN f : f[k] = spoofTrials[k]

HasLogits == \A k \in DOMAIN spoofTrials : spoofTrials[k].bonafide_logit \in Int

LEMMA SupportListed ==
    ASSUME IsFiniteSet(DOMAIN spoofTrials), DOMAIN spoofTrials \subseteq Nat, HasLogits,
           NEW f, SomeTrials(f)
    PROVE  IsListed(Support(f))
<1>1. IsFiniteSet(DOMAIN f) /\ DOMAIN f \subseteq Nat
    BY FS_Subset DEF SomeTrials
<1>2. DOMAIN Support(f) = DOMAIN f /\ \A k \in DOMAIN f : Support(f)[k] \in Int
    BY DEF Support, SomeTrials, HasLogits
<1> QED BY <1>1, <1>2 DEF IsListed, IsScores, SomeTrials

\* Both classes play, and so does every attack that is reported.
LEMMA TrialsPlayed ==
    ASSUME IsFiniteSet(DOMAIN spoofTrials), SpoofManifestOK(spoofTrials)
    PROVE  /\ SomeTrials(SpoofTrials("evaluation", "bonafide"))
           /\ SomeTrials(SpoofTrials("evaluation", "spoof"))
           /\ \A a \in AttackIds : SomeTrials(OfAttack(a))
<1>1. ASSUME NEW label \in {"bonafide", "spoof"}
      PROVE  SomeTrials(SpoofTrials("evaluation", label))
  <2> DEFINE f == SpoofTrials("evaluation", label)
  <2>1. DOMAIN Probabilities("evaluation", label) # {}
      BY BothClassesPlayed DEF IsProbabilities, IsScores, Partitions
  <2>2. DOMAIN f # {}
      BY <2>1 DEF Probabilities
  <2>3. DOMAIN f \subseteq DOMAIN spoofTrials /\ \A k \in DOMAIN f : f[k] = spoofTrials[k]
      BY DEF SpoofTrials, RestrictValues, Restrict
  <2> QED BY <2>2, <2>3 DEF SomeTrials
<1>2. ASSUME NEW a \in AttackIds PROVE SomeTrials(OfAttack(a))
  <2> DEFINE f == SpoofTrials("evaluation", "spoof")
  <2>1. PICK k \in DOMAIN f : f[k].attack_id = a
      BY DEF AttackIds, Range
  <2>2. SomeTrials(f)
      BY <1>1
  <2>3. OfAttack(a) = [i \in {j \in DOMAIN f : f[j].attack_id = a} |-> f[i]]
      BY DEF OfAttack, RestrictValues, Restrict
  <2> HIDE DEF f
  <2> QED BY <2>1, <2>2, <2>3 DEF SomeTrials
<1> QED BY <1>1, <1>2

TandemInv ==
    /\ \E S : spoofTrials \in Seq(S)
    /\ HasLogits
    /\ stage # "off" => AsvLists
    /\ stage = "done" => spoofReport.tandem = EvaluateTandem

LEMMA TandemInit ==
    ASSUME StudyInit PROVE TandemInv
<1>1. stage = (IF spoofTrials = <<>> THEN "off" ELSE "load")
    BY DEF StudyInit, SpoofInit
<1>2. spoofTrials = <<>> \/ (spoofTrials \in SpoofManifests /\ asv \in Verifiers)
    BY DEF StudyInit, SpoofInit
<1>3. CASE spoofTrials = <<>>
  <2>1. <<>> \in Seq({}) /\ DOMAIN <<>> = {}
      OBVIOUS
  <2> QED BY <1>1, <1>3, <2>1 DEF TandemInv, HasLogits
<1>4. CASE spoofTrials \in SpoofManifests /\ asv \in Verifiers
  <2>1. spoofTrials \in Seq(ToSet(spoofTrials)) /\ AsvLists
      BY <1>4, StudyAssumption DEF AsvLists
  <2>2. \A t \in ToSet(spoofTrials) : t.bonafide_logit \in Int
      BY <1>4, StudyAssumption
  <2>3. HasLogits
      BY <2>2 DEF HasLogits, ToSet
  <2> QED BY <1>1, <1>4, <2>1, <2>3 DEF TandemInv
<1> QED BY <1>2, <1>3, <1>4

LEMMA TandemStep ==
    ASSUME TandemInv, [StudyNext]_studyVars PROVE TandemInv'
<1>1. UNCHANGED <<spoofTrials, asv>>
    BY DEF StudyNext, SpoofNext, LoadSpoofScores, SweepThreshold, SweepEnds, ReportSpoof,
           studyVars, spoofVars
<1>2. EvaluateTandem' = EvaluateTandem
  <2>1. /\ SpoofTrials("evaluation", "bonafide")' = SpoofTrials("evaluation", "bonafide")
        /\ SpoofTrials("evaluation", "spoof")' = SpoofTrials("evaluation", "spoof")
      BY <1>1 DEF SpoofTrials, RestrictValues, Restrict
  <2>2. AsvCoefficients' = AsvCoefficients
      BY <1>1 DEF AsvCoefficients, HowMany, Size
  <2>3. AttackIds' = AttackIds /\ \A a : OfAttack(a)' = OfAttack(a)
      BY <2>1 DEF AttackIds, OfAttack, RestrictValues, Restrict
  <2> QED BY <2>1, <2>2, <2>3 DEF EvaluateTandem, Support
<1>3. stage' # "off" => stage # "off"
    BY DEF StudyNext, SpoofNext, LoadSpoofScores, SweepThreshold, SweepEnds, ReportSpoof,
           studyVars, spoofVars
<1>4. stage' = "done" =>
          \/ stage = "done" /\ spoofReport' = spoofReport
          \/ spoofReport'.tandem = EvaluateTandem
  <2>1. CASE UNCHANGED spoofVars
      BY <2>1 DEF spoofVars
  <2>2. CASE SpoofNext
      BY <2>2 DEF SpoofNext, LoadSpoofScores, SweepThreshold, SweepEnds, ReportSpoof
  <2> QED BY <2>1, <2>2 DEF StudyNext, studyVars
<1> QED BY <1>1, <1>2, <1>3, <1>4 DEF TandemInv, AsvLists, HasLogits

\* A minimum over a curve of listed scores is the cost at a threshold around them.
LEMMA MinimumAttained ==
    ASSUME NEW b, NEW s, IsListed(b), IsListed(s),
           NEW c, c.c1 \in Nat \ {0}, c.c2 \in Nat \ {0}
    PROVE  Attainable(b, s, TandemMinimum(c, b, s))
<1>1. PICK v \in Lowest(b, s)..(Highest(b, s) + 1) :
          /\ TandemMinimum(c, b, s).miss = Below(b, v)
          /\ TandemMinimum(c, b, s).false_accept = Size(s) - Below(s, v)
    BY CheapestIsFull
<1>2. Lowest(b, s) \in Int /\ Highest(b, s) \in Int
    BY ListedBounds
<1>3. v \in Int /\ v \in (Lowest(b, s) - 2)..(Highest(b, s) + 2)
    BY <1>2
<1>4. v \in ThresholdsAround(Range(b) \cup Range(s))
    BY <1>3 DEF ThresholdsAround, Lowest, Highest
<1>5. /\ HowMany(b, LAMBDA x : x < v) = Below(b, v)
      /\ HowMany(s, LAMBDA x : x >= v) = Size(s) - Below(s, v)
    BY <1>3, AtOrAbove DEF HowMany, Below, IsListed
<1> QED BY <1>1, <1>4, <1>5 DEF Attainable

\* The tandem costs that are reported, pooled and for each attack, are costs at a
\* threshold: where bonafide and spoof scores are equal, no point between them is
\* ever the cheapest.
THEOREM TiesAlwaysFairlyCounted == StudySpec => []TiesNeverFlatter
<1>1. ASSUME SweepInv, TandemInv PROVE TiesNeverFlatter
  <2> SUFFICES ASSUME stage = "done", "pooled" \in DOMAIN spoofReport.tandem
               PROVE  LET bonafide == Support(SpoofTrials("evaluation", "bonafide"))
                      IN  /\ Attainable(bonafide, Support(SpoofTrials("evaluation", "spoof")),
                                        spoofReport.tandem.pooled)
                          /\ \A a \in AttackIds :
                                 Attainable(bonafide, Support(OfAttack(a)),
                                            spoofReport.tandem.attacks[a])
      BY DEF TiesNeverFlatter
  <2> DEFINE b == Support(SpoofTrials("evaluation", "bonafide"))
             s == Support(SpoofTrials("evaluation", "spoof"))
             of(a) == Support(OfAttack(a))
             c == AsvCoefficients
  <2>1. /\ IsFiniteSet(DOMAIN spoofTrials) /\ SpoofManifestOK(spoofTrials)
        /\ DOMAIN spoofTrials \subseteq Nat /\ HasLogits
      BY <1>1 DEF SweepInv, TandemInv
  <2>2. IsListed(b) /\ IsListed(s) /\ \A a \in AttackIds : IsListed(of(a))
      BY <2>1, SupportListed, TrialsPlayed
  <2>3. /\ CoefficientsOK(c) /\ spoofReport.tandem.pooled = TandemMinimum(c, b, s)
        /\ \A a \in AttackIds : spoofReport.tandem.attacks[a] = TandemMinimum(c, b, of(a))
    <3>1. spoofReport.tandem = EvaluateTandem
        BY <1>1 DEF TandemInv
    <3>2. ~CoefficientsOK(c) => EvaluateTandem = [coefficients |-> c]
        BY DEF EvaluateTandem
    <3>3. CoefficientsOK(c) =>
              /\ EvaluateTandem.pooled = TandemMinimum(c, b, s)
              /\ \A a \in AttackIds : EvaluateTandem.attacks[a] = TandemMinimum(c, b, of(a))
        BY DEF EvaluateTandem
    <3> HIDE DEF c, b, s, of
    <3>4. "pooled" \notin DOMAIN [coefficients |-> c]
        OBVIOUS
    <3> QED BY <3>1, <3>2, <3>3, <3>4
  <2>4. c.c1 \in Nat \ {0} /\ c.c2 \in Nat \ {0}
      BY <1>1, <2>3, CoefficientNumbers DEF TandemInv
  <2> HIDE DEF b, s, of, c
  <2>5. /\ Attainable(b, s, TandemMinimum(c, b, s))
        /\ \A a \in AttackIds : Attainable(b, of(a), TandemMinimum(c, b, of(a)))
      BY <2>2, <2>4, MinimumAttained
  <2> QED BY <2>3, <2>5 DEF b, s, of
<1> QED BY <1>1, SweepInit, SweepStep, TandemInit, TandemStep, PTL DEF StudySpec

-----------------------------------------------------------------------------
(* The parts of a report                                                     *)

AnyOf(s) == CHOOSE x \in s : TRUE

\* g sums F over the subsets of C, member by member.
SumsUp(g, F, C) ==
    g = [s \in SUBSET C |-> IF s = {} THEN 0 ELSE F[AnyOf(s)] + g[s \ {AnyOf(s)}]]

LEMMA SumExists ==
    ASSUME NEW C, IsFiniteSet(C), NEW F
    PROVE  \E g : SumsUp(g, F, C)
<1> DEFINE Small(n) == {s \in SUBSET C : Cardinality(s) <= n}
           Step(g, s) == IF s = {} THEN 0 ELSE F[AnyOf(s)] + g[s \ {AnyOf(s)}]
           Solves(g, n) == g = [s \in Small(n) |-> Step(g, s)]
           Unsolved == {n \in Nat : ~ \E g : Solves(g, n)}
<1>1. \A s \in SUBSET C : IsFiniteSet(s) /\ Cardinality(s) \in Nat
                          /\ Cardinality(s) <= Cardinality(C)
    BY FS_Subset, FS_CardinalityType
<1>2. \A s \in SUBSET C : s # {} => /\ AnyOf(s) \in s /\ s \ {AnyOf(s)} \in SUBSET C
                                    /\ Cardinality(s \ {AnyOf(s)}) = Cardinality(s) - 1
  <2> TAKE s \in SUBSET C
  <2> HAVE s # {}
  <2>1. AnyOf(s) \in s
      BY DEF AnyOf
  <2>2. Cardinality(s \ {AnyOf(s)}) = Cardinality(s) - 1
      BY <1>1, <2>1, FS_RemoveElement
  <2> QED BY <2>1, <2>2
<1>3. Cardinality(C) \in Nat /\ Small(Cardinality(C)) = SUBSET C
    BY <1>1, FS_CardinalityType
<1>4. ASSUME Unsolved # {} PROVE FALSE
  <2>1. PICK n \in Unsolved : \A m \in Unsolved : n <= m
    <3>1. Unsolved \subseteq Nat
        OBVIOUS
    <3> HIDE DEF Unsolved
    <3> QED BY <1>4, <3>1, LeastNatural
  <2>2. n \in Nat /\ ~ \E g : Solves(g, n)
      BY <2>1
  <2>3. CASE n = 0
    <3> DEFINE g == [s \in Small(0) |-> 0]
    <3>1. \A s \in Small(0) : s = {}
      <4>1. \A s \in SUBSET C : Cardinality(s) <= 0 => Cardinality(s) = 0
          BY <1>1
      <4> QED BY <1>1, <4>1, FS_EmptySet
    <3>2. Solves(g, 0)
        BY <3>1
    <3> QED BY <2>2, <2>3, <3>2
  <2>4. CASE n # 0
    <3>1. n - 1 \in Nat /\ ~(n <= n - 1)
        BY <2>2, <2>4
    <3>2. n - 1 \notin Unsolved
      <4> HIDE DEF Unsolved
      <4> QED BY <2>1, <3>1
    <3>3. PICK g : Solves(g, n - 1)
      <4> HIDE DEF Solves
      <4> QED BY <3>1, <3>2
    <3> DEFINE h == [s \in Small(n) |-> Step(g, s)]
    <3>4. ASSUME NEW s \in Small(n)
          PROVE  Step(h, s) = Step(g, s)
      <4>1. CASE s = {}
          BY <4>1
      <4>2. CASE s # {}
        <5> DEFINE r == s \ {AnyOf(s)}
        <5>1. r \in SUBSET C /\ Cardinality(r) = Cardinality(s) - 1 /\ Cardinality(s) \in Nat
            BY <1>1, <1>2, <3>4, <4>2
        <5>2. Cardinality(r) <= n - 1 /\ Cardinality(r) <= n
            BY <2>2, <3>4, <5>1
        <5>3. r \in Small(n - 1) /\ r \in Small(n)
            BY <5>1, <5>2
        <5>4. g[r] = Step(g, r)
            BY <3>3, <5>3
        <5>5. h[r] = Step(g, r)
            BY <5>3
        <5> QED BY <4>2, <5>4, <5>5
      <4> QED BY <4>1, <4>2
    <3>5. h = [s \in Small(n) |-> Step(h, s)]
      <4> DEFINE k == [s \in Small(n) |-> Step(h, s)]
      <4>1. DOMAIN h = Small(n) /\ \A s \in Small(n) : h[s] = Step(h, s)
          BY <3>4
      <4> HIDE DEF Step, Small
      <4> QED BY <3>4
    <3> QED BY <2>2, <3>5
  <2> QED BY <2>3, <2>4
<1>5. PICK g : Solves(g, Cardinality(C))
    BY <1>3, <1>4
<1>6. g = [s \in SUBSET C |-> Step(g, s)]
  <2> HIDE DEF Step, Small
  <2> QED BY <1>3, <1>5
<1> QED BY <1>6 DEF SumsUp

\* The members that h puts in each part, and those it puts in any.
LEMMA PartsAddUp ==
    ASSUME NEW C, IsFiniteSet(C), NEW D, IsFiniteSet(D), NEW h, NEW F, NEW g, SumsUp(g, F, C),
           \A c \in C : F[c] = Cardinality({k \in D : h[k] = c})
    PROVE  g[C] = Cardinality({k \in D : h[k] \in C})
<1> DEFINE In(s) == {k \in D : h[k] \in s}
           Wrong(s) == g[s] # Cardinality(In(s))
           Sizes == {n \in Nat : \E s \in SUBSET C : Cardinality(s) = n /\ Wrong(s)}
<1>1. \A s \in SUBSET C : IsFiniteSet(s) /\ Cardinality(s) \in Nat
    BY FS_Subset, FS_CardinalityType
<1>2. \A s : IsFiniteSet(In(s)) /\ Cardinality(In(s)) \in Nat
  <2> TAKE s
  <2>1. In(s) \subseteq D
      OBVIOUS
  <2> HIDE DEF In
  <2> QED BY <2>1, FS_Subset, FS_CardinalityType
<1>3. ASSUME Sizes # {} PROVE FALSE
  <2>1. PICK n \in Sizes : \A m \in Sizes : n <= m
    <3>1. Sizes \subseteq Nat
        OBVIOUS
    <3> HIDE DEF Sizes
    <3> QED BY <1>3, <3>1, LeastNatural
  <2>2. PICK s \in SUBSET C : Cardinality(s) = n /\ Wrong(s)
      BY <2>1
  <2>3. CASE s = {}
    <3>1. In(s) = {} /\ g[s] = 0
        BY <2>3 DEF SumsUp
    <3> HIDE DEF In
    <3> QED BY <2>2, <3>1, FS_EmptySet
  <2>4. CASE s # {}
    <3> DEFINE x == AnyOf(s)
               r == s \ {x}
               X == {k \in D : h[k] = x}
    <3>1. x \in s /\ x \in C /\ r \in SUBSET C
        BY <2>4 DEF AnyOf
    <3>2. g[s] = F[x] + g[r]
        BY <2>4 DEF SumsUp
    <3>3. F[x] = Cardinality(X)
        BY <3>1
    <3>4. Cardinality(r) = n - 1 /\ Cardinality(r) \in Nat /\ n \in Nat
        BY <1>1, <2>2, <3>1, FS_RemoveElement
    <3>5. g[r] = Cardinality(In(r))
      <4>1. n - 1 \notin Sizes
          BY <2>1, <3>4
      <4> HIDE DEF r
      <4> QED BY <3>1, <3>4, <4>1
    <3>6. X \cup In(r) = In(s) /\ X \cap In(r) = {}
        BY <3>1
    <3>7. IsFiniteSet(X) /\ Cardinality(X) \in Nat
      <4>1. X \subseteq D
          OBVIOUS
      <4> HIDE DEF X
      <4> QED BY <4>1, FS_Subset, FS_CardinalityType
    <3> HIDE DEF In, X, r, x
    <3>8. Cardinality(In(s)) = Cardinality(X) + Cardinality(In(r)) - Cardinality({})
        BY <1>2, <3>6, <3>7, FS_Union
    <3> QED BY <1>2, <2>2, <3>2, <3>3, <3>5, <3>7, <3>8, FS_EmptySet
  <2> QED BY <2>3, <2>4
<1>4. Cardinality(C) \notin Sizes
    BY <1>3
<1> QED BY <1>1, <1>4

LEMMA SumOfSums ==
    ASSUME NEW F, IsFiniteSet(DOMAIN F)
    PROVE  \E g : SumsUp(g, F, DOMAIN F) /\ SumOf(F) = g[DOMAIN F]
<1> DEFINE C == DOMAIN F
           sum == CHOOSE g : SumsUp(g, F, C)
<1>1. \E g : SumsUp(g, F, C)
    BY SumExists
<1>2. SumsUp(sum, F, C)
    BY <1>1, Zenon
<1>3. SumOf(F) = sum[C]
    BY Zenon DEF SumOf, FoldFunction, FoldFunctionOnSet, MapThenFoldSet, AnyOf, SumsUp
<1> HIDE DEF sum
<1> QED BY <1>2, <1>3

\* F has, for each part that it names, the number of its members in D.
CountsParts(F, D, h) == \A c \in DOMAIN F : F[c] = Cardinality({k \in D : h[k] = c})

LEMMA SumOfParts ==
    ASSUME NEW F, IsFiniteSet(DOMAIN F), NEW D, IsFiniteSet(D), NEW h, CountsParts(F, D, h)
    PROVE  /\ SumOf(F) <= Cardinality(D)
           /\ (\A k \in D : h[k] \in DOMAIN F) => SumOf(F) = Cardinality(D)
<1>1. PICK g : SumsUp(g, F, DOMAIN F) /\ SumOf(F) = g[DOMAIN F]
    BY SumOfSums
<1>2. SumOf(F) = Cardinality({k \in D : h[k] \in DOMAIN F})
    BY <1>1, PartsAddUp DEF CountsParts
<1>3. Cardinality({k \in D : h[k] \in DOMAIN F}) <= Cardinality(D)
    BY FS_Subset
<1>4. (\A k \in D : h[k] \in DOMAIN F) => {k \in D : h[k] \in DOMAIN F} = D
    OBVIOUS
<1> QED BY <1>2, <1>3, <1>4

LEMMA ImageFinite ==
    ASSUME NEW f, IsFiniteSet(DOMAIN f)
    PROVE  IsFiniteSet(Range(f))
<1> DEFINE h == [k \in DOMAIN f |-> f[k]]
<1>1. h \in Surjection(DOMAIN f, Range(f))
    BY DEF Surjection, Range
<1> QED BY <1>1, FS_Surjection

\* The trials of a report: their conditions, those of a label, the impostors accepted.
ConditionOf(trials) == [k \in DOMAIN trials |-> trials[k].condition]

Labelled(trials, label) == {k \in DOMAIN trials : trials[k].label = label}

FalselyAccepted(trials, t) ==
    {k \in DOMAIN trials : trials[k].label = "impostor" /\ trials[k].score >= t}

\* What the conditions of a report count.
GenuineOf(parts) == [c \in DOMAIN parts |-> parts[c].genuine_trials]

ImpostorsOf(parts) == [c \in DOMAIN parts |-> parts[c].impostor_trials]

AcceptsOf(parts) ==
    [c \in {x \in DOMAIN parts : parts[x].rates # {}} |->
        (CHOOSE r \in parts[c].rates : TRUE).false_accepts]

LEMMA ConditionParts ==
    ASSUME NEW trials, NEW t, NEW parts, parts = EvaluateConditions(trials, t),
           NEW whole, whole = EvaluatePartition(trials, t).locked
    PROVE  /\ DOMAIN parts = Range(ConditionOf(trials))
           /\ whole.genuine_trials = Cardinality(Labelled(trials, "genuine"))
           /\ whole.impostor_trials = Cardinality(Labelled(trials, "impostor"))
           /\ whole.false_accepts = Cardinality(FalselyAccepted(trials, t))
           /\ CountsParts(GenuineOf(parts), Labelled(trials, "genuine"), ConditionOf(trials))
           /\ CountsParts(ImpostorsOf(parts), Labelled(trials, "impostor"), ConditionOf(trials))
           /\ CountsParts(AcceptsOf(parts), FalselyAccepted(trials, t), ConditionOf(trials))
<1> DEFINE condition == ConditionOf(trials)
           Of(label) == Labelled(trials, label)
           accepted == FalselyAccepted(trials, t)
           In(c) == RestrictValues(trials, LAMBDA x : x.condition = c)
<1> USE DEF ConditionOf, Labelled, FalselyAccepted
<1>1. Range(condition) = {x.condition : x \in Range(trials)}
    BY DEF Range
<1>2. \A c : /\ DOMAIN In(c) = {k \in DOMAIN trials : trials[k].condition = c}
             /\ \A k \in DOMAIN In(c) : In(c)[k] = trials[k]
    BY DEF RestrictValues, Restrict
<1> HIDE DEF In
<1>3. \A f, label : /\ DOMAIN ScoresOf(f, label) = {k \in DOMAIN f : f[k].label = label}
                    /\ \A k \in DOMAIN ScoresOf(f, label) : ScoresOf(f, label)[k] = f[k].score
    BY DEF ScoresOf, RestrictValues, Restrict
<1>4. \A g, i : /\ RatesAtThreshold(g, i, t).genuine_trials = Cardinality(DOMAIN g)
                /\ RatesAtThreshold(g, i, t).impostor_trials = Cardinality(DOMAIN i)
                /\ RatesAtThreshold(g, i, t).false_accepts
                       = Cardinality({k \in DOMAIN i : i[k] >= t})
    BY DEF RatesAtThreshold, Size, HowMany
<1>5. /\ whole.genuine_trials = Cardinality(Of("genuine"))
      /\ whole.impostor_trials = Cardinality(Of("impostor"))
      /\ whole.false_accepts = Cardinality(accepted)
  <2> DEFINE g == ScoresOf(trials, "genuine")
             i == ScoresOf(trials, "impostor")
  <2>1. whole = RatesAtThreshold(g, i, t)
      BY DEF EvaluatePartition
  <2>2. DOMAIN g = Of("genuine") /\ DOMAIN i = Of("impostor")
      BY <1>3
  <2>3. {k \in DOMAIN i : i[k] >= t} = accepted
    <3>1. \A k \in DOMAIN i : i[k] = trials[k].score
        BY <1>3
    <3> HIDE DEF i
    <3> QED BY <2>2, <3>1
  <2> HIDE DEF g, i, accepted, Of
  <2> QED BY <1>4, <2>1, <2>2, <2>3
<1>6. ASSUME NEW c
      PROVE  LET g == ScoresOf(In(c), "genuine")
                 i == ScoresOf(In(c), "impostor")
             IN  /\ DOMAIN g = {k \in Of("genuine") : condition[k] = c}
                 /\ DOMAIN i = {k \in Of("impostor") : condition[k] = c}
                 /\ {k \in DOMAIN i : i[k] >= t} = {k \in accepted : condition[k] = c}
  <2> DEFINE f == In(c)
             g == ScoresOf(f, "genuine")
             i == ScoresOf(f, "impostor")
  <2>1. /\ DOMAIN f = {k \in DOMAIN trials : trials[k].condition = c}
        /\ \A k \in DOMAIN f : f[k] = trials[k]
      BY <1>2
  <2> HIDE DEF f
  <2>2. /\ DOMAIN g = {k \in DOMAIN f : f[k].label = "genuine"}
        /\ DOMAIN i = {k \in DOMAIN f : f[k].label = "impostor"}
        /\ \A k \in DOMAIN i : i[k] = f[k].score
      BY <1>3
  <2> HIDE DEF g, i
  <2>3. DOMAIN g = {k \in Of("genuine") : condition[k] = c}
      BY <2>1, <2>2
  <2>4. DOMAIN i = {k \in Of("impostor") : condition[k] = c}
      BY <2>1, <2>2
  <2>5. \A k \in DOMAIN i : i[k] = trials[k].score
      BY <2>1, <2>2
  <2>6. {k \in DOMAIN i : i[k] >= t} = {k \in accepted : condition[k] = c}
      BY <2>4, <2>5
  <2> QED BY <2>3, <2>4, <2>6 DEF f, g, i
<1>7. ASSUME NEW c \in Range(condition)
      PROVE  LET g == ScoresOf(In(c), "genuine")
                 i == ScoresOf(In(c), "impostor")
             IN  /\ parts[c].genuine_trials = Cardinality(DOMAIN g)
                 /\ parts[c].impostor_trials = Cardinality(DOMAIN i)
                 /\ parts[c].rates # {} =>
                        (CHOOSE r \in parts[c].rates : TRUE) = RatesAtThreshold(g, i, t)
  <2> DEFINE g == ScoresOf(In(c), "genuine")
             i == ScoresOf(In(c), "impostor")
             rates == IF Size(g) > 0 /\ Size(i) > 0 THEN {RatesAtThreshold(g, i, t)} ELSE {}
  <2>1. parts[c] = [genuine_trials |-> Size(g), impostor_trials |-> Size(i), rates |-> rates]
    <3> HIDE DEF condition
    <3> QED BY <1>1 DEF EvaluateConditions, In
  <2> HIDE DEF g, i
  <2>2. rates # {} => rates = {RatesAtThreshold(g, i, t)}
      OBVIOUS
  <2>3. \A x : (CHOOSE r \in {x} : TRUE) = x
      OBVIOUS
  <2>4. parts[c].genuine_trials = Size(g) /\ parts[c].impostor_trials = Size(i)
        /\ parts[c].rates = rates
      BY <2>1
  <2> HIDE DEF rates
  <2> QED BY <2>2, <2>3, <2>4 DEF Size, g, i
<1>8. DOMAIN parts = Range(condition)
    BY <1>1 DEF EvaluateConditions
<1> HIDE DEF condition, Of, accepted, In, ConditionOf, Labelled, FalselyAccepted
<1>9. ASSUME NEW c \in Range(condition)
      PROVE  /\ parts[c].genuine_trials = Cardinality({k \in Of("genuine") : condition[k] = c})
             /\ parts[c].impostor_trials = Cardinality({k \in Of("impostor") : condition[k] = c})
             /\ parts[c].rates # {} =>
                    (CHOOSE r \in parts[c].rates : TRUE).false_accepts
                        = Cardinality({k \in accepted : condition[k] = c})
  <2> DEFINE g == ScoresOf(In(c), "genuine")
             i == ScoresOf(In(c), "impostor")
  <2>1. RatesAtThreshold(g, i, t).false_accepts = Cardinality({k \in DOMAIN i : i[k] >= t})
      BY <1>4
  <2> QED BY <1>6, <1>7, <2>1
<1>10. /\ CountsParts(GenuineOf(parts), Of("genuine"), condition)
       /\ CountsParts(ImpostorsOf(parts), Of("impostor"), condition)
       /\ CountsParts(AcceptsOf(parts), accepted, condition)
    BY <1>8, <1>9 DEF CountsParts, GenuineOf, ImpostorsOf, AcceptsOf
<1> QED BY <1>5, <1>8, <1>10 DEF condition, Of, accepted

LEMMA ConditionsAddUp ==
    ASSUME CalibrationInv, report # None
    PROVE  LET whole == report.evaluation.locked
               parts == report.evaluation_conditions
               rated == {c \in DOMAIN parts : parts[c].rates # {}}
           IN  /\ SumOf([c \in DOMAIN parts |-> parts[c].genuine_trials]) = whole.genuine_trials
               /\ SumOf([c \in DOMAIN parts |-> parts[c].impostor_trials]) = whole.impostor_trials
               /\ SumOf([c \in rated |-> (CHOOSE r \in parts[c].rates : TRUE).false_accepts])
                      <= whole.false_accepts
<1> DEFINE trials == TrialsFor(report.trials, "evaluation")
           whole == report.evaluation.locked
           parts == report.evaluation_conditions
           G == GenuineOf(parts)
           I == ImpostorsOf(parts)
           A == AcceptsOf(parts)
<1>1. IsTrials(report.trials) /\ report = EvaluateScoredTrials(report.trials)
    BY DEF CalibrationInv
<1>2. PICK t : /\ whole = EvaluatePartition(trials, t).locked
               /\ parts = EvaluateConditions(trials, t)
  <2>1. \E t : EvaluateScoredTrials(report.trials).evaluation = EvaluatePartition(trials, t)
               /\ EvaluateScoredTrials(report.trials).evaluation_conditions
                      = EvaluateConditions(trials, t)
      BY DEF EvaluateScoredTrials
  <2> QED BY <1>1, <2>1
<1>3. IsFiniteSet(DOMAIN trials)
  <2>1. DOMAIN trials \subseteq DOMAIN report.trials
      BY DEF TrialsFor, RestrictValues, Restrict
  <2> QED BY <1>1, <2>1, FS_Subset DEF IsTrials
<1> HIDE DEF trials, whole, parts
<1>4. /\ DOMAIN parts = Range(ConditionOf(trials))
      /\ whole.genuine_trials = Cardinality(Labelled(trials, "genuine"))
      /\ whole.impostor_trials = Cardinality(Labelled(trials, "impostor"))
      /\ whole.false_accepts = Cardinality(FalselyAccepted(trials, t))
      /\ CountsParts(G, Labelled(trials, "genuine"), ConditionOf(trials))
      /\ CountsParts(I, Labelled(trials, "impostor"), ConditionOf(trials))
      /\ CountsParts(A, FalselyAccepted(trials, t), ConditionOf(trials))
    BY <1>2, ConditionParts
<1>5. /\ DOMAIN G = DOMAIN parts /\ DOMAIN I = DOMAIN parts
      /\ DOMAIN A \subseteq DOMAIN parts
    BY DEF GenuineOf, ImpostorsOf, AcceptsOf
<1>6. IsFiniteSet(DOMAIN parts) /\ IsFiniteSet(DOMAIN A)
  <2>1. IsFiniteSet(DOMAIN ConditionOf(trials))
      BY <1>3 DEF ConditionOf
  <2>2. IsFiniteSet(DOMAIN parts)
      BY <1>4, <2>1, ImageFinite
  <2> QED BY <1>5, <2>2, FS_Subset
<1>7. /\ IsFiniteSet(FalselyAccepted(trials, t))
      /\ \A label : IsFiniteSet(Labelled(trials, label))
  <2>1. /\ FalselyAccepted(trials, t) \subseteq DOMAIN trials
        /\ \A label : Labelled(trials, label) \subseteq DOMAIN trials
      BY DEF FalselyAccepted, Labelled
  <2> QED BY <1>3, <2>1, FS_Subset
<1>8. \A label : \A k \in Labelled(trials, label) : ConditionOf(trials)[k] \in DOMAIN parts
    BY <1>4 DEF ConditionOf, Labelled, Range
<1>9. SumOf(G) = whole.genuine_trials
    BY <1>4, <1>5, <1>6, <1>7, <1>8, SumOfParts
<1>10. SumOf(I) = whole.impostor_trials
    BY <1>4, <1>5, <1>6, <1>7, <1>8, SumOfParts
<1>11. SumOf(A) <= whole.false_accepts
    BY <1>4, <1>6, <1>7, SumOfParts
<1> QED BY <1>9, <1>10, <1>11 DEF GenuineOf, ImpostorsOf, AcceptsOf, whole, parts

\* The countermeasure's report breaks its evaluation down at the same threshold.
BreakdownInv ==
    stage = "done" =>
        /\ spoofReport.evaluation.locked = Rated("evaluation", SelectedThreshold)
        /\ spoofReport.evaluation_attacks = EvaluateAttacks(SelectedThreshold)

LEMMA BreakdownInit ==
    ASSUME StudyInit PROVE BreakdownInv
BY DEF StudyInit, SpoofInit, BreakdownInv

LEMMA BreakdownStep ==
    ASSUME BreakdownInv, [StudyNext]_studyVars PROVE BreakdownInv'
<1>1. UNCHANGED spoofTrials
    BY DEF StudyNext, SpoofNext, LoadSpoofScores, SweepThreshold, SweepEnds, ReportSpoof,
           studyVars, spoofVars
<1>2. stage' = "done" =>
          \/ stage = "done" /\ spoofReport' = spoofReport /\ swept' = swept
          \/ /\ swept' = swept
             /\ spoofReport'.evaluation = EvaluateSpoofPartition("evaluation", SelectedThreshold)
             /\ spoofReport'.evaluation_attacks = EvaluateAttacks(SelectedThreshold)
  <2>1. CASE UNCHANGED spoofVars
      BY <2>1 DEF spoofVars
  <2>2. CASE SpoofNext
      BY <2>2 DEF SpoofNext, LoadSpoofScores, SweepThreshold, SweepEnds, ReportSpoof
  <2> QED BY <2>1, <2>2 DEF StudyNext, studyVars
<1>3. ASSUME swept' = swept
      PROVE  /\ Rated("evaluation", SelectedThreshold)' = Rated("evaluation", SelectedThreshold)
             /\ EvaluateAttacks(SelectedThreshold)' = EvaluateAttacks(SelectedThreshold)
  <2>1. SelectedThreshold' = SelectedThreshold
      BY <1>3 DEF SelectedThreshold
  <2>2. SpoofTrials("evaluation", "spoof")' = SpoofTrials("evaluation", "spoof")
      BY <1>1 DEF SpoofTrials, RestrictValues, Restrict
  <2>3. Attacks' = Attacks
      BY <2>2 DEF Attacks
  <2>4. EvaluateAttacks(SelectedThreshold)' = EvaluateAttacks(SelectedThreshold)
      BY <2>1, <2>2, <2>3
         DEF EvaluateAttacks, Accepted, HowMany, Size, RestrictValues, Restrict
  <2>5. Rated("evaluation", SelectedThreshold)' = Rated("evaluation", SelectedThreshold)
      BY <1>1, <2>1, Frozen DEF Rated
  <2> QED BY <2>4, <2>5
<1>4. EvaluateSpoofPartition("evaluation", SelectedThreshold).locked
          = Rated("evaluation", SelectedThreshold)
    BY DEF EvaluateSpoofPartition, Rated
<1> QED BY <1>2, <1>3, <1>4 DEF BreakdownInv

\* The spoof trials of a report: their attacks, those accepted.
AttackOf(trials) == [k \in DOMAIN trials |-> trials[k].attack_category]

Deceived(trials, t) == {k \in DOMAIN trials : trials[k].spoof_probability < t}

LEMMA AttackParts ==
    ASSUME NEW t, NEW trials, trials = SpoofTrials("evaluation", "spoof"),
           NEW parts, parts = EvaluateAttacks(t)
    PROVE  /\ DOMAIN parts = Range(AttackOf(trials))
           /\ Rated("evaluation", t).spoof_trials = Cardinality(DOMAIN trials)
           /\ Rated("evaluation", t).spoof_accepts = Cardinality(Deceived(trials, t))
           /\ CountsParts([a \in DOMAIN parts |-> parts[a].spoof_trials],
                          DOMAIN trials, AttackOf(trials))
           /\ CountsParts([a \in DOMAIN parts |-> parts[a].spoof_accepts],
                          Deceived(trials, t), AttackOf(trials))
<1> DEFINE attack == AttackOf(trials)
           accepted == Deceived(trials, t)
           In(a) == RestrictValues(trials, LAMBDA x : x.attack_category = a)
           p == Probabilities("evaluation", "spoof")
<1> USE DEF AttackOf, Deceived
<1>1. Range(attack) = Attacks
    BY DEF Range, Attacks
<1>2. \A a : /\ DOMAIN In(a) = {k \in DOMAIN trials : trials[k].attack_category = a}
             /\ \A k \in DOMAIN In(a) : In(a)[k] = trials[k]
    BY DEF RestrictValues, Restrict
<1>3. DOMAIN p = DOMAIN trials /\ \A k \in DOMAIN p : p[k] = trials[k].spoof_probability
    BY DEF Probabilities
<1>4. /\ DOMAIN parts = Attacks
      /\ \A a \in Attacks :
             /\ parts[a].spoof_trials = Cardinality(DOMAIN In(a))
             /\ parts[a].spoof_accepts
                    = Cardinality({k \in DOMAIN In(a) : In(a)[k].spoof_probability < t})
    BY DEF EvaluateAttacks, Accepted, HowMany, Size
<1>5. /\ Rated("evaluation", t).spoof_trials = Cardinality(DOMAIN p)
      /\ Rated("evaluation", t).spoof_accepts = Cardinality({k \in DOMAIN p : p[k] < t})
  <2> HIDE DEF p
  <2> QED BY DEF Rated, CountermeasureRates, HowMany, Size, p
<1> HIDE DEF In, p
<1>6. {k \in DOMAIN p : p[k] < t} = accepted
    BY <1>3
<1>7. ASSUME NEW a
      PROVE  /\ DOMAIN In(a) = {k \in DOMAIN trials : attack[k] = a}
             /\ {k \in DOMAIN In(a) : In(a)[k].spoof_probability < t}
                    = {k \in accepted : attack[k] = a}
  <2> DEFINE f == In(a)
  <2>1. /\ DOMAIN f = {k \in DOMAIN trials : trials[k].attack_category = a}
        /\ \A k \in DOMAIN f : f[k] = trials[k]
      BY <1>2
  <2> HIDE DEF f
  <2>2. /\ DOMAIN f = {k \in DOMAIN trials : attack[k] = a}
        /\ {k \in DOMAIN f : f[k].spoof_probability < t} = {k \in accepted : attack[k] = a}
      BY <2>1
  <2> QED BY <2>2 DEF f
<1> HIDE DEF attack, accepted, AttackOf, Deceived
<1>8. ASSUME NEW a \in DOMAIN parts
      PROVE  /\ parts[a].spoof_trials = Cardinality({k \in DOMAIN trials : attack[k] = a})
             /\ parts[a].spoof_accepts = Cardinality({k \in accepted : attack[k] = a})
    BY <1>4, <1>7
<1>9. /\ CountsParts([a \in DOMAIN parts |-> parts[a].spoof_trials], DOMAIN trials, attack)
      /\ CountsParts([a \in DOMAIN parts |-> parts[a].spoof_accepts], accepted, attack)
    BY <1>8 DEF CountsParts
<1> QED BY <1>1, <1>3, <1>4, <1>5, <1>6, <1>9 DEF attack, accepted

LEMMA AttacksAddUp ==
    ASSUME SweepInv, BreakdownInv, stage = "done"
    PROVE  LET whole == spoofReport.evaluation.locked
               parts == spoofReport.evaluation_attacks
           IN  /\ SumOf([a \in DOMAIN parts |-> parts[a].spoof_trials]) = whole.spoof_trials
               /\ SumOf([a \in DOMAIN parts |-> parts[a].spoof_accepts]) = whole.spoof_accepts
<1> DEFINE trials == SpoofTrials("evaluation", "spoof")
           t == SelectedThreshold
           whole == spoofReport.evaluation.locked
           parts == spoofReport.evaluation_attacks
           N == [a \in DOMAIN parts |-> parts[a].spoof_trials]
           A == [a \in DOMAIN parts |-> parts[a].spoof_accepts]
<1>1. whole = Rated("evaluation", t) /\ parts = EvaluateAttacks(t)
    BY DEF BreakdownInv
<1>2. IsFiniteSet(DOMAIN trials)
  <2>1. DOMAIN trials \subseteq DOMAIN spoofTrials
      BY DEF SpoofTrials, RestrictValues, Restrict
  <2> QED BY <2>1, FS_Subset DEF SweepInv
<1> HIDE DEF t, whole, parts
<1>3. /\ DOMAIN parts = Range(AttackOf(trials))
      /\ whole.spoof_trials = Cardinality(DOMAIN trials)
      /\ whole.spoof_accepts = Cardinality(Deceived(trials, t))
      /\ CountsParts(N, DOMAIN trials, AttackOf(trials))
      /\ CountsParts(A, Deceived(trials, t), AttackOf(trials))
    BY <1>1, AttackParts
<1>4. DOMAIN N = DOMAIN parts /\ DOMAIN A = DOMAIN parts
    OBVIOUS
<1> HIDE DEF N, A, trials
<1>5. IsFiniteSet(Deceived(trials, t)) /\ IsFiniteSet(DOMAIN parts)
  <2>1. IsFiniteSet(DOMAIN AttackOf(trials))
      BY <1>2 DEF AttackOf
  <2>2. IsFiniteSet(DOMAIN parts)
      BY <1>3, <2>1, ImageFinite
  <2>3. Deceived(trials, t) \subseteq DOMAIN trials
      BY DEF Deceived
  <2> QED BY <1>2, <2>2, <2>3, FS_Subset
<1>6. /\ \A k \in DOMAIN trials : AttackOf(trials)[k] \in DOMAIN parts
      /\ \A k \in Deceived(trials, t) : AttackOf(trials)[k] \in DOMAIN parts
    BY <1>3 DEF AttackOf, Deceived, Range
<1>7. SumOf(N) = whole.spoof_trials
    BY <1>2, <1>3, <1>4, <1>5, <1>6, SumOfParts
<1>8. SumOf(A) = whole.spoof_accepts
    BY <1>3, <1>4, <1>5, <1>6, SumOfParts
<1> QED BY <1>7, <1>8 DEF N, A, whole, parts

\* Every trial of a report is counted in one of its parts and in no other, however
\* the trials are split into conditions and attacks, and the errors with them.
THEOREM BreakdownsAlwaysAddUp == StudySpec => []BreakdownsAddUp
<1>1. CalibrationInv /\ SweepInv /\ BreakdownInv => BreakdownsAddUp
    BY ConditionsAddUp, AttacksAddUp DEF BreakdownsAddUp
<1> QED BY <1>1, CalibrationInit, CalibrationStep, SweepInit, SweepStep, BreakdownInit,
           BreakdownStep, PTL DEF StudySpec
=============================================================================
