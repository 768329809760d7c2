------------------------- MODULE PreparedCorpus_proofs -------------------------
(***************************************************************************)
(* A published corpus is complete and always scores, its scores come from   *)
(* the recordings it names, and no run of scoring is refused at its end,    *)
(* for any corpus, configuration, and number of runs.                       *)
(***************************************************************************)
EXTENDS Countermeasure_proofs

-----------------------------------------------------------------------------
(* The members of a sequence at some of its places                           *)

Place(I, n) == CHOOSE i \in I : Cardinality({j \in I : j <= i}) = n

LEMMA PlaceFacts ==
    ASSUME NEW I, I \subseteq Int, IsFiniteSet(I), I # {}
    PROVE  /\ Cardinality(I) \in Nat
           /\ \A n \in 1..Cardinality(I) : Place(I, n) \in I
           /\ \A m, n \in 1..Cardinality(I) : Place(I, m) = Place(I, n) => m = n
<1> DEFINE f == [c \in I |-> c]
           at == Sorted(f)
           upTo(i) == {j \in I : j <= i}
<1>1. Cardinality(I) \in Nat
    BY FS_CardinalityType
<1>2. IsScores(f) /\ Size(f) = Cardinality(I) /\ Range(f) = I /\ DOMAIN f = I
    BY DEF IsScores, Size, Range
<1>3. \A n \in 1..Cardinality(I) : \E v : IsNth(f, n, v)
  <2> HIDE DEF f
  <2> QED BY <1>2, NthExists
<1>4. ASSUME NEW n \in 1..Cardinality(I)
      PROVE  \E i \in I : Cardinality(upTo(i)) = n
  <2>1. PICK i : IsNth(f, n, i)
      BY <1>3
  <2> DEFINE A == {k \in I : f[k] < i}
             B == {k \in I : f[k] <= i}
  <2>2. i \in I /\ Cardinality(A) < n /\ n <= Cardinality(B)
      BY <1>2, <2>1 DEF IsNth
  <2>3. B = upTo(i) /\ A = B \ {i} /\ i \in B /\ B \subseteq I
    <3>1. \A k \in I : f[k] = k /\ k \in Int
        OBVIOUS
    <3>2. \A k : (k \in A <=> k \in I /\ k < i) /\ (k \in B <=> k \in I /\ k <= i)
        BY <3>1
    <3>3. \A k \in Int : (k < i <=> k <= i /\ k # i) /\ i <= i
        BY <2>2
    <3> HIDE DEF A, B
    <3>4. \A k : k \in A <=> k \in B \ {i}
        BY <2>2, <3>1, <3>2, <3>3
    <3> QED BY <2>2, <3>1, <3>2, <3>3, <3>4
  <2> HIDE DEF A, B, upTo
  <2>4. IsFiniteSet(B)
      BY <2>3, FS_Subset
  <2>5. Cardinality(A) = Cardinality(B) - 1 /\ Cardinality(B) \in Nat
      BY <2>3, <2>4, FS_RemoveElement, FS_CardinalityType
  <2> QED BY <2>2, <2>3, <2>5
<1>5. \A n \in 1..Cardinality(I) : Place(I, n) \in I /\ Cardinality(upTo(Place(I, n))) = n
    BY <1>4 DEF Place
<1> HIDE DEF upTo
<1> QED BY <1>1, <1>5

\* Those members keep their places apart, and none comes from elsewhere.
LEMMA TakenFacts ==
    ASSUME NEW S, NEW s \in Seq(S), NEW I, I \subseteq DOMAIN s
    PROVE  /\ Cardinality(I) \in Nat
           /\ Taken(s, I) \in Seq({s[i] : i \in I}) /\ Len(Taken(s, I)) = Cardinality(I)
           /\ \A n \in 1..Cardinality(I) : /\ Place(I, n) \in I
                                           /\ Taken(s, I)[n] = s[Place(I, n)]
           /\ \A m, n \in 1..Cardinality(I) : Place(I, m) = Place(I, n) => m = n
<1>1. I \subseteq Int /\ IsFiniteSet(I)
  <2>1. DOMAIN s = 1..Len(s) /\ Len(s) \in Nat
      OBVIOUS
  <2>2. IsFiniteSet(DOMAIN s) /\ DOMAIN s \subseteq Int
      BY <2>1, FS_Interval
  <2> QED BY <2>2, FS_Subset
<1>2. Taken(s, I) = [n \in 1..Cardinality(I) |-> s[Place(I, n)]]
    BY DEF Taken, Place
<1>3. CASE I = {}
  <2>1. Cardinality(I) = 0
      BY <1>3, FS_EmptySet
  <2> QED BY <1>2, <1>3, <2>1
<1>4. CASE I # {}
    BY <1>1, <1>2, <1>4, PlaceFacts
<1> QED BY <1>3, <1>4

\* Where their order does not matter.
LEMMA TakenMembers ==
    ASSUME NEW S, NEW s \in Seq(S), NEW I, I \subseteq DOMAIN s
    PROVE  /\ Taken(s, I) \in Seq(S) /\ Len(Taken(s, I)) = Cardinality(I)
           /\ \A n \in DOMAIN Taken(s, I) : \E i \in I : Taken(s, I)[n] = s[i]
<1> DEFINE t == Taken(s, I)
<1>1. /\ Cardinality(I) \in Nat
      /\ t \in Seq({s[i] : i \in I}) /\ Len(t) = Cardinality(I)
      /\ \A n \in 1..Cardinality(I) : Place(I, n) \in I /\ t[n] = s[Place(I, n)]
    BY TakenFacts
<1> HIDE DEF t
<1>2. {s[i] : i \in I} \subseteq S
    OBVIOUS
<1>3. t \in Seq(S) /\ DOMAIN t = 1..Cardinality(I)
    BY <1>1, <1>2
<1> QED BY <1>1, <1>3 DEF t

LEMMA FirstOfFacts ==
    ASSUME NEW S, NEW s \in Seq(S), NEW n \in Nat
    PROVE  /\ FirstOf(s, n) \in Seq(S) /\ Len(FirstOf(s, n)) \in Nat
           /\ \A i \in DOMAIN FirstOf(s, n) : i \in DOMAIN s /\ FirstOf(s, n)[i] = s[i]
<1> DEFINE m == IF Len(s) < n THEN Len(s) ELSE n
<1>1. m \in 0..Len(s) /\ FirstOf(s, n) = SubSeq(s, 1, m)
    BY DEF FirstOf
<1> HIDE DEF m
<1>2. CASE m = 0
  <2>1. SubSeq(s, 1, 0) = <<>>
      OBVIOUS
  <2> QED BY <1>1, <1>2, <2>1
<1>3. CASE m \in 1..Len(s)
    BY <1>1, <1>3
<1> QED BY <1>1, <1>2, <1>3

LEMMA Joined ==
    ASSUME NEW S, NEW s \in Seq(S), NEW t \in Seq(S)
    PROVE  /\ s \o t \in Seq(S) /\ DOMAIN (s \o t) = 1..(Len(s) + Len(t))
           /\ Len(s \o t) = Len(s) + Len(t)
           /\ \A i \in 1..Len(s) : (s \o t)[i] = s[i]
           /\ \A i \in 1..Len(t) : (s \o t)[Len(s) + i] = t[i]
           /\ \A i \in 1..(Len(s) + Len(t)) :
                  i \in 1..Len(s) \/ \E k \in 1..Len(t) : i = Len(s) + k
<1>1. \A i \in 1..(Len(s) + Len(t)) :
          i \in 1..Len(s) \/ \E k \in 1..Len(t) : i = Len(s) + k
  <2> TAKE i \in 1..(Len(s) + Len(t))
  <2>1. i \in 1..Len(s) \/ i - Len(s) \in 1..Len(t)
      OBVIOUS
  <2>2. i = Len(s) + (i - Len(s))
      OBVIOUS
  <2> QED BY <2>1, <2>2
<1> QED BY <1>1

\* Speakers have ids of their own.
Apart(s) == \A i, j \in DOMAIN s : s[i].speaker_id = s[j].speaker_id => i = j

LEMMA TakenApart ==
    ASSUME NEW S, NEW s \in Seq(S), Apart(s), NEW I, I \subseteq DOMAIN s
    PROVE  Apart(Taken(s, I)) /\ Taken(s, I) \in Seq(S)
<1> DEFINE t == Taken(s, I)
<1>1. /\ Cardinality(I) \in Nat
      /\ t \in Seq({s[i] : i \in I}) /\ Len(t) = Cardinality(I)
      /\ \A n \in 1..Cardinality(I) : Place(I, n) \in I /\ t[n] = s[Place(I, n)]
      /\ \A m, n \in 1..Cardinality(I) : Place(I, m) = Place(I, n) => m = n
    BY TakenFacts
<1> HIDE DEF t
<1>2. DOMAIN t = 1..Cardinality(I)
    BY <1>1
<1>3. Apart(t)
  <2> SUFFICES ASSUME NEW m \in DOMAIN t, NEW n \in DOMAIN t,
                      t[m].speaker_id = t[n].speaker_id
               PROVE  m = n
      BY DEF Apart
  <2>1. s[Place(I, m)].speaker_id = s[Place(I, n)].speaker_id
      BY <1>1, <1>2
  <2>2. Place(I, m) = Place(I, n)
      BY <1>1, <1>2, <2>1 DEF Apart
  <2> QED BY <1>1, <1>2, <2>2
<1>4. {s[i] : i \in I} \subseteq S
    OBVIOUS
<1>5. t \in Seq(S)
    BY <1>1, <1>2, <1>4
<1> QED BY <1>3, <1>5 DEF t

\* Clips have ids of their own.
ApartIds(s) == \A i, j \in DOMAIN s : s[i].id = s[j].id => i = j

LEMMA TakenApartIds ==
    ASSUME NEW S, NEW s \in Seq(S), ApartIds(s), NEW I, I \subseteq DOMAIN s
    PROVE  ApartIds(Taken(s, I))
<1> DEFINE t == Taken(s, I)
<1>1. /\ Cardinality(I) \in Nat
      /\ t \in Seq({s[i] : i \in I}) /\ Len(t) = Cardinality(I)
      /\ \A n \in 1..Cardinality(I) : Place(I, n) \in I /\ t[n] = s[Place(I, n)]
      /\ \A m, n \in 1..Cardinality(I) : Place(I, m) = Place(I, n) => m = n
    BY TakenFacts
<1> HIDE DEF t
<1>2. DOMAIN t = 1..Cardinality(I)
    BY <1>1
<1>3. ApartIds(t)
  <2> SUFFICES ASSUME NEW m \in DOMAIN t, NEW n \in DOMAIN t, t[m].id = t[n].id
               PROVE  m = n
      BY DEF ApartIds
  <2>1. s[Place(I, m)].id = s[Place(I, n)].id
      BY <1>1, <1>2
  <2>2. Place(I, m) = Place(I, n)
      BY <1>1, <1>2, <2>1 DEF ApartIds
  <2> QED BY <1>1, <1>2, <2>2
<1> QED BY <1>3 DEF t

-----------------------------------------------------------------------------
(* The selection                                                             *)

\* A speaker of a source subset.
IsSource(s) == s.clips \in Seq(ToSet(s.clips)) /\ ApartIds(s.clips)

LEMMA ChosenFacts ==
    ASSUME NEW s, IsSource(s)
    PROVE  /\ Chosen(s) \in Seq(ToSet(s.clips))
           /\ ApartIds(Chosen(s))
           /\ \A i \in DOMAIN Chosen(s) : Valid(Chosen(s)[i])
<1> DEFINE K == ToSet(s.clips)
           T == Timely(s)
           I == {i \in DOMAIN s.clips : s.clips[i].timely}
           V == {i \in DOMAIN T : Valid(T[i])}
           G == Taken(T, V)
<1>1. /\ s.clips \in Seq(K) /\ I \subseteq DOMAIN s.clips /\ T = Taken(s.clips, I)
      /\ ApartIds(s.clips)
    BY DEF IsSource, Timely, Those
<1> HIDE DEF I, T, K
<1>2. T \in Seq(K) /\ ApartIds(T) /\ V \subseteq DOMAIN T
    BY <1>1, TakenMembers, TakenApartIds
<1>3. \A i \in V : Valid(T[i])
    OBVIOUS
<1> HIDE DEF V, G
<1>4. G \in Seq(K) /\ \A n \in DOMAIN G : \E i \in V : G[n] = T[i]
    BY <1>2, TakenMembers DEF G
<1>5. \A n \in DOMAIN G : Valid(G[n])
    BY <1>3, <1>4
<1>6. G \in Seq(K) /\ ApartIds(G)
    BY <1>2, <1>4, TakenApartIds DEF G
<1>7. Chosen(s) = FirstOf(G, ClipsPerSpeaker) /\ ClipsPerSpeaker \in Nat
    BY ConfigAssumption DEF Chosen, Those, T, ClipsPerSpeaker, G, V
<1>8. /\ FirstOf(G, ClipsPerSpeaker) \in Seq(K)
      /\ \A i \in DOMAIN FirstOf(G, ClipsPerSpeaker) :
             i \in DOMAIN G /\ FirstOf(G, ClipsPerSpeaker)[i] = G[i]
    BY <1>6, <1>7, FirstOfFacts
<1>9. ApartIds(FirstOf(G, ClipsPerSpeaker))
    BY <1>6, <1>8 DEF ApartIds
<1> QED BY <1>5, <1>7, <1>8, <1>9 DEF K

\* A selected speaker has its clips, all good, under names of their own.
IsSelected(q) ==
    /\ \E S : q.enrollment_clips \in Seq(S) /\ q.probe_clips \in Seq(S)
    /\ Len(q.enrollment_clips) = EnrollmentClips /\ Len(q.probe_clips) = ProbeClips
    /\ \A c \in ToSet(Clips(q)) : Valid(c)
    /\ \A c, d \in ToSet(Clips(q)) : c.id = d.id => c = d
    /\ \A i \in 1..EnrollmentClips, k \in 1..ProbeClips :
           q.enrollment_clips[i].id # q.probe_clips[k].id

Pick(p, s) ==
    [speaker_id |-> s.speaker_id, partition |-> p,
     enrollment_clips |-> SubSeq(Chosen(s), 1, EnrollmentClips),
     probe_clips |-> SubSeq(Chosen(s), EnrollmentClips + 1, ClipsPerSpeaker)]

LEMMA ClipsOf ==
    ASSUME NEW q, \E S : q.enrollment_clips \in Seq(S) /\ q.probe_clips \in Seq(S)
    PROVE  /\ \A c \in ToSet(Clips(q)) :
                  \/ \E i \in 1..Len(q.enrollment_clips) : c = q.enrollment_clips[i]
                  \/ \E i \in 1..Len(q.probe_clips) : c = q.probe_clips[i]
           /\ \A i \in 1..Len(q.enrollment_clips) : q.enrollment_clips[i] \in ToSet(Clips(q))
           /\ \A i \in 1..Len(q.probe_clips) : q.probe_clips[i] \in ToSet(Clips(q))
<1> DEFINE e == q.enrollment_clips
           b == q.probe_clips
           j == e \o b
<1>1. PICK S : e \in Seq(S) /\ b \in Seq(S)
    OBVIOUS
<1>2. Clips(q) = j
    BY DEF Clips
<1> HIDE DEF e, b
<1>3. Len(e) \in Nat /\ Len(b) \in Nat
    BY <1>1
<1>4. /\ DOMAIN j = 1..(Len(e) + Len(b))
      /\ \A i \in 1..Len(e) : j[i] = e[i]
      /\ \A i \in 1..Len(b) : j[Len(e) + i] = b[i]
      /\ \A i \in 1..(Len(e) + Len(b)) :
             i \in 1..Len(e) \/ \E k \in 1..Len(b) : i = Len(e) + k
    BY <1>1, Joined
<1> HIDE DEF j
<1>5. /\ \A i \in 1..Len(e) : i \in DOMAIN j
      /\ \A i \in 1..Len(b) : Len(e) + i \in DOMAIN j
    BY <1>3, <1>4
<1>6. /\ \A i \in 1..Len(e) : e[i] \in ToSet(j)
      /\ \A i \in 1..Len(b) : b[i] \in ToSet(j)
    BY <1>4, <1>5 DEF ToSet
<1>7. \A c \in ToSet(j) : \/ \E i \in 1..Len(e) : c = e[i]
                         \/ \E i \in 1..Len(b) : c = b[i]
  <2> TAKE c \in ToSet(j)
  <2>1. PICK i \in DOMAIN j : c = j[i]
      BY DEF ToSet
  <2>2. i \in 1..Len(e) \/ \E k \in 1..Len(b) : i = Len(e) + k
      BY <1>4
  <2> QED BY <1>4, <2>1, <2>2
<1> QED BY <1>2, <1>6, <1>7 DEF e, b

LEMMA PickFacts ==
    ASSUME NEW s, NEW p, IsSource(s), Len(Chosen(s)) = ClipsPerSpeaker
    PROVE  IsSelected(Pick(p, s))
<1> DEFINE K == ToSet(s.clips)
           C == Chosen(s)
           q == Pick(p, s)
<1>1. C \in Seq(K) /\ ApartIds(C) /\ \A i \in DOMAIN C : Valid(C[i])
    BY ChosenFacts
<1>2. /\ EnrollmentClips \in Nat /\ ProbeClips \in Nat \ {0} /\ EnrollmentClips >= 1
      /\ ClipsPerSpeaker = EnrollmentClips + ProbeClips
    BY ConfigAssumption DEF ClipsPerSpeaker
<1>3. /\ q.enrollment_clips = SubSeq(C, 1, EnrollmentClips)
      /\ q.probe_clips = SubSeq(C, EnrollmentClips + 1, EnrollmentClips + ProbeClips)
    BY <1>2 DEF Pick
<1>4. \A c, d \in K : c.id = d.id => c = d
    BY DEF IsSource, ApartIds, ToSet
<1> HIDE DEF K, C, q
<1>5. Len(C) = EnrollmentClips + ProbeClips /\ DOMAIN C = 1..Len(C)
    BY <1>1, <1>2 DEF C
<1>6. /\ q.enrollment_clips \in Seq(K) /\ Len(q.enrollment_clips) = EnrollmentClips
      /\ \A i \in 1..EnrollmentClips : q.enrollment_clips[i] = C[i]
    BY <1>1, <1>2, <1>3, <1>5
<1>7. /\ q.probe_clips \in Seq(K) /\ Len(q.probe_clips) = ProbeClips
      /\ \A i \in 1..ProbeClips : q.probe_clips[i] = C[EnrollmentClips + i]
    BY <1>1, <1>2, <1>3, <1>5
<1>8. \A c \in ToSet(Clips(q)) : c \in K /\ Valid(c)
  <2>1. \A c \in ToSet(Clips(q)) :
            \/ \E i \in 1..EnrollmentClips : c = q.enrollment_clips[i]
            \/ \E i \in 1..ProbeClips : c = q.probe_clips[i]
      BY <1>6, <1>7, ClipsOf
  <2>2. \A c \in ToSet(Clips(q)) : \E i \in DOMAIN C : c = C[i]
    <3> TAKE c \in ToSet(Clips(q))
    <3>1. /\ \A i \in 1..EnrollmentClips : i \in DOMAIN C
          /\ \A i \in 1..ProbeClips : EnrollmentClips + i \in DOMAIN C
        BY <1>2, <1>5
    <3> QED BY <1>6, <1>7, <2>1, <3>1
  <2> QED BY <1>1, <2>2
<1>9. ASSUME NEW i \in 1..EnrollmentClips, NEW k \in 1..ProbeClips
      PROVE  q.enrollment_clips[i].id # q.probe_clips[k].id
  <2>1. i \in DOMAIN C /\ EnrollmentClips + k \in DOMAIN C /\ i # EnrollmentClips + k
      BY <1>2, <1>5
  <2> QED BY <1>1, <1>6, <1>7, <2>1 DEF ApartIds
<1> QED BY <1>4, <1>6, <1>7, <1>8, <1>9 DEF IsSelected, q

\* The subsets of a source, as the assumption has them.
IsSubset(s) ==
    /\ \E S : s \in Seq(S)
    /\ Apart(s)
    /\ \A i \in DOMAIN s : IsSource(s[i])

LEMMA SelectPartitionFacts ==
    ASSUME NEW p, IsSubset(subsets[p])
    PROVE  LET F == SelectPartition(p)
           IN  /\ Len(F) \in Nat /\ F \in Seq(ToSet(F))
               /\ Apart(F)
               /\ \A i \in DOMAIN F : F[i].speaker_id \in Speakers(p)
               /\ \A i \in DOMAIN F : IsSelected(F[i]) /\ F[i].partition = p
<1> DEFINE s == subsets[p]
           D == DurationEligible(p)
           R == Those(D, LAMBDA x : Len(Chosen(x)) = ClipsPerSpeaker)
           I == {i \in DOMAIN s : Len(Timely(s[i])) >= ClipsPerSpeaker}
           J == {i \in DOMAIN D : Len(Chosen(D[i])) = ClipsPerSpeaker}
           H == FirstOf(R, SpeakersPerPartition)
           F == SelectPartition(p)
<1>1. PICK S : s \in Seq(S)
    BY DEF IsSubset
<1>2. D = Taken(s, I) /\ I \subseteq DOMAIN s
    BY DEF DurationEligible, Those
<1>3. R = Taken(D, J) /\ J \subseteq DOMAIN D
    BY DEF Those
<1>4. F = [i \in DOMAIN H |-> Pick(p, H[i])]
    BY DEF SelectPartition, Pick
<1>5. Apart(s) /\ \A i \in DOMAIN s : IsSource(s[i])
    BY DEF IsSubset
<1>6. /\ \A i \in J : Len(Chosen(D[i])) = ClipsPerSpeaker
      /\ \A i \in DOMAIN s : s[i].speaker_id \in Speakers(p)
    BY DEF Speakers, ToSet
<1> HIDE DEF s, D, R, I, J, H, F
<1>7. /\ Apart(D) /\ D \in Seq(S) /\ \A n \in DOMAIN D : IsSource(D[n])
      /\ \A n \in DOMAIN D : D[n].speaker_id \in Speakers(p)
    BY <1>1, <1>2, <1>5, <1>6, TakenApart, TakenMembers
<1>8. /\ Apart(R) /\ R \in Seq(S)
      /\ \A n \in DOMAIN R : /\ IsSource(R[n]) /\ Len(Chosen(R[n])) = ClipsPerSpeaker
                             /\ R[n].speaker_id \in Speakers(p)
    BY <1>3, <1>6, <1>7, TakenApart, TakenMembers
<1>9. SpeakersPerPartition \in Nat
    BY ConfigAssumption
<1>10. /\ H \in Seq(S) /\ Len(H) \in Nat
       /\ \A i \in DOMAIN H : i \in DOMAIN R /\ H[i] = R[i]
    BY <1>8, <1>9, FirstOfFacts DEF H
<1>11. \A i \in DOMAIN H : /\ F[i] = Pick(p, H[i])
                           /\ IsSelected(F[i]) /\ F[i].partition = p
                           /\ F[i].speaker_id = R[i].speaker_id
                           /\ F[i].speaker_id \in Speakers(p)
  <2> TAKE i \in DOMAIN H
  <2>1. F[i] = Pick(p, H[i]) /\ H[i] = R[i] /\ i \in DOMAIN R
      BY <1>4, <1>10
  <2>2. F[i].partition = p /\ F[i].speaker_id = R[i].speaker_id
      BY <2>1 DEF Pick
  <2> QED BY <1>8, <2>1, <2>2, PickFacts
<1>12. DOMAIN F = DOMAIN H
    BY <1>4
<1>13. Apart(F)
    BY <1>8, <1>10, <1>11, <1>12 DEF Apart
<1>14. Len(F) \in Nat /\ F \in Seq(ToSet(F))
  <2>1. DOMAIN F = 1..Len(H)
      BY <1>10, <1>12
  <2>2. F = [i \in 1..Len(H) |-> Pick(p, H[i])]
      BY <1>4, <1>12, <2>1
  <2>3. \A i \in 1..Len(H) : Pick(p, H[i]) \in ToSet(F)
      BY <1>11, <1>12, <2>1 DEF ToSet
  <2> QED BY <1>10, <2>2, <2>3
<1> QED BY <1>11, <1>12, <1>13, <1>14 DEF F

-----------------------------------------------------------------------------
(* What a run of the preparation has written                                 *)

\* The selected speakers, no two of them the same, and two or more of each partition.
SelectionOK(q) ==
    /\ \E S : q \in Seq(S)
    /\ \A i \in DOMAIN q : IsSelected(q[i])
    /\ \A i, j \in DOMAIN q : IdentityId(q[i]) = IdentityId(q[j]) => i = j
    /\ Apart(q)
    /\ \A i \in DOMAIN q : q[i].partition \in Partitions
    /\ \A p \in Partitions : \E i, j \in DOMAIN q :
           i # j /\ q[i].partition = p /\ q[j].partition = p

\* The recordings of the first k selected speakers are staged, and no others.
Staged(audio, q, k) ==
    /\ k \in 0..Len(q)
    /\ \A path : path \in DOMAIN audio
           <=> \E i \in 1..k : \E c \in ToSet(Clips(q[i])) : path = PathOf(q[i], c)
    /\ \A i \in 1..k : \A c \in ToSet(Clips(q[i])) : audio[PathOf(q[i], c)] = c.audio

LEMMA CountedOnce ==
    ASSUME NEW s, NEW k \in Nat, \A i, j \in 1..k : s[i] = s[j] => i = j
    PROVE  Cardinality({s[i] : i \in 1..k}) = k
<1> DEFINE T == {s[i] : i \in 1..k}
           h == [i \in 1..k |-> s[i]]
<1>1. h \in Bijection(1..k, T)
  <2>1. h \in [1..k -> T]
      OBVIOUS
  <2>2. IsInjective(h)
      BY DEF IsInjective
  <2>3. \A t \in T : \E i \in 1..k : h[i] = t
      OBVIOUS
  <2> HIDE DEF h, T
  <2> QED BY <2>1, <2>2, <2>3 DEF Bijection, Injection, Surjection
<1>2. IsFiniteSet(1..k) /\ Cardinality(1..k) = k
    BY FS_Interval
<1>3. ExistsBijection(1..k, T)
    BY <1>1 DEF ExistsBijection
<1> HIDE DEF T, h
<1>4. Cardinality(T) = Cardinality(1..k)
    BY <1>2, <1>3, FS_Bijection
<1> QED BY <1>2, <1>4 DEF T

LEMMA WrittenFirst ==
    ASSUME SelectionOK(selections), NEW k, Staged(staging.audio, selections, k)
    PROVE  Cardinality(Written) = k
<1>1. /\ k \in Nat /\ k <= Len(selections) /\ DOMAIN selections = 1..Len(selections)
      /\ \A i \in 1..k : i \in DOMAIN selections
    BY DEF SelectionOK, Staged
<1>2. ASSUME NEW i \in 1..k PROVE selections[i] \in Written
    BY <1>1 DEF Written, Staged, ToSet
<1>3. ASSUME NEW i \in DOMAIN selections, selections[i] \in Written
      PROVE  i \in 1..k
  <2> DEFINE q == selections[i]
  <2>1. q.enrollment_clips[1] \in ToSet(Clips(q))
    <3>1. IsSelected(q)
        BY DEF SelectionOK
    <3>2. EnrollmentClips \in Nat /\ 1 \in 1..EnrollmentClips
        BY ConfigAssumption
    <3> HIDE DEF q
    <3> QED BY <3>1, <3>2, ClipsOf DEF IsSelected
  <2>2. PathOf(q, q.enrollment_clips[1]) \in DOMAIN staging.audio
      BY <1>3, <2>1 DEF Written
  <2>3. PICK j \in 1..k : \E c \in ToSet(Clips(selections[j])) :
                              PathOf(q, q.enrollment_clips[1]) = PathOf(selections[j], c)
      BY <2>2 DEF Staged
  <2>4. IdentityId(q) = IdentityId(selections[j])
      BY <2>3 DEF PathOf, IdentityId
  <2> QED BY <1>1, <2>4 DEF SelectionOK
<1>4. Written = {selections[i] : i \in 1..k}
  <2>1. \A s \in Written : \E i \in 1..k : s = selections[i]
    <3> TAKE s \in Written
    <3>1. PICK i \in DOMAIN selections : s = selections[i]
        BY DEF Written, ToSet
    <3> QED BY <1>3, <3>1
  <2> QED BY <1>2, <2>1
<1>5. \A i, j \in 1..k : selections[i] = selections[j] => i = j
    BY <1>1 DEF SelectionOK
<1> QED BY <1>1, <1>4, <1>5, CountedOnce

\* The next speaker is the first that is not written.
LEMMA StagedNext ==
    ASSUME SelectionOK(selections), NEW k, Staged(staging.audio, selections, k),
           k < Len(selections), "audio" \in DOMAIN staging, UNCHANGED selections,
           LET next == selections[k + 1]
               files == [path \in {PathOf(next, c) : c \in ToSet(Clips(next))} |->
                            (CHOOSE c \in ToSet(Clips(next)) : PathOf(next, c) = path).audio]
           IN  staging' = [staging EXCEPT !.audio =
                       [path \in DOMAIN @ \cup DOMAIN files |->
                            IF path \in DOMAIN files THEN files[path] ELSE @[path]]]
    PROVE  Staged(staging'.audio, selections', k + 1)
<1> DEFINE q == selections[k + 1]
           C == ToSet(Clips(q))
           files == [path \in {PathOf(q, c) : c \in C} |->
                        (CHOOSE c \in C : PathOf(q, c) = path).audio]
           old == staging.audio
           new == staging'.audio
<1>1. new = [path \in DOMAIN old \cup DOMAIN files |->
                IF path \in DOMAIN files THEN files[path] ELSE old[path]]
    OBVIOUS
<1>2. /\ k \in Nat /\ k + 1 \in DOMAIN selections /\ k + 1 \in 0..Len(selections)
      /\ DOMAIN selections = 1..Len(selections)
    BY DEF SelectionOK, Staged
<1>3. \A c, d \in C : PathOf(q, c) = PathOf(q, d) => c = d
    BY <1>2 DEF SelectionOK, IsSelected, PathOf
<1> HIDE DEF q, C
<1>4. /\ DOMAIN files = {PathOf(q, c) : c \in C}
      /\ \A c \in C : files[PathOf(q, c)] = c.audio
  <2>1. ASSUME NEW c \in C PROVE (CHOOSE d \in C : PathOf(q, d) = PathOf(q, c)) = c
      BY <1>3
  <2> QED BY <2>1
<1> HIDE DEF files, old, new
<1>5. /\ DOMAIN new = DOMAIN old \cup {PathOf(q, c) : c \in C}
      /\ \A c \in C : new[PathOf(q, c)] = c.audio
      /\ \A path \in DOMAIN old : path \notin {PathOf(q, c) : c \in C} => new[path] = old[path]
    BY <1>1, <1>4
<1>6. ASSUME NEW i \in 1..k, NEW c \in ToSet(Clips(selections[i]))
      PROVE  /\ PathOf(selections[i], c) \in DOMAIN old
             /\ PathOf(selections[i], c) \notin {PathOf(q, d) : d \in C}
             /\ old[PathOf(selections[i], c)] = c.audio
  <2>1. i \in DOMAIN selections /\ i # k + 1
      BY <1>2
  <2>2. ASSUME NEW d \in C, PathOf(selections[i], c) = PathOf(q, d) PROVE FALSE
    <3>1. IdentityId(selections[i]) = IdentityId(q)
        BY <2>2 DEF PathOf, IdentityId
    <3> QED BY <1>2, <2>1, <3>1 DEF SelectionOK, q
  <2> QED BY <2>2 DEF Staged, old
<1>7. \A i \in 1..(k + 1) : i \in 1..k \/ i = k + 1
    BY <1>2
<1>8. \A path : path \in DOMAIN old
          <=> \E i \in 1..k : \E c \in ToSet(Clips(selections[i])) :
                  path = PathOf(selections[i], c)
    BY DEF Staged, old
<1>9. ASSUME NEW path
      PROVE  path \in DOMAIN new
          <=> \E i \in 1..(k + 1) : \E c \in ToSet(Clips(selections[i])) :
                  path = PathOf(selections[i], c)
  <2>1. (\E c \in C : path = PathOf(q, c))
            <=> \E c \in ToSet(Clips(selections[k + 1])) : path = PathOf(selections[k + 1], c)
      BY DEF q, C
  <2>2. 1..k \subseteq 1..(k + 1) /\ k + 1 \in 1..(k + 1)
      BY <1>2
  <2> QED BY <1>5, <1>7, <1>8, <2>1, <2>2
<1>10. ASSUME NEW i \in 1..(k + 1), NEW c \in ToSet(Clips(selections[i]))
       PROVE  new[PathOf(selections[i], c)] = c.audio
  <2>1. CASE i \in 1..k
      BY <1>5, <1>6, <2>1
  <2>2. CASE i = k + 1
      BY <1>5, <2>2 DEF q, C
  <2> QED BY <1>7, <2>1, <2>2
<1>11. Staged(new, selections, k + 1)
    BY <1>2, <1>9, <1>10 DEF Staged
<1>12. selections' = selections
    OBVIOUS
<1> QED BY <1>11, <1>12 DEF new

-----------------------------------------------------------------------------
(* The manifest of the selection                                             *)

\* A recording of a selected speaker.
IsRecording(r, q) ==
    \E i \in DOMAIN q : \E c \in ToSet(Clips(q[i])) : r = Reference(q[i], c)

\* A manifest of complete lists, of good recordings only.
IsManifest(m) ==
    /\ \E S : m.enrollments \in Seq(S)
    /\ \E S : m.trials \in Seq(S)
    /\ \A e \in ToSet(m.enrollments) : /\ \E S : e.samples \in Seq(S)
                                      /\ Len(e.samples) = EnrollmentClips
    /\ \A r \in Named(m) : r.sha256.quality = "good"

Holds(audio, m) == \A r \in Named(m) : r.path \in DOMAIN audio /\ audio[r.path] = r.sha256

LEMMA Quotient ==
    ASSUME NEW a \in Nat, NEW w \in Nat \ {0}, NEW n \in Nat, a < w * n
    PROVE  a \div w \in 0..(n - 1)
<1> DEFINE d == a \div w
           r == a % w
<1>1. d \in Nat /\ r \in 0..(w - 1) /\ a = w * d + r
    OBVIOUS
<1> HIDE DEF d, r
<1>2. ASSUME d >= n PROVE FALSE
  <2>1. PICK x \in Nat : d = n + x
    <3>1. d - n \in Nat /\ d = n + (d - n)
        BY <1>1, <1>2
    <3> QED BY <3>1
  <2>2. w * d = w * n + w * x /\ w * x \in Nat /\ w * n \in Nat
      BY <1>1, <2>1
  <2> QED BY <1>1, <2>2
<1> QED BY <1>1, <1>2 DEF d

LEMMA QuotientIs ==
    ASSUME NEW w \in Nat \ {0}, NEW d \in Nat, NEW r \in 0..(w - 1)
    PROVE  (w * d + r) \div w = d
<1> DEFINE a == w * d + r
           D == a \div w
<1>1. w * d \in Nat /\ w * (d + 1) = w * d + w
    OBVIOUS
<1>2. a \in Nat /\ a < w * (d + 1)
    BY <1>1
<1>3. D \in 0..d
    BY <1>2, Quotient
<1>4. a = w * D + (a % w) /\ (a % w) \in 0..(w - 1)
    BY <1>2
<1> HIDE DEF D
<1>5. ASSUME D < d PROVE FALSE
  <2>1. PICK x \in Nat \ {0} : d = D + x
    <3>1. d - D \in Nat \ {0} /\ d = D + (d - D)
        BY <1>3, <1>5
    <3> QED BY <3>1
  <2>2. w * d = w * D + w * x /\ w * x >= w /\ w * D \in Nat
    <3>1. PICK y \in Nat : x = y + 1
      <4>1. x - 1 \in Nat /\ x = (x - 1) + 1
          OBVIOUS
      <4> QED BY <4>1
    <3>2. w * x = w * y + w /\ w * y \in Nat
        BY <3>1
    <3> QED BY <1>3, <2>1, <3>2
  <2> QED BY <1>1, <1>4, <2>2
<1> QED BY <1>3, <1>5 DEF D

\* Numbers with the same quotients and remainders are the same.
LEMMA SamePlace ==
    ASSUME NEW w \in Nat \ {0}, NEW a \in Nat, NEW b \in Nat,
           a \div (2 * w) = b \div (2 * w), (a \div 2) % w = (b \div 2) % w, a % 2 = b % 2
    PROVE  a = b
<1>1. ASSUME NEW c \in Nat
      PROVE  c = 2 * (w * (c \div (2 * w)) + ((c \div 2) % w)) + (c % 2)
  <2> DEFINE x == c \div 2
             d == x \div w
             r == x % w
  <2>1. x \in Nat /\ c = 2 * x + (c % 2) /\ (c % 2) \in 0..1
      OBVIOUS
  <2> HIDE DEF x
  <2>2. d \in Nat /\ r \in 0..(w - 1) /\ x = w * d + r
      BY <2>1
  <2> HIDE DEF d, r
  <2>3. c = (2 * w) * d + (2 * r + (c % 2)) /\ 2 * r + (c % 2) \in 0..(2 * w - 1)
      BY <2>1, <2>2
  <2>4. c \div (2 * w) = d
      BY <2>2, <2>3, 2 * w \in Nat \ {0}, QuotientIs
  <2> QED BY <2>1, <2>2, <2>4 DEF r, x
<1> QED BY <1>1

\* The successor in a circle of two or more is another one.
LEMMA NextInCircle ==
    ASSUME NEW n \in Nat, n >= 2, NEW i \in 1..n
    PROVE  (i % n) + 1 \in 1..n /\ (i % n) + 1 # i
<1>1. CASE i = n
    BY <1>1
<1>2. CASE i # n
  <2>1. i % n = i
      BY <1>2
  <2> QED BY <1>2, <2>1
<1> QED BY <1>1, <1>2

\* A trial of a partition: the k-th probe of a speaker against a speaker.
IsTrial(t, p) ==
    \E a, b \in DOMAIN selections : \E k \in 1..ProbeClips :
        /\ selections[a].partition = p /\ selections[b].partition = p /\ t.partition = p
        /\ t.label = (IF a = b THEN "genuine" ELSE "impostor")
        /\ t.claimed_identity_id = IdentityId(selections[b])
        /\ t.probe_speaker_id = IdentityId(selections[a])
        /\ t.sample = Reference(selections[a], selections[a].probe_clips[k])

LEMMA ProbeTrialsFacts ==
    ASSUME SelectionOK(selections), NEW p \in Partitions
    PROVE  LET T == ProbeTrials(p)
           IN  /\ T \in Seq(ToSet(T))
               /\ \A n \in DOMAIN T : IsTrial(T[n], p) /\ T[n].trial_id[1] = p
               /\ \A m, n \in DOMAIN T : T[m].trial_id = T[n].trial_id => m = n
               /\ LabelsIn(T, p) = Labels
<1> DEFINE I == {i \in DOMAIN selections : selections[i].partition = p}
           D == Taken(selections, I)
           speaker(n) == ((n - 1) \div (2 * ProbeClips)) + 1
           probe(n) == (((n - 1) \div 2) % ProbeClips) + 1
           label(n) == IF n % 2 = 1 THEN "genuine" ELSE "impostor"
           claimed(n) == IF label(n) = "genuine" THEN D[speaker(n)]
                         ELSE NextSpeaker(D, speaker(n))
           sample(n) == Reference(D[speaker(n)], D[speaker(n)].probe_clips[probe(n)])
           nth(n) == [trial_id |-> <<p, label(n), D[speaker(n)].speaker_id, probe(n)>>,
                      partition |-> p, label |-> label(n),
                      claimed_identity_id |-> IdentityId(claimed(n)),
                      probe_speaker_id |-> IdentityId(D[speaker(n)]),
                      sample |-> sample(n), condition |-> p]
           N == 2 * ProbeClips * Len(D)
           T == ProbeTrials(p)
<1>1. T = [n \in 1..N |-> nth(n)]
    BY DEF ProbeTrials, Those
<1>2. PICK S : selections \in Seq(S)
    BY DEF SelectionOK
<1>3. I \subseteq DOMAIN selections /\ \A i \in I : selections[i].partition = p
    OBVIOUS
<1>4. ProbeClips \in Nat \ {0}
    BY ConfigAssumption
<1>5. \A n : /\ nth(n).sample = sample(n) /\ nth(n).partition = p /\ nth(n).label = label(n)
             /\ nth(n).claimed_identity_id = IdentityId(claimed(n))
             /\ nth(n).probe_speaker_id = IdentityId(D[speaker(n)])
             /\ nth(n).trial_id = <<p, label(n), D[speaker(n)].speaker_id, probe(n)>>
    OBVIOUS
<1>6. PICK i1 \in I, i2 \in I : i1 # i2
    BY DEF SelectionOK
<1> HIDE DEF I, nth
<1>7. /\ D \in Seq(S) /\ Len(D) = Cardinality(I) /\ Apart(D)
      /\ \A n \in DOMAIN D : \E i \in I : D[n] = selections[i]
    BY <1>2, <1>3, TakenMembers, TakenApart DEF SelectionOK
<1>8. Len(D) >= 2
  <2>1. IsFiniteSet(I)
    <3>1. IsFiniteSet(DOMAIN selections)
      <4>1. DOMAIN selections = 1..Len(selections) /\ Len(selections) \in Nat
          BY <1>2
      <4> QED BY <4>1, FS_Interval
    <3> QED BY <1>3, <3>1, FS_Subset
  <2>2. /\ IsFiniteSet(I \ {i1}) /\ Cardinality(I \ {i1}) = Cardinality(I) - 1
        /\ Cardinality(I) \in Nat
      BY <1>6, <2>1, FS_RemoveElement, FS_CardinalityType
  <2>3. i2 \in I \ {i1}
      BY <1>6
  <2>4. /\ Cardinality((I \ {i1}) \ {i2}) = Cardinality(I \ {i1}) - 1
        /\ Cardinality((I \ {i1}) \ {i2}) \in Nat
      BY <2>2, <2>3, FS_RemoveElement, FS_CardinalityType
  <2> QED BY <1>7, <2>2, <2>4
<1> HIDE DEF D
<1>9. Len(D) \in Nat /\ DOMAIN D = 1..Len(D) /\ N \in Nat /\ {1, 2} \subseteq 1..N
    BY <1>4, <1>7, <1>8
<1>10. ASSUME NEW n \in 1..N
       PROVE  /\ speaker(n) \in DOMAIN D /\ probe(n) \in 1..ProbeClips
              /\ speaker(n) - 1 = (n - 1) \div (2 * ProbeClips)
              /\ probe(n) - 1 = ((n - 1) \div 2) % ProbeClips
  <2>1. n - 1 \in Nat /\ n - 1 < (2 * ProbeClips) * Len(D) /\ 2 * ProbeClips \in Nat \ {0}
      BY <1>4, <1>9
  <2>2. (n - 1) \div (2 * ProbeClips) \in 0..(Len(D) - 1)
      BY <1>9, <2>1, Quotient
  <2>3. (n - 1) \div 2 \in Nat
      BY <2>1
  <2>4. ((n - 1) \div 2) % ProbeClips \in 0..(ProbeClips - 1)
      BY <1>4, <2>3
  <2> QED BY <1>4, <1>9, <2>2, <2>4
<1>11. ASSUME NEW m \in 1..N, NEW n \in 1..N,
              speaker(m) = speaker(n), probe(m) = probe(n), label(m) = label(n)
       PROVE  m = n
  <2>1. /\ m - 1 \in Nat /\ n - 1 \in Nat
        /\ (m - 1) \div (2 * ProbeClips) = (n - 1) \div (2 * ProbeClips)
        /\ ((m - 1) \div 2) % ProbeClips = ((n - 1) \div 2) % ProbeClips
      BY <1>9, <1>10, <1>11
  <2>2. (m - 1) % 2 = (n - 1) % 2
      BY <1>9, <1>11
  <2>3. m - 1 = n - 1
      BY <1>4, <2>1, <2>2, SamePlace
  <2> QED BY <1>9, <2>3
<1>12. ASSUME NEW n \in 1..N PROVE IsTrial(nth(n), p)
  <2>1. PICK a \in I : D[speaker(n)] = selections[a]
      BY <1>7, <1>10
  <2>2. CASE n % 2 = 1
    <3>1. label(n) = "genuine" /\ claimed(n) = selections[a]
        BY <2>1, <2>2
    <3>2. /\ sample(n) = Reference(selections[a], selections[a].probe_clips[probe(n)])
        BY <2>1
    <3> HIDE DEF label, claimed, sample, probe
    <3> QED BY <1>3, <1>5, <1>10, <2>1, <3>1, <3>2 DEF IsTrial
  <2>3. CASE n % 2 # 1
    <3> DEFINE x == (speaker(n) % Len(D)) + 1
    <3>1. label(n) = "impostor" /\ claimed(n) = D[x]
        BY <2>3 DEF NextSpeaker
    <3>2. x \in DOMAIN D /\ x # speaker(n)
        BY <1>8, <1>9, <1>10, NextInCircle
    <3> HIDE DEF x
    <3>3. PICK b \in I : D[x] = selections[b]
        BY <1>7, <3>2
    <3>4. a # b
      <4>1. a = b => D[x].speaker_id = D[speaker(n)].speaker_id
          BY <2>1, <3>3
      <4> HIDE DEF speaker
      <4> QED BY <1>7, <1>10, <3>2, <4>1 DEF Apart
    <3>5. /\ sample(n) = Reference(selections[a], selections[a].probe_clips[probe(n)])
        BY <2>1
    <3> HIDE DEF label, claimed, sample, probe
    <3> QED BY <1>3, <1>5, <1>10, <2>1, <3>1, <3>3, <3>4, <3>5 DEF IsTrial
  <2> QED BY <2>2, <2>3
<1>13. label(1) = "genuine" /\ label(2) = "impostor"
       /\ \A n : label(n) \in Labels
    BY DEF Labels
<1> HIDE DEF T, N, speaker, probe, label, sample, claimed
<1>14. DOMAIN T = 1..N /\ \A n \in 1..N : T[n] = nth(n)
    BY <1>1
<1>15. \A n \in DOMAIN T : IsTrial(T[n], p) /\ T[n].trial_id[1] = p
    BY <1>5, <1>12, <1>14
<1>16. ASSUME NEW m \in DOMAIN T, NEW n \in DOMAIN T, T[m].trial_id = T[n].trial_id
       PROVE  m = n
  <2>1. /\ label(m) = label(n) /\ probe(m) = probe(n)
        /\ D[speaker(m)].speaker_id = D[speaker(n)].speaker_id
      BY <1>5, <1>14, <1>16
  <2>2. speaker(m) = speaker(n)
      BY <1>7, <1>10, <1>14, <2>1 DEF Apart
  <2> QED BY <1>11, <1>14, <2>1, <2>2
<1>17. LabelsIn(T, p) = Labels
  <2>1. \A l : l \in LabelsIn(T, p) <=> \E n \in DOMAIN T : T[n].partition = p /\ l = T[n].label
      BY DEF LabelsIn, ToSet
  <2>2. \A n \in DOMAIN T : T[n].partition = p /\ T[n].label = label(n)
      BY <1>5, <1>14
  <2>3. 1 \in DOMAIN T /\ 2 \in DOMAIN T
      BY <1>9, <1>14
  <2> QED BY <1>13, <2>1, <2>2, <2>3 DEF Labels
<1>18. T \in Seq(ToSet(T))
  <2>1. \A n \in 1..N : nth(n) \in ToSet(T)
      BY <1>14 DEF ToSet
  <2> QED BY <1>1, <1>9, <2>1
<1> QED BY <1>15, <1>16, <1>17, <1>18 DEF T

LEMMA RecordingOfTrial ==
    ASSUME SelectionOK(selections), NEW p, NEW t, IsTrial(t, p)
    PROVE  IsRecording(t.sample, selections)
<1>1. PICK i \in DOMAIN selections, k \in 1..ProbeClips :
          t.sample = Reference(selections[i], selections[i].probe_clips[k])
    BY DEF IsTrial
<1> DEFINE q == selections[i]
<1>2. IsSelected(q)
    BY DEF SelectionOK
<1>3. q.probe_clips[k] \in ToSet(Clips(q))
  <2> HIDE DEF q
  <2> QED BY <1>2, ClipsOf DEF IsSelected
<1> QED BY <1>1, <1>3 DEF IsRecording

LEMMA MaterializedFacts ==
    ASSUME SelectionOK(selections), Staged(staging.audio, selections, Len(selections))
    PROVE  IsManifest(Materialized) /\ Holds(staging.audio, Materialized)
<1> DEFINE m == Materialized
           A == ProbeTrials("development")
           B == ProbeTrials("evaluation")
<1>1. PICK S : selections \in Seq(S)
    BY DEF SelectionOK
<1>2. /\ m.enrollments = [i \in DOMAIN selections |-> Enrollment(selections[i])]
      /\ m.trials = A \o B
    BY DEF Materialized
<1>3. /\ A \in Seq(ToSet(A)) /\ B \in Seq(ToSet(B))
      /\ \A n \in DOMAIN A : IsRecording(A[n].sample, selections)
      /\ \A n \in DOMAIN B : IsRecording(B[n].sample, selections)
    BY ProbeTrialsFacts, RecordingOfTrial DEF Partitions
<1> HIDE DEF A, B, m
<1>4. /\ m.trials \in Seq(ToSet(A) \cup ToSet(B))
      /\ \A t \in ToSet(m.trials) : IsRecording(t.sample, selections)
  <2> DEFINE Z == ToSet(A) \cup ToSet(B)
  <2>1. A \in Seq(Z) /\ B \in Seq(Z)
      BY <1>3
  <2> HIDE DEF Z
  <2>2. /\ A \o B \in Seq(Z) /\ DOMAIN (A \o B) = 1..(Len(A) + Len(B))
        /\ \A i \in 1..Len(A) : (A \o B)[i] = A[i]
        /\ \A i \in 1..Len(B) : (A \o B)[Len(A) + i] = B[i]
        /\ \A i \in 1..(Len(A) + Len(B)) :
               i \in 1..Len(A) \/ \E k \in 1..Len(B) : i = Len(A) + k
      BY <2>1, Joined
  <2>3. DOMAIN A = 1..Len(A) /\ DOMAIN B = 1..Len(B)
      BY <2>1
  <2>4. ASSUME NEW n \in DOMAIN m.trials PROVE IsRecording(m.trials[n].sample, selections)
    <3>1. m.trials[n] = (A \o B)[n] /\ n \in 1..(Len(A) + Len(B))
        BY <1>2, <2>2
    <3>2. CASE n \in 1..Len(A)
        BY <1>3, <2>2, <2>3, <3>1, <3>2
    <3>3. CASE \E k \in 1..Len(B) : n = Len(A) + k
      <4>1. PICK k \in 1..Len(B) : n = Len(A) + k
          BY <3>3
      <4>2. m.trials[n] = B[k] /\ k \in DOMAIN B
          BY <2>2, <2>3, <3>1, <4>1
      <4> QED BY <1>3, <4>2
    <3> QED BY <2>2, <3>1, <3>2, <3>3
  <2> QED BY <1>2, <2>2, <2>4 DEF ToSet, Z
<1>5. ASSUME NEW e \in ToSet(m.enrollments)
      PROVE  /\ \E Z : e.samples \in Seq(Z)
             /\ Len(e.samples) = EnrollmentClips
             /\ \A r \in ToSet(e.samples) : IsRecording(r, selections)
  <2>1. PICK i \in DOMAIN selections : e = Enrollment(selections[i])
      BY <1>2 DEF ToSet
  <2> DEFINE q == selections[i]
             R(j) == Reference(q, q.enrollment_clips[j])
             Z == {R(j) : j \in 1..EnrollmentClips}
             s == [j \in DOMAIN q.enrollment_clips |-> R(j)]
  <2>2. e.samples = s
      BY <2>1 DEF Enrollment
  <2>3. IsSelected(q) /\ EnrollmentClips \in Nat
      BY ConfigAssumption DEF SelectionOK
  <2>4. DOMAIN q.enrollment_clips = 1..EnrollmentClips
      BY <2>3 DEF IsSelected
  <2>5. s \in Seq(Z) /\ Len(s) = EnrollmentClips
    <3>1. s = [j \in 1..EnrollmentClips |-> R(j)] /\ \A j \in 1..EnrollmentClips : R(j) \in Z
        BY <2>4
    <3> HIDE DEF s, R, Z
    <3> QED BY <2>3, <3>1
  <2>6. ASSUME NEW r \in ToSet(s) PROVE IsRecording(r, selections)
    <3>1. PICK j \in 1..EnrollmentClips : r = Reference(q, q.enrollment_clips[j])
        BY <2>4 DEF ToSet
    <3>2. q.enrollment_clips[j] \in ToSet(Clips(q))
      <4> HIDE DEF q
      <4> QED BY <2>3, ClipsOf DEF IsSelected
    <3> QED BY <3>1, <3>2 DEF IsRecording
  <2> HIDE DEF s, q
  <2> QED BY <2>2, <2>5, <2>6
<1>6. \A r \in Named(m) : IsRecording(r, selections)
    BY <1>4, <1>5 DEF Named
<1>7. ASSUME NEW r, IsRecording(r, selections)
      PROVE  /\ r.sha256.quality = "good"
             /\ r.path \in DOMAIN staging.audio /\ staging.audio[r.path] = r.sha256
  <2>0. PICK i \in DOMAIN selections :
            \E c \in ToSet(Clips(selections[i])) : r = Reference(selections[i], c)
      BY <1>7 DEF IsRecording
  <2>1. PICK c \in ToSet(Clips(selections[i])) : r = Reference(selections[i], c)
      BY <2>0
  <2>2. r.path = PathOf(selections[i], c) /\ r.sha256 = c.audio
      BY <2>1 DEF Reference
  <2>3. Valid(c) /\ i \in 1..Len(selections)
      BY <1>1 DEF SelectionOK, IsSelected
  <2> QED BY <2>2, <2>3 DEF Valid, Staged
<1>8. \E Z : m.enrollments \in Seq(Z)
  <2>1. m.enrollments \in Seq({Enrollment(selections[i]) : i \in DOMAIN selections})
      BY <1>1, <1>2
  <2> QED BY <2>1
<1> QED BY <1>4, <1>5, <1>6, <1>7, <1>8 DEF IsManifest, Holds, m

-----------------------------------------------------------------------------
(* The manifest keeps the protocol unless two clips are one recording        *)

NoDuplicates ==
    \A i, j \in DOMAIN selections :
        \A c \in ToSet(Clips(selections[i])), d \in ToSet(Clips(selections[j])) :
            c.audio = d.audio => selections[i].speaker_id = selections[j].speaker_id /\ c.id = d.id

\* A recording with its partition and its owner.
Owned(i, c) == <<c.audio, selections[i].partition, IdentityId(selections[i])>>

IsEnrolled(w) ==
    \E i \in DOMAIN selections : \E k \in 1..EnrollmentClips :
        w = Owned(i, selections[i].enrollment_clips[k])

IsProbed(w) ==
    \E i \in DOMAIN selections : \E k \in 1..ProbeClips :
        w = Owned(i, selections[i].probe_clips[k])

LEMMA OwnersAgree ==
    ASSUME SelectionOK(selections), NoDuplicates,
           NEW v, NEW w, IsEnrolled(v) \/ IsProbed(v), IsEnrolled(w) \/ IsProbed(w), v[1] = w[1]
    PROVE  v[2] = w[2] /\ v[3] = w[3] /\ ~(IsEnrolled(v) /\ IsProbed(w))
<1>1. ASSUME NEW u, IsEnrolled(u) \/ IsProbed(u)
      PROVE  \E i \in DOMAIN selections : \E c \in ToSet(Clips(selections[i])) : u = Owned(i, c)
  <2>1. CASE IsEnrolled(u)
    <3>1. PICK i \in DOMAIN selections, k \in 1..EnrollmentClips :
              u = Owned(i, selections[i].enrollment_clips[k])
        BY <2>1 DEF IsEnrolled
    <3> DEFINE q == selections[i]
    <3>2. IsSelected(q)
        BY DEF SelectionOK
    <3>3. q.enrollment_clips[k] \in ToSet(Clips(q))
      <4> HIDE DEF q
      <4> QED BY <3>2, ClipsOf DEF IsSelected
    <3> QED BY <3>1, <3>3
  <2>2. CASE IsProbed(u)
    <3>1. PICK i \in DOMAIN selections, k \in 1..ProbeClips :
              u = Owned(i, selections[i].probe_clips[k])
        BY <2>2 DEF IsProbed
    <3> DEFINE q == selections[i]
    <3>2. IsSelected(q)
        BY DEF SelectionOK
    <3>3. q.probe_clips[k] \in ToSet(Clips(q))
      <4> HIDE DEF q
      <4> QED BY <3>2, ClipsOf DEF IsSelected
    <3> QED BY <3>1, <3>3
  <2> QED BY <1>1, <2>1, <2>2
<1>2. v[2] = w[2] /\ v[3] = w[3]
  <2>1. PICK i \in DOMAIN selections : \E c \in ToSet(Clips(selections[i])) : v = Owned(i, c)
      BY <1>1
  <2>2. PICK j \in DOMAIN selections : \E c \in ToSet(Clips(selections[j])) : w = Owned(j, c)
      BY <1>1
  <2>3. selections[i].speaker_id = selections[j].speaker_id
      BY <2>1, <2>2 DEF Owned, NoDuplicates
  <2>4. i = j
      BY <2>3 DEF SelectionOK, Apart
  <2> QED BY <2>1, <2>2, <2>4 DEF Owned
<1>3. ASSUME IsEnrolled(v), IsProbed(w) PROVE FALSE
  <2>1. PICK i \in DOMAIN selections, x \in 1..EnrollmentClips :
            v = Owned(i, selections[i].enrollment_clips[x])
      BY <1>3 DEF IsEnrolled
  <2>2. PICK j \in DOMAIN selections, y \in 1..ProbeClips :
            w = Owned(j, selections[j].probe_clips[y])
      BY <1>3 DEF IsProbed
  <2> DEFINE c == selections[i].enrollment_clips[x]
             d == selections[j].probe_clips[y]
  <2>3. c \in ToSet(Clips(selections[i])) /\ d \in ToSet(Clips(selections[j]))
    <3> DEFINE q == selections[i]
               r == selections[j]
    <3>1. IsSelected(q) /\ IsSelected(r)
        BY DEF SelectionOK
    <3> HIDE DEF q, r
    <3>2. q.enrollment_clips[x] \in ToSet(Clips(q)) /\ r.probe_clips[y] \in ToSet(Clips(r))
        BY <3>1, ClipsOf DEF IsSelected
    <3> QED BY <3>2 DEF q, r
  <2>4. c.audio = d.audio
      BY <2>1, <2>2 DEF Owned
  <2>5. selections[i].speaker_id = selections[j].speaker_id /\ c.id = d.id
      BY <2>3, <2>4 DEF NoDuplicates
  <2>6. i = j
      BY <2>5 DEF SelectionOK, Apart
  <2>7. IsSelected(selections[i])
      BY DEF SelectionOK
  <2> QED BY <2>5, <2>6, <2>7 DEF IsSelected
<1> QED BY <1>2, <1>3

LEMMA MaterializedTrials ==
    ASSUME SelectionOK(selections)
    PROVE  LET T == Materialized.trials
           IN  /\ T # <<>>
               /\ \A t \in ToSet(T) : \E p \in Partitions : IsTrial(t, p)
               /\ \A m, n \in DOMAIN T : T[m].trial_id = T[n].trial_id => m = n
               /\ \A p \in Partitions : LabelsIn(T, p) = Labels
<1> DEFINE A == ProbeTrials("development")
           B == ProbeTrials("evaluation")
           T == Materialized.trials
           Z == ToSet(A) \cup ToSet(B)
<1>1. /\ "development" \in Partitions /\ "evaluation" \in Partitions
      /\ \A p \in Partitions : p = "development" \/ p = "evaluation"
      /\ "development" # "evaluation"
    BY DEF Partitions
<1>2. T = A \o B
    BY DEF Materialized
<1>3. /\ A \in Seq(ToSet(A)) /\ LabelsIn(A, "development") = Labels
      /\ \A n \in DOMAIN A : IsTrial(A[n], "development") /\ A[n].trial_id[1] = "development"
      /\ \A m, n \in DOMAIN A : A[m].trial_id = A[n].trial_id => m = n
    BY <1>1, ProbeTrialsFacts
<1>4. /\ B \in Seq(ToSet(B)) /\ LabelsIn(B, "evaluation") = Labels
      /\ \A n \in DOMAIN B : IsTrial(B[n], "evaluation") /\ B[n].trial_id[1] = "evaluation"
      /\ \A m, n \in DOMAIN B : B[m].trial_id = B[n].trial_id => m = n
    BY <1>1, ProbeTrialsFacts
<1>5. A \in Seq(Z) /\ B \in Seq(Z)
    BY <1>3, <1>4
<1> HIDE DEF A, B, Z, T
<1>6. /\ DOMAIN A = 1..Len(A) /\ DOMAIN B = 1..Len(B) /\ Len(A) \in Nat /\ Len(B) \in Nat
      /\ T \in Seq(Z) /\ DOMAIN T = 1..(Len(A) + Len(B))
      /\ \A i \in 1..Len(A) : T[i] = A[i]
      /\ \A i \in 1..Len(B) : T[Len(A) + i] = B[i]
      /\ \A i \in 1..(Len(A) + Len(B)) :
             i \in 1..Len(A) \/ \E k \in 1..Len(B) : i = Len(A) + k
    BY <1>2, <1>5, Joined
<1> DEFINE FromA(i) == i \in DOMAIN A /\ T[i] = A[i]
           FromB(i) == \E k \in DOMAIN B : i = Len(A) + k /\ T[i] = B[k]
<1>7. \A i \in DOMAIN T : FromA(i) \/ FromB(i)
  <2> TAKE i \in DOMAIN T
  <2>1. CASE i \in 1..Len(A)
      BY <1>6, <2>1
  <2>2. CASE \E k \in 1..Len(B) : i = Len(A) + k
    <3>1. PICK k \in 1..Len(B) : i = Len(A) + k
        BY <2>2
    <3> QED BY <1>6, <3>1
  <2> QED BY <1>6, <2>1, <2>2
<1>8. /\ \A i : FromA(i) => IsTrial(T[i], "development") /\ T[i].trial_id[1] = "development"
      /\ \A i : FromB(i) => IsTrial(T[i], "evaluation") /\ T[i].trial_id[1] = "evaluation"
    BY <1>3, <1>4
<1>9. ASSUME NEW m \in DOMAIN T, NEW n \in DOMAIN T, T[m].trial_id = T[n].trial_id
      PROVE  m = n
  <2>1. CASE FromA(m) /\ FromA(n)
      BY <1>3, <1>9, <2>1
  <2>2. CASE FromB(m) /\ FromB(n)
    <3>1. PICK j \in DOMAIN B : m = Len(A) + j /\ T[m] = B[j]
        BY <2>2
    <3>2. PICK k \in DOMAIN B : n = Len(A) + k /\ T[n] = B[k]
        BY <2>2
    <3>3. B[j].trial_id = B[k].trial_id
        BY <1>9, <3>1, <3>2
    <3> QED BY <1>4, <3>1, <3>2, <3>3
  <2> HIDE DEF FromA, FromB
  <2> QED BY <1>1, <1>7, <1>8, <1>9, <2>1, <2>2
<1>10. \A t, p : IsTrial(t, p) => t.partition = p
    BY DEF IsTrial
<1>11. ASSUME NEW l
       PROVE  /\ l \in LabelsIn(T, "development") <=> l \in LabelsIn(A, "development")
              /\ l \in LabelsIn(T, "evaluation") <=> l \in LabelsIn(B, "evaluation")
  <2>1. \A s, p : l \in LabelsIn(s, p) <=> \E n \in DOMAIN s : s[n].partition = p /\ l = s[n].label
      BY DEF LabelsIn, ToSet
  <2>2. ASSUME NEW n \in DOMAIN A PROVE n \in DOMAIN T /\ T[n] = A[n]
      BY <1>6
  <2>3. ASSUME NEW n \in DOMAIN B PROVE Len(A) + n \in DOMAIN T /\ T[Len(A) + n] = B[n]
      BY <1>6
  <2>4. ASSUME NEW n \in DOMAIN T, T[n].partition = "development"
        PROVE  n \in DOMAIN A /\ T[n] = A[n]
    <3> HIDE DEF FromB
    <3> QED BY <1>1, <1>7, <1>8, <1>10, <2>4
  <2>5. ASSUME NEW n \in DOMAIN T, T[n].partition = "evaluation"
        PROVE  \E k \in DOMAIN B : T[n] = B[k]
    <3>1. FromB(n)
      <4> HIDE DEF FromA, FromB
      <4> QED BY <1>1, <1>7, <1>8, <1>10, <2>5
    <3> QED BY <3>1
  <2> QED BY <2>1, <2>2, <2>3, <2>4, <2>5
<1>12. \A p \in Partitions : LabelsIn(T, p) = Labels
  <2>1. LabelsIn(T, "development") = LabelsIn(A, "development")
      BY <1>11, Zenon
  <2>2. LabelsIn(T, "evaluation") = LabelsIn(B, "evaluation")
      BY <1>11, Zenon
  <2> QED BY <1>1, <1>3, <1>4, <2>1, <2>2
<1>13. \A t \in ToSet(T) : \E p \in Partitions : IsTrial(t, p)
    BY <1>1, <1>7, <1>8 DEF ToSet
<1>14. T # <<>>
  <2>1. PICK t \in ToSet(T) : t.partition = "development" /\ t.label = "genuine"
      BY <1>1, <1>12 DEF LabelsIn, Labels
  <2> QED BY <2>1 DEF ToSet
<1> QED BY <1>9, <1>12, <1>13, <1>14 DEF T

LEMMA PairingKeepsProtocol ==
    ASSUME SelectionOK(selections), NoDuplicates
    PROVE  AudioManifestOK(Materialized)
<1> DEFINE m == Materialized
           E == m.enrollments
           T == m.trials
<1>1. E = [i \in DOMAIN selections |-> Enrollment(selections[i])]
    BY DEF Materialized
<1>2. /\ T # <<>>
      /\ \A t \in ToSet(T) : \E p \in Partitions : IsTrial(t, p)
      /\ \A j, k \in DOMAIN T : T[j].trial_id = T[k].trial_id => j = k
      /\ \A p \in Partitions : LabelsIn(T, p) = Labels
    BY MaterializedTrials
<1> HIDE DEF m
<1>3. PICK S : selections \in Seq(S)
    BY DEF SelectionOK
<1>4. /\ DOMAIN E = DOMAIN selections
      /\ \A i \in DOMAIN selections :
             /\ E[i] \in ToSet(E) /\ E[i].identity_id = IdentityId(selections[i])
             /\ E[i].speaker_id = IdentityId(selections[i])
             /\ E[i].partition = selections[i].partition
             /\ E[i].samples = [k \in DOMAIN selections[i].enrollment_clips |->
                    Reference(selections[i], selections[i].enrollment_clips[k])]
      /\ \A e \in ToSet(E) : \E i \in DOMAIN selections : e = E[i]
    BY <1>1 DEF Enrollment, ToSet
<1> HIDE DEF E, T
<1>5. E # <<>>
  <2>1. PICK i \in DOMAIN selections : TRUE
      BY DEF SelectionOK, Partitions
  <2> QED BY <1>4, <2>1
<1>6. \A i, j \in DOMAIN E : E[i].identity_id = E[j].identity_id => i = j
  <2>1. \A i, j \in DOMAIN selections :
            IdentityId(selections[i]) = IdentityId(selections[j]) => i = j
      BY DEF SelectionOK
  <2>2. ASSUME NEW i \in DOMAIN selections PROVE E[i].identity_id = IdentityId(selections[i])
      BY <1>4
  <2>3. DOMAIN E = DOMAIN selections
      BY <1>4
  <2> QED BY <2>1, <2>2, <2>3
<1>7. ASSUME NEW t \in ToSet(T) PROVE \E e \in ToSet(E) : TrialRefersTo(t, e)
  <2>1. PICK p \in Partitions : IsTrial(t, p)
      BY <1>2
  <2>2. PICK a \in DOMAIN selections, b \in DOMAIN selections :
            /\ selections[b].partition = p /\ t.partition = p
            /\ t.label = (IF a = b THEN "genuine" ELSE "impostor")
            /\ t.claimed_identity_id = IdentityId(selections[b])
            /\ t.probe_speaker_id = IdentityId(selections[a])
      BY <2>1 DEF IsTrial
  <2>3. IdentityId(selections[b]) = IdentityId(selections[a]) => a = b
      BY DEF SelectionOK
  <2>4. TrialRefersTo(t, E[b])
      BY <1>4, <2>2, <2>3 DEF TrialRefersTo, ExpectedLabel
  <2> QED BY <1>4, <2>4
<1>8. \A p \in Partitions : \A x \in SpeakersIn(m, p) : x[1] = p
  <2>1. ASSUME NEW e \in ToSet(E) PROVE e.speaker_id[1] = e.partition
    <3>1. PICK i \in DOMAIN selections : e = E[i]
        BY <1>4
    <3>2. e.speaker_id = IdentityId(selections[i]) /\ e.partition = selections[i].partition
        BY <1>4, <3>1
    <3> QED BY <3>2 DEF IdentityId
  <2>2. \A t \in ToSet(T) : t.probe_speaker_id[1] = t.partition
      BY <1>2 DEF IsTrial, IdentityId
  <2> QED BY <2>1, <2>2 DEF SpeakersIn, E, T
<1>9. SpeakersIn(m, "development") \cap SpeakersIn(m, "evaluation") = {}
  <2>1. "development" \in Partitions /\ "evaluation" \in Partitions
        /\ "development" # "evaluation"
      BY DEF Partitions
  <2> QED BY <1>8, <2>1
<1>10. \A w \in Enrolled(m) : IsEnrolled(w)
  <2> TAKE w \in Enrolled(m)
  <2>1. PICK e \in ToSet(E) :
            w \in {<<r.sha256, e.partition, e.speaker_id>> : r \in ToSet(e.samples)}
      BY DEF Enrolled, E
  <2>2. PICK r \in ToSet(e.samples) : w = <<r.sha256, e.partition, e.speaker_id>>
      BY <2>1
  <2>3. PICK i \in DOMAIN selections : e = E[i]
      BY <1>4
  <2> DEFINE q == selections[i]
  <2>4. PICK k \in DOMAIN q.enrollment_clips : r = Reference(q, q.enrollment_clips[k])
    <3> DEFINE s == e.samples
    <3>1. s = [k \in DOMAIN q.enrollment_clips |-> Reference(q, q.enrollment_clips[k])]
        BY <1>4, <2>3
    <3>2. r \in ToSet(s)
        BY <2>2
    <3> HIDE DEF s, q
    <3>3. PICK k \in DOMAIN s : r = s[k]
        BY <3>2 DEF ToSet
    <3> QED BY <3>1, <3>3
  <2>5. DOMAIN q.enrollment_clips = 1..EnrollmentClips
    <3>1. IsSelected(q)
        BY DEF SelectionOK
    <3> HIDE DEF q
    <3> QED BY <3>1 DEF IsSelected
  <2>6. w = Owned(i, q.enrollment_clips[k])
      BY <1>4, <2>2, <2>3, <2>4 DEF Owned, Reference
  <2> QED BY <2>4, <2>5, <2>6 DEF IsEnrolled
<1>11. \A w \in Probed(m) : IsProbed(w)
  <2> TAKE w \in Probed(m)
  <2>1. PICK t \in ToSet(T) : w = <<t.sample.sha256, t.partition, t.probe_speaker_id>>
      BY DEF Probed, T
  <2>2. PICK p \in Partitions : IsTrial(t, p)
      BY <1>2
  <2>3. PICK a \in DOMAIN selections, k \in 1..ProbeClips :
            /\ selections[a].partition = p /\ t.partition = p
            /\ t.probe_speaker_id = IdentityId(selections[a])
            /\ t.sample = Reference(selections[a], selections[a].probe_clips[k])
      BY <2>2 DEF IsTrial
  <2>4. w = Owned(a, selections[a].probe_clips[k])
      BY <2>1, <2>3 DEF Owned, Reference
  <2> QED BY <2>4 DEF IsProbed
<1>12. /\ \A v, w \in Enrolled(m) \cup Probed(m) : v[1] = w[1] => v[2] = w[2] /\ v[3] = w[3]
       /\ \A v \in Enrolled(m), w \in Probed(m) : v[1] # w[1]
    BY <1>10, <1>11, OwnersAgree
<1>13. OneOwner(Enrolled(m)) /\ OneOwner(Probed(m))
    BY <1>12 DEF OneOwner
<1> QED BY <1>2, <1>5, <1>6, <1>7, <1>9, <1>12, <1>13 DEF AudioManifestOK, Unique, E, T, m

-----------------------------------------------------------------------------
(* A directory is complete from the manifest on                              *)

IsDirectory(d) == DOMAIN d = {"audio", "manifest", "provenance"}

Ready(audio, m) == AudioManifestOK(m) /\ IsManifest(m) /\ Holds(audio, m)

PreparationInv ==
    /\ \A p \in Partitions : IsSubset(subsets[p])
    /\ preparing \in {"materialize", "manifest", "provenance", "rename"} => IsDirectory(staging)
    /\ preparing = "materialize" =>
           /\ SelectionOK(selections)
           /\ \E k : k < Len(selections) /\ Staged(staging.audio, selections, k)
    /\ preparing = "manifest" =>
           /\ SelectionOK(selections)
           /\ Staged(staging.audio, selections, Len(selections))
    /\ preparing \in {"provenance", "rename"} => Ready(staging.audio, staging.manifest)
    /\ preparing = "rename" => staging.provenance = staging.manifest

CorpusComplete ==
    /\ IsDirectory(corpus) /\ corpus.provenance = corpus.manifest
    /\ AudioManifestOK(corpus.manifest) /\ IsManifest(corpus.manifest)
    /\ \A r \in Named(corpus.manifest) : r.path \in DOMAIN corpus.audio
    /\ damage = 0 => Holds(corpus.audio, corpus.manifest)

CorpusInv == corpus # None => CorpusComplete

LEMMA SelectedTogether ==
    ASSUME \A p \in Partitions : IsSubset(subsets[p]), Selectable
    PROVE  LET q == SelectPartition("development") \o SelectPartition("evaluation")
           IN  SelectionOK(q) /\ Staged(<<>>, q, 0) /\ 0 < Len(q)
<1> DEFINE A == SelectPartition("development")
           B == SelectPartition("evaluation")
           q == A \o B
           S == ToSet(A) \cup ToSet(B)
<1>1. /\ "development" \in Partitions /\ "evaluation" \in Partitions
      /\ "development" # "evaluation"
    BY DEF Partitions
<1>2. /\ Len(A) \in Nat /\ A \in Seq(ToSet(A)) /\ Apart(A)
      /\ \A i \in DOMAIN A : IsSelected(A[i]) /\ A[i].partition = "development"
      /\ \A i \in DOMAIN A : A[i].speaker_id \in Speakers("development")
    BY <1>1, SelectPartitionFacts
<1>3. /\ Len(B) \in Nat /\ B \in Seq(ToSet(B)) /\ Apart(B)
      /\ \A i \in DOMAIN B : IsSelected(B[i]) /\ B[i].partition = "evaluation"
      /\ \A i \in DOMAIN B : B[i].speaker_id \in Speakers("evaluation")
    BY <1>1, SelectPartitionFacts
<1>4. /\ Len(A) = SpeakersPerPartition /\ Len(B) = SpeakersPerPartition
      /\ SpeakersPerPartition \in Nat \ {0, 1}
      /\ Speakers("development") \cap Speakers("evaluation") = {}
    BY <1>1, ConfigAssumption DEF Selectable
<1>5. A \in Seq(S) /\ B \in Seq(S)
    BY <1>2, <1>3
<1> HIDE DEF A, B, S
<1>6. /\ DOMAIN A = 1..Len(A) /\ DOMAIN B = 1..Len(B)
      /\ q \in Seq(S) /\ DOMAIN q = 1..(Len(A) + Len(B)) /\ Len(q) = Len(A) + Len(B)
      /\ \A i \in 1..Len(A) : q[i] = A[i]
      /\ \A i \in 1..Len(B) : q[Len(A) + i] = B[i]
      /\ \A i \in 1..(Len(A) + Len(B)) :
             i \in 1..Len(A) \/ \E k \in 1..Len(B) : i = Len(A) + k
    BY <1>5, Joined
<1> HIDE DEF q
<1> DEFINE FromA(i) == i \in DOMAIN A /\ q[i] = A[i]
           FromB(i) == \E k \in DOMAIN B : i = Len(A) + k /\ q[i] = B[k]
<1>7. \A i \in DOMAIN q : FromA(i) \/ FromB(i)
  <2> TAKE i \in DOMAIN q
  <2>1. CASE i \in 1..Len(A)
      BY <1>6, <2>1
  <2>2. CASE \E k \in 1..Len(B) : i = Len(A) + k
    <3>1. PICK k \in 1..Len(B) : i = Len(A) + k
        BY <2>2
    <3> QED BY <1>6, <3>1
  <2> QED BY <1>6, <2>1, <2>2
<1>8. /\ \A i : FromA(i) => /\ IsSelected(q[i]) /\ q[i].partition = "development"
                            /\ q[i].speaker_id \in Speakers("development")
      /\ \A i : FromB(i) => /\ IsSelected(q[i]) /\ q[i].partition = "evaluation"
                            /\ q[i].speaker_id \in Speakers("evaluation")
    BY <1>2, <1>3
<1>9. ASSUME NEW i \in DOMAIN q, NEW j \in DOMAIN q, q[i].speaker_id = q[j].speaker_id
      PROVE  i = j
  <2>1. CASE FromA(i) /\ FromA(j)
      BY <1>2, <1>9, <2>1 DEF Apart
  <2>2. CASE FromB(i) /\ FromB(j)
    <3>1. PICK m \in DOMAIN B : i = Len(A) + m /\ q[i] = B[m]
        BY <2>2
    <3>2. PICK n \in DOMAIN B : j = Len(A) + n /\ q[j] = B[n]
        BY <2>2
    <3>3. B[m].speaker_id = B[n].speaker_id
        BY <1>9, <3>1, <3>2
    <3> QED BY <1>3, <3>1, <3>2, <3>3 DEF Apart
  <2> HIDE DEF FromA, FromB
  <2> QED BY <1>4, <1>7, <1>8, <1>9, <2>1, <2>2
<1>10. /\ {1, 2} \subseteq DOMAIN q /\ {Len(A) + 1, Len(A) + 2} \subseteq DOMAIN q
       /\ q[1].partition = "development" /\ q[2].partition = "development"
       /\ q[Len(A) + 1].partition = "evaluation" /\ q[Len(A) + 2].partition = "evaluation"
       /\ Len(A) + 1 # Len(A) + 2
  <2>1. /\ 1 \in 1..Len(A) /\ 2 \in 1..Len(A) /\ 1 \in 1..Len(B) /\ 2 \in 1..Len(B)
        /\ {1, 2} \subseteq 1..(Len(A) + Len(B))
        /\ {Len(A) + 1, Len(A) + 2} \subseteq 1..(Len(A) + Len(B))
      BY <1>4
  <2>2. q[1] = A[1] /\ q[2] = A[2] /\ q[Len(A) + 1] = B[1] /\ q[Len(A) + 2] = B[2]
      BY <1>6, <2>1
  <2>3. /\ A[1].partition = "development" /\ A[2].partition = "development"
        /\ B[1].partition = "evaluation" /\ B[2].partition = "evaluation"
      BY <1>2, <1>3, <1>6, <2>1
  <2> QED BY <1>4, <1>6, <2>1, <2>2, <2>3
<1> HIDE DEF FromA, FromB
<1>11. SelectionOK(q)
  <2>1. \A i, j \in DOMAIN q : IdentityId(q[i]) = IdentityId(q[j]) => i = j
      BY <1>9 DEF IdentityId
  <2>2. \A i \in DOMAIN q : IsSelected(q[i]) /\ q[i].partition \in Partitions
      BY <1>1, <1>7, <1>8
  <2>3. \A p \in Partitions : \E i, j \in DOMAIN q :
            i # j /\ q[i].partition = p /\ q[j].partition = p
      BY <1>10 DEF Partitions
  <2>4. Apart(q) /\ \E Z : q \in Seq(Z)
      BY <1>6, <1>9 DEF Apart
  <2> QED BY <2>1, <2>2, <2>3, <2>4 DEF SelectionOK
<1>12. 0 < Len(q)
    BY <1>3, <1>4, <1>6
<1>13. Staged(<<>>, q, 0)
  <2>1. DOMAIN <<>> = {} /\ 1..0 = {} /\ 0 \in 0..Len(q)
      BY <1>12, <1>6, <1>3, <1>4
  <2> QED BY <2>1 DEF Staged
<1> QED BY <1>11, <1>12, <1>13 DEF q, A, B

LEMMA SelectStep ==
    ASSUME PreparationInv, Select
    PROVE  PreparationInv'
<1>1. subsets' = subsets
    BY DEF Select
<1>2. CASE corpus = None /\ Selectable
  <2> DEFINE q == SelectPartition("development") \o SelectPartition("evaluation")
  <2>1. selections' = q /\ staging' = EmptyDirectory /\ preparing' = "materialize"
      BY <1>2 DEF Select
  <2>2. SelectionOK(q) /\ Staged(<<>>, q, 0) /\ 0 < Len(q)
      BY <1>2, SelectedTogether DEF PreparationInv
  <2>3. IsDirectory(EmptyDirectory) /\ EmptyDirectory.audio = <<>>
      BY DEF IsDirectory, EmptyDirectory
  <2> HIDE DEF q
  <2> QED BY <1>1, <2>1, <2>2, <2>3 DEF PreparationInv
<1>3. CASE ~(corpus = None /\ Selectable)
    BY <1>1, <1>3 DEF Select, PreparationInv
<1> QED BY <1>2, <1>3

LEMMA WriteSpeakerStep ==
    ASSUME PreparationInv, WriteSpeaker
    PROVE  PreparationInv'
<1>1. /\ preparing = "materialize" /\ subsets' = subsets /\ selections' = selections
      /\ SelectionOK(selections) /\ IsDirectory(staging)
    BY DEF WriteSpeaker, PreparationInv
<1>2. PICK k : k < Len(selections) /\ Staged(staging.audio, selections, k)
    BY <1>1 DEF PreparationInv
<1>3. Cardinality(Written) = k
    BY <1>1, <1>2, WrittenFirst
<1> DEFINE next == selections[k + 1]
           files == [path \in {PathOf(next, c) : c \in ToSet(Clips(next))} |->
                        (CHOOSE c \in ToSet(Clips(next)) : PathOf(next, c) = path).audio]
<1>4. CASE EnrollmentOK(Enrollment(next))
  <2>1. staging' = [staging EXCEPT !.audio =
                       [path \in DOMAIN @ \cup DOMAIN files |->
                            IF path \in DOMAIN files THEN files[path] ELSE @[path]]]
      BY <1>3, <1>4 DEF WriteSpeaker
  <2>2. preparing' = IF k + 1 = Len(selections) THEN "manifest" ELSE "materialize"
      BY <1>3, <1>4 DEF WriteSpeaker
  <2>3. Staged(staging'.audio, selections', k + 1)
      BY <1>1, <1>2, <2>1, StagedNext DEF IsDirectory
  <2>4. IsDirectory(staging')
      BY <1>1, <2>1 DEF IsDirectory
  <2>5. k + 1 <= Len(selections) /\ Len(selections) \in Nat /\ k \in Nat
      BY <1>1, <1>2 DEF SelectionOK, Staged
  <2> HIDE DEF next, files
  <2> QED BY <1>1, <2>2, <2>3, <2>4, <2>5 DEF PreparationInv
<1>5. CASE ~EnrollmentOK(Enrollment(next))
  <2>1. preparing' = "refused"
      BY <1>3, <1>5 DEF WriteSpeaker, Abandon
  <2> QED BY <1>1, <2>1 DEF PreparationInv
<1> QED BY <1>4, <1>5

LEMMA WriteManifestStep ==
    ASSUME PreparationInv, WriteManifest
    PROVE  PreparationInv'
<1>1. /\ preparing = "manifest" /\ subsets' = subsets
      /\ SelectionOK(selections) /\ IsDirectory(staging)
      /\ Staged(staging.audio, selections, Len(selections))
    BY DEF WriteManifest, PreparationInv
<1>2. CASE AudioManifestOK(Materialized)
  <2>1. /\ staging' = [staging EXCEPT !.manifest = Materialized]
        /\ preparing' = "provenance"
      BY <1>2 DEF WriteManifest, PutManifest
  <2>2. /\ IsDirectory(staging') /\ staging'.audio = staging.audio
        /\ staging'.manifest = Materialized
      BY <1>1, <2>1 DEF IsDirectory
  <2>3. Ready(staging'.audio, staging'.manifest)
      BY <1>1, <1>2, <2>2, MaterializedFacts DEF Ready
  <2> QED BY <1>1, <2>1, <2>2, <2>3 DEF PreparationInv
<1>3. CASE ~AudioManifestOK(Materialized)
    BY <1>1, <1>3 DEF WriteManifest, Abandon, PreparationInv
<1> QED BY <1>2, <1>3

LEMMA PreparationStep ==
    ASSUME PreparationInv, CorpusInv, PrepareNext, UNCHANGED damage
    PROVE  PreparationInv' /\ CorpusInv'
<1>1. CASE Select
  <2>1. corpus' = corpus
      BY <1>1 DEF Select
  <2> QED BY <1>1, <2>1, SelectStep DEF CorpusInv, CorpusComplete
<1>2. CASE WriteSpeaker
  <2>1. corpus' = corpus
      BY <1>2 DEF WriteSpeaker
  <2> QED BY <1>2, <2>1, WriteSpeakerStep DEF CorpusInv, CorpusComplete
<1>3. CASE WriteManifest
  <2>1. corpus' = corpus
      BY <1>3 DEF WriteManifest
  <2> QED BY <1>3, <2>1, WriteManifestStep DEF CorpusInv, CorpusComplete
<1>4. CASE WriteProvenance
  <2>1. /\ preparing = "provenance" /\ preparing' = "rename"
        /\ staging' = [staging EXCEPT !.provenance = staging.manifest]
        /\ subsets' = subsets /\ corpus' = corpus
        /\ IsDirectory(staging) /\ Ready(staging.audio, staging.manifest)
      BY <1>4 DEF WriteProvenance, PreparationInv
  <2>2. /\ IsDirectory(staging') /\ staging'.audio = staging.audio
        /\ staging'.manifest = staging.manifest /\ staging'.provenance = staging.manifest
      BY <2>1 DEF IsDirectory
  <2> QED BY <2>1, <2>2 DEF PreparationInv, CorpusInv, CorpusComplete
<1>5. CASE Publish
  <2>1. /\ corpus' = staging /\ preparing' = "idle" /\ subsets' = subsets
        /\ IsDirectory(staging) /\ Ready(staging.audio, staging.manifest)
        /\ staging.provenance = staging.manifest
      BY <1>5 DEF Publish, PreparationInv
  <2> QED BY <2>1 DEF PreparationInv, CorpusInv, CorpusComplete, Ready, Holds
<1>6. CASE WriteFails
    BY <1>6 DEF WriteFails, Abandon, PreparationInv, CorpusInv, CorpusComplete
<1>7. CASE EndOfRun
    BY <1>7 DEF EndOfRun, PreparationInv, CorpusInv, CorpusComplete
<1> QED BY <1>1, <1>2, <1>3, <1>4, <1>5, <1>6, <1>7 DEF PrepareNext

-----------------------------------------------------------------------------
(* The scores of a manifest are an accepted scored manifest                  *)

\* The scores so far are those of the first trials, in order, each computed
\* from the recording that its trial names.
IsScored(sc, m) ==
    /\ \E S : sc \in Seq(S)
    /\ Len(sc) <= Len(m.trials)
    /\ \A i \in 1..Len(sc) :
           \E s : sc[i] = ScoredTrial(m, m.trials[i], s, m.trials[i].sample.sha256)

LEMMA SpeakerOfClaimed ==
    ASSUME NEW m, AudioManifestOK(m), NEW t \in ToSet(m.trials)
    PROVE  \E e \in ToSet(m.enrollments) :
               /\ e.partition = t.partition
               /\ SpeakerForIdentity(m, t.claimed_identity_id) = e.speaker_id
               /\ t.label = ExpectedLabel(e.speaker_id, t.probe_speaker_id)
<1> DEFINE E == ToSet(m.enrollments)
<1>1. PICK e \in E : TrialRefersTo(t, e)
    BY DEF AudioManifestOK
<1>2. \A i, j \in DOMAIN m.enrollments :
          m.enrollments[i].identity_id = m.enrollments[j].identity_id => i = j
    BY DEF AudioManifestOK, Unique
<1>3. \A d \in E : d.identity_id = e.identity_id => d = e
    BY <1>2 DEF ToSet
<1> HIDE DEF E
<1>4. e.identity_id = t.claimed_identity_id
    BY <1>1 DEF TrialRefersTo
<1>5. (CHOOSE d \in E : d.identity_id = t.claimed_identity_id) = e
    BY <1>3, <1>4
<1> QED BY <1>1, <1>5 DEF SpeakerForIdentity, TrialRefersTo, E

LEMMA ScoredAccepted ==
    ASSUME NEW m, AudioManifestOK(m), IsManifest(m),
           NEW sc, IsScored(sc, m), Len(sc) = Len(m.trials)
    PROVE  ScoredManifestOK(sc)
<1> DEFINE T == m.trials
<1>1. PICK S : T \in Seq(S)
    BY DEF IsManifest
<1>2. PICK Z : sc \in Seq(Z)
    BY DEF IsScored
<1>3. T # <<>>
    BY DEF AudioManifestOK
<1> HIDE DEF T
<1>4. DOMAIN T = 1..Len(T) /\ DOMAIN sc = 1..Len(T) /\ Len(T) \in Nat
    BY <1>1, <1>2 DEF T
<1>5. sc # <<>>
  <2>1. 1 \in DOMAIN T
      BY <1>1, <1>3
  <2> QED BY <1>4, <2>1
<1>6. ASSUME NEW i \in DOMAIN T
      PROVE  /\ sc[i].trial_id = T[i].trial_id /\ sc[i].partition = T[i].partition
             /\ sc[i].label = T[i].label /\ sc[i].probe_speaker_id = T[i].probe_speaker_id
             /\ \E e \in ToSet(m.enrollments) :
                    /\ e.partition = sc[i].partition
                    /\ sc[i].enrollment_speaker_id = e.speaker_id
                    /\ sc[i].label = ExpectedLabel(e.speaker_id, sc[i].probe_speaker_id)
  <2>1. PICK s : sc[i] = ScoredTrial(m, T[i], s, T[i].sample.sha256)
      BY <1>4 DEF IsScored, T
  <2>2. T[i] \in ToSet(m.trials)
      BY DEF T, ToSet
  <2>3. PICK e \in ToSet(m.enrollments) :
            /\ e.partition = T[i].partition
            /\ SpeakerForIdentity(m, T[i].claimed_identity_id) = e.speaker_id
            /\ T[i].label = ExpectedLabel(e.speaker_id, T[i].probe_speaker_id)
      BY <2>2, SpeakerOfClaimed
  <2>4. /\ sc[i].trial_id = T[i].trial_id /\ sc[i].partition = T[i].partition
        /\ sc[i].label = T[i].label /\ sc[i].probe_speaker_id = T[i].probe_speaker_id
        /\ sc[i].enrollment_speaker_id = SpeakerForIdentity(m, T[i].claimed_identity_id)
      BY <2>1 DEF ScoredTrial
  <2> QED BY <2>3, <2>4
<1>7. \A t \in ToSet(sc) : ScoredTrialOK(t)
    BY <1>4, <1>6 DEF ToSet, ScoredTrialOK
<1>8. Unique(sc, LAMBDA t : t.trial_id)
  <2>1. \A i, j \in DOMAIN T : T[i].trial_id = T[j].trial_id => i = j
      BY DEF AudioManifestOK, Unique, T
  <2>2. \A i, j \in DOMAIN sc : sc[i].trial_id = sc[j].trial_id => i = j
      BY <1>4, <1>6, <2>1
  <2> QED BY <2>2 DEF Unique
<1>9. ASSUME NEW p \in Partitions
      PROVE  LabelsIn(sc, p) = Labels
  <2>1. LabelsIn(T, p) = Labels
      BY DEF AudioManifestOK, T
  <2>2. ASSUME NEW l PROVE l \in LabelsIn(sc, p) <=> l \in LabelsIn(T, p)
    <3>1. l \in LabelsIn(sc, p) <=> \E i \in DOMAIN sc : sc[i].partition = p /\ l = sc[i].label
        BY DEF LabelsIn, ToSet
    <3>2. l \in LabelsIn(T, p) <=> \E i \in DOMAIN T : T[i].partition = p /\ l = T[i].label
        BY DEF LabelsIn, ToSet
    <3> QED BY <1>4, <1>6, <3>1, <3>2
  <2> QED BY <2>1, <2>2
<1>10. ASSUME NEW p \in Partitions
       PROVE  ScoredSpeakersIn(sc, p) \subseteq SpeakersIn(m, p)
  <2>1. ASSUME NEW t \in ToSet(sc), t.partition = p
        PROVE  /\ t.enrollment_speaker_id \in SpeakersIn(m, p)
               /\ t.probe_speaker_id \in SpeakersIn(m, p)
    <3>1. PICK i \in DOMAIN T : t = sc[i]
        BY <1>4 DEF ToSet
    <3>2. T[i] \in ToSet(m.trials) /\ T[i].partition = p
             /\ t.probe_speaker_id = T[i].probe_speaker_id
        BY <1>6, <2>1, <3>1 DEF T, ToSet
    <3>3. PICK e \in ToSet(m.enrollments) :
              e.partition = p /\ t.enrollment_speaker_id = e.speaker_id
        BY <1>6, <2>1, <3>1
    <3> QED BY <3>2, <3>3 DEF SpeakersIn
  <2> QED BY <2>1 DEF ScoredSpeakersIn
<1>11. ScoredSpeakersIn(sc, "development") \cap ScoredSpeakersIn(sc, "evaluation") = {}
  <2>1. SpeakersIn(m, "development") \cap SpeakersIn(m, "evaluation") = {}
      BY DEF AudioManifestOK
  <2> QED BY <1>10, <2>1 DEF Partitions
<1> QED BY <1>5, <1>7, <1>8, <1>9, <1>11 DEF ScoredManifestOK

-----------------------------------------------------------------------------
(* A run of scoring                                                          *)

\* The first identities of the manifest have their templates.
IsEnrolling(ts, m) ==
    \E k \in Nat : /\ k < Len(m.enrollments)
                   /\ DOMAIN ts = {m.enrollments[i].identity_id : i \in 1..k}

\* A template holds recordings of its enrollment only.
FromSamples(ts, m) ==
    \A id \in DOMAIN ts : \A e \in ToSet(m.enrollments) :
        e.identity_id = id => ToSet(ts[id]) \subseteq {r.sha256 : r \in ToSet(e.samples)}

ScoringInv ==
    /\ damage \in Nat
    /\ scoring \notin {"protocol", "quality"}
    /\ scoring = "audio" => damage > 0
    /\ scoring = "idle" => scored = <<>> /\ templates = <<>>
    /\ scoring # "idle" =>
           /\ CorpusComplete
           /\ IsScored(scored, corpus.manifest)
           /\ FromSamples(templates, corpus.manifest)
    /\ scoring = "enroll" => IsEnrolling(templates, corpus.manifest)

LEMMA NothingYet ==
    ASSUME NEW m, IsManifest(m)
    PROVE  /\ IsScored(<<>>, m) /\ FromSamples(<<>>, m)
           /\ AudioManifestOK(m) => IsEnrolling(<<>>, m)
<1>1. DOMAIN <<>> = {} /\ Len(<<>>) = 0 /\ 1..0 = {} /\ <<>> \in Seq({})
    OBVIOUS
<1>2. Len(m.trials) \in Nat /\ Len(m.enrollments) \in Nat
    BY DEF IsManifest
<1>3. AudioManifestOK(m) => 0 < Len(m.enrollments)
  <2>1. PICK S : m.enrollments \in Seq(S)
      BY DEF IsManifest
  <2>2. m.enrollments # <<>> => 0 < Len(m.enrollments)
      BY <2>1
  <2> QED BY <2>2 DEF AudioManifestOK
<1>4. IsScored(<<>>, m)
    BY <1>1, <1>2 DEF IsScored
<1> QED BY <1>1, <1>3, <1>4 DEF FromSamples, IsEnrolling

LEMMA StartScoringStep ==
    ASSUME CorpusInv, ScoringInv, StartScoring
    PROVE  ScoringInv'
<1>1. /\ corpus' = corpus /\ damage' = damage /\ CorpusComplete
      /\ AudioManifestOK(corpus.manifest) /\ IsManifest(corpus.manifest)
    BY DEF StartScoring, CorpusInv, CorpusComplete
<1>2. scoring' = "enroll" /\ templates' = <<>> /\ scored' = <<>>
    BY <1>1 DEF StartScoring
<1>3. /\ IsScored(<<>>, corpus.manifest) /\ FromSamples(<<>>, corpus.manifest)
      /\ IsEnrolling(<<>>, corpus.manifest)
    BY <1>1, NothingYet
<1> QED BY <1>1, <1>2, <1>3 DEF ScoringInv, CorpusComplete

\* A recording that is not the one a manifest names has been changed.
LEMMA Changed ==
    ASSUME CorpusComplete, ScoringInv, NEW r \in Named(corpus.manifest)
    PROVE  /\ ~Readable(r) => damage > 0
           /\ Readable(r) => corpus.audio[r.path].quality = "good"
<1>1. ~Readable(r) => damage # 0
    BY DEF CorpusComplete, Holds, Readable
<1>2. damage \in Nat
    BY DEF ScoringInv
<1>3. r.sha256.quality = "good"
    BY DEF CorpusComplete, IsManifest
<1> QED BY <1>1, <1>2, <1>3 DEF Readable

LEMMA EnrollStep ==
    ASSUME ScoringInv, EnrollNext
    PROVE  ScoringInv'
<1> DEFINE m == corpus.manifest
           e == m.enrollments[Cardinality(DOMAIN templates) + 1]
           G == {i \in DOMAIN e.samples : corpus.audio[e.samples[i].path].quality = "good"}
           good == Taken(e.samples, G)
           template(kept) == Heard(Taken(good, kept))
           Stores(kept) ==
               /\ templates' = [id \in DOMAIN templates \cup {e.identity_id} |->
                                   IF id = e.identity_id THEN template(kept) ELSE templates[id]]
               /\ scoring' = IF Cardinality(DOMAIN templates) + 1 = Len(m.enrollments)
                             THEN "score" ELSE "enroll"
               /\ scored' = scored
<1>1. /\ scoring = "enroll" /\ CorpusComplete /\ corpus' = corpus /\ damage' = damage
      /\ damage \in Nat /\ AudioManifestOK(m) /\ IsManifest(m) /\ IsScored(scored, m)
      /\ FromSamples(templates, m) /\ IsEnrolling(templates, m)
    BY DEF EnrollNext, corpusVars, ScoringInv, CorpusComplete
<1>2. \/ (\E r \in ToSet(e.samples) : ~Readable(r)) /\ Fail("audio")
      \/ Len(good) < 3 /\ (\A r \in ToSet(e.samples) : Readable(r)) /\ Fail("quality")
      \/ Fail("model")
      \/ /\ \A r \in ToSet(e.samples) : Readable(r)
         /\ \E kept \in SUBSET DOMAIN good : Stores(kept)
    BY DEF EnrollNext, Those, Retained
<1>3. \A i, j \in DOMAIN m.enrollments :
          m.enrollments[i].identity_id = m.enrollments[j].identity_id => i = j
    BY <1>1 DEF AudioManifestOK, Unique
<1>4. PICK k \in Nat : /\ k < Len(m.enrollments)
                       /\ DOMAIN templates = {m.enrollments[i].identity_id : i \in 1..k}
    BY <1>1 DEF IsEnrolling
<1>5. PICK S : m.enrollments \in Seq(S)
    BY <1>1 DEF IsManifest
<1>6. Cardinality(DOMAIN templates) = k
  <2> DEFINE ids == [i \in 1..k |-> m.enrollments[i].identity_id]
  <2>1. \A i \in 1..k : i \in DOMAIN m.enrollments
      BY <1>4, <1>5
  <2>2. DOMAIN templates = {ids[i] : i \in 1..k}
      BY <1>4
  <2>3. \A i, j \in 1..k : ids[i] = ids[j] => i = j
      BY <1>3, <2>1
  <2> HIDE DEF ids
  <2> QED BY <2>2, <2>3, CountedOnce
<1>7. k + 1 \in DOMAIN m.enrollments /\ e = m.enrollments[k + 1] /\ e \in ToSet(m.enrollments)
  <2>1. e = m.enrollments[k + 1]
      BY <1>6
  <2> HIDE DEF e, m
  <2>2. k + 1 \in DOMAIN m.enrollments
      BY <1>4, <1>5
  <2> QED BY <2>1, <2>2 DEF ToSet
<1>8. \A r \in ToSet(e.samples) : r \in Named(m)
    BY <1>7 DEF Named
<1>9. CASE (\E r \in ToSet(e.samples) : ~Readable(r)) /\ Fail("audio")
    BY <1>1, <1>8, <1>9, Changed DEF Fail, ScoringInv, CorpusComplete
<1>10. ASSUME \A r \in ToSet(e.samples) : Readable(r)
       PROVE  /\ Len(good) = EnrollmentClips
              /\ \A kept \in SUBSET DOMAIN good :
                     ToSet(template(kept)) \subseteq {r.sha256 : r \in ToSet(e.samples)}
  <2> DEFINE x == e.samples
  <2>1. PICK Z : x \in Seq(Z)
      BY <1>1, <1>7 DEF IsManifest
  <2>2. Len(x) = EnrollmentClips /\ EnrollmentClips \in Nat
      BY <1>1, <1>7, ConfigAssumption DEF IsManifest
  <2>3. \A i \in DOMAIN x : x[i] \in ToSet(x)
      BY DEF ToSet
  <2>31. \A i \in DOMAIN x : corpus.audio[x[i].path].quality = "good"
      BY <1>1, <1>8, <1>10, <2>3, Changed
  <2>32. G = {i \in DOMAIN x : corpus.audio[x[i].path].quality = "good"}
      OBVIOUS
  <2>33. good = Taken(x, G)
      OBVIOUS
  <2>34. \A r \in ToSet(x) : Readable(r)
      BY <1>10
  <2> HIDE DEF G, m, e, x, good
  <2>4. DOMAIN x = 1..EnrollmentClips /\ G = 1..EnrollmentClips
      BY <2>1, <2>2, <2>31, <2>32
  <2>41. G \subseteq DOMAIN x
      BY <2>4
  <2>5. /\ Taken(x, G) \in Seq(Z) /\ Len(Taken(x, G)) = Cardinality(G)
        /\ \A n \in DOMAIN Taken(x, G) : \E i \in G : Taken(x, G)[n] = x[i]
      BY <2>1, <2>41, TakenMembers
  <2>6. Cardinality(G) = EnrollmentClips
      BY <2>2, <2>4, FS_Interval
  <2>7. ASSUME NEW kept \in SUBSET DOMAIN good, NEW n \in DOMAIN Taken(good, kept)
        PROVE  corpus.audio[Taken(good, kept)[n].path] \in {r.sha256 : r \in ToSet(x)}
    <3>1. good \in Seq(Z) /\ kept \subseteq DOMAIN good
        BY <2>5, <2>33
    <3>2. PICK j \in kept : Taken(good, kept)[n] = good[j]
        BY <3>1, TakenMembers
    <3>3. PICK i \in G : good[j] = x[i]
        BY <2>5, <2>33, <3>1
    <3>4. Taken(good, kept)[n] \in ToSet(x)
        BY <2>3, <2>4, <3>2, <3>3
    <3> QED BY <2>34, <3>4 DEF Readable
  <2>8. ASSUME NEW kept \in SUBSET DOMAIN good
        PROVE  ToSet(template(kept)) \subseteq {r.sha256 : r \in ToSet(x)}
      BY <2>7 DEF ToSet, Heard
  <2> QED BY <2>33, <2>5, <2>6, <2>8 DEF x
<1>11. CASE Len(good) < 3 /\ (\A r \in ToSet(e.samples) : Readable(r)) /\ Fail("quality")
  <2>1. Len(good) = EnrollmentClips
      BY <1>10, <1>11
  <2> HIDE DEF good
  <2> QED BY <1>11, <2>1, ConfigAssumption
<1>12. CASE Fail("model")
    BY <1>1, <1>12 DEF Fail, ScoringInv, CorpusComplete
<1>13. CASE /\ \A r \in ToSet(e.samples) : Readable(r)
            /\ \E kept \in SUBSET DOMAIN good : Stores(kept)
  <2>0. PICK kept \in SUBSET DOMAIN good : Stores(kept)
      BY <1>13
  <2> HIDE DEF G, good, template
  <2>1. FromSamples(templates', m)
    <3> SUFFICES ASSUME NEW id \in DOMAIN templates', NEW d \in ToSet(m.enrollments),
                        d.identity_id = id
                 PROVE  ToSet(templates'[id]) \subseteq {r.sha256 : r \in ToSet(d.samples)}
        BY DEF FromSamples
    <3>1. CASE id = e.identity_id
      <4>1. d = e
          BY <1>3, <1>7, <3>1 DEF ToSet
      <4> QED BY <1>10, <1>13, <2>0, <3>1, <4>1
    <3>2. CASE id # e.identity_id
        BY <1>1, <2>0, <3>2 DEF FromSamples
    <3> QED BY <3>1, <3>2
  <2>2. scoring' = IF k + 1 = Len(m.enrollments) THEN "score" ELSE "enroll"
      BY <1>6, <2>0
  <2>3. k + 1 # Len(m.enrollments) => IsEnrolling(templates', m)
    <3>1. DOMAIN templates' = {m.enrollments[i].identity_id : i \in 1..(k + 1)}
      <4>1. \A i : i \in 1..(k + 1) <=> i \in 1..k \/ i = k + 1
          OBVIOUS
      <4>2. DOMAIN templates' = DOMAIN templates \cup {m.enrollments[k + 1].identity_id}
          BY <1>7, <2>0
      <4> QED BY <1>4, <4>1, <4>2
    <3>2. k + 1 # Len(m.enrollments) => k + 1 < Len(m.enrollments)
        BY <1>4, <1>5
    <3> QED BY <3>1, <3>2 DEF IsEnrolling
  <2> HIDE DEF e
  <2> QED BY <1>1, <2>0, <2>1, <2>2, <2>3 DEF ScoringInv, CorpusComplete
<1> QED BY <1>2, <1>9, <1>11, <1>12, <1>13

LEMMA ScoreStep ==
    ASSUME ScoringInv, ScoreNext
    PROVE  ScoringInv'
<1> DEFINE m == corpus.manifest
           n == Len(scored) + 1
           t == m.trials[n]
           heard == corpus.audio[t.sample.path]
<1>1. /\ scoring = "score" /\ CorpusComplete /\ corpus' = corpus /\ damage' = damage
      /\ damage \in Nat /\ IsManifest(m) /\ IsScored(scored, m) /\ FromSamples(templates, m)
      /\ Len(scored) < Len(m.trials)
    BY DEF ScoreNext, corpusVars, ScoringInv, CorpusComplete
<1>2. \/ ~Readable(t.sample) /\ Fail("audio")
      \/ Readable(t.sample) /\ heard.quality # "good" /\ Fail("quality")
      \/ Fail("model")
      \/ /\ Readable(t.sample)
         /\ \E s \in Scores : scored' = Append(scored, ScoredTrial(m, t, s, heard))
         /\ scoring' = scoring /\ templates' = templates
    BY DEF ScoreNext
<1>3. PICK S : m.trials \in Seq(S)
    BY <1>1 DEF IsManifest
<1>4. PICK Z : scored \in Seq(Z)
    BY <1>1 DEF IsScored
<1>5. n \in DOMAIN m.trials /\ t \in ToSet(m.trials)
    BY <1>1, <1>3, <1>4 DEF ToSet
<1>6. t.sample \in Named(m)
    BY <1>5 DEF Named
<1>7. CASE ~Readable(t.sample) /\ Fail("audio")
    BY <1>1, <1>6, <1>7, Changed DEF Fail, ScoringInv, CorpusComplete
<1>8. CASE Readable(t.sample) /\ heard.quality # "good" /\ Fail("quality")
    BY <1>1, <1>6, <1>8, Changed
<1>9. CASE Fail("model")
    BY <1>1, <1>9 DEF Fail, ScoringInv, CorpusComplete
<1>10. CASE /\ Readable(t.sample)
            /\ \E s \in Scores : scored' = Append(scored, ScoredTrial(m, t, s, heard))
            /\ scoring' = scoring /\ templates' = templates
  <2>1. PICK s \in Scores : scored' = Append(scored, ScoredTrial(m, t, s, heard))
      BY <1>10
  <2>2. heard = t.sample.sha256
      BY <1>10 DEF Readable
  <2> DEFINE x == ScoredTrial(m, t, s, heard)
  <2>3. x = ScoredTrial(m, m.trials[n], s, m.trials[n].sample.sha256)
      BY <2>2
  <2> HIDE DEF x, heard, t, m
  <2>4. /\ scored' \in Seq(Z \cup {x}) /\ Len(scored') = n
        /\ scored'[n] = x /\ \A i \in 1..Len(scored) : scored'[i] = scored[i]
      BY <1>4, <2>1 DEF x
  <2>5. ASSUME NEW i \in 1..n
        PROVE  \E a : scored'[i] = ScoredTrial(m, m.trials[i], a, m.trials[i].sample.sha256)
    <3>1. CASE i = n
        BY <2>3, <2>4, <3>1
    <3>2. CASE i \in 1..Len(scored)
        BY <1>1, <2>4, <3>2 DEF IsScored
    <3> QED BY <1>4, <3>1, <3>2
  <2>6. n <= Len(m.trials)
      BY <1>1, <1>3, <1>4
  <2>7. IsScored(scored', m)
      BY <2>4, <2>5, <2>6 DEF IsScored
  <2> QED BY <1>1, <1>10, <2>7 DEF ScoringInv, m, CorpusComplete
<1> QED BY <1>2, <1>7, <1>8, <1>9, <1>10

LEMMA DamageStep ==
    ASSUME ScoringInv, NEW path, Damage(path)
    PROVE  CorpusInv' /\ ScoringInv'
<1>1. /\ scoring \in {"enroll", "score"} /\ damage' = damage + 1 /\ damage \in Nat
      /\ scoring' = scoring /\ templates' = templates /\ scored' = scored
      /\ CorpusComplete /\ IsDirectory(corpus)
    BY DEF Damage, ScoringInv, CorpusComplete
<1>2. PICK content : corpus' = [corpus EXCEPT !.audio[path] = content]
    BY DEF Damage
<1>3. /\ IsDirectory(corpus') /\ corpus'.manifest = corpus.manifest
      /\ corpus'.provenance = corpus.provenance
      /\ DOMAIN corpus'.audio = DOMAIN corpus.audio
    BY <1>1, <1>2 DEF IsDirectory
<1>4. CorpusComplete'
    BY <1>1, <1>3 DEF CorpusComplete
<1> QED BY <1>1, <1>3, <1>4 DEF CorpusInv, ScoringInv

LEMMA WriteScoredStep ==
    ASSUME ScoringInv, WriteScored
    PROVE  ScoringInv'
<1> DEFINE m == corpus.manifest
<1>1. /\ scoring = "score" /\ CorpusComplete /\ corpus' = corpus /\ damage' = damage
      /\ damage \in Nat /\ IsScored(scored, m) /\ Len(scored) = Len(m.trials)
    BY DEF WriteScored, corpusVars, ScoringInv
<1>2. ScoredManifestOK(scored)
  <2>1. AudioManifestOK(m) /\ IsManifest(m)
      BY <1>1 DEF CorpusComplete
  <2> HIDE DEF m
  <2> QED BY <1>1, <2>1, ScoredAccepted
<1>3. scoring' \in {"idle", "killed"} /\ templates' = <<>> /\ scored' = <<>>
    BY <1>2 DEF WriteScored, PutScored
<1>4. IsScored(<<>>, m) /\ FromSamples(<<>>, m)
  <2>1. IsManifest(m)
      BY <1>1 DEF CorpusComplete
  <2> HIDE DEF m
  <2> QED BY <2>1, NothingYet
<1> QED BY <1>1, <1>3, <1>4 DEF ScoringInv, CorpusComplete

-----------------------------------------------------------------------------

CorpusStudyInv == PreparationInv /\ CorpusInv /\ ScoringInv

LEMMA SubsetsOfSource ==
    ASSUME NEW s, s \in Seq(ToSet(s)), Unique(s, LAMBDA x : x.speaker_id),
           \A x \in ToSet(s) : x.clips \in Seq(ToSet(x.clips)) /\ Unique(x.clips, LAMBDA c : c.id)
    PROVE  IsSubset(s)
<1>1. Apart(s)
    BY DEF Apart, Unique
<1>2. ASSUME NEW x \in ToSet(s)
      PROVE  IsSource(x)
  <2>1. \A i, j \in DOMAIN x.clips : x.clips[i].id = x.clips[j].id => i = j
      BY <1>2 DEF Unique
  <2> QED BY <1>2, <2>1 DEF IsSource, ApartIds
<1>3. \A i \in DOMAIN s : s[i] \in ToSet(s)
    BY DEF ToSet
<1> QED BY <1>1, <1>2, <1>3 DEF IsSubset

LEMMA CorpusStudyInit == StudyInit => CorpusStudyInv
<1> SUFFICES ASSUME StudyInit PROVE CorpusStudyInv
    OBVIOUS
<1>1. /\ preparing = "idle" /\ corpus = None
      /\ scoring = "idle" /\ templates = <<>> /\ scored = <<>> /\ damage = 0
      /\ subsets \in Sources \cup {NoSource}
    BY DEF StudyInit, CorpusInit, ScoringInit
<1>2. ASSUME NEW p \in Partitions PROVE IsSubset(subsets[p])
  <2>1. CASE subsets \in Sources
      BY <2>1, StudyAssumption, SubsetsOfSource
  <2>2. CASE subsets = NoSource
    <3>1. subsets[p] = <<>> /\ DOMAIN <<>> = {} /\ <<>> \in Seq({})
        BY <2>2 DEF NoSource
    <3> QED BY <3>1 DEF IsSubset, Apart
  <2> QED BY <1>1, <2>1, <2>2
<1> QED BY <1>1, <1>2 DEF CorpusStudyInv, PreparationInv, CorpusInv, ScoringInv

LEMMA CorpusStudyStep ==
    ASSUME CorpusStudyInv, [StudyNext]_studyVars
    PROVE  CorpusStudyInv'
<1> USE DEF CorpusStudyInv
<1>1. CASE PrepareNext /\ scoring = "idle" /\ UNCHANGED <<scoringVars, spoofVars>>
  <2>1. UNCHANGED <<scoring, templates, scored, damage>>
      BY <1>1 DEF scoringVars
  <2>2. PreparationInv' /\ CorpusInv'
      BY <1>1, <2>1, PreparationStep
  <2>3. ScoringInv'
      BY <1>1, <2>1 DEF ScoringInv
  <2> QED BY <2>2, <2>3
<1>2. CASE TrialScoringNext
  <2>1. PreparationInv'
    <3>1. UNCHANGED <<subsets, preparing, selections, staging>>
        BY <1>2 DEF TrialScoringNext, StartScoring, EnrollNext, ScoreNext, WriteScored,
                    StopScoring, EvaluateScores, Damage, corpusVars
    <3> QED BY <3>1 DEF PreparationInv
  <2>2. CASE \E path : Damage(path)
      BY <2>1, <2>2, DamageStep
  <2>3. ASSUME ~(\E path : Damage(path)) PROVE CorpusInv'
    <3>1. UNCHANGED <<corpus, damage>>
        BY <1>2, <2>3 DEF TrialScoringNext, StartScoring, EnrollNext, ScoreNext, WriteScored,
                    StopScoring, EvaluateScores, corpusVars
    <3> QED BY <3>1 DEF CorpusInv, CorpusComplete
  <2>4. ASSUME StopScoring PROVE ScoringInv'
      BY <2>4 DEF StopScoring, ScoringInv
  <2>5. ASSUME EvaluateScores PROVE ScoringInv'
      BY <2>5 DEF EvaluateScores, corpusVars, ScoringInv, CorpusComplete
  <2>6. \/ \E path : Damage(path)
        \/ StartScoring \/ EnrollNext \/ ScoreNext \/ WriteScored \/ StopScoring
        \/ EvaluateScores
      BY <1>2 DEF TrialScoringNext
  <2> QED BY <2>1, <2>2, <2>3, <2>4, <2>5, <2>6, StartScoringStep, EnrollStep, ScoreStep,
             WriteScoredStep
<1>3. CASE UNCHANGED <<corpusVars, scoringVars>> \/ UNCHANGED studyVars
  <2>1. /\ UNCHANGED <<subsets, preparing, selections, staging, corpus>>
        /\ UNCHANGED <<scoring, templates, scored, damage>>
      BY <1>3 DEF studyVars, corpusVars, scoringVars
  <2> QED BY <2>1 DEF PreparationInv, CorpusInv, CorpusComplete, ScoringInv
<1> QED BY <1>1, <1>2, <1>3 DEF StudyNext

LEMMA CorpusStudySafe == StudySpec => []CorpusStudyInv
BY CorpusStudyInit, CorpusStudyStep, PTL DEF StudySpec

\* Wherever a preparation is killed or fails, a corpus that exists is complete and
\* keeps the protocol: every recording that its manifest names is there, with the
\* digest it names unless somebody has changed the file since.
THEOREM PublishedIsAlwaysComplete == StudySpec => []PublishedIsComplete
<1>1. CorpusStudyInv => PublishedIsComplete
    BY DEF CorpusStudyInv, CorpusInv, CorpusComplete, PublishedIsComplete, Holds
<1> QED BY <1>1, CorpusStudySafe, PTL

\* A published corpus has the quality that enrollment and verification ask for: only
\* a changed file or the embedder stops a run of scoring.
THEOREM PreparedCorpusAlwaysScores == StudySpec => []PreparedCorpusScores
<1>1. CorpusStudyInv => PreparedCorpusScores
    BY DEF CorpusStudyInv, ScoringInv, PreparedCorpusScores
<1> QED BY <1>1, CorpusStudySafe, PTL

\* The selection and the pairing of impostors always meet the protocol, whatever the
\* numbers of speakers and clips: a manifest is refused only when two of the selected
\* clips are the same recording.
THEOREM OnlyDuplicatesAreEverRefused == StudySpec => []OnlyDuplicatesAreRefused
<1>1. ASSUME CorpusStudyInv PROVE OnlyDuplicatesAreRefused
  <2> SUFFICES ASSUME preparing = "manifest", ~AudioManifestOK(Materialized)
               PROVE  \E s, t \in ToSet(selections) :
                          \E c \in ToSet(Clips(s)), d \in ToSet(Clips(t)) :
                              <<s.speaker_id, c.id>> # <<t.speaker_id, d.id>> /\ c.audio = d.audio
      BY DEF OnlyDuplicatesAreRefused
  <2>1. SelectionOK(selections)
      BY <1>1 DEF CorpusStudyInv, PreparationInv
  <2>2. ~NoDuplicates
      BY <2>1, PairingKeepsProtocol
  <2> QED BY <2>2 DEF NoDuplicates, ToSet
<1> QED BY <1>1, CorpusStudySafe, PTL

\* No template and no score comes from a recording other than the one the manifest
\* names, whatever happens to the files while a run reads them.
THEOREM ScoresAlwaysComeFromNamedAudio == StudySpec => []ScoresComeFromNamedAudio
<1>1. ASSUME CorpusStudyInv PROVE ScoresComeFromNamedAudio
  <2> DEFINE m == corpus.manifest
  <2>1. CASE scoring = "idle"
    <3>1. scored = <<>> /\ templates = <<>> /\ DOMAIN <<>> = {}
        BY <1>1, <2>1 DEF CorpusStudyInv, ScoringInv
    <3> QED BY <3>1 DEF ScoresComeFromNamedAudio
  <2>2. CASE scoring # "idle"
    <3>1. IsScored(scored, m) /\ FromSamples(templates, m)
        BY <1>1, <2>2 DEF CorpusStudyInv, ScoringInv
    <3>2. ASSUME NEW i \in DOMAIN scored PROVE scored[i].heard = m.trials[i].sample.sha256
      <4> HIDE DEF m
      <4>1. i \in 1..Len(scored)
          BY <3>1 DEF IsScored
      <4>2. PICK s : scored[i] = ScoredTrial(m, m.trials[i], s, m.trials[i].sample.sha256)
          BY <3>1, <4>1 DEF IsScored
      <4> QED BY <4>2 DEF ScoredTrial
    <3> QED BY <3>1, <3>2 DEF ScoresComeFromNamedAudio, FromSamples
  <2> QED BY <2>1, <2>2
<1> QED BY <1>1, CorpusStudySafe, PTL

\* The scores of an accepted audio manifest are an accepted scored manifest: no run
\* is refused at its end, after all the work, for a reason of protocol.
THEOREM ScoredIsAlwaysAccepted == StudySpec => []ScoredIsAccepted
<1>1. CorpusStudyInv => ScoredIsAccepted
    BY DEF CorpusStudyInv, ScoringInv, ScoredIsAccepted
<1> QED BY <1>1, CorpusStudySafe, PTL

-----------------------------------------------------------------------------
(* The size of a corpus, and the types of the study                          *)

OfPartition(q, p) == {i \in DOMAIN q : q[i].partition = p}

\* A selection has the speakers of the configuration in each partition.
SelectedEvenly(q) ==
    /\ \E S : q \in Seq(S)
    /\ \A p \in Partitions : Cardinality(OfPartition(q, p)) = SpeakersPerPartition

LEMMA SelectionIsEven ==
    ASSUME \A p \in Partitions : IsSubset(subsets[p]), Selectable
    PROVE  SelectedEvenly(SelectPartition("development") \o SelectPartition("evaluation"))
<1> DEFINE A == SelectPartition("development")
           B == SelectPartition("evaluation")
           q == A \o B
           S == ToSet(A) \cup ToSet(B)
           n == SpeakersPerPartition
<1>1. /\ "development" \in Partitions /\ "evaluation" \in Partitions
      /\ "development" # "evaluation"
      /\ \A p \in Partitions : p = "development" \/ p = "evaluation"
    BY DEF Partitions
<1>2. /\ A \in Seq(ToSet(A)) /\ \A i \in DOMAIN A : A[i].partition = "development"
    BY <1>1, SelectPartitionFacts
<1>3. /\ B \in Seq(ToSet(B)) /\ \A i \in DOMAIN B : B[i].partition = "evaluation"
    BY <1>1, SelectPartitionFacts
<1>4. Len(A) = n /\ Len(B) = n /\ n \in Nat
    BY <1>1, ConfigAssumption DEF Selectable
<1>5. A \in Seq(S) /\ B \in Seq(S)
    BY <1>2, <1>3
<1> HIDE DEF A, B, S, n
<1>6. /\ DOMAIN A = 1..n /\ DOMAIN B = 1..n
      /\ q \in Seq(S) /\ DOMAIN q = 1..(n + n)
      /\ \A i \in 1..n : q[i] = A[i]
      /\ \A i \in 1..n : q[n + i] = B[i]
      /\ \A i \in 1..(n + n) : i \in 1..n \/ \E k \in 1..n : i = n + k
  <2>1. /\ DOMAIN A = 1..Len(A) /\ DOMAIN B = 1..Len(B)
        /\ q \in Seq(S) /\ DOMAIN q = 1..(Len(A) + Len(B))
        /\ \A i \in 1..Len(A) : q[i] = A[i]
        /\ \A i \in 1..Len(B) : q[Len(A) + i] = B[i]
        /\ \A i \in 1..(Len(A) + Len(B)) :
               i \in 1..Len(A) \/ \E k \in 1..Len(B) : i = Len(A) + k
      BY <1>5, Joined
  <2> HIDE DEF q
  <2> QED BY <1>4, <2>1
<1> HIDE DEF q
<1>7. \A i \in 1..n : q[i].partition = "development"
    BY <1>2, <1>6
<1>8. \A k \in 1..n : q[n + k].partition = "evaluation"
    BY <1>3, <1>6
<1>9. \A i \in (n + 1)..(n + n) : q[i].partition = "evaluation"
  <2> TAKE i \in (n + 1)..(n + n)
  <2>1. i - n \in 1..n /\ n + (i - n) = i
      BY <1>4
  <2> QED BY <1>8, <2>1
<1>10. OfPartition(q, "development") = 1..n /\ OfPartition(q, "evaluation") = (n + 1)..(n + n)
  <2>1. \A i : i \in DOMAIN q <=> i \in 1..n \/ i \in (n + 1)..(n + n)
      BY <1>4, <1>6
  <2> QED BY <1>1, <1>7, <1>9, <2>1 DEF OfPartition
<1>11. Cardinality(1..n) = n /\ Cardinality((n + 1)..(n + n)) = n
  <2>1. Cardinality(1..n) = n
      BY <1>4, FS_Interval
  <2>2. (n + 1) \in Int /\ (n + n) \in Int /\ (n + n) - (n + 1) + 1 = n /\ (n > 0 => n + 1 <= n + n)
      BY <1>4
  <2>3. Cardinality((n + 1)..(n + n)) = n
      BY <1>4, <2>2, FS_Interval
  <2> QED BY <2>1, <2>3
<1>12. \A p \in Partitions : Cardinality(OfPartition(q, p)) = n
    BY <1>1, <1>10, <1>11
<1> QED BY <1>6, <1>12 DEF SelectedEvenly, q, n, A, B

CorpusTrials == 4 * SpeakersPerPartition * ProbeClips

LEMMA ManifestSize ==
    ASSUME SelectedEvenly(selections)
    PROVE  Len(Materialized.trials) = CorpusTrials
<1>1. PICK S : selections \in Seq(S)
    BY DEF SelectedEvenly
<1> DEFINE N == 2 * ProbeClips * SpeakersPerPartition
<1>2. N \in Nat /\ N + N = CorpusTrials
  <2>1. ProbeClips \in Nat /\ SpeakersPerPartition \in Nat
      BY ConfigAssumption
  <2> QED BY <2>1 DEF CorpusTrials
<1>3. ASSUME NEW p \in Partitions
      PROVE  DOMAIN ProbeTrials(p) = 1..N /\ ProbeTrials(p) \in Seq(ToSet(ProbeTrials(p)))
  <2> DEFINE I == {i \in DOMAIN selections : selections[i].partition = p}
             D == Taken(selections, I)
  <2>1. DOMAIN ProbeTrials(p) = 1..(2 * ProbeClips * Len(D))
      BY DEF ProbeTrials, Those
  <2>2. Len(D) = Cardinality(I)
    <3>1. I \subseteq DOMAIN selections
        OBVIOUS
    <3> HIDE DEF I
    <3> QED BY <1>1, <3>1, TakenMembers
  <2>3. Cardinality(I) = SpeakersPerPartition
      BY DEF SelectedEvenly, OfPartition
  <2> DEFINE T == ProbeTrials(p)
  <2>4. DOMAIN T = 1..N
      BY <2>1, <2>2, <2>3
  <2>5. T = [n \in DOMAIN T |-> T[n]]
      BY DEF ProbeTrials
  <2> HIDE DEF T, N
  <2>6. T \in Seq(ToSet(T))
    <3>1. T \in [1..N -> ToSet(T)]
        BY <2>4, <2>5 DEF ToSet
    <3> QED BY <1>2, <3>1
  <2> QED BY <2>4, <2>6 DEF T
<1> DEFINE A == ProbeTrials("development")
           B == ProbeTrials("evaluation")
           Z == ToSet(A) \cup ToSet(B)
<1>4. /\ DOMAIN A = 1..N /\ A \in Seq(ToSet(A))
      /\ DOMAIN B = 1..N /\ B \in Seq(ToSet(B))
    BY <1>3 DEF Partitions
<1>5. Materialized.trials = A \o B
    BY DEF Materialized
<1> HIDE DEF A, B, N
<1>6. A \in Seq(Z) /\ B \in Seq(Z) /\ Len(A) = N /\ Len(B) = N
    BY <1>2, <1>4
<1> HIDE DEF Z
<1>7. Len(A \o B) = N + N
  <2>1. Len(A \o B) = Len(A) + Len(B)
      BY <1>6, Joined
  <2> QED BY <1>6, <2>1
<1> QED BY <1>2, <1>5, <1>7

StudyTypeInv ==
    /\ preparing \in {"idle", "refused", "materialize", "manifest", "provenance", "rename"}
    /\ preparing \in {"idle", "refused"} => staging = None
    /\ scoring \in {"idle", "enroll", "score", "killed"} \cup Failures
    /\ stage \in {"off", "load", "sweep", "report", "done", "invalid"}
    /\ runs \in 0..MaxRuns /\ damage \in 0..MaxDamage
    /\ preparing \in {"materialize", "manifest"} => SelectedEvenly(selections)
    /\ preparing \in {"provenance", "rename"} => Len(staging.manifest.trials) = CorpusTrials
    /\ corpus # None \/ scoring # "idle" => Len(corpus.manifest.trials) = CorpusTrials

LEMMA StudyTypeInit ==
    ASSUME StudyInit PROVE StudyTypeInv
<1>1. /\ preparing = "idle" /\ staging = None /\ corpus = None /\ runs = 0
      /\ scoring = "idle" /\ damage = 0 /\ stage \in {"off", "load"}
    BY DEF StudyInit, CorpusInit, ScoringInit, SpoofInit
<1> QED BY <1>1, ConfigAssumption, StudyAssumption DEF StudyTypeInv

LEMMA PreparationTypes ==
    ASSUME CorpusStudyInv, StudyTypeInv, PrepareNext, UNCHANGED <<scoringVars, spoofVars>>
    PROVE  StudyTypeInv'
<1> USE DEF StudyTypeInv
<1>1. UNCHANGED <<scoring, damage, stage>>
    BY DEF scoringVars, spoofVars
<1>2. CASE Select
  <2>1. corpus = None /\ Selectable => SelectedEvenly(SelectPartition("development")
                                                     \o SelectPartition("evaluation"))
      BY SelectionIsEven DEF CorpusStudyInv, PreparationInv
  <2>2. runs' \in 0..MaxRuns /\ corpus' = corpus /\ preparing = "idle"
      BY <1>2, ConfigAssumption DEF Select
  <2>3. CASE corpus = None /\ Selectable
    <3>1. preparing' = "materialize" /\ SelectedEvenly(selections')
        BY <1>2, <2>1, <2>3 DEF Select
    <3> QED BY <1>1, <2>2, <3>1
  <2>4. CASE ~(corpus = None /\ Selectable)
    <3>1. preparing' = "refused" /\ staging' = staging
        BY <1>2, <2>4 DEF Select
    <3> QED BY <1>1, <2>2, <3>1
  <2> QED BY <2>3, <2>4
<1>3. CASE WriteSpeaker
  <2>1. /\ preparing = "materialize" /\ UNCHANGED <<selections, corpus, runs>>
        /\ \/ preparing' \in {"manifest", "materialize"}
           \/ preparing' = "refused" /\ staging' = None
      BY <1>3 DEF WriteSpeaker, Abandon
  <2> QED BY <1>1, <2>1
<1>4. CASE WriteManifest
  <2>1. /\ preparing = "manifest" /\ UNCHANGED <<selections, corpus, runs>>
        /\ \/ preparing' = "provenance" /\ staging' = [staging EXCEPT !.manifest = Materialized]
           \/ preparing' = "refused" /\ staging' = None
      BY <1>4 DEF WriteManifest, PutManifest, Abandon
  <2>2. IsDirectory(staging) /\ SelectedEvenly(selections)
      BY <2>1 DEF CorpusStudyInv, PreparationInv
  <2>3. preparing' = "provenance" => Len(staging'.manifest.trials) = CorpusTrials
    <3>1. preparing' = "provenance" => staging'.manifest = Materialized
        BY <2>1, <2>2 DEF IsDirectory
    <3> QED BY <2>2, <3>1, ManifestSize
  <2> QED BY <1>1, <2>1, <2>3
<1>5. CASE WriteProvenance
  <2>1. /\ preparing = "provenance" /\ preparing' = "rename"
        /\ UNCHANGED <<selections, corpus, runs>>
        /\ staging' = [staging EXCEPT !.provenance = staging.manifest]
      BY <1>5 DEF WriteProvenance
  <2>2. staging'.manifest = staging.manifest
      BY <2>1
  <2> QED BY <1>1, <2>1, <2>2
<1>6. CASE Publish
  <2>1. /\ preparing = "rename" /\ preparing' = "idle" /\ corpus' = staging
        /\ staging' = None /\ runs' = runs
      BY <1>6 DEF Publish
  <2> QED BY <1>1, <2>1
<1>7. CASE WriteFails
    BY <1>1, <1>7 DEF WriteFails, Abandon
<1>8. CASE EndOfRun
    BY <1>1, <1>8 DEF EndOfRun
<1> QED BY <1>2, <1>3, <1>4, <1>5, <1>6, <1>7, <1>8 DEF PrepareNext

LEMMA ScoringTypes ==
    ASSUME CorpusStudyInv, StudyTypeInv, TrialScoringNext, UNCHANGED spoofVars
    PROVE  StudyTypeInv'
<1> USE DEF StudyTypeInv
<1>1. UNCHANGED <<preparing, selections, staging, stage>>
    BY DEF TrialScoringNext, StartScoring, EnrollNext, ScoreNext, WriteScored, StopScoring,
           EvaluateScores, Damage, corpusVars, spoofVars
<1>2. CASE \E path : Damage(path)
  <2>1. PICK path, content :
            /\ damage < MaxDamage /\ damage' = damage + 1 /\ UNCHANGED <<scoring, runs>>
            /\ scoring \in {"enroll", "score"}
            /\ corpus' = [corpus EXCEPT !.audio[path] = content]
      BY <1>2 DEF Damage
  <2>2. CorpusComplete
      BY <2>1 DEF CorpusStudyInv, ScoringInv
  <2>3. corpus'.manifest = corpus.manifest
      BY <2>1
  <2>4. damage' \in 0..MaxDamage
      BY <2>1, StudyAssumption
  <2> QED BY <1>1, <2>1, <2>3, <2>4
<1>3. CASE StartScoring
  <2>1. /\ runs' \in 0..MaxRuns /\ scoring' \in {"enroll", "protocol"}
        /\ UNCHANGED <<corpus, damage>> /\ corpus # None
      BY <1>3, ConfigAssumption DEF StartScoring
  <2> QED BY <1>1, <2>1 DEF Failures
<1>4. CASE EnrollNext
  <2>1. /\ scoring' \in {"audio", "quality", "model", "score", "enroll"}
        /\ UNCHANGED <<corpus, runs, damage>> /\ scoring # "idle"
      BY <1>4 DEF EnrollNext, Fail, corpusVars
  <2> QED BY <1>1, <2>1 DEF Failures
<1>5. CASE ScoreNext
  <2>1. /\ scoring' \in {"audio", "quality", "model", "score"}
        /\ UNCHANGED <<corpus, runs, damage>> /\ scoring # "idle"
      BY <1>5 DEF ScoreNext, Fail, corpusVars
  <2> QED BY <1>1, <2>1 DEF Failures
<1>6. CASE WriteScored
  <2>1. /\ scoring' \in {"idle", "killed", "protocol"}
        /\ UNCHANGED <<corpus, runs, damage>> /\ scoring # "idle"
      BY <1>6 DEF WriteScored, PutScored, Fail, corpusVars
  <2> QED BY <1>1, <2>1 DEF Failures
<1>7. CASE StopScoring
    BY <1>1, <1>7 DEF StopScoring, corpusVars
<1>8. CASE EvaluateScores
    BY <1>1, <1>8 DEF EvaluateScores, corpusVars
<1> QED BY <1>2, <1>3, <1>4, <1>5, <1>6, <1>7, <1>8 DEF TrialScoringNext

LEMMA StudyTypeStep ==
    ASSUME CorpusStudyInv, StudyTypeInv, [StudyNext]_studyVars
    PROVE  StudyTypeInv'
<1>1. CASE PrepareNext /\ UNCHANGED <<scoringVars, spoofVars>>
    BY <1>1, PreparationTypes
<1>2. CASE TrialScoringNext /\ UNCHANGED spoofVars
    BY <1>2, ScoringTypes
<1>3. CASE SpoofNext /\ UNCHANGED <<corpusVars, scoringVars>>
  <2>1. UNCHANGED <<preparing, selections, staging, corpus, runs, scoring, damage>>
      BY <1>3 DEF corpusVars, scoringVars
  <2>2. stage' \in {"off", "load", "sweep", "report", "done", "invalid"}
      BY <1>3 DEF SpoofNext, LoadSpoofScores, SweepThreshold, SweepEnds, ReportSpoof, StudyTypeInv
  <2> QED BY <2>1, <2>2 DEF StudyTypeInv
<1>4. CASE UNCHANGED studyVars
    BY <1>4 DEF studyVars, corpusVars, scoringVars, spoofVars, StudyTypeInv
<1> QED BY <1>1, <1>2, <1>3, <1>4 DEF StudyNext

\* The types of the study: a staging directory exists only while a run prepares one,
\* and no run scores more trials than a corpus of the configured size has.
THEOREM StudyTypesAlwaysOK == StudySpec => []StudyTypeOK
<1>1. ASSUME CorpusStudyInv, StudyTypeInv PROVE StudyTypeOK
  <2>1. /\ preparing \notin {"idle", "refused"} =>
               DOMAIN staging = {"audio", "manifest", "provenance"}
        /\ preparing \in {"idle", "refused"} => staging = None
      BY <1>1 DEF CorpusStudyInv, PreparationInv, StudyTypeInv, IsDirectory
  <2>2. CorpusTrials \in Nat
    <3>1. SpeakersPerPartition \in Nat /\ ProbeClips \in Nat
        BY ConfigAssumption
    <3> QED BY <3>1 DEF CorpusTrials
  <2>3. Len(scored) \in 0..CorpusTrials
    <3>1. CASE scoring = "idle"
      <4>1. scored = <<>> /\ Len(<<>>) = 0
          BY <1>1, <3>1 DEF CorpusStudyInv, ScoringInv
      <4> QED BY <2>2, <4>1
    <3>2. CASE scoring # "idle"
      <4>1. IsScored(scored, corpus.manifest)
          BY <1>1, <3>2 DEF CorpusStudyInv, ScoringInv
      <4>2. Len(corpus.manifest.trials) = CorpusTrials
          BY <1>1, <3>2 DEF StudyTypeInv
      <4>3. Len(scored) \in Nat /\ Len(scored) <= CorpusTrials
          BY <4>1, <4>2 DEF IsScored
      <4> QED BY <2>2, <4>3
    <3> QED BY <3>1, <3>2
  <2> QED BY <1>1, <2>1, <2>3 DEF StudyTypeOK, StudyTypeInv, CorpusTrials
<1>2. StudySpec => []CorpusStudyInv
    BY CorpusStudySafe
<1> QED BY <1>1, <1>2, StudyTypeInit, StudyTypeStep, PTL DEF StudySpec
=============================================================================
