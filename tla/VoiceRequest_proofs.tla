-------------------------- MODULE VoiceRequest_proofs --------------------------
(***************************************************************************)
(* The rate limiter: Retry-After is honest, and bursts are bounded, for     *)
(* every limit, window and number of clients. A whole request is a          *)
(* behaviour of its parts, of the authorization pipeline and of the rate    *)
(* limiter, whose theorems therefore hold of it. The reading of its uploads *)
(* and the detection of its speech are proved here too.                     *)
(***************************************************************************)
EXTENDS VoiceRequest, VoiceAuthorization_proofs, WellFoundedInduction

USE GateAssumption

-----------------------------------------------------------------------------
(* The rate limiter                                                          *)

\* Windows and promises are well formed, and no window began in the future.
GateTypeOK ==
    /\ now \in Nat
    /\ DOMAIN windows \subseteq Clients
    /\ \A c \in DOMAIN windows :
        /\ windows[c] \in [started: Nat, count: 1..MaxRequests]
        /\ windows[c].started <= now
    /\ DOMAIN promised \subseteq Clients
    /\ \A c \in DOMAIN promised : promised[c] \in Nat

\* A client that holds a promise has used up a window, if it still has one, that
\* ends when the promise comes due or earlier.
PromisesCoverWindows ==
    \A c \in DOMAIN promised :
        c \in DOMAIN windows => windows[c].started + Window <= promised[c]

GateInv == GateTypeOK /\ PromisesCoverWindows

\* Rounding up: the seconds of Retry-After cover the rest of the window.
LEMMA RetryAfterCovers ==
    ASSUME NEW rest \in Nat
    PROVE  ((rest + Second - 1) \div Second) * Second >= rest
<1> DEFINE x == rest + Second - 1
           q == x \div Second
<1>1. x \in Nat /\ Second \in Nat /\ Second > 0
    OBVIOUS
<1> HIDE DEF x
<1>2. q \in Int /\ q * Second + Second > x
    BY <1>1
<1>3. q * Second \in Int
    BY <1>2
<1> HIDE DEF q
<1>4. q * Second + Second > rest + Second - 1
    BY <1>2 DEF x
<1>5. q * Second >= rest
    BY <1>3, <1>4, <1>1
<1> QED BY <1>5 DEF q, x

\* What consume finds: a running window, or a fresh one with nothing used.
LEMMA EntryFacts ==
    ASSUME GateTypeOK, NEW c \in Clients
    PROVE  /\ Entry(c) = [started |-> Entry(c).started, count |-> Entry(c).count]
           /\ Entry(c).started \in Nat /\ Entry(c).started <= now
           /\ Entry(c).count \in 0..MaxRequests
           /\ Admits(c) => Entry(c).count + 1 \in 1..MaxRequests
           /\ ~Admits(c) =>
                /\ Running(c)
                /\ Entry(c).started = windows[c].started
                /\ Entry(c).count = MaxRequests
<1>1. CASE ~Running(c)
  <2>1. Entry(c) = [started |-> now, count |-> 0]
      BY <1>1 DEF Entry
  <2> QED BY <2>1, <1>1 DEF Admits, GateTypeOK
<1>2. CASE Running(c)
  <2>1. /\ Entry(c) = windows[c] /\ c \in DOMAIN windows
        /\ windows[c] \in [started: Nat, count: 1..MaxRequests]
        /\ windows[c].started <= now
      BY <1>2 DEF Entry, Running, GateTypeOK
  <2> QED BY <2>1, <1>2 DEF Admits
<1> QED BY <1>1, <1>2

\* A refused client is told to wait until its window is over, at least.
LEMMA RetryAfterReaches ==
    ASSUME GateTypeOK, NEW c \in Clients, ~Admits(c)
    PROVE  /\ RetryAfter(c) \in Nat
           /\ now + RetryAfter(c) * Second \in Nat
           /\ windows[c].started + Window <= now + RetryAfter(c) * Second
<1> DEFINE rest == Window - (now - Entry(c).started)
           seconds == (rest + Second - 1) \div Second
<1>1. /\ Running(c)
      /\ Entry(c).started = windows[c].started
      /\ Entry(c).started \in Nat /\ now \in Nat
      /\ now - windows[c].started < Window
    BY EntryFacts DEF Running, GateTypeOK
<1>2. rest \in Nat /\ rest > 0 /\ now + rest = windows[c].started + Window
    BY <1>1
<1>3. RetryAfter(c) = IF seconds < 1 THEN 1 ELSE seconds
    BY DEF RetryAfter
<1> HIDE DEF rest
<1>4. seconds * Second >= rest
    BY <1>2, RetryAfterCovers
<1>5. seconds \in Int
    BY <1>2
<1> HIDE DEF seconds
<1>6. seconds >= 1
    BY <1>2, <1>4, <1>5
<1>7. RetryAfter(c) = seconds
    BY <1>3, <1>5, <1>6
<1>8. seconds * Second \in Nat
    BY <1>5, <1>6
<1> QED BY <1>1, <1>2, <1>4, <1>5, <1>6, <1>7, <1>8

LEMMA GateInvInit == GateInit => GateInv
BY DEF GateInit, GateInv, GateTypeOK, PromisesCoverWindows, Empty

LEMMA AdmitStep ==
    ASSUME GateInv, NEW c \in Clients, Admit(c) PROVE GateInv'
<1> USE DEF GateInv
<1>1. /\ Entry(c).started \in Nat /\ Entry(c).started <= now
      /\ Entry(c).count + 1 \in 1..MaxRequests
      /\ Entry(c) = [started |-> Entry(c).started, count |-> Entry(c).count]
    BY EntryFacts DEF Admit
<1> DEFINE used == [Entry(c) EXCEPT !.count = @ + 1]
<1>2. used \in [started: Nat, count: 1..MaxRequests] /\ used.started <= now
    BY <1>1
<1> HIDE DEF used
<1>3. /\ DOMAIN windows' = DOMAIN windows \cup {c}
      /\ \A k \in DOMAIN windows' : windows'[k] = IF k = c THEN used ELSE windows[k]
      /\ DOMAIN promised' = DOMAIN promised \ {c}
      /\ \A k \in DOMAIN promised' : promised'[k] = promised[k]
      /\ now' = now
    BY DEF Admit, Put, Without, used
<1>4. GateTypeOK'
    BY <1>2, <1>3 DEF GateTypeOK
<1>5. PromisesCoverWindows'
    BY <1>3 DEF PromisesCoverWindows
<1> QED BY <1>4, <1>5

LEMMA RefuseStep ==
    ASSUME GateInv, NEW c \in Clients, Refuse(c) PROVE GateInv'
<1> USE DEF GateInv
<1> DEFINE due == now + RetryAfter(c) * Second
<1>1. due \in Nat /\ windows[c].started + Window <= due
    BY RetryAfterReaches DEF Refuse
<1> HIDE DEF due
<1>2. /\ c \in DOMAIN windows /\ Entry(c) = windows[c]
    BY EntryFacts DEF Refuse, Running, Entry
<1>3. /\ Promise(c, due) \in Nat
      /\ windows[c].started + Window <= Promise(c, due)
    BY <1>1, <1>2 DEF Promise, GateTypeOK, PromisesCoverWindows
<1>4. /\ DOMAIN windows' = DOMAIN windows
      /\ \A k \in DOMAIN windows' : windows'[k] = windows[k]
      /\ DOMAIN promised' = DOMAIN promised \cup {c}
      /\ \A k \in DOMAIN promised' :
            promised'[k] = IF k = c THEN Promise(c, due) ELSE promised[k]
      /\ now' = now
    BY <1>2 DEF Refuse, Put, due
<1>5. GateTypeOK'
    BY <1>3, <1>4 DEF GateTypeOK
<1>6. PromisesCoverWindows'
    BY <1>3, <1>4 DEF PromisesCoverWindows
<1> QED BY <1>5, <1>6

LEMMA GateInvStep == GateInv /\ [GateNext]_gateVars => GateInv'
<1> SUFFICES ASSUME GateInv, [GateNext]_gateVars PROVE GateInv'
    OBVIOUS
<1> USE DEF GateInv
<1>1. CASE UNCHANGED gateVars
    BY <1>1 DEF gateVars, GateTypeOK, PromisesCoverWindows
<1>2. ASSUME NEW c \in Clients, Consume(c) PROVE GateInv'
    BY <1>2, AdmitStep, RefuseStep DEF Consume
<1>3. CASE Tick
    BY <1>3 DEF Tick, GateTypeOK, PromisesCoverWindows
<1>4. CASE Restart
    BY <1>4 DEF Restart, Empty, GateTypeOK, PromisesCoverWindows
<1> QED BY <1>1, <1>2, <1>3, <1>4 DEF GateNext

LEMMA PromisesAreKept == GateInv => WaitingAsToldIsEnough
<1> SUFFICES ASSUME GateInv, NEW c \in DOMAIN promised, now >= promised[c]
             PROVE  Admits(c)
    BY DEF WaitingAsToldIsEnough
<1>1. ~Running(c)
    BY DEF Running, GateInv, GateTypeOK, PromisesCoverWindows
<1> QED BY <1>1 DEF Admits, Entry

\* Whoever waits as long as Retry-After said is let through, whatever the limit,
\* the window and the number of clients, and however often it tried in between.
THEOREM RetryAfterIsHonest == GateSpec => []WaitingAsToldIsEnough
BY GateInvInit, GateInvStep, PromisesAreKept, PTL DEF GateSpec

-----------------------------------------------------------------------------
(* Bursts                                                                   *)

Admission == [at: Nat, started: Nat]

\* Admissions one after the other: each within its window, windows apart by their
\* length, at most MaxRequests in each, and the first of a full one at its start.
WellSpaced(r) ==
    /\ \A i \in 1..Len(r) : r[i].started <= r[i].at /\ r[i].at < r[i].started + Window
    /\ \A i, j \in 1..Len(r) :
          i < j => \/ r[i].started = r[j].started
                   \/ r[i].started + Window <= r[j].started
    /\ \A i, j \in 1..Len(r) : j = i + MaxRequests => r[i].started # r[j].started
    /\ \A i, j \in 1..Len(r) :
          j = i + MaxRequests - 1 /\ r[i].started = r[j].started => r[i].at = r[i].started

\* The limiter's entry w counts the last admissions, and the first of them opened it.
Counts(w, r) ==
    /\ w.count \in 1..MaxRequests /\ w.count <= Len(r)
    /\ \A i \in 1..Len(r) : r[i].started = w.started <=> i > Len(r) - w.count
    /\ r[Len(r) - w.count + 1].at = w.started

HistoryOK(c) ==
    /\ recent[c] \in Seq(Admission)
    /\ Len(recent[c]) <= 2 * MaxRequests
    /\ \A i \in 1..Len(recent[c]) : recent[c][i].at <= now
    /\ WellSpaced(recent[c])
    /\ IF recent[c] = <<>> THEN c \notin DOMAIN windows
       ELSE c \in DOMAIN windows /\ Counts(windows[c], recent[c])

BurstInv ==
    /\ DOMAIN recent = Clients
    /\ \A c \in Clients : HistoryOK(c)

\* One more admission in a well-spaced history.
LEMMA AppendedSpacing ==
    ASSUME NEW r \in Seq(Admission), WellSpaced(r),
           NEW e \in Admission, e.started <= e.at, e.at < e.started + Window,
           \A i \in 1..Len(r) :
                r[i].started = e.started \/ r[i].started + Window <= e.started,
           \A i \in 1..Len(r) :
                Len(r) + 1 = i + MaxRequests => r[i].started # e.started,
           \A i \in 1..Len(r) :
                Len(r) + 1 = i + MaxRequests - 1 /\ r[i].started = e.started
                    => r[i].at = r[i].started,
           MaxRequests = 1 => e.at = e.started
    PROVE  WellSpaced(Append(r, e))
<1> DEFINE q == Append(r, e)
           n == Len(r)
<1>1. /\ q \in Seq(Admission) /\ Len(q) = n + 1 /\ n \in Nat
      /\ \A i \in 1..n : q[i] = r[i]
      /\ q[n + 1] = e
    OBVIOUS
<1>2. /\ \A i \in 1..n : q[i].started <= q[i].at /\ q[i].at < q[i].started + Window
      /\ \A i, j \in 1..n :
            i < j => q[i].started = q[j].started \/ q[i].started + Window <= q[j].started
      /\ \A i, j \in 1..n : j = i + MaxRequests => q[i].started # q[j].started
      /\ \A i, j \in 1..n :
            j = i + MaxRequests - 1 /\ q[i].started = q[j].started => q[i].at = q[i].started
    BY <1>1 DEF WellSpaced
<1>3. \A i \in 1..n :
        /\ q[i].started = e.started \/ q[i].started + Window <= e.started
        /\ n + 1 = i + MaxRequests => q[i].started # e.started
        /\ n + 1 = i + MaxRequests - 1 /\ q[i].started = e.started => q[i].at = q[i].started
    BY <1>1
<1> HIDE DEF q, n
<1>4. \A i \in 1..Len(q) : i \in 1..n \/ i = n + 1
    BY <1>1
<1>5. \A i \in 1..Len(q) : q[i].started <= q[i].at /\ q[i].at < q[i].started + Window
    BY <1>1, <1>2, <1>4
<1>6. ASSUME NEW i \in 1..Len(q), NEW j \in 1..Len(q)
      PROVE  /\ i < j => q[i].started = q[j].started \/ q[i].started + Window <= q[j].started
             /\ j = i + MaxRequests => q[i].started # q[j].started
             /\ j = i + MaxRequests - 1 /\ q[i].started = q[j].started
                    => q[i].at = q[i].started
  <2>1. CASE i \in 1..n /\ j \in 1..n
      BY <1>2, <2>1
  <2>2. CASE i \in 1..n /\ j = n + 1
      BY <1>1, <1>3, <2>2
  <2>3. CASE i = n + 1 /\ j \in 1..n
      BY <1>1, <2>3
  <2>4. CASE i = n + 1 /\ j = n + 1
    <3>1. ~(i < j) /\ j # i + MaxRequests /\ (j = i + MaxRequests - 1 => MaxRequests = 1)
        BY <1>1, <2>4
    <3> QED BY <1>1, <2>4, <3>1
  <2> QED BY <1>4, <2>1, <2>2, <2>3, <2>4
<1>7. WellSpaced(q)
    BY <1>5, <1>6 DEF WellSpaced
<1> QED BY <1>7 DEF q

\* An admission that opens a window: the entry before it, if any, has run out.
LEMMA OpeningAdmission ==
    ASSUME NEW r \in Seq(Admission), WellSpaced(r), NEW t \in Nat,
           \A i \in 1..Len(r) : r[i].started + Window <= t
    PROVE  /\ WellSpaced(Append(r, [at |-> t, started |-> t]))
           /\ Counts([started |-> t, count |-> 1], Append(r, [at |-> t, started |-> t]))
<1> DEFINE e == [at |-> t, started |-> t]
           q == Append(r, e)
           n == Len(r)
<1>1. e \in Admission /\ e.at = t /\ e.started = t
    BY DEF Admission
<1>2. n \in Nat /\ \A i \in 1..n : r[i].started \in Nat
  <2>1. n \in Nat /\ \A i \in 1..n : r[i] \in Admission
      OBVIOUS
  <2> QED BY <2>1 DEF Admission
<1>3. /\ Len(q) = n + 1
      /\ \A i \in 1..n : q[i].started = r[i].started
      /\ q[n + 1] = e
    BY <1>1
<1> HIDE DEF e, q, n
<1>4. \A i \in 1..n : r[i].started # t
    BY <1>2 DEF n
<1>5. WellSpaced(q)
  <2>1. /\ e.started <= e.at /\ e.at < e.started + Window
        /\ \A i \in 1..n : r[i].started + Window <= e.started
        /\ \A i \in 1..n : r[i].started # e.started
        /\ MaxRequests = 1 => e.at = e.started
      BY <1>1, <1>4 DEF n
  <2> QED BY <1>1, <2>1, AppendedSpacing DEF q, n
<1>6. Counts([started |-> t, count |-> 1], q)
  <2>1. \A i \in 1..Len(q) : q[i].started = t <=> i > Len(q) - 1
    <3> SUFFICES ASSUME NEW i \in 1..Len(q)
                 PROVE  q[i].started = t <=> i > Len(q) - 1
        OBVIOUS
    <3>1. CASE i \in 1..n
      <4>1. q[i].started # t
          BY <1>3, <1>4, <3>1
      <4>2. ~(i > Len(q) - 1)
          BY <1>2, <1>3, <3>1
      <4> QED BY <4>1, <4>2
    <3>2. CASE i = n + 1
      <4>1. q[i].started = t
          BY <1>1, <1>3, <3>2
      <4>2. i > Len(q) - 1
          BY <1>2, <1>3, <3>2
      <4> QED BY <4>1, <4>2
    <3> QED BY <1>2, <1>3, <3>1, <3>2
  <2>2. Len(q) - 1 + 1 = n + 1 /\ 1 \in 1..MaxRequests /\ 1 <= Len(q)
      BY <1>2, <1>3
  <2> QED BY <1>1, <1>3, <2>1, <2>2 DEF Counts
<1> QED BY <1>5, <1>6 DEF q, e

\* An admission into a window with room left.
LEMMA FurtherAdmission ==
    ASSUME NEW r \in Seq(Admission), WellSpaced(r), r # <<>>, NEW t \in Nat,
           NEW s \in Nat, NEW k \in Nat, Counts([started |-> s, count |-> k], r),
           k < MaxRequests, s <= t, t < s + Window
    PROVE  /\ WellSpaced(Append(r, [at |-> t, started |-> s]))
           /\ Counts([started |-> s, count |-> k + 1], Append(r, [at |-> t, started |-> s]))
<1> DEFINE e == [at |-> t, started |-> s]
           q == Append(r, e)
           n == Len(r)
<1>1. e \in Admission /\ e.at = t /\ e.started = s
    BY DEF Admission
<1>2. n \in Nat /\ \A i \in 1..n : r[i].started \in Nat
  <2>1. n \in Nat /\ \A i \in 1..n : r[i] \in Admission
      OBVIOUS
  <2> QED BY <2>1 DEF Admission
<1>3. /\ Len(q) = n + 1
      /\ \A i \in 1..n : q[i] = r[i]
      /\ q[n + 1] = e
    BY <1>1
<1>4. /\ k \in 1..MaxRequests /\ k <= n
      /\ \A i \in 1..n : r[i].started = s <=> i > n - k
      /\ r[n - k + 1].at = s
    BY DEF Counts
<1>5. \A i \in 1..n : r[i].started = s \/ r[i].started + Window <= s
  <2>1. r[n].started = s /\ n \in 1..n
      BY <1>2, <1>4
  <2>2. \A i \in 1..n : i < n => r[i].started = s \/ r[i].started + Window <= s
      BY <2>1 DEF WellSpaced
  <2> QED BY <1>2, <2>1, <2>2
<1> HIDE DEF e, q, n
<1>6. \A i \in 1..n : n + 1 = i + MaxRequests => r[i].started # s
    BY <1>2, <1>4
<1>7. \A i \in 1..n : n + 1 = i + MaxRequests - 1 /\ r[i].started = s => r[i].at = r[i].started
  <2> SUFFICES ASSUME NEW i \in 1..n, n + 1 = i + MaxRequests - 1, r[i].started = s
               PROVE  r[i].at = r[i].started
      OBVIOUS
  <2>1. i > n - k
      BY <1>4
  <2>2. i = n - k + 1
      BY <1>2, <1>4, <2>1
  <2> QED BY <1>4, <2>2
<1>8. WellSpaced(q)
  <2>1. /\ e.started <= e.at /\ e.at < e.started + Window
        /\ MaxRequests = 1 => e.at = e.started
      BY <1>1, <1>4
  <2>2. /\ \A i \in 1..n : r[i].started = e.started \/ r[i].started + Window <= e.started
        /\ \A i \in 1..n : n + 1 = i + MaxRequests => r[i].started # e.started
        /\ \A i \in 1..n : n + 1 = i + MaxRequests - 1 /\ r[i].started = e.started
                              => r[i].at = r[i].started
      BY <1>1, <1>5, <1>6, <1>7
  <2> QED BY <1>1, <2>1, <2>2, AppendedSpacing DEF q, n
<1>9. Counts([started |-> s, count |-> k + 1], q)
  <2>1. k + 1 \in 1..MaxRequests /\ k + 1 <= Len(q)
      BY <1>2, <1>3, <1>4
  <2>2. Len(q) - (k + 1) = n - k /\ n - k + 1 \in 1..n
      BY <1>2, <1>3, <1>4
  <2>3. \A i \in 1..Len(q) : q[i].started = s <=> i > n - k
    <3> SUFFICES ASSUME NEW i \in 1..Len(q)
                 PROVE  q[i].started = s <=> i > n - k
        OBVIOUS
    <3>1. CASE i \in 1..n
        BY <1>3, <1>4, <3>1
    <3>2. CASE i = n + 1
        BY <1>1, <1>2, <1>3, <1>4, <3>2
    <3> QED BY <1>2, <1>3, <3>1, <3>2
  <2>4. q[n - k + 1].at = s
      BY <1>3, <1>4, <2>2
  <2> QED BY <2>1, <2>2, <2>3, <2>4 DEF Counts
<1> QED BY <1>8, <1>9 DEF q, e

\* Forgetting the oldest admission of a long history changes nothing of this.
LEMMA LatestKeepsSpacing ==
    ASSUME NEW q \in Seq(Admission), NEW w, WellSpaced(q), Counts(w, q),
           Len(q) <= 2 * MaxRequests + 1
    PROVE  /\ Latest(q) \in Seq(Admission) /\ Latest(q) # <<>>
           /\ Len(Latest(q)) <= 2 * MaxRequests
           /\ WellSpaced(Latest(q)) /\ Counts(w, Latest(q))
           /\ \A i \in 1..Len(Latest(q)) : \E j \in 1..Len(q) : Latest(q)[i] = q[j]
<1>1. Len(q) \in Nat /\ Len(q) >= 1
    BY DEF Counts
<1>2. CASE ~(Len(q) > 2 * MaxRequests)
    BY <1>1, <1>2 DEF Latest
<1>3. CASE Len(q) > 2 * MaxRequests
  <2> DEFINE r == Tail(q)
             n == Len(r)
  <2>1. /\ r \in Seq(Admission) /\ n = Len(q) - 1 /\ n \in Nat /\ n = 2 * MaxRequests
        /\ \A i \in 1..n : i + 1 \in 1..Len(q) /\ r[i] = q[i + 1]
      BY <1>1, <1>3
  <2>2. Latest(q) = r
      BY <1>3 DEF Latest
  <2> HIDE DEF r
  <2>3. WellSpaced(r)
    <3>1. \A i \in 1..n : r[i].started <= r[i].at /\ r[i].at < r[i].started + Window
        BY <2>1 DEF WellSpaced
    <3>2. ASSUME NEW i \in 1..n, NEW j \in 1..n
          PROVE  /\ i < j => \/ r[i].started = r[j].started
                             \/ r[i].started + Window <= r[j].started
                 /\ j = i + MaxRequests => r[i].started # r[j].started
                 /\ j = i + MaxRequests - 1 /\ r[i].started = r[j].started
                        => r[i].at = r[i].started
      <4>1. /\ i + 1 \in 1..Len(q) /\ j + 1 \in 1..Len(q)
            /\ r[i] = q[i + 1] /\ r[j] = q[j + 1]
          BY <2>1
      <4>2. i \in Int /\ j \in Int /\ MaxRequests \in Int
          BY <2>1
      <4>3. /\ i < j => i + 1 < j + 1
            /\ j = i + MaxRequests => j + 1 = (i + 1) + MaxRequests
            /\ j = i + MaxRequests - 1 => j + 1 = (i + 1) + MaxRequests - 1
          BY <4>2
      <4> HIDE DEF n
      <4>4. \A a, b \in 1..Len(q) :
              /\ a < b => \/ q[a].started = q[b].started
                         \/ q[a].started + Window <= q[b].started
              /\ b = a + MaxRequests => q[a].started # q[b].started
              /\ b = a + MaxRequests - 1 /\ q[a].started = q[b].started
                     => q[a].at = q[a].started
          BY DEF WellSpaced
      <4> QED BY <4>1, <4>3, <4>4
    <3> QED BY <3>1, <3>2 DEF WellSpaced
  <2>4. Counts(w, r)
    <3>1. w.count \in 1..MaxRequests /\ w.count <= n
        BY <2>1 DEF Counts
    <3>2. ASSUME NEW i \in 1..n PROVE r[i].started = w.started <=> i > n - w.count
      <4>1. q[i + 1].started = w.started <=> i + 1 > Len(q) - w.count
          BY <2>1 DEF Counts
      <4>2. i + 1 > Len(q) - w.count <=> i > n - w.count
          BY <2>1, <3>1
      <4> QED BY <2>1, <4>1, <4>2
    <3>3. r[n - w.count + 1].at = w.started
      <4>1. n - w.count + 1 \in 1..n /\ (n - w.count + 1) + 1 = Len(q) - w.count + 1
          BY <2>1, <3>1
      <4> QED BY <2>1, <4>1 DEF Counts
    <3> QED BY <3>1, <3>2, <3>3 DEF Counts
  <2>5. r # <<>>
      BY <2>1
  <2> QED BY <2>1, <2>2, <2>3, <2>4, <2>5
<1> QED BY <1>2, <1>3

LEMMA HistoryInit == GateInit => BurstInv
BY DEF GateInit, BurstInv, HistoryOK, WellSpaced, Empty

\* A request that is let through is counted once, in a window that runs.
LEMMA HistoryAdmit ==
    ASSUME GateInv, BurstInv, NEW c \in Clients, Admit(c)
    PROVE  BurstInv'
<1> DEFINE w == Entry(c)
           e == [at |-> now, started |-> w.started]
           r == recent[c]
<1>1. /\ w.started \in Nat /\ w.started <= now /\ w.count \in Nat
      /\ w = [started |-> w.started, count |-> w.count]
      /\ now \in Nat
    BY EntryFacts DEF GateInv, GateTypeOK
<1>2. HistoryOK(c) /\ DOMAIN recent = Clients
    BY DEF BurstInv
<1>3. e \in Admission /\ e.at = now
    BY <1>1 DEF Admission
<1>4. /\ WellSpaced(Append(r, e))
      /\ Counts([started |-> w.started, count |-> w.count + 1], Append(r, e))
  <2>1. CASE Running(c)
    <3>1. /\ w = windows[c] /\ now < w.started + Window
          /\ r # <<>> /\ Counts(w, r)
        BY <1>1, <1>2, <2>1 DEF Running, Entry, HistoryOK
    <3>2. w.count < MaxRequests
        BY DEF Admit, Admits
    <3> HIDE DEF w
    <3>3. Counts([started |-> w.started, count |-> w.count], r)
        BY <1>1, <3>1
    <3> QED BY <1>1, <1>2, <3>1, <3>2, <3>3, FurtherAdmission DEF HistoryOK
  <2>2. CASE ~Running(c)
    <3>1. w = [started |-> now, count |-> 0]
        BY <2>2 DEF Entry
    <3>2. \A i \in 1..Len(r) : r[i].started + Window <= now
      <4> SUFFICES ASSUME NEW i \in 1..Len(r) PROVE r[i].started + Window <= now
          OBVIOUS
      <4>1. /\ r # <<>> /\ c \in DOMAIN windows /\ Counts(windows[c], r)
            /\ r \in Seq(Admission) /\ WellSpaced(r)
          BY <1>2 DEF HistoryOK
      <4>2. /\ windows[c].started \in Nat
            /\ windows[c].started + Window <= now
          BY <1>1, <2>2, <4>1 DEF Running, GateInv, GateTypeOK
      <4>3. Len(r) \in Nat /\ Len(r) \in 1..Len(r)
          BY <4>1
      <4>4. r[Len(r)].started = windows[c].started
        <5>1. Len(r) > Len(r) - windows[c].count
            BY <4>1, <4>3 DEF Counts
        <5> QED BY <4>1, <4>3, <5>1 DEF Counts
      <4>5. r[i].started = windows[c].started \/ r[i].started + Window <= windows[c].started
          BY <4>1, <4>3, <4>4 DEF WellSpaced
      <4>6. r[i].started \in Nat
        <5>1. r[i] \in Admission
            BY <4>1
        <5> QED BY <5>1 DEF Admission
      <4> DEFINE a == r[i].started
                 b == windows[c].started
      <4>7. a \in Nat /\ b \in Nat /\ b + Window <= now /\ (a = b \/ a + Window <= b)
          BY <4>2, <4>5, <4>6
      <4> HIDE DEF a, b
      <4>8. a + Window <= now
          BY <1>1, <4>7
      <4> QED BY <4>8 DEF a
    <3> QED BY <1>1, <1>2, <3>1, <3>2, OpeningAdmission DEF HistoryOK
  <2> QED BY <2>1, <2>2
<1> HIDE DEF w, e
<1>5. /\ r \in Seq(Admission) /\ Len(r) <= 2 * MaxRequests
      /\ \A i \in 1..Len(r) : r[i].at <= now
    BY <1>2 DEF HistoryOK
<1> DEFINE q == Append(r, e)
<1>6. /\ q \in Seq(Admission) /\ Len(q) <= 2 * MaxRequests + 1
      /\ \A j \in 1..Len(q) : q[j].at <= now
  <2>1. /\ q \in Seq(Admission) /\ Len(q) = Len(r) + 1 /\ Len(r) \in Nat
        /\ \A j \in 1..Len(q) : q[j] = e \/ (j \in 1..Len(r) /\ q[j] = r[j])
      BY <1>3, <1>5
  <2> HIDE DEF q, r
  <2>2. \A j \in 1..Len(q) : q[j].at <= now
      BY <1>1, <1>3, <1>5, <2>1
  <2>3. Len(q) <= 2 * MaxRequests + 1
      BY <1>5, <2>1
  <2> QED BY <2>1, <2>2, <2>3
<1> HIDE DEF q, r
<1>7. /\ recent' = [recent EXCEPT ![c] = Latest(q)]
      /\ windows' = Put(windows, c, [w EXCEPT !.count = @ + 1])
      /\ now' = now
    BY DEF Admit, w, e, q, r
<1>8. [w EXCEPT !.count = @ + 1] = [started |-> w.started, count |-> w.count + 1]
    BY <1>1
<1> DEFINE v == [started |-> w.started, count |-> w.count + 1]
<1> HIDE DEF v
<1>9. /\ Latest(q) \in Seq(Admission) /\ Latest(q) # <<>>
      /\ Len(Latest(q)) <= 2 * MaxRequests
      /\ WellSpaced(Latest(q)) /\ Counts(v, Latest(q))
      /\ \A i \in 1..Len(Latest(q)) : \E j \in 1..Len(q) : Latest(q)[i] = q[j]
    BY <1>4, <1>6, LatestKeepsSpacing DEF v, q
<1>10. /\ recent'[c] = Latest(q)
       /\ c \in DOMAIN windows' /\ windows'[c] = v
       /\ \A d \in Clients \ {c} :
            /\ recent'[d] = recent[d]
            /\ d \in DOMAIN windows' <=> d \in DOMAIN windows
            /\ d \in DOMAIN windows => windows'[d] = windows[d]
       /\ DOMAIN recent' = Clients
    BY <1>2, <1>7, <1>8 DEF Put, v
<1>11. HistoryOK(c)'
    BY <1>6, <1>7, <1>9, <1>10 DEF HistoryOK
<1>12. ASSUME NEW d \in Clients \ {c} PROVE HistoryOK(d)'
    BY <1>7, <1>10 DEF BurstInv, HistoryOK
<1> QED BY <1>10, <1>11, <1>12 DEF BurstInv

LEMMA HistoryStep == GateInv /\ BurstInv /\ [GateNext]_gateVars => BurstInv'
<1> SUFFICES ASSUME GateInv, BurstInv, [GateNext]_gateVars PROVE BurstInv'
    OBVIOUS
<1>1. ASSUME NEW c \in Clients, Admit(c) PROVE BurstInv'
    BY <1>1, HistoryAdmit
<1>2. ASSUME NEW c \in Clients, Refuse(c) PROVE BurstInv'
  <2>1. /\ c \in DOMAIN windows /\ Entry(c) = windows[c]
      BY <1>2, EntryFacts DEF GateInv, Refuse, Running, Entry
  <2>2. /\ DOMAIN windows' = DOMAIN windows
        /\ \A d \in DOMAIN windows : windows'[d] = windows[d]
        /\ recent' = recent /\ now' = now
      BY <1>2, <2>1 DEF Refuse, Put
  <2> QED BY <2>2 DEF BurstInv, HistoryOK
<1>3. CASE Tick
  <2>1. now \in Nat /\ now' = now + 1 /\ windows' = windows /\ recent' = recent
      BY <1>3 DEF Tick, GateInv, GateTypeOK
  <2>2. ASSUME NEW c \in Clients PROVE HistoryOK(c)'
    <3>1. ASSUME NEW i \in 1..Len(recent[c]) PROVE recent[c][i].at <= now'
      <4>1. recent[c][i] \in Admission /\ recent[c][i].at <= now
          BY DEF BurstInv, HistoryOK
      <4> QED BY <2>1, <4>1 DEF Admission
    <3> QED BY <2>1, <3>1 DEF BurstInv, HistoryOK
  <2> QED BY <2>1, <2>2 DEF BurstInv
<1>4. CASE Restart
    BY <1>4 DEF Restart, BurstInv, HistoryOK, WellSpaced, Empty
<1>5. CASE UNCHANGED gateVars
    BY <1>5 DEF gateVars, BurstInv, HistoryOK
<1> QED BY <1>1, <1>2, <1>3, <1>4, <1>5 DEF GateNext, Consume

LEMMA LaterByAWindow ==
    ASSUME NEW at1 \in Nat, NEW at2 \in Nat, NEW started \in Nat, NEW next \in Nat,
           NEW last \in Nat, last <= at2,
           \/ at1 = started /\ started + Window <= next /\ next <= last
           \/ at1 < started + Window /\ started + Window <= next /\ next + Window <= last
    PROVE  at2 - at1 >= Window
OBVIOUS

\* Between the first and the last of 2 * MaxRequests admissions a window passes:
\* the second half cannot share the first one's window, and if the first half
\* does, it is all of it and begins where the window begins.
LEMMA HistorySpans == BurstInv => BurstIsBounded
<1> SUFFICES ASSUME BurstInv, NEW c \in Clients, Len(recent[c]) = 2 * MaxRequests
             PROVE  recent[c][2 * MaxRequests].at - recent[c][1].at >= Window
    BY DEF BurstIsBounded
<1> DEFINE r == recent[c]
           n == 2 * MaxRequests
           m == MaxRequests
<1>1. r \in Seq(Admission) /\ WellSpaced(r) /\ Len(r) = n
    BY DEF BurstInv, HistoryOK
<1>2. /\ m \in Nat /\ m >= 1 /\ n \in Nat /\ n = m + m
      /\ 1 \in 1..n /\ m \in 1..n /\ m + 1 \in 1..n /\ n \in 1..n
    OBVIOUS
<1>3. \A i \in 1..n : r[i].at \in Nat /\ r[i].started \in Nat
  <2>1. \A i \in 1..n : r[i] \in Admission
      BY <1>1
  <2> QED BY <2>1 DEF Admission
<1> SUFFICES r[n].at - r[1].at >= Window
    OBVIOUS
<1> HIDE DEF r, n
<1>9. /\ r[1].at \in Nat /\ r[1].started \in Nat /\ r[n].at \in Nat
      /\ r[n].started \in Nat /\ r[m].started \in Nat /\ r[m + 1].started \in Nat
    BY <1>2, <1>3
<1>4. /\ r[n].started <= r[n].at
      /\ r[1].at < r[1].started + Window
    BY <1>1, <1>2 DEF WellSpaced
<1>5. r[1].started + Window <= r[m + 1].started
  <2>1. r[1].started # r[m + 1].started
      BY <1>1, <1>2 DEF WellSpaced
  <2> QED BY <1>1, <1>2, <2>1 DEF WellSpaced
<1>6. r[m + 1].started <= r[n].started
  <2>1. CASE m + 1 = n
      BY <1>2, <1>3, <2>1
  <2>2. CASE m + 1 < n
    <3>1. \/ r[m + 1].started = r[n].started
          \/ r[m + 1].started + Window <= r[n].started
        BY <1>1, <1>2, <2>2 DEF WellSpaced
    <3> QED BY <1>2, <1>3, <3>1
  <2> QED BY <1>2, <2>1, <2>2
<1>7. CASE r[1].started = r[m].started
  <2>1. r[1].at = r[1].started
      BY <1>1, <1>2, <1>7 DEF WellSpaced
  <2> QED BY <1>9, <1>4, <1>5, <1>6, <2>1, LaterByAWindow
<1>8. CASE r[1].started # r[m].started
  <2>1. 1 < m /\ r[1].started + Window <= r[m].started
      BY <1>1, <1>2, <1>8 DEF WellSpaced
  <2>2. r[m].started + Window <= r[n].started
    <3>1. r[m].started # r[n].started
        BY <1>1, <1>2 DEF WellSpaced
    <3>2. m < n
        BY <1>2
    <3> QED BY <1>1, <1>2, <3>1, <3>2 DEF WellSpaced
  <2> QED BY <1>9, <1>4, <2>1, <2>2, LaterByAWindow
<1> QED BY <1>7, <1>8

\* On no edge between two windows does a client get 2 * MaxRequests requests through
\* in less than a window's length.
THEOREM BurstsAreBounded == GateSpec => []BurstIsBounded
BY GateInvInit, GateInvStep, HistoryInit, HistoryStep, HistorySpans, PTL DEF GateSpec

-----------------------------------------------------------------------------
(* The request                                                               *)

\* Whatever surrounds it, the pipeline starts as VoiceAuthorization says, and every
\* step of the request is a step of the pipeline or leaves it alone: the detector
\* and the quality rules choose only among the outcomes that ProcessAudio allows.
THEOREM RequestImplementsPipeline == Spec => AuthSpec
<1>1. Init => Start
    BY DEF Init
<1>2. [Next]_vars => [Proceed]_authVars
    BY DEF Next, vars, OtherRequests, FollowRequest, ReadUpload, UploadDone,
           Preprocess, InvalidAudio, JudgeQuality, OtherCalls, Answer, Proceed
<1> QED BY <1>1, <1>2, PTL DEF Spec, AuthSpec

\* No step of the request goes past the rate limiter or sets it back.
THEOREM RequestImplementsGate == Spec => GateSpec
<1>1. Init => GateInit
    BY DEF Init
<1>2. ASSUME [Next]_vars PROVE [GateNext]_gateVars
  <2>1. CASE OtherRequests
      BY <2>1 DEF OtherRequests
  <2>2. CASE FollowRequest
      BY <2>2 DEF FollowRequest, GateNext, Consume
  <2>3. CASE ReadUpload \/ UploadDone \/ Preprocess \/ InvalidAudio
      BY <2>3 DEF ReadUpload, UploadDone, Preprocess, InvalidAudio
  <2>4. CASE JudgeQuality \/ OtherCalls \/ Answer \/ UNCHANGED vars
      BY <2>4 DEF JudgeQuality, OtherCalls, Answer, vars
  <2> QED BY <1>2, <2>1, <2>2, <2>3, <2>4 DEF Next
<1> QED BY <1>1, <1>2, PTL DEF Spec, GateSpec

-----------------------------------------------------------------------------
(* The running total of read_uploads, by induction in the form of a least  *)
(* counterexample                                                          *)

LEMMA LeastNatural ==
    ASSUME NEW S, S \subseteq Nat, S # {}
    PROVE  \E m \in S : \A n \in S : m <= n
<1>1. IsWellFoundedOn(OpToRel(<, Nat), Nat)
    BY NatLessThanWellFounded
<1>2. PICK m \in S : \A n \in S : ~(<<n, m>> \in OpToRel(<, Nat))
    BY <1>1, WFMin
<1>3. \A n \in S : ~(n < m)
    BY <1>2 DEF OpToRel
<1> QED BY <1>3

\* f gives the total after each of the first n payloads.
Sums(f, sizes, n) == f = [i \in 0..n |-> IF i = 0 THEN 0 ELSE f[i - 1] + sizes[i]]

LEMMA SumsExist ==
    ASSUME NEW sizes, NEW n \in Nat
    PROVE  \E f : Sums(f, sizes, n)
<1> DEFINE Missing == {k \in Nat : ~\E f : Sums(f, sizes, k)}
<1> SUFFICES ASSUME Missing # {} PROVE FALSE
    OBVIOUS
<1>1. PICK k \in Missing : \A m \in Missing : k <= m
    BY LeastNatural
<1>2. CASE k = 0
  <2>1. Sums([i \in 0..0 |-> 0], sizes, 0)
      BY DEF Sums
  <2> QED BY <1>1, <1>2, <2>1
<1>3. CASE k > 0
  <2>1. k - 1 \in Nat /\ k - 1 \notin Missing
      BY <1>1, <1>3
  <2>2. PICK f : Sums(f, sizes, k - 1)
      BY <2>1
  <2> DEFINE g == [i \in 0..k |-> IF i = k THEN f[k - 1] + sizes[k] ELSE f[i]]
  <2>3. ASSUME NEW i \in 0..k
        PROVE  g[i] = IF i = 0 THEN 0 ELSE g[i - 1] + sizes[i]
    <3>1. CASE i = k
        BY <1>3, <3>1
    <3>2. CASE i < k
      <4>1. i \in 0..(k - 1) /\ g[i] = f[i]
          BY <2>1, <3>2
      <4>2. f[i] = IF i = 0 THEN 0 ELSE f[i - 1] + sizes[i]
          BY <2>2, <4>1 DEF Sums
      <4>3. i # 0 => i - 1 \in 0..k /\ i - 1 # k /\ g[i - 1] = f[i - 1]
          BY <3>2
      <4> HIDE DEF g
      <4> QED BY <4>1, <4>2, <4>3
    <3> QED BY <3>1, <3>2
  <2>4. Sums(g, sizes, k)
      BY <2>3 DEF Sums
  <2> QED BY <1>1, <2>4
<1> QED BY <1>1, <1>2, <1>3

LEMMA TotalSums ==
    ASSUME NEW sizes \in Seq(Nat)
    PROVE  \E f : Sums(f, sizes, Len(sizes)) /\ Total(sizes) = f[Len(sizes)]
<1>1. Len(sizes) \in Nat
    OBVIOUS
<1> DEFINE sum == CHOOSE f :
               f = [i \in 0..Len(sizes) |-> IF i = 0 THEN 0 ELSE f[i - 1] + sizes[i]]
<1>2. \E f : f = [i \in 0..Len(sizes) |-> IF i = 0 THEN 0 ELSE f[i - 1] + sizes[i]]
    BY <1>1, SumsExist DEF Sums
<1>3. Total(sizes) = sum[Len(sizes)]
    BY Zenon DEF Total
<1>4. sum = [i \in 0..Len(sizes) |-> IF i = 0 THEN 0 ELSE sum[i - 1] + sizes[i]]
    BY <1>2, Zenon
<1> QED BY <1>3, <1>4 DEF Sums

\* The totals of a sequence and of a longer one agree as far as the first goes.
LEMMA SumsAgree ==
    ASSUME NEW f, NEW g, NEW s, NEW t, NEW m \in Nat, NEW n \in Nat, m <= n,
           Sums(f, s, m), Sums(g, t, n), \A i \in 1..m : s[i] = t[i]
    PROVE  f[m] = g[m]
<1> DEFINE Differing == {i \in 0..m : f[i] # g[i]}
<1>1. /\ \A i \in 0..m : f[i] = IF i = 0 THEN 0 ELSE f[i - 1] + s[i]
      /\ \A i \in 0..n : g[i] = IF i = 0 THEN 0 ELSE g[i - 1] + t[i]
    BY DEF Sums
<1>2. ASSUME Differing # {} PROVE FALSE
  <2>1. PICK k \in Differing : \A i \in Differing : k <= i
    <3>1. Differing \subseteq Nat
        OBVIOUS
    <3> HIDE DEF Differing
    <3> QED BY <1>2, <3>1, LeastNatural
  <2>2. k # 0
      BY <1>1, <2>1
  <2>3. k - 1 \in 0..m /\ k - 1 \notin Differing /\ k \in 0..n /\ k \in 1..m
      BY <2>1, <2>2
  <2>4. f[k - 1] = g[k - 1] /\ s[k] = t[k]
      BY <2>3
  <2> QED BY <1>1, <2>1, <2>2, <2>3, <2>4
<1> QED BY <1>2

LEMMA TotalEmpty == Total(<<>>) = 0
<1>1. PICK f : Sums(f, <<>>, 0) /\ Total(<<>>) = f[0]
    BY TotalSums, <<>> \in Seq(Nat), Len(<<>>) = 0
<1> QED BY <1>1 DEF Sums

LEMMA TotalAppend ==
    ASSUME NEW s \in Seq(Nat), NEW size \in Nat
    PROVE  Total(Append(s, size)) = Total(s) + size
<1> DEFINE t == Append(s, size)
           n == Len(s)
<1>1. /\ t \in Seq(Nat) /\ n \in Nat /\ Len(t) = n + 1
      /\ t[n + 1] = size
      /\ \A i \in 1..n : s[i] = t[i]
    OBVIOUS
<1>2. PICK f : Sums(f, s, n) /\ Total(s) = f[n]
    BY TotalSums
<1>3. PICK g : Sums(g, t, n + 1) /\ Total(t) = g[n + 1]
    BY <1>1, TotalSums
<1> HIDE DEF t, n
<1>4. g[n + 1] = g[n] + size
  <2>1. \A i \in 0..(n + 1) : g[i] = IF i = 0 THEN 0 ELSE g[i - 1] + t[i]
      BY <1>3 DEF Sums
  <2>2. n + 1 \in 0..(n + 1) /\ n + 1 # 0 /\ (n + 1) - 1 = n
      BY <1>1
  <2> QED BY <1>1, <2>1, <2>2
<1>5. f[n] = g[n]
  <2>1. n + 1 \in Nat /\ n <= n + 1
      BY <1>1
  <2> QED BY <1>1, <1>2, <1>3, <2>1, SumsAgree
<1> QED BY <1>2, <1>3, <1>4, <1>5 DEF t

-----------------------------------------------------------------------------
(* What the upload holds in memory                                          *)

\* Every payload kept has passed the checks at the end of its file; the one being
\* read has passed the limit of a file with its last chunk but one.
ReadsAreBounded ==
    /\ reading \in {"idle", "reading", "accepted"} \cup RefusedUpload
    /\ uploads \in Nat
    /\ buffer \in 0..(MaxFileBytes + ChunkBytes)
    /\ payloads \in Seq(1..MaxFileBytes)
    /\ Total(payloads) \in 0..MaxTotalBytes
    /\ reading = "idle" => payloads = <<>> /\ buffer = 0
    /\ reading = "reading" => /\ buffer <= MaxFileBytes
                              /\ Len(payloads) < uploads
                              /\ uploads <= MaxFiles
    /\ reading = "accepted" => Len(payloads) = uploads /\ uploads <= MaxFiles

LEMMA NothingRead ==
    <<>> \in Seq(1..MaxFileBytes) /\ Len(<<>>) = 0 /\ Total(<<>>) \in 0..MaxTotalBytes
BY TotalEmpty, UploadAssumption

LEMMA ReadsInit == Idle => ReadsAreBounded
BY NothingRead, UploadAssumption DEF Idle, ReadsAreBounded

LEMMA BeginReads ==
    ASSUME ReadsAreBounded, NEW n \in Nat \ {0}, NEW length, BeginUploads(n, length)
    PROVE  ReadsAreBounded'
BY NothingRead, UploadAssumption DEF ReadsAreBounded, BeginUploads, RefusedUpload

LEMMA ChunkReads ==
    ASSUME ReadsAreBounded, ReadChunk
    PROVE  ReadsAreBounded'
BY UploadAssumption DEF ReadsAreBounded, ReadChunk, RefusedUpload

LEMMA EndOfFileCases ==
    ASSUME ReadsAreBounded, NEW size \in Nat, EndOfFile(size) \notin RefusedUpload
    PROVE  /\ size \in 1..MaxFileBytes
           /\ Total(payloads) + size <= MaxTotalBytes
           /\ EndOfFile(size) = IF Len(payloads) + 1 = uploads THEN "accepted"
                                                               ELSE "reading"
<1> DEFINE total == Total(payloads)
           seen == Len(payloads)
<1>1. total \in Nat /\ MaxFileBytes \in Nat /\ MaxTotalBytes \in Nat
    BY UploadAssumption DEF ReadsAreBounded
<1>2. EndOfFile(size) =
        CASE size > MaxFileBytes -> "file_too_large"
          [] size = 0 -> "empty_audio_file"
          [] size \in 1..MaxFileBytes /\ total + size > MaxTotalBytes ->
               "upload_total_too_large"
          [] OTHER -> IF seen + 1 = uploads THEN "accepted" ELSE "reading"
    BY DEF EndOfFile
<1> HIDE DEF total, seen
<1>3. size > MaxFileBytes => EndOfFile(size) \in RefusedUpload
    BY <1>1, <1>2 DEF RefusedUpload
<1>4. size = 0 => EndOfFile(size) \in RefusedUpload
    BY <1>1, <1>2 DEF RefusedUpload
<1>5. size \in 1..MaxFileBytes
    BY <1>1, <1>3, <1>4
<1>6. total + size > MaxTotalBytes => EndOfFile(size) \in RefusedUpload
    BY <1>1, <1>2, <1>5 DEF RefusedUpload
<1> QED BY <1>1, <1>2, <1>5, <1>6 DEF total, seen

LEMMA AppendPayload ==
    ASSUME NEW S, NEW s \in Seq(S), NEW e \in S
    PROVE  /\ Append(s, e) \in Seq(S)
           /\ Len(Append(s, e)) = Len(s) + 1
           /\ \A i \in DOMAIN s : s[i] \in S
OBVIOUS

LEMMA EndReads ==
    ASSUME ReadsAreBounded, EndUpload
    PROVE  ReadsAreBounded'
<1>1. PICK rest \in 0..(ChunkBytes - 1) :
        /\ reading = "reading"
        /\ reading' = EndOfFile(buffer + rest)
        /\ IF reading' \in RefusedUpload
           THEN buffer' = buffer + rest /\ payloads' = payloads
           ELSE payloads' = Append(payloads, buffer + rest) /\ buffer' = 0
        /\ uploads' = uploads
    BY DEF EndUpload
<1> DEFINE size == buffer + rest
<1>2. /\ size \in 0..(MaxFileBytes + ChunkBytes)
      /\ Len(payloads) \in Nat /\ Len(payloads) < uploads /\ uploads <= MaxFiles
    BY <1>1, UploadAssumption DEF ReadsAreBounded
<1>3. CASE reading' \in RefusedUpload
    BY <1>1, <1>2, <1>3 DEF ReadsAreBounded, RefusedUpload
<1>4. CASE reading' \notin RefusedUpload
  <2>1. size \in 1..MaxFileBytes /\ Total(payloads) + size <= MaxTotalBytes
      BY <1>1, <1>2, <1>4, EndOfFileCases
  <2>2. reading' = IF Len(payloads) + 1 = uploads THEN "accepted" ELSE "reading"
      BY <1>1, <1>2, <1>4, EndOfFileCases
  <2>3. /\ payloads' \in Seq(1..MaxFileBytes)
        /\ Len(payloads') = Len(payloads) + 1
    <3>1. payloads' = Append(payloads, size) /\ payloads \in Seq(1..MaxFileBytes)
        BY <1>1, <1>4 DEF ReadsAreBounded
    <3> DEFINE Sizes == 1..MaxFileBytes
    <3>2. size \in Sizes /\ payloads \in Seq(Sizes)
        BY <2>1, <3>1
    <3> HIDE DEF size, Sizes
    <3>3. Append(payloads, size) \in Seq(Sizes)
          /\ Len(Append(payloads, size)) = Len(payloads) + 1
        BY <3>2, AppendPayload
    <3> QED BY <3>1, <3>3 DEF Sizes
  <2>4. Total(payloads') = Total(payloads) + size
    <3>1. payloads \in Seq(Nat) /\ size \in Nat
        BY <2>1, UploadAssumption DEF ReadsAreBounded
    <3> QED BY <1>1, <1>4, <3>1, TotalAppend
  <2> HIDE DEF size
  <2>5. Total(payloads') \in 0..MaxTotalBytes
      BY <2>1, <2>4 DEF ReadsAreBounded
  <2>6. buffer' = 0 /\ uploads' = uploads
      BY <1>1, <1>4
  <2>7. reading' = "reading" => Len(payloads') < uploads' /\ uploads' <= MaxFiles
    <3>1. reading' = "reading" => Len(payloads) + 1 # uploads
        BY <2>2
    <3> QED BY <1>2, <2>3, <2>6, <3>1 DEF ReadsAreBounded
  <2>8. reading' = "accepted" => Len(payloads') = uploads' /\ uploads' <= MaxFiles
      BY <1>2, <2>2, <2>3, <2>6
  <2>9. reading' \in {"reading", "accepted"} /\ uploads' \in Nat
        /\ 0 \in 0..(MaxFileBytes + ChunkBytes) /\ 0 <= MaxFileBytes
      BY <2>2, <2>6, UploadAssumption DEF ReadsAreBounded
  <2> QED BY <2>3, <2>5, <2>6, <2>7, <2>8, <2>9 DEF ReadsAreBounded
<1> QED BY <1>3, <1>4

LEMMA ReadsStep ==
    ASSUME ReadsAreBounded, [Next]_vars
    PROVE  ReadsAreBounded'
<1>1. CASE UNCHANGED uploadVars
    BY <1>1 DEF uploadVars, ReadsAreBounded
<1>2. CASE FollowRequest
  <2>1. \/ UNCHANGED uploadVars
        \/ \E n \in Nat \ {0}, length \in Int : BeginUploads(n, length)
      BY <1>2, UploadAssumption DEF FollowRequest, RefuseLength, CallNext
  <2> QED BY <1>1, <2>1, BeginReads
<1>3. CASE ReadUpload
  <2>1. RefuseMediaType => ReadsAreBounded'
      BY DEF RefuseMediaType, ReadsAreBounded, RefusedUpload
  <2> QED BY <1>3, <2>1, ChunkReads, EndReads DEF ReadUpload, ReadNext
<1>4. CASE UploadDone
    BY <1>4, NothingRead, UploadAssumption DEF UploadDone, EndUploads, ReadsAreBounded
<1>5. CASE OtherRequests \/ Preprocess \/ InvalidAudio \/ JudgeQuality
    BY <1>1, <1>5 DEF OtherRequests, Preprocess, InvalidAudio, JudgeQuality
<1>6. CASE OtherCalls \/ Answer \/ UNCHANGED vars
    BY <1>1, <1>6 DEF OtherCalls, Answer, vars
<1> QED BY <1>2, <1>3, <1>4, <1>5, <1>6 DEF Next

\* However long a body is and however its chunks arrive, memory is bounded by the
\* two limits, one chunk and one file; and what read_uploads returns is every file
\* of the request, none empty, within all the limits.
THEOREM UploadsStayBounded == Spec => []UploadsAreBounded
<1>1. Init => ReadsAreBounded
    BY ReadsInit DEF Init
<1>2. ReadsAreBounded => UploadsAreBounded
  <2> SUFFICES ASSUME ReadsAreBounded PROVE UploadsAreBounded
      OBVIOUS
  <2>1. Total(payloads) + buffer <= MaxTotalBytes + MaxFileBytes + ChunkBytes
      BY UploadAssumption DEF ReadsAreBounded
  <2>2. \A i \in DOMAIN payloads : payloads[i] \in 1..MaxFileBytes
    <3>1. PICK size \in 1..MaxFileBytes : TRUE
        BY UploadAssumption
    <3> QED BY <3>1, AppendPayload DEF ReadsAreBounded
  <2> QED BY <2>1, <2>2 DEF ReadsAreBounded, UploadsAreBounded
<1> QED BY <1>1, <1>2, ReadsStep, PTL DEF Spec

-----------------------------------------------------------------------------
(* Folds over sequences                                                      *)

LEMMA GreatestIndex ==
    ASSUME NEW n \in Nat, NEW s \in SUBSET (1..n), s # {}
    PROVE  Max(s) \in s /\ \A i \in s : i <= Max(s)
<1> DEFINE Below == {n - i : i \in s}
<1>1. PICK m \in Below : \A k \in Below : m <= k
  <2>1. Below \subseteq Nat /\ Below # {}
    <3>1. \A i \in s : i \in 1..n /\ n - i \in Nat
        OBVIOUS
    <3> QED BY <3>1
  <2> HIDE DEF Below
  <2> QED BY <2>1, LeastNatural
<1>2. PICK j \in s : m = n - j
    OBVIOUS
<1>3. \A i \in s : n - i \in Below /\ i \in Int
    OBVIOUS
<1>4. \A i \in s : i <= j
  <2> TAKE i \in s
  <2>1. n - i \in Below /\ i \in Int /\ j \in Int
      BY <1>3
  <2> HIDE DEF Below
  <2>2. m <= n - i
      BY <1>1, <2>1
  <2>3. n - j <= n - i
      BY <1>2, <2>2
  <2> QED BY <2>1, <2>3
<1>5. \E x \in s : \A y \in s : x >= y
    BY <1>3, <1>4
<1>6. Max(s) \in s /\ \A y \in s : Max(s) >= y
    BY <1>5, Zenon DEF Max
<1> QED BY <1>3, <1>6

\* The value of a fold at each set of indices, if F makes its steps.
FoldsBy(g, F, base, n) ==
    g = [s \in SUBSET (1..n) |-> IF s = {} THEN base ELSE F[<<g[s \ {Max(s)}], Max(s)>>]]

LEMMA FoldExists ==
    ASSUME NEW n \in Nat, NEW A, NEW base \in A, NEW F,
           \A a \in A : \A i \in 1..n : F[<<a, i>>] \in A
    PROVE  \E g \in [SUBSET (1..n) -> A] : FoldsBy(g, F, base, n)
<1> DEFINE Solved(m) == \E g \in [SUBSET (1..m) -> A] : FoldsBy(g, F, base, m)
           Unsolved == {m \in 0..n : ~Solved(m)}
<1>1. ASSUME Unsolved # {} PROVE FALSE
  <2>1. PICK m \in Unsolved : \A k \in Unsolved : m <= k
    <3>1. Unsolved \subseteq Nat
        OBVIOUS
    <3> HIDE DEF Unsolved
    <3> QED BY <1>1, <3>1, LeastNatural
  <2>2. m \in 0..n /\ ~Solved(m)
      BY <2>1
  <2>3. CASE m = 0
    <3> DEFINE g == [s \in SUBSET (1..m) |-> base]
    <3>1. \A s \in SUBSET (1..m) : s = {}
        BY <2>3
    <3>2. FoldsBy(g, F, base, m)
        BY <3>1 DEF FoldsBy
    <3> QED BY <2>2, <3>2
  <2>4. CASE m # 0
    <3>1. m - 1 \in 0..n /\ ~(m <= m - 1)
        BY <2>2, <2>4
    <3>2. m - 1 \notin Unsolved
      <4> HIDE DEF Unsolved
      <4> QED BY <2>1, <3>1
    <3>3. PICK g \in [SUBSET (1..(m - 1)) -> A] : FoldsBy(g, F, base, m - 1)
      <4>1. Solved(m - 1)
          BY <3>1, <3>2
      <4> QED BY <4>1
    <3> DEFINE Step(f, s) == IF s = {} THEN base ELSE F[<<f[s \ {Max(s)}], Max(s)>>]
               h == [s \in SUBSET (1..m) |-> Step(g, s)]
    <3>4. ASSUME NEW s \in SUBSET (1..m), s # {}
          PROVE  /\ Max(s) \in 1..n /\ s \ {Max(s)} \in SUBSET (1..(m - 1))
                 /\ s \ {Max(s)} \in SUBSET (1..m)
      <4>1. Max(s) \in s /\ \A i \in s : i <= Max(s)
        <5>1. m \in Nat
            BY <2>2
        <5> QED BY <3>4, <5>1, GreatestIndex
      <4>2. \A i \in s : i \in 1..m /\ i \in 1..n
          BY <2>2
      <4>3. \A i \in s \ {Max(s)} : i \in 1..(m - 1)
        <5> DEFINE x == Max(s)
        <5>1. x \in s /\ \A i \in s : i <= x
            BY <4>1
        <5>2. m \in Nat
            BY <2>2
        <5> HIDE DEF x
        <5>3. \A i \in s : i # x => i \in 1..(m - 1)
          <6> SUFFICES ASSUME NEW i \in s, i # x PROVE i \in 1..(m - 1)
              OBVIOUS
          <6>1. i \in 1..m /\ x \in 1..m /\ i <= x
              BY <4>2, <5>1
          <6> QED BY <5>2, <6>1
        <5> QED BY <5>3 DEF x
      <4> QED BY <4>1, <4>2, <4>3
    <3>5. \A s \in SUBSET (1..(m - 1)) : s \in SUBSET (1..m) /\ g[s] = Step(g, s)
      <4>1. \A i \in 1..(m - 1) : i \in 1..m
          BY <2>2
      <4> QED BY <3>3, <4>1 DEF FoldsBy
    <3>6. \A s \in SUBSET (1..m) : Step(g, s) \in A /\ Step(h, s) = Step(g, s)
      <4> TAKE s \in SUBSET (1..m)
      <4>1. CASE s = {}
          BY <4>1
      <4>2. CASE s # {}
        <5> DEFINE r == s \ {Max(s)}
        <5>1. Max(s) \in 1..n /\ r \in SUBSET (1..(m - 1)) /\ r \in SUBSET (1..m)
            BY <3>4, <4>2
        <5>2. g[r] \in A /\ h[r] = g[r]
            BY <3>3, <3>5, <5>1
        <5> HIDE DEF h, r
        <5>3. Step(g, s) = F[<<g[r], Max(s)>>] /\ Step(h, s) = F[<<h[r], Max(s)>>]
            BY <4>2 DEF r
        <5> QED BY <5>1, <5>2, <5>3
      <4> QED BY <4>1, <4>2
    <3>7. h \in [SUBSET (1..m) -> A] /\ h = [s \in SUBSET (1..m) |-> Step(h, s)]
      <4>1. h = [s \in SUBSET (1..m) |-> Step(g, s)]
          OBVIOUS
      <4> HIDE DEF h, Step
      <4> QED BY <3>6, <4>1
    <3>8. FoldsBy(h, F, base, m)
        BY <3>7 DEF FoldsBy
    <3> QED BY <2>2, <3>7, <3>8
  <2> QED BY <2>3, <2>4
<1>2. n \in 0..n
    OBVIOUS
<1> QED BY <1>1, <1>2

\* The sets of the first indices, which a fold from the left passes through.
LEMMA FirstIndices ==
    ASSUME NEW n \in Nat
    PROVE  /\ 1..0 = {}
           /\ \A k \in 1..n : /\ 1..k \in SUBSET (1..n) /\ 1..k # {}
                              /\ Max(1..k) = k /\ (1..k) \ {k} = 1..(k - 1)
<1>1. 1..0 = {}
    OBVIOUS
<1>2. ASSUME NEW k \in 1..n
      PROVE  /\ 1..k \in SUBSET (1..n) /\ 1..k # {}
             /\ Max(1..k) = k /\ (1..k) \ {k} = 1..(k - 1)
  <2>1. 1..k \in SUBSET (1..n) /\ k \in 1..k
      OBVIOUS
  <2>2. Max(1..k) \in 1..k /\ \A i \in 1..k : i <= Max(1..k)
      BY <2>1, GreatestIndex
  <2>3. Max(1..k) = k
      BY <2>1, <2>2
  <2>4. (1..k) \ {k} = 1..(k - 1)
      OBVIOUS
  <2> QED BY <2>1, <2>3, <2>4
<1> QED BY <1>1, <1>2

-----------------------------------------------------------------------------
(* Segments                                                                  *)

Segment == [start: Nat, end: Nat]

\* f gives what the frames of q are merged to, and what is kept of the segments of q,
\* and how long the segments of q are together, after each of the first ones.
Merging(f, q) ==
    /\ f[0] = <<>>
    /\ \A k \in 1..Len(q) : f[k] = MergeFrame(f[k - 1], q[k])

Keeping(f, q) ==
    /\ f[0] = <<>>
    /\ \A k \in 1..Len(q) : f[k] = KeepLong(f[k - 1], q[k])

Adding(f, q) ==
    /\ f[0] = 0
    /\ \A k \in 1..Len(q) : f[k] = AddDuration(f[k - 1], q[k])

MergesBy(g, q) ==
    g = [s \in SUBSET DOMAIN q |->
            IF s = {} THEN <<>> ELSE MergeFrame(g[s \ {Max(s)}], q[Max(s)])]

KeepsBy(g, q) ==
    g = [s \in SUBSET DOMAIN q |->
            IF s = {} THEN <<>> ELSE KeepLong(g[s \ {Max(s)}], q[Max(s)])]

AddsBy(g, q) ==
    g = [s \in SUBSET DOMAIN q |->
            IF s = {} THEN 0 ELSE AddDuration(g[s \ {Max(s)}], q[Max(s)])]

LEMMA PaddedSegment ==
    ASSUME samples \in Nat, NEW frame \in Segment
    PROVE  Padded(frame) \in Segment
BY SpeechAssumption DEF Padded, Segment, Larger, Smaller

LEMMA MergedSegments ==
    ASSUME samples \in Nat, NEW merged \in Seq(Segment), NEW frame \in Segment
    PROVE  MergeFrame(merged, frame) \in Seq(Segment)
<1> DEFINE next == Padded(frame)
           n == Len(merged)
<1>1. next \in Segment
    BY PaddedSegment
<1> HIDE DEF next
<1>2. CASE merged # <<>>
  <2>1. n \in 1..Len(merged) /\ merged[n] \in Segment
      BY <1>2
  <2>2. Larger(merged[n].end, next.end) \in Nat
      BY <1>1, <2>1 DEF Larger, Segment
  <2>3. [merged EXCEPT ![n].end = Larger(@, next.end)] \in Seq(Segment)
    <3> DEFINE e == Larger(merged[n].end, next.end)
    <3>1. [merged[n] EXCEPT !.end = e] \in Segment
        BY <2>1, <2>2 DEF Segment
    <3>2. [merged EXCEPT ![n].end = e] = [merged EXCEPT ![n] = [merged[n] EXCEPT !.end = e]]
        BY <2>1
    <3> HIDE DEF e
    <3>3. [merged EXCEPT ![n] = [merged[n] EXCEPT !.end = e]] \in Seq(Segment)
        BY <2>1, <3>1
    <3> QED BY <3>2, <3>3 DEF e
  <2>4. Append(merged, next) \in Seq(Segment)
      BY <1>1
  <2> QED BY <2>3, <2>4 DEF MergeFrame, next
<1>3. CASE merged = <<>>
    BY <1>1, <1>3 DEF MergeFrame, next
<1> QED BY <1>2, <1>3

LEMMA KeptSegments ==
    ASSUME NEW kept \in Seq(Segment), NEW s \in Segment
    PROVE  KeepLong(kept, s) \in Seq(Segment)
BY DEF KeepLong

LEMMA AddedDurations ==
    ASSUME NEW sum \in Int, NEW s \in Segment
    PROVE  AddDuration(sum, s) \in Int
BY DEF AddDuration, Segment

LEMMA MergeFolds ==
    ASSUME samples \in Nat, NEW q \in Seq(Segment)
    PROVE  \E f : Merging(f, q) /\ FoldLeft(MergeFrame, <<>>, q) = f[Len(q)]
<1> DEFINE n == Len(q)
           iter == CHOOSE g : MergesBy(g, q)
<1>1. n \in Nat /\ DOMAIN q = 1..n /\ \A i \in 1..n : q[i] \in Segment
    OBVIOUS
<1>2. \E g : MergesBy(g, q)
  <2> DEFINE A == Seq(Segment)
             F == [p \in A \X (1..n) |-> MergeFrame(p[1], q[p[2]])]
  <2>1. <<>> \in A /\ \A a \in A : \A i \in 1..n : F[<<a, i>>] = MergeFrame(a, q[i])
      OBVIOUS
  <2>2. \A a \in A : \A i \in 1..n : MergeFrame(a, q[i]) \in A
      BY <1>1, MergedSegments
  <2> HIDE DEF A, F, n
  <2>3. PICK g \in [SUBSET (1..n) -> A] : FoldsBy(g, F, <<>>, n)
    <3>1. \A a \in A : \A i \in 1..n : F[<<a, i>>] \in A
        BY <2>1, <2>2
    <3> QED BY <1>1, <2>1, <3>1, FoldExists
  <2>4. ASSUME NEW s \in SUBSET (1..n), s # {}
        PROVE  F[<<g[s \ {Max(s)}], Max(s)>>] = MergeFrame(g[s \ {Max(s)}], q[Max(s)])
    <3>1. Max(s) \in 1..n
        BY <1>1, <2>4, GreatestIndex
    <3>2. g[s \ {Max(s)}] \in A
        BY <2>3
    <3> QED BY <2>1, <3>1, <3>2
  <2>5. MergesBy(g, q)
      BY <1>1, <2>3, <2>4 DEF FoldsBy, MergesBy
  <2> QED BY <2>5
<1>3. MergesBy(iter, q)
    BY <1>2, Zenon
<1>4. FoldLeft(MergeFrame, <<>>, q) = iter[DOMAIN q]
    BY Zenon DEF FoldLeft, MapThenFoldSet, MergesBy
<1> HIDE DEF iter, n
<1> DEFINE f == [k \in 0..n |-> iter[1..k]]
<1>5. f[0] = <<>> /\ \A k \in 1..n : f[k] = MergeFrame(f[k - 1], q[k])
  <2>1. f[0] = iter[{}] /\ iter[{}] = <<>>
      BY <1>1, <1>3, FirstIndices DEF MergesBy
  <2>2. ASSUME NEW k \in 1..n PROVE f[k] = MergeFrame(f[k - 1], q[k])
    <3>1. k \in 0..n /\ k - 1 \in 0..n
        BY <1>1
    <3>2. /\ 1..k \in SUBSET (1..n) /\ 1..k # {}
          /\ Max(1..k) = k /\ (1..k) \ {k} = 1..(k - 1)
        BY <1>1, FirstIndices
    <3>3. iter[1..k] = MergeFrame(iter[(1..k) \ {Max(1..k)}], q[Max(1..k)])
        BY <1>1, <1>3, <3>2 DEF MergesBy
    <3> QED BY <3>1, <3>2, <3>3
  <2> QED BY <2>1, <2>2
<1>6. f[n] = iter[DOMAIN q]
    BY <1>1
<1> HIDE DEF f
<1> QED BY <1>4, <1>5, <1>6 DEF Merging, n

LEMMA KeepFolds ==
    ASSUME NEW q \in Seq(Segment)
    PROVE  \E f : Keeping(f, q) /\ FoldLeft(KeepLong, <<>>, q) = f[Len(q)]
<1> DEFINE n == Len(q)
           iter == CHOOSE g : KeepsBy(g, q)
<1>1. n \in Nat /\ DOMAIN q = 1..n /\ \A i \in 1..n : q[i] \in Segment
    OBVIOUS
<1>2. \E g : KeepsBy(g, q)
  <2> DEFINE A == Seq(Segment)
             F == [p \in A \X (1..n) |-> KeepLong(p[1], q[p[2]])]
  <2>1. <<>> \in A /\ \A a \in A : \A i \in 1..n : F[<<a, i>>] = KeepLong(a, q[i])
      OBVIOUS
  <2>2. \A a \in A : \A i \in 1..n : KeepLong(a, q[i]) \in A
      BY <1>1, KeptSegments
  <2> HIDE DEF A, F, n
  <2>3. PICK g \in [SUBSET (1..n) -> A] : FoldsBy(g, F, <<>>, n)
    <3>1. \A a \in A : \A i \in 1..n : F[<<a, i>>] \in A
        BY <2>1, <2>2
    <3> QED BY <1>1, <2>1, <3>1, FoldExists
  <2>4. ASSUME NEW s \in SUBSET (1..n), s # {}
        PROVE  F[<<g[s \ {Max(s)}], Max(s)>>] = KeepLong(g[s \ {Max(s)}], q[Max(s)])
    <3>1. Max(s) \in 1..n
        BY <1>1, <2>4, GreatestIndex
    <3>2. g[s \ {Max(s)}] \in A
        BY <2>3
    <3> QED BY <2>1, <3>1, <3>2
  <2>5. KeepsBy(g, q)
      BY <1>1, <2>3, <2>4 DEF FoldsBy, KeepsBy
  <2> QED BY <2>5
<1>3. KeepsBy(iter, q)
    BY <1>2, Zenon
<1>4. FoldLeft(KeepLong, <<>>, q) = iter[DOMAIN q]
    BY Zenon DEF FoldLeft, MapThenFoldSet, KeepsBy
<1> HIDE DEF iter, n
<1> DEFINE f == [k \in 0..n |-> iter[1..k]]
<1>5. f[0] = <<>> /\ \A k \in 1..n : f[k] = KeepLong(f[k - 1], q[k])
  <2>1. f[0] = iter[{}] /\ iter[{}] = <<>>
      BY <1>1, <1>3, FirstIndices DEF KeepsBy
  <2>2. ASSUME NEW k \in 1..n PROVE f[k] = KeepLong(f[k - 1], q[k])
    <3>1. k \in 0..n /\ k - 1 \in 0..n
        BY <1>1
    <3>2. /\ 1..k \in SUBSET (1..n) /\ 1..k # {}
          /\ Max(1..k) = k /\ (1..k) \ {k} = 1..(k - 1)
        BY <1>1, FirstIndices
    <3>3. iter[1..k] = KeepLong(iter[(1..k) \ {Max(1..k)}], q[Max(1..k)])
        BY <1>1, <1>3, <3>2 DEF KeepsBy
    <3> QED BY <3>1, <3>2, <3>3
  <2> QED BY <2>1, <2>2
<1>6. f[n] = iter[DOMAIN q]
    BY <1>1
<1> HIDE DEF f
<1> QED BY <1>4, <1>5, <1>6 DEF Keeping, n

LEMMA AddFolds ==
    ASSUME NEW q \in Seq(Segment)
    PROVE  \E f : Adding(f, q) /\ FoldLeft(AddDuration, 0, q) = f[Len(q)]
<1> DEFINE n == Len(q)
           iter == CHOOSE g : AddsBy(g, q)
<1>1. n \in Nat /\ DOMAIN q = 1..n /\ \A i \in 1..n : q[i] \in Segment
    OBVIOUS
<1>2. \E g : AddsBy(g, q)
  <2> DEFINE A == Int
             F == [p \in A \X (1..n) |-> AddDuration(p[1], q[p[2]])]
  <2>1. 0 \in A /\ \A a \in A : \A i \in 1..n : F[<<a, i>>] = AddDuration(a, q[i])
      OBVIOUS
  <2>2. \A a \in A : \A i \in 1..n : AddDuration(a, q[i]) \in A
      BY <1>1, AddedDurations
  <2> HIDE DEF A, F, n
  <2>3. PICK g \in [SUBSET (1..n) -> A] : FoldsBy(g, F, 0, n)
    <3>1. \A a \in A : \A i \in 1..n : F[<<a, i>>] \in A
        BY <2>1, <2>2
    <3> QED BY <1>1, <2>1, <3>1, FoldExists
  <2>4. ASSUME NEW s \in SUBSET (1..n), s # {}
        PROVE  F[<<g[s \ {Max(s)}], Max(s)>>] = AddDuration(g[s \ {Max(s)}], q[Max(s)])
    <3>1. Max(s) \in 1..n
        BY <1>1, <2>4, GreatestIndex
    <3>2. g[s \ {Max(s)}] \in A
        BY <2>3
    <3> QED BY <2>1, <3>1, <3>2
  <2>5. AddsBy(g, q)
      BY <1>1, <2>3, <2>4 DEF FoldsBy, AddsBy
  <2> QED BY <2>5
<1>3. AddsBy(iter, q)
    BY <1>2, Zenon
<1>4. FoldLeft(AddDuration, 0, q) = iter[DOMAIN q]
    BY Zenon DEF FoldLeft, MapThenFoldSet, AddsBy
<1> HIDE DEF iter, n
<1> DEFINE f == [k \in 0..n |-> iter[1..k]]
<1>5. f[0] = 0 /\ \A k \in 1..n : f[k] = AddDuration(f[k - 1], q[k])
  <2>1. f[0] = iter[{}] /\ iter[{}] = 0
      BY <1>1, <1>3, FirstIndices DEF AddsBy
  <2>2. ASSUME NEW k \in 1..n PROVE f[k] = AddDuration(f[k - 1], q[k])
    <3>1. k \in 0..n /\ k - 1 \in 0..n
        BY <1>1
    <3>2. /\ 1..k \in SUBSET (1..n) /\ 1..k # {}
          /\ Max(1..k) = k /\ (1..k) \ {k} = 1..(k - 1)
        BY <1>1, FirstIndices
    <3>3. iter[1..k] = AddDuration(iter[(1..k) \ {Max(1..k)}], q[Max(1..k)])
        BY <1>1, <1>3, <3>2 DEF AddsBy
    <3> QED BY <3>1, <3>2, <3>3
  <2> QED BY <2>1, <2>2
<1>6. f[n] = iter[DOMAIN q]
    BY <1>1
<1> HIDE DEF f
<1> QED BY <1>4, <1>5, <1>6 DEF Adding, n

-----------------------------------------------------------------------------
(* What the detector finds                                                   *)

\* The frames that were loud: each begins after the one before it.
Frames(q) ==
    /\ q \in Seq(Segment)
    /\ \A k \in DOMAIN q : q[k].start < q[k].end /\ q[k].end <= samples
    /\ \A j, k \in DOMAIN q : j <= k => q[j].start <= q[k].start /\ q[j].end <= q[k].end

\* Segments in order, apart from each other and within the audio.
Apart(m) ==
    /\ m \in Seq(Segment)
    /\ \A i \in DOMAIN m : m[i].start < m[i].end /\ m[i].end <= samples
    /\ \A i, j \in DOMAIN m : i < j => m[i].end < m[j].start

Within(s, x) == s.start <= x /\ x < s.end

LEMMA PaddedFrames ==
    ASSUME samples \in Nat, NEW q, Frames(q)
    PROVE  /\ \A k \in DOMAIN q : LET p == Padded(q[k])
                                  IN  p \in Segment /\ p.start < p.end /\ p.end <= samples
           /\ \A j, k \in DOMAIN q : j <= k => /\ Padded(q[j]).start <= Padded(q[k]).start
                                               /\ Padded(q[j]).end <= Padded(q[k]).end
<1>1. \A k \in DOMAIN q : q[k] \in Segment /\ q[k].start < q[k].end /\ q[k].end <= samples
    BY DEF Frames
<1>2. Padding \in Nat
    BY SpeechAssumption
<1>3. ASSUME NEW k \in DOMAIN q
      PROVE  LET p == Padded(q[k])
             IN  p \in Segment /\ p.start < p.end /\ p.end <= samples
    BY <1>1, <1>2 DEF Padded, Segment, Larger, Smaller
<1>4. ASSUME NEW j \in DOMAIN q, NEW k \in DOMAIN q, j <= k
      PROVE  /\ Padded(q[j]).start <= Padded(q[k]).start
             /\ Padded(q[j]).end <= Padded(q[k]).end
  <2>1. q[j].start <= q[k].start /\ q[j].end <= q[k].end
      BY <1>4 DEF Frames
  <2>2. /\ q[j].start \in Nat /\ q[k].start \in Nat
        /\ q[j].end \in Nat /\ q[k].end \in Nat
      BY <1>1 DEF Segment
  <2> QED BY <1>2, <2>1, <2>2 DEF Padded, Larger, Smaller
<1> QED BY <1>3, <1>4

\* What the first k frames have been merged to.
Merged(m, q, k) ==
    /\ Apart(m)
    /\ m = <<>> <=> k = 0
    /\ k > 0 => /\ m[Len(m)].start <= Padded(q[k]).start
                /\ m[Len(m)].end = Padded(q[k]).end
    /\ \A x \in Int : (\E i \in DOMAIN m : Within(m[i], x))
                          <=> (\E j \in 1..k : Within(Padded(q[j]), x))

LEMMA MergeStep ==
    ASSUME samples \in Nat, NEW q, Frames(q), NEW k \in 1..Len(q), NEW m, Merged(m, q, k - 1)
    PROVE  Merged(MergeFrame(m, q[k]), q, k)
<1> DEFINE p == Padded(q[k])
           n == Len(m)
           new == MergeFrame(m, q[k])
<1>1. /\ k \in Nat /\ k \in DOMAIN q /\ \A j \in 1..(k - 1) : j \in DOMAIN q /\ j <= k
      /\ k > 1 => k - 1 \in DOMAIN q
    BY DEF Frames
<1>2. p \in Segment /\ p.start < p.end /\ p.end <= samples
    BY <1>1, PaddedFrames
<1>3. /\ m \in Seq(Segment) /\ n \in Nat /\ DOMAIN m = 1..n
      /\ \A i \in 1..n : m[i] \in Segment /\ m[i].start < m[i].end /\ m[i].end <= samples
      /\ \A i, j \in 1..n : i < j => m[i].end < m[j].start
  <2>1. Apart(m)
      BY DEF Merged
  <2>2. m \in Seq(Segment)
      BY <2>1 DEF Apart
  <2>3. n \in Nat /\ DOMAIN m = 1..n /\ \A i \in 1..n : m[i] \in Segment
      BY <2>2
  <2> HIDE DEF n
  <2> QED BY <2>1, <2>2, <2>3 DEF Apart
<1>4. n = 0 <=> k = 1
    BY <1>1, <1>3 DEF Merged
<1>5. n > 0 => m[n].start <= p.start /\ m[n].end <= p.end
  <2> SUFFICES ASSUME n > 0 PROVE m[n].start <= p.start /\ m[n].end <= p.end
      OBVIOUS
  <2> DEFINE r == Padded(q[k - 1])
  <2>1. k > 1 /\ k - 1 \in DOMAIN q /\ k - 1 <= k
      BY <1>1, <1>3, <1>4
  <2>2. m[n].start <= r.start /\ m[n].end = r.end
      BY <2>1 DEF Merged
  <2>3. r \in Segment /\ r.start <= p.start /\ r.end <= p.end
      BY <1>1, <2>1, PaddedFrames
  <2>4. m[n] \in Segment
      BY <1>3
  <2> HIDE DEF r, p, n
  <2> QED BY <1>2, <2>2, <2>3, <2>4 DEF Segment
<1>6. \A x \in Int : (\E j \in 1..k : Within(Padded(q[j]), x))
                         <=> (\E i \in 1..n : Within(m[i], x)) \/ Within(p, x)
  <2>1. \A j : j \in 1..k <=> j \in 1..(k - 1) \/ j = k
      BY <1>1
  <2>2. \A x \in Int : (\E i \in 1..n : Within(m[i], x))
                           <=> (\E j \in 1..(k - 1) : Within(Padded(q[j]), x))
      BY <1>3 DEF Merged
  <2> QED BY <2>1, <2>2
<1> HIDE DEF p, n
<1>7. CASE n > 0 /\ p.start <= m[n].end
  <2> DEFINE e == [m[n] EXCEPT !.end = p.end]
  <2>1. n \in 1..n /\ m[n] \in Segment /\ Larger(m[n].end, p.end) = p.end
      BY <1>2, <1>3, <1>5, <1>7 DEF Larger, Segment
  <2>2. new = [m EXCEPT ![n] = e]
    <3>1. m # <<>>
        BY <1>3, <1>7 DEF n
    <3>2. new = [m EXCEPT ![n].end = Larger(@, p.end)]
        BY <1>7, <3>1 DEF MergeFrame, Last, p, n
    <3> QED BY <1>3, <2>1, <3>2
  <2>3. e \in Segment /\ e.start = m[n].start /\ e.end = p.end
      BY <1>2, <2>1 DEF Segment
  <2> HIDE DEF e, new
  <2>4. /\ new \in Seq(Segment) /\ Len(new) = n /\ DOMAIN new = 1..n
        /\ new[n] = e /\ \A i \in 1..n : i # n => new[i] = m[i]
      BY <1>3, <2>1, <2>2, <2>3 DEF n
  <2>5. \A i \in 1..n : new[i] \in Segment /\ new[i].start = m[i].start
      BY <1>3, <2>3, <2>4
  <2>6. \A i \in 1..n : new[i].start < new[i].end /\ new[i].end <= samples
    <3>1. e.start < e.end /\ e.end <= samples
        BY <1>2, <1>5, <1>7, <2>1, <2>3 DEF Segment
    <3> QED BY <1>3, <2>4, <3>1
  <2>7. \A i, j \in 1..n : i < j => new[i].end < new[j].start
      BY <1>3, <2>4, <2>5
  <2>8. \A x \in Int : (\E i \in 1..n : Within(new[i], x))
                           <=> (\E i \in 1..n : Within(m[i], x)) \/ Within(p, x)
    <3> TAKE x \in Int
    <3>1. Within(e, x) <=> Within(m[n], x) \/ Within(p, x)
        BY <1>2, <1>5, <1>7, <2>1, <2>3 DEF Within, Segment
    <3> QED BY <2>1, <2>4, <3>1
  <2>9. new # <<>> /\ k # 0 /\ new[Len(new)].start <= p.start /\ new[Len(new)].end = p.end
      BY <1>1, <1>5, <1>7, <2>1, <2>3, <2>4
  <2> QED BY <1>1, <1>6, <2>4, <2>6, <2>7, <2>8, <2>9 DEF Merged, Apart, new, p
<1>8. CASE ~(n > 0 /\ p.start <= m[n].end)
  <2>1. new = Append(m, p)
    <3>1. ~(m # <<>> /\ p.start <= m[n].end)
        BY <1>3, <1>8 DEF n
    <3> QED BY <3>1 DEF MergeFrame, Last, p, n
  <2> HIDE DEF new
  <2>2. /\ new \in Seq(Segment) /\ Len(new) = n + 1 /\ DOMAIN new = 1..(n + 1)
        /\ new[n + 1] = p /\ \A i \in 1..n : new[i] = m[i]
      BY <1>2, <1>3, <2>1 DEF n
  <2>3. \A i : i \in 1..(n + 1) <=> i \in 1..n \/ i = n + 1
      BY <1>3
  <2>4. \A i \in 1..(n + 1) : new[i].start < new[i].end /\ new[i].end <= samples
      BY <1>2, <1>3, <2>2, <2>3
  <2>5. \A i \in 1..n : m[i].end < p.start
    <3> TAKE i \in 1..n
    <3>1. n \in 1..n /\ m[n] \in Segment /\ m[i] \in Segment /\ m[n].start < m[n].end
          /\ m[n].end < p.start
        BY <1>2, <1>3, <1>8 DEF Segment
    <3>2. i = n \/ m[i].end < m[n].start
        BY <1>3, <3>1
    <3> QED BY <1>2, <3>1, <3>2 DEF Segment
  <2>6. \A i, j \in 1..(n + 1) : i < j => new[i].end < new[j].start
    <3> SUFFICES ASSUME NEW i \in 1..(n + 1), NEW j \in 1..(n + 1), i < j
                 PROVE  new[i].end < new[j].start
        OBVIOUS
    <3>1. i \in 1..n
        BY <1>3
    <3> QED BY <1>3, <2>2, <2>3, <2>5, <3>1
  <2>7. \A x \in Int : (\E i \in 1..(n + 1) : Within(new[i], x))
                           <=> (\E i \in 1..n : Within(m[i], x)) \/ Within(p, x)
      BY <2>2, <2>3
  <2>8. new # <<>> /\ k # 0 /\ new[Len(new)].start <= p.start /\ new[Len(new)].end = p.end
      BY <1>1, <1>2, <1>3, <2>2 DEF Segment
  <2> QED BY <1>1, <1>6, <2>2, <2>4, <2>6, <2>7, <2>8 DEF Merged, Apart, new, p
<1> QED BY <1>7, <1>8

LEMMA MergesSoundly ==
    ASSUME samples \in Nat, NEW q, Frames(q), NEW f, Merging(f, q)
    PROVE  Merged(f[Len(q)], q, Len(q))
<1> DEFINE n == Len(q)
           Wrong == {k \in 0..n : ~Merged(f[k], q, k)}
<1>1. n \in Nat
    BY DEF Frames
<1>2. ASSUME Wrong # {} PROVE FALSE
  <2>1. PICK k \in Wrong : \A j \in Wrong : k <= j
    <3>1. Wrong \subseteq Nat
        OBVIOUS
    <3> HIDE DEF Wrong
    <3> QED BY <1>2, <3>1, LeastNatural
  <2>2. k \in 0..n /\ ~Merged(f[k], q, k)
      BY <2>1
  <2>3. CASE k = 0
    <3>1. f[0] = <<>>
        BY DEF Merging
    <3>2. <<>> \in Seq(Segment) /\ DOMAIN <<>> = {} /\ 1..0 = {}
        OBVIOUS
    <3>3. Merged(<<>>, q, 0)
        BY <3>2 DEF Merged, Apart
    <3> QED BY <2>2, <2>3, <3>1, <3>3
  <2>4. CASE k # 0
    <3>1. k - 1 \in 0..n /\ k \in 1..n /\ ~(k <= k - 1)
        BY <2>2, <2>4
    <3>2. k - 1 \notin Wrong
      <4> HIDE DEF Wrong
      <4> QED BY <2>1, <3>1
    <3>3. Merged(f[k - 1], q, k - 1)
        BY <3>1, <3>2
    <3>4. f[k] = MergeFrame(f[k - 1], q[k])
        BY <3>1 DEF Merging
    <3>5. Merged(MergeFrame(f[k - 1], q[k]), q, k)
      <4> HIDE DEF Wrong
      <4> QED BY <3>1, <3>3, MergeStep
    <3> QED BY <2>2, <3>4, <3>5
  <2> QED BY <2>3, <2>4
<1>3. n \in 0..n
    BY <1>1
<1> QED BY <1>2, <1>3

\* Segments that are apart are the longest stretches of what they cover.
LEMMA StretchesCovered ==
    ASSUME samples \in Nat, NEW m, Apart(m), NEW S,
           S = {x \in 0..(samples - 1) : \E i \in DOMAIN m : Within(m[i], x)}
    PROVE  Stretches(S) = ToSet(m)
<1>1. /\ \A i \in DOMAIN m : /\ m[i] \in Segment
                             /\ m[i].start < m[i].end /\ m[i].end <= samples
                             /\ m[i].start \in Nat /\ m[i].end \in Nat
      /\ \A i, j \in DOMAIN m : i = j \/ m[i].end < m[j].start \/ m[j].end < m[i].start
  <2>1. m \in Seq(Segment) /\ \A i \in DOMAIN m : i \in Int /\ m[i] \in Segment
      BY DEF Apart
  <2>2. \A i, j \in DOMAIN m : i = j \/ i < j \/ j < i
      BY <2>1
  <2> QED BY <2>1, <2>2 DEF Apart, Segment
<1>2. \A x \in Int : x \in S <=> \E i \in DOMAIN m : Within(m[i], x)
  <2> SUFFICES ASSUME NEW x \in Int, NEW i \in DOMAIN m, Within(m[i], x)
               PROVE  x \in 0..(samples - 1)
      OBVIOUS
  <2> QED BY <1>1 DEF Within
<1>3. ASSUME NEW i \in DOMAIN m PROVE m[i] \in Stretches(S)
  <2> DEFINE r == m[i]
  <2>1. /\ r \in Segment /\ r.start \in Nat /\ r.end \in Nat
        /\ r.start < r.end /\ r.end <= samples
      BY <1>1
  <2>2. r.start..(r.end - 1) \subseteq S
    <3> SUFFICES ASSUME NEW x \in r.start..(r.end - 1) PROVE x \in S
        OBVIOUS
    <3>1. x \in Int /\ Within(m[i], x)
        BY <2>1 DEF Within
    <3> QED BY <1>2, <3>1
  <2>3. ASSUME NEW x \in {r.start - 1, r.end} PROVE x \notin S
    <3>1. x \in Int /\ (x = r.start - 1 \/ x = r.end)
        BY <2>1
    <3>2. ASSUME NEW j \in DOMAIN m, Within(m[j], x) PROVE FALSE
      <4>1. m[j].start <= x /\ x < m[j].end /\ m[j].start \in Nat /\ m[j].end \in Nat
          BY <1>1, <3>2 DEF Within
      <4>2. i = j \/ r.end < m[j].start \/ m[j].end < r.start
          BY <1>1
      <4> HIDE DEF r
      <4> QED BY <2>1, <3>1, <4>1, <4>2 DEF r
    <3> QED BY <1>2, <3>1, <3>2
  <2>4. r \in [start: 0..samples, end: 0..samples]
    <3>1. r = [start |-> r.start, end |-> r.end]
        BY <2>1 DEF Segment
    <3>2. r.start \in 0..samples /\ r.end \in 0..samples
        BY <2>1
    <3> HIDE DEF r
    <3> QED BY <3>1, <3>2
  <2> QED BY <2>1, <2>2, <2>3, <2>4 DEF Stretches
<1>4. ASSUME NEW r \in Stretches(S) PROVE r \in ToSet(m)
  <2>1. /\ r \in [start: 0..samples, end: 0..samples]
        /\ r.start \in Int /\ r.end \in Int /\ r.start < r.end
        /\ \A x \in r.start..(r.end - 1) : x \in S
        /\ r.start - 1 \notin S /\ r.end \notin S
      BY DEF Stretches
  <2>2. r.start \in S
      BY <2>1
  <2>3. PICK i \in DOMAIN m : Within(m[i], r.start)
      BY <1>2, <2>1, <2>2
  <2> DEFINE s == m[i]
  <2>4. /\ s \in Segment /\ s.start \in Int /\ s.end \in Int /\ s.start < s.end
        /\ s.start <= r.start /\ r.start < s.end
      BY <1>1, <2>3 DEF Within
  <2>5. \A x \in Int : s.start <= x /\ x < s.end => x \in S
      BY <1>2 DEF Within
  <2>6. s.end \notin S
    <3>1. s \in Stretches(S)
        BY <1>3
    <3> QED BY <3>1 DEF Stretches
  <2> HIDE DEF s
  <2>7. s.start = r.start
    <3>1. ASSUME s.start # r.start PROVE FALSE
      <4>1. r.start - 1 \in Int /\ s.start <= r.start - 1 /\ r.start - 1 < s.end
          BY <2>1, <2>4, <3>1
      <4> QED BY <2>1, <2>5, <4>1
    <3> QED BY <3>1
  <2>8. ~(r.end < s.end)
    <3>1. r.end < s.end => s.start <= r.end
        BY <2>1, <2>4
    <3> QED BY <2>1, <2>5, <3>1
  <2>9. ~(s.end < r.end)
    <3>1. s.end < r.end => s.end \in r.start..(r.end - 1)
        BY <2>1, <2>4
    <3> QED BY <2>1, <2>6, <3>1
  <2>10. s.end = r.end
      BY <2>1, <2>4, <2>8, <2>9
  <2>11. r = s
    <3>1. r = [start |-> r.start, end |-> r.end]
        BY <2>1
    <3>2. s = [start |-> s.start, end |-> s.end]
        BY <2>4 DEF Segment
    <3> QED BY <2>7, <2>10, <3>1, <3>2
  <2> QED BY <2>11 DEF ToSet, s
<1> QED BY <1>3, <1>4 DEF ToSet

\* What is kept of the first k segments.
Kept(kept, m, k) ==
    /\ Apart(kept)
    /\ ToSet(kept) = {m[i] : i \in {j \in 1..k : m[j].end - m[j].start >= Minimum}}

LEMMA KeepStep ==
    ASSUME samples \in Nat, NEW m, Apart(m), NEW k \in 1..Len(m), NEW kept, Kept(kept, m, k - 1)
    PROVE  Kept(KeepLong(kept, m[k]), m, k)
<1> DEFINE s == m[k]
           n == Len(kept)
<1>1. m \in Seq(Segment) /\ k \in DOMAIN m /\ k \in Nat
    BY DEF Apart
<1>2. s \in Segment /\ s.start < s.end /\ s.end <= samples
    BY <1>1 DEF Apart
<1>3. kept \in Seq(Segment) /\ n \in Nat /\ DOMAIN kept = 1..n
  <2>1. kept \in Seq(Segment)
      BY DEF Kept, Apart
  <2> QED BY <2>1
<1>4. \A j : j \in 1..k <=> j \in 1..(k - 1) \/ j = k
    BY <1>1
<1>5. CASE s.end - s.start >= Minimum
  <2>1. KeepLong(kept, s) = Append(kept, s)
      BY <1>5 DEF KeepLong
  <2> DEFINE new == Append(kept, s)
  <2>2. /\ new \in Seq(Segment) /\ Len(new) = n + 1 /\ DOMAIN new = 1..(n + 1)
        /\ new[n + 1] = s /\ \A i \in 1..n : new[i] = kept[i]
      BY <1>2, <1>3
  <2> HIDE DEF new, n, s
  <2>3. \A i : i \in 1..(n + 1) <=> i \in 1..n \/ i = n + 1
      BY <1>3
  <2>4. ToSet(new) = ToSet(kept) \cup {s}
      BY <1>3, <2>2, <2>3 DEF ToSet
  <2>5. ToSet(new) = {m[i] : i \in {j \in 1..k : m[j].end - m[j].start >= Minimum}}
      BY <1>4, <1>5, <2>4 DEF Kept, s
  <2>6. \A i \in 1..n : kept[i].end < s.start
    <3> TAKE i \in 1..n
    <3>1. kept[i] \in ToSet(kept)
        BY <1>3 DEF ToSet
    <3>2. PICK j \in 1..(k - 1) : kept[i] = m[j]
        BY <3>1 DEF Kept
    <3>3. j \in DOMAIN m /\ j < k
        BY <1>1
    <3> QED BY <1>1, <3>2, <3>3 DEF Apart, s
  <2>7. \A i \in 1..(n + 1) : new[i].start < new[i].end /\ new[i].end <= samples
      BY <1>2, <1>3, <2>2, <2>3 DEF Kept, Apart
  <2>8. \A i, j \in 1..(n + 1) : i < j => new[i].end < new[j].start
    <3> SUFFICES ASSUME NEW i \in 1..(n + 1), NEW j \in 1..(n + 1), i < j
                 PROVE  new[i].end < new[j].start
        OBVIOUS
    <3>1. i \in 1..n
        BY <1>3
    <3> QED BY <1>3, <2>2, <2>3, <2>6, <3>1 DEF Kept, Apart
  <2> QED BY <2>1, <2>2, <2>5, <2>7, <2>8 DEF Kept, Apart, new, s
<1>6. CASE ~(s.end - s.start >= Minimum)
  <2>1. KeepLong(kept, s) = kept
      BY <1>6 DEF KeepLong
  <2>2. {j \in 1..k : m[j].end - m[j].start >= Minimum}
            = {j \in 1..(k - 1) : m[j].end - m[j].start >= Minimum}
      BY <1>4, <1>6
  <2> QED BY <2>1, <2>2 DEF Kept
<1> QED BY <1>5, <1>6

LEMMA KeepsSoundly ==
    ASSUME samples \in Nat, NEW m, Apart(m), NEW f, Keeping(f, m)
    PROVE  Kept(f[Len(m)], m, Len(m))
<1> DEFINE n == Len(m)
           Wrong == {k \in 0..n : ~Kept(f[k], m, k)}
<1>1. n \in Nat
    BY DEF Apart
<1>2. ASSUME Wrong # {} PROVE FALSE
  <2>1. PICK k \in Wrong : \A j \in Wrong : k <= j
    <3>1. Wrong \subseteq Nat
        OBVIOUS
    <3> HIDE DEF Wrong
    <3> QED BY <1>2, <3>1, LeastNatural
  <2>2. k \in 0..n /\ ~Kept(f[k], m, k)
      BY <2>1
  <2>3. CASE k = 0
    <3>1. f[0] = <<>>
        BY DEF Keeping
    <3>2. <<>> \in Seq(Segment) /\ DOMAIN <<>> = {} /\ 1..0 = {}
        OBVIOUS
    <3>3. Kept(<<>>, m, 0)
        BY <3>2 DEF Kept, Apart, ToSet
    <3> QED BY <2>2, <2>3, <3>1, <3>3
  <2>4. CASE k # 0
    <3>1. k - 1 \in 0..n /\ k \in 1..n /\ ~(k <= k - 1)
        BY <2>2, <2>4
    <3>2. k - 1 \notin Wrong
      <4> HIDE DEF Wrong
      <4> QED BY <2>1, <3>1
    <3>3. Kept(f[k - 1], m, k - 1)
        BY <3>1, <3>2
    <3>4. f[k] = KeepLong(f[k - 1], m[k])
        BY <3>1 DEF Keeping
    <3>5. Kept(KeepLong(f[k - 1], m[k]), m, k)
      <4> HIDE DEF Wrong
      <4> QED BY <3>1, <3>3, KeepStep
    <3> QED BY <2>2, <3>4, <3>5
  <2> QED BY <2>3, <2>4
<1>3. n \in 0..n
    BY <1>1
<1> QED BY <1>2, <1>3

\* Segments that are apart are together no longer than the audio.
LEMMA AddsSoundly ==
    ASSUME samples \in Nat, NEW m, Apart(m), NEW f, Adding(f, m)
    PROVE  f[Len(m)] \in Int /\ f[Len(m)] <= samples
<1> DEFINE n == Len(m)
           Fits(k) == f[k] \in Int /\ f[k] <= (IF k = 0 THEN 0 ELSE m[k].end)
           Wrong == {k \in 0..n : ~Fits(k)}
<1>1. n \in Nat /\ \A k \in 1..n : m[k] \in Segment /\ m[k].end <= samples
    BY DEF Apart
<1>2. ASSUME Wrong # {} PROVE FALSE
  <2>1. PICK k \in Wrong : \A j \in Wrong : k <= j
    <3>1. Wrong \subseteq Nat
        OBVIOUS
    <3> HIDE DEF Wrong
    <3> QED BY <1>2, <3>1, LeastNatural
  <2>2. k \in 0..n /\ ~Fits(k)
      BY <2>1
  <2>3. CASE k = 0
      BY <2>2, <2>3 DEF Adding
  <2>4. CASE k # 0
    <3>1. k - 1 \in 0..n /\ k \in 1..n /\ ~(k <= k - 1)
        BY <2>2, <2>4
    <3>2. k - 1 \notin Wrong
      <4> HIDE DEF Wrong
      <4> QED BY <2>1, <3>1
    <3>3. Fits(k - 1)
        BY <3>1, <3>2
    <3>4. f[k] = f[k - 1] + (m[k].end - m[k].start)
        BY <3>1 DEF Adding, AddDuration
    <3>5. m[k].start \in Nat /\ m[k].end \in Nat
        BY <1>1, <3>1 DEF Segment
    <3>6. f[k - 1] \in Int /\ f[k - 1] <= m[k].start
      <4>1. CASE k = 1
          BY <3>3, <3>5, <4>1
      <4>2. CASE k # 1
        <5>1. k - 1 \in 1..n /\ k - 1 < k /\ k - 1 # 0
            BY <3>1, <4>2
        <5>2. m[k - 1].end < m[k].start /\ m[k - 1].end \in Nat
          <6>1. m[k - 1] \in Segment /\ k - 1 \in DOMAIN m /\ k \in DOMAIN m
              BY <1>1, <3>1, <5>1 DEF Apart
          <6> QED BY <5>1, <6>1 DEF Apart, Segment
        <5> QED BY <3>3, <3>5, <5>1, <5>2
      <4> QED BY <4>1, <4>2
    <3>7. Fits(k)
        BY <3>1, <3>4, <3>5, <3>6, <2>4
    <3> QED BY <2>2, <3>7
  <2> QED BY <2>3, <2>4
<1>3. n \in 0..n
    BY <1>1
<1>4. Fits(n)
    BY <1>2, <1>3
<1> QED BY <1>1, <1>4 DEF Segment

\* The frames heard so far.
SpeechInv ==
    /\ samples \in Nat
    /\ position \in Nat
    /\ active \in Seq(Segment)
    /\ \A k \in DOMAIN active :
           /\ active[k].start < position /\ active[k].start < samples
           /\ active[k].end = Smaller(active[k].start + FrameSize, samples)
    /\ \A j, k \in DOMAIN active : j < k => active[j].start < active[k].start
    /\ samples = 0 => active = <<>>

LEMMA HeardFrames ==
    ASSUME SpeechInv
    PROVE  Frames(active)
<1>1. FrameSize \in Nat \ {0}
    BY SpeechAssumption
<1>2. \A k \in DOMAIN active : /\ active[k].start \in Nat /\ k \in Int
                               /\ active[k].start < samples
                               /\ active[k].end = Smaller(active[k].start + FrameSize, samples)
  <2>1. active \in Seq(Segment) /\ \A k \in DOMAIN active : active[k] \in Segment /\ k \in Int
      BY DEF SpeechInv
  <2> QED BY <2>1 DEF SpeechInv, Segment
<1>3. samples \in Nat /\ active \in Seq(Segment)
    BY DEF SpeechInv
<1>4. \A k \in DOMAIN active : active[k].start < active[k].end /\ active[k].end <= samples
    BY <1>1, <1>2, <1>3 DEF Smaller
<1>5. ASSUME NEW j \in DOMAIN active, NEW k \in DOMAIN active, j <= k
      PROVE  active[j].start <= active[k].start /\ active[j].end <= active[k].end
  <2>1. active[j].start <= active[k].start
    <3>1. j < k => active[j].start < active[k].start
        BY DEF SpeechInv
    <3> QED BY <1>2, <1>5, <3>1
  <2> QED BY <1>1, <1>2, <1>3, <2>1 DEF Smaller
<1> QED BY <1>3, <1>4, <1>5 DEF Frames

LEMMA SpeechInit == NoAudio => SpeechInv
BY DEF NoAudio, SpeechInv

LEMMA NextFrame ==
    ASSUME SpeechInv, Listen
    PROVE  SpeechInv'
<1>1. PICK loud \in BOOLEAN :
          /\ position < samples /\ position' = position + HopSize
          /\ active' = IF loud
                       THEN Append(active, [start |-> position,
                                            end |-> Smaller(position + FrameSize, samples)])
                       ELSE active
          /\ samples' = samples
    BY DEF Listen
<1>2. /\ samples \in Nat /\ position \in Nat /\ position' \in Nat /\ position < position'
      /\ active \in Seq(Segment) /\ samples # 0
    BY <1>1, SpeechAssumption DEF SpeechInv
<1> DEFINE frame == [start |-> position, end |-> Smaller(position + FrameSize, samples)]
           n == Len(active)
<1>3. frame \in Segment /\ frame.start = position
      /\ frame.end = Smaller(position + FrameSize, samples)
    BY <1>2, SpeechAssumption DEF Segment, Smaller
<1> HIDE DEF frame
<1>4. /\ n \in Nat /\ DOMAIN active = 1..n
      /\ \A k \in 1..n : active[k] \in Segment /\ active[k].start \in Nat
  <2>1. n \in Nat /\ DOMAIN active = 1..n /\ \A k \in 1..n : active[k] \in Segment
      BY <1>2
  <2> QED BY <2>1 DEF Segment
<1>5. CASE active' = active
  <2>1. \A k \in DOMAIN active : active[k].start < position'
      BY <1>2, <1>4 DEF SpeechInv
  <2> QED BY <1>1, <1>2, <1>5, <2>1 DEF SpeechInv
<1>6. CASE active' = Append(active, frame)
  <2>1. /\ active' \in Seq(Segment) /\ DOMAIN active' = 1..(n + 1)
        /\ active'[n + 1] = frame /\ \A k \in 1..n : active'[k] = active[k]
      BY <1>2, <1>3, <1>4, <1>6
  <2>2. \A k : k \in 1..(n + 1) <=> k \in 1..n \/ k = n + 1
      BY <1>4
  <2>3. \A k \in 1..n : /\ active[k].start < position /\ active[k].start < samples
                        /\ active[k].end = Smaller(active[k].start + FrameSize, samples)
      BY <1>4 DEF SpeechInv
  <2>4. \A k \in 1..(n + 1) :
            /\ active'[k].start < position' /\ active'[k].start < samples
            /\ active'[k].end = Smaller(active'[k].start + FrameSize, samples)
      BY <1>1, <1>2, <1>3, <1>4, <2>1, <2>2, <2>3
  <2>5. ASSUME NEW j \in 1..(n + 1), NEW k \in 1..(n + 1), j < k
        PROVE  active'[j].start < active'[k].start
    <3>1. j \in 1..n
        BY <1>4, <2>5
    <3>2. CASE k \in 1..n
        BY <1>4, <2>1, <2>5, <3>1, <3>2 DEF SpeechInv
    <3>3. CASE k = n + 1
        BY <1>3, <2>1, <2>3, <3>1, <3>3
    <3> QED BY <2>2, <3>2, <3>3
  <2> QED BY <1>1, <1>2, <2>1, <2>4, <2>5 DEF SpeechInv
<1> QED BY <1>1, <1>5, <1>6 DEF frame

LEMMA SpeechStep ==
    ASSUME SpeechInv, [Next]_vars
    PROVE  SpeechInv'
<1>1. CASE UNCHANGED speechVars
    BY <1>1 DEF speechVars, SpeechInv
<1>2. <<>> \in Seq(Segment) /\ DOMAIN <<>> = {}
    OBVIOUS
<1>3. CASE Decode
  <2>1. /\ samples' \in Nat /\ samples' # 0 /\ position' = position
        /\ active = <<>> /\ active' = <<>>
      BY <1>3, SpeechAssumption DEF Decode, SpeechInv
  <2> QED BY <1>2, <2>1 DEF SpeechInv
<1>4. CASE Detect
    BY <1>2, <1>4 DEF Detect, SpeechInv
<1>5. CASE JudgeQuality
    BY <1>2, <1>5 DEF JudgeQuality, Forget, SpeechInv
<1>6. CASE OtherRequests \/ FollowRequest \/ ReadUpload \/ UploadDone \/ InvalidAudio
    BY <1>1, <1>6 DEF OtherRequests, FollowRequest, ReadUpload, UploadDone, InvalidAudio
<1>7. CASE OtherCalls \/ Answer \/ UNCHANGED vars
    BY <1>1, <1>7 DEF OtherCalls, Answer, vars
<1> QED BY <1>3, <1>4, <1>5, <1>6, <1>7, NextFrame DEF Next, Preprocess

LEMMA DetectsSoundly ==
    ASSUME SpeechInv, Detect
    PROVE  /\ ToSet(segments') = {r \in Stretches(Speech) : r.end - r.start >= Minimum}
           /\ Apart(segments')
           /\ \E sum \in Int : /\ sum = FoldLeft(AddDuration, 0, segments')
                               /\ sum <= samples
<1> DEFINE merged == FoldLeft(MergeFrame, <<>>, active)
           kept == FoldLeft(KeepLong, <<>>, merged)
<1>1. samples \in Nat /\ Frames(active) /\ segments' = kept
    BY HeardFrames DEF SpeechInv, Detect
<1> HIDE DEF kept
<1>2. active \in Seq(Segment)
    BY DEF SpeechInv
<1>3. Merged(merged, active, Len(active))
  <2>1. PICK f : Merging(f, active) /\ merged = f[Len(active)]
      BY <1>1, <1>2, MergeFolds
  <2> QED BY <1>1, <2>1, MergesSoundly
<1> HIDE DEF merged
<1>4. Apart(merged) /\ merged \in Seq(Segment)
    BY <1>3 DEF Merged, Apart
<1>5. Kept(kept, merged, Len(merged))
  <2>1. PICK f : Keeping(f, merged) /\ kept = f[Len(merged)]
      BY <1>4, KeepFolds DEF kept
  <2> QED BY <1>1, <1>4, <2>1, KeepsSoundly
<1>6. Apart(kept) /\ kept \in Seq(Segment)
    BY <1>5 DEF Kept, Apart
<1>7. \E sum \in Int : sum = FoldLeft(AddDuration, 0, kept) /\ sum <= samples
  <2>1. PICK f : Adding(f, kept) /\ FoldLeft(AddDuration, 0, kept) = f[Len(kept)]
      BY <1>6, AddFolds
  <2>2. f[Len(kept)] \in Int /\ f[Len(kept)] <= samples
      BY <1>1, <1>6, <2>1, AddsSoundly
  <2> QED BY <2>1, <2>2
<1>8. Speech = {x \in 0..(samples - 1) : \E i \in DOMAIN merged : Within(merged[i], x)}
  <2>1. DOMAIN active = 1..Len(active)
      BY <1>2
  <2>2. \A x \in Int : (\E i \in DOMAIN merged : Within(merged[i], x))
                           <=> (\E k \in DOMAIN active : Within(Padded(active[k]), x))
      BY <1>3, <2>1 DEF Merged
  <2>3. \A x \in 0..(samples - 1) : x \in Int
      BY <1>1
  <2> QED BY <2>2, <2>3 DEF Speech, Within
<1>9. Stretches(Speech) = ToSet(merged)
    BY <1>1, <1>4, <1>8, StretchesCovered
<1>10. ToSet(kept) = {r \in ToSet(merged) : r.end - r.start >= Minimum}
  <2>1. DOMAIN merged = 1..Len(merged)
      BY <1>4
  <2> QED BY <1>5, <2>1 DEF Kept, ToSet
<1> QED BY <1>1, <1>6, <1>7, <1>9, <1>10

\* Whatever the recording, the frames and the padding, the detector finds the long
\* stretches of speech and nothing else, in an order that no later check refuses.
THEOREM SegmentsAlwaysSound == Spec => SegmentsAreSound
<1>1. Init => SpeechInv
    BY SpeechInit DEF Init
<1>2. ASSUME SpeechInv, Detect
      PROVE  /\ ToSet(segments') = {r \in Stretches(Speech) : r.end - r.start >= Minimum}
             /\ \A i \in 1..(Len(segments') - 1) : segments'[i].end < segments'[i + 1].start
             /\ SpeechSamples' = FoldLeft(AddDuration, 0, segments')
  <2>1. Apart(segments') /\ segments' \in Seq(Segment)
      BY <1>2, DetectsSoundly DEF Apart
  <2>2. \A i \in 1..(Len(segments') - 1) : segments'[i].end < segments'[i + 1].start
    <3> TAKE i \in 1..(Len(segments') - 1)
    <3>1. i \in DOMAIN segments' /\ i + 1 \in DOMAIN segments' /\ i < i + 1
        BY <2>1
    <3> QED BY <2>1, <3>1 DEF Apart
  <2>3. PICK sum \in Int : sum = FoldLeft(AddDuration, 0, segments') /\ sum <= samples
      BY <1>2, DetectsSoundly
  <2>4. samples' = samples
      BY <1>2 DEF Detect
  <2>5. SpeechSamples' = FoldLeft(AddDuration, 0, segments')
      BY <2>3, <2>4 DEF SpeechSamples, Smaller
  <2> QED BY <1>2, <2>2, <2>5, DetectsSoundly
<1>3. SpeechInv /\ [Next]_vars
          => [Detect =>
                /\ ToSet(segments') = {r \in Stretches(Speech) : r.end - r.start >= Minimum}
                /\ \A i \in 1..(Len(segments') - 1) :
                       segments'[i].end < segments'[i + 1].start
                /\ SpeechSamples' = FoldLeft(AddDuration, 0, segments')]_speechVars
    BY <1>2
<1> QED BY <1>1, <1>3, SpeechStep, PTL DEF Spec, SegmentsAreSound

-----------------------------------------------------------------------------

\* From the socket to the verdict: whoever waits as long as Retry-After said is let
\* in, no client gets two windows' worth of requests in less than a window, uploads
\* stay within their limits, and nothing but complete evidence lets an action through.
THEOREM WholeRequestIsSafe ==
    Spec => []( /\ WaitingAsToldIsEnough
                /\ BurstIsBounded
                /\ UploadsAreBounded
                /\ AllowIsEarned
                /\ DenialIsProven )
BY RequestImplementsPipeline, AllowIsAlwaysEarned, DenialIsAlwaysProven,
   RequestImplementsGate, RetryAfterIsHonest, BurstsAreBounded, UploadsStayBounded,
   PTL
=============================================================================
