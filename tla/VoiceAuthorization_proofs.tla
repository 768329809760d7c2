---------------------- MODULE VoiceAuthorization_proofs ----------------------
(***************************************************************************)
(* Theorems about the authorization pipeline for every policy: any         *)
(* threshold, margin and spoof limit that VerificationPolicy accepts.      *)
(***************************************************************************)
EXTENDS VoiceAuthorization, TLAPS

USE PolicyAssumption, EvidenceAssumption DEF Score, Probability

\* decide is total: it gives a result of the right shape on any evidence.
LEMMA DecideType ==
    ASSUME NEW c \in BOOLEAN, NEW r \in BOOLEAN,
           NEW s \in Score \cup {Absent}, NEW p \in Probability \cup {Absent}
    PROVE  Decide(c, r, s, p) \in Results
BY DEF Decide, Result, Results, Decisions, ScoreDecision

LEMMA ScoreDecisionRests ==
    ASSUME NEW s \in Score
    PROVE  /\ ScoreDecision(s) = "accept" => s >= Threshold
           /\ ScoreDecision(s) = "reject" => s < Threshold - Margin
<1>1. s \in Int /\ Threshold \in Int /\ Margin \in Int
    OBVIOUS
<1>2. CASE s - Threshold >= 0
    BY <1>1, <1>2 DEF ScoreDecision
<1>3. CASE ~(s - Threshold >= 0) /\ s - Threshold >= -Margin
    BY <1>3 DEF ScoreDecision
<1>4. CASE ~(s - Threshold >= -Margin)
    BY <1>1, <1>4 DEF ScoreDecision
<1> QED BY <1>1, <1>2, <1>3, <1>4

LEMMA AuthorizeType ==
    ASSUME NEW a, NEW r \in Results PROVE Authorize(a, r) \in Verdicts
BY DEF Authorize, Results, Decisions, Verdicts

\* What the pipeline knows at each stage, and what each result rests on.
Accepted ==
    /\ clear
    /\ score # Absent /\ score >= Threshold
    /\ setup.detector => spoof # Absent /\ spoof <= MaxSpoof
    /\ setup.require => setup.detector
    /\ result.spoof = spoof

Rejected ==
    /\ clear
    /\ score # Absent
    /\ \/ spoof # Absent /\ spoof > MaxSpoof
       \/ score < Threshold - Margin

PipelineInv ==
    /\ AuthTypeOK
    /\ stage \in {"embed", "countermeasure", "decide"} => clear
    /\ stage \in {"countermeasure", "decide"} => score # Absent
    /\ stage \in {"template", "audio", "embed", "countermeasure"} => spoof = Absent
    /\ spoof # Absent => setup.detector
    /\ stage = "decide" /\ setup.detector => spoof # Absent
    /\ stage = "authorize" /\ result.decision = "accept" => Accepted
    /\ stage = "authorize" /\ result.decision = "reject" => Rejected
    /\ stage \notin {"authorize", "done"} => outcome = "pending" /\ result = Absent
    /\ stage = "authorize" => outcome = "pending"
    /\ AllowIsEarned
    /\ DenialIsProven

LEMMA PipelineInit == Start => PipelineInv
BY DEF Start, PipelineInv, AuthTypeOK, Setups, Stages, AllowIsEarned, DenialIsProven,
       Verdicts

\* What decide accepts and rejects.
LEMMA DecideRests ==
    ASSUME AuthTypeOK, stage = "decide", clear, score # Absent,
           spoof # Absent => setup.detector,
           setup.detector => spoof # Absent,
           MakeDecision
    PROVE  /\ result'.decision = "accept" => Accepted'
           /\ result'.decision = "reject" => Rejected'
<1>1. /\ score \in Score /\ spoof \in Probability \cup {Absent}
      /\ result' = Decide(clear, setup.require, score, spoof)
      /\ UNCHANGED <<setup, clear, score, spoof>>
    BY DEF AuthTypeOK, MakeDecision
<1>2. result'.spoof = spoof
    BY <1>1 DEF Decide, Result
<1>3. CASE spoof = Absent
  <2>1. CASE setup.require
    <3>1. result'.decision = "review"
        BY <1>1, <1>3, <2>1 DEF Decide, Result
    <3> QED BY <3>1
  <2>2. CASE ~setup.require
    <3>1. result'.decision = ScoreDecision(score)
        BY <1>1, <1>3, <2>2 DEF Decide, Result
    <3>2. ~setup'.detector /\ ~setup'.require
        BY <1>1, <1>3, <2>2
    <3>3. /\ result'.decision = "accept" => score >= Threshold
          /\ result'.decision = "reject" => score < Threshold - Margin
        BY <1>1, <3>1, ScoreDecisionRests
    <3> QED BY <1>1, <1>2, <3>2, <3>3 DEF Accepted, Rejected
  <2> QED BY <2>1, <2>2 DEF AuthTypeOK, Setups
<1>4. CASE spoof # Absent /\ spoof > MaxSpoof
  <2>1. result'.decision = "reject"
      BY <1>1, <1>4 DEF Decide, Result
  <2> QED BY <1>1, <1>4, <2>1 DEF Rejected
<1>5. CASE spoof # Absent /\ ~(spoof > MaxSpoof)
  <2>1. result'.decision = ScoreDecision(score)
      BY <1>1, <1>5 DEF Decide, Result
  <2>2. spoof <= MaxSpoof
      BY <1>1, <1>5
  <2>3. /\ result'.decision = "accept" => score >= Threshold
        /\ result'.decision = "reject" => score < Threshold - Margin
      BY <1>1, <2>1, ScoreDecisionRests
  <2> QED BY <1>1, <1>2, <1>5, <2>2, <2>3 DEF Accepted, Rejected
<1> QED BY <1>3, <1>4, <1>5

LEMMA PipelineStep == PipelineInv /\ [Proceed]_authVars => PipelineInv'
<1> SUFFICES ASSUME PipelineInv, [Proceed]_authVars PROVE PipelineInv'
    OBVIOUS
<1> USE DEF PipelineInv
<1>1. CASE UNCHANGED authVars
    BY <1>1 DEF authVars, AuthTypeOK, Accepted, Rejected, AllowIsEarned, DenialIsProven
<1>2. CASE Unavailable /\ stage \in {"template", "audio", "embed"}
    BY <1>2 DEF Unavailable, AuthTypeOK, Stages, AllowIsEarned, DenialIsProven
<1>3. ASSUME NEW s \in Score \cup {Absent}
      PROVE  /\ Result("review", s, Absent) \in Results
             /\ Result("review", s, Absent).decision = "review"
             /\ Result("review", s, Absent) # Absent
    BY DEF Result, Results, Decisions
<1>4. CASE CheckTemplate
    BY <1>2, <1>4 DEF CheckTemplate, AuthTypeOK, Stages, AllowIsEarned, DenialIsProven
<1>5. CASE ProcessAudio
    BY <1>2, <1>3, <1>5
       DEF ProcessAudio, Review, AuthTypeOK, Stages, AllowIsEarned, DenialIsProven
<1>6. CASE Embed
    BY <1>2, <1>3, <1>6
       DEF Embed, Review, AuthTypeOK, Stages, AllowIsEarned, DenialIsProven
<1>7. CASE SpoofFailure
    BY <1>3, <1>7
       DEF SpoofFailure, Review, AuthTypeOK, Stages, AllowIsEarned, DenialIsProven
<1>8. CASE SpoofCheck
    BY <1>8 DEF SpoofCheck, AuthTypeOK, Stages, AllowIsEarned, DenialIsProven
<1>9. CASE MakeDecision
  <2>1. /\ result' \in Results
        /\ stage' = "authorize"
        /\ UNCHANGED <<action, setup, clear, score, spoof, outcome>>
      BY <1>9, DecideType DEF MakeDecision, AuthTypeOK, Setups
  <2>2. result' # Absent
      BY <2>1
  <2>3. /\ result'.decision = "accept" => Accepted'
        /\ result'.decision = "reject" => Rejected'
      BY <1>9, DecideRests DEF MakeDecision
  <2>4. AuthTypeOK'
      BY <2>1, <2>2 DEF AuthTypeOK, Stages
  <2>5. outcome' = "pending"
      BY <1>9, <2>1 DEF MakeDecision
  <2> QED BY <2>1, <2>2, <2>3, <2>4, <2>5 DEF AllowIsEarned, DenialIsProven
<1>10. CASE AuthorizeAction
  <2>1. /\ result \in Results
        /\ outcome' = Authorize(action, result) /\ outcome' \in Verdicts
        /\ UNCHANGED <<action, setup, clear, score, spoof, result>>
      BY <1>10, AuthorizeType DEF AuthorizeAction, AuthTypeOK
  <2>2. AuthTypeOK'
      BY <1>10, <2>1 DEF AuthorizeAction, AuthTypeOK, Stages
  <2>3. ASSUME outcome' = "allow"
        PROVE  /\ Accepted /\ action \notin High
               /\ action \in Moderate => setup.detector
    <3>1. /\ result.decision = "accept" /\ action \notin High
          /\ action \in Moderate => result.spoof # Absent
        BY <2>1, <2>3 DEF Authorize, Results, Decisions
    <3> QED BY <1>10, <3>1 DEF AuthorizeAction, Accepted
  <2>4. ASSUME outcome' = "deny" PROVE Rejected
    <3>1. result.decision = "reject"
        BY <2>1, <2>4 DEF Authorize, Results, Decisions
    <3> QED BY <1>10, <3>1 DEF AuthorizeAction
  <2>5. AllowIsEarned'
      BY <2>1, <2>3 DEF AllowIsEarned, Accepted
  <2>6. DenialIsProven'
      BY <2>1, <2>4 DEF DenialIsProven, Rejected
  <2> QED BY <1>10, <2>2, <2>5, <2>6 DEF AuthorizeAction
<1> QED BY <1>1, <1>4, <1>5, <1>6, <1>7, <1>8, <1>9, <1>10 DEF Proceed

\* Nothing but complete, sufficient evidence lets an action through.
THEOREM AllowIsAlwaysEarned == AuthSpec => []AllowIsEarned
<1>1. PipelineInv => AllowIsEarned
    BY DEF PipelineInv
<1> QED BY <1>1, PipelineInit, PipelineStep, PTL DEF AuthSpec

\* Nothing but evidence against the speaker denies an action.
THEOREM DenialIsAlwaysProven == AuthSpec => []DenialIsProven
<1>1. PipelineInv => DenialIsProven
    BY DEF PipelineInv
<1> QED BY <1>1, PipelineInit, PipelineStep, PTL DEF AuthSpec

\* The pipeline never leaves the types of its state.
THEOREM PipelineIsWellTyped == AuthSpec => []AuthTypeOK
<1>1. PipelineInv => AuthTypeOK
    BY DEF PipelineInv
<1> QED BY <1>1, PipelineInit, PipelineStep, PTL DEF AuthSpec

-----------------------------------------------------------------------------
(* Monotonicity: where the verdict comes from.                              *)

\* A verdict is the policy's answer to the result, and the result is decide's
\* answer to the evidence once every call has succeeded.
Complete == score # Absent /\ (setup.detector => spoof # Absent)

VerdictRests ==
    /\ stage \in {"template", "audio", "embed"} => score = Absent
    /\ outcome \in Verdicts => result # Absent /\ outcome = Authorize(action, result)
    /\ stage = "authorize" /\ Complete => result = Decide(clear, setup.require, score, spoof)
    /\ outcome \in Verdicts /\ Complete =>
            result = Decide(clear, setup.require, score, spoof)

LEMMA VerdictInit == Start => VerdictRests
BY DEF Start, VerdictRests, Verdicts, Complete

LEMMA VerdictStep ==
    PipelineInv /\ VerdictRests /\ [Proceed]_authVars => VerdictRests'
<1> SUFFICES ASSUME PipelineInv, VerdictRests, [Proceed]_authVars PROVE VerdictRests'
    OBVIOUS
<1> USE DEF PipelineInv, VerdictRests
<1>1. CASE UNCHANGED authVars
    BY <1>1 DEF authVars, Complete
<1>2. CASE Unavailable /\ stage \in {"template", "audio", "embed"}
    BY <1>2 DEF Unavailable, Verdicts
<1>3. CASE CheckTemplate
    BY <1>2, <1>3 DEF CheckTemplate, Verdicts
<1>4. CASE ProcessAudio \/ Embed
  <2>1. /\ stage \in {"audio", "embed"} /\ outcome = "pending"
        /\ \/ Unavailable
           \/ /\ stage' \in {"embed", "countermeasure"} /\ outcome' = outcome
              /\ stage' = "embed" => score' = score
           \/ Review(Absent) /\ UNCHANGED <<setup, score, spoof, outcome>>
      BY <1>4 DEF ProcessAudio, Embed
  <2>2. CASE /\ stage' \in {"embed", "countermeasure"} /\ outcome' = outcome
             /\ stage' = "embed" => score' = score
      BY <2>1, <2>2 DEF Verdicts
  <2>3. CASE Review(Absent) /\ UNCHANGED <<setup, score, spoof, outcome>>
    <3>1. spoof' = Absent /\ stage' = "authorize" /\ outcome' = "pending"
        BY <2>1, <2>3 DEF Review
    <3>2. score' = Absent
        BY <2>1, <2>3
    <3> QED BY <3>1, <3>2 DEF Complete, Verdicts
  <2> QED BY <1>2, <2>1, <2>2, <2>3
<1>5. CASE SpoofFailure
    BY <1>5 DEF SpoofFailure, Review, Complete, Verdicts
<1>6. CASE SpoofCheck
    BY <1>6 DEF SpoofCheck, Verdicts
<1>7. CASE MakeDecision
    BY <1>7 DEF MakeDecision, Verdicts, Complete
<1>8. CASE AuthorizeAction
    BY <1>8 DEF AuthorizeAction, Verdicts, Complete, AuthTypeOK
<1> QED BY <1>1, <1>3, <1>4, <1>5, <1>6, <1>7, <1>8 DEF Proceed

\* The same evidence never lets a riskier action further, for every policy.
THEOREM RiskNeverEverHelps == AuthSpec => []RiskNeverHelps
<1>1. ASSUME PipelineInv, VerdictRests PROVE RiskNeverHelps
  <2> SUFFICES ASSUME outcome \in Verdicts, NEW other \in ProtectedActions,
                      \/ other \in High
                      \/ other \in Moderate /\ action \notin High
                      \/ action \in Low
               PROVE  Rank(Authorize(other, result)) <= Rank(outcome)
      BY DEF RiskNeverHelps
  <2>1. /\ outcome = Authorize(action, result)
        /\ result.decision \in {"accept", "review", "reject"}
      BY <1>1 DEF VerdictRests, PipelineInv, AuthTypeOK, Results, Decisions
  <2>2. action \in ProtectedActions
      BY <1>1 DEF PipelineInv, AuthTypeOK
  <2>3. action \in Low \/ action \in Moderate \/ action \in High
      BY <2>2 DEF ProtectedActions, Low, Moderate, High
  <2>4. /\ action \in Low => action \notin Moderate \cup High
        /\ other \in High => other \notin Low
      BY DEF Low, Moderate, High
  <2> QED BY <2>1, <2>3, <2>4 DEF Authorize, Rank
<1> QED BY <1>1, PipelineInit, PipelineStep, VerdictInit, VerdictStep, PTL DEF AuthSpec

\* decide ranked: 0 for reject, 1 for review, 2 for accept.
DecisionRank(decision) ==
    CASE decision = "reject" -> 0 [] decision = "review" -> 1 [] decision = "accept" -> 2

LEMMA ScoreDecisionMonotone ==
    ASSUME NEW s \in Score, NEW t \in Score, s <= t
    PROVE  DecisionRank(ScoreDecision(s)) <= DecisionRank(ScoreDecision(t))
<1>1. /\ ScoreDecision(s) \in Decisions /\ ScoreDecision(t) \in Decisions
      /\ ScoreDecision(s) = "accept" => ScoreDecision(t) = "accept"
      /\ ScoreDecision(s) = "review" => ScoreDecision(t) \in {"review", "accept"}
    BY DEF ScoreDecision, Decisions
<1> QED BY <1>1 DEF DecisionRank, Decisions

\* The evidence t, q is at least as good as s, p.
NoWorse(t, q, s, p) ==
    /\ s \in Score /\ t \in Score /\ s <= t
    /\ p \in Probability \cup {Absent} /\ q \in Probability \cup {Absent}
    /\ p = Absent <=> q = Absent
    /\ p # Absent => q <= p

LEMMA DecideMonotone ==
    ASSUME NEW c \in BOOLEAN, NEW r \in BOOLEAN,
           NEW s, NEW t, NEW p, NEW q, NoWorse(t, q, s, p)
    PROVE  DecisionRank(Decide(c, r, s, p).decision)
                <= DecisionRank(Decide(c, r, t, q).decision)
<1> USE DEF NoWorse
<1>0. /\ ScoreDecision(s) \in Decisions /\ ScoreDecision(t) \in Decisions
      /\ s # Absent /\ t # Absent
    BY DEF ScoreDecision, Decisions
<1>1. CASE ~c
    BY <1>1 DEF Decide, Result, DecisionRank
<1>2. CASE c /\ p = Absent /\ r
  <2>1. Decide(c, r, s, p).decision = "review" /\ Decide(c, r, t, q).decision = "review"
      BY <1>0, <1>2 DEF Decide, Result
  <2> QED BY <2>1 DEF DecisionRank
<1>3. CASE c /\ p # Absent /\ p > MaxSpoof
  <2>1. Decide(c, r, s, p).decision = "reject"
      BY <1>0, <1>3 DEF Decide, Result
  <2>2. Decide(c, r, t, q).decision \in Decisions
    <3>1. Decide(c, r, t, q) \in Results
        BY DecideType
    <3> QED BY ONLY <3>1 DEF Results
  <2> QED BY <2>1, <2>2 DEF DecisionRank, Decisions
<1>4. CASE c /\ ~(p = Absent /\ r) /\ ~(p # Absent /\ p > MaxSpoof)
  <2>1. ~(q # Absent /\ q > MaxSpoof) /\ ~(q = Absent /\ r)
      BY <1>4
  <2>2. /\ Decide(c, r, s, p).decision = ScoreDecision(s)
        /\ Decide(c, r, t, q).decision = ScoreDecision(t)
      BY <1>0, <1>4, <2>1 DEF Decide, Result
  <2> QED BY <2>2, ScoreDecisionMonotone
<1> QED BY <1>1, <1>2, <1>3, <1>4

LEMMA AuthorizeMonotone ==
    ASSUME NEW a, NEW x \in Results, NEW y \in Results,
           DecisionRank(x.decision) <= DecisionRank(y.decision),
           x.spoof = Absent <=> y.spoof = Absent
    PROVE  Rank(Authorize(a, x)) <= Rank(Authorize(a, y))
<1>1. x.decision \in Decisions /\ y.decision \in Decisions
    BY DEF Results
<1>2. CASE x.decision = "reject"
    BY <1>1, <1>2 DEF Authorize, Rank, Decisions
<1>3. CASE x.decision = "review"
    BY <1>1, <1>3 DEF Authorize, Rank, Decisions, DecisionRank
<1>4. CASE x.decision = "accept"
    BY <1>1, <1>4 DEF Authorize, Rank, Decisions, DecisionRank
<1> QED BY <1>1, <1>2, <1>3, <1>4 DEF Decisions

\* Better evidence never lowers a verdict, for every policy and every evidence.
THEOREM BetterEvidenceNeverEverHurts == AuthSpec => []BetterEvidenceNeverHurts
<1>1. ASSUME PipelineInv, VerdictRests PROVE BetterEvidenceNeverHurts
  <2> SUFFICES ASSUME outcome \in Verdicts, score # Absent,
                      setup.detector => spoof # Absent,
                      NEW s \in Scores, NEW p \in BetterSpoof, s >= score
               PROVE  Rank(outcome)
                        <= Rank(Authorize(action, Decide(clear, setup.require, s, p)))
      BY DEF BetterEvidenceNeverHurts
  <2>1. /\ outcome = Authorize(action, result)
        /\ result = Decide(clear, setup.require, score, spoof)
      BY <1>1 DEF VerdictRests, Complete
  <2>2. /\ clear \in BOOLEAN /\ setup.require \in BOOLEAN
        /\ score \in Score /\ spoof \in Probability \cup {Absent}
      BY <1>1 DEF PipelineInv, AuthTypeOK, Setups
  <2>3. /\ s \in Score /\ p \in Probability \cup {Absent}
        /\ spoof = Absent <=> p = Absent
        /\ spoof # Absent => p <= spoof
    <3>1. CASE spoof = Absent
        BY <2>2, <3>1 DEF BetterSpoof
    <3>2. CASE spoof # Absent
      <4>1. p \in Probabilities /\ p <= spoof
          BY <3>2 DEF BetterSpoof
      <4>2. p \in Int
          BY <4>1
      <4>3. p # Absent
          BY <4>2
      <4> QED BY <2>2, <3>2, <4>1, <4>3
    <3> QED BY <3>1, <3>2
  <2> DEFINE require == setup.require
             better == Decide(clear, require, s, p)
  <2> HIDE DEF require
  <2>4. /\ DecisionRank(result.decision) <= DecisionRank(better.decision)
        /\ result \in Results /\ better \in Results
    <3>1. /\ result = Decide(clear, require, score, spoof)
          /\ require \in BOOLEAN
        BY <2>1, <2>2 DEF require
    <3>2. DecisionRank(Decide(clear, require, score, spoof).decision)
            <= DecisionRank(Decide(clear, require, s, p).decision)
      <4>1. NoWorse(s, p, score, spoof)
          BY <2>2, <2>3 DEF NoWorse
      <4> QED BY ONLY <2>2, <3>1, <4>1, DecideMonotone
    <3>3. /\ Decide(clear, require, score, spoof) \in Results
          /\ Decide(clear, require, s, p) \in Results
        BY ONLY <2>2, <2>3, <3>1, DecideType
    <3> QED BY ONLY <3>1, <3>2, <3>3
  <2>5. result.spoof = spoof /\ better.spoof = p
      BY <2>1 DEF Decide, Result
  <2> HIDE DEF better
  <2>6. Rank(Authorize(action, result)) <= Rank(Authorize(action, better))
      BY <2>3, <2>4, <2>5, AuthorizeMonotone
  <2> QED BY <2>1, <2>6 DEF better, require
<1> QED BY <1>1, PipelineInit, PipelineStep, VerdictInit, VerdictStep, PTL DEF AuthSpec
=============================================================================
