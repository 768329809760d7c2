---------------------------- MODULE SpoofEvaluation ----------------------------
(***************************************************************************)
(* scripts/evaluate_spoof_scores.py: a countermeasure is calibrated on the  *)
(* development trials of a score manifest and reported on the evaluation    *)
(* trials (application/spoof_evaluation.py). score_asvspoof2019_la.py does  *)
(* the same with the trials it has scored, and computes their tandem cost   *)
(* with a fixed speaker verifier (adapters/evaluation/                      *)
(* asvspoof2019_tandem.py); the report of the other script is this one with *)
(* no tandem part.                                                          *)
(*                                                                          *)
(* A trial has two scores that rank it differently: the calibration uses    *)
(* spoof_probability, the tandem cost the upstream bonafide_logit.          *)
(*                                                                          *)
(* The threshold sweep of domain/spoof_metrics.py is one action per         *)
(* threshold: its two cursors are the state the code keeps between them.    *)
(* Scores are even integers as in DetectionMetrics: a probability is from 0 *)
(* to Top = 1.0, a logit any integer.                                       *)
(***************************************************************************)
EXTENDS DetectionMetrics

CONSTANTS
    Top,                 \* the probability 1.0
    BonafideRejectWeight, SpoofAcceptWeight   \* the cost model, with the prior

ASSUME SpoofCostAssumption ==
    /\ Top \in Nat /\ BonafideRejectWeight \in Nat \ {0} /\ SpoofAcceptWeight \in Nat \ {0}

VARIABLES
    spoofTrials,   \* the score manifest, or <<>>
    asv,           \* scores of the fixed verifier: target, nontarget, spoof
    stage,         \* "load", "sweep", "report", "done", "invalid" or "off"
    part,          \* the partition being swept
    bonafideBelow, spoofBelow,   \* the cursors of _threshold_sweep
    swept,         \* partition -> the points evaluated so far
    spoofReport

spoofVars ==
    <<spoofTrials, asv, stage, part, bonafideBelow, spoofBelow, swept, spoofReport>>

SpoofTrials(p, label) ==
    RestrictValues(spoofTrials, LAMBDA t : t.partition = p /\ t.label = label)

Probabilities(p, label) ==
    LET of == SpoofTrials(p, label) IN [i \in DOMAIN of |-> of[i].spoof_probability]

\* SpoofScoreTrial and SpoofScoreManifest
SpoofManifestOK(trials) ==
    /\ \A t \in Range(trials) :
           /\ t.spoof_probability \in 0..Top
           /\ (t.label = "bonafide") <=> (t.attack_category = "bonafide")
           /\ t.label = "bonafide" => t.attack_id = "bonafide"
    /\ \A i, j \in DOMAIN trials : trials[i].trial_id = trials[j].trial_id => i = j
    /\ \A p \in {"development", "evaluation"} :
           {t.label : t \in {x \in Range(trials) : x.partition = p}} = {"bonafide", "spoof"}
    /\ \A t, u \in Range(trials) : t.speaker_id = u.speaker_id => t.partition = u.partition

SpoofInit(manifests, verifiers) ==
    /\ spoofTrials \in manifests /\ asv \in verifiers
    /\ stage = IF spoofTrials = <<>> THEN "off" ELSE "load"
    /\ part = "development" /\ bonafideBelow = 0 /\ spoofBelow = 0
    /\ swept = [p \in {"development", "evaluation"} |-> <<>>]
    /\ spoofReport = <<>>

LoadSpoofScores ==
    /\ stage = "load"
    /\ stage' = IF SpoofManifestOK(spoofTrials) THEN "sweep" ELSE "invalid"
    /\ UNCHANGED <<spoofTrials, asv, part, bonafideBelow, spoofBelow, swept, spoofReport>>

-----------------------------------------------------------------------------
(* domain/spoof_metrics.py: scores at or above the threshold are spoof.      *)

CountermeasureRates(bonafide, spoof, threshold) ==
    [threshold |-> threshold,
     bonafide_rejects |-> HowMany(bonafide, LAMBDA s : s >= threshold),
     spoof_accepts |-> HowMany(spoof, LAMBDA s : s < threshold),
     bonafide_trials |-> Size(bonafide), spoof_trials |-> Size(spoof)]

\* The n-th score in order: fewer than n are below it, at least n not above it.
Sorted(scores) ==
    [n \in 1..Size(scores) |->
        CHOOSE v \in Range(scores) : /\ HowMany(scores, LAMBDA s : s < v) < n
                                    /\ n <= HowMany(scores, LAMBDA s : s <= v)]

Candidates(p) == {0, Top} \cup Range(Probabilities(p, "bonafide"))
                          \cup Range(Probabilities(p, "spoof"))

Thresholds(p) == Sorted([c \in Candidates(p) |-> c])

\* A cursor that moves past the ties too.
AdvancePastTies(sorted, below, threshold) ==
    CHOOSE n \in below..Len(sorted) :
        /\ \A i \in (below + 1)..n : sorted[i] <= threshold
        /\ n = Len(sorted) \/ ~(sorted[n + 1] <= threshold)

\* A cursor moves past the scores strictly below the threshold, never back.
Advance(sorted, below, threshold) ==
    CHOOSE n \in below..Len(sorted) :
        /\ \A i \in (below + 1)..n : sorted[i] < threshold
        /\ n = Len(sorted) \/ ~(sorted[n + 1] < threshold)

SweepThreshold ==
    /\ stage = "sweep" /\ Len(swept[part]) < Cardinality(Candidates(part))
    /\ LET bonafide == Sorted(Probabilities(part, "bonafide"))
           spoof == Sorted(Probabilities(part, "spoof"))
           threshold == Thresholds(part)[Len(swept[part]) + 1]
       IN  /\ bonafideBelow' = Advance(bonafide, bonafideBelow, threshold)
           /\ spoofBelow' = Advance(spoof, spoofBelow, threshold)
           /\ swept' = [swept EXCEPT ![part] = Append(@,
                  [threshold |-> threshold,
                   bonafide_rejects |-> Size(bonafide) - bonafideBelow',
                   spoof_accepts |-> spoofBelow',
                   bonafide_trials |-> Size(bonafide), spoof_trials |-> Size(spoof)])]
    /\ UNCHANGED <<spoofTrials, asv, stage, part, spoofReport>>

\* The next partition is swept with cursors of its own.
SweepEnds ==
    /\ stage = "sweep" /\ Len(swept[part]) = Cardinality(Candidates(part))
    /\ bonafideBelow' = 0 /\ spoofBelow' = 0
    /\ IF part = "development" THEN part' = "evaluation" /\ UNCHANGED stage
                               ELSE stage' = "report" /\ UNCHANGED part
    /\ UNCHANGED <<spoofTrials, asv, swept, spoofReport>>

SpoofGap(r) == Magnitude(r.bonafide_rejects * r.spoof_trials - r.spoof_accepts * r.bonafide_trials)

SpoofBalance(r) == r.bonafide_rejects * r.spoof_trials + r.spoof_accepts * r.bonafide_trials

CountermeasureCost(r) ==
    BonafideRejectWeight * r.bonafide_rejects * r.spoof_trials
    + SpoofAcceptWeight * r.spoof_accepts * r.bonafide_trials

CountermeasureEer(points) ==
    LeastBy(Range(points),
            LAMBDA r : <<SpoofGap(r), SpoofBalance(r), r.spoof_accepts, r.threshold>>)

MinimumCountermeasureCost(points) ==
    LeastBy(Range(points), LAMBDA r :
            <<CountermeasureCost(r), r.spoof_accepts, r.bonafide_rejects, r.threshold>>)

-----------------------------------------------------------------------------
(* domain/tandem_metrics.py: the stable sort puts the bonafide scores before *)
(* the spoof scores that equal them, since they are listed first.            *)

CurveItems(targets, others) == ({1} \X DOMAIN targets) \cup ({0} \X DOMAIN others)

ItemScore(targets, others, x) == IF x[1] = 1 THEN targets[x[2]] ELSE others[x[2]]

\* A sort that puts the spoof scores first.
SortsSpoofFirst(targets, others, x, y) ==
    KeyLess(<<ItemScore(targets, others, x), x[1], x[2]>>,
            <<ItemScore(targets, others, y), y[1], y[2]>>)

SortsBefore(targets, others, x, y) ==
    KeyLess(<<ItemScore(targets, others, x), 1 - x[1], x[2]>>,
            <<ItemScore(targets, others, y), 1 - y[1], y[2]>>)

\* The curve: a start below every score, and a point after each item.
DetCurve(targets, others) ==
    LET items == CurveItems(targets, others)
        lowest == Min(Range(targets) \cup Range(others))
        upTo(x) == {y \in items : ~SortsBefore(targets, others, x, y)}
        point(x) ==
            [at |-> Cardinality(upTo(x)),
             miss |-> Cardinality({y \in upTo(x) : y[1] = 1}),
             false_accept |-> Size(others) - Cardinality({y \in upTo(x) : y[1] = 0}),
             threshold |-> ItemScore(targets, others, x)]
    IN  {[at |-> 0, miss |-> 0, false_accept |-> Size(others), threshold |-> lowest - 1]}
        \cup {point(x) : x \in items}

\* The first point of the curve with the smallest gap.
CurveEer(targets, others) ==
    LeastBy(DetCurve(targets, others),
            LAMBDA d : <<Magnitude(d.miss * Size(others) - d.false_accept * Size(targets)), d.at>>)

TandemCost(c, d, bonafide, spoof) ==
    c.c1 * d.miss * Size(spoof) + c.c2 * d.false_accept * Size(bonafide)

\* evaluate_tandem_cost
TandemMinimum(c, bonafide, spoof) ==
    LeastBy(DetCurve(bonafide, spoof), LAMBDA d :
            <<TandemCost(c, d, bonafide, spoof), d.false_accept, d.miss, d.threshold>>)

\* The fixed verifier at its own EER threshold. The coefficients, times
\* 2000 * |target| * |nontarget| * |spoof|: 1881 = 2000 * 0.95 * 0.99,
\* 190 = 2000 * 10 * 0.95 * 0.01, 1000 = 2000 * 10 * 0.05.
AsvCoefficients ==
    LET threshold == CurveEer(asv.target, asv.nontarget).threshold
        hits == HowMany(asv.target, LAMBDA s : s >= threshold)
        false_accept == HowMany(asv.nontarget, LAMBDA s : s >= threshold)
        spoof_hits == HowMany(asv.spoof, LAMBDA s : s >= threshold)
    IN  [c1 |-> (1881 * hits * Size(asv.nontarget)
                    - 190 * false_accept * Size(asv.target)) * Size(asv.spoof),
         c2 |-> 1000 * spoof_hits * Size(asv.target) * Size(asv.nontarget)]

\* TandemCoefficients refuses negative coefficients and a zero normalizer.
CoefficientsOK(c) == c.c1 > 0 /\ c.c2 > 0

-----------------------------------------------------------------------------
(* evaluate_spoof_scores and evaluate_asvspoof2019_tandem                    *)

EvaluateSpoofPartition(p, threshold) ==
    [locked |-> CountermeasureRates(Probabilities(p, "bonafide"), Probabilities(p, "spoof"),
                                    threshold),
     observed_eer |-> CountermeasureEer(swept[p]),
     minimum_cost |-> MinimumCountermeasureCost(swept[p])]

Attacks == {t.attack_category : t \in Range(SpoofTrials("evaluation", "spoof"))}

\* A count that takes a score on the threshold for accepted.
AcceptedInclusive(trials, threshold) ==
    HowMany(trials, LAMBDA t : t.spoof_probability <= threshold)

Accepted(trials, threshold) == HowMany(trials, LAMBDA t : t.spoof_probability < threshold)

EvaluateAttacks(threshold) ==
    [a \in Attacks |->
        LET of == RestrictValues(SpoofTrials("evaluation", "spoof"),
                            LAMBDA t : t.attack_category = a)
        IN  [spoof_trials |-> Size(of),
             spoof_accepts |-> Accepted(of, threshold)]]

\* The upstream bonafide logit: higher is more bonafide. It is another ranking
\* than the spoof probability, whose softmax depends on both logits.
Support(trials) == [i \in DOMAIN trials |-> trials[i].bonafide_logit]

\* The tandem cost is broken down by the attack itself, not by its category.
AttackIds == {t.attack_id : t \in Range(SpoofTrials("evaluation", "spoof"))}

OfAttack(a) == RestrictValues(SpoofTrials("evaluation", "spoof"), LAMBDA t : t.attack_id = a)

EvaluateTandem ==
    LET bonafide == Support(SpoofTrials("evaluation", "bonafide"))
        c == AsvCoefficients
    IN  IF CoefficientsOK(c)
        THEN [coefficients |-> c,
              pooled |-> TandemMinimum(c, bonafide, Support(SpoofTrials("evaluation", "spoof"))),
              attacks |-> [a \in AttackIds |->
                              TandemMinimum(c, bonafide, Support(OfAttack(a)))]]
        ELSE [coefficients |-> c]

\* A threshold chosen on the trials it is reported on.
ThresholdOfEvaluation == MinimumCountermeasureCost(swept["evaluation"]).threshold

SelectedThreshold == MinimumCountermeasureCost(swept["development"]).threshold

ReportSpoof ==
    /\ stage = "report"
    /\ LET threshold == SelectedThreshold
       IN  spoofReport' = [selected_threshold |-> threshold,
                           development |-> EvaluateSpoofPartition("development", threshold),
                           evaluation |-> EvaluateSpoofPartition("evaluation", threshold),
                           evaluation_attacks |-> EvaluateAttacks(threshold),
                           tandem |-> EvaluateTandem]
    /\ stage' = "done"
    /\ UNCHANGED <<spoofTrials, asv, part, bonafideBelow, spoofBelow, swept>>

SpoofNext == LoadSpoofScores \/ SweepThreshold \/ SweepEnds \/ ReportSpoof
=============================================================================
