--------------------------- MODULE DetectionMetrics ---------------------------
(***************************************************************************)
(* Error counts and detection cost at a threshold, of speaker verification  *)
(* (domain/metrics.py) and of the spoof countermeasure                      *)
(* (domain/spoof_metrics.py).                                               *)
(*                                                                          *)
(* A score is an even integer and a threshold any integer, so that between  *)
(* two scores, below the lowest and above the highest there is a threshold  *)
(* that is no score, as there is between floats. Trials, and their scores,  *)
(* are functions whose domain names the trials, since nothing here depends  *)
(* on their order. Rates are kept as counts,                                *)
(* and costs are compared after multiplication by both numbers of trials:   *)
(* exact arithmetic, without the rounding of floats.                        *)
(***************************************************************************)
EXTENDS Integers, Sequences, FiniteSets, SequencesExt

CONSTANTS
    MissWeight,        \* false_reject_cost * target_probability
    FalseAlarmWeight   \* false_accept_cost * (1 - target_probability)

ASSUME CostAssumption == MissWeight \in Nat \ {0} /\ FalseAlarmWeight \in Nat \ {0}

Size(scores) == Cardinality(DOMAIN scores)

HowMany(scores, Test(_)) == Cardinality({i \in DOMAIN scores : Test(scores[i])})

Magnitude(x) == IF x < 0 THEN -x ELSE x

\* Keys are compared as Python compares tuples; min keeps the least.
KeyLess(a, b) == \E i \in DOMAIN a : a[i] < b[i] /\ \A j \in 1..(i - 1) : a[j] = b[j]

LeastBy(S, key(_)) == CHOOSE x \in S : \A y \in S : ~KeyLess(key(y), key(x))

-----------------------------------------------------------------------------
(* Speaker verification: scores at or above the threshold are accepted.      *)

RatesAtThreshold(genuine, impostor, threshold) ==
    [threshold |-> threshold,
     false_rejects |-> HowMany(genuine, LAMBDA s : s < threshold),
     false_accepts |-> HowMany(impostor, LAMBDA s : s >= threshold),
     genuine_trials |-> Size(genuine), impostor_trials |-> Size(impostor)]

\* Only the observed scores: neither accept all nor accept none may be a choice.
ObservedThresholds(genuine, impostor) == Range(genuine) \cup Range(impostor)

\* math.nextafter below the lowest and above the highest score.
CandidateThresholds(genuine, impostor) ==
    LET observed == Range(genuine) \cup Range(impostor)
    IN  observed \cup {Min(observed) - 1, Max(observed) + 1}

\* |FAR - FRR| and FAR + FRR, times both numbers of trials.
Gap(r) == Magnitude(r.false_accepts * r.genuine_trials - r.false_rejects * r.impostor_trials)

BalancedError(r) == r.false_accepts * r.genuine_trials + r.false_rejects * r.impostor_trials

Cost(r) ==
    MissWeight * r.false_rejects * r.impostor_trials
    + FalseAlarmWeight * r.false_accepts * r.genuine_trials

\* The cost of accepting all or none, whichever is cheaper: normalized cost 1.
DefaultCost(r) == Min({MissWeight, FalseAlarmWeight}) * r.genuine_trials * r.impostor_trials

Evaluated(genuine, impostor) ==
    {RatesAtThreshold(genuine, impostor, t) : t \in CandidateThresholds(genuine, impostor)}

EstimateEer(genuine, impostor) ==
    LeastBy(Evaluated(genuine, impostor),
            LAMBDA r : <<Gap(r), BalancedError(r), -r.threshold>>)

MinimumDetectionCost(genuine, impostor) ==
    LeastBy(Evaluated(genuine, impostor),
            LAMBDA r : <<Cost(r), r.false_accepts, -r.threshold>>)

-----------------------------------------------------------------------------
(* The report of evaluate_scored_trials.                                     *)

ScoresOf(trials, label) ==
    LET chosen == RestrictValues(trials, LAMBDA t : t.label = label)
    IN  [i \in DOMAIN chosen |-> chosen[i].score]

EvaluatePartition(trials, threshold) ==
    LET genuine == ScoresOf(trials, "genuine")
        impostor == ScoresOf(trials, "impostor")
    IN  [locked |-> RatesAtThreshold(genuine, impostor, threshold),
         observed_eer |-> EstimateEer(genuine, impostor),
         minimum_dcf |-> MinimumDetectionCost(genuine, impostor)]

\* One entry per condition; rates only where both classes have trials.
EvaluateConditions(trials, threshold) ==
    [c \in {t.condition : t \in Range(trials)} |->
        LET of == RestrictValues(trials, LAMBDA t : t.condition = c)
            genuine == ScoresOf(of, "genuine")
            impostor == ScoresOf(of, "impostor")
        IN  [genuine_trials |-> Size(genuine), impostor_trials |-> Size(impostor),
             rates |-> IF Size(genuine) > 0 /\ Size(impostor) > 0
                       THEN {RatesAtThreshold(genuine, impostor, threshold)} ELSE {}]]

TrialsFor(trials, p) == RestrictValues(trials, LAMBDA t : t.partition = p)

EvaluateScoredTrials(trials) ==
    LET development == TrialsFor(trials, "development")
        evaluation == TrialsFor(trials, "evaluation")
        threshold == MinimumDetectionCost(ScoresOf(development, "genuine"),
                                          ScoresOf(development, "impostor")).threshold
    IN  [trials |-> trials,  \* history: the report does not keep them
         selected_threshold |-> threshold,
         development |-> EvaluatePartition(development, threshold),
         evaluation |-> EvaluatePartition(evaluation, threshold),
         evaluation_conditions |-> EvaluateConditions(evaluation, threshold)]
=============================================================================
