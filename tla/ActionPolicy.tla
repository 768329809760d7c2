---------------------------- MODULE ActionPolicy ----------------------------
(***************************************************************************)
(* The two pure policies that turn evidence into a verdict: decide fuses   *)
(* audio quality, speaker score and spoof probability, authorize_action    *)
(* weighs the result against the risk of the requested action. Scores and  *)
(* probabilities are integers, in hundredths. Reasons are left out.        *)
(***************************************************************************)
EXTENDS Integers

CONSTANTS
    Threshold,  \* speaker_threshold
    Margin,     \* review_margin
    MaxSpoof,   \* max_spoof_probability
    Absent      \* Python's None: no score, no probability

Score == -100..100
Probability == 0..100

Decisions == {"accept", "review", "reject"}
Verdicts == {"allow", "step_up", "deny"}
Results == [decision: Decisions, score: Score \cup {Absent},
            spoof: Probability \cup {Absent}]

ASSUME PolicyAssumption ==
    /\ Threshold \in -100..100
    /\ Margin \in 0..200
    /\ MaxSpoof \in 0..100
    /\ Absent \notin Int \cup Results

Result(decision, score, spoof) ==
    [decision |-> decision, score |-> score, spoof |-> spoof]

\* The last branches of decide exchanged.
ScoreDecisionSwapped(score) ==
    IF score - Threshold >= 0 THEN "accept"
    ELSE IF score - Threshold >= -Margin THEN "reject" ELSE "review"

ScoreDecision(score) ==
    IF score - Threshold >= 0 THEN "accept"
    ELSE IF score - Threshold >= -Margin THEN "review" ELSE "reject"

\* decide: the first rule that applies. clear says that evaluate_quality found
\* nothing wrong, require is require_spoof_check.
Decide(clear, require, score, spoof) ==
    Result(CASE ~clear \/ score = Absent        -> "review"
             [] clear /\ score # Absent /\ spoof # Absent /\ spoof > MaxSpoof -> "reject"
             [] clear /\ score # Absent /\ spoof = Absent /\ require -> "review"
             [] OTHER -> ScoreDecision(score),
           score, spoof)

-----------------------------------------------------------------------------
(* DEFAULT_ACTION_RISKS and authorize_action                                *)

ProtectedActions ==
    {"play_media", "personalize_assistant", "switch_profile",
     "read_private_content", "send_message", "make_purchase",
     "unlock_physical_access"}

Low == {"play_media", "personalize_assistant"}
Moderate == {"switch_profile", "read_private_content"}
High == {"send_message", "make_purchase", "unlock_physical_access"}

\* authorize_action with the test on the evidence applied to the wrong tier.
AuthorizeWrongTier(action, result) ==
    CASE result.decision = "reject" -> "deny"
      [] result.decision = "review" -> "step_up"
      [] result.decision = "accept" ->
            IF action \in High \/ (action \in Low /\ result.spoof = Absent)
            THEN "step_up" ELSE "allow"

Authorize(action, result) ==
    CASE result.decision = "reject" -> "deny"
      [] result.decision = "review" -> "step_up"
      [] result.decision = "accept" ->
            IF action \in High \/ (action \in Moderate /\ result.spoof = Absent)
            THEN "step_up" ELSE "allow"

\* How much a verdict lets through.
Rank(verdict) ==
    CASE verdict = "deny" -> 0 [] verdict = "step_up" -> 1 [] verdict = "allow" -> 2
=============================================================================
