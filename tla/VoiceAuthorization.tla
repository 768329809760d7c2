------------------------- MODULE VoiceAuthorization -------------------------
(***************************************************************************)
(* ActionAuthorizationService.authorize: one run of VerificationService.   *)
(* verify, every call of which can fail in its own way, and the action     *)
(* policy on its result. The template read and the consent check are those *)
(* of module AuthorizationGrants; this module has the rest of the pipeline.*)
(***************************************************************************)
EXTENDS ActionPolicy

CONSTANTS
    Scores,         \* cosine similarities the embedder's output can lead to
    Probabilities   \* valid outputs of the spoof detector

ASSUME EvidenceAssumption ==
    /\ Scores \subseteq Score
    /\ Probabilities \subseteq Probability

VARIABLES
    action,    \* the requested ProtectedAction
    setup,     \* how the service is built: detector and require_spoof_check
    stage,     \* the next call of the pipeline
    clear,     \* whether evaluate_quality accepted the audio
    score,     \* speaker_score
    spoof,     \* spoof_probability
    result,    \* the VerificationResult, once there is one
    outcome    \* "pending", "unavailable" (an exception), or a verdict

authVars == <<action, setup, stage, clear, score, spoof, result, outcome>>

Setups == [detector: BOOLEAN, require: BOOLEAN]
Stages == {"template", "audio", "embed", "countermeasure", "decide",
           "authorize", "done"}

Start ==
    /\ action \in ProtectedActions
    /\ setup \in Setups
    /\ stage = "template"
    /\ clear = FALSE
    /\ score = Absent
    /\ spoof = Absent
    /\ result = Absent
    /\ outcome = "pending"

\* verify raises VerificationUnavailable.
Unavailable ==
    /\ stage' = "done"
    /\ outcome' = "unavailable"
    /\ UNCHANGED <<action, setup, clear, score, spoof, result>>

\* verify returns early, with a result for review.
Review(speaker) ==
    /\ stage' = "authorize"
    /\ result' = Result("review", speaker, Absent)

\* The template exists and was built by this model and this pipeline, or not.
CheckTemplate ==
    /\ stage = "template"
    /\ \/ Unavailable
       \/ /\ stage' = "audio"
          /\ UNCHANGED <<action, setup, clear, score, spoof, result, outcome>>

ProcessAudio ==
    /\ stage = "audio"
    /\ \/ Unavailable
       \/ /\ clear' = TRUE
          /\ stage' = "embed"
          /\ UNCHANGED <<action, setup, score, spoof, result, outcome>>
       \/ /\ Review(Absent)
          /\ UNCHANGED <<action, setup, clear, score, spoof, outcome>>

\* embed may fail, and its output may have the wrong dimension.
Embed ==
    /\ stage = "embed"
    /\ \/ Unavailable
       \/ /\ Review(Absent)
          /\ UNCHANGED <<action, setup, clear, score, spoof, outcome>>
       \/ /\ score' \in Scores
          /\ stage' = "countermeasure"
          /\ UNCHANGED <<action, setup, clear, spoof, result, outcome>>

\* A detector whose failure counts as no detector.
SpoofFailureIgnored ==
    /\ stage = "countermeasure"
    /\ setup.detector
    /\ stage' = "decide"
    /\ UNCHANGED <<action, setup, clear, score, spoof, result, outcome>>

\* A detector whose failure goes on to the policy without a result.
SpoofFailureUnanswered ==
    /\ stage = "countermeasure"
    /\ setup.detector
    /\ stage' = "authorize"
    /\ UNCHANGED <<action, setup, clear, score, spoof, result, outcome>>

\* The detector raises ModelInferenceError, or its output is no probability.
SpoofFailure ==
    /\ stage = "countermeasure"
    /\ setup.detector
    /\ Review(score)
    /\ UNCHANGED <<action, setup, clear, score, spoof, outcome>>

SpoofCheck ==
    /\ stage = "countermeasure"
    /\ IF setup.detector THEN spoof' \in Probabilities ELSE UNCHANGED spoof
    /\ stage' = "decide"
    /\ UNCHANGED <<action, setup, clear, score, result, outcome>>

MakeDecision ==
    /\ stage = "decide"
    /\ result' = Decide(clear, setup.require, score, spoof)
    /\ stage' = "authorize"
    /\ UNCHANGED <<action, setup, clear, score, spoof, outcome>>

\* Authorization in which an inconclusive verification counts as a rejection.
AuthorizeActionStrict ==
    /\ stage = "authorize"
    /\ outcome' = IF result.decision = "accept" THEN Authorize(action, result)
                                                ELSE "deny"
    /\ stage' = "done"
    /\ UNCHANGED <<action, setup, clear, score, spoof, result>>

AuthorizeAction ==
    /\ stage = "authorize"
    /\ outcome' = Authorize(action, result)
    /\ stage' = "done"
    /\ UNCHANGED <<action, setup, clear, score, spoof, result>>

Proceed ==
    \/ CheckTemplate \/ ProcessAudio \/ Embed \/ SpoofFailure \/ SpoofCheck
    \/ MakeDecision \/ AuthorizeAction

AuthSpec == Start /\ [][Proceed]_authVars

-----------------------------------------------------------------------------

AuthTypeOK ==
    /\ action \in ProtectedActions
    /\ setup \in Setups
    /\ stage \in Stages
    /\ clear \in BOOLEAN
    /\ score \in Score \cup {Absent}
    /\ spoof \in Probability \cup {Absent}
    /\ result \in Results \cup {Absent}
    /\ stage = "authorize" => result # Absent
    /\ outcome \in Verdicts \cup {"pending", "unavailable"}

\* An action is allowed only on evidence that reached the end of the pipeline:
\* clear audio, a score at the threshold, a low risk or an accepted spoof check,
\* and, where a detector is configured, its answer, whatever call failed.
AllowIsEarned ==
    outcome = "allow" =>
        /\ clear
        /\ score # Absent /\ score >= Threshold
        /\ action \notin High
        /\ setup.detector => spoof # Absent /\ spoof <= MaxSpoof
        /\ action \in Moderate \/ setup.require => setup.detector

\* Poor audio, a failed model or a borderline score never count as proof of an
\* impostor: a denial rests on a spoof or on a score below the review margin.
DenialIsProven ==
    outcome = "deny" =>
        /\ clear
        /\ score # Absent
        /\ \/ spoof # Absent /\ spoof > MaxSpoof
           \/ score < Threshold - Margin

\* The evidence at least as good as what the pipeline had.
BetterSpoof ==
    IF spoof = Absent THEN {Absent} ELSE {p \in Probabilities : p <= spoof}

\* When every call succeeded, a higher score and a lower spoof probability would
\* not have led to a lower verdict.
BetterEvidenceNeverHurts ==
    /\ outcome \in Verdicts
    /\ score # Absent
    /\ setup.detector => spoof # Absent
    =>
        \A s \in Scores, p \in BetterSpoof :
            s >= score =>
                Rank(outcome)
                    <= Rank(Authorize(action, Decide(clear, setup.require, s, p)))

\* The same evidence never lets a riskier action further than a safer one.
RiskNeverHelps ==
    outcome \in Verdicts =>
        \A other \in ProtectedActions :
            \/ other \in High
            \/ other \in Moderate /\ action \notin High
            \/ action \in Low
            => Rank(Authorize(other, result)) <= Rank(outcome)
=============================================================================
