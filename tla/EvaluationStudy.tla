---------------------------- MODULE EvaluationStudy ----------------------------
(***************************************************************************)
(* The evaluation commands together: a speaker-verification study prepares, *)
(* scores and evaluates a corpus, or evaluates a scored manifest it was     *)
(* given; a countermeasure study evaluates spoof scores.                    *)
(***************************************************************************)
EXTENDS TrialScoring, SpoofEvaluation

CONSTANTS
    Sources,        \* the pairs of source subsets of a corpus
    ScoredFiles,    \* the scored manifests a study may be given
    SpoofManifests, \* the spoof score manifests
    Verifiers       \* the scores of the fixed speaker verifier

\* File names are unique in a directory: a source subset has a speaker, and a
\* speaker a clip, under one name only. A scored manifest on disk is a list of
\* trials with numeric scores, or torn; a spoof score manifest is a list of trials
\* with numeric logits, and the verifier's scores are lists of numbers.
ASSUME StudyAssumption ==
    /\ \A source \in Sources : \A p \in Partitions :
           /\ source[p] \in Seq(ToSet(source[p]))
           /\ Unique(source[p], LAMBDA s : s.speaker_id)
           /\ \A s \in ToSet(source[p]) : /\ s.clips \in Seq(ToSet(s.clips))
                                         /\ Unique(s.clips, LAMBDA c : c.id)
    /\ Scores \subseteq Int /\ MaxDamage \in Nat /\ MaxShort \in Nat
    /\ \A file \in ScoredFiles \ {None, Torn} :
           file \in Seq(ToSet(file)) /\ \A t \in ToSet(file) : t.score \in Int
    /\ \A manifest \in SpoofManifests :
           manifest \in Seq(ToSet(manifest)) /\ \A t \in ToSet(manifest) : t.bonafide_logit \in Int
    /\ \A scores \in Verifiers : /\ scores.target \in Seq(Int) /\ scores.nontarget \in Seq(Int)
                                /\ scores.spoof \in Seq(Int)

studyVars == <<corpusVars, scoringVars, spoofVars>>

NoSource == [p \in Partitions |-> <<>>]

\* One study at a time: the inputs of the others are empty.
StudyInit ==
    \/ CorpusInit(Sources) /\ ScoringInit({None}) /\ SpoofInit({<<>>}, {<<>>})
    \/ CorpusInit({NoSource}) /\ ScoringInit(ScoredFiles) /\ SpoofInit({<<>>}, {<<>>})
    \/ CorpusInit({NoSource}) /\ ScoringInit({None}) /\ SpoofInit(SpoofManifests, Verifiers)

StudyNext ==
    \/ PrepareNext /\ scoring = "idle" /\ UNCHANGED <<scoringVars, spoofVars>>
    \/ TrialScoringNext /\ preparing = "idle" /\ UNCHANGED spoofVars
    \/ SpoofNext /\ UNCHANGED <<corpusVars, scoringVars>>

StudySpec == StudyInit /\ [][StudyNext]_studyVars

-----------------------------------------------------------------------------

StudyTypeOK ==
    /\ preparing \in {"idle", "refused", "materialize", "manifest", "provenance", "rename"}
    /\ IF preparing \in {"idle", "refused"} THEN staging = None
       ELSE DOMAIN staging = {"audio", "manifest", "provenance"}
    /\ scoring \in {"idle", "enroll", "score", "killed"} \cup Failures
    /\ stage \in {"off", "load", "sweep", "report", "done", "invalid"}
    /\ runs \in 0..MaxRuns /\ damage \in 0..MaxDamage
    /\ Len(scored) \in 0..(4 * SpeakersPerPartition * ProbeClips)

\* Wherever a preparation is killed or fails, an output directory that exists
\* has the manifest, the provenance of that manifest, and every recording the
\* manifest names; untouched recordings have the digest it names.
Named(m) == (UNION {ToSet(e.samples) : e \in ToSet(m.enrollments)})
            \cup {t.sample : t \in ToSet(m.trials)}

PublishedIsComplete ==
    corpus # None =>
        /\ corpus.provenance = corpus.manifest
        /\ \A r \in Named(corpus.manifest) :
               /\ r.path \in DOMAIN corpus.audio
               /\ damage = 0 => corpus.audio[r.path] = r.sha256
        /\ AudioManifestOK(corpus.manifest)

\* The selection and the pairing of impostors always meet the protocol: a
\* manifest is refused only when two selected clips are the same recording.
OnlyDuplicatesAreRefused ==
    preparing = "manifest" /\ ~AudioManifestOK(Materialized) =>
        \E s, t \in ToSet(selections) : \E c \in ToSet(Clips(s)), d \in ToSet(Clips(t)) :
            <<s.speaker_id, c.id>> # <<t.speaker_id, d.id>> /\ c.audio = d.audio

\* Every clip of a published corpus has the quality that enrollment and
\* verification ask for: only a changed file or the embedder stops scoring.
PreparedCorpusScores ==
    /\ scoring # "quality"
    /\ scoring = "audio" => damage > 0

\* A score or a template never comes from a recording other than the one the
\* manifest names, whatever happens to the files while a run reads them.
ScoresComeFromNamedAudio ==
    /\ \A i \in DOMAIN scored : scored[i].heard = corpus.manifest.trials[i].sample.sha256
    /\ \A id \in DOMAIN templates : \A e \in ToSet(corpus.manifest.enrollments) :
           e.identity_id = id =>
               ToSet(templates[id]) \subseteq {r.sha256 : r \in ToSet(e.samples)}

\* The scores of an accepted audio manifest are an accepted scored manifest:
\* no run fails at its end, after all the work, for a reason of protocol.
ScoredIsAccepted == scoring # "protocol"

\* Thresholds among, below and above the scores: others decide like one of them.
ThresholdsAround(scores) == (Min(scores) - 2)..(Max(scores) + 2)

BestFor(trials, evaluated) ==
    LET g == ScoresOf(trials, "genuine")
        i == ScoresOf(trials, "impostor")
    IN  /\ Cost(evaluated.minimum_dcf) <= DefaultCost(evaluated.minimum_dcf)
        /\ \A t \in ThresholdsAround(Range(g) \cup Range(i)) :
               /\ Cost(evaluated.minimum_dcf) <= Cost(RatesAtThreshold(g, i, t))
               /\ Gap(evaluated.observed_eer) <= Gap(RatesAtThreshold(g, i, t))

\* The threshold is the best one for the development scores among all there
\* are, observed or not, and normalized cost 1 bounds it; the evaluation scores
\* have no part in it. No threshold balances the errors better than the
\* reported EER.
ThresholdIsCalibrated ==
    report # None =>
        /\ BestFor(TrialsFor(report.trials, "development"), report.development)
        /\ BestFor(TrialsFor(report.trials, "evaluation"), report.evaluation)
        /\ Cost(report.development.locked) = Cost(report.development.minimum_dcf)

\* The same for the countermeasure, over the thresholds from 0 to 1.
CountermeasureIsCalibrated ==
    stage = "done" =>
        /\ CountermeasureCost(spoofReport.development.locked)
               = CountermeasureCost(spoofReport.development.minimum_cost)
        /\ \A p \in Partitions : \A t \in 0..Top :
               LET r == CountermeasureRates(Probabilities(p, "bonafide"),
                                            Probabilities(p, "spoof"), t)
               IN  /\ CountermeasureCost(spoofReport[p].minimum_cost) <= CountermeasureCost(r)
                   /\ SpoofGap(spoofReport[p].observed_eer) <= SpoofGap(r)

\* The one-pass sweep counts, at every threshold, what the public rule
\* score >= threshold counts, ties, empty ranges and equal scores included.
SweepMatchesRates ==
    \A p \in Partitions : \A i \in DOMAIN swept[p] :
        swept[p][i] = CountermeasureRates(Probabilities(p, "bonafide"),
                                          Probabilities(p, "spoof"), swept[p][i].threshold)

\* Some threshold has the counts of the point d.
Attainable(bonafide, spoof, d) ==
    \E t \in ThresholdsAround(Range(bonafide) \cup Range(spoof)) :
        /\ d.miss = HowMany(bonafide, LAMBDA s : s < t)
        /\ d.false_accept = HowMany(spoof, LAMBDA s : s >= t)

\* Spoof and bonafide logits that are equal never make the tandem cost lower
\* than a threshold could: every minimum that is reported, pooled or of one
\* attack, is the cost at some threshold.
TiesNeverFlatter ==
    stage = "done" /\ "pooled" \in DOMAIN spoofReport.tandem =>
        LET bonafide == Support(SpoofTrials("evaluation", "bonafide"))
        IN  /\ Attainable(bonafide, Support(SpoofTrials("evaluation", "spoof")),
                          spoofReport.tandem.pooled)
            /\ \A a \in AttackIds :
                   Attainable(bonafide, Support(OfAttack(a)), spoofReport.tandem.attacks[a])

SumOf(counts) == FoldFunction(+, 0, counts)

\* The parts of a report are parts of its whole.
BreakdownsAddUp ==
    /\ report # None =>
        LET whole == report.evaluation.locked
            parts == report.evaluation_conditions
            rated == {c \in DOMAIN parts : parts[c].rates # {}}
        IN  /\ SumOf([c \in DOMAIN parts |-> parts[c].genuine_trials]) = whole.genuine_trials
            /\ SumOf([c \in DOMAIN parts |-> parts[c].impostor_trials]) = whole.impostor_trials
            /\ SumOf([c \in rated |-> (CHOOSE r \in parts[c].rates : TRUE).false_accepts])
                   <= whole.false_accepts
    /\ stage = "done" =>
        LET whole == spoofReport.evaluation.locked
            parts == spoofReport.evaluation_attacks
        IN  /\ SumOf([a \in DOMAIN parts |-> parts[a].spoof_trials]) = whole.spoof_trials
            /\ SumOf([a \in DOMAIN parts |-> parts[a].spoof_accepts]) = whole.spoof_accepts
=============================================================================
