----------------------------- MODULE TrialScoring -----------------------------
(***************************************************************************)
(* scripts/score_audio_trials.py and scripts/evaluate_scores.py: the audio  *)
(* manifest of a corpus is enrolled and scored, one recording at a time,    *)
(* with the real services over an in-memory repository; the scores are      *)
(* written when all are there, and calibrated into a report.                *)
(*                                                                          *)
(* Files of the corpus may change while a run reads them; the embedder may  *)
(* fail; a run may be killed, also while it writes.                         *)
(***************************************************************************)
EXTENDS LibriSpeechCorpus, DetectionMetrics

CONSTANTS
    Scores,     \* scores the embedder can give a pair of voices
    MaxDamage,  \* bound on changes to the files of the corpus
    MaxShort,   \* bound on templates built without one of their samples
    Torn        \* a file that was not written to its end

VARIABLES
    scoring,     \* where the running script is, "idle", or why it failed
    templates,   \* identity -> the recordings its template was built from
    scored,      \* the scored trials so far
    scoredFile,  \* the scored manifest on disk: its trials, Torn or None
    report,      \* the evaluation report, or None
    damage       \* changes to the corpus files so far

scoringVars == <<scoring, templates, scored, scoredFile, report, damage>>

Failures == {"audio", "quality", "model", "protocol"}

ScoringInit(files) ==
    /\ scoring = "idle" /\ templates = <<>> /\ scored = <<>>
    /\ scoredFile \in files /\ report = None /\ damage = 0

-----------------------------------------------------------------------------

\* Somebody replaces or removes a recording of the published corpus.
Damage(path) ==
    /\ damage < MaxDamage /\ scoring \in {"enroll", "score"}
    /\ damage' = damage + 1
    /\ \E content \in {None, [take |-> <<"other", 0, 0>>, quality |-> "good"]} :
           corpus' = [corpus EXCEPT !.audio[path] = content]
    /\ UNCHANGED <<subsets, preparing, selections, staging, runs>>
    /\ UNCHANGED <<scoring, templates, scored, scoredFile, report>>

\* A reader that does not compare the digest.
Present(reference) == corpus.audio[reference.path] # None

\* HashedAudioFileReader.read: the payload whose digest the manifest names.
Readable(reference) == corpus.audio[reference.path] = reference.sha256

\* load_audio_trial_manifest
StartScoring ==
    /\ scoring = "idle" /\ corpus # None /\ runs < MaxRuns
    /\ scoring' = IF AudioManifestOK(corpus.manifest) THEN "enroll" ELSE "protocol"
    /\ templates' = <<>> /\ scored' = <<>>
    /\ runs' = runs + 1
    /\ UNCHANGED <<subsets, preparing, selections, staging, corpus>>
    /\ UNCHANGED <<scoredFile, report, damage>>

Fail(reason) == scoring' = reason /\ UNCHANGED <<templates, scored>>

\* The recordings that the files of a list of samples hold.
Heard(samples) == [i \in DOMAIN samples |-> corpus.audio[samples[i].path]]

Short(built) == {id \in DOMAIN built : Len(built[id]) < EnrollmentClips}

\* The embedder may fail on any sample, and a sample unlike the others is an
\* outlier: a template is built from those that remain, three or more.
Retained(good) == {kept \in SUBSET DOMAIN good : Cardinality(kept) >= 3}

\* EnrollmentService.enroll wants three samples of sufficient quality, and three
\* that agree.
EnrollNext ==
    /\ scoring = "enroll"
    /\ LET e == corpus.manifest.enrollments[Cardinality(DOMAIN templates) + 1]
           good == Those(e.samples, LAMBDA r : corpus.audio[r.path].quality = "good")
       IN  IF \E r \in ToSet(e.samples) : ~Readable(r) THEN Fail("audio")
           ELSE IF Len(good) < 3 THEN Fail("quality")
           ELSE \/ Fail("model")
                \/ /\ \E kept \in Retained(good) :
                          templates' =
                              [id \in DOMAIN templates \cup {e.identity_id} |->
                                  IF id = e.identity_id THEN Heard(Taken(good, kept))
                                  ELSE templates[id]]
                   /\ Cardinality(Short(templates')) <= MaxShort
                   /\ scoring' = IF Cardinality(DOMAIN templates) + 1
                                     = Len(corpus.manifest.enrollments)
                                 THEN "score" ELSE "enroll"
                   /\ UNCHANGED scored
    /\ UNCHANGED <<corpusVars, scoredFile, report, damage>>

\* VerificationService.verify without a spoof detector: no score unless the
\* recording is readable and good, and no score from a failing embedder.
ScoreNext ==
    /\ scoring = "score" /\ Len(scored) < Len(corpus.manifest.trials)
    /\ LET t == corpus.manifest.trials[Len(scored) + 1]
       IN  IF ~Readable(t.sample) THEN Fail("audio")
           ELSE IF corpus.audio[t.sample.path].quality # "good" THEN Fail("quality")
           ELSE \/ Fail("model")
                \/ /\ \E s \in Scores :
                          scored' = Append(scored, ScoredTrial(corpus.manifest, t, s,
                                                               corpus.audio[t.sample.path]))
                   /\ UNCHANGED <<scoring, templates>>
    /\ UNCHANGED <<corpusVars, scoredFile, report, damage>>

\* The file is written in place: a kill on the way leaves it torn.
PutScored ==
    \/ scoredFile' = scored /\ scoring' = "idle"
    \/ scoredFile' = Torn /\ scoring' = "killed"

\* ScoredTrialManifest is built from all the scores, then written.
WriteScored ==
    /\ scoring = "score" /\ Len(scored) = Len(corpus.manifest.trials)
    /\ IF ScoredManifestOK(scored)
       THEN PutScored /\ templates' = <<>> /\ scored' = <<>>
       ELSE Fail("protocol") /\ UNCHANGED scoredFile
    /\ UNCHANGED <<corpusVars, report, damage>>

\* The script has failed, or is killed: what it held in memory is gone.
StopScoring ==
    /\ scoring # "idle"
    /\ scoring' = "idle" /\ templates' = <<>> /\ scored' = <<>>
    /\ UNCHANGED <<corpusVars, scoredFile, report, damage>>

\* load_scored_trial_manifest refuses a torn or an unacceptable file.
EvaluateScores ==
    /\ scoring = "idle" /\ scoredFile \notin {None, Torn} /\ ScoredManifestOK(scoredFile)
    /\ report' = EvaluateScoredTrials(scoredFile)
    /\ UNCHANGED <<corpusVars, scoring, templates, scored, scoredFile, damage>>

TrialScoringNext ==
    \/ StartScoring \/ EnrollNext \/ ScoreNext \/ WriteScored \/ StopScoring
    \/ EvaluateScores
    \/ \E path \in IF corpus = None THEN {} ELSE DOMAIN corpus.audio : Damage(path)
=============================================================================
