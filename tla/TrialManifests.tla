---------------------------- MODULE TrialManifests ----------------------------
(***************************************************************************)
(* The speaker-verification protocol of domain/evaluation.py: what an audio *)
(* manifest and a scored manifest must satisfy, and the scored trial that   *)
(* stands for an audio trial. A reference is [path, sha256]; the digest of  *)
(* a recording stands for its content. Identifiers are model values or      *)
(* tuples; the checks of their spelling are left out.                       *)
(***************************************************************************)
EXTENDS Integers, Sequences, FiniteSets, SequencesExt

Partitions == {"development", "evaluation"}

Labels == {"genuine", "impostor"}

\* A trial is genuine exactly when the enrolled speaker is the probe speaker.
ExpectedLabel(enrolled, probe) == IF enrolled = probe THEN "genuine" ELSE "impostor"

\* The members of s at the places in I, in order, and those that pass a test.
Taken(s, I) ==
    [n \in 1..Cardinality(I) |-> s[CHOOSE i \in I : Cardinality({j \in I : j <= i}) = n]]

Those(s, Test(_)) == Taken(s, {i \in DOMAIN s : Test(s[i])})

Unique(s, field(_)) == \A i, j \in DOMAIN s : field(s[i]) = field(s[j]) => i = j

EnrollmentOK(e) ==
    /\ Len(e.samples) \in 3..8
    /\ Unique(e.samples, LAMBDA r : r.sha256)

-----------------------------------------------------------------------------
(* AudioTrialManifest                                                       *)

TrialRefersTo(t, e) ==
    /\ e.identity_id = t.claimed_identity_id
    /\ e.partition = t.partition
    /\ t.label = ExpectedLabel(e.speaker_id, t.probe_speaker_id)

SpeakersIn(m, p) ==
    {e.speaker_id : e \in {x \in ToSet(m.enrollments) : x.partition = p}}
    \cup {t.probe_speaker_id : t \in {x \in ToSet(m.trials) : x.partition = p}}

LabelsIn(trials, p) == {t.label : t \in {x \in ToSet(trials) : x.partition = p}}

\* The recordings of the enrollments, and of the probes, with their speakers.
Enrolled(m) ==
    UNION {{<<r.sha256, e.partition, e.speaker_id>> : r \in ToSet(e.samples)} :
           e \in ToSet(m.enrollments)}

Probed(m) == {<<t.sample.sha256, t.partition, t.probe_speaker_id>> : t \in ToSet(m.trials)}

\* _reject_conflicting_audio_owners
OneOwner(owned) == \A a, b \in owned : a[1] = b[1] => a[3] = b[3]

AudioManifestOK(m) ==
    /\ m.enrollments # <<>> /\ m.trials # <<>>
    /\ Unique(m.enrollments, LAMBDA e : e.identity_id)
    /\ Unique(m.trials, LAMBDA t : t.trial_id)
    /\ \A t \in ToSet(m.trials) : \E e \in ToSet(m.enrollments) : TrialRefersTo(t, e)
    /\ \A p \in Partitions : LabelsIn(m.trials, p) = Labels
    /\ SpeakersIn(m, "development") \cap SpeakersIn(m, "evaluation") = {}
    /\ \A a, b \in Enrolled(m) \cup Probed(m) : a[1] = b[1] => a[2] = b[2]
    /\ \A a \in Enrolled(m), b \in Probed(m) : a[1] # b[1]
    /\ OneOwner(Enrolled(m)) /\ OneOwner(Probed(m))

-----------------------------------------------------------------------------
(* ScoredTrial and ScoredTrialManifest                                      *)

ScoredTrialOK(t) == t.label = ExpectedLabel(t.enrollment_speaker_id, t.probe_speaker_id)

ScoredSpeakersIn(trials, p) ==
    UNION {{t.enrollment_speaker_id, t.probe_speaker_id} :
           t \in {x \in ToSet(trials) : x.partition = p}}

ScoredManifestOK(trials) ==
    /\ trials # <<>>
    /\ \A t \in ToSet(trials) : ScoredTrialOK(t)
    /\ Unique(trials, LAMBDA t : t.trial_id)
    /\ \A p \in Partitions : LabelsIn(trials, p) = Labels
    /\ ScoredSpeakersIn(trials, "development")
           \cap ScoredSpeakersIn(trials, "evaluation") = {}

\* A lookup that does not look.
SpeakerOfFirst(m, id) == m.enrollments[1].speaker_id

\* AudioTrialScorer._speaker_for_identity; a manifest enrolls an identity once.
SpeakerForIdentity(m, id) ==
    (CHOOSE e \in ToSet(m.enrollments) : e.identity_id = id).speaker_id

\* The scored trial built for an audio trial. History: the recording it was
\* computed from.
ScoredTrial(m, t, score, heard) ==
    [trial_id |-> t.trial_id, partition |-> t.partition, label |-> t.label,
     enrollment_speaker_id |-> SpeakerForIdentity(m, t.claimed_identity_id),
     probe_speaker_id |-> t.probe_speaker_id, score |-> score, condition |-> t.condition,
     heard |-> heard]
=============================================================================
