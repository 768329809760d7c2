--------------------------- MODULE LibriSpeechCorpus ---------------------------
(***************************************************************************)
(* scripts/prepare_librispeech.py: clips are selected from two source      *)
(* subsets, copied into a staging directory with a manifest and a           *)
(* provenance record, and published by renaming the staging directory.      *)
(*                                                                          *)
(* A source subset is a sequence of speakers, each with its clips, in the   *)
(* order of _stable_key: the hash decides the order, so any order is one.   *)
(* A clip is [id, audio, timely]: its recording, and whether its duration   *)
(* is within the limits. A recording is [take, quality]: quality says       *)
(* whether AudioPreprocessor reads it ("invalid"), and whether the default  *)
(* quality limits, the same for enrollment and verification, accept it.     *)
(***************************************************************************)
EXTENDS TrialManifests

CONSTANTS
    SpeakersPerPartition,  \* config.speakers_per_partition
    EnrollmentClips,       \* config.enrollment_clips_per_speaker
    ProbeClips,            \* config.probe_clips_per_speaker
    MaxRuns,               \* bound on runs of the script
    None                   \* no directory, no manifest, an unreadable file

ASSUME ConfigAssumption ==
    /\ SpeakersPerPartition \in Nat \ {0, 1}
    /\ EnrollmentClips \in 3..8
    /\ ProbeClips \in Nat \ {0}
    /\ MaxRuns \in Nat

VARIABLES
    subsets,     \* partition -> Seq([speaker_id, clips])
    preparing,   \* where the running script is, or "idle" and "refused"
    selections,  \* the selected speakers, development first
    staging,     \* the staging directory of the running script, or None
    corpus,      \* the output directory, or None
    runs         \* runs of the script so far

corpusVars == <<subsets, preparing, selections, staging, corpus, runs>>

\* A directory of the corpus: recordings by path, the manifest, the digest of
\* the manifest that the provenance records.
EmptyDirectory == [audio |-> <<>>, manifest |-> None, provenance |-> None]

CorpusInit(sources) ==
    /\ subsets \in sources
    /\ preparing = "idle" /\ selections = <<>> /\ runs = 0
    /\ staging = None /\ corpus = None

-----------------------------------------------------------------------------
(* select_librispeech_clips                                                  *)

\* A validation that only asks whether the pipeline reads the clip.
ReadableClip(clip) == clip.audio.quality # "invalid"

\* validate_clip: the pipeline reads the clip and both policies accept it.
Valid(clip) == clip.audio.quality = "good"

FirstOf(s, n) == SubSeq(s, 1, IF Len(s) < n THEN Len(s) ELSE n)

ClipsPerSpeaker == EnrollmentClips + ProbeClips

Timely(s) == Those(s.clips, LAMBDA c : c.timely)

DurationEligible(p) == Those(subsets[p], LAMBDA s : Len(Timely(s)) >= ClipsPerSpeaker)

Chosen(s) == FirstOf(Those(Timely(s), Valid), ClipsPerSpeaker)

SelectPartition(p) ==
    LET ready == Those(DurationEligible(p), LAMBDA s : Len(Chosen(s)) = ClipsPerSpeaker)
        pick(s) == [speaker_id |-> s.speaker_id, partition |-> p,
                    enrollment_clips |-> SubSeq(Chosen(s), 1, EnrollmentClips),
                    probe_clips |-> SubSeq(Chosen(s), EnrollmentClips + 1, ClipsPerSpeaker)]
        firsts == FirstOf(ready, SpeakersPerPartition)
    IN  [i \in DOMAIN firsts |-> pick(firsts[i])]

Speakers(p) == {s.speaker_id : s \in ToSet(subsets[p])}

Selectable ==
    /\ Speakers("development") \cap Speakers("evaluation") = {}
    /\ \A p \in Partitions : Len(SelectPartition(p)) = SpeakersPerPartition

-----------------------------------------------------------------------------
(* LibriSpeechCorpusPreparer.prepare                                         *)

\* A run starts, scans and selects; it refuses an output that exists.
Select ==
    /\ preparing = "idle" /\ runs < MaxRuns
    /\ runs' = runs + 1
    /\ IF corpus = None /\ Selectable
       THEN /\ selections' = SelectPartition("development") \o SelectPartition("evaluation")
            /\ staging' = EmptyDirectory
            /\ preparing' = "materialize"
       ELSE preparing' = "refused" /\ UNCHANGED <<selections, staging>>
    /\ UNCHANGED <<subsets, corpus>>

Clips(s) == s.enrollment_clips \o s.probe_clips

IdentityId(s) == <<s.partition, s.speaker_id>>

PathOf(s, clip) == <<s.partition, s.speaker_id, clip.id>>

Reference(s, clip) == [path |-> PathOf(s, clip), sha256 |-> clip.audio]

Enrollment(s) ==
    [identity_id |-> IdentityId(s), speaker_id |-> IdentityId(s), partition |-> s.partition,
     samples |-> [i \in DOMAIN s.enrollment_clips |-> Reference(s, s.enrollment_clips[i])]]

\* Any exception after the staging directory is made removes it.
Abandon == staging' = None /\ preparing' = "refused"

WriteFails ==
    /\ preparing \in {"materialize", "manifest", "provenance", "rename"}
    /\ Abandon
    /\ UNCHANGED <<subsets, selections, corpus, runs>>

\* The clips of the next selected speaker are written and its enrollment built.
Written == {s \in ToSet(selections) : \A c \in ToSet(Clips(s)) :
                PathOf(s, c) \in DOMAIN staging.audio}

WriteSpeaker ==
    /\ preparing = "materialize"
    /\ LET next == selections[Cardinality(Written) + 1]
           files == [path \in {PathOf(next, c) : c \in ToSet(Clips(next))} |->
                        (CHOOSE c \in ToSet(Clips(next)) : PathOf(next, c) = path).audio]
       IN  IF EnrollmentOK(Enrollment(next))
           THEN /\ staging' = [staging EXCEPT !.audio =
                       [path \in DOMAIN @ \cup DOMAIN files |->
                            IF path \in DOMAIN files THEN files[path] ELSE @[path]]]
                /\ preparing' = IF Cardinality(Written) + 1 = Len(selections)
                                THEN "manifest" ELSE "materialize"
           ELSE Abandon
    /\ UNCHANGED <<subsets, selections, corpus, runs>>

\* A pairing that skips a speaker: with two, a speaker meets itself.
SpeakerAfterNext(speakers, i) == speakers[((i + 1) % Len(speakers)) + 1]

NextSpeaker(speakers, i) == speakers[(i % Len(speakers)) + 1]

\* The two trials of a probe: its own identity, and the next speaker's.
ProbeTrials(p) ==
    LET speakers == Those(selections, LAMBDA s : s.partition = p)
        trial(i, k, label) ==
            LET s == speakers[i]
                claimed == IF label = "genuine" THEN s ELSE NextSpeaker(speakers, i)
            IN  [trial_id |-> <<p, label, s.speaker_id, k>>, partition |-> p, label |-> label,
                 claimed_identity_id |-> IdentityId(claimed), probe_speaker_id |-> IdentityId(s),
                 sample |-> Reference(s, s.probe_clips[k]), condition |-> p]
        \* trial number n of the partition, two for each probe in order
        nth(n) == trial(((n - 1) \div (2 * ProbeClips)) + 1,
                        (((n - 1) \div 2) % ProbeClips) + 1,
                        IF n % 2 = 1 THEN "genuine" ELSE "impostor")
    IN  [n \in 1..(2 * ProbeClips * Len(speakers)) |-> nth(n)]

Materialized ==
    [enrollments |-> [i \in DOMAIN selections |-> Enrollment(selections[i])],
     trials |-> ProbeTrials("development") \o ProbeTrials("evaluation")]

PutManifest == staging' = [staging EXCEPT !.manifest = Materialized]

\* The manifest is validated when it is materialized, then written.
WriteManifest ==
    /\ preparing = "manifest"
    /\ IF AudioManifestOK(Materialized)
       THEN PutManifest /\ preparing' = "provenance"
       ELSE Abandon
    /\ UNCHANGED <<subsets, selections, corpus, runs>>

WriteProvenance ==
    /\ preparing = "provenance"
    /\ staging' = [staging EXCEPT !.provenance = staging.manifest]
    /\ preparing' = "rename"
    /\ UNCHANGED <<subsets, selections, corpus, runs>>

\* A publication that keeps the name of the directory it renamed.
PublishKeepingStaging ==
    /\ preparing = "rename"
    /\ corpus' = staging /\ preparing' = "idle" /\ selections' = <<>>
    /\ UNCHANGED <<subsets, staging, runs>>

\* A publication that does not wait for the provenance.
PublishTooSoon ==
    /\ preparing \in {"provenance", "rename"}
    /\ corpus' = staging /\ staging' = None /\ preparing' = "idle" /\ selections' = <<>>
    /\ UNCHANGED <<subsets, runs>>

Publish ==
    /\ preparing = "rename"
    /\ corpus' = staging /\ staging' = None /\ preparing' = "idle" /\ selections' = <<>>
    /\ UNCHANGED <<subsets, runs>>

\* The process is killed: its staging directory stays under a name of its own
\* and no later run looks at it. A refused run has ended too.
EndOfRun ==
    /\ preparing # "idle"
    /\ preparing' = "idle" /\ staging' = None /\ selections' = <<>>
    /\ UNCHANGED <<subsets, corpus, runs>>

PrepareNext ==
    \/ Select \/ WriteSpeaker \/ WriteManifest \/ WriteProvenance \/ Publish
    \/ WriteFails \/ EndOfRun
=============================================================================
