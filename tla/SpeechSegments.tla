---------------------------- MODULE SpeechSegments ----------------------------
(***************************************************************************)
(* The voice-activity detector of the preprocessing pipeline, and the      *)
(* quality report made from the segments it finds. Positions and lengths   *)
(* count samples; of the signal only what the detector compares is kept,   *)
(* whether a frame is as loud as the threshold. Each frame has samples     *)
(* that its predecessor lacks, so any sequence of loud and quiet frames is *)
(* one that some signal produces.                                          *)
(***************************************************************************)
EXTENDS Integers, Sequences, SequencesExt

CONSTANTS
    FrameSize,   \* frame_ms, in samples
    HopSize,     \* hop_ms, in samples
    Padding,     \* padding_ms, in samples
    Minimum,     \* min_speech_ms, in samples
    MinSpeech,   \* min_speech_seconds, in samples
    MinRatio,    \* min_speech_ratio, in hundredths
    MaxSamples   \* bound: the samples of a recording

ASSUME SpeechAssumption ==
    /\ {FrameSize, HopSize, Minimum, MaxSamples} \subseteq Nat \ {0}
    /\ {Padding, MinSpeech, MinRatio} \subseteq Nat

VARIABLES
    samples,   \* the length of the normalized audio, 0 before there is one
    position,  \* the start of the next frame
    active,    \* the frames that were loud
    segments   \* the result of detect, once every frame was seen

speechVars == <<samples, position, active, segments>>

NoAudio ==
    /\ samples = 0
    /\ position = 0
    /\ active = <<>>
    /\ segments = <<>>

Smaller(a, b) == IF a <= b THEN a ELSE b
Larger(a, b) == IF a >= b THEN a ELSE b

\* decode, _resample_linear and _remove_dc_and_peak_normalize: any number of
\* samples, at least one.
Decode ==
    /\ samples = 0
    /\ samples' \in 1..MaxSamples
    /\ UNCHANGED <<position, active, segments>>

\* One frame of the loop in detect.
Listen ==
    \E loud \in BOOLEAN :
        /\ position < samples
        /\ position' = position + HopSize
        /\ active' = IF loud
                     THEN Append(active, [start |-> position,
                                          end |-> Smaller(position + FrameSize, samples)])
                     ELSE active
        /\ UNCHANGED <<samples, segments>>

\* A frame with padding on both sides, within the audio.
Padded(frame) ==
    [start |-> Larger(0, frame.start - Padding),
     end |-> Smaller(samples, frame.end + Padding)]

\* A frame that only touches the last segment begins a new one.
MergeOverlapping(merged, frame) ==
    LET next == Padded(frame)
    IN  IF merged # <<>> /\ next.start < Last(merged).end
        THEN [merged EXCEPT ![Len(merged)].end = Larger(@, next.end)]
        ELSE Append(merged, next)

MergeFrame(merged, frame) ==
    LET next == Padded(frame)
    IN  IF merged # <<>> /\ next.start <= Last(merged).end
        THEN [merged EXCEPT ![Len(merged)].end = Larger(@, next.end)]
        ELSE Append(merged, next)

Heard == samples > 0 /\ position >= samples

KeepLong(kept, s) == IF s.end - s.start >= Minimum THEN Append(kept, s) ELSE kept

\* The frames merged, and the short results dropped.
Detect ==
    /\ Heard
    /\ active # <<>>
    /\ segments' = FoldLeft(KeepLong, <<>>, FoldLeft(MergeFrame, <<>>, active))
    /\ active' = <<>>
    /\ UNCHANGED <<samples, position>>

-----------------------------------------------------------------------------
(* _quality_report and evaluate_quality                                     *)

Detected == Heard /\ active = <<>>

AddDuration(sum, s) == sum + (s.end - s.start)

SpeechSamples == Smaller(FoldLeft(AddDuration, 0, segments), samples)

\* The estimated signal-to-noise ratio: lowest without speech, highest where
\* nothing but speech is left, and anything in between.
NoiseLevels ==
    IF segments = <<>> THEN {"low_snr"}
    ELSE IF SpeechSamples = samples THEN {"high_snr"} ELSE {"low_snr", "high_snr"}

QualityReasons(noise, clipped) ==
    {reason \in {"insufficient_speech", "low_speech_ratio",
                 "excessive_clipping", "low_snr"} :
        \/ reason = "insufficient_speech" /\ SpeechSamples < MinSpeech
        \/ reason = "low_speech_ratio" /\ SpeechSamples * 100 < MinRatio * samples
        \/ reason = "excessive_clipping" /\ clipped
        \/ reason = "low_snr" /\ noise = "low_snr"}

Forget ==
    /\ samples' = 0
    /\ position' = 0
    /\ active' = <<>>
    /\ segments' = <<>>

-----------------------------------------------------------------------------

\* The samples within reach of a loud frame.
Speech ==
    {i \in 0..(samples - 1) :
        \E k \in DOMAIN active : LET frame == Padded(active[k])
                                 IN  frame.start <= i /\ i < frame.end}

\* The longest stretches of samples that all belong to a set.
Stretches(S) ==
    {r \in [start: 0..samples, end: 0..samples] :
        /\ r.start < r.end
        /\ r.start..(r.end - 1) \subseteq S
        /\ r.start - 1 \notin S
        /\ r.end \notin S}

\* The detector's segments are in order, apart from each other and within the
\* audio, so that no PreprocessedAudio and no QualityReport refuses them; and they
\* are what they should be, the stretches of speech that are long enough, whatever
\* the order in which frames were merged and wherever the recording ends.
SegmentsAreSound ==
    [][Detect =>
        /\ ToSet(segments') = {r \in Stretches(Speech) : r.end - r.start >= Minimum}
        /\ \A i \in 1..(Len(segments') - 1) : segments'[i].end < segments'[i + 1].start
        /\ SpeechSamples' = FoldLeft(AddDuration, 0, segments')]_speechVars
=============================================================================
