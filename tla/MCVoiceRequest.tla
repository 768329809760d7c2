---------------------------- MODULE MCVoiceRequest ----------------------------
(* An instance of VoiceRequest with the default policy: the scores and         *)
(* probabilities on both sides of each of its limits, and the extremes; upload *)
(* limits of a few chunks; windows of one and a half seconds; and recordings   *)
(* in which the padding of two frames can just touch.                          *)
EXTENDS VoiceRequest, TLC

BoundaryScores == {-100, 66, 67, 71, 72, 100}
BoundaryProbabilities == {0, 35, 36, 100}

Interchangeable == Permutations(Clients)
=============================================================================
