----------------------------- MODULE MCVoiceIdApi -----------------------------
(* Instances of VoiceIdApi for TLC. *)
EXTENDS VoiceIdApi, TLC

Interchangeable ==
    Permutations(Workers) \cup Permutations(GrantIds) \cup Permutations(Nonces)
=============================================================================
