--------------------------- MODULE ScoringProgress ---------------------------
(***************************************************************************)
(* What a resumable scoring run promises (docs/decisions/0013): progress   *)
(* is bound to one experiment, only grows, by contiguous batches, and      *)
(* evidence is published for the whole protocol or not at all.             *)
(***************************************************************************)
EXTENDS Integers

CONSTANTS
    Subjects,       \* the experiments
    Total(_),       \* how many trials one has
    Nothing

VARIABLES
    bound,          \* the experiment, or Nothing
    done,           \* trials scored
    published       \* the experiments with published evidence

progressVars == <<bound, done, published>>

Begin == bound = Nothing /\ done = 0 /\ published = {}

Bind ==
    /\ bound = Nothing
    /\ bound' \in Subjects
    /\ UNCHANGED <<done, published>>

Advance ==
    /\ bound # Nothing
    /\ done' \in (done + 1)..Total(bound)
    /\ UNCHANGED <<bound, published>>

Publish ==
    /\ bound # Nothing
    /\ done = Total(bound)
    /\ published' = {bound}
    /\ UNCHANGED <<bound, done>>

ProgressSpec == Begin /\ [][Bind \/ Advance \/ Publish]_progressVars
=============================================================================
