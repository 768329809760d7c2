------------------------- MODULE SingleUseCapability -------------------------
(***************************************************************************)
(* What the grant store promises about each capability, whatever happens   *)
(* to requests, consents and the clock: it becomes open once, from open it *)
(* is either redeemed or withdrawn, and both are final.                    *)
(***************************************************************************)
EXTENDS Naturals

CONSTANT Ids

VARIABLES status, uses

capVars == <<status, uses>>

CapTypeOK ==
    /\ status \in [Ids -> {"unknown", "open", "closed"}]
    /\ uses \in [Ids -> Nat]

CapInit ==
    /\ status = [g \in Ids |-> "unknown"]
    /\ uses = [g \in Ids |-> 0]

Open(g) ==
    /\ status[g] = "unknown"
    /\ status' = [status EXCEPT ![g] = "open"]
    /\ UNCHANGED uses

Redeem(g) ==
    /\ status[g] = "open"
    /\ status' = [status EXCEPT ![g] = "closed"]
    /\ uses' = [uses EXCEPT ![g] = @ + 1]

\* The purge withdraws any number of open capabilities at once.
Withdraw(S) ==
    /\ \A g \in S : status[g] = "open"
    /\ status' = [g \in Ids |-> IF g \in S THEN "closed" ELSE status[g]]
    /\ UNCHANGED uses

CapNext ==
    \/ \E g \in Ids : Open(g) \/ Redeem(g)
    \/ \E S \in SUBSET Ids : Withdraw(S)

CapSpec == CapInit /\ [][CapNext]_capVars
=============================================================================
