----------------------------- MODULE ScoreLedger -----------------------------
(***************************************************************************)
(* SqliteSpoofScoreLedger: one metadata row that binds the database to an  *)
(* experiment, and a table of scored trials keyed by their position in the *)
(* protocol. Each transaction of the class is an operator on the tables.   *)
(* A row keeps the trial, its position and the model behind its scores.    *)
(***************************************************************************)
EXTENDS Integers, Sequences, FiniteSets

CONSTANTS
    Trials,         \* trial ids
    Models,         \* countermeasure model ids
    Experiments,    \* identities: the model, and the trials in protocol order
    None            \* no metadata row

IsProtocol(seq) ==
    /\ seq \in Seq(Trials)
    /\ Len(seq) > 0
    /\ \A m, n \in 1..Len(seq) : seq[m] = seq[n] => m = n

ASSUME LedgerAssumption ==
    /\ \A e \in Experiments :
          /\ e = [model |-> e.model, trials |-> e.trials]
          /\ e.model \in Models
          /\ IsProtocol(e.trials)
    /\ None \notin Experiments

VARIABLES
    metadata,       \* the payload of ledger_metadata, or None
    rows            \* scored_trials

ScoreRow == [sequence: Nat, trial: Trials, model: Models]

Size(e) == Len(e.trials)

\* The record score_asvspoof2019_trials makes of the trial at a position.
Record(e, n) == [sequence |-> n, trial |-> e.trials[n + 1], model |-> e.model]

\* The records of the trials at the positions from .. to - 1.
Records(e, from, to) == {Record(e, n) : n \in from..(to - 1)}

CountRows == Cardinality(rows)

\* resume_sequence: the table, in order, names the first trials of the protocol.
IsPrefix(e) ==
    /\ CountRows <= Size(e)
    /\ {row.sequence : row \in rows} = 0..(CountRows - 1)
    /\ \A row \in rows : row.trial = e.trials[row.sequence + 1]

\* The batch violates the primary key or the uniqueness of trial_id.
Conflicts(batch) ==
    \E row \in rows, new \in batch :
        row.sequence = new.sequence \/ row.trial = new.trial
=============================================================================
