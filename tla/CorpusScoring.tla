---------------------------- MODULE CorpusScoring ----------------------------
(***************************************************************************)
(* score_asvspoof2019_la: runs of the script that share one ledger, each   *)
(* with an output directory of its own. A run may stop anywhere and be     *)
(* started again with another batch size or even another experiment.       *)
(***************************************************************************)
EXTENDS ScoreLedger

CONSTANTS
    Runs,           \* processes of the script
    MaxBatch        \* bound: the largest --batch-size

ASSUME ScoringAssumption == MaxBatch \in Nat \ {0} /\ None \notin Runs

VARIABLES
    run,            \* the local state of each process
    files           \* per output directory: what each file was computed from

scoringVars == <<metadata, rows, run, files>>

\* The publisher that writes its provenance before what it vouches for.
OutputsProvenanceFirst ==
    <<"provenance", "source-inventory", "spoof-scores", "countermeasure-report",
      "official-cm-scores", "tandem-report">>

\* write_asvspoof2019_outputs replaces the files in this order.
Outputs == <<"source-inventory", "spoof-scores", "countermeasure-report",
             "official-cm-scores", "tandem-report", "provenance">>
OutputNames == {Outputs[n] : n \in 1..6}

Stopped == [step |-> "stopped", exp |-> None, batch |-> 0, offset |-> 0,
            file |-> 0, records |-> {}]

ScoringInit ==
    /\ metadata = None
    /\ rows = {}
    /\ run = [r \in Runs |-> Stopped]
    /\ files = [r \in Runs |-> [f \in OutputNames |-> {}]]

On(r, step) == run[r].step = step
Continue(r, step) == run' = [run EXCEPT ![r].step = step]
Exit(r) == run' = [run EXCEPT ![r] = Stopped]

\* main parses its arguments and loads the protocol.
Launch(r, e, b) ==
    /\ On(r, "stopped")
    /\ run' = [run EXCEPT ![r] = [Stopped EXCEPT !.step = "open", !.exp = e, !.batch = b]]
    /\ UNCHANGED <<metadata, rows, files>>

\* A ledger that takes over whatever experiment it finds.
OpenLedgerUnchecked(r) ==
    /\ On(r, "open")
    /\ Continue(r, IF metadata = None THEN "bind" ELSE "resume")
    /\ UNCHANGED <<metadata, rows, files>>

\* The constructor reads the metadata and compares.
OpenLedger(r) ==
    /\ On(r, "open")
    /\ \/ /\ metadata = None
          /\ Continue(r, "bind")
       \/ /\ metadata = run[r].exp
          /\ Continue(r, "resume")
       \/ /\ metadata \notin {None, run[r].exp}
          /\ Exit(r)
    /\ UNCHANGED <<metadata, rows, files>>

\* A constructor that replaces the metadata of another run.
BindOverwriting(r) ==
    /\ On(r, "bind")
    /\ metadata' = run[r].exp
    /\ Continue(r, "resume")
    /\ UNCHANGED <<rows, files>>

\* The constructor inserts the metadata; a second row violates its key.
BindLedger(r) ==
    /\ On(r, "bind")
    /\ IF metadata = None
       THEN metadata' = run[r].exp /\ Continue(r, "resume")
       ELSE Exit(r) /\ UNCHANGED metadata
    /\ UNCHANGED <<rows, files>>

\* The step after the trials before n have been scored.
AfterScoring(r, n) == IF n < Size(run[r].exp) THEN "append" ELSE "records"

Resume(r) ==
    /\ On(r, "resume")
    /\ IF IsPrefix(run[r].exp)
       THEN run' = [run EXCEPT ![r].offset = CountRows,
                               ![r].step = AfterScoring(r, CountRows)]
       ELSE Exit(r)
    /\ UNCHANGED <<metadata, rows, files>>

BatchEnd(r) ==
    LET last == run[r].offset + run[r].batch
    IN  IF last < Size(run[r].exp) THEN last ELSE Size(run[r].exp)

Batch(r) == Records(run[r].exp, run[r].offset, BatchEnd(r))

\* The batch is read and scored, then append counts the rows.
CountBeforeAppend(r) ==
    /\ On(r, "append")
    /\ IF run[r].offset = CountRows THEN Continue(r, "insert") ELSE Exit(r)
    /\ UNCHANGED <<metadata, rows, files>>

\* The transaction of append; another run may have appended since the count.
InsertBatch(r) ==
    /\ On(r, "insert")
    /\ IF Conflicts(Batch(r))
       THEN Exit(r) /\ UNCHANGED rows
       ELSE /\ rows' = rows \cup Batch(r)
            /\ run' = [run EXCEPT ![r].offset = BatchEnd(r),
                                  ![r].step = AfterScoring(r, BatchEnd(r))]
    /\ UNCHANGED <<metadata, files>>

\* ledger.records(), and the tests of the publisher on them.
ReadRecords(r) ==
    /\ On(r, "records")
    /\ IF CountRows = Size(run[r].exp) /\ IsPrefix(run[r].exp)
       THEN run' = [run EXCEPT ![r].step = "publish", ![r].file = 1, ![r].records = rows]
       ELSE Exit(r)
    /\ UNCHANGED <<metadata, rows, files>>

\* A publisher that counts one file too many.
WriteFileTooFar(r) ==
    /\ On(r, "publish")
    /\ files' = [files EXCEPT ![r][Outputs[run[r].file]] = run[r].records]
    /\ IF run[r].file <= Len(Outputs)
       THEN run' = [run EXCEPT ![r].file = @ + 1]
       ELSE Exit(r)
    /\ UNCHANGED <<metadata, rows>>

\* _write_atomic: the temporary file replaces the next output.
WriteFile(r) ==
    /\ On(r, "publish")
    /\ files' = [files EXCEPT ![r][Outputs[run[r].file]] = run[r].records]
    /\ IF run[r].file < Len(Outputs)
       THEN run' = [run EXCEPT ![r].file = @ + 1]
       ELSE Exit(r)
    /\ UNCHANGED <<metadata, rows>>

\* The process is killed, or a model, a file or the database raises.
Interrupt(r) ==
    /\ ~On(r, "stopped")
    /\ Exit(r)
    /\ UNCHANGED <<metadata, rows, files>>

ScoringStep(r) ==
    \/ \E e \in Experiments, b \in 1..MaxBatch : Launch(r, e, b)
    \/ OpenLedger(r)
    \/ BindLedger(r)
    \/ Resume(r)
    \/ CountBeforeAppend(r)
    \/ InsertBatch(r)
    \/ ReadRecords(r)
    \/ WriteFile(r)
    \/ Interrupt(r)

ScoringNext == \E r \in Runs : ScoringStep(r)

ScoringSpec == ScoringInit /\ [][ScoringNext]_scoringVars

-----------------------------------------------------------------------------

RunSteps == {"stopped", "open", "bind", "resume", "append", "insert", "records",
             "publish"}

ScoringTypeOK ==
    /\ metadata \in Experiments \cup {None}
    /\ rows \in SUBSET ScoreRow
    /\ run \in [Runs -> [step: RunSteps, exp: Experiments \cup {None},
                         batch: 0..MaxBatch, offset: Nat, file: 0..6,
                         records: SUBSET ScoreRow]]
    /\ \A r \in Runs : ~On(r, "stopped") => run[r].exp # None /\ run[r].batch > 0
    /\ \A r \in Runs : On(r, "publish") => run[r].file > 0
    /\ files \in [Runs -> [OutputNames -> SUBSET ScoreRow]]

\* However runs stop, resume or append at the same time, the ledger holds the
\* first trials of the experiment it is bound to, each scored once by its model.
LedgerIsPrefix ==
    IF metadata = None
    THEN rows = {}
    ELSE CountRows <= Size(metadata) /\ rows = Records(metadata, 0, CountRows)

Whole(e) == Records(e, 0, Size(e))

\* A provenance file vouches for every artifact beside it: all are there and
\* were computed from the whole protocol, wherever a publisher was stopped.
ProvenanceVouches ==
    \A r \in Runs :
        files[r]["provenance"] # {} =>
            \A f \in OutputNames : files[r][f] = Whole(metadata)

\* Evidence counts as published when there is a provenance file.
Published == IF \E r \in Runs : files[r]["provenance"] # {} THEN {metadata} ELSE {}

Progress == INSTANCE ScoringProgress WITH
    Subjects <- Experiments, Total <- Size, Nothing <- None,
    bound <- metadata, done <- CountRows, published <- Published

\* Runs that share a ledger implement one resumable scoring of one experiment.
ResumableScoring == Progress!ProgressSpec
=============================================================================
