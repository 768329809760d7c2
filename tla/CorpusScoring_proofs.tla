------------------------- MODULE CorpusScoring_proofs -------------------------
(***************************************************************************)
(* The ledger is a prefix of one experiment, provenance vouches for what   *)
(* lies beside it, and runs implement one resumable scoring, for any       *)
(* number of runs, any experiments and any batch sizes.                    *)
(***************************************************************************)
EXTENDS CorpusScoring, FiniteSetTheorems, FunctionTheorems, TLAPS

BoundSteps == {"resume", "append", "insert", "records", "publish"}

\* A run past the constructor scores the experiment of the ledger.
RunsFollowLedger == \A r \in Runs : run[r].step \in BoundSteps => run[r].exp = metadata

\* A run never expects to append before the end of the table.
OffsetsInLedger ==
    \A r \in Runs : run[r].step \in {"append", "insert"} =>
        run[r].offset <= CountRows /\ run[r].offset < Size(run[r].exp)

\* A publisher has the whole protocol in memory, and the ledger has it too.
PublishersAreWhole ==
    \A r \in Runs : On(r, "publish") =>
        run[r].records = Whole(metadata) /\ CountRows = Size(metadata)

\* The provenance is the last file: it is there only if a publication of the
\* same records went through before the present one.
FilesInOrder ==
    \A r \in Runs :
        /\ files[r]["provenance"] # {} =>
              /\ metadata # None /\ CountRows = Size(metadata)
              /\ \A f \in OutputNames : files[r][f] = Whole(metadata)
        /\ On(r, "publish") =>
              \A n \in 1..6 : n < run[r].file => files[r][Outputs[n]] = Whole(metadata)

ScoringInv ==
    /\ ScoringTypeOK /\ IsFiniteSet(rows) /\ LedgerIsPrefix /\ RunsFollowLedger /\ OffsetsInLedger
    /\ PublishersAreWhole /\ FilesInOrder

-----------------------------------------------------------------------------
(* Lemmas about records.                                                    *)

LEMMA ExperimentFacts ==
    ASSUME NEW e \in Experiments
    PROVE  /\ e # None
           /\ Size(e) \in Nat \ {0}
           /\ \A n \in 0..(Size(e) - 1) : Record(e, n) \in ScoreRow
           /\ \A m, n \in 0..(Size(e) - 1) : m # n => Record(e, m).trial # Record(e, n).trial
<1>1. /\ e # None /\ e.model \in Models
      /\ e.trials \in Seq(Trials) /\ Len(e.trials) > 0
      /\ \A m, n \in 1..Len(e.trials) : e.trials[m] = e.trials[n] => m = n
    BY LedgerAssumption DEF IsProtocol
<1>2. Size(e) \in Nat \ {0}
    BY <1>1 DEF Size
<1>3. ASSUME NEW n \in 0..(Size(e) - 1)
      PROVE  n + 1 \in 1..Len(e.trials) /\ e.trials[n + 1] \in Trials
    BY <1>1, <1>2, <1>3 DEF Size
<1>4. \A n \in 0..(Size(e) - 1) : Record(e, n) \in ScoreRow
    BY <1>1, <1>2, <1>3 DEF Record, ScoreRow
<1>5. \A m, n \in 0..(Size(e) - 1) : m # n => Record(e, m).trial # Record(e, n).trial
    BY <1>1, <1>2, <1>3 DEF Record
<1> QED BY <1>1, <1>2, <1>4, <1>5

\* The records of n trials are n records.
LEMMA RecordsCount ==
    ASSUME NEW e, NEW n \in Nat
    PROVE  IsFiniteSet(Records(e, 0, n)) /\ Cardinality(Records(e, 0, n)) = n
<1> DEFINE f == [k \in 0..(n - 1) |-> Record(e, k)]
<1>1. f \in Bijection(0..(n - 1), Records(e, 0, n))
  <2>1. f \in [0..(n - 1) -> Records(e, 0, n)]
      BY DEF Records
  <2>2. ASSUME NEW a \in 0..(n - 1), NEW b \in 0..(n - 1), f[a] = f[b] PROVE a = b
    <3>1. Record(e, a).sequence = Record(e, b).sequence
        BY <2>2
    <3> QED BY <3>1 DEF Record
  <2>3. \A x \in Records(e, 0, n) : \E a \in 0..(n - 1) : f[a] = x
      BY DEF Records
  <2> HIDE DEF f
  <2> QED BY <2>1, <2>2, <2>3 DEF Bijection, Injection, Surjection, IsInjective
<1>2. IsFiniteSet(0..(n - 1)) /\ Cardinality(0..(n - 1)) = n
    BY FS_Interval
<1> QED BY <1>1, <1>2, FS_Bijection DEF ExistsBijection

\* Appending the next batch gives the next prefix.
LEMMA RecordsAppend ==
    ASSUME NEW e, NEW a \in Nat, NEW b \in Nat, a <= b
    PROVE  Records(e, 0, a) \cup Records(e, a, b) = Records(e, 0, b)
<1>1. \A n : n \in 0..(b - 1) <=> n \in 0..(a - 1) \/ n \in a..(b - 1)
    OBVIOUS
<1> QED BY <1>1 DEF Records

\* The prefix a ledger holds, and its length.
LEMMA LedgerFacts ==
    ASSUME ScoringInv, metadata # None
    PROVE  /\ metadata \in Experiments
           /\ CountRows \in Nat /\ CountRows <= Size(metadata)
           /\ rows = Records(metadata, 0, CountRows)
<1>1. metadata \in Experiments /\ CountRows <= Size(metadata)
      /\ rows = Records(metadata, 0, CountRows)
    BY DEF ScoringInv, ScoringTypeOK, LedgerIsPrefix
<1> QED BY <1>1, FS_CardinalityType DEF CountRows, ScoringInv

LEMMA OutputFacts ==
    /\ Len(Outputs) = 6 /\ Outputs[6] = "provenance"
    /\ \A n \in 1..6 : Outputs[n] \in OutputNames
    /\ \A f \in OutputNames : \E n \in 1..6 : f = Outputs[n]
    /\ \A n \in 1..5 : Outputs[n] # "provenance"
<1>1. Len(Outputs) = 6 /\ Outputs[6] = "provenance"
    BY DEF Outputs
<1>2. \A n \in 1..5 : Outputs[n] # "provenance"
    BY DEF Outputs
<1>3. /\ \A n \in 1..6 : Outputs[n] \in OutputNames
      /\ \A f \in OutputNames : \E n \in 1..6 : f = Outputs[n]
    BY DEF OutputNames
<1> QED BY <1>1, <1>2, <1>3

LEMMA InitScoring == ScoringInit => ScoringInv
<1> SUFFICES ASSUME ScoringInit PROVE ScoringInv
    OBVIOUS
<1> USE DEF ScoringInit
<1>1. ScoringTypeOK
  <2>1. Stopped \in [step: RunSteps, exp: Experiments \cup {None}, batch: 0..MaxBatch,
                     offset: Nat, file: 0..6, records: SUBSET ScoreRow]
      BY ScoringAssumption DEF Stopped, RunSteps
  <2>2. \A r \in Runs : On(r, "stopped")
      BY DEF On, Stopped
  <2> QED BY <2>1, <2>2 DEF ScoringTypeOK, On
<1>2. IsFiniteSet(rows) /\ LedgerIsPrefix
    BY FS_EmptySet DEF LedgerIsPrefix
<1>3. RunsFollowLedger /\ OffsetsInLedger /\ PublishersAreWhole
    BY DEF RunsFollowLedger, OffsetsInLedger, PublishersAreWhole, BoundSteps, On, Stopped
<1>4. FilesInOrder
  <2>1. "provenance" \in OutputNames
      BY OutputFacts
  <2> QED BY <2>1 DEF FilesInOrder, On, Stopped
<1> QED BY <1>1, <1>2, <1>3, <1>4 DEF ScoringInv

-----------------------------------------------------------------------------
(* One lemma per kind of step.                                              *)

RunRecord == [step: RunSteps, exp: Experiments \cup {None}, batch: 0..MaxBatch,
              offset: Nat, file: 0..6, records: SUBSET ScoreRow]

\* A step of one run that leaves ledger and files alone.
LEMMA LocalStep ==
    ASSUME ScoringInv, NEW r \in Runs, UNCHANGED <<metadata, rows, files>>,
           \A s \in Runs \ {r} : run'[s] = run[s],
           run' \in [Runs -> RunRecord],
           run'[r].step # "stopped" => run'[r].exp # None /\ run'[r].batch > 0,
           run'[r].step \in BoundSteps => run'[r].exp = metadata,
           run'[r].step \in {"append", "insert"} =>
               run'[r].offset <= CountRows /\ run'[r].offset < Size(run'[r].exp),
           run'[r].step = "publish" =>
               /\ run'[r].records = Whole(metadata)
               /\ CountRows = Size(metadata)
               /\ run'[r].file = 1
    PROVE  ScoringInv'
<1> USE DEF ScoringInv
<1>1. CountRows' = CountRows /\ IsFiniteSet(rows)' /\ LedgerIsPrefix'
    BY DEF CountRows, LedgerIsPrefix
<1>2. ScoringTypeOK'
  <2>1. \A s \in Runs : run'[s].step # "stopped"
            => run'[s].exp # None /\ run'[s].batch > 0
      BY DEF ScoringTypeOK, On
  <2>2. \A s \in Runs : run'[s].step = "publish" => run'[s].file > 0
      BY DEF ScoringTypeOK, On
  <2> QED BY <2>1, <2>2 DEF ScoringTypeOK, On, RunRecord
<1>3. RunsFollowLedger'
    BY DEF RunsFollowLedger
<1>4. OffsetsInLedger'
    BY <1>1 DEF OffsetsInLedger
<1>5. PublishersAreWhole'
    BY <1>1 DEF PublishersAreWhole, On
<1>6. FilesInOrder'
  <2>1. \A s \in Runs : files'[s]["provenance"] # {} =>
            /\ metadata' # None /\ CountRows' = Size(metadata')
            /\ \A f \in OutputNames : files'[s][f] = Whole(metadata')
      BY <1>1 DEF FilesInOrder
  <2>2. ASSUME NEW s \in Runs, On(s, "publish")', NEW n \in 1..6, n < run'[s].file
        PROVE  files'[s][Outputs[n]] = Whole(metadata')
    <3>1. CASE s = r
        BY <2>2, <3>1 DEF On
    <3>2. CASE s # r
        BY <2>2, <3>2 DEF FilesInOrder, On
    <3> QED BY <3>1, <3>2
  <2> QED BY <2>1, <2>2 DEF FilesInOrder
<1> QED BY <1>1, <1>2, <1>3, <1>4, <1>5, <1>6

\* Leaving the script is such a step.
LEMMA ExitStep ==
    ASSUME ScoringInv, NEW r \in Runs, Exit(r), UNCHANGED <<metadata, rows, files>>
    PROVE  ScoringInv'
<1>1. run \in [Runs -> RunRecord] /\ Stopped \in RunRecord
    BY ScoringAssumption DEF ScoringInv, ScoringTypeOK, RunRecord, Stopped, RunSteps
<1>2. /\ run' \in [Runs -> RunRecord]
      /\ \A s \in Runs \ {r} : run'[s] = run[s]
      /\ run'[r] = Stopped
    BY <1>1 DEF Exit
<1> QED BY <1>2, LocalStep DEF Stopped, BoundSteps

\* What a run's own record looks like while it is in the script.
LEMMA RunFacts ==
    ASSUME ScoringInv, NEW r \in Runs
    PROVE  /\ run \in [Runs -> RunRecord] /\ run[r] \in RunRecord
           /\ ~On(r, "stopped") => run[r].exp \in Experiments /\ run[r].batch > 0
BY DEF ScoringInv, ScoringTypeOK, RunRecord

LEMMA LaunchStep ==
    ASSUME ScoringInv, NEW r \in Runs, NEW e \in Experiments, NEW b \in 1..MaxBatch,
           Launch(r, e, b)
    PROVE  ScoringInv'
<1> DEFINE new == [Stopped EXCEPT !.step = "open", !.exp = e, !.batch = b]
<1>1. /\ e # None /\ new \in RunRecord /\ new.step = "open"
      /\ new.exp = e /\ new.batch = b
  <2>1. Stopped \in RunRecord
      BY ScoringAssumption DEF RunRecord, Stopped, RunSteps
  <2>2. e # None /\ b \in 0..MaxBatch /\ "open" \in RunSteps
      BY ExperimentFacts, ScoringAssumption DEF RunSteps
  <2>3. e \in Experiments \cup {None}
      OBVIOUS
  <2> QED BY <2>1, <2>2, <2>3 DEF RunRecord
<1>2. run' = [run EXCEPT ![r] = new] /\ UNCHANGED <<metadata, rows, files>>
    BY DEF Launch
<1> HIDE DEF new
<1>3. /\ run' \in [Runs -> RunRecord] /\ run'[r] = new
      /\ \A s \in Runs \ {r} : run'[s] = run[s]
    BY <1>1, <1>2, RunFacts
<1> QED BY <1>1, <1>2, <1>3, LocalStep, ScoringAssumption DEF BoundSteps

\* Going on to another step of the script with the same record.
LEMMA ContinueFacts ==
    ASSUME ScoringInv, NEW r \in Runs, NEW step \in RunSteps, Continue(r, step)
    PROVE  /\ run' \in [Runs -> RunRecord] /\ run'[r].step = step
           /\ run'[r].exp = run[r].exp /\ run'[r].batch = run[r].batch
           /\ run'[r].offset = run[r].offset
           /\ \A s \in Runs \ {r} : run'[s] = run[s]
<1>1. run \in [Runs -> RunRecord]
    BY RunFacts
<1> QED BY <1>1 DEF Continue, RunRecord

LEMMA OpenStep ==
    ASSUME ScoringInv, NEW r \in Runs, OpenLedger(r) PROVE ScoringInv'
<1>1. ~On(r, "stopped") /\ UNCHANGED <<metadata, rows, files>>
    BY DEF OpenLedger, On
<1>2. CASE metadata = None /\ Continue(r, "bind")
    BY <1>1, <1>2, ContinueFacts, RunFacts, ExperimentFacts, LocalStep
       DEF RunSteps, BoundSteps
<1>3. CASE metadata = run[r].exp /\ Continue(r, "resume")
    BY <1>1, <1>3, ContinueFacts, RunFacts, ExperimentFacts, LocalStep
       DEF RunSteps, BoundSteps
<1>4. CASE Exit(r)
    BY <1>1, <1>4, ExitStep
<1> QED BY <1>2, <1>3, <1>4 DEF OpenLedger

LEMMA CountStep ==
    ASSUME ScoringInv, NEW r \in Runs, CountBeforeAppend(r) PROVE ScoringInv'
<1>1. On(r, "append") /\ ~On(r, "stopped") /\ UNCHANGED <<metadata, rows, files>>
    BY DEF CountBeforeAppend, On
<1>2. CASE Continue(r, "insert")
  <2>1. /\ run[r].exp = metadata
        /\ run[r].offset <= CountRows /\ run[r].offset < Size(run[r].exp)
      BY <1>1 DEF ScoringInv, RunsFollowLedger, OffsetsInLedger, BoundSteps, On
  <2> QED BY <1>1, <1>2, <2>1, ContinueFacts, RunFacts, ExperimentFacts, LocalStep
          DEF RunSteps, BoundSteps
<1>3. CASE Exit(r)
    BY <1>1, <1>3, ExitStep
<1> QED BY <1>2, <1>3 DEF CountBeforeAppend

LEMMA ResumeStep ==
    ASSUME ScoringInv, NEW r \in Runs, Resume(r) PROVE ScoringInv'
<1>1. /\ On(r, "resume") /\ ~On(r, "stopped") /\ UNCHANGED <<metadata, rows, files>>
      /\ run[r].exp = metadata /\ metadata \in Experiments /\ metadata # None
    BY RunFacts, ExperimentFacts
       DEF Resume, On, ScoringInv, RunsFollowLedger, BoundSteps
<1>2. CountRows \in Nat /\ CountRows <= Size(metadata) /\ Size(metadata) \in Nat
    BY <1>1, LedgerFacts, ExperimentFacts
<1>3. CASE run' = [run EXCEPT ![r].offset = CountRows,
                              ![r].step = AfterScoring(r, CountRows)]
  <2>1. AfterScoring(r, CountRows) \in {"append", "records"}
        /\ (AfterScoring(r, CountRows) = "append" => CountRows < Size(metadata))
      BY <1>1 DEF AfterScoring
  <2>2. /\ run' \in [Runs -> RunRecord]
        /\ run'[r].step = AfterScoring(r, CountRows) /\ run'[r].offset = CountRows
        /\ run'[r].exp = run[r].exp /\ run'[r].batch = run[r].batch
        /\ \A s \in Runs \ {r} : run'[s] = run[s]
      BY <1>2, <1>3, <2>1, RunFacts DEF RunRecord, RunSteps
  <2> QED BY <1>1, <1>2, <2>1, <2>2, RunFacts, LocalStep DEF BoundSteps
<1>4. CASE Exit(r)
    BY <1>1, <1>4, ExitStep
<1> QED BY <1>3, <1>4 DEF Resume

LEMMA ReadStep ==
    ASSUME ScoringInv, NEW r \in Runs, ReadRecords(r) PROVE ScoringInv'
<1>1. /\ On(r, "records") /\ ~On(r, "stopped") /\ UNCHANGED <<metadata, rows, files>>
      /\ run[r].exp = metadata /\ metadata \in Experiments /\ metadata # None
    BY RunFacts, ExperimentFacts
       DEF ReadRecords, On, ScoringInv, RunsFollowLedger, BoundSteps
<1>2. CASE /\ CountRows = Size(run[r].exp)
           /\ run' = [run EXCEPT ![r].step = "publish", ![r].file = 1, ![r].records = rows]
  <2>1. rows = Whole(metadata) /\ CountRows = Size(metadata)
      BY <1>1, <1>2, LedgerFacts DEF Whole
  <2>2. rows \in SUBSET ScoreRow
      BY DEF ScoringInv, ScoringTypeOK
  <2>3. /\ run' \in [Runs -> RunRecord]
        /\ run'[r].step = "publish" /\ run'[r].file = 1 /\ run'[r].records = rows
        /\ run'[r].exp = run[r].exp /\ run'[r].batch = run[r].batch
        /\ \A s \in Runs \ {r} : run'[s] = run[s]
      BY <1>2, <2>2, RunFacts DEF RunRecord, RunSteps
  <2> QED BY <1>1, <2>1, <2>3, RunFacts, LocalStep DEF BoundSteps
<1>3. CASE Exit(r)
    BY <1>1, <1>3, ExitStep
<1> QED BY <1>2, <1>3 DEF ReadRecords

\* The first run binds the ledger; no run can have gone further before it.
LEMMA BindStep ==
    ASSUME ScoringInv, NEW r \in Runs, BindLedger(r) PROVE ScoringInv'
<1>1. On(r, "bind") /\ ~On(r, "stopped") /\ UNCHANGED <<rows, files>>
    BY DEF BindLedger, On
<1>2. CASE metadata # None
    BY <1>1, <1>2, ExitStep DEF BindLedger
<1>3. CASE metadata = None
  <2> DEFINE e == run[r].exp
  <2>1. /\ metadata' = e /\ e \in Experiments /\ e # None /\ Continue(r, "resume")
        /\ Size(e) \in Nat
      BY <1>1, <1>3, RunFacts, ExperimentFacts DEF BindLedger
  <2>2. /\ run' \in [Runs -> RunRecord] /\ run'[r].step = "resume"
        /\ run'[r].exp = e /\ run'[r].batch = run[r].batch
        /\ \A s \in Runs \ {r} : run'[s] = run[s]
      BY <2>1, ContinueFacts DEF RunSteps
  <2>3. rows = {} /\ CountRows = 0 /\ CountRows' = 0
      BY <1>1, <1>3, FS_EmptySet DEF ScoringInv, LedgerIsPrefix, CountRows
  <2>4. ASSUME NEW s \in Runs PROVE run[s].step \notin BoundSteps
    <3>1. run[s].step \in BoundSteps => ~On(s, "stopped")
        BY DEF On, BoundSteps
    <3> QED BY <1>3, <3>1, RunFacts, ExperimentFacts DEF ScoringInv, RunsFollowLedger
  <2>5. \A s \in Runs \ {r} : run'[s].step \notin BoundSteps
      BY <2>2, <2>4
  <2>6. ScoringTypeOK'
    <3>1. \A s \in Runs : run'[s].step # "stopped"
              => run'[s].exp # None /\ run'[s].batch > 0
        BY <1>1, <2>1, <2>2, RunFacts DEF ScoringInv, ScoringTypeOK, On
    <3>2. \A s \in Runs : run'[s].step # "publish"
        BY <2>2, <2>5 DEF BoundSteps
    <3> QED BY <1>1, <2>1, <2>2, <3>1, <3>2
            DEF ScoringInv, ScoringTypeOK, On, RunRecord
  <2>7. IsFiniteSet(rows)' /\ LedgerIsPrefix'
      BY <1>1, <2>1, <2>3, FS_EmptySet DEF LedgerIsPrefix, Records
  <2>8. RunsFollowLedger' /\ OffsetsInLedger' /\ PublishersAreWhole'
      BY <2>1, <2>2, <2>5
         DEF RunsFollowLedger, OffsetsInLedger, PublishersAreWhole, BoundSteps, On
  <2>9. FilesInOrder'
    <3>1. \A s \in Runs : files'[s]["provenance"] = {}
        BY <1>1, <1>3 DEF ScoringInv, FilesInOrder
    <3>2. \A s \in Runs : run'[s].step # "publish"
        BY <2>2, <2>5 DEF BoundSteps
    <3> QED BY <3>1, <3>2 DEF FilesInOrder, On
  <2> QED BY <2>6, <2>7, <2>8, <2>9 DEF ScoringInv
<1> QED BY <1>2, <1>3

\* What a batch that meets no conflict does to the ledger.
LEMMA InsertFacts ==
    ASSUME ScoringInv, NEW r \in Runs, On(r, "insert"), ~Conflicts(Batch(r))
    PROVE  /\ metadata \in Experiments /\ metadata # None /\ run[r].exp = metadata
           /\ Size(metadata) \in Nat
           /\ CountRows \in Nat /\ BatchEnd(r) \in Nat
           /\ run[r].offset = CountRows
           /\ CountRows < BatchEnd(r) /\ BatchEnd(r) <= Size(metadata)
           /\ rows \cup Batch(r) = Records(metadata, 0, BatchEnd(r))
<1>1. /\ run[r].exp = metadata /\ metadata \in Experiments /\ metadata # None
      /\ run[r].batch \in 0..MaxBatch /\ run[r].batch > 0 /\ run[r].offset \in Nat
      /\ run[r].offset <= CountRows /\ run[r].offset < Size(metadata)
    BY RunFacts, ExperimentFacts
       DEF On, ScoringInv, RunsFollowLedger, OffsetsInLedger, BoundSteps, RunRecord
<1>2. /\ CountRows \in Nat /\ Size(metadata) \in Nat
      /\ rows = Records(metadata, 0, CountRows)
    BY <1>1, LedgerFacts, ExperimentFacts
<1>3. /\ BatchEnd(r) \in Nat /\ run[r].offset < BatchEnd(r)
      /\ BatchEnd(r) <= Size(metadata)
    BY <1>1, <1>2, ScoringAssumption DEF BatchEnd
<1>4. Record(metadata, run[r].offset) \in Batch(r)
    BY <1>1, <1>2, <1>3 DEF Batch, Records
<1>5. CASE run[r].offset < CountRows
  <2>1. Record(metadata, run[r].offset) \in rows
      BY <1>1, <1>2, <1>5 DEF Records
  <2> QED BY <1>4, <2>1 DEF Conflicts
<1>6. CASE run[r].offset = CountRows
    BY <1>1, <1>2, <1>3, <1>6, RecordsAppend DEF Batch
<1> QED BY <1>1, <1>2, <1>3, <1>5, <1>6

LEMMA InsertStep ==
    ASSUME ScoringInv, NEW r \in Runs, InsertBatch(r) PROVE ScoringInv'
<1>1. On(r, "insert") /\ ~On(r, "stopped") /\ UNCHANGED <<metadata, files>>
    BY DEF InsertBatch, On
<1>2. CASE Conflicts(Batch(r))
    BY <1>1, <1>2, ExitStep DEF InsertBatch
<1>3. CASE ~Conflicts(Batch(r))
  <2> DEFINE last == BatchEnd(r)
  <2>1. /\ metadata \in Experiments /\ metadata # None /\ run[r].exp = metadata
        /\ Size(metadata) \in Nat /\ CountRows \in Nat /\ last \in Nat
        /\ CountRows < last /\ last <= Size(metadata)
        /\ rows' = Records(metadata, 0, last)
        /\ run' = [run EXCEPT ![r].offset = last, ![r].step = AfterScoring(r, last)]
      BY <1>1, <1>3, InsertFacts DEF InsertBatch
  <2>2. IsFiniteSet(rows') /\ CountRows' = last
      BY <2>1, RecordsCount DEF CountRows
  <2>3. AfterScoring(r, last) \in {"append", "records"}
        /\ (AfterScoring(r, last) = "append" => last < Size(metadata))
      BY <2>1 DEF AfterScoring
  <2>4. /\ run' \in [Runs -> RunRecord]
        /\ run'[r].step = AfterScoring(r, last) /\ run'[r].offset = last
        /\ run'[r].exp = metadata /\ run'[r].batch = run[r].batch
        /\ \A s \in Runs \ {r} : run'[s] = run[s]
      BY <2>1, <2>3, RunFacts DEF RunRecord, RunSteps
  <2> HIDE DEF last
  <2>5. rows' \in SUBSET ScoreRow
      BY <2>1, ExperimentFacts DEF Records
  <2>6. ScoringTypeOK'
    <3>1. \A s \in Runs : run'[s].step # "stopped"
              => run'[s].exp # None /\ run'[s].batch > 0
        BY <1>1, <2>1, <2>4, RunFacts DEF ScoringInv, ScoringTypeOK, On
    <3>2. \A s \in Runs : run'[s].step = "publish" => run'[s].file > 0
        BY <2>3, <2>4 DEF ScoringInv, ScoringTypeOK, On
    <3> QED BY <1>1, <2>4, <2>5, <3>1, <3>2 DEF ScoringInv, ScoringTypeOK, On, RunRecord
  <2>7. LedgerIsPrefix'
      BY <1>1, <2>1, <2>2 DEF LedgerIsPrefix
  <2>8. RunsFollowLedger'
      BY <1>1, <2>1, <2>4 DEF ScoringInv, RunsFollowLedger
  <2>9. OffsetsInLedger'
    <3>1. ASSUME NEW s \in Runs \ {r}, run'[s].step \in {"append", "insert"}
          PROVE  run'[s].offset <= CountRows' /\ run'[s].offset < Size(run'[s].exp)
      <4>1. run[s].offset \in Nat /\ run'[s] = run[s]
          BY <2>4, RunFacts DEF RunRecord
      <4> QED BY <2>1, <2>2, <3>1, <4>1 DEF ScoringInv, OffsetsInLedger
    <3>2. run'[r].step \in {"append", "insert"} =>
              run'[r].offset <= CountRows' /\ run'[r].offset < Size(run'[r].exp)
        BY <2>1, <2>2, <2>3, <2>4
    <3> QED BY <3>1, <3>2 DEF OffsetsInLedger
  <2>10. \A s \in Runs : ~On(s, "publish") /\ ~On(s, "publish")'
    <3>1. \A s \in Runs : ~On(s, "publish")
        BY <2>1 DEF ScoringInv, PublishersAreWhole
    <3> QED BY <2>3, <2>4, <3>1 DEF On
  <2>11. PublishersAreWhole'
      BY <2>10 DEF PublishersAreWhole
  <2>12. \A s \in Runs : files'[s]["provenance"] = {}
      BY <1>1, <2>1 DEF ScoringInv, FilesInOrder
  <2>13. FilesInOrder'
      BY <2>10, <2>12 DEF FilesInOrder
  <2> QED BY <2>2, <2>6, <2>7, <2>8, <2>9, <2>11, <2>13 DEF ScoringInv
<1> QED BY <1>2, <1>3

\* Writing one output; the provenance comes when the others are there.
LEMMA WriteStep ==
    ASSUME ScoringInv, NEW r \in Runs, WriteFile(r) PROVE ScoringInv'
<1> DEFINE n == run[r].file
<1>1. /\ On(r, "publish") /\ ~On(r, "stopped") /\ UNCHANGED <<metadata, rows>>
      /\ run[r].records = Whole(metadata) /\ CountRows = Size(metadata)
      /\ run[r].exp = metadata /\ metadata \in Experiments /\ metadata # None
      /\ n \in 1..6 /\ Outputs[n] \in OutputNames
  <2>1. On(r, "publish") /\ UNCHANGED <<metadata, rows>>
      BY DEF WriteFile
  <2>2. ~On(r, "stopped") /\ run[r].step \in BoundSteps
      BY <2>1 DEF On, BoundSteps
  <2>3. run[r].exp = metadata /\ metadata \in Experiments /\ metadata # None
      BY <2>2, RunFacts, ExperimentFacts DEF ScoringInv, RunsFollowLedger
  <2>4. n \in 1..6
      BY <2>1, RunFacts DEF ScoringInv, ScoringTypeOK, RunRecord
  <2> QED BY <2>1, <2>2, <2>3, <2>4, OutputFacts DEF ScoringInv, PublishersAreWhole
<1>2. files \in [Runs -> [OutputNames -> SUBSET ScoreRow]]
    BY DEF ScoringInv, ScoringTypeOK
<1>3. Whole(metadata) \in SUBSET ScoreRow
    BY <1>1, RunFacts DEF RunRecord
<1>4. /\ files' \in [Runs -> [OutputNames -> SUBSET ScoreRow]]
      /\ files'[r][Outputs[n]] = Whole(metadata)
      /\ \A f \in OutputNames : f # Outputs[n] => files'[r][f] = files[r][f]
      /\ \A s \in Runs \ {r} : files'[s] = files[s]
    BY <1>1, <1>2, <1>3 DEF WriteFile
<1>5. /\ run' \in [Runs -> RunRecord]
      /\ \A s \in Runs \ {r} : run'[s] = run[s]
      /\ \/ /\ n < 6 /\ run'[r].file = n + 1 /\ run'[r].step = "publish"
            /\ run'[r].exp = run[r].exp /\ run'[r].records = run[r].records
            /\ run'[r].batch = run[r].batch
         \/ n = 6 /\ run'[r].step = "stopped"
  <2>1. CASE n < 6
      BY <1>1, <2>1, OutputFacts, RunFacts DEF WriteFile, RunRecord, On
  <2>2. CASE n = 6
    <3>1. Stopped \in RunRecord /\ Stopped.step = "stopped"
        BY ScoringAssumption DEF RunRecord, Stopped, RunSteps
    <3> QED BY <1>1, <2>2, <3>1, OutputFacts, RunFacts DEF WriteFile, Exit
  <2> QED BY <1>1, <2>1, <2>2
<1> HIDE DEF n
<1>6. CountRows' = CountRows /\ IsFiniteSet(rows)' /\ LedgerIsPrefix'
    BY <1>1 DEF ScoringInv, CountRows, LedgerIsPrefix
<1>7. ScoringTypeOK'
  <2>1. \A s \in Runs : run'[s].step # "stopped"
            => run'[s].exp # None /\ run'[s].batch > 0
      BY <1>1, <1>5, RunFacts DEF ScoringInv, ScoringTypeOK, On
  <2>2. \A s \in Runs : run'[s].step = "publish" => run'[s].file > 0
      BY <1>1, <1>5 DEF ScoringInv, ScoringTypeOK, On
  <2> QED BY <1>1, <1>4, <1>5, <2>1, <2>2 DEF ScoringInv, ScoringTypeOK, On, RunRecord
<1>8. RunsFollowLedger'
    BY <1>1, <1>5 DEF ScoringInv, RunsFollowLedger, BoundSteps
<1>9. OffsetsInLedger'
    BY <1>5, <1>6 DEF ScoringInv, OffsetsInLedger
<1>10. PublishersAreWhole'
    BY <1>1, <1>5, <1>6 DEF ScoringInv, PublishersAreWhole, On
<1>11. FilesInOrder'
  <2>1. ASSUME NEW s \in Runs, s # r
        PROVE  /\ files'[s]["provenance"] # {} => \A f \in OutputNames : files'[s][f] = Whole(metadata)
               /\ On(s, "publish")' =>
                     \A k \in 1..6 : k < run'[s].file => files'[s][Outputs[k]] = Whole(metadata)
      BY <1>4, <1>5, <2>1 DEF ScoringInv, FilesInOrder, On
  <2>2. \A k \in 1..6 : k < n \/ k = n => files'[r][Outputs[k]] = Whole(metadata)
    <3>1. ASSUME NEW k \in 1..6, k < n PROVE files'[r][Outputs[k]] = Whole(metadata)
      <4>1. files[r][Outputs[k]] = Whole(metadata) /\ Outputs[k] \in OutputNames
          BY <1>1, <3>1, OutputFacts DEF ScoringInv, FilesInOrder, n
      <4> QED BY <1>4, <4>1
    <3> QED BY <1>4, <3>1
  <2>3. CASE n = 6
    <3>1. \A f \in OutputNames : files'[r][f] = Whole(metadata)
        BY <2>2, <2>3, OutputFacts
    <3> QED BY <1>1, <1>5, <1>6, <2>1, <2>3, <3>1 DEF FilesInOrder, On
  <2>4. CASE n < 6
    <3>1. files'[r]["provenance"] # {} =>
              \A f \in OutputNames : files'[r][f] = Whole(metadata)
      <4>1. "provenance" \in OutputNames /\ Outputs[n] # "provenance"
          BY <1>1, <2>4, OutputFacts
      <4>2. files'[r]["provenance"] = files[r]["provenance"]
          BY <1>4, <4>1
      <4> QED BY <1>4, <4>2 DEF ScoringInv, FilesInOrder
    <3>2. \A k \in 1..6 : k < run'[r].file => files'[r][Outputs[k]] = Whole(metadata)
        BY <1>1, <1>5, <2>2, <2>4
    <3> QED BY <1>1, <1>6, <2>1, <3>1, <3>2 DEF FilesInOrder
  <2> QED BY <1>1, <2>3, <2>4
<1> QED BY <1>6, <1>7, <1>8, <1>9, <1>10, <1>11 DEF ScoringInv

LEMMA ScoringInvStep == ASSUME ScoringInv, [ScoringNext]_scoringVars PROVE ScoringInv'
<1>1. CASE UNCHANGED scoringVars
    BY <1>1 DEF scoringVars, ScoringInv, ScoringTypeOK, LedgerIsPrefix, CountRows,
           RunsFollowLedger, OffsetsInLedger, PublishersAreWhole, FilesInOrder, On
<1>2. ASSUME NEW r \in Runs, Interrupt(r) PROVE ScoringInv'
    BY <1>2, ExitStep DEF Interrupt
<1>3. ASSUME NEW r \in Runs, ScoringStep(r) PROVE ScoringInv'
    BY <1>2, <1>3, LaunchStep, OpenStep, BindStep, ResumeStep, CountStep, InsertStep,
       ReadStep, WriteStep
       DEF ScoringStep
<1> QED BY <1>1, <1>3 DEF ScoringNext

-----------------------------------------------------------------------------

\* The inductive invariant of scoring and publication.
THEOREM ScoringInvariant == ScoringSpec => []ScoringInv
<1> QED BY InitScoring, ScoringInvStep, PTL DEF ScoringSpec

\* However runs stop, resume and race, the ledger is a prefix of one experiment.
THEOREM LedgerStaysPrefix == ScoringSpec => []LedgerIsPrefix
<1>1. ScoringInv => LedgerIsPrefix
    BY DEF ScoringInv
<1> QED BY <1>1, ScoringInvariant, PTL

\* A provenance file on disk vouches for complete and consistent artifacts.
THEOREM ProvenanceAlwaysVouches == ScoringSpec => []ProvenanceVouches
<1>1. ScoringInv => ProvenanceVouches
    BY DEF ScoringInv, FilesInOrder, ProvenanceVouches
<1> QED BY <1>1, ScoringInvariant, PTL

-----------------------------------------------------------------------------
(* Refinement.                                                              *)

LEMMA ProgressStep ==
    ASSUME ScoringInv, ScoringInv', [ScoringNext]_scoringVars
    PROVE  [Progress!Bind \/ Progress!Advance \/ Progress!Publish]_Progress!progressVars
<1> USE DEF Progress!progressVars
<1>1. UNCHANGED <<metadata, rows, files>> => UNCHANGED Progress!progressVars
    BY DEF CountRows, Published
<1>2. CASE UNCHANGED scoringVars
    BY <1>1, <1>2 DEF scoringVars
<1>3. ASSUME NEW r \in Runs, BindLedger(r), metadata = None
      PROVE  Progress!Bind
  <2>1. metadata' = run[r].exp /\ run[r].exp \in Experiments /\ UNCHANGED <<rows, files>>
      BY <1>3, RunFacts DEF BindLedger, On
  <2>2. Published = {} /\ Published' = {}
      BY <1>3, <2>1 DEF ScoringInv, FilesInOrder, Published
  <2> QED BY <1>3, <2>1, <2>2 DEF Progress!Bind, CountRows
<1>4. ASSUME NEW r \in Runs, InsertBatch(r), ~Conflicts(Batch(r))
      PROVE  Progress!Advance
  <2>1. /\ metadata # None /\ UNCHANGED <<metadata, files>>
        /\ CountRows' = BatchEnd(r) /\ BatchEnd(r) \in (CountRows + 1)..Size(metadata)
    <3>1. On(r, "insert") /\ UNCHANGED <<metadata, files>>
          /\ rows' = rows \cup Batch(r)
        BY <1>4 DEF InsertBatch
    <3>2. /\ metadata # None /\ CountRows \in Nat /\ Size(metadata) \in Nat
          /\ BatchEnd(r) \in Nat
          /\ CountRows < BatchEnd(r) /\ BatchEnd(r) <= Size(metadata)
          /\ rows' = Records(metadata, 0, BatchEnd(r))
        BY <1>4, <3>1, InsertFacts
    <3>3. CountRows' = BatchEnd(r)
        BY <3>2, RecordsCount DEF CountRows
    <3> QED BY <3>1, <3>2, <3>3
  <2>2. Published' = Published
      BY <2>1 DEF Published
  <2> QED BY <2>1, <2>2 DEF Progress!Advance
<1>5. ASSUME NEW r \in Runs, WriteFile(r)
      PROVE  Progress!Publish \/ UNCHANGED Progress!progressVars
  <2>1. /\ metadata # None /\ CountRows = Size(metadata) /\ UNCHANGED <<metadata, rows>>
    <3>1. On(r, "publish") /\ UNCHANGED <<metadata, rows>>
        BY <1>5 DEF WriteFile
    <3>2. run[r].exp = metadata /\ ~On(r, "stopped") /\ CountRows = Size(metadata)
        BY <3>1 DEF On, ScoringInv, RunsFollowLedger, PublishersAreWhole, BoundSteps
    <3> QED BY <3>1, <3>2, RunFacts, ExperimentFacts
  <2>2. CountRows' = CountRows
      BY <2>1 DEF CountRows
  <2>3. Published' = {metadata} \/ Published' = Published
    <3>1. CASE \E s \in Runs : files'[s]["provenance"] # {}
        BY <2>1, <3>1 DEF Published
    <3>2. CASE \A s \in Runs : files'[s]["provenance"] = {}
      <4>1. ASSUME NEW s \in Runs PROVE files[s]["provenance"] = {}
        <5>1. files \in [Runs -> [OutputNames -> SUBSET ScoreRow]]
            BY DEF ScoringInv, ScoringTypeOK
        <5>2. CASE s # r
            BY <1>5, <3>2, <5>1, <5>2 DEF WriteFile
        <5>3. CASE s = r /\ Outputs[run[r].file] # "provenance"
            BY <1>5, <3>2, <5>1, <5>3 DEF WriteFile
        <5>4. CASE s = r /\ Outputs[run[r].file] = "provenance"
          <6>1. files'[r]["provenance"] = run[r].records
              BY <1>5, <5>1, <5>4, OutputFacts DEF WriteFile
          <6>2. run[r].records = Whole(metadata) /\ metadata \in Experiments
              BY <1>5, <2>1 DEF WriteFile, ScoringInv, PublishersAreWhole, ScoringTypeOK
          <6>3. Record(metadata, 0) \in Whole(metadata)
              BY <6>2, ExperimentFacts DEF Whole, Records
          <6> QED BY <3>2, <6>1, <6>2, <6>3
        <5> QED BY <5>2, <5>3, <5>4
      <4> QED BY <3>2, <4>1 DEF Published
    <3> QED BY <3>1, <3>2
  <2> QED BY <2>1, <2>2, <2>3 DEF Progress!Publish
<1>6. ASSUME NEW r \in Runs, ScoringStep(r)
      PROVE  \/ Progress!Bind \/ Progress!Advance \/ Progress!Publish
             \/ UNCHANGED Progress!progressVars
  <2>1. \/ UNCHANGED <<metadata, rows, files>>
        \/ BindLedger(r) /\ metadata = None
        \/ InsertBatch(r) /\ ~Conflicts(Batch(r))
        \/ WriteFile(r)
      BY <1>6 DEF ScoringStep, Launch, OpenLedger, BindLedger, Resume,
         CountBeforeAppend, InsertBatch, ReadRecords, Interrupt
  <2> QED BY <1>1, <1>3, <1>4, <1>5, <2>1
<1> QED BY <1>2, <1>6 DEF ScoringNext

\* Runs sharing a ledger implement one resumable scoring of one experiment.
THEOREM ScoringIsResumable == ScoringSpec => ResumableScoring
<1>1. ScoringInit => Progress!Begin
  <2> SUFFICES ASSUME ScoringInit PROVE Progress!Begin
      OBVIOUS
  <2>1. "provenance" \in OutputNames
      BY OutputFacts
  <2>2. Published = {}
      BY <2>1 DEF ScoringInit, Published
  <2> QED BY <2>2, FS_EmptySet DEF ScoringInit, Progress!Begin, CountRows
<1> QED
    BY <1>1, ProgressStep, ScoringInvariant, PTL
       DEF ScoringSpec, ResumableScoring, Progress!ProgressSpec

\* No step of a run leaves the types of its state.
THEOREM ScoringIsWellTyped == ScoringSpec => []ScoringTypeOK
<1>1. ScoringInv => ScoringTypeOK
    BY DEF ScoringInv
<1> QED BY <1>1, ScoringInvariant, PTL
=============================================================================
