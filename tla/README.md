# VoiceID: specification, model checking and proofs

VoiceID verifies a speaker locally and authorizes actions on a device. This directory
holds TLA+ modules that model its Python core, TLC configurations that check them on
small instances, and TLAPS proofs of their most important properties for every instance.
Paths below are relative to the repository; `V` stands for `src/voiceid`.

## 1. Inventory

| Component | State it keeps | Operations | Interacts with | Hard behaviours | What makes it correct |
|---|---|---|---|---|---|
| SQLite store `V/adapters/repositories/sqlite.py` | tables `consents`, `voice_templates`, `authorization_grants`, `audit_events` | `has_active`, `grant`, `revoke_identity`, `get_active`, `save`, `purge_expired`, `issue_grant`, `consume_grant`, `append` | every service; one connection and one `BEGIN IMMEDIATE` per write | transactions of several handlers interleave; the purge forgets rows | single use of grants, one live template, retention window, permanence of revocation |
| Governance `V/application/governance.py` | none | `grant_consent`, `revoke_identity`, `purge_expired` | store, audit | clock read before the transaction, audit after it | nothing deleted early; the log agrees with the tables |
| Enrollment `V/application/enrollment.py` | none | `enroll` | consent check, models, store | consent checked long before `save`; version computed outside the transaction | a stored template has a consent and is the newest |
| Grants `V/application/grants.py`, `V/domain/grants.py` | none; signed tokens are with devices | `issue`, `consume` | verification, policy, signer, store, audit | replay, lost responses, a crash between consumption and audit, nonce reuse | a token is spent once, and stays spendable until it expires |
| Verification and policy `V/application/verification.py`, `V/domain/decision.py`, `V/domain/authorization.py` | none | `verify`, `decide`, `authorize_action` | models, repository | each stage may fail; boundary scores; the order of rules | permission needs complete evidence, denial needs proof, monotony |
| Durable API `V/adapters/api/app.py`, `container.py` | thread pool of handlers | the routes | all of the above | any interleaving, handlers that die | everything above, composed |
| Rate limiter, middleware, uploads `V/adapters/api/rate_limit.py`, `app.py`, `uploads.py` | window and count per client; one upload's buffer | `consume`, `enforce_content_length`, `read_upload`, `read_uploads` | every route | window edges, restarts, bodies of undeclared length, a dictionary that only grows | `Retry-After` is true, bursts and memory are bounded |
| Lazy model loading `V/adapters/models/*.py` | loaded model objects | `embed`, `assess` | handlers | concurrent first use | no handler uses a half-published model |
| Schema migration (`sqlite.py: initialize`) | `user_version`, tables | `initialize` | start-up | a stop between its statements | start-up can always be repeated |
| Corpus scoring `V/application/asvspoof2019_scoring.py`, ledger, outputs | a SQLite ledger, output files | begin, append, resume, publish | scripts | stop and resume | each trial is scored once; output files agree |
| Metrics, drift `V/domain/metrics.py`, `spoof_metrics.py`, `tandem_metrics.py`, `drift.py` | the cursors of a sweep | error-rate sweeps, EER, detection and tandem costs, breakdowns | evaluation scripts | ties, empty classes, a threshold chosen on the wrong partition | sweeps agree with definitions, optima are optima |
| Corpora and trial scoring `V/application/librispeech.py`, `trial_scoring.py`, `V/adapters/evaluation`, `V/domain/evaluation.py` | a staging directory, a corpus, score files | prepare, publish, enroll, score, evaluate | enrollment and verification services, scripts | stops while publishing, files that change during a long run, checks that come after the work | what is published is complete, scores come from the audio that was named |
| Audio preprocessing `V/application/preprocessing.py`, `V/adapters/audio` | none | decode, resample, `detect`, quality report | enroll, verify | frame arithmetic at the ends of a recording, touching segments | segments are the stretches of speech |
| Signer, credentials `V/adapters/security` | key | `sign`, `verify` | grants | encoding | authenticity |
| Swift SDK, companion app `sdk/`, `apps/` | busy flag, workflow | record, authorize, consume | API | cancellation, reentrant taps | one authorization at a time |
| Web client `V/adapters/api/web/assets/app.js` | samples, recorder | record, enroll, verify | API | promises out of order | the page sends what it shows |
| Scripts, experiments | recorded results | command lines | services | - | - |

Rules that span components: each route runs its service method in a worker thread
(`run_in_threadpool`), and the middleware runs on the event loop; each repository call is one transaction; nothing is held across two calls. This is where
the interesting behaviours come from, and so the unit of a step in the models is one
repository call.

## 2. Modules

    BiometricStore          tables as state; one operator per transaction
      ApiRequests           clock, request records, audit append, death of a handler
        IdentityGovernance    consent, revocation, purge
        TemplateEnrollment    enroll
        AuthorizationGrants   issue, consume, tokens held by devices
          VoiceIdApi            composition, properties      <- MCVoiceIdApi
    SingleUseCapability     what a grant promises, abstractly (implemented by VoiceIdApi)
    ActionPolicy            decide and authorize_action as operators
      VoiceAuthorization    the stages of a verification
    RequestGate             the rate limiter
    UploadReading           files read into memory under limits
    SpeechSegments          voice activity and the quality rules
      VoiceRequest            these three and VoiceAuthorization, for one request  <- MCVoiceRequest
    SchemaMigration         initialize, statement by statement
    EcapaRuntime            the model that handlers load on first use
      ServerProcess           both, in the life of the API process
    ScoreLedger             the ledger's tables; one operator per transaction
      CorpusScoring           runs of the scoring script     <- MCCorpusScoring
    TrialManifests          the rules of audio and scored manifests
      LibriSpeechCorpus       preparing and publishing a corpus
    DetectionMetrics        error rates, costs, thresholds of speaker verification
      TrialScoring            scoring a corpus and evaluating the scores (both of the above)
      SpoofEvaluation         the countermeasure's sweep, thresholds and tandem cost
        EvaluationStudy         one study by the scripts       <- MCEvaluationStudy
    ScoringProgress         what resumable scoring promises (implemented by CorpusScoring)
    *_proofs                TLAPS proofs, one module per argument

**Store.** `consents` maps an identity to its unrevoked row or `None` (a unique index allows one,
and no statement reads a revoked one); `templates` is the set of rows; `grants` maps a grant id to its row or `None`.
Each transaction of `sqlite.py` is an operator from old table to new table
(`SaveTemplate`, `PurgeTemplates`, `SpendGrant`, ...), with the condition of its `raise` or
`WHERE` as an operator of its own (`VersionExpected`, `GrantInsertable`, `SpendableRow`).
Audio, embeddings, quality and ciphertext are left out of the rows: no guard reads them.

**Requests.** `req[w]` is what handler `w` holds in its local variables and the call it
makes next (`step`). Each service method is a chain of actions: `EnrollBegin` (route entry),
`EnrollCheckConsent`, `EnrollReadCurrent`, `EnrollSave`. `at` is the reading of the clock,
taken where the code takes it, and stays as it was while the handler waits: that is how a
purge can work with an old instant. `Abort(w)` (only with `Faults = TRUE`) is a handler that
dies between two calls, or whose transaction raises `OperationalError`.

**Devices.** `tokens` is the set of claims of tokens that reached a device. A response may
be lost. A device may present any token it holds, as often as it wants, for any action and
device (`ConsumeBegin`), so replays are in the model. Signatures are perfect: a presented
token carries the claims that were signed.

**History.** `stored` (grant ids once inserted) and `spent` (how often each grant was
consumed) record what the tables forget, for the properties only: no guard of the service
reads them, except that `uuid4` never repeats an id (`FreshId`).

**Verification.** `VoiceAuthorization` walks one authorization through template lookup,
preprocessing, embedding, spoof check, decision and policy. Scores and probabilities are
integers in hundredths; each stage may fail the way its
`except` clause sees it. The setup (spoof detector configured, spoof check required) is
chosen in the initial state. In `AuthorizationGrants` the whole evaluation is reduced to its
outcome: allowed or not.

**Requests with audio.** `VoiceRequest` follows a POST from the socket to its verdict. `RequestGate` is
`consume`: `windows` is its dictionary, an entry is the tuple of start and count, `Restart` is a new
process with an empty one. `promised` and `recent` are history for the properties: the earliest
instant a `Retry-After` named, and the last `2 * MaxRequests` admissions of each client. `UploadReading` is the
`while chunk := await upload.read(...)` loop with its checks in order; `left` is what the server will
still hand over, which a declared length bounds and an absent one does not. In the stage
`audio` of the pipeline, `SpeechSegments` goes frame by frame through the loop of `detect`, merges,
and evaluates the report; so where `VoiceAuthorization` lets `ProcessAudio` choose its outcome,
the composition computes it. Variables of a call that has returned are reset.

**Evaluation.** `LibriSpeechCorpus` is `prepare_librispeech.py`: selection (the operators of
`application/librispeech.py`), the staging directory written speaker by speaker, the manifest with its
own validation, provenance, and the rename that publishes. A recording is a take with a quality; its digest is
itself; the order that a hash gives is any order. `TrialScoring` is `score_audio_trials.py` and
`evaluate_scores.py`: each enrollment and trial reads its files with their digests (`Damage` changes, removes or
swaps a file at any time), scores are written at the end, and the threshold is calibrated.
`SpoofEvaluation` is `evaluate_spoof_scores.py` and the tandem report of `score_asvspoof2019_la.py`:
`_threshold_sweep` is one action per threshold, with its two cursors as state, and the reports are computed from the
sweeps. The two scripts rank differently: the first by the spoof probability, with a breakdown by attack category, the
second by the bonafide logit, for all attacks and for each attack id. A trial carries both, and neither follows from the other.
An enrollment may lose samples (a failed embedding, an outlier), of which at least three must remain; which ones is any choice. Scores are even
integers and thresholds any, so that there is a threshold between two scores and beyond all of them
(`math.nextafter`); rates are counts, and costs are compared after cross-multiplication. A list of scores is a
function from trials to scores, so that counts are cardinalities, and `Sorted` gives the n-th smallest score by its
definition, not by a sorting algorithm. A list comprehension is `Taken`: the members at some places, in order.
A report keeps the trials it was computed from, and a score the recording it was computed from, as history.
`EvaluationStudy` runs one study at a time: the scripts share nothing but the files they name.

**Server process.** `build_durable_container` calls `initialize` before the first request.
`executescript` commits each statement by itself, so a statement is a step
(`RunStatement`), the version number another (`Stamp`), and `Stop` is the death of the process or
an `OperationalError` between any two of them. `userVersion` and `objects` are on disk and survive;
the state of `EcapaRuntime` is memory and does not (`LoseRuntime`). A call of `encode` is a chain
of steps: the test without the lock, the lock, the test with it, loading, and the two assignments
that publish the model, each of which another thread may see alone.

**Corpus scoring.** A record is its position, its trial and the model that scored it; scores,
hashes and sizes are functions of these. An experiment is the identity in the ledger's metadata
together with the protocol that its hashes bind. The constructor's `SELECT` and `INSERT`, and
`append`'s count and its transaction, are steps of their own, so two runs can come between them.
An output file is the set of records it was computed from. A run
may stop at any point and be launched again with another batch size or experiment.

## 3. Runs

| Run | Configuration | Expected | Question |
|---|---|---|---|
| grants | `VoiceIdApi_grants.cfg` | holds | Is a grant a single-use capability, for two handlers, two grants, one nonce, dying handlers, lost responses and purges? |
| templates | `VoiceIdApi_templates.cfg` | holds | Do concurrent enrollments, revocations and purges keep one newest live row, permanent revocation and the window? |
| liveness | `VoiceIdApi_liveness.cfg` | holds | Does every consumption reach the audit log when no handler dies? |
| policy | `VoiceRequest.cfg` | holds | What may be allowed or denied, with each stage failing and each score at its limit? Is `Retry-After` true, are bursts and uploads bounded, and are the segments the speech? |
| revival | `VoiceIdApi_revival.cfg` | violated | Does revocation invalidate a grant for good? |
| reenroll | `VoiceIdApi_reenroll.cfg` | violated | Can an identity that was revoked enroll again? |
| late_enroll | `VoiceIdApi_late_enroll.cfg` | violated | Is a stored template covered by a consent? |
| server | `ServerProcess.cfg` | holds | Does start-up repeat from any stop, and does first use load the model once and block nobody? |
| migration | `ServerProcess_migration.cfg` | violated | Does a version-1 database always reach version 2? |
| first_use | `ServerProcess_first_use.cfg` | violated | Is the model complete for every handler that finds it loaded? |
| scoring | `CorpusScoring.cfg` | holds | Do runs that share a ledger, stop and resume make one scoring, and does provenance vouch for whole files? |
| evaluation | `EvaluationStudy.cfg` | holds | Is a published corpus complete and scorable, do scores come from the named audio, and are thresholds, sweeps, ties and breakdowns what their definitions say? |

What the violated runs show:

- *revival*: `docs/persistence.md` says "revocation or consent expiration invalidates an
  otherwise unexpired grant". `revoke_identity` leaves grants alone and `consume` asks only for
  a consent in force now. Issue, revoke, consent, consume: the old grant is spent.
- *reenroll*: `enroll` takes version 1 when no row is live; `save` wants one more than
  the greatest version of all rows, revoked ones included. Until the purge has deleted them
  the identity cannot enroll, and the `ValueError` has no handler.
- *late_enroll*: consent is read before inference and not again before `save`. A revocation
  in between leaves a live template and no consent row.
- *migration*: a stop after `CREATE TABLE authorization_grants` leaves version 1 and the table.
  `_SQLITE_SCHEMA_V2` has no `IF NOT EXISTS`, so every later start raises `OperationalError`,
  whatever the restart policy does.
- *first_use*: `_classifier` is set before `_torch`, and the first test of `_ensure_loaded`
  reads only `_classifier`. A second handler in between fails the assertion in `encode`, which
  `embed` reports as a failed inference.

**Bounds.** One identity, device, nonce and action: the rows of different identities never meet
in a guard, and a collision of nonces needs one nonce and two grants. Two handlers: every
hazard listed is a race of two. Two grants: the second is what a reused nonce or a purge
between needs. `Lifetime`, `Retention` and `MaxTime` of one or two ticks reach "not yet",
"exactly" and "past" for each comparison. A retention of zero is in no run; the theorem
`RetentionIsHonoured` covers it. `MaxVersion = 3` lets an identity be enrolled,
replaced and enrolled in a race. `MaxConsent` bounds the expiry a client asks for. `MaxTime`
bounds `Tick`, `MaxVersion` bounds the versions a handler may carry to `save`.
`Operations` selects the routes open in a run: *grants* leaves out revocation, which
multiplies its states sixfold; that no revocation takes a grant away is proved
(`HeldGrantsStay`) for all routes together. Symmetry over handlers, grant ids and nonces is used
in the safety runs only. *server*: two handlers, two stops, one failed load, databases of version 0, 1, 2
and 99; the script has seven statements, so two stops reach each pair of them. *scoring*:
two runs, batches of one or two trials, and three experiments (two protocols that share a trial, and one of
them with another model): a protocol of three trials ends with a whole batch and with a short one. *policy*: only the first request of a process is followed
past the middleware, so the limiter's states do not multiply those of the pipeline; all others use up the limiter.
A window of three ticks, two to a second, does not divide into seconds, so that rounding shows; six instants
hold two windows. Two clients, and a limit of two: one admission opens the window and one comes late in it. Chunks of 2, files of
at most 3, 5 in all, bodies of 6 when declared and 12 (`LongestBody`) when not: every limit is met and passed, at a
chunk's end and inside one. Recordings of up to 18 samples, frames of 6 every 2, padding 1, minimum 8: nine
frames in any pattern, padded frames that touch exactly, cut ones at both ends, and a single frame that is
just long enough only away from the ends. *evaluation*: two speakers a partition, a spare one, a spare clip, and one or two clips of each
kind that must not be used; four enrollment clips, one of which may be dropped (`MaxShort` templates are built
without it), so that the minimum of three is met exactly; two preparations (`MaxRuns`), one changed file (`MaxDamage`); one or two scores for each class and
partition over three values: lowest, between and highest, with all ties, and logits that rank the trials
otherwise than the probabilities do. One score suffices where trials are scored, as no
step there reads it. The system always may tick or be called, so deadlock is checked,
except in *policy* and *evaluation*, where a request or a study ends, and the bounded clock leaves calls possible.

**Fairness.** `FairSpec` has weak fairness of `RequestStep(w)` for each handler, in a
configuration without deaths: a thread of the pool that runs a handler keeps running, and
SQLite's lock is held for one transaction only. Clients and the clock are not fair. With
`Faults = TRUE` a consumption may stay without its event for good: `consume_grant` commits before the audit
append begins, and a handler that dies in between leaves a spent grant that the purge then deletes. *liveness* says
only that a handler that lives gets there, however the writes of others come between; *grants* says that no crash
leaves an event without its consumption.
`FairServerSpec` has weak fairness of start-up (`compose.yaml` says `restart: unless-stopped`) and of each
worker thread's call; it lets finitely many stops and load failures happen, and lets clients not call.
One action for all start-up steps suffices, as only one process starts at a time. Weak fairness
is enough for the lock: loads fail finitely often, and once the model is loaded no new call takes it.

## 4. Proofs

Assumptions: `StoreAssumption`, `RequestAssumption`, `EnrollmentAssumption`,
`PolicyAssumption`, `EvidenceAssumption`, `MigrationAssumption`, `RuntimeAssumption`,
`LedgerAssumption`, `ScoringAssumption`, `GateAssumption`, `UploadAssumption`, `SpeechAssumption`,
`ConfigAssumption`, `SpoofCostAssumption`, `StudyAssumption`: types of the constants, and no more than that
`None` is not a number or a record of the model, the lifetime and the batch bound are positive,
thresholds are in order, nobody is called `Free`, a protocol names each trial once, and a source subset has a speaker
once and a speaker a clip once (they are names in a directory). The sets may be infinite and the bounds any numbers.

| Theorem | Module | Says |
|---|---|---|
| `TypeCorrect` | `VoiceIdApi_proofs` | `Spec => []TypeOK` |
| `GrantInvariant` | same | `Spec => []GrantInv`, the inductive invariant |
| `GrantsAreSpentOnce`, `AuditIsTruthful`, `HeldGrantsStay`, `NoncesAreUnique` | same | the four invariants of run *grants* |
| `ImplementsSingleUse` | same | `Spec => SingleUse`, the refinement |
| `LiveIsNewest`, `RetentionIsHonoured`, `RevocationStaysFinal` | same | the properties of run *templates* |
| `AllowIsAlwaysEarned`, `DenialIsAlwaysProven`, `PipelineIsWellTyped` | `VoiceAuthorization_proofs` | the evidence properties and the types of run *policy* |
| `BetterEvidenceNeverEverHurts`, `RiskNeverEverHelps` | same | the policies are monotone, for every policy and all evidence |
| `RetryAfterIsHonest`, `BurstsAreBounded` | `VoiceRequest_proofs` | of `GateSpec`: `Retry-After` is true and bursts are bounded, for every limit, window and clients |
| `UploadsStayBounded` | same | what is read of an upload, and what is passed on, is within the limits, for all limits and bodies |
| `SegmentsAlwaysSound` | same | the detected segments are the stretches of speech that are long enough, for any recording and detector settings |
| `RequestImplementsPipeline`, `RequestImplementsGate` | same | `Spec => AuthSpec` and `Spec => GateSpec`: a request refines its parts |
| `WholeRequestIsSafe` | same | so their theorems hold of whole requests |
| `VersionIsAlwaysEarned`, `CompleteSchemaServes`, `OneClassifierPerProcess`, `ServerIsWellTyped` | `ServerProcess_proofs` | the safety properties of run *server*, for any versions, handlers and number of stops |
| `LedgerStaysPrefix`, `ProvenanceAlwaysVouches`, `ScoringIsWellTyped` | `CorpusScoring_proofs` | the invariants of run *scoring* |
| `ScoringIsResumable` | same | `ScoringSpec => ResumableScoring`, the refinement |
| `ThresholdIsAlwaysCalibrated` | `Calibration_proofs` | the speaker threshold and error rates of run *evaluation* are the optima, for any trials |
| `SweepAlwaysMatchesRates`, `CountermeasureIsAlwaysCalibrated` | `Countermeasure_proofs` | the one-pass sweep counts what the definition counts, and its least cost is the least between 0 and 1 |
| `TiesAlwaysFairlyCounted` | same | the least tandem cost, over all attacks or for one, is the cost at a threshold, for any logits with any ties |
| `BreakdownsAlwaysAddUp` | same | the parts of both reports add up to their wholes, for any conditions and attacks |
| `PublishedIsAlwaysComplete`, `PreparedCorpusAlwaysScores` | `PreparedCorpus_proofs` | a published corpus is complete and scorable, for any sources, configuration and number of runs |
| `ScoresAlwaysComeFromNamedAudio`, `ScoredIsAlwaysAccepted` | same | scores come from the named audio, and are accepted at the end of the run |
| `OnlyDuplicatesAreEverRefused` | same | selection and pairing meet the protocol unless two selected clips are one recording |
| `StudyTypesAlwaysOK` | same | the types of run *evaluation* |

*Grants.* None of the four invariants is inductive. `GrantInv` adds: rows tell the truth (a row is
unconsumed exactly when `spent` is 0: `RowsTellTheTruth`); only stored ids were spent
(`SpentWasStored`), so a fresh id starts unspent; the id of a request about to insert or to
answer is nobody else's (`PendingIsNew`); two rows of a device differ in nonce (`UniqueNonces`,
the table's unique index); an issued token, held or still in a handler, has its row until
it is spent or expired (`IssuedIsKept`); a handler about to audit did consume
(`ConsumerSpent`); and no handler's reading of the clock is ahead of it (`NowIsPast`), without
which a purge could delete a row whose holder still has time. The clock not going back is
the assumption on the environment that this last conjunct stands on.

*Refinement.* A capability is unknown until its row is inserted, open while the row is unconsumed,
closed after that or after the purge. Each action of the API maps to create, use or expire,
or to a set of expiries in one step (a purge), or to a stutter.

*Templates.* The induction carries `Newest` for all pairs of rows, with `save`'s own version
check as the reason: the read outside the transaction plays no part. `RetentionHonoured` needs
`NowIsPast` again; an enrollment's replaced row and a revocation stamp only live rows.

*Authorization.* `PipelineInv` says at each stage what the stages before have accepted or
rejected; the verdict follows from the last stage and the definition of the policy. For monotony,
`VerdictRests` adds that the verdict is the policy's answer to the result, and the result
`decide`'s answer to the evidence when every call succeeded; then `DecideMonotone` and `AuthorizeMonotone` compare
two results without looking at states.

*Requests.* The invariant of the limiter is that a promise outlasts the window it was made for
(`PromisesCoverWindows`), or the window is gone. A refusal keeps it because rounding up covers the rest
of the window (`RetryAfterCovers`), and because a refused request does not move the window's start;
an admission ends the promise. A request implements the pipeline since every action of `VoiceRequest` conjoins
one of its actions or leaves its variables alone; that the computed quality picks among the
outcomes of `ProcessAudio` is what the step for `JudgeQuality` shows.

*Bursts.* `BurstInv` carries the window that each remembered admission fell in. Windows of one client lie a whole window
apart, none has more than `MaxRequests` admissions, and the first of a full one came at its start (`WellSpaced`); the
limiter's entry counts the admissions of the last (`Counts`). The first and the last of `2 * MaxRequests` in a
row are then in windows that are not neighbours, or the first opened a full one; either way a whole window lies between them.

*Uploads.* `Total` is a recursive function, and what it gives for `Append(s, x)` needs an induction. The library's
induction theorems take an operator that the provers cannot instantiate; the lemma takes a least counterexample
instead (`WFMin` with `NatLessThanWellFounded`), and so do the lemmas on finite sets below.

*Segments.* Merging is a fold over the frames, which is a function on the sets of their indices; that it exists is shown
by least counterexample (`FoldExists`). `Merged` says what the first `k` loud frames have become: stretches that
lie apart, the last ending where the last padded frame ends, and together exactly what the padded frames cover. Stretches
that lie apart are the longest stretches of what they cover (`StretchesCovered`), and `Kept` says the same of those
that are long enough. `AddsSoundly` shows that the bound of the speech count by the length of the audio never cuts.
`SpeechInv` adds only that the frames are in order.

*Server.* A database's version says how much of the script must be there, and a running start-up
says how much it has passed: every object before `line` exists, the whole schema from `stamp` on.
This holds although earlier attempts left arbitrary prefixes. For the classifier, at
most one handler is between taking the lock and releasing it, it is the holder, and before it
publishes nothing was built; that is what the second test is for.

*Scoring.* `ScoringInv` says that the rows are the records of a prefix of the bound
experiment; that a run past the constructor is of that experiment; and that a run about to insert
has an offset that is at most the count of rows. Then either its batch starts where
the rows end, or its first record collides with a row and the primary key refuses it: the count that `append`
takes outside its transaction is not what keeps the ledger whole. A publisher has written
the files before the one it is at, so provenance, the last, comes after all others. For the
refinement, the cardinality of a prefix is computed by induction-free facts on intervals.

*Calibration.* The candidates are the observed scores and the two next to the extremes. Any threshold accepts the same
scores as the next candidate at or above it (`SameDecisions`), so the least cost among candidates is the
least of all. Both classes occur in each partition of an accepted manifest, which is why minima exist. That the
property speaks of `report.trials` matters: a later run may have overwritten the file that a report was made from.

*Sweep.* `SweepInv` says where the two cursors stand: all scores before a cursor are below the threshold that comes next,
and all scores from it on are not less than the last threshold swept. With the scores in order, a cursor
then counts what lies below, ties of both classes included. `Complete` says that a finished sweep has every candidate,
and the report's optimum follows like the speaker's.

*Ties.* A point of the tandem curve that stands inside a group of equal scores is compared with two that do not
(`FullPoint`). If it follows a bonafide item, the point before the whole group has fewer misses and as many false accepts;
if it follows a spoof item, the one after the group has as many misses and no more false accepts. Both coefficients are
positive (`CoefficientNumbers`), so the cheapest point has the counts of one that splits no tie, which a threshold
has too (`CheapestIsFull`). That the sort lists bonafide first is needed: the other order refutes it.

*Breakdowns.* A sum over a finite set is one that takes its members away one at a time (`SumExists`). If each part counts
the trials that have its name, the sum over some parts counts the trials that have one of their names (`PartsAddUp`):
all of them when every name occurs, at most all when parts without rates are left out.

*Corpora.* `PreparationInv` says which speakers a staging directory has the recordings of (`Staged`): the first `k` of the
selection, all good, under paths that no two clips share; `WriteSpeaker` finds the next speaker by counting those written. From the
manifest on, what is staged is what the manifest names (`Ready`). `CorpusComplete` keeps of it what `Damage`
leaves, and `ScoringInv` says of a run how far it is: the templates are those of the first enrollments, and the scores
those of the first trials, each from the recording named. `ScoredAccepted` derives the rules of a scored
manifest from those of the audio manifest.

*Pairing.* The number of a trial gives its speaker, probe and label by quotient and remainder, and no two numbers
the same three (`SamePlace`), so trial ids are unique; the next speaker in the circle is another one when there are
two (`NextInCircle`), so both labels occur. `SelectionOK` has speakers and their clips apart, and then two owners of
the same audio are the same clip (`OwnersAgree`) unless two clips are one recording. Counting the trials (`ManifestSize`)
gives the bound on scores in `StudyTypeOK`.

Only model-checked: `ConsumptionIsAudited`, `StartUpCompletes` and `CallsEnd` (liveness, out of the provers' reach).

## 5. Abstractions

- The clock does not go back, and all instants are in one UTC offset (the store compares ISO text). Ids of `uuid4` are fresh. Signatures are perfect. Scores are exact.
- A SQLite transaction is one step: writes are serialized by `BEGIN IMMEDIATE`, and
  readers see a snapshot.
- The audit log is the set of its events: order and hash chain are not modelled.
- One API process uses the database (`compose.yaml` has one service and one worker). The statements of
  the script are whole (`PRAGMA journal_mode` changes nothing that a guard reads).
- Each scoring run has an output directory of its own, and its ledger's path is never handed
  to another corpus. Writing a temporary file and renaming it is one step.
- The limiter runs on the event loop, so one call is one step; GET requests never reach it. The exposition
  of metrics is left out: nothing reads it, and the early answers 400 and 413 are not counted there.
- A frame is loud or not, and any pattern can occur: each frame has samples its predecessor lacks. Noise is
  as low or high as a boolean, forced where there is no speech or nothing else.
- Floats of the evaluation are exact, and a staging directory of a killed preparation is never met again: its name is
  random. Writing one file of a corpus is one step.
- Not modelled: everything listed `not_modelled` in `PROJECT.json`, each with its reason:
  numeric inference, signal processing, encryption and encoding, HTML and layout,
  command-line wrappers.

## 6. Not modelled, and what could come next

Every part of the Python core that keeps state or decides something is modelled. Left out, with the
reason: embedding, spoof detection, drift statistics, calibration fits and bootstrap intervals (floating point
and sampling); encryption, signatures and token encoding (no state; taken as perfect); the model
exports, benchmarks and channel simulations under `scripts/` (numeric pipelines without control to check);
metrics exposition and the error envelope (nothing depends on them); the Swift and web clients (they are not
part of the Python core, and their two known races are listed under the hazards).

Worth adding: `AuditChain`, the order and hash links of `audit_events` with `verify_audit_chain`, and
that it accepts exactly what was not changed; `TimestampText`, text comparison of instants across
UTC offsets against time order; `CompanionWorkflow` and `WebEnrollment`, the clients as
state machines of taps, awaits and answers, the first composed with the interface of
`AuthorizationGrants`; and proofs of the properties that are only model-checked, except the liveness ones.
