----------------------------- MODULE EcapaRuntime -----------------------------
(***************************************************************************)
(* SpeechBrainRuntime: the model is loaded by the first call that needs    *)
(* it, with a test outside the lock and one inside. The worker threads of  *)
(* the API share one runtime.                                              *)
(***************************************************************************)
EXTENDS Naturals

CONSTANTS
    Handlers,       \* worker threads
    Free,           \* the holder of a lock that nobody holds
    MaxFailures     \* bound: how often loading fails

ASSUME RuntimeAssumption == Free \notin Handlers /\ MaxFailures \in Nat

VARIABLES
    classifier,     \* _classifier is not None
    torch,          \* _torch is not None
    loadLock,       \* who holds _load_lock
    call,           \* the next step of each handler's encode
    built,          \* classifiers this process has built
    failures

runtimeVars == <<classifier, torch, loadLock, call, built, failures>>

CallSteps == {"idle", "check", "acquire", "recheck", "load", "publish",
              "assert", "infer"}

RuntimeInit ==
    /\ classifier = FALSE
    /\ torch = FALSE
    /\ loadLock = Free
    /\ call = [h \in Handlers |-> "idle"]
    /\ built = 0
    /\ failures = 0

Move(h, from, to) ==
    /\ call[h] = from
    /\ call' = [call EXCEPT ![h] = to]

Encode(h) ==
    /\ Move(h, "idle", "check")
    /\ UNCHANGED <<classifier, torch, loadLock, built, failures>>

\* The test without the lock.
CheckLoaded(h) ==
    /\ Move(h, "check", IF classifier THEN "assert" ELSE "acquire")
    /\ UNCHANGED <<classifier, torch, loadLock, built, failures>>

Acquire(h) ==
    /\ loadLock = Free
    /\ loadLock' = h
    /\ Move(h, "acquire", "recheck")
    /\ UNCHANGED <<classifier, torch, built, failures>>

\* A loader that relies on the test without the lock.
RecheckSkipped(h) ==
    /\ Move(h, "recheck", "load")
    /\ UNCHANGED <<classifier, torch, loadLock, built, failures>>

\* The test with the lock; another handler may have loaded in the meantime.
Recheck(h) ==
    /\ IF classifier
       THEN Move(h, "recheck", "assert") /\ loadLock' = Free
       ELSE Move(h, "recheck", "load") /\ UNCHANGED loadLock
    /\ UNCHANGED <<classifier, torch, built, failures>>

\* A failure that leaves the lock to nobody.
LoadFailsLocked(h) ==
    /\ failures < MaxFailures
    /\ failures' = failures + 1
    /\ Move(h, "load", "idle")
    /\ UNCHANGED <<classifier, torch, loadLock, built>>

\* An import or from_hparams raises; the with statement releases the lock.
LoadFails(h) ==
    /\ failures < MaxFailures
    /\ failures' = failures + 1
    /\ Move(h, "load", "idle")
    /\ loadLock' = Free
    /\ UNCHANGED <<classifier, torch, built>>

BuildClassifier(h) ==
    /\ Move(h, "load", "publish")
    /\ classifier' = TRUE
    /\ built' = built + 1
    /\ UNCHANGED <<torch, loadLock, failures>>

\* The second attribute is set, and the lock released.
PublishTorch(h) ==
    /\ Move(h, "publish", "assert")
    /\ torch' = TRUE
    /\ loadLock' = Free
    /\ UNCHANGED <<classifier, built, failures>>

\* assert self._torch is not None, assert self._classifier is not None; embed
\* turns an AssertionError into a failed inference.
AssertLoaded(h) ==
    /\ Move(h, "assert", IF torch /\ classifier THEN "infer" ELSE "idle")
    /\ UNCHANGED <<classifier, torch, loadLock, built, failures>>

\* The embedding is returned, or the inference raises.
Infer(h) ==
    /\ Move(h, "infer", "idle")
    /\ UNCHANGED <<classifier, torch, loadLock, built, failures>>

EncodeStep(h) ==
    \/ CheckLoaded(h) \/ Acquire(h) \/ Recheck(h) \/ LoadFails(h)
    \/ BuildClassifier(h) \/ PublishTorch(h) \/ AssertLoaded(h) \/ Infer(h)

\* The process is gone, and its memory with it.
LoseRuntime ==
    /\ classifier' = FALSE
    /\ torch' = FALSE
    /\ loadLock' = Free
    /\ call' = [h \in Handlers |-> "idle"]
    /\ built' = 0
    /\ UNCHANGED failures
=============================================================================
