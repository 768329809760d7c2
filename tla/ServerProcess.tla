---------------------------- MODULE ServerProcess ----------------------------
(***************************************************************************)
(* The life of the API process: build_durable_container prepares the       *)
(* database, then worker threads serve requests and load the speaker model *)
(* at the first one. compose.yaml restarts a process that has stopped.     *)
(***************************************************************************)
EXTENDS SchemaMigration, EcapaRuntime

serverVars == <<schemaVars, runtimeVars>>

ServerInit == MigrationInit /\ RuntimeInit

StartUp == (Launch \/ Initialize) /\ UNCHANGED runtimeVars

Serve(h) == phase = "ready" /\ EncodeStep(h) /\ UNCHANGED schemaVars

Request(h) == phase = "ready" /\ Encode(h) /\ UNCHANGED schemaVars

Crash == Stop /\ LoseRuntime

ServerNext ==
    \/ StartUp
    \/ Crash
    \/ \E h \in Handlers : Serve(h) \/ Request(h)

ServerSpec == ServerInit /\ [][ServerNext]_serverVars

\* The restart policy brings the process up again, a started process goes on,
\* and so does each worker thread; clients need not call.
FairServerSpec ==
    /\ ServerSpec
    /\ WF_serverVars(StartUp)
    /\ \A h \in Handlers : WF_serverVars(Serve(h))

-----------------------------------------------------------------------------

Phases == {"down", "read", "script", "stamp", "ready"}

ServerTypeOK ==
    /\ userVersion \in StartVersions \cup {SCHEMA_VERSION}
    /\ objects \subseteq SchemaObjects
    /\ phase \in Phases
    /\ seen \in {0, 1, SCHEMA_VERSION}
    /\ line \in 1..7
    /\ stops \in 0..MaxStops
    /\ classifier \in BOOLEAN /\ torch \in BOOLEAN
    /\ loadLock \in Handlers \cup {Free}
    /\ call \in [Handlers -> CallSteps]
    /\ built \in Nat
    /\ failures \in 0..MaxFailures

\* Wherever a process stops, the recorded version never runs ahead of the
\* tables: a database that says 2 has every object of the schema.
VersionIsEarned == userVersion = SCHEMA_VERSION => objects = SchemaObjects

\* A request is served only from a complete database of the current version,
\* whatever version and whatever remains of earlier attempts start-up met.
ServesCompleteSchema ==
    \A h \in Handlers :
        call[h] # "idle" => objects = SchemaObjects /\ userVersion = SCHEMA_VERSION

\* However many handlers find the model missing at once, a process builds the
\* classifier once.
ClassifierBuiltOnce == built <= 1

\* A new or a current database comes up, wherever earlier attempts stopped.
StartUpCompletes == userVersion \in {0, SCHEMA_VERSION} ~> phase = "ready"

\* No call waits for the lock for ever, also when loading fails.
CallsEnd == \A h \in Handlers : call[h] # "idle" ~> call[h] = "idle"

-----------------------------------------------------------------------------
(* What the documentation or an assertion says and the code does not keep.  *)

\* docs/persistence.md: schema version 2 migrates a version-1 database.
MigrationCompletes == userVersion = 1 ~> userVersion = SCHEMA_VERSION

\* speechbrain_ecapa.py: assert self._torch is not None after _ensure_loaded.
LoadedMeansLoaded == \A h \in Handlers : call[h] = "assert" => torch /\ classifier
=============================================================================
