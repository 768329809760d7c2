------------------------- MODULE ServerProcess_proofs -------------------------
(***************************************************************************)
(* What start-up and model loading keep in every state, for any databases  *)
(* met, any number of stops and any number of worker threads.              *)
(***************************************************************************)
EXTENDS ServerProcess, TLAPS

\* The statements before line are in place: the script has run them, or they
\* belong to the version that was read.
ScriptInPlace ==
    /\ userVersion = 1 => ObjectsOf(1) \subseteq objects
    /\ phase = "script" => \A n \in 1..7 : n < line => Schema[n] \in objects
    /\ phase \in {"stamp", "ready"} => objects = SchemaObjects

\* Nobody else changes the version that the process has read.
VersionIsSeen ==
    /\ phase \in {"script", "stamp"} => userVersion = seen
    /\ phase = "ready" => userVersion = SCHEMA_VERSION

OnlyReadyServes == \A h \in Handlers : call[h] # "idle" => phase = "ready"

\* The lock protects the steps between the second test and its release.
LoaderHoldsLock ==
    \A h \in Handlers :
        /\ call[h] \in {"recheck", "load", "publish"} => loadLock = h
        /\ call[h] = "load" => ~classifier

BuiltIsLoaded == built = IF classifier THEN 1 ELSE 0

ServerInv ==
    /\ ServerTypeOK
    /\ VersionIsEarned /\ ScriptInPlace /\ VersionIsSeen
    /\ OnlyReadyServes /\ LoaderHoldsLock /\ BuiltIsLoaded

LEMMA SchemaFacts ==
    /\ Len(Schema) = 7
    /\ \A n \in 1..7 : Schema[n] \in SchemaObjects
    /\ \A v : ObjectsOf(v) \subseteq SchemaObjects
    /\ ObjectsOf(2) = SchemaObjects
<1>1. Len(Schema) = 7
    BY DEF Schema
<1>2. \A n \in 1..7 : Schema[n] \in SchemaObjects
    BY DEF SchemaObjects
<1>3. \A v : ObjectsOf(v) \subseteq SchemaObjects
    BY <1>2 DEF ObjectsOf
<1>4. ObjectsOf(2) = SchemaObjects
    BY DEF ObjectsOf
<1> QED BY <1>1, <1>2, <1>3, <1>4

LEMMA InitServer == ServerInit => ServerInv
<1> SUFFICES ASSUME ServerInit PROVE ServerInv
    OBVIOUS
<1> USE DEF ServerInit, MigrationInit, RuntimeInit
<1>1. ServerTypeOK
  <2>1. objects \subseteq SchemaObjects
      BY SchemaFacts
  <2>2. call \in [Handlers -> CallSteps]
      BY DEF CallSteps
  <2>3. stops \in 0..MaxStops /\ failures \in 0..MaxFailures
      BY RuntimeAssumption, MigrationAssumption
  <2>4. classifier \in BOOLEAN /\ torch \in BOOLEAN
      OBVIOUS
  <2>5. /\ userVersion \in StartVersions /\ phase \in Phases
        /\ seen = 0 /\ line \in 1..7 /\ built \in Nat
        /\ loadLock \in Handlers \cup {Free}
      BY DEF Phases
  <2> HIDE DEF ServerInit, MigrationInit, RuntimeInit
  <2> QED BY <2>1, <2>2, <2>3, <2>4, <2>5 DEF ServerTypeOK
<1>2. VersionIsEarned
    BY SchemaFacts DEF VersionIsEarned, SCHEMA_VERSION
<1>4. ScriptInPlace /\ VersionIsSeen
    BY DEF ScriptInPlace, VersionIsSeen
<1>3. OnlyReadyServes /\ LoaderHoldsLock /\ BuiltIsLoaded
    BY DEF OnlyReadyServes, LoaderHoldsLock, BuiltIsLoaded
<1> QED BY <1>1, <1>2, <1>3, <1>4 DEF ServerInv

-----------------------------------------------------------------------------

\* While the process starts, no handler runs and the runtime stays as it was.
LEMMA StartUpStep == ASSUME ServerInv, StartUp PROVE ServerInv'
<1> USE DEF ServerInv
<1>1. LoaderHoldsLock' /\ BuiltIsLoaded'
    BY DEF StartUp, runtimeVars, LoaderHoldsLock, BuiltIsLoaded
<1>2. phase # "ready" /\ UNCHANGED <<call, stops>>
    BY DEF StartUp, runtimeVars, Launch, Initialize, ReadVersion, RunStatement, Stamp
<1>3. OnlyReadyServes'
    BY <1>2 DEF OnlyReadyServes
<1>4. /\ classifier' \in BOOLEAN /\ torch' \in BOOLEAN
      /\ loadLock' \in Handlers \cup {Free}
      /\ call' \in [Handlers -> CallSteps]
      /\ built' \in Nat /\ failures' \in 0..MaxFailures
      /\ stops' \in 0..MaxStops
    BY <1>2 DEF StartUp, runtimeVars, ServerTypeOK
<1>5. CASE Launch
    BY <1>1, <1>3, <1>4, <1>5
       DEF Launch, diskVars, ServerTypeOK, Phases, VersionIsEarned, ScriptInPlace,
           VersionIsSeen
<1>6. CASE ReadVersion
  <2>1. /\ UNCHANGED <<userVersion, objects>>
        /\ phase' \in {"script", "down"}
        /\ phase' = "script" =>
             /\ seen' = userVersion /\ userVersion \in {0, 1, SCHEMA_VERSION}
             /\ line' = IF userVersion = 1 THEN 6 ELSE 1
        /\ phase' = "down" => UNCHANGED <<seen, line>>
      BY <1>6 DEF ReadVersion, diskVars, FirstLine
  <2>2. ServerTypeOK'
      BY <1>4, <2>1 DEF ServerTypeOK, Phases
  <2>3. phase' = "script" => \A n \in 1..7 : n < line' => Schema[n] \in objects
    <3>1. CASE userVersion = 1
        BY <2>1, <3>1 DEF ScriptInPlace, ObjectsOf
    <3>2. CASE userVersion # 1
        BY <2>1, <3>2
    <3> QED BY <3>1, <3>2
  <2>4. ScriptInPlace' /\ VersionIsEarned' /\ VersionIsSeen'
      BY <2>1, <2>3 DEF ScriptInPlace, VersionIsEarned, VersionIsSeen
  <2> QED BY <1>1, <1>3, <2>2, <2>4
<1>7. CASE RunStatement
  <2>1. line \in 1..7 /\ objects \subseteq SchemaObjects /\ phase = "script"
      BY <1>7 DEF ServerTypeOK, RunStatement
  <2>2. CASE Strict(seen) /\ Schema[line] \in objects
      BY <1>1, <1>3, <1>4, <1>7, <2>2
         DEF RunStatement, ServerTypeOK, Phases, VersionIsEarned, ScriptInPlace,
             VersionIsSeen
  <2>3. CASE ~(Strict(seen) /\ Schema[line] \in objects)
    <3>1. /\ UNCHANGED <<userVersion, seen>>
          /\ objects' = objects \cup {Schema[line]}
          /\ \/ line < 7 /\ line' = line + 1 /\ phase' = "script"
             \/ line = 7 /\ line' = line /\ phase' = "stamp"
        BY <1>7, <2>1, <2>3, SchemaFacts DEF RunStatement
    <3>2. objects' \subseteq SchemaObjects
        BY <2>1, <3>1, SchemaFacts
    <3>3. \A n \in 1..7 : n <= line => Schema[n] \in objects'
        BY <2>1, <3>1 DEF ScriptInPlace
    <3>4. phase' = "stamp" => objects' = SchemaObjects
        BY <2>1, <3>1, <3>2, <3>3 DEF SchemaObjects
    <3>5. ServerTypeOK'
        BY <1>4, <2>1, <3>1, <3>2 DEF ServerTypeOK, Phases
    <3>6. ScriptInPlace'
        BY <2>1, <3>1, <3>3, <3>4 DEF ScriptInPlace
    <3>7. VersionIsEarned' /\ VersionIsSeen'
        BY <2>1, <3>1, <3>2 DEF VersionIsEarned, VersionIsSeen
    <3> QED BY <1>1, <1>3, <3>5, <3>6, <3>7
  <2> QED BY <2>2, <2>3
<1>8. CASE Stamp
  <2>1. /\ objects = SchemaObjects /\ userVersion = seen
        /\ seen \in {0, 1, SCHEMA_VERSION}
        /\ userVersion' = SCHEMA_VERSION /\ phase' = "ready"
        /\ UNCHANGED <<objects, seen, line>>
      BY <1>8 DEF Stamp, ServerTypeOK, ScriptInPlace, VersionIsSeen
  <2> QED
      BY <1>1, <1>3, <1>4, <2>1
         DEF ServerTypeOK, Phases, VersionIsEarned, ScriptInPlace, VersionIsSeen,
             SCHEMA_VERSION
<1> QED BY <1>5, <1>6, <1>7, <1>8 DEF StartUp, Initialize

LEMMA CrashStep == ASSUME ServerInv, Crash PROVE ServerInv'
<1> USE DEF ServerInv
<1>1. /\ UNCHANGED <<userVersion, objects, seen, line, failures>>
      /\ phase' = "down" /\ stops' \in 0..MaxStops
      /\ classifier' = FALSE /\ torch' = FALSE /\ loadLock' = Free /\ built' = 0
      /\ call' = [h \in Handlers |-> "idle"]
    BY MigrationAssumption DEF Crash, Stop, diskVars, LoseRuntime, ServerTypeOK
<1>2. ServerTypeOK'
    BY <1>1 DEF ServerTypeOK, Phases, CallSteps
<1>3. VersionIsEarned' /\ ScriptInPlace' /\ VersionIsSeen'
    BY <1>1 DEF VersionIsEarned, ScriptInPlace, VersionIsSeen
<1>4. OnlyReadyServes' /\ LoaderHoldsLock' /\ BuiltIsLoaded'
    BY <1>1 DEF OnlyReadyServes, LoaderHoldsLock, BuiltIsLoaded
<1> QED BY <1>2, <1>3, <1>4

\* A step of one handler moves only its own call.
LEMMA HandlerStep ==
    ASSUME ServerInv, NEW h \in Handlers, Serve(h) \/ Request(h) PROVE ServerInv'
<1> USE DEF ServerInv
<1>1. /\ UNCHANGED <<userVersion, objects, phase, seen, line, stops>>
      /\ phase = "ready"
    BY DEF Serve, Request, schemaVars, diskVars
<1>2. VersionIsEarned' /\ ScriptInPlace' /\ VersionIsSeen' /\ OnlyReadyServes'
    BY <1>1 DEF VersionIsEarned, ScriptInPlace, VersionIsSeen, OnlyReadyServes
<1>3. /\ call \in [Handlers -> CallSteps] /\ built \in Nat
      /\ loadLock \in Handlers \cup {Free}
      /\ failures \in 0..MaxFailures
    BY DEF ServerTypeOK
<1>4. EncodeStep(h) \/ Encode(h)
    BY DEF Serve, Request
<1>5. /\ call' \in [Handlers -> CallSteps]
      /\ \A k \in Handlers \ {h} : call'[k] = call[k]
    BY <1>3, <1>4
       DEF EncodeStep, Encode, Move, CallSteps, CheckLoaded, Acquire, Recheck,
           LoadFails, BuildClassifier, PublishTorch, AssertLoaded, Infer
<1>6. ServerTypeOK'
  <2>1. classifier' \in BOOLEAN /\ torch' \in BOOLEAN
      BY <1>4
         DEF ServerTypeOK, EncodeStep, Encode, CheckLoaded, Acquire, Recheck,
             LoadFails, BuildClassifier, PublishTorch, AssertLoaded, Infer
  <2>2. loadLock' \in Handlers \cup {Free}
      BY <1>3, <1>4
         DEF EncodeStep, Encode, CheckLoaded, Acquire, Recheck,
             LoadFails, BuildClassifier, PublishTorch, AssertLoaded, Infer
  <2>3. built' \in Nat /\ failures' \in 0..MaxFailures
      BY <1>3, <1>4, RuntimeAssumption
         DEF EncodeStep, Encode, CheckLoaded, Acquire, Recheck,
             LoadFails, BuildClassifier, PublishTorch, AssertLoaded, Infer
  <2> QED BY <1>1, <1>5, <2>1, <2>2, <2>3 DEF ServerTypeOK
<1>7. BuiltIsLoaded'
  <2>1. CASE BuildClassifier(h)
    <3>1. classifier' = TRUE /\ built' = built + 1
        BY <2>1 DEF BuildClassifier
    <3>2. classifier = FALSE
      <4>1. call[h] = "load"
          BY <2>1 DEF BuildClassifier, Move
      <4>2. ~classifier
          BY <4>1 DEF LoaderHoldsLock
      <4> QED BY <4>2 DEF ServerTypeOK
    <3> QED BY <1>3, <3>1, <3>2 DEF BuiltIsLoaded
  <2>2. CASE ~BuildClassifier(h)
    <3>1. UNCHANGED <<classifier, built>>
        BY <1>4, <2>2 DEF EncodeStep, Encode, CheckLoaded, Acquire, Recheck,
               LoadFails, PublishTorch, AssertLoaded, Infer
    <3> QED BY <3>1 DEF BuiltIsLoaded
  <2> QED BY <2>1, <2>2
<1>8. LoaderHoldsLock'
  <2>1. CASE Encode(h) \/ CheckLoaded(h) \/ AssertLoaded(h) \/ Infer(h)
    <3>1. /\ UNCHANGED <<classifier, loadLock>>
          /\ call'[h] \notin {"recheck", "load", "publish"}
        BY <1>3, <2>1 DEF Encode, CheckLoaded, AssertLoaded, Infer, Move
    <3> QED BY <1>5, <3>1 DEF LoaderHoldsLock
  <2>2. CASE Acquire(h)
    <3>1. /\ loadLock = Free /\ loadLock' = h /\ call'[h] = "recheck"
          /\ UNCHANGED classifier
        BY <1>3, <2>2 DEF Acquire, Move
    <3> QED BY <1>5, <3>1, RuntimeAssumption DEF LoaderHoldsLock
  <2>3. CASE Recheck(h) \/ LoadFails(h) \/ BuildClassifier(h) \/ PublishTorch(h)
    <3>1. call[h] \in {"recheck", "load", "publish"} /\ loadLock = h
        BY <2>3 DEF Recheck, LoadFails, BuildClassifier, PublishTorch, Move,
               LoaderHoldsLock
    <3>2. \A k \in Handlers \ {h} : call'[k] \notin {"recheck", "load", "publish"}
        BY <1>5, <3>1 DEF LoaderHoldsLock
    <3>3. /\ call'[h] \in {"recheck", "load", "publish"} => loadLock' = h
          /\ call'[h] = "load" => ~classifier'
        BY <1>3, <2>3, <3>1
           DEF Recheck, LoadFails, BuildClassifier, PublishTorch, Move
    <3> QED BY <3>2, <3>3 DEF LoaderHoldsLock
  <2> QED BY <1>4, <2>1, <2>2, <2>3 DEF EncodeStep
<1> QED BY <1>2, <1>6, <1>7, <1>8

LEMMA ServerStep == ASSUME ServerInv, [ServerNext]_serverVars PROVE ServerInv'
<1>1. CASE UNCHANGED serverVars
    BY <1>1 DEF ServerInv, serverVars, schemaVars, runtimeVars, ServerTypeOK,
           VersionIsEarned, ScriptInPlace, VersionIsSeen, OnlyReadyServes,
           LoaderHoldsLock, BuiltIsLoaded
<1> QED BY <1>1, StartUpStep, CrashStep, HandlerStep DEF ServerNext

\* Every state of the server process is well typed and consistent.
THEOREM ServerInvariant == ServerSpec => []ServerInv
<1> QED BY InitServer, ServerStep, PTL DEF ServerSpec

\* The version on disk never runs ahead of the tables, wherever processes stop.
THEOREM VersionIsAlwaysEarned == ServerSpec => []VersionIsEarned
<1>1. ServerInv => VersionIsEarned
    BY DEF ServerInv
<1> QED BY <1>1, ServerInvariant, PTL

\* Requests are served from a complete database only.
THEOREM CompleteSchemaServes == ServerSpec => []ServesCompleteSchema
<1>1. ServerInv => ServesCompleteSchema
    BY DEF ServerInv, OnlyReadyServes, ScriptInPlace, VersionIsSeen,
           ServesCompleteSchema
<1> QED BY <1>1, ServerInvariant, PTL

\* Any number of simultaneous first calls build one classifier.
THEOREM OneClassifierPerProcess == ServerSpec => []ClassifierBuiltOnce
<1>1. ServerInv => ClassifierBuiltOnce
    BY DEF ServerInv, BuiltIsLoaded, ClassifierBuiltOnce
<1> QED BY <1>1, ServerInvariant, PTL

\* No step of the server leaves the types of its state.
THEOREM ServerIsWellTyped == ServerSpec => []ServerTypeOK
<1>1. ServerInv => ServerTypeOK
    BY DEF ServerInv
<1> QED BY <1>1, ServerInvariant, PTL
=============================================================================
