--------------------------- MODULE SchemaMigration ---------------------------
(***************************************************************************)
(* SqliteBiometricRepository.initialize, called by build_durable_container *)
(* each time the API process starts. executescript commits every statement *)
(* by itself, so the process may stop, and a statement may raise (full     *)
(* disk, lock held for too long), with any prefix of the script in place.  *)
(***************************************************************************)
EXTENDS Naturals, Sequences

CONSTANTS
    StartVersions,  \* user_version of the databases a process may meet
    MaxStops        \* bound: how often the process stops before it is done

ASSUME MigrationAssumption == StartVersions \subseteq Nat /\ MaxStops \in Nat

VARIABLES
    userVersion,    \* PRAGMA user_version, on disk
    objects,        \* tables and indexes on disk
    phase,          \* where the process is: "down" .. "ready"
    seen,           \* local variable version
    line,           \* the next statement of the script
    stops

diskVars == <<userVersion, objects>>
schemaVars == <<userVersion, objects, phase, seen, line, stops>>

SCHEMA_VERSION == 2

\* The statements of _SQLITE_SCHEMA in order; _SQLITE_SCHEMA_V2 has the last two.
Schema == <<"voice_templates", "one_active_template_per_identity", "consents",
            "one_active_consent_per_identity", "audit_events",
            "authorization_grants", "authorization_grants_expiration">>

SchemaObjects == {Schema[n] : n \in 1..7}

\* A process that counts the statements from zero.
FirstLineZero(version) == IF version = 1 THEN 5 ELSE 0

\* A process that runs the migration on every database.
FirstLineMigration(version) == 6

FirstLine(version) == IF version = 1 THEN 6 ELSE 1

\* A full script whose statements do not tolerate what exists.
AlwaysStrict(version) == TRUE

\* _SQLITE_SCHEMA_V2 creates without IF NOT EXISTS.
Strict(version) == version = 1

\* What a database of that version holds.
ObjectsOf(version) ==
    CASE version = 0 -> {}
      [] version = 1 -> {Schema[n] : n \in 1..5}
      [] OTHER -> SchemaObjects

MigrationInit ==
    /\ userVersion \in StartVersions
    /\ objects = ObjectsOf(userVersion)
    /\ phase = "down"
    /\ seen = 0
    /\ line = 1
    /\ stops = 0

Launch ==
    /\ phase = "down"
    /\ phase' = "read"
    /\ UNCHANGED <<diskVars, seen, line, stops>>

\* A process that stamps the new version first.
ReadVersionStampFirst ==
    /\ phase = "read"
    /\ IF userVersion \in {0, 1, SCHEMA_VERSION}
       THEN /\ phase' = "script"
            /\ seen' = userVersion
            /\ line' = FirstLine(userVersion)
            /\ userVersion' = SCHEMA_VERSION
       ELSE /\ phase' = "down"
            /\ UNCHANGED <<userVersion, seen, line>>
    /\ UNCHANGED <<objects, stops>>

\* An unsupported version raises and the process exits.
ReadVersion ==
    /\ phase = "read"
    /\ IF userVersion \in {0, 1, SCHEMA_VERSION}
       THEN /\ phase' = "script"
            /\ seen' = userVersion
            /\ line' = FirstLine(userVersion)
       ELSE /\ phase' = "down"
            /\ UNCHANGED <<seen, line>>
    /\ UNCHANGED <<diskVars, stops>>

\* One CREATE statement; creating what exists raises OperationalError.
RunStatement ==
    /\ phase = "script"
    /\ IF Strict(seen) /\ Schema[line] \in objects
       THEN /\ phase' = "down"
            /\ UNCHANGED <<objects, line>>
       ELSE /\ objects' = objects \cup {Schema[line]}
            /\ IF line < Len(Schema)
               THEN line' = line + 1 /\ UNCHANGED phase
               ELSE phase' = "stamp" /\ UNCHANGED line
    /\ UNCHANGED <<userVersion, seen, stops>>

Stamp ==
    /\ phase = "stamp"
    /\ userVersion' = IF seen \in {0, 1} THEN SCHEMA_VERSION ELSE userVersion
    /\ phase' = "ready"
    /\ UNCHANGED <<objects, seen, line, stops>>

\* The process dies or a statement raises; what was committed stays.
Stop ==
    /\ phase # "down"
    /\ stops < MaxStops
    /\ stops' = stops + 1
    /\ phase' = "down"
    /\ UNCHANGED <<diskVars, seen, line>>

Initialize == ReadVersion \/ RunStatement \/ Stamp
=============================================================================
