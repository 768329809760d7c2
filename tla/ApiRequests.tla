----------------------------- MODULE ApiRequests -----------------------------
(***************************************************************************)
(* What the handlers of the durable API share. FastAPI runs the handlers   *)
(* in a thread pool, so requests interleave; a worker is one thread and    *)
(* req[w] is the local state of the request it runs. Between two steps of  *)
(* a worker any step of another may happen: a handler opens a new SQLite   *)
(* connection for each repository call and holds no lock across calls.     *)
(***************************************************************************)
EXTENDS BiometricStore

CONSTANTS
    Workers,     \* threads that run handlers
    Operations,  \* the service operations the clients of an instance call
    Faults,      \* TRUE iff a handler may die and a response may be lost
    MaxTime      \* bound of the clock

VARIABLES
    clock,       \* datetime.now(UTC), in ticks
    consents,    \* table consents
    templates,   \* table voice_templates
    grants,      \* table authorization_grants
    audit,       \* table audit_events: the set of <<action, subject>> appended
    tokens,      \* the grants whose token a device has received
    req,         \* the request each worker runs
    stored,      \* ghost: the grants that issue_grant ever inserted
    spent        \* ghost: how often consume_grant returned each grant

tables == <<consents, templates, grants>>
vars == <<clock, consents, templates, grants, audit, tokens, req, stored, spent>>

ASSUME RequestAssumption ==
    /\ Operations \subseteq {"consent", "revoke", "purge", "enroll", "issue", "consume"}
    /\ Faults \in BOOLEAN
    /\ MaxTime \in Nat

Steps == {"idle",
          "consent_commit", "consent_audit", "revoke_commit", "revoke_audit",
          "purge_commit", "purge_audit",
          "enroll_consent", "enroll_read", "enroll_save",
          "issue_consent", "issue_template", "issue_decide", "issue_insert",
          "issue_audit", "refuse_audit",
          "consume_consent", "consume_commit", "consume_audit"}

\* who: identity_id; at: the handler's `now`; version: the template version
\* enroll computed; grant: the claims the handler issues or consumes.
Requests == [step: Steps, who: Identities \cup {None}, at: Nat, version: Nat,
             grant: Claims \cup {None}]

GrantSteps == {"issue_insert", "issue_audit",
               "consume_consent", "consume_commit", "consume_audit"}

\* Which parts of its local state a handler has filled in at which step.
WellFormed(r) ==
    /\ r.step \notin {"idle", "purge_commit", "purge_audit"} => r.who # None
    /\ r.step \in GrantSteps => r.grant # None
    /\ r.step = "enroll_save" => r.version # 0

Idle == [step |-> "idle", who |-> None, at |-> 0, version |-> 0, grant |-> None]

At(w, step) == req[w].step = step

\* A handler starts and reads the clock.
Begin(w, op, step, i) ==
    /\ op \in Operations
    /\ At(w, "idle")
    /\ req' = [req EXCEPT ![w] =
                 [Idle EXCEPT !.step = step, !.who = i, !.at = clock]]

Goto(w, step) == req' = [req EXCEPT ![w].step = step]

\* The handler returns or raises; either way its local state is gone.
Return(w) == req' = [req EXCEPT ![w] = Idle]

Log(event, subject) == audit' = audit \cup {<<event, subject>>}

-----------------------------------------------------------------------------
(* The environment.                                                         *)

Tick ==
    /\ clock < MaxTime
    /\ clock' = clock + 1
    /\ UNCHANGED <<tables, audit, tokens, req, stored, spent>>

\* The handler dies between two repository calls: the process is killed and
\* restarted (then every worker takes this step), or the next call raises
\* (database locked for 5 s, disk full). Committed transactions stay.
Abort(w) ==
    /\ Faults
    /\ ~At(w, "idle")
    /\ Return(w)
    /\ UNCHANGED <<clock, tables, audit, tokens, stored, spent>>
=============================================================================
