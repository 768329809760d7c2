------------------------------ MODULE VoiceIdApi ------------------------------
(***************************************************************************)
(* The durable API of build_durable_container: enrollment, governance and  *)
(* grants over one SQLite database, their requests interleaved.            *)
(***************************************************************************)
EXTENDS IdentityGovernance, TemplateEnrollment, AuthorizationGrants

Init ==
    /\ clock = 0
    /\ consents = [i \in Identities |-> None]
    /\ templates = {}
    /\ grants = [g \in GrantIds |-> None]
    /\ audit = {}
    /\ tokens = {}
    /\ req = [w \in Workers |-> Idle]
    /\ stored = {}
    /\ spent = [g \in GrantIds |-> 0]

\* The next repository call, audit append or return of the request w runs.
RequestStep(w) == GovernanceStep(w) \/ EnrollmentStep(w) \/ GrantStep(w)

NewRequest(w) == GovernanceRequest(w) \/ EnrollmentRequest(w) \/ GrantRequest(w)

Next ==
    \/ Tick
    \/ \E w \in Workers : RequestStep(w) \/ NewRequest(w) \/ Abort(w)

Spec == Init /\ [][Next]_vars

\* A started handler runs on; clients need not call, the clock need not tick.
FairSpec == Spec /\ \A w \in Workers : WF_vars(RequestStep(w))

-----------------------------------------------------------------------------
(* Safety                                                                   *)

AuditEvents ==
    ({"consent_granted", "identity_revoked"} \X Identities)
    \cup {<<"retention_purge", "system">>}
    \cup ({"authorization_grant_decision"} \X (Identities \cup GrantIds))
    \cup ({"authorization_grant_consumed"} \X GrantIds)

TypeOK ==
    /\ clock \in Nat
    /\ consents \in [Identities -> ConsentRow \cup {None}]
    /\ templates \subseteq TemplateRow
    /\ grants \in [GrantIds -> GrantRow \cup {None}]
    /\ audit \subseteq AuditEvents
    /\ tokens \subseteq Claims
    /\ req \in [Workers -> Requests]
    /\ \A w \in Workers : WellFormed(req[w])
    /\ stored \subseteq GrantIds
    /\ spent \in [GrantIds -> Nat]

\* A grant is consumed at most once, whatever requests race, die or are
\* replayed, and also after the purge has deleted its row.
SpentAtMostOnce == \A g \in GrantIds : spent[g] <= 1

\* A device that holds a token unspent and unexpired can still redeem it: the
\* purge, revocations and other grants never take its row away early.
HeldGrantRedeemable ==
    \A c \in tokens :
        spent[c.id] = 0 /\ clock < c.expires
            => SpendableRow(grants[c.id], c, clock)

\* Although the purge forgets nonces, a device never holds two usable tokens
\* that were issued for the same nonce.
OneUsableTokenPerNonce ==
    \A c, d \in tokens :
        /\ c.device = d.device /\ c.nonce = d.nonce
        /\ clock < c.expires /\ clock < d.expires
        /\ spent[c.id] = 0 /\ spent[d.id] = 0
        => c = d

\* The audit log never claims a consumption that did not happen: the loser of
\* a race for a grant leaves no event.
AuditedConsumptionHappened ==
    \A g \in GrantIds :
        <<"authorization_grant_consumed", g>> \in audit => spent[g] = 1

\* Versions identify the rows of an identity and the live row is the newest,
\* so get_active is never ambiguous and never goes back to an old template.
LiveTemplateIsNewest ==
    \A r, s \in templates :
        r.identity = s.identity =>
            /\ r.version = s.version => r = s
            /\ r.revoked = None => s.version <= r.version

SameTemplate(r, s) == r.identity = s.identity /\ r.version = s.version

\* A step removes a template only if its recorded revocation is at least the
\* retention window old; one still live goes only when there is no window.
RetentionHonoured ==
    [][\A r \in templates :
          (\A s \in templates' : ~SameTemplate(r, s)) =>
             IF r.revoked = None THEN Retention = 0
                                 ELSE r.revoked + Retention <= clock]_vars

\* Revocation is permanent: until its row is deleted, a revoked template keeps
\* the instant of its revocation, so nothing revives it or renews its window.
RevocationIsFinal ==
    [][\A r \in templates, s \in templates' :
          SameTemplate(r, s) /\ r.revoked # None => s.revoked = r.revoked]_vars

\* A capability is open while a row holds it unconsumed.
CapStatus ==
    [g \in GrantIds |->
        IF g \notin stored THEN "unknown"
        ELSE IF grants[g] # None /\ grants[g].consumed = None THEN "open"
                                                              ELSE "closed"]

Capability == INSTANCE SingleUseCapability WITH
    Ids <- GrantIds, status <- CapStatus, uses <- spent

\* The grant store implements a set of single-use capabilities.
SingleUse == Capability!CapSpec

-----------------------------------------------------------------------------
(* Liveness                                                                 *)

\* When no handler dies, every consumption enters the audit log.
ConsumptionIsAudited ==
    \A g \in GrantIds :
        spent[g] > 0 ~> <<"authorization_grant_consumed", g>> \in audit

-----------------------------------------------------------------------------
(* What the documentation says and the code does not keep.                  *)

\* docs/persistence.md: revocation invalidates an otherwise unexpired grant.
RevocationInvalidatesGrant ==
    \A g \in GrantIds :
        [](/\ grants[g] # None
           /\ spent[g] = 0
           /\ consents[grants[g].claims.identity] = None
           => [](spent[g] = 0))

\* ports/repositories.py: save persists a new active version. In a system with
\* one worker no other request interferes, so save finds the version it expects.
EnrollmentIsStored ==
    \A w \in Workers :
        At(w, "enroll_save")
            => VersionExpected(templates, req[w].who, req[w].version)

\* docs/persistence.md: enrollment is consent-gated and revocation withdraws
\* consent and template together, so no live template lacks a consent row.
LiveTemplateHasConsent ==
    \A r \in templates : r.revoked = None => consents[r.identity] # None
=============================================================================
