------------------------- MODULE IdentityGovernance -------------------------
(***************************************************************************)
(* IdentityGovernanceService: consent, revocation and the retention purge. *)
(* Each operation reads the clock, commits one transaction and appends its *)
(* audit event in a second one. No route or script calls purge_expired; it *)
(* is run here at any time, as an operator's job would.                    *)
(***************************************************************************)
EXTENDS ApiRequests

governanceFrame == <<clock, tokens, stored, spent>>

ConsentBegin(w, i) ==
    /\ Begin(w, "consent", "consent_commit", i)
    /\ UNCHANGED <<governanceFrame, tables, audit>>

\* The client's expires_at is validated against `now`: later than it, by at
\* most the maximum duration.
ConsentCommit(w) ==
    /\ At(w, "consent_commit")
    /\ \E until \in (req[w].at + 1)..(req[w].at + MaxConsent) :
          consents' = PutConsent(consents, req[w].who, req[w].at, until)
    /\ Goto(w, "consent_audit")
    /\ UNCHANGED <<governanceFrame, templates, grants, audit>>

ConsentAudit(w) ==
    /\ At(w, "consent_audit")
    /\ Log("consent_granted", req[w].who)
    /\ Return(w)
    /\ UNCHANGED <<governanceFrame, tables>>

RevokeBegin(w, i) ==
    /\ Begin(w, "revoke", "revoke_commit", i)
    /\ UNCHANGED <<governanceFrame, tables, audit>>

RevokeCommit(w) ==
    /\ At(w, "revoke_commit")
    /\ consents' = DropConsent(consents, req[w].who)
    /\ templates' = RevokeTemplates(templates, req[w].who, req[w].at)
    /\ Goto(w, "revoke_audit")
    /\ UNCHANGED <<governanceFrame, grants, audit>>

RevokeAudit(w) ==
    /\ At(w, "revoke_audit")
    /\ Log("identity_revoked", req[w].who)
    /\ Return(w)
    /\ UNCHANGED <<governanceFrame, tables>>

PurgeBegin(w) ==
    /\ Begin(w, "purge", "purge_commit", None)
    /\ UNCHANGED <<governanceFrame, tables, audit>>

PurgeCommit(w) ==
    /\ At(w, "purge_commit")
    /\ templates' = PurgeTemplates(templates, consents, req[w].at)
    /\ grants' = PurgeGrants(grants, req[w].at)
    /\ Goto(w, "purge_audit")
    /\ UNCHANGED <<governanceFrame, consents, audit>>

PurgeAudit(w) ==
    /\ At(w, "purge_audit")
    /\ Log("retention_purge", "system")
    /\ Return(w)
    /\ UNCHANGED <<governanceFrame, tables>>

GovernanceStep(w) ==
    \/ ConsentCommit(w)
    \/ ConsentAudit(w)
    \/ RevokeCommit(w)
    \/ RevokeAudit(w)
    \/ PurgeCommit(w)
    \/ PurgeAudit(w)

GovernanceRequest(w) ==
    \/ \E i \in Identities : ConsentBegin(w, i)
    \/ \E i \in Identities : RevokeBegin(w, i)
    \/ PurgeBegin(w)
=============================================================================
