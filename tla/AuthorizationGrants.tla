------------------------- MODULE AuthorizationGrants -------------------------
(***************************************************************************)
(* AuthorizationGrantService in durable mode: issue, which runs the whole  *)
(* of ActionAuthorizationService.authorize and so of VerificationService.  *)
(* verify, and consume. The verification's outcome for an enrolled         *)
(* identity depends on audio alone and is chosen without constraint.       *)
(***************************************************************************)
EXTENDS ApiRequests

grantFrame == <<clock, consents, templates>>

-----------------------------------------------------------------------------
(* issue                                                                    *)

IssueBegin(w, i) ==
    /\ Begin(w, "issue", "issue_consent", i)
    /\ UNCHANGED <<grantFrame, grants, audit, tokens, stored, spent>>

\* verify: active_consent_required
IssueCheckConsent(w) ==
    /\ At(w, "issue_consent")
    /\ IF HasActive(consents, req[w].who, req[w].at)
       THEN Goto(w, "issue_template")
       ELSE Return(w)
    /\ UNCHANGED <<grantFrame, grants, audit, tokens, stored, spent>>

\* verify: active_template_not_found
IssueReadTemplate(w) ==
    /\ At(w, "issue_template")
    /\ IF Live(templates, req[w].who) # {}
       THEN Goto(w, "issue_decide")
       ELSE Return(w)
    /\ UNCHANGED <<grantFrame, grants, audit, tokens, stored, spent>>

\* verify raises: invalid audio, another model or pipeline, bad dimensions.
IssueUnavailable(w) ==
    /\ At(w, "issue_decide")
    /\ Return(w)
    /\ UNCHANGED <<grantFrame, grants, audit, tokens, stored, spent>>

\* The policy decides DENY or STEP_UP: no grant, only an audit event.
IssueRefuse(w) ==
    /\ At(w, "issue_decide")
    /\ Goto(w, "refuse_audit")
    /\ UNCHANGED <<grantFrame, grants, audit, tokens, stored, spent>>

RefuseAudit(w) ==
    /\ At(w, "refuse_audit")
    /\ Log("authorization_grant_decision", req[w].who)
    /\ Return(w)
    /\ UNCHANGED <<grantFrame, grants, tokens, stored, spent>>

\* uuid4 never draws an id that is stored or about to be.
FreshId(g) ==
    /\ g \notin stored
    /\ \A w \in Workers : req[w].grant # None => req[w].grant.id # g

\* The policy decides ALLOW: `now` is read again, an id drawn, the grant signed.
IssueDecide(w) ==
    /\ At(w, "issue_decide")
    /\ \E g \in GrantIds, d \in Devices, a \in Actions, n \in Nonces :
          /\ FreshId(g)
          /\ req' = [req EXCEPT
                ![w].step = "issue_insert",
                ![w].at = clock,
                ![w].grant = [id |-> g, identity |-> req[w].who, device |-> d,
                              action |-> a, nonce |-> n,
                              expires |-> clock + Lifetime]]
    /\ UNCHANGED <<grantFrame, grants, audit, tokens, stored, spent>>

\* issue_grant; False becomes request_nonce_reused.
IssueInsert(w) ==
    /\ At(w, "issue_insert")
    /\ IF GrantInsertable(grants, req[w].grant)
       THEN /\ grants' = PutGrant(grants, req[w].grant)
            /\ stored' = stored \cup {req[w].grant.id}
            /\ Goto(w, "issue_audit")
       ELSE /\ Return(w)
            /\ UNCHANGED <<grants, stored>>
    /\ UNCHANGED <<grantFrame, audit, tokens, spent>>

\* The decision is logged and the response carries the token to the device,
\* unless the connection breaks.
IssueAudit(w) ==
    /\ At(w, "issue_audit")
    /\ Log("authorization_grant_decision", req[w].grant.id)
    /\ \/ tokens' = tokens \cup {req[w].grant}
       \/ Faults /\ UNCHANGED tokens
    /\ Return(w)
    /\ UNCHANGED <<grantFrame, grants, stored, spent>>

-----------------------------------------------------------------------------
(* consume                                                                  *)

\* The checks on the verified token; a token that fails them, or that the
\* signer did not sign, is refused before any table is read.
TokenAccepted(c, d, a, now) ==
    /\ c.device = d
    /\ c.action = a
    /\ now < c.expires

\* A device presents a token it holds; replays and concurrent presentations
\* of one token are separate requests.
ConsumeBegin(w, c) ==
    /\ \E d \in Devices, a \in Actions : TokenAccepted(c, d, a, clock)
    /\ "consume" \in Operations
    /\ At(w, "idle")
    /\ req' = [req EXCEPT ![w] = [Idle EXCEPT !.step = "consume_consent",
                  !.who = c.identity, !.at = clock, !.grant = c]]
    /\ UNCHANGED <<grantFrame, grants, audit, tokens, stored, spent>>

ConsumeCheckConsent(w) ==
    /\ At(w, "consume_consent")
    /\ IF HasActive(consents, req[w].who, req[w].at)
       THEN Goto(w, "consume_commit")
       ELSE Return(w)
    /\ UNCHANGED <<grantFrame, grants, audit, tokens, stored, spent>>

\* The handler that does not test whether consume_grant returned None.
ConsumeCommitUnchecked(w) ==
    /\ At(w, "consume_commit")
    /\ LET c == req[w].grant
       IN  IF SpendableRow(grants[c.id], c, req[w].at)
           THEN /\ grants' = SpendGrant(grants, c.id, req[w].at)
                /\ spent' = [spent EXCEPT ![c.id] = @ + 1]
           ELSE UNCHANGED <<grants, spent>>
    /\ Goto(w, "consume_audit")
    /\ UNCHANGED <<grantFrame, audit, tokens, stored>>

ConsumeCommit(w) ==
    /\ At(w, "consume_commit")
    /\ LET c == req[w].grant
       IN  IF SpendableRow(grants[c.id], c, req[w].at)
           THEN /\ grants' = SpendGrant(grants, c.id, req[w].at)
                /\ spent' = [spent EXCEPT ![c.id] = @ + 1]
                /\ Goto(w, "consume_audit")
           ELSE /\ Return(w)
                /\ UNCHANGED <<grants, spent>>
    /\ UNCHANGED <<grantFrame, audit, tokens, stored>>

\* The handler that returns without its audit event.
ConsumeAuditSkipped(w) ==
    /\ At(w, "consume_audit")
    /\ Return(w)
    /\ UNCHANGED <<grantFrame, grants, audit, tokens, stored, spent>>

ConsumeAudit(w) ==
    /\ At(w, "consume_audit")
    /\ Log("authorization_grant_consumed", req[w].grant.id)
    /\ Return(w)
    /\ UNCHANGED <<grantFrame, grants, tokens, stored, spent>>

GrantStep(w) ==
    \/ IssueCheckConsent(w)
    \/ IssueReadTemplate(w)
    \/ IssueUnavailable(w)
    \/ IssueRefuse(w)
    \/ RefuseAudit(w)
    \/ IssueDecide(w)
    \/ IssueInsert(w)
    \/ IssueAudit(w)
    \/ ConsumeCheckConsent(w)
    \/ ConsumeCommit(w)
    \/ ConsumeAudit(w)

GrantRequest(w) ==
    \/ \E i \in Identities : IssueBegin(w, i)
    \/ \E c \in tokens : ConsumeBegin(w, c)
=============================================================================
