--------------------------- MODULE BiometricStore ---------------------------
(***************************************************************************)
(* The tables of SqliteBiometricRepository and the effect of each of its   *)
(* transactions on them, as functions from table values to table values.   *)
(* Every write method opens BEGIN IMMEDIATE, so a transaction is one       *)
(* atomic step of the modules that use these operators; a crash inside it  *)
(* rolls it back and leaves the tables as they were.                       *)
(*                                                                         *)
(* Rows that no statement can read again are not kept: a revoked consent   *)
(* is never selected, so a table holds at most the unrevoked consent of an *)
(* identity. Instants are natural numbers; the text comparison of ISO      *)
(* timestamps is the comparison of instants as long as all of them carry   *)
(* the same UTC offset, which this module takes for granted.               *)
(***************************************************************************)
EXTENDS Naturals, FiniteSets

CONSTANTS
    Identities,  \* identity_id values
    Devices,     \* device_id values with a registered credential
    Nonces,      \* request_nonce values the devices send
    Actions,     \* protected actions whose policy decision can be ALLOW
    GrantIds,    \* the UUIDs id_factory draws for grants
    Lifetime,    \* grant lifetime, in ticks of the clock
    MaxConsent,  \* maximum_consent_duration, in ticks
    Retention,   \* revoked_template_retention, in ticks
    None         \* SQL NULL, and "no such row"

ConsentRow == [granted: Nat, expires: Nat]

TemplateRow == [identity: Identities, version: Nat \ {0}, created: Nat,
                revoked: Nat \cup {None}]

\* The signed content of a token. authorization_id and issued_at are left out:
\* no check of the service reads either.
Claims == [id: GrantIds, identity: Identities, device: Devices,
           action: Actions, nonce: Nonces, expires: Nat]

\* token_sha256 is a digest of the token signed over exactly these claims, so
\* a row that stores the claims stores the digest too.
GrantRow == [claims: Claims, consumed: Nat \cup {None}]

ASSUME StoreAssumption ==
    /\ Lifetime \in Nat \ {0}
    /\ MaxConsent \in Nat \ {0}
    /\ Retention \in Nat
    /\ None \notin Nat
    /\ None \notin Identities
    /\ None \notin ConsentRow
    /\ None \notin Claims
    /\ None \notin GrantRow

-----------------------------------------------------------------------------
(* Consents: a function from identities to the unrevoked row or None.       *)

\* has_active: granted_at <= at AND expires_at > at on the unrevoked row.
HasActive(cs, i, at) ==
    /\ cs[i] # None
    /\ cs[i].granted <= at
    /\ at < cs[i].expires

\* A grant that accepts a consent without an expiration.
PutOpenConsent(cs, i, at, until) ==
    [cs EXCEPT ![i] = [granted |-> at, expires |-> None]]

\* grant: the previous row is superseded in the transaction that inserts this.
PutConsent(cs, i, at, until) ==
    [cs EXCEPT ![i] = [granted |-> at, expires |-> until]]

\* revoke_identity, the half on consents.
DropConsent(cs, i) == [cs EXCEPT ![i] = None]

-----------------------------------------------------------------------------
(* Templates: a set of rows, live while revoked is None.                    *)

Live(ts, i) == {r \in ts : r.identity = i /\ r.revoked = None}

RevokeRows(ts, victims, at) ==
    (ts \ victims) \cup {[r EXCEPT !.revoked = at] : r \in victims}

\* The version enroll computes: 1 without a live template, else the version
\* of the newest live row plus 1.
VersionFollowsLive(ts, i, v) ==
    LET versions == {r.version : r \in Live(ts, i)}
    IN  (\A u \in versions : u < v) /\ (v = 1 \/ v - 1 \in versions)

\* v = COALESCE(MAX(version), 0) + 1, over revoked rows as well.
VersionExpected(ts, i, v) ==
    LET versions == {r.version : r \in {t \in ts : t.identity = i}}
    IN  (\A u \in versions : u < v) /\ (v = 1 \/ v - 1 \in versions)

\* save, once the version is the expected one.
SaveTemplate(ts, i, v, at) ==
    RevokeRows(ts, Live(ts, i), at)
        \cup {[identity |-> i, version |-> v, created |-> at, revoked |-> None]}

\* A revocation without the condition revoked_at IS NULL.
RevokeEveryRow(ts, i, at) == RevokeRows(ts, {r \in ts : r.identity = i}, at)

\* revoke_identity, the half on templates.
RevokeTemplates(ts, i, at) == RevokeRows(ts, Live(ts, i), at)

Unconsented(ts, cs, at) ==
    {r \in ts : r.revoked = None /\ ~HasActive(cs, r.identity, at)}

\* purge_expired with the cutoff forgotten: every revoked row is deleted.
PurgeTemplatesAtOnce(ts, cs, at) ==
    {r \in RevokeRows(ts, Unconsented(ts, cs, at), at) :
        r.revoked = None \/ at < r.revoked}

\* purge_expired on templates: revoke what lacks consent, then delete the rows
\* with revoked_at <= at - retention.
PurgeTemplates(ts, cs, at) ==
    {r \in RevokeRows(ts, Unconsented(ts, cs, at), at) :
        r.revoked = None \/ at < r.revoked + Retention}

-----------------------------------------------------------------------------
(* Authorization grants: a function from grant ids to a row or None.        *)

\* The table without its constraint on (device_id, request_nonce).
GrantIdFree(gs, c) == gs[c.id] = None

\* UNIQUE(grant_id) and UNIQUE(device_id, request_nonce), whose violation makes
\* issue_grant return False.
GrantInsertable(gs, c) ==
    /\ gs[c.id] = None
    /\ \A g \in GrantIds :
          gs[g] # None => \/ gs[g].claims.device # c.device
                          \/ gs[g].claims.nonce # c.nonce

PutGrant(gs, c) == [gs EXCEPT ![c.id] = [claims |-> c, consumed |-> None]]

\* consume_grant without the test of consumed_at.
ReplayableRow(row, c, at) ==
    /\ row # None
    /\ row.claims = c
    /\ at < row.claims.expires

\* consume_grant's conditions: present, unconsumed, unexpired, and equal in
\* device, action and token digest.
SpendableRow(row, c, at) ==
    /\ row # None
    /\ row.claims = c
    /\ row.consumed = None
    /\ at < row.claims.expires

\* consume_grant without its UPDATE.
ReadGrant(gs, g, at) == gs

SpendGrant(gs, g, at) == [gs EXCEPT ![g].consumed = at]

\* purge_expired on grants, with the comparison the wrong way round.
PurgeGrantsTooSoon(gs, at) ==
    [g \in GrantIds |->
        IF gs[g] # None /\ (at <= gs[g].claims.expires \/ gs[g].consumed # None)
        THEN None ELSE gs[g]]

\* purge_expired on grants: expires_at <= at OR consumed_at IS NOT NULL.
PurgeGrants(gs, at) ==
    [g \in GrantIds |->
        IF gs[g] # None /\ (gs[g].claims.expires <= at \/ gs[g].consumed # None)
        THEN None ELSE gs[g]]
=============================================================================
