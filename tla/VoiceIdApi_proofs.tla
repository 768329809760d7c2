-------------------------- MODULE VoiceIdApi_proofs --------------------------
(***************************************************************************)
(* Theorems about VoiceIdApi for every value of its constants: any number  *)
(* of identities, devices, grants, workers and ticks. The last parts are   *)
(* about the histories of two tables: each grant passes through the states *)
(* of SingleUseCapability, which the durable API implements; of the voice  *)
(* templates, which row is live, that a revocation is final, and that the  *)
(* retention window is honoured.                                           *)
(***************************************************************************)
EXTENDS VoiceIdApi, TLAPS

USE DEF At, tables, governanceFrame, enrollmentFrame, grantFrame

-----------------------------------------------------------------------------
(* Requests and tables keep their types.                                    *)

LEMMA IdleType == Idle \in Requests /\ WellFormed(Idle)
BY DEF Idle, Requests, Steps, WellFormed, GrantSteps

\* A handler that returns leaves every request well formed.
LEMMA ReturnType ==
    ASSUME TypeOK, NEW w \in Workers, Return(w)
    PROVE  /\ req' \in [Workers -> Requests]
           /\ \A v \in Workers : WellFormed(req'[v])
BY IdleType DEF TypeOK, Return

LEMMA BeginType ==
    ASSUME TypeOK, NEW w \in Workers, NEW i \in Identities, NEW op,
           NEW step \in {"consent_commit", "revoke_commit", "enroll_consent",
                         "issue_consent"},
           Begin(w, op, step, i)
    PROVE  /\ req' \in [Workers -> Requests]
           /\ \A v \in Workers : WellFormed(req'[v])
BY StoreAssumption DEF TypeOK, Begin, Idle, Requests, Steps, WellFormed, GrantSteps

\* Going on to a step of the same handler that needs no more than the last.
LEMMA GotoType ==
    ASSUME TypeOK, NEW w \in Workers, NEW step \in Steps, Goto(w, step),
           req[w].step \notin {"idle", "purge_commit", "purge_audit"},
           step # "enroll_save",
           step \in GrantSteps => req[w].step \in GrantSteps
    PROVE  /\ req' \in [Workers -> Requests]
           /\ \A v \in Workers : WellFormed(req'[v])
BY DEF TypeOK, Goto, Requests, WellFormed, GrantSteps

LEMMA RevokeRowsType ==
    ASSUME NEW ts, ts \subseteq TemplateRow, NEW victims, victims \subseteq ts,
           NEW at \in Nat
    PROVE  RevokeRows(ts, victims, at) \subseteq TemplateRow
BY DEF RevokeRows, TemplateRow

-----------------------------------------------------------------------------
(* Type correctness                                                         *)

LEMMA TypeInit == Init => TypeOK
BY IdleType, StoreAssumption
   DEF Init, TypeOK

LEMMA TypeStep == TypeOK /\ [Next]_vars => TypeOK'
<1> SUFFICES ASSUME TypeOK, Next PROVE TypeOK'
    BY DEF TypeOK, vars
<1> USE DEF TypeOK
<1>1. CASE Tick
    BY <1>1 DEF Tick
<1> SUFFICES ASSUME NEW w \in Workers, RequestStep(w) \/ NewRequest(w) \/ Abort(w)
             PROVE  TypeOK'
    BY <1>1 DEF Next
<1>a. /\ req[w] \in Requests
      /\ WellFormed(req[w])
      /\ req[w].at \in Nat
    BY DEF Requests
<1>b. req[w].step \notin {"idle", "purge_commit", "purge_audit"}
         => req[w].who \in Identities
    BY <1>a DEF Requests, WellFormed
<1>c. req[w].step \in GrantSteps => req[w].grant \in Claims
    BY <1>a DEF Requests, WellFormed
<1>2. CASE Abort(w)
    BY <1>2, ReturnType DEF Abort
<1>3. ASSUME NEW i \in Identities, ConsentBegin(w, i)  PROVE TypeOK'
    BY <1>3, BeginType DEF ConsentBegin
<1>4. CASE ConsentCommit(w)
  <2>1. req' \in [Workers -> Requests] /\ \A v \in Workers : WellFormed(req'[v])
      BY <1>4, GotoType DEF ConsentCommit, Steps, GrantSteps
  <2>2. PICK until \in (req[w].at + 1)..(req[w].at + MaxConsent) :
           consents' = PutConsent(consents, req[w].who, req[w].at, until)
      BY <1>4 DEF ConsentCommit
  <2>3. until \in Nat
      BY <2>2, <1>a, StoreAssumption
  <2>4. consents' \in [Identities -> ConsentRow \cup {None}]
      BY <2>2, <2>3, <1>a DEF PutConsent, ConsentRow
  <2> QED BY <1>4, <2>1, <2>4 DEF ConsentCommit
<1>5. CASE ConsentAudit(w)
    BY <1>5, <1>b, ReturnType DEF ConsentAudit, Log, AuditEvents
<1>6. ASSUME NEW i \in Identities, RevokeBegin(w, i)  PROVE TypeOK'
    BY <1>6, BeginType DEF RevokeBegin
<1>7. CASE RevokeCommit(w)
  <2>1. req' \in [Workers -> Requests] /\ \A v \in Workers : WellFormed(req'[v])
      BY <1>7, GotoType DEF RevokeCommit, Steps, GrantSteps
  <2>2. consents' \in [Identities -> ConsentRow \cup {None}]
      BY <1>7 DEF RevokeCommit, DropConsent
  <2>3. templates' \subseteq TemplateRow
      BY <1>7, <1>a, RevokeRowsType DEF RevokeCommit, RevokeTemplates, Live
  <2> QED BY <1>7, <2>1, <2>2, <2>3 DEF RevokeCommit
<1>8. CASE RevokeAudit(w)
    BY <1>8, <1>b, ReturnType DEF RevokeAudit, Log, AuditEvents
<1>9. CASE PurgeBegin(w)
    BY <1>9 DEF PurgeBegin, Begin, Idle, Requests, Steps, WellFormed, GrantSteps
<1>10. CASE PurgeCommit(w)
  <2>1. req' \in [Workers -> Requests] /\ \A v \in Workers : WellFormed(req'[v])
      BY <1>10 DEF PurgeCommit, Goto, Requests, Steps, WellFormed, GrantSteps
  <2>2. templates' \subseteq TemplateRow
      BY <1>10, <1>a, RevokeRowsType DEF PurgeCommit, PurgeTemplates, Unconsented
  <2>3. grants' \in [GrantIds -> GrantRow \cup {None}]
      BY <1>10 DEF PurgeCommit, PurgeGrants
  <2> QED BY <1>10, <2>1, <2>2, <2>3 DEF PurgeCommit
<1>11. CASE PurgeAudit(w)
    BY <1>11, ReturnType DEF PurgeAudit, Log, AuditEvents
<1>12. ASSUME NEW i \in Identities, EnrollBegin(w, i)  PROVE TypeOK'
    BY <1>12, BeginType DEF EnrollBegin
<1>13. CASE EnrollCheckConsent(w)
    BY <1>13, GotoType, ReturnType DEF EnrollCheckConsent, Steps, GrantSteps
<1>14. CASE EnrollReject(w)
    BY <1>14, ReturnType DEF EnrollReject
<1>15. CASE EnrollReadCurrent(w)
  <2>1. PICK version \in 1..MaxVersion :
           req' = [req EXCEPT ![w].step = "enroll_save", ![w].version = version]
      BY <1>15 DEF EnrollReadCurrent
  <2>2. version \in Nat /\ version # 0
      BY <2>1, EnrollmentAssumption
  <2>3. req[w].who # None
      BY <1>15, <1>a DEF EnrollReadCurrent, WellFormed
  <2>4. req' \in [Workers -> Requests] /\ \A v \in Workers : WellFormed(req'[v])
      BY <2>1, <2>2, <2>3, <1>a DEF Requests, Steps, WellFormed, GrantSteps
  <2> QED BY <1>15, <2>4 DEF EnrollReadCurrent
<1>16. CASE EnrollSave(w)
  <2>1. Live(templates, req[w].who) \subseteq templates
      BY DEF Live
  <2>2. RevokeRows(templates, Live(templates, req[w].who), req[w].at)
           \subseteq TemplateRow
      BY <2>1, <1>a, RevokeRowsType
  <2>3. [identity |-> req[w].who, version |-> req[w].version,
         created |-> req[w].at, revoked |-> None] \in TemplateRow
      BY <1>16, <1>a, <1>b DEF EnrollSave, TemplateRow, WellFormed, Requests
  <2> QED BY <1>16, <2>2, <2>3, ReturnType DEF EnrollSave, SaveTemplate
<1>17. ASSUME NEW i \in Identities, IssueBegin(w, i)  PROVE TypeOK'
    BY <1>17, BeginType DEF IssueBegin
<1>18. CASE IssueCheckConsent(w)
    BY <1>18, GotoType, ReturnType DEF IssueCheckConsent, Steps, GrantSteps
<1>19. CASE IssueReadTemplate(w)
    BY <1>19, GotoType, ReturnType DEF IssueReadTemplate, Steps, GrantSteps
<1>20. CASE IssueUnavailable(w)
    BY <1>20, ReturnType DEF IssueUnavailable
<1>21. CASE IssueRefuse(w)
    BY <1>21, GotoType DEF IssueRefuse, Steps, GrantSteps
<1>22. CASE RefuseAudit(w)
    BY <1>22, <1>b, ReturnType DEF RefuseAudit, Log, AuditEvents
<1>23. CASE IssueDecide(w)
  <2>1. PICK g \in GrantIds, d \in Devices, a \in Actions, n \in Nonces :
           req' = [req EXCEPT
                ![w].step = "issue_insert",
                ![w].at = clock,
                ![w].grant = [id |-> g, identity |-> req[w].who, device |-> d,
                              action |-> a, nonce |-> n,
                              expires |-> clock + Lifetime]]
      BY <1>23 DEF IssueDecide
  <2>2. [id |-> g, identity |-> req[w].who, device |-> d, action |-> a,
         nonce |-> n, expires |-> clock + Lifetime] \in Claims
      BY <1>23, <1>b, StoreAssumption DEF IssueDecide, Claims
  <2>3. req[w].who # None
      BY <1>23, <1>a DEF IssueDecide, WellFormed
  <2>4. /\ req'[w] \in Requests /\ \A v \in Workers \ {w} : req'[v] = req[v]
        /\ WellFormed(req'[w])
      BY <2>1, <2>2, <2>3, <1>a, StoreAssumption
         DEF Requests, Steps, WellFormed, GrantSteps
  <2>5. req' \in [Workers -> Requests]
      BY <2>1, <2>4, <1>a
  <2>6. \A v \in Workers : WellFormed(req'[v])
      BY <2>4, <1>a
  <2> QED BY <1>23, <2>5, <2>6 DEF IssueDecide
<1>24. CASE IssueInsert(w)
  <2>1. req' \in [Workers -> Requests] /\ \A v \in Workers : WellFormed(req'[v])
      BY <1>24, GotoType, ReturnType DEF IssueInsert, Steps, GrantSteps
  <2>2. req[w].grant \in Claims /\ req[w].grant.id \in GrantIds
      BY <1>24, <1>c DEF IssueInsert, GrantSteps, Claims
  <2>3. grants' \in [GrantIds -> GrantRow \cup {None}]
      BY <1>24, <2>2 DEF IssueInsert, PutGrant, GrantRow
  <2> QED BY <1>24, <2>1, <2>2, <2>3 DEF IssueInsert
<1>25. CASE IssueAudit(w)
  <2>1. req[w].grant \in Claims /\ req[w].grant.id \in GrantIds
      BY <1>25, <1>c DEF IssueAudit, GrantSteps, Claims
  <2> QED BY <1>25, <2>1, ReturnType DEF IssueAudit, Log, AuditEvents
<1>26. ASSUME NEW c \in tokens, ConsumeBegin(w, c)  PROVE TypeOK'
  <2>1. c \in Claims /\ c.identity \in Identities
      BY DEF Claims
  <2>2. req' \in [Workers -> Requests] /\ \A v \in Workers : WellFormed(req'[v])
      BY <1>26, <2>1, StoreAssumption
         DEF ConsumeBegin, Idle, Requests, Steps, WellFormed, GrantSteps
  <2> QED BY <1>26, <2>2 DEF ConsumeBegin
<1>27. CASE ConsumeCheckConsent(w)
    BY <1>27, GotoType, ReturnType DEF ConsumeCheckConsent, Steps, GrantSteps
<1>28. CASE ConsumeCommit(w)
  <2>1. req' \in [Workers -> Requests] /\ \A v \in Workers : WellFormed(req'[v])
      BY <1>28, GotoType, ReturnType DEF ConsumeCommit, Steps, GrantSteps
  <2>2. req[w].grant.id \in GrantIds
      BY <1>28, <1>c DEF ConsumeCommit, GrantSteps, Claims
  <2>3. grants' \in [GrantIds -> GrantRow \cup {None}]
      BY <1>28, <2>2, <1>a, StoreAssumption
         DEF ConsumeCommit, SpendGrant, SpendableRow, GrantRow
  <2>4. spent' \in [GrantIds -> Nat]
      BY <1>28, <2>2 DEF ConsumeCommit
  <2> QED BY <1>28, <2>1, <2>3, <2>4 DEF ConsumeCommit
<1>29. CASE ConsumeAudit(w)
  <2>1. req[w].grant.id \in GrantIds
      BY <1>29, <1>c DEF ConsumeAudit, GrantSteps, Claims
  <2> QED BY <1>29, <2>1, ReturnType DEF ConsumeAudit, Log, AuditEvents
<1> QED
    BY <1>2, <1>3, <1>4, <1>5, <1>6, <1>7, <1>8, <1>9, <1>10, <1>11, <1>12, <1>13,
       <1>14, <1>15, <1>16, <1>17, <1>18, <1>19, <1>20, <1>21, <1>22, <1>23, <1>24,
       <1>25, <1>26, <1>27, <1>28, <1>29
    DEF RequestStep, NewRequest, GovernanceStep, EnrollmentStep, GrantStep,
        GovernanceRequest, EnrollmentRequest, GrantRequest

\* The tables, the audit log and every request always hold what their columns
\* and fields say.
THEOREM TypeCorrect == Spec => []TypeOK
<1> QED BY TypeInit, TypeStep, PTL DEF Spec

-----------------------------------------------------------------------------
(* The inductive invariant of the grant store. None of the properties below *)
(* is inductive alone: that a grant is not spent twice needs the rows to    *)
(* agree with the history of consumptions, and that needs the ids about to  *)
(* be inserted to be new; that a token stays redeemable needs the purge to  *)
(* run with an instant that is not in the future.                           *)

\* A row records whether its grant was consumed.
RowsTellTheTruth ==
    \A g \in GrantIds : grants[g] # None =>
        /\ g \in stored
        /\ grants[g].claims.id = g
        /\ (grants[g].consumed = None <=> spent[g] = 0)

SpentWasStored == \A g \in GrantIds : spent[g] # 0 => g \in stored

\* The id of a grant on its way to the store is in no row, past or present, and
\* on its way in no other handler.
PendingIsNew ==
    \A w \in Workers : At(w, "issue_insert") =>
        /\ req[w].grant.id \notin stored
        /\ \A v \in Workers \ {w} :
              At(v, "issue_insert") => req[v].grant.id # req[w].grant.id

UniqueNonces ==
    \A g, h \in GrantIds :
        /\ grants[g] # None /\ grants[h] # None
        /\ grants[g].claims.device = grants[h].claims.device
        /\ grants[g].claims.nonce = grants[h].claims.nonce
        => g = h

\* The store keeps the row of an issued token while it can be redeemed.
Kept(c) ==
    /\ c.id \in stored
    /\ grants[c.id] # None => grants[c.id].claims = c
    /\ spent[c.id] = 0 /\ clock < c.expires => grants[c.id] # None

IssuedIsKept ==
    /\ \A c \in tokens : Kept(c)
    /\ \A w \in Workers : At(w, "issue_audit") => Kept(req[w].grant)

\* The handlers between consume_grant and their audit event did consume.
ConsumerSpent ==
    \A w \in Workers : At(w, "consume_audit") => spent[req[w].grant.id] = 1

\* A handler's `now` is never in the future.
NowIsPast == \A w \in Workers : req[w].at <= clock

GrantInv ==
    /\ TypeOK
    /\ RowsTellTheTruth
    /\ SpentAtMostOnce
    /\ SpentWasStored
    /\ PendingIsNew
    /\ UniqueNonces
    /\ IssuedIsKept
    /\ ConsumerSpent
    /\ AuditedConsumptionHappened
    /\ NowIsPast

LEMMA GrantInvInit == Init => GrantInv
<1> SUFFICES ASSUME Init PROVE GrantInv
    OBVIOUS
<1>1. TypeOK
    BY TypeInit
<1>2. \A w \in Workers : req[w].step = "idle" /\ req[w].at = 0
    BY DEF Init, Idle
<1> QED
    BY <1>1, <1>2 DEF Init, GrantInv, RowsTellTheTruth, SpentAtMostOnce, SpentWasStored,
       PendingIsNew, UniqueNonces, IssuedIsKept, ConsumerSpent,
       AuditedConsumptionHappened, NowIsPast

\* What a bystander's step does to its own request.
OwnRequestOnly(w) ==
    /\ \A v \in Workers \ {w} : req'[v] = req[v]
    /\ req'[w].step \notin {"issue_insert", "issue_audit", "consume_audit"}
    /\ req'[w].at <= clock

LEMMA ReturnOwn ==
    ASSUME TypeOK, NowIsPast, NEW w \in Workers, Return(w) PROVE OwnRequestOnly(w)
BY DEF OwnRequestOnly, TypeOK, NowIsPast, Return, Idle

LEMMA GotoOwn ==
    ASSUME TypeOK, NowIsPast, NEW w \in Workers, NEW step, Goto(w, step),
           step \notin {"issue_insert", "issue_audit", "consume_audit"}
    PROVE  OwnRequestOnly(w)
BY DEF OwnRequestOnly, TypeOK, NowIsPast, Goto, Requests

LEMMA BeginOwn ==
    ASSUME TypeOK, NowIsPast, NEW w \in Workers, NEW op, NEW step, NEW i,
           Begin(w, op, step, i),
           step \notin {"issue_insert", "issue_audit", "consume_audit"}
    PROVE  OwnRequestOnly(w)
BY DEF OwnRequestOnly, TypeOK, NowIsPast, Begin, Idle

\* Most steps leave the grant store, the tokens and the record of consumptions
\* alone and take their own request to a step the invariant does not speak of.
LEMMA BystanderStep ==
    ASSUME GrantInv, TypeOK', NEW w \in Workers,
           OwnRequestOnly(w),
           UNCHANGED <<clock, grants, stored, spent, tokens>>,
           \A g \in GrantIds :
              <<"authorization_grant_consumed", g>> \in audit'
                  => <<"authorization_grant_consumed", g>> \in audit
    PROVE  GrantInv'
<1> USE DEF GrantInv, OwnRequestOnly
<1>1. RowsTellTheTruth' /\ SpentAtMostOnce' /\ SpentWasStored' /\ UniqueNonces'
    BY DEF RowsTellTheTruth, SpentAtMostOnce, SpentWasStored, UniqueNonces
<1>2. PendingIsNew'
    BY DEF PendingIsNew
<1>3. IssuedIsKept'
    BY DEF IssuedIsKept, Kept
<1>4. ConsumerSpent'
    BY DEF ConsumerSpent
<1>5. AuditedConsumptionHappened'
    BY DEF AuditedConsumptionHappened
<1>6. NowIsPast'
    BY DEF NowIsPast
<1> QED BY <1>1, <1>2, <1>3, <1>4, <1>5, <1>6

LEMMA TickStep == ASSUME GrantInv, TypeOK', Tick PROVE GrantInv'
<1> USE DEF GrantInv, Tick
<1>1. clock \in Nat /\ clock' = clock + 1 /\ \A w \in Workers : req[w].at \in Nat
    BY DEF TypeOK, Requests
<1>2. RowsTellTheTruth' /\ SpentAtMostOnce' /\ SpentWasStored' /\ UniqueNonces'
    BY DEF RowsTellTheTruth, SpentAtMostOnce, SpentWasStored, UniqueNonces
<1>3. PendingIsNew' /\ ConsumerSpent' /\ AuditedConsumptionHappened'
    BY DEF PendingIsNew, ConsumerSpent, AuditedConsumptionHappened
<1>4. ASSUME NEW c \in Claims, Kept(c) PROVE Kept(c)'
    BY <1>1, <1>4 DEF Kept, Claims
<1>5. \A c \in tokens : Kept(c)'
    BY <1>4 DEF TypeOK, IssuedIsKept
<1>6. \A w \in Workers : At(w, "issue_audit") => Kept(req[w].grant)'
    BY <1>4 DEF TypeOK, IssuedIsKept, Requests, WellFormed, GrantSteps
<1>7. IssuedIsKept'
    BY <1>5, <1>6 DEF IssuedIsKept
<1>8. NowIsPast'
    BY <1>1 DEF NowIsPast
<1> QED BY <1>2, <1>3, <1>7, <1>8

LEMMA PurgeStep ==
    ASSUME GrantInv, TypeOK', NEW w \in Workers, PurgeCommit(w) PROVE GrantInv'
<1> USE DEF GrantInv, PurgeCommit
<1>1. /\ clock \in Nat /\ req[w].at \in Nat /\ req[w].at <= clock
      /\ req \in [Workers -> Requests]
    BY DEF TypeOK, Requests, NowIsPast
<1>2. ASSUME NEW g \in GrantIds
      PROVE  /\ grants'[g] # None => grants'[g] = grants[g]
             /\ grants[g] # None /\ grants'[g] = None
                   => grants[g].claims.expires <= req[w].at \/ spent[g] # 0
    BY DEF PurgeGrants, RowsTellTheTruth
<1>3. /\ \A v \in Workers \ {w} : req'[v] = req[v]
      /\ req'[w].step = "purge_audit"
      /\ req'[w].at = req[w].at
    BY <1>1 DEF Goto, Requests
<1>4. RowsTellTheTruth' /\ SpentAtMostOnce' /\ SpentWasStored' /\ UniqueNonces'
    BY <1>2 DEF RowsTellTheTruth, SpentAtMostOnce, SpentWasStored, UniqueNonces
<1>5. \A v \in Workers : req'[v].step \in {"issue_insert", "issue_audit", "consume_audit"}
         => v # w /\ req'[v] = req[v]
    BY <1>3
<1>6. PendingIsNew' /\ ConsumerSpent' /\ AuditedConsumptionHappened'
    BY <1>5 DEF PendingIsNew, ConsumerSpent, AuditedConsumptionHappened
<1>7. ASSUME NEW c \in Claims, Kept(c) PROVE Kept(c)'
  <2>1. c.id \in GrantIds /\ c.expires \in Nat
      BY DEF Claims
  <2>2. c.id \in stored' /\ (grants'[c.id] # None => grants'[c.id].claims = c)
      BY <1>2, <1>7, <2>1 DEF Kept
  <2>3. ASSUME spent[c.id] = 0, clock < c.expires PROVE grants'[c.id] # None
      BY <1>1, <1>2, <1>7, <2>1, <2>3 DEF Kept
  <2> QED BY <2>2, <2>3 DEF Kept
<1>8. \A c \in tokens : Kept(c)'
    BY <1>7 DEF TypeOK, IssuedIsKept
<1>9. ASSUME NEW v \in Workers, At(v, "issue_audit")' PROVE Kept(req[v].grant)'
  <2>1. At(v, "issue_audit") /\ req'[v].grant = req[v].grant
      BY <1>5, <1>9
  <2>2. req[v].grant \in Claims
      BY <2>1 DEF TypeOK, Requests, WellFormed, GrantSteps
  <2>3. Kept(req[v].grant)
      BY <2>1 DEF IssuedIsKept
  <2> QED BY <1>7, <2>1, <2>2, <2>3 DEF Kept
<1>10. IssuedIsKept'
    BY <1>5, <1>8, <1>9 DEF IssuedIsKept, Kept
<1>11. NowIsPast'
    BY <1>1, <1>3 DEF NowIsPast
<1> QED BY <1>4, <1>6, <1>10, <1>11

LEMMA DecideStep ==
    ASSUME GrantInv, TypeOK', NEW w \in Workers, IssueDecide(w) PROVE GrantInv'
<1> USE DEF GrantInv
<1>1. req \in [Workers -> Requests] /\ req[w].at \in Nat /\ clock \in Nat
    BY DEF TypeOK, Requests
<1>0. UNCHANGED <<clock, grants, stored, spent, tokens, audit>>
    BY DEF IssueDecide
<1>2. PICK g \in GrantIds :
        /\ FreshId(g)
        /\ \A v \in Workers \ {w} : req'[v] = req[v]
        /\ req'[w].step = "issue_insert"
        /\ req'[w].at = clock
        /\ req'[w].grant.id = g
    BY <1>1 DEF IssueDecide, Requests
<1>3. RowsTellTheTruth' /\ SpentAtMostOnce' /\ SpentWasStored' /\ UniqueNonces'
    BY <1>0 DEF RowsTellTheTruth, SpentAtMostOnce, SpentWasStored, UniqueNonces
<1>4. ASSUME NEW v \in Workers, At(v, "issue_insert") PROVE req[v].grant.id # g
  <2>1. req[v].grant # None
      BY <1>4, StoreAssumption DEF TypeOK, WellFormed, GrantSteps, Claims
  <2> QED BY <1>2, <2>1 DEF FreshId
<1>5. g \notin stored
    BY <1>2 DEF FreshId
<1>6. PendingIsNew'
  <2>1. ASSUME NEW v \in Workers, At(v, "issue_insert")'
        PROVE  req'[v].grant.id \notin stored'
      BY <1>0, <1>2, <1>5, <2>1 DEF PendingIsNew
  <2>2. ASSUME NEW v \in Workers, NEW u \in Workers \ {v},
               At(v, "issue_insert")', At(u, "issue_insert")'
        PROVE  req'[u].grant.id # req'[v].grant.id
      BY <1>2, <1>4, <2>2 DEF PendingIsNew
  <2> QED BY <2>1, <2>2 DEF PendingIsNew
<1>7. \A v \in Workers : req'[v].step \in {"issue_audit", "consume_audit"}
         => v # w /\ req'[v] = req[v]
    BY <1>2
<1>8. IssuedIsKept'
    BY <1>0, <1>7 DEF IssuedIsKept, Kept
<1>9. ConsumerSpent' /\ AuditedConsumptionHappened'
    BY <1>0, <1>7 DEF ConsumerSpent, AuditedConsumptionHappened
<1>10. NowIsPast'
    BY <1>0, <1>1, <1>2 DEF NowIsPast
<1> QED BY <1>3, <1>6, <1>8, <1>9, <1>10

LEMMA InsertStep ==
    ASSUME GrantInv, TypeOK', NEW w \in Workers, IssueInsert(w),
           GrantInsertable(grants, req[w].grant)
    PROVE  GrantInv'
<1> DEFINE c == req[w].grant
<1> USE DEF GrantInv
<1>1. /\ req \in [Workers -> Requests] /\ clock \in Nat
      /\ c \in Claims /\ c.id \in GrantIds /\ c.expires \in Nat
    BY DEF IssueInsert, TypeOK, Requests, WellFormed, GrantSteps, Claims
<1>2. /\ At(w, "issue_insert") /\ c.id \notin stored
      /\ grants' = [grants EXCEPT ![c.id] = [claims |-> c, consumed |-> None]]
      /\ stored' = stored \cup {c.id}
      /\ UNCHANGED <<clock, audit, tokens, spent>>
    BY DEF IssueInsert, PutGrant, PendingIsNew
<1>3. /\ \A v \in Workers \ {w} : req'[v] = req[v]
      /\ req'[w].step = "issue_audit"
      /\ req'[w].grant = c
      /\ req'[w].at = req[w].at
    BY <1>1 DEF IssueInsert, Goto, Requests
<1>4. /\ grants'[c.id].claims = c /\ grants'[c.id].consumed = None
      /\ grants'[c.id] # None
      /\ \A g \in GrantIds \ {c.id} : grants'[g] = grants[g]
      /\ spent[c.id] = 0
  <2>1. [claims |-> c, consumed |-> None] \in GrantRow
      BY <1>1 DEF GrantRow
  <2> QED BY <1>1, <1>2, <2>1, StoreAssumption DEF TypeOK, SpentWasStored
<1>5. RowsTellTheTruth'
    BY <1>1, <1>2, <1>4 DEF RowsTellTheTruth
<1>6. SpentAtMostOnce' /\ SpentWasStored'
    BY <1>2 DEF SpentAtMostOnce, SpentWasStored
<1>7. PendingIsNew'
    BY <1>2, <1>3 DEF PendingIsNew
<1>8. UniqueNonces'
    BY <1>1, <1>4 DEF UniqueNonces, GrantInsertable
<1>9. ASSUME NEW d, Kept(d) PROVE Kept(d)'
    BY <1>2, <1>4, <1>9 DEF Kept, TypeOK
<1>11. IssuedIsKept'
  <2>1. \A d \in tokens' : Kept(d)'
      BY <1>2, <1>9 DEF IssuedIsKept
  <2>2. ASSUME NEW v \in Workers, v # w, At(v, "issue_audit")'
        PROVE  Kept(req[v].grant)'
    <3>1. Kept(req[v].grant) /\ req'[v].grant = req[v].grant
        BY <1>3, <2>2 DEF IssuedIsKept
    <3> QED BY <1>9, <3>1 DEF Kept
  <2>3. Kept(req[w].grant)'
      BY <1>2, <1>3, <1>4 DEF Kept
  <2> QED BY <2>1, <2>2, <2>3 DEF IssuedIsKept
<1>12. ConsumerSpent' /\ AuditedConsumptionHappened' /\ NowIsPast'
    BY <1>2, <1>3 DEF ConsumerSpent, AuditedConsumptionHappened, NowIsPast
<1> QED BY <1>5, <1>6, <1>7, <1>8, <1>11, <1>12

LEMMA IssueAuditStep ==
    ASSUME GrantInv, TypeOK', NEW w \in Workers, IssueAudit(w) PROVE GrantInv'
<1> USE DEF GrantInv, IssueAudit
<1>1. req \in [Workers -> Requests] /\ clock \in Nat
    BY DEF TypeOK
<1>2. /\ \A v \in Workers \ {w} : req'[v] = req[v]
      /\ req'[w].step = "idle" /\ req'[w].at = 0
    BY <1>1 DEF Return, Idle
<1>3. RowsTellTheTruth' /\ SpentAtMostOnce' /\ SpentWasStored' /\ UniqueNonces'
    BY DEF RowsTellTheTruth, SpentAtMostOnce, SpentWasStored, UniqueNonces
<1>4. PendingIsNew' /\ ConsumerSpent'
    BY <1>2 DEF PendingIsNew, ConsumerSpent
<1>5. \A c : Kept(c) => Kept(c)'
    BY DEF Kept
<1>6. \A c \in tokens' : Kept(c)
    BY DEF IssuedIsKept
<1>7. IssuedIsKept'
    BY <1>2, <1>5, <1>6 DEF IssuedIsKept, Kept
<1>8. AuditedConsumptionHappened'
    BY DEF AuditedConsumptionHappened, Log
<1>9. NowIsPast'
    BY <1>1, <1>2 DEF NowIsPast
<1> QED BY <1>3, <1>4, <1>7, <1>8, <1>9

LEMMA ConsumeStep ==
    ASSUME GrantInv, TypeOK', NEW w \in Workers, ConsumeCommit(w),
           SpendableRow(grants[req[w].grant.id], req[w].grant, req[w].at)
    PROVE  GrantInv'
<1> DEFINE c == req[w].grant
<1> USE DEF GrantInv
<1>1. /\ req \in [Workers -> Requests] /\ clock \in Nat
      /\ c \in Claims /\ c.id \in GrantIds /\ req[w].at \in Nat
    BY DEF ConsumeCommit, TypeOK, Requests, WellFormed, GrantSteps, Claims
<1>2. /\ grants' = [grants EXCEPT ![c.id].consumed = req[w].at]
      /\ spent' = [spent EXCEPT ![c.id] = @ + 1]
      /\ UNCHANGED <<clock, audit, tokens, stored>>
    BY DEF ConsumeCommit, SpendGrant
<1>3. /\ \A v \in Workers \ {w} : req'[v] = req[v]
      /\ req'[w].step = "consume_audit"
      /\ req'[w].grant = c
      /\ req'[w].at = req[w].at
    BY <1>1 DEF ConsumeCommit, Goto, Requests
<1>4. /\ grants[c.id] # None /\ spent[c.id] = 0
      /\ c.id \in stored
      /\ grants[c.id] \in GrantRow /\ grants'[c.id] \in GrantRow
      /\ grants'[c.id].claims = grants[c.id].claims
      /\ grants'[c.id].consumed # None
      /\ spent'[c.id] = 1
      /\ \A g \in GrantIds \ {c.id} : grants'[g] = grants[g] /\ spent'[g] = spent[g]
  <2>1. /\ grants[c.id] # None /\ grants[c.id] \in GrantRow
        /\ c.id \in stored /\ spent[c.id] = 0
      BY <1>1 DEF SpendableRow, RowsTellTheTruth, TypeOK
  <2>2. /\ grants'[c.id] = [grants[c.id] EXCEPT !.consumed = req[w].at]
        /\ \A g \in GrantIds \ {c.id} : grants'[g] = grants[g]
      BY <1>1, <1>2 DEF TypeOK
  <2>3. /\ grants'[c.id] \in GrantRow
        /\ grants'[c.id].claims = grants[c.id].claims
        /\ grants'[c.id].consumed # None
      BY <1>1, <2>1, <2>2, StoreAssumption DEF GrantRow
  <2>4. spent'[c.id] = 1 /\ \A g \in GrantIds \ {c.id} : spent'[g] = spent[g]
      BY <1>1, <1>2, <2>1 DEF TypeOK
  <2> QED BY <2>1, <2>2, <2>3, <2>4
<1>5. RowsTellTheTruth'
    BY <1>2, <1>4 DEF RowsTellTheTruth
<1>6. SpentAtMostOnce' /\ SpentWasStored'
    BY <1>2, <1>4 DEF SpentAtMostOnce, SpentWasStored
<1>7. PendingIsNew'
    BY <1>2, <1>3 DEF PendingIsNew
<1>8. UniqueNonces'
    BY <1>4 DEF UniqueNonces
<1>9. ASSUME NEW d \in Claims, Kept(d) PROVE Kept(d)'
  <2>1. d.id \in GrantIds
      BY DEF Claims
  <2>2. CASE d.id = c.id
      BY <1>2, <1>4, <1>9, <2>2 DEF Kept
  <2>3. CASE d.id # c.id
      BY <1>2, <1>4, <1>9, <2>1, <2>3 DEF Kept
  <2> QED BY <2>2, <2>3
<1>10. IssuedIsKept'
  <2>1. \A d \in tokens' : Kept(d)'
      BY <1>2, <1>9 DEF IssuedIsKept, TypeOK
  <2>2. ASSUME NEW v \in Workers, At(v, "issue_audit")' PROVE Kept(req[v].grant)'
    <3>1. At(v, "issue_audit") /\ req'[v].grant = req[v].grant
        BY <1>3, <2>2
    <3>2. req[v].grant \in Claims /\ Kept(req[v].grant)
        BY <3>1 DEF IssuedIsKept, TypeOK, Requests, WellFormed, GrantSteps
    <3> QED BY <1>9, <3>1, <3>2 DEF Kept
  <2> QED BY <2>1, <2>2 DEF IssuedIsKept
<1>11. ConsumerSpent'
  <2> SUFFICES ASSUME NEW v \in Workers, At(v, "consume_audit")'
               PROVE  spent'[req'[v].grant.id] = 1
      BY DEF ConsumerSpent
  <2>1. CASE v = w
      BY <1>3, <1>4, <2>1
  <2>2. CASE v # w
    <3>1. At(v, "consume_audit") /\ req'[v].grant = req[v].grant
        BY <1>3, <2>2
    <3>2. req[v].grant.id \in GrantIds /\ spent[req[v].grant.id] = 1
        BY <3>1 DEF ConsumerSpent, TypeOK, Requests, WellFormed, GrantSteps, Claims
    <3> QED BY <1>4, <3>1, <3>2
  <2> QED BY <2>1, <2>2
<1>12. AuditedConsumptionHappened'
    BY <1>2, <1>4 DEF AuditedConsumptionHappened
<1>13. NowIsPast'
    BY <1>2, <1>3 DEF NowIsPast
<1> QED BY <1>5, <1>6, <1>7, <1>8, <1>10, <1>11, <1>12, <1>13

LEMMA ConsumeAuditStep ==
    ASSUME GrantInv, TypeOK', NEW w \in Workers, ConsumeAudit(w) PROVE GrantInv'
<1> USE DEF GrantInv, ConsumeAudit
<1>1. req \in [Workers -> Requests] /\ clock \in Nat
    BY DEF TypeOK
<1>2. /\ \A v \in Workers \ {w} : req'[v] = req[v]
      /\ req'[w].step = "idle" /\ req'[w].at = 0
    BY <1>1 DEF Return, Idle
<1>3. RowsTellTheTruth' /\ SpentAtMostOnce' /\ SpentWasStored' /\ UniqueNonces'
    BY DEF RowsTellTheTruth, SpentAtMostOnce, SpentWasStored, UniqueNonces
<1>4. PendingIsNew' /\ ConsumerSpent' /\ IssuedIsKept'
    BY <1>2 DEF PendingIsNew, ConsumerSpent, IssuedIsKept, Kept
<1>5. AuditedConsumptionHappened'
    BY DEF AuditedConsumptionHappened, ConsumerSpent, Log
<1>6. NowIsPast'
    BY <1>1, <1>2 DEF NowIsPast
<1> QED BY <1>3, <1>4, <1>5, <1>6

LEMMA GrantInvStep == GrantInv /\ [Next]_vars => GrantInv'
<1> SUFFICES ASSUME GrantInv, [Next]_vars PROVE GrantInv'
    OBVIOUS
<1>0. TypeOK /\ NowIsPast /\ TypeOK'
    BY TypeStep DEF GrantInv
<1>1. CASE UNCHANGED vars
    BY <1>0, <1>1 DEF vars, GrantInv, RowsTellTheTruth, SpentAtMostOnce, SpentWasStored,
       PendingIsNew, UniqueNonces, IssuedIsKept, Kept, ConsumerSpent,
       AuditedConsumptionHappened, NowIsPast
<1>2. CASE Tick
    BY <1>0, <1>2, TickStep
<1> SUFFICES ASSUME Next, NEW w \in Workers,
                    RequestStep(w) \/ NewRequest(w) \/ Abort(w)
             PROVE  GrantInv'
    BY <1>1, <1>2 DEF Next
\* The steps of governance.
<1>3. ASSUME NEW i \in Identities,
             ConsentBegin(w, i) \/ RevokeBegin(w, i)
      PROVE  GrantInv'
    BY <1>0, <1>3, BeginOwn, BystanderStep DEF ConsentBegin, RevokeBegin
<1>4. CASE PurgeBegin(w) \/ ConsentCommit(w) \/ RevokeCommit(w)
  <2>1. CASE PurgeBegin(w)
      BY <1>0, <2>1, BeginOwn, BystanderStep DEF PurgeBegin
  <2>2. CASE ConsentCommit(w)
      BY <1>0, <2>2, GotoOwn, BystanderStep DEF ConsentCommit
  <2>3. CASE RevokeCommit(w)
      BY <1>0, <2>3, GotoOwn, BystanderStep DEF RevokeCommit
  <2> QED BY <1>4, <2>1, <2>2, <2>3
<1>5. CASE ConsentAudit(w) \/ RevokeAudit(w) \/ PurgeAudit(w)
    BY <1>0, <1>5, ReturnOwn, BystanderStep
       DEF ConsentAudit, RevokeAudit, PurgeAudit, Log
<1>6. CASE PurgeCommit(w)
    BY <1>0, <1>6, PurgeStep
<1>7. GovernanceStep(w) \/ GovernanceRequest(w) => GrantInv'
    BY <1>3, <1>4, <1>5, <1>6 DEF GovernanceStep, GovernanceRequest
\* The steps of enrollment.
<1>8. ASSUME NEW i \in Identities, EnrollBegin(w, i) PROVE GrantInv'
    BY <1>0, <1>8, BeginOwn, BystanderStep DEF EnrollBegin
<1>9. CASE EnrollCheckConsent(w) \/ EnrollReject(w) \/ EnrollSave(w)
  <2>1. CASE EnrollCheckConsent(w)
      BY <1>0, <2>1, GotoOwn, ReturnOwn, BystanderStep DEF EnrollCheckConsent
  <2>2. CASE EnrollReject(w)
      BY <1>0, <2>2, ReturnOwn, BystanderStep DEF EnrollReject
  <2>3. CASE EnrollSave(w)
      BY <1>0, <2>3, ReturnOwn, BystanderStep DEF EnrollSave
  <2> QED BY <1>9, <2>1, <2>2, <2>3
<1>10. CASE EnrollReadCurrent(w)
  <2>1. /\ \A v \in Workers \ {w} : req'[v] = req[v]
        /\ req'[w].step = "enroll_save" /\ req'[w].at = req[w].at
      BY <1>0, <1>10 DEF EnrollReadCurrent, TypeOK, Requests
  <2> QED BY <1>0, <1>10, <2>1, BystanderStep
          DEF EnrollReadCurrent, NowIsPast, OwnRequestOnly
<1>11. EnrollmentStep(w) \/ EnrollmentRequest(w) => GrantInv'
    BY <1>8, <1>9, <1>10 DEF EnrollmentStep, EnrollmentRequest
\* The steps of the grant service.
<1>12. ASSUME NEW i \in Identities, IssueBegin(w, i) PROVE GrantInv'
    BY <1>0, <1>12, BeginOwn, BystanderStep DEF IssueBegin
<1>13. CASE IssueCheckConsent(w) \/ IssueReadTemplate(w) \/ IssueUnavailable(w)
            \/ IssueRefuse(w)
  <2>1. CASE IssueCheckConsent(w)
      BY <1>0, <2>1, GotoOwn, ReturnOwn, BystanderStep DEF IssueCheckConsent
  <2>2. CASE IssueReadTemplate(w)
      BY <1>0, <2>2, GotoOwn, ReturnOwn, BystanderStep DEF IssueReadTemplate
  <2>3. CASE IssueUnavailable(w)
      BY <1>0, <2>3, ReturnOwn, BystanderStep DEF IssueUnavailable
  <2>4. CASE IssueRefuse(w)
      BY <1>0, <2>4, GotoOwn, BystanderStep DEF IssueRefuse
  <2> QED BY <1>13, <2>1, <2>2, <2>3, <2>4
<1>14. CASE RefuseAudit(w)
    BY <1>0, <1>14, ReturnOwn, BystanderStep DEF RefuseAudit, Log
<1>15. CASE IssueDecide(w)
    BY <1>0, <1>15, DecideStep
<1>16. CASE IssueInsert(w)
  <2>1. CASE GrantInsertable(grants, req[w].grant)
      BY <1>0, <1>16, <2>1, InsertStep
  <2>2. CASE ~GrantInsertable(grants, req[w].grant)
      BY <1>0, <1>16, <2>2, ReturnOwn, BystanderStep DEF IssueInsert
  <2> QED BY <2>1, <2>2
<1>17. CASE IssueAudit(w)
    BY <1>0, <1>17, IssueAuditStep
<1>18. ASSUME NEW c \in tokens, ConsumeBegin(w, c) PROVE GrantInv'
  <2>1. /\ \A v \in Workers \ {w} : req'[v] = req[v]
        /\ req'[w].step = "consume_consent" /\ req'[w].at = clock
      BY <1>0, <1>18 DEF ConsumeBegin, TypeOK, Idle
  <2> QED BY <1>0, <1>18, <2>1, BystanderStep
          DEF ConsumeBegin, TypeOK, OwnRequestOnly
<1>19. CASE ConsumeCheckConsent(w)
    BY <1>0, <1>19, GotoOwn, ReturnOwn, BystanderStep DEF ConsumeCheckConsent
<1>20. CASE ConsumeCommit(w)
  <2>1. CASE SpendableRow(grants[req[w].grant.id], req[w].grant, req[w].at)
      BY <1>0, <1>20, <2>1, ConsumeStep
  <2>2. CASE ~SpendableRow(grants[req[w].grant.id], req[w].grant, req[w].at)
      BY <1>0, <1>20, <2>2, ReturnOwn, BystanderStep DEF ConsumeCommit
  <2> QED BY <2>1, <2>2
<1>21. CASE ConsumeAudit(w)
    BY <1>0, <1>21, ConsumeAuditStep
<1>22. GrantStep(w) \/ GrantRequest(w) => GrantInv'
    BY <1>12, <1>13, <1>14, <1>15, <1>16, <1>17, <1>18, <1>19, <1>20, <1>21
       DEF GrantStep, GrantRequest
<1>23. CASE Abort(w)
    BY <1>0, <1>23, ReturnOwn, BystanderStep DEF Abort
<1> QED BY <1>7, <1>11, <1>22, <1>23 DEF RequestStep, NewRequest

\* The invariant holds in every state of every behaviour.
THEOREM GrantInvariant == Spec => []GrantInv
<1> QED BY GrantInvInit, GrantInvStep, PTL DEF Spec

\* No interleaving, crash, replay or purge lets consume_grant return one grant
\* twice.
THEOREM GrantsAreSpentOnce == Spec => []SpentAtMostOnce
<1>1. GrantInv => SpentAtMostOnce
    BY DEF GrantInv
<1> QED BY <1>1, GrantInvariant, PTL

\* The audit log names no consumption that did not happen.
THEOREM AuditIsTruthful == Spec => []AuditedConsumptionHappened
<1>1. GrantInv => AuditedConsumptionHappened
    BY DEF GrantInv
<1> QED BY <1>1, GrantInvariant, PTL

LEMMA HeldIsSpendable == GrantInv => HeldGrantRedeemable
<1> SUFFICES ASSUME GrantInv, NEW c \in tokens, spent[c.id] = 0, clock < c.expires
             PROVE  SpendableRow(grants[c.id], c, clock)
    BY DEF HeldGrantRedeemable
<1>1. c \in Claims /\ c.id \in GrantIds
    BY DEF GrantInv, TypeOK, Claims
<1>2. grants[c.id] # None /\ grants[c.id].claims = c
    BY DEF GrantInv, IssuedIsKept, Kept
<1>3. grants[c.id].consumed = None
    BY <1>1, <1>2 DEF GrantInv, RowsTellTheTruth
<1> QED BY <1>2, <1>3 DEF SpendableRow

\* Neither the purge nor a revocation nor another grant takes an unspent,
\* unexpired grant from the device that holds its token.
THEOREM HeldGrantsStay == Spec => []HeldGrantRedeemable
<1> QED BY HeldIsSpendable, GrantInvariant, PTL

LEMMA UsableIsUnique == GrantInv => OneUsableTokenPerNonce
<1> SUFFICES ASSUME GrantInv, NEW c \in tokens, NEW d \in tokens,
                    c.device = d.device, c.nonce = d.nonce,
                    clock < c.expires, clock < d.expires,
                    spent[c.id] = 0, spent[d.id] = 0
             PROVE  c = d
    BY DEF OneUsableTokenPerNonce
<1>1. c.id \in GrantIds /\ d.id \in GrantIds
    BY DEF GrantInv, TypeOK, Claims
<1>2. /\ grants[c.id] # None /\ grants[c.id].claims = c
      /\ grants[d.id] # None /\ grants[d.id].claims = d
    BY HeldIsSpendable DEF HeldGrantRedeemable, SpendableRow
<1>3. c.id = d.id
    BY <1>1, <1>2 DEF GrantInv, UniqueNonces
<1> QED BY <1>2, <1>3

\* A nonce the purge has forgotten still yields one usable token at a time.
THEOREM NoncesAreUnique == Spec => []OneUsableTokenPerNonce
<1> QED BY UsableIsUnique, GrantInvariant, PTL

-----------------------------------------------------------------------------
(* authorization_grants: the refinement                                     *)

\* The three transactions that write authorization_grants.
LEMMA GrantWriters ==
    ASSUME [Next]_vars
    PROVE  \/ UNCHANGED <<grants, stored, spent>>
           \/ \E w \in Workers : IssueInsert(w) \/ ConsumeCommit(w) \/ PurgeCommit(w)
<1>1. CASE UNCHANGED vars
    BY <1>1 DEF vars
<1>2. CASE Tick
    BY <1>2 DEF Tick
<1> SUFFICES ASSUME NEW w \in Workers, RequestStep(w) \/ NewRequest(w) \/ Abort(w),
                    ~IssueInsert(w), ~ConsumeCommit(w), ~PurgeCommit(w)
             PROVE  UNCHANGED <<grants, stored, spent>>
    BY <1>1, <1>2 DEF Next
<1>3. GovernanceStep(w) \/ GovernanceRequest(w) => UNCHANGED <<grants, stored, spent>>
    BY DEF GovernanceStep, GovernanceRequest, ConsentBegin, ConsentCommit, ConsentAudit,
       RevokeBegin, RevokeCommit, RevokeAudit, PurgeBegin, PurgeAudit
<1>4. EnrollmentStep(w) \/ EnrollmentRequest(w) => UNCHANGED <<grants, stored, spent>>
    BY DEF EnrollmentStep, EnrollmentRequest, EnrollBegin, EnrollCheckConsent,
       EnrollReject, EnrollReadCurrent, EnrollSave
<1>5. GrantStep(w) => UNCHANGED <<grants, stored, spent>>
    BY DEF GrantStep, IssueCheckConsent, IssueReadTemplate, IssueUnavailable,
       IssueRefuse, RefuseAudit, IssueDecide, IssueAudit,
       ConsumeCheckConsent, ConsumeAudit
<1>6. GrantRequest(w) \/ Abort(w) => UNCHANGED <<grants, stored, spent>>
    BY DEF GrantRequest, IssueBegin, ConsumeBegin, Abort
<1> QED BY <1>3, <1>4, <1>5, <1>6 DEF RequestStep, NewRequest

LEMMA CapabilityInit == Init => Capability!CapInit
BY DEF Init, Capability!CapInit, CapStatus

LEMMA InsertOpens ==
    ASSUME GrantInv, NEW w \in Workers, IssueInsert(w),
           GrantInsertable(grants, req[w].grant)
    PROVE  Capability!CapNext
<1> DEFINE c == req[w].grant
<1>1. c \in Claims /\ c.id \in GrantIds
    BY DEF IssueInsert, GrantInv, TypeOK, Requests, WellFormed, GrantSteps, Claims
<1>2. /\ c.id \notin stored
      /\ grants' = [grants EXCEPT ![c.id] = [claims |-> c, consumed |-> None]]
      /\ stored' = stored \cup {c.id}
      /\ spent' = spent
    BY DEF IssueInsert, PutGrant, GrantInv, PendingIsNew
<1>3. [claims |-> c, consumed |-> None] # None
    BY <1>1, StoreAssumption DEF GrantRow
<1>4. CapStatus[c.id] = "unknown"
    BY <1>1, <1>2 DEF CapStatus
<1>5. CapStatus' = [CapStatus EXCEPT ![c.id] = "open"]
    BY <1>1, <1>2, <1>3 DEF CapStatus, GrantInv, TypeOK
<1>6. Capability!Open(c.id)
    BY <1>2, <1>4, <1>5 DEF Capability!Open
<1> QED BY <1>1, <1>6 DEF Capability!CapNext

LEMMA ConsumeRedeems ==
    ASSUME GrantInv, NEW w \in Workers, ConsumeCommit(w),
           SpendableRow(grants[req[w].grant.id], req[w].grant, req[w].at)
    PROVE  Capability!CapNext
<1> DEFINE g == req[w].grant.id
<1>1. g \in GrantIds /\ req[w].at \in Nat
    BY DEF ConsumeCommit, GrantInv, TypeOK, Requests, WellFormed, GrantSteps, Claims
<1>2. /\ grants' = [grants EXCEPT ![g].consumed = req[w].at]
      /\ spent' = [spent EXCEPT ![g] = @ + 1]
      /\ stored' = stored
    BY DEF ConsumeCommit, SpendGrant
<1>3. grants[g] # None /\ grants[g].consumed = None /\ g \in stored
    BY <1>1 DEF SpendableRow, GrantInv, RowsTellTheTruth
<1>4. grants'[g].consumed # None /\ \A h \in GrantIds \ {g} : grants'[h] = grants[h]
    BY <1>1, <1>2, <1>3, StoreAssumption DEF GrantInv, TypeOK, GrantRow
<1>5. CapStatus[g] = "open"
    BY <1>1, <1>3 DEF CapStatus
<1>6. CapStatus' = [CapStatus EXCEPT ![g] = "closed"]
    BY <1>1, <1>2, <1>3, <1>4 DEF CapStatus
<1>7. Capability!Redeem(g)
    BY <1>2, <1>5, <1>6 DEF Capability!Redeem
<1> QED BY <1>1, <1>7 DEF Capability!CapNext

\* The purge withdraws the expired rows; a consumed one is closed already.
LEMMA PurgeWithdraws ==
    ASSUME GrantInv, NEW w \in Workers, PurgeCommit(w)
    PROVE  Capability!CapNext
<1> DEFINE S == {g \in GrantIds : CapStatus[g] = "open" /\ grants'[g] = None}
<1>1. stored' = stored /\ spent' = spent
    BY DEF PurgeCommit
<1>2. \A g \in GrantIds : grants'[g] # None => grants'[g] = grants[g]
    BY DEF PurgeCommit, PurgeGrants
<1>3. CapStatus' = [g \in GrantIds |-> IF g \in S THEN "closed" ELSE CapStatus[g]]
    BY <1>1, <1>2 DEF CapStatus
<1>4. S \in SUBSET GrantIds /\ \A g \in S : CapStatus[g] = "open"
    OBVIOUS
<1>5. Capability!Withdraw(S)
    BY <1>1, <1>3, <1>4 DEF Capability!Withdraw
<1> QED BY <1>4, <1>5 DEF Capability!CapNext

LEMMA CapabilityStep ==
    GrantInv /\ [Next]_vars => [Capability!CapNext]_(Capability!capVars)
<1> SUFFICES ASSUME GrantInv, [Next]_vars
             PROVE  Capability!CapNext \/ UNCHANGED <<CapStatus, spent>>
    BY DEF Capability!capVars
<1>1. CASE UNCHANGED <<grants, stored, spent>>
    BY <1>1 DEF CapStatus
<1>2. ASSUME NEW w \in Workers, IssueInsert(w)
      PROVE  Capability!CapNext \/ UNCHANGED <<CapStatus, spent>>
  <2>1. CASE GrantInsertable(grants, req[w].grant)
      BY <1>2, <2>1, InsertOpens
  <2>2. CASE ~GrantInsertable(grants, req[w].grant)
      BY <1>2, <2>2 DEF IssueInsert, CapStatus
  <2> QED BY <2>1, <2>2
<1>3. ASSUME NEW w \in Workers, ConsumeCommit(w)
      PROVE  Capability!CapNext \/ UNCHANGED <<CapStatus, spent>>
  <2>1. CASE SpendableRow(grants[req[w].grant.id], req[w].grant, req[w].at)
      BY <1>3, <2>1, ConsumeRedeems
  <2>2. CASE ~SpendableRow(grants[req[w].grant.id], req[w].grant, req[w].at)
      BY <1>3, <2>2 DEF ConsumeCommit, CapStatus
  <2> QED BY <2>1, <2>2
<1> QED BY <1>1, <1>2, <1>3, GrantWriters, PurgeWithdraws

\* The grant store, under races, crashes, replays and purges, implements a set of
\* capabilities each of which is redeemed at most once and never reopened.
THEOREM ImplementsSingleUse == Spec => SingleUse
<1> QED BY CapabilityInit, CapabilityStep, GrantInvariant, PTL
        DEF Spec, SingleUse, Capability!CapSpec

-----------------------------------------------------------------------------
(* voice_templates                                                          *)

\* The three transactions that write voice_templates.
LEMMA TemplateWriters ==
    ASSUME [Next]_vars
    PROVE  \/ UNCHANGED templates
           \/ \E w \in Workers : RevokeCommit(w) \/ PurgeCommit(w) \/ EnrollSave(w)
<1>1. CASE UNCHANGED vars
    BY <1>1 DEF vars
<1>2. CASE Tick
    BY <1>2 DEF Tick
<1> SUFFICES ASSUME NEW w \in Workers, RequestStep(w) \/ NewRequest(w) \/ Abort(w),
                    ~RevokeCommit(w), ~PurgeCommit(w), ~EnrollSave(w)
             PROVE  UNCHANGED templates
    BY <1>1, <1>2 DEF Next
<1>3. GovernanceStep(w) \/ GovernanceRequest(w) => UNCHANGED templates
    BY DEF GovernanceStep, GovernanceRequest, ConsentBegin, ConsentCommit, ConsentAudit,
       RevokeBegin, RevokeAudit, PurgeBegin, PurgeAudit
<1>4. EnrollmentStep(w) \/ EnrollmentRequest(w) => UNCHANGED templates
    BY DEF EnrollmentStep, EnrollmentRequest, EnrollBegin, EnrollCheckConsent,
       EnrollReject, EnrollReadCurrent
<1>5. GrantStep(w) => UNCHANGED templates
    BY DEF GrantStep, IssueCheckConsent, IssueReadTemplate,
       IssueUnavailable, IssueRefuse, RefuseAudit, IssueDecide, IssueInsert, IssueAudit,
       ConsumeCheckConsent, ConsumeCommit, ConsumeAudit
<1>6. GrantRequest(w) \/ Abort(w) => UNCHANGED templates
    BY DEF GrantRequest, IssueBegin, ConsumeBegin, Abort
<1> QED BY <1>3, <1>4, <1>5, <1>6 DEF RequestStep, NewRequest

-----------------------------------------------------------------------------
(* Revoking rows.                                                           *)

\* A revocation stamps some live rows and touches nothing else of the table.
StampsLiveRows(ts, us, at) ==
    \E victims \in SUBSET ts :
        /\ \A r \in victims : r.revoked = None
        /\ us = RevokeRows(ts, victims, at)

\* What stamping a row changes of it.
LEMMA StampedRow ==
    ASSUME NEW r \in TemplateRow, NEW at \in Nat
    PROVE  /\ [r EXCEPT !.revoked = at] \in TemplateRow
           /\ SameTemplate(r, [r EXCEPT !.revoked = at])
           /\ [r EXCEPT !.revoked = at].revoked = at
           /\ [r EXCEPT !.revoked = at].revoked # None
BY StoreAssumption DEF TemplateRow, SameTemplate

\* Each writer of the table in these terms: it stamps live rows; the purge then
\* deletes rows past their window, and a save adds the newest version.
LEMMA RevokeWrites ==
    ASSUME NEW w \in Workers, RevokeCommit(w)
    PROVE  StampsLiveRows(templates, templates', req[w].at)
BY DEF RevokeCommit, RevokeTemplates, Live, StampsLiveRows

PurgeKeeps(us, at) ==
    {r \in us : r.revoked = None \/ at < r.revoked + Retention}

LEMMA PurgeWrites ==
    ASSUME NEW w \in Workers, PurgeCommit(w)
    PROVE  \E us : /\ StampsLiveRows(templates, us, req[w].at)
                   /\ templates' = PurgeKeeps(us, req[w].at)
<1> DEFINE victims == Unconsented(templates, consents, req[w].at)
           us == RevokeRows(templates, victims, req[w].at)
<1>1. victims \in SUBSET templates /\ \A r \in victims : r.revoked = None
    BY DEF Unconsented
<1>2. StampsLiveRows(templates, us, req[w].at)
    BY <1>1 DEF StampsLiveRows
<1>3. templates' = PurgeKeeps(us, req[w].at)
    BY DEF PurgeCommit, PurgeTemplates, PurgeKeeps
<1> QED BY <1>2, <1>3

AddsNewest(ts, us, us2, row) ==
    /\ \A r \in us : r.identity = row.identity => r.revoked # None
    /\ us2 = us \cup {row}
    /\ row.revoked = None
    /\ \A r \in ts : r.identity = row.identity => r.version < row.version

LEMMA SaveWrites ==
    ASSUME TypeOK, NEW w \in Workers, EnrollSave(w), templates' # templates
    PROVE  \E us : \E row \in TemplateRow :
              /\ StampsLiveRows(templates, us, req[w].at)
              /\ AddsNewest(templates, us, templates', row)
<1> DEFINE i == req[w].who
           v == req[w].version
           at == req[w].at
           row == [identity |-> i, version |-> v, created |-> at, revoked |-> None]
           us == RevokeRows(templates, Live(templates, i), at)
<1>1. VersionExpected(templates, i, v) /\ templates' = us \cup {row}
    BY DEF EnrollSave, SaveTemplate
<1>2. at \in Nat /\ i \in Identities /\ v \in Nat \ {0}
    BY DEF TypeOK, EnrollSave, Requests, WellFormed
<1>3. row \in TemplateRow
    BY <1>2 DEF TemplateRow
<1>4. StampsLiveRows(templates, us, at)
    BY DEF StampsLiveRows, Live
<1>5. \A r \in us : r.identity = i => r.revoked # None
  <2> SUFFICES ASSUME NEW r \in us, r.identity = i PROVE r.revoked # None
      OBVIOUS
  <2>1. CASE r \in templates \ Live(templates, i)
      BY <2>1 DEF Live
  <2>2. ASSUME NEW s \in Live(templates, i), r = [s EXCEPT !.revoked = at]
        PROVE  r.revoked # None
      BY <1>2, <2>2, StampedRow DEF Live, TypeOK
  <2> QED BY <2>1, <2>2 DEF RevokeRows
<1>6. \A r \in templates : r.identity = i => r.version < v
    BY <1>1 DEF VersionExpected
<1>7. AddsNewest(templates, us, templates', row)
    BY <1>1, <1>5, <1>6 DEF AddsNewest
<1> QED BY <1>3, <1>4, <1>7

-----------------------------------------------------------------------------
(* The live row is the newest.                                              *)

Newest(ts) ==
    \A r, s \in ts : r.identity = s.identity =>
        /\ r.version = s.version => r = s
        /\ r.revoked = None => s.version <= r.version

\* Where the rows of a stamped table come from.
LEMMA Origin ==
    ASSUME NEW ts, ts \subseteq TemplateRow, NEW at \in Nat,
           NEW victims \in SUBSET ts, NEW s \in RevokeRows(ts, victims, at)
    PROVE  \E r \in ts : /\ SameTemplate(r, s)
                         /\ \/ r \notin victims /\ s = r
                            \/ r \in victims /\ s = [r EXCEPT !.revoked = at]
                         /\ s.revoked = None => s = r
<1>1. CASE s \in ts \ victims
    BY <1>1 DEF SameTemplate
<1>2. ASSUME NEW r \in victims, s = [r EXCEPT !.revoked = at]
      PROVE  /\ SameTemplate(r, s) /\ s.revoked # None
    BY <1>2, StampedRow
<1> QED BY <1>1, <1>2 DEF RevokeRows

LEMMA StampingKeepsNewest ==
    ASSUME NEW ts, ts \subseteq TemplateRow, NEW us, NEW at \in Nat,
           StampsLiveRows(ts, us, at), Newest(ts)
    PROVE  Newest(us)
<1>1. PICK victims \in SUBSET ts : us = RevokeRows(ts, victims, at)
    BY DEF StampsLiveRows
<1> SUFFICES ASSUME NEW p \in us, NEW q \in us, p.identity = q.identity
             PROVE  /\ p.version = q.version => p = q
                    /\ p.revoked = None => q.version <= p.version
    BY DEF Newest
<1>2. PICK r \in ts : /\ SameTemplate(r, p)
                      /\ \/ r \notin victims /\ p = r
                         \/ r \in victims /\ p = [r EXCEPT !.revoked = at]
                      /\ p.revoked = None => p = r
    BY <1>1, Origin
<1>3. PICK s \in ts : /\ SameTemplate(s, q)
                      /\ \/ s \notin victims /\ q = s
                         \/ s \in victims /\ q = [s EXCEPT !.revoked = at]
    BY <1>1, Origin
<1>4. r.identity = s.identity /\ p.version = r.version /\ q.version = s.version
    BY <1>2, <1>3 DEF SameTemplate
<1>5. ASSUME p.version = q.version PROVE p = q
    BY <1>2, <1>3, <1>4, <1>5 DEF Newest
<1>6. ASSUME p.revoked = None PROVE q.version <= p.version
    BY <1>2, <1>4, <1>6 DEF Newest
<1> QED BY <1>5, <1>6

LEMMA NewestStep == TypeOK /\ Newest(templates) /\ [Next]_vars => Newest(templates)'
<1> SUFFICES ASSUME TypeOK, Newest(templates), [Next]_vars PROVE Newest(templates')
    BY DEF Newest
<1>1. templates \subseteq TemplateRow /\ \A w \in Workers : req[w].at \in Nat
    BY DEF TypeOK, Requests
<1>2. ASSUME NEW w \in Workers, RevokeCommit(w) PROVE Newest(templates')
    BY <1>1, <1>2, RevokeWrites, StampingKeepsNewest
<1>3. ASSUME NEW w \in Workers, PurgeCommit(w) PROVE Newest(templates')
  <2>1. PICK us : /\ StampsLiveRows(templates, us, req[w].at)
                  /\ templates' = PurgeKeeps(us, req[w].at)
      BY <1>3, PurgeWrites
  <2>2. Newest(us) /\ templates' \subseteq us
      BY <1>1, <2>1, StampingKeepsNewest DEF PurgeKeeps
  <2> QED BY <2>2 DEF Newest
<1>4. ASSUME NEW w \in Workers, EnrollSave(w), templates' # templates
      PROVE  Newest(templates')
  <2>1. PICK us : \E row \in TemplateRow :
                  /\ StampsLiveRows(templates, us, req[w].at)
                  /\ AddsNewest(templates, us, templates', row)
      BY <1>4, SaveWrites
  <2>2. PICK row \in TemplateRow : AddsNewest(templates, us, templates', row)
      BY <2>1
  <2>3. Newest(us)
      BY <1>1, <2>1, StampingKeepsNewest
  <2>4. ASSUME NEW q \in us, q.identity = row.identity PROVE q.version < row.version
    <3>1. PICK victims \in SUBSET templates :
             us = RevokeRows(templates, victims, req[w].at)
        BY <2>1 DEF StampsLiveRows
    <3>2. PICK r \in templates : SameTemplate(r, q)
        BY <1>1, <3>1, Origin
    <3> QED BY <2>2, <2>4, <3>2 DEF AddsNewest, SameTemplate
  <2>5. \A q \in us : q \in TemplateRow
      BY <1>1, <2>1, RevokeRowsType DEF StampsLiveRows
  <2> QED BY <2>2, <2>3, <2>4, <2>5 DEF AddsNewest, Newest, TemplateRow
<1> QED BY <1>2, <1>3, <1>4, TemplateWriters

\* However enrollments, revocations and purges interleave, the live template of
\* an identity is its newest, and no two rows share a version.
THEOREM LiveIsNewest == Spec => []LiveTemplateIsNewest
<1>1. Init => Newest(templates)
    BY DEF Init, Newest
<1>2. Newest(templates) => LiveTemplateIsNewest
    BY DEF Newest, LiveTemplateIsNewest
<1> QED BY <1>1, <1>2, NewestStep, TypeCorrect, PTL DEF Spec

-----------------------------------------------------------------------------
(* What a step may do to a revoked row.                                     *)

\* A template is only deleted once its window is over.
LEMMA RetentionStep ==
    ASSUME TypeOK, NowIsPast, [Next]_vars, NEW r \in templates,
           \A s \in templates' : ~SameTemplate(r, s)
    PROVE  IF r.revoked = None THEN Retention = 0
                               ELSE r.revoked + Retention <= clock
<1>1. templates \subseteq TemplateRow /\ clock \in Nat
    BY DEF TypeOK
<1>2. ASSUME NEW us, NEW at \in Nat, StampsLiveRows(templates, us, at)
      PROVE  r \in us \/ (r.revoked = None /\ [r EXCEPT !.revoked = at] \in us)
    BY <1>2 DEF StampsLiveRows, RevokeRows
<1>3. \A w \in Workers : req[w].at \in Nat /\ req[w].at <= clock
    BY DEF TypeOK, NowIsPast, Requests
<1>4. CASE UNCHANGED templates
    BY <1>4 DEF SameTemplate
<1>5. ASSUME NEW w \in Workers, RevokeCommit(w) PROVE FALSE
  <2>1. StampsLiveRows(templates, templates', req[w].at)
      BY <1>5, RevokeWrites
  <2>2. CASE r \in templates'
      BY <2>2 DEF SameTemplate
  <2>3. CASE [r EXCEPT !.revoked = req[w].at] \in templates'
      BY <1>1, <1>3, <2>3, StampedRow
  <2> QED BY <1>2, <1>3, <2>1, <2>2, <2>3
<1>6. ASSUME NEW w \in Workers, EnrollSave(w), templates' # templates PROVE FALSE
  <2>1. PICK us : StampsLiveRows(templates, us, req[w].at) /\ us \subseteq templates'
      BY <1>6, SaveWrites DEF AddsNewest
  <2>2. r \in us \/ [r EXCEPT !.revoked = req[w].at] \in us
      BY <1>2, <1>3, <2>1
  <2>3. SameTemplate(r, r) /\ SameTemplate(r, [r EXCEPT !.revoked = req[w].at])
      BY <1>1, <1>3, StampedRow DEF SameTemplate
  <2> QED BY <2>1, <2>2, <2>3
<1>7. ASSUME NEW w \in Workers, PurgeCommit(w)
      PROVE  IF r.revoked = None THEN Retention = 0
                                 ELSE r.revoked + Retention <= clock
  <2>1. PICK us : /\ StampsLiveRows(templates, us, req[w].at)
                  /\ templates' = PurgeKeeps(us, req[w].at)
      BY <1>7, PurgeWrites
  <2>2. CASE r \in us
    <3>1. r \notin templates'
        BY DEF SameTemplate
    <3>2. r.revoked \in Nat /\ ~(req[w].at < r.revoked + Retention)
        BY <1>1, <2>1, <2>2, <3>1 DEF PurgeKeeps, TemplateRow
    <3> QED BY <1>1, <1>3, <3>2, StoreAssumption
  <2>3. CASE r.revoked = None /\ [r EXCEPT !.revoked = req[w].at] \in us
    <3> DEFINE s == [r EXCEPT !.revoked = req[w].at]
    <3>1. SameTemplate(r, s) /\ s.revoked = req[w].at
        BY <1>1, <1>3, StampedRow
    <3>2. ~(req[w].at < req[w].at + Retention)
        BY <2>1, <2>3, <3>1 DEF PurgeKeeps
    <3> QED BY <1>3, <2>3, <3>2, StoreAssumption
  <2> QED BY <1>2, <1>3, <2>1, <2>2, <2>3
<1> QED BY <1>4, <1>5, <1>6, <1>7, TemplateWriters

\* Revoked templates outlive their revocation by the whole retention window.
THEOREM RetentionIsHonoured == Spec => RetentionHonoured
<1>1. TypeOK /\ NowIsPast /\ [Next]_vars =>
        [\A r \in templates :
            (\A s \in templates' : ~SameTemplate(r, s)) =>
               IF r.revoked = None THEN Retention = 0
                                   ELSE r.revoked + Retention <= clock]_vars
    BY RetentionStep
<1>2. GrantInv => TypeOK /\ NowIsPast
    BY DEF GrantInv
<1> QED BY <1>1, <1>2, GrantInvariant, PTL DEF Spec, RetentionHonoured

\* A revoked row keeps its stamp: a stamping touches live rows only, and a save
\* never reuses a version.
LEMMA RevocationStep ==
    ASSUME TypeOK, Newest(templates), [Next]_vars,
           NEW r \in templates, NEW s \in templates',
           SameTemplate(r, s), r.revoked # None
    PROVE  s.revoked = r.revoked
<1>1. templates \subseteq TemplateRow /\ \A w \in Workers : req[w].at \in Nat
    BY DEF TypeOK, Requests
<1>2. ASSUME NEW us, NEW at \in Nat, StampsLiveRows(templates, us, at), s \in us
      PROVE  s.revoked = r.revoked
  <2>1. PICK victims \in SUBSET templates :
           /\ \A v \in victims : v.revoked = None
           /\ us = RevokeRows(templates, victims, at)
      BY <1>2 DEF StampsLiveRows
  <2>2. PICK p \in templates :
           /\ SameTemplate(p, s)
           /\ \/ p \notin victims /\ s = p
              \/ p \in victims /\ s = [p EXCEPT !.revoked = at]
      BY <1>1, <1>2, <2>1, Origin
  <2>3. p = r
      BY <2>2 DEF SameTemplate, Newest
  <2> QED BY <2>1, <2>2, <2>3
<1>3. CASE UNCHANGED templates
    BY <1>3 DEF SameTemplate, Newest
<1>4. ASSUME NEW w \in Workers, RevokeCommit(w) PROVE s.revoked = r.revoked
    BY <1>1, <1>2, <1>4, RevokeWrites
<1>5. ASSUME NEW w \in Workers, PurgeCommit(w) PROVE s.revoked = r.revoked
  <2>1. PICK us : StampsLiveRows(templates, us, req[w].at) /\ s \in us
      BY <1>5, PurgeWrites DEF PurgeKeeps
  <2> QED BY <1>1, <1>2, <2>1
<1>6. ASSUME NEW w \in Workers, EnrollSave(w), templates' # templates
      PROVE  s.revoked = r.revoked
  <2>1. PICK us : \E row \in TemplateRow :
                  /\ StampsLiveRows(templates, us, req[w].at)
                  /\ AddsNewest(templates, us, templates', row)
      BY <1>6, SaveWrites
  <2>2. PICK row \in TemplateRow : AddsNewest(templates, us, templates', row)
      BY <2>1
  <2>3. s # row
      BY <1>1, <2>2 DEF AddsNewest, SameTemplate, TemplateRow
  <2> QED BY <1>1, <1>2, <2>1, <2>2, <2>3 DEF AddsNewest
<1> QED BY <1>3, <1>4, <1>5, <1>6, TemplateWriters

\* Nothing revives a revoked template or renews its retention window.
THEOREM RevocationStaysFinal == Spec => RevocationIsFinal
<1>1. TypeOK /\ Newest(templates) /\ [Next]_vars =>
        [\A r \in templates, s \in templates' :
            SameTemplate(r, s) /\ r.revoked # None => s.revoked = r.revoked]_vars
    BY RevocationStep
<1>2. LiveTemplateIsNewest => Newest(templates)
    BY DEF Newest, LiveTemplateIsNewest
<1> QED BY <1>1, <1>2, LiveIsNewest, TypeCorrect, PTL DEF Spec, RevocationIsFinal
=============================================================================
