------------------------- MODULE TemplateEnrollment -------------------------
(***************************************************************************)
(* EnrollmentService.enroll in durable mode. Preprocessing, inference and  *)
(* the robust-template build touch no shared state; they take seconds and  *)
(* end in a template or in a rejection, chosen here without constraint.    *)
(***************************************************************************)
EXTENDS ApiRequests

CONSTANT MaxVersion  \* bound on the versions a model instance saves

ASSUME EnrollmentAssumption == MaxVersion \in Nat

enrollmentFrame == <<clock, consents, grants, audit, tokens, stored, spent>>

EnrollBegin(w, i) ==
    /\ Begin(w, "enroll", "enroll_consent", i)
    /\ UNCHANGED <<enrollmentFrame, templates>>

EnrollCheckConsent(w) ==
    /\ At(w, "enroll_consent")
    /\ IF HasActive(consents, req[w].who, req[w].at)
       THEN Goto(w, "enroll_read")
       ELSE Return(w)
    /\ UNCHANGED <<enrollmentFrame, templates>>

\* Too few or too many samples, too few valid ones, or inconsistent speakers.
EnrollReject(w) ==
    /\ At(w, "enroll_read")
    /\ Return(w)
    /\ UNCHANGED <<enrollmentFrame, templates>>

\* The samples gave a template: get_active decides its version.
EnrollReadCurrent(w) ==
    /\ At(w, "enroll_read")
    /\ \E version \in 1..MaxVersion :
          /\ VersionFollowsLive(templates, req[w].who, version)
          /\ req' = [req EXCEPT ![w].step = "enroll_save", ![w].version = version]
    /\ UNCHANGED <<enrollmentFrame, templates>>

\* save commits, or raises ValueError because the version is not the expected
\* one and leaves the table as it was. created_at is the `now` of the start.
EnrollSave(w) ==
    /\ At(w, "enroll_save")
    /\ templates' = IF VersionExpected(templates, req[w].who, req[w].version)
                    THEN SaveTemplate(templates, req[w].who, req[w].version, req[w].at)
                    ELSE templates
    /\ Return(w)
    /\ UNCHANGED enrollmentFrame

EnrollmentStep(w) ==
    \/ EnrollCheckConsent(w)
    \/ EnrollReject(w)
    \/ EnrollReadCurrent(w)
    \/ EnrollSave(w)

EnrollmentRequest(w) == \E i \in Identities : EnrollBegin(w, i)
=============================================================================
