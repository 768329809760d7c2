----------------------------- MODULE VoiceRequest -----------------------------
(***************************************************************************)
(* A POST request with audio, from the middleware to its outcome: the rate *)
(* limiter and the declared length, the upload, and then, for an           *)
(* authorization, the pipeline of VoiceAuthorization with the detector of  *)
(* SpeechSegments at work inside it. An enrollment leaves this module when *)
(* its payloads are handed to EnrollmentService (TemplateEnrollment).      *)
(*                                                                         *)
(* Bound: one request is followed beyond the middleware, the first that    *)
(* the process receives. All others only use up the limiter.               *)
(***************************************************************************)
EXTENDS VoiceAuthorization, RequestGate, UploadReading, SpeechSegments

VARIABLE route  \* "middleware", "enroll" and "authorize" (the handlers),
                \* "service" (ActionAuthorizationService), "answered"

vars == <<authVars, gateVars, uploadVars, speechVars, route>>

Init ==
    /\ Start
    /\ GateInit
    /\ Idle
    /\ NoAudio
    /\ route = "middleware"

\* What the Content-Length header of a request can be.
ContentLengths == {"absent", "invalid", "too_large", "accepted"}

\* Requests that are not followed.
OtherRequests ==
    /\ route = "middleware"
    /\ GateNext
    /\ UNCHANGED <<authVars, uploadVars, speechVars, route>>

\* enforce_content_length after consume: a length that is no number, or that is
\* too large, ends the request here.
RefuseLength(contentLength) ==
    /\ contentLength \in {"invalid", "too_large"}
    /\ route' = "answered"
    /\ UNCHANGED uploadVars

\* call_next: the handler of the route begins to read its files. The server hands
\* over as many bytes as were declared, and any number when none was.
CallNext(contentLength) ==
    \E length \in 1..MaxRequestBytes \cup {LongestBody} :
        /\ contentLength \in {"absent", "accepted"}
        /\ length = LongestBody <=> contentLength = "absent"
        /\ \/ /\ route' = "authorize"
              /\ BeginUploads(1, length)
           \/ /\ route' = "enroll"
              /\ \E n \in 1..(MaxFiles + 1) : BeginUploads(n, length)

FollowRequest ==
    \E c \in Clients, contentLength \in ContentLengths :
        /\ route = "middleware"
        /\ now = 0
        /\ windows = Empty
        /\ Admit(c)
        /\ RefuseLength(contentLength) \/ CallNext(contentLength)
        /\ UNCHANGED <<authVars, speechVars>>

ReadUpload ==
    /\ route \in {"enroll", "authorize"}
    /\ ReadNext
    /\ UNCHANGED <<authVars, gateVars, speechVars, route>>

\* The handler goes on with the payloads, or an ApiError ends the request.
UploadDone ==
    /\ route \in {"enroll", "authorize"}
    /\ EndUploads
    /\ route' = IF route = "authorize" /\ reading = "accepted" THEN "service"
                                                               ELSE "answered"
    /\ UNCHANGED <<authVars, gateVars, speechVars>>

-----------------------------------------------------------------------------
(* AudioPreprocessor.process, called by verify                              *)

Preprocess ==
    /\ route = "service"
    /\ stage = "audio"
    /\ Decode \/ Listen \/ Detect
    /\ UNCHANGED <<authVars, gateVars, uploadVars, route>>

\* The decoder or a domain value raises ValueError.
InvalidAudio ==
    /\ route = "service"
    /\ samples = 0
    /\ ProcessAudio
    /\ stage' = "done"
    /\ UNCHANGED <<gateVars, uploadVars, speechVars, route>>

\* evaluate_quality on the report.
JudgeQuality ==
    \E noise \in NoiseLevels, clipped \in BOOLEAN :
        /\ route = "service"
        /\ Detected
        /\ ProcessAudio
        /\ stage' = IF QualityReasons(noise, clipped) = {} THEN "embed" ELSE "authorize"
        /\ Forget
        /\ UNCHANGED <<gateVars, uploadVars, route>>

OtherCalls ==
    /\ route = "service"
    /\ \/ CheckTemplate \/ Embed \/ SpoofFailure \/ SpoofCheck
       \/ MakeDecision \/ AuthorizeAction
    /\ UNCHANGED <<gateVars, uploadVars, speechVars, route>>

Answer ==
    /\ route = "service"
    /\ stage = "done"
    /\ route' = "answered"
    /\ UNCHANGED <<authVars, gateVars, uploadVars, speechVars>>

Next ==
    \/ OtherRequests \/ FollowRequest \/ ReadUpload \/ UploadDone
    \/ Preprocess \/ InvalidAudio \/ JudgeQuality \/ OtherCalls \/ Answer

Spec == Init /\ [][Next]_vars
=============================================================================
