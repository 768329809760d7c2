----------------------------- MODULE RequestGate -----------------------------
(***************************************************************************)
(* The fixed-window rate limiter that the middleware asks before any       *)
(* non-GET request to /api/v1/ goes further. It runs on the event loop, so *)
(* one call of consume is one step. Time is counted in ticks; Second of    *)
(* them make a second, the unit of the Retry-After header.                 *)
(***************************************************************************)
EXTENDS Integers, Sequences

CONSTANTS
    Clients,      \* client addresses
    MaxRequests,  \* rate_limit_requests
    Window,       \* rate_limit_window_seconds, in ticks
    Second,       \* ticks in a second
    MaxTime       \* bound: the last tick that is explored

ASSUME GateAssumption ==
    /\ MaxRequests \in Nat \ {0}
    /\ Window \in Nat \ {0}
    /\ Second \in Nat \ {0}
    /\ MaxTime \in Nat

VARIABLES
    now,       \* time.monotonic
    windows,   \* client -> when its window started and how much of it is used
    promised,  \* client -> the earliest instant a Retry-After named since the
               \* last request of the client that was let through
    recent     \* client -> its last 2 * MaxRequests admissions by this process,
               \* each with its instant and the start of the window it counted in

gateVars == <<now, windows, promised, recent>>

\* The dictionary d with the value v at key c, and without key c.
Put(d, c, v) == [k \in DOMAIN d \cup {c} |-> IF k = c THEN v ELSE d[k]]
Without(d, c) == [k \in DOMAIN d \ {c} |-> d[k]]

Empty == [c \in {} |-> 0]

GateInit ==
    /\ now = 0
    /\ windows = Empty
    /\ promised = Empty
    /\ recent = [c \in Clients |-> <<>>]

-----------------------------------------------------------------------------
(* consume                                                                  *)

Running(c) == c \in DOMAIN windows /\ now - windows[c].started < Window

Entry(c) == IF Running(c) THEN windows[c] ELSE [started |-> now, count |-> 0]

\* The limit tested one request too late.
AdmitsOneMore(c) == Entry(c).count <= MaxRequests

Admits(c) == Entry(c).count < MaxRequests

RetryAfter(c) ==
    LET seconds == (Window - (now - Entry(c).started) + Second - 1) \div Second
    IN  IF seconds < 1 THEN 1 ELSE seconds

\* The history kept for the properties: no more than two windows can admit.
Latest(admissions) ==
    IF Len(admissions) > 2 * MaxRequests THEN Tail(admissions) ELSE admissions

Admit(c) ==
    /\ Admits(c)
    /\ windows' = Put(windows, c, [Entry(c) EXCEPT !.count = @ + 1])
    /\ promised' = Without(promised, c)
    /\ recent' = [recent EXCEPT ![c] =
                    Latest(Append(@, [at |-> now, started |-> Entry(c).started]))]
    /\ UNCHANGED now

\* The earliest instant a client has been told to come back at.
Promise(c, instant) ==
    IF c \in DOMAIN promised /\ promised[c] <= instant THEN promised[c] ELSE instant

\* A refusal that starts the window anew.
RefuseExtending(c) ==
    /\ ~Admits(c)
    /\ windows' = Put(windows, c, [Entry(c) EXCEPT !.started = now])
    /\ promised' = Put(promised, c, Promise(c, now + RetryAfter(c) * Second))
    /\ UNCHANGED <<now, recent>>

Refuse(c) ==
    /\ ~Admits(c)
    /\ windows' = Put(windows, c, Entry(c))
    /\ promised' = Put(promised, c, Promise(c, now + RetryAfter(c) * Second))
    /\ UNCHANGED <<now, recent>>

Consume(c) == Admit(c) \/ Refuse(c)

-----------------------------------------------------------------------------
(* Time, and a process that starts again: the windows live in its memory.   *)

Tick ==
    /\ now < MaxTime
    /\ now' = now + 1
    /\ UNCHANGED <<windows, promised, recent>>

Restart ==
    /\ windows' = Empty
    /\ recent' = [c \in Clients |-> <<>>]
    /\ UNCHANGED <<now, promised>>

GateNext == (\E c \in Clients : Consume(c)) \/ Tick \/ Restart

GateSpec == GateInit /\ [][GateNext]_gateVars

-----------------------------------------------------------------------------

\* A client that was refused and comes back when Retry-After told it to is let
\* through, however often it tried in between, and also when the process was
\* started again meanwhile.
WaitingAsToldIsEnough ==
    \A c \in DOMAIN promised : now >= promised[c] => Admits(c)

\* On the edge between two windows a client gets through with almost twice the
\* limit in the length of one window, and never with more: 2 * MaxRequests
\* admissions in a row span a whole window.
BurstIsBounded ==
    \A c \in Clients :
        Len(recent[c]) = 2 * MaxRequests =>
            recent[c][2 * MaxRequests].at - recent[c][1].at >= Window
=============================================================================
