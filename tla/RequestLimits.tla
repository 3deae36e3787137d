--------------------------- MODULE RequestLimits ----------------------------
(***************************************************************************)
(* The limits in front of every route that changes something               *)
(* (app/api/limits.py): a body that declares too many bytes is refused,    *)
(* and so is a client that has had its requests of the last window.        *)
(*                                                                         *)
(* One process answers requests one at a time, from one event loop, and    *)
(* the clock it reads never goes back.  admitted is a history: every       *)
(* request the window has let through, which the code does not keep.       *)
(***************************************************************************)
EXTENDS Integers, Sequences, FiniteSets

CONSTANTS
    Clients,        \* hosts requests come from
    Limit,          \* requests a client may make in a window
    Window,         \* its length, in ticks
    MaxTime         \* bound on the clock

ASSUME LimitsAssumption ==
    /\ Limit \in Nat
    /\ Window \in Nat \ {0}
    /\ MaxTime \in Nat

VARIABLES
    now,        \* time.monotonic()
    seen,       \* of each client: the times SlidingWindow remembers
    admitted,   \* of each client: the times of all requests it was granted
    answer      \* what the last request of each client was told

vars == <<now, seen, admitted, answer>>

Answers == {"none", "passed", "too_large", "too_many"}

Init ==
    /\ now = 0
    /\ seen = [c \in Clients |-> <<>>]
    /\ admitted = [c \in Clients |-> <<>>]
    /\ answer = [c \in Clients |-> "none"]

Tick ==
    /\ now < MaxTime
    /\ now' = now + 1
    /\ UNCHANGED <<seen, admitted, answer>>

-----------------------------------------------------------------------------
\* Mutant of Stale: a request leaves the window one instant late.
StaleLater(hit, moment) == hit < moment - Window

Stale(hit, moment) == hit <= moment - Window

\* Mutant of Remembered: everything is forgotten once anything is stale.
RememberedAfresh(hits, moment) ==
    IF hits # <<>> /\ Stale(hits[1], moment) THEN <<>> ELSE hits

\* What is left of the hits once the stale ones at the front are popped.
Remembered(hits, moment) ==
    LET popped == {i \in DOMAIN hits : \A k \in 1 .. i : Stale(hits[k], moment)}
    IN  SubSeq(hits, Cardinality(popped) + 1, Len(hits))

\* The declared body is looked at first: such a request is not counted.  (A
\* length that is not a number raises there, before anything changes.)
TooLarge(c) ==
    /\ answer' = [answer EXCEPT ![c] = "too_large"]
    /\ UNCHANGED <<now, seen, admitted>>

\* What SlidingWindow.allows looks at: does the memory of c hold Limit hits?
Exhausted(c) == Len(Remembered(seen[c], now)) >= Limit

Allowed(c) ==
    /\ ~Exhausted(c)
    /\ seen' = [seen EXCEPT ![c] = Append(Remembered(@, now), now)]
    /\ admitted' = [admitted EXCEPT ![c] = Append(@, now)]
    /\ answer' = [answer EXCEPT ![c] = "passed"]
    /\ UNCHANGED now

\* Mutant of Refused: a refusal counts as a request.
RefusedCounted(c) ==
    /\ Exhausted(c)
    /\ seen' = [seen EXCEPT ![c] = Append(Remembered(@, now), now)]
    /\ answer' = [answer EXCEPT ![c] = "too_many"]
    /\ UNCHANGED <<now, admitted>>

Refused(c) ==
    /\ Exhausted(c)
    /\ seen' = [seen EXCEPT ![c] = Remembered(@, now)]
    /\ answer' = [answer EXCEPT ![c] = "too_many"]
    /\ UNCHANGED <<now, admitted>>

\* A method that changes nothing is not limited.
Unguarded(c) ==
    /\ answer' = [answer EXCEPT ![c] = "passed"]
    /\ UNCHANGED <<now, seen, admitted>>

Next ==
    \/ Tick
    \/ \E c \in Clients : TooLarge(c) \/ Allowed(c) \/ Refused(c) \/ Unguarded(c)

Spec == Init /\ [][Next]_vars

-----------------------------------------------------------------------------
\* Every variable has its type, and no client is remembered by more than Limit
\* hits, however many requests it makes.  (SlidingWindow.seen)
TypeOK ==
    /\ now \in 0 .. MaxTime
    /\ seen \in [Clients -> Seq(0 .. MaxTime)]
    /\ admitted \in [Clients -> Seq(0 .. MaxTime)]
    /\ answer \in [Clients -> Answers]
    /\ \A c \in Clients : Len(seen[c]) <= Limit

\* No window, wherever it is laid, holds more than Limit requests of a
\* client.  (SlidingWindow.allows)
NoWindowOverflows ==
    \A c \in Clients : \A i \in DOMAIN admitted[c] :
        i + Limit \in DOMAIN admitted[c]
            => admitted[c][i + Limit] - admitted[c][i] >= Window

\* The window that ends now has had Limit requests of c.
Full(c) ==
    \/ Limit = 0
    \/ /\ Len(admitted[c]) >= Limit
       /\ now - admitted[c][Len(admitted[c]) - Limit + 1] < Window

\* A client would be refused only if the window that ends now is full: neither
\* refusals nor other clients nor what has just left the window count.
\* (SlidingWindow.allows)
OnlyFullWindowsRefuse == \A c \in Clients : Exhausted(c) => Full(c)
=============================================================================
