--------------------------- MODULE SlidingWindow ---------------------------
(***************************************************************************)
(* What a per-client sliding-window rate limiter promises: a request is    *)
(* granted exactly when fewer than Limit were granted to its client within *)
(* the last Window units of time.                                          *)
(***************************************************************************)
EXTENDS Integers, Sequences, FiniteSets

CONSTANTS
    Clients,  \* the keys requests are counted under
    Limit,    \* how many requests a window may hold
    Window    \* the length of the window

VARIABLES
    now,      \* the clock
    granted,  \* for each client, when its granted requests came
    answer    \* the answer to the last request of this instant

NoAnswer == <<>>

SWInit ==
    /\ now = 0
    /\ granted = [c \in Clients |-> <<>>]
    /\ answer = NoAnswer

\* The grants a client was given within the window that ends now.
Recent(c) == {i \in DOMAIN granted[c] : granted[c][i] > now - Window}

Grant(c) ==
    /\ Cardinality(Recent(c)) < Limit
    /\ granted' = [granted EXCEPT ![c] = Append(@, now)]
    /\ answer' = <<c, "granted">>
    /\ UNCHANGED now

Deny(c) ==
    /\ Cardinality(Recent(c)) >= Limit
    /\ answer' = <<c, "denied">>
    /\ UNCHANGED <<now, granted>>

Elapse ==
    /\ now' = now + 1
    /\ answer' = NoAnswer
    /\ UNCHANGED granted

SWNext == Elapse \/ \E c \in Clients : Grant(c) \/ Deny(c)

SWSpec == SWInit /\ [][SWNext]_<<now, granted, answer>>

=============================================================================
