---------------------------- MODULE RateLimiter ----------------------------
(***************************************************************************)
(* The rate limiter in front of the load balancer: Allow, which decides on *)
(* a request under rl.mu, and the goroutine that every minute deletes the  *)
(* buckets of clients not seen for Expiry.  Both are critical sections of  *)
(* the same lock and read the clock inside it, so each is one step.        *)
(*                                                                         *)
(* A bucket holds the times of granted requests.  Here it holds which      *)
(* grants they are, as places of the history granted, so that two grants   *)
(* of one instant stay two.                                                *)
(***************************************************************************)
EXTENDS Integers, Sequences, FiniteSets

CONSTANTS
    Clients,  \* what getClientIP returns
    Limit,    \* rl.rps
    Window,   \* rl.window
    Expiry,   \* the five minutes after which cleanup forgets a client
    Horizon   \* bound: the clock stops here

\* Config.Validate refuses a limit or a window below 1.
ASSUME LimiterAssumption ==
    /\ Limit \in Nat \ {0} /\ Window \in Nat \ {0}
    /\ Expiry \in Nat /\ Horizon \in Nat

VARIABLES
    now,       \* time.Now()
    known,     \* the keys of rl.clients
    requests,  \* bucket.requests, {} without a bucket
    lastSeen,  \* bucket.lastSeen
    granted,   \* history: when the granted requests of a client came
    answer     \* what the last Allow of this instant returned

vars == <<now, known, requests, lastSeen, granted, answer>>

NoAnswer == <<>>

Init ==
    /\ now = 0
    /\ known = {}
    /\ requests = [c \in Clients |-> {}]
    /\ lastSeen = [c \in Clients |-> 0]
    /\ granted = [c \in Clients |-> <<>>]
    /\ answer = NoAnswer

\* Mutant of Valid: a request is kept until it is older than the window.
ValidTooLong(c) == {i \in requests[c] : granted[c][i] >= now - Window}

\* The requests of the bucket that come after the cutoff.
Valid(c) == {i \in requests[c] : granted[c][i] > now - Window}

\* Mutant of Allow: lastSeen is only set when the bucket is created.
AllowUnseen(c) ==
    /\ known' = known \cup {c}
    /\ lastSeen' = IF c \in known THEN lastSeen ELSE [lastSeen EXCEPT ![c] = now]
    /\ \/ /\ Cardinality(Valid(c)) >= Limit
          /\ requests' = [requests EXCEPT ![c] = Valid(c)]
          /\ answer' = <<c, "denied">>
          /\ UNCHANGED granted
       \/ /\ Cardinality(Valid(c)) < Limit
          /\ requests' = [requests EXCEPT
                            ![c] = Valid(c) \cup {Len(granted[c]) + 1}]
          /\ granted' = [granted EXCEPT ![c] = Append(@, now)]
          /\ answer' = <<c, "granted">>
    /\ UNCHANGED now

\* Mutant of Allow: one request more than the limit.
AllowOneMore(c) ==
    /\ known' = known \cup {c}
    /\ lastSeen' = [lastSeen EXCEPT ![c] = now]
    /\ \/ /\ Cardinality(Valid(c)) > Limit
          /\ requests' = [requests EXCEPT ![c] = Valid(c)]
          /\ answer' = <<c, "denied">>
          /\ UNCHANGED granted
       \/ /\ Cardinality(Valid(c)) <= Limit
          /\ requests' = [requests EXCEPT
                            ![c] = Valid(c) \cup {Len(granted[c]) + 1}]
          /\ granted' = [granted EXCEPT ![c] = Append(@, now)]
          /\ answer' = <<c, "granted">>
    /\ UNCHANGED now

Allow(c) ==
    /\ known' = known \cup {c}
    /\ lastSeen' = [lastSeen EXCEPT ![c] = now]
    /\ \/ /\ Cardinality(Valid(c)) >= Limit
          /\ requests' = [requests EXCEPT ![c] = Valid(c)]
          /\ answer' = <<c, "denied">>
          /\ UNCHANGED granted
       \/ /\ Cardinality(Valid(c)) < Limit
          /\ requests' = [requests EXCEPT
                            ![c] = Valid(c) \cup {Len(granted[c]) + 1}]
          /\ granted' = [granted EXCEPT ![c] = Append(@, now)]
          /\ answer' = <<c, "granted">>
    /\ UNCHANGED now

Idle == {c \in known : lastSeen[c] < now - Expiry}

Cleanup ==
    /\ known' = known \ Idle
    /\ requests' = [c \in Clients |-> IF c \in Idle THEN {} ELSE requests[c]]
    /\ UNCHANGED <<now, lastSeen, granted, answer>>

Elapse ==
    /\ now < Horizon
    /\ now' = now + 1
    /\ answer' = NoAnswer
    /\ UNCHANGED <<known, requests, lastSeen, granted>>

Next == Elapse \/ Cleanup \/ \E c \in Clients : Allow(c)

Spec == Init /\ [][Next]_vars

-----------------------------------------------------------------------------
(* Properties *)

\* A bucket refers to grants that were made, and never grows past the limit,
\* whatever is denied or forgotten (ratelimit.go:58-74).
TypeOK ==
    /\ now \in 0..Horizon
    /\ known \subseteq Clients
    /\ requests \in [Clients -> SUBSET Nat]
    /\ lastSeen \in [Clients -> Nat]
    /\ granted \in [Clients -> Seq(Nat)]
    /\ \A c \in Clients : 
            /\ requests[c] \subseteq DOMAIN granted[c]
            /\ Cardinality(requests[c]) <= Limit

\* The grants of the last w units of time are in their client's bucket.
RememberedFor(w) ==
    \A c \in Clients : \A i \in DOMAIN granted[c] :
        granted[c][i] > now - w => i \in requests[c]

\* Of Limit + 1 successive grants the first and the last are w apart.
LimitHoldsFor(w) ==
    \A c \in Clients : \A i, j \in DOMAIN granted[c] :
        j = i + Limit => granted[c][j] - granted[c][i] >= w

\* Every grant that still counts is in its client's bucket: neither the
\* expiry of requests (ratelimit.go:59-66) nor the deletion of idle buckets
\* (ratelimit.go:83-89) forgets one.
Remembered == RememberedFor(Window)

\* No window of time, wherever it begins, holds more than Limit grants to
\* one client (README.md:12, "Per-IP sliding window rate limiter").
WindowsHoldLimit == LimitHoldsFor(Window)

\* How far back the limiter remembers for sure: with a window longer than
\* the expiry, cleanup may delete a bucket whose grants still count.
Memory == IF Window <= Expiry THEN Window ELSE Expiry + 1

\* Whatever window is configured, no stretch of time that the limiter
\* remembers holds more than Limit grants to one client: a window longer
\* than the five minutes of ratelimit.go:83 weakens the limit to those.
MemoryHoldsLimit == LimitHoldsFor(Memory)

\* Grants follow each other in time, none later than the client was seen.
Timely ==
    \A c \in Clients :
        /\ lastSeen[c] <= now
        /\ \A i \in DOMAIN granted[c] : granted[c][i] <= lastSeen[c]
        /\ \A i, j \in DOMAIN granted[c] : i <= j => granted[c][i] <= granted[c][j]

\* The inductive invariant.
SlidingInv == TypeOK /\ Timely /\ RememberedFor(Memory) /\ MemoryHoldsLimit

\* The limiter, buckets, deletions and all, decides like the abstract
\* sliding window: it grants and denies exactly the requests that does.
SW == INSTANCE SlidingWindow

IsSlidingWindow == SW!SWSpec

=============================================================================
