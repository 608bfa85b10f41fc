------------------------- MODULE RateLimiterProofs -------------------------
(***************************************************************************)
(* What the rate limiter guarantees for any clients, limit, window and     *)
(* expiry: its buckets stay within the limit, no stretch of time that it   *)
(* remembers holds more than the limit, and with a window no longer than   *)
(* the expiry it is a sliding window.                                      *)
(***************************************************************************)
EXTENDS RateLimiter, FiniteSetTheorems, TLAPS

(* Lemmas about one bucket *)

\* The history of a client is a sequence of times, numbered from 1.
LEMMA History ==
    ASSUME TypeOK, NEW c \in Clients
    PROVE  /\ granted[c] \in Seq(Nat)
           /\ Len(granted[c]) \in Nat
           /\ DOMAIN granted[c] = 1..Len(granted[c])
           /\ \A i \in DOMAIN granted[c] : granted[c][i] \in Nat
<1>1. granted[c] \in Seq(Nat)
    BY DEF TypeOK
<1> QED
    BY <1>1

\* Dropping the expired requests (ratelimit.go:59-66) leaves part of a
\* finite bucket.
LEMMA ValidIsPart ==
    ASSUME TypeOK, NEW c \in Clients
    PROVE  /\ Valid(c) \subseteq requests[c]
           /\ IsFiniteSet(Valid(c))
           /\ Cardinality(Valid(c)) \in Nat
           /\ Cardinality(Valid(c)) <= Limit
<1>1. IsFiniteSet(1..Len(granted[c]))
  <2>1. 1 \in Int /\ Len(granted[c]) \in Int
      BY History
  <2> QED
      BY <2>1, FS_Interval
<1>2. requests[c] \subseteq 1..Len(granted[c])
    BY History DEF TypeOK
<1>3. IsFiniteSet(requests[c])
    BY <1>1, <1>2, FS_Subset
<1>4. Valid(c) \in SUBSET requests[c]
    BY DEF Valid
<1>5. IsFiniteSet(Valid(c)) /\ Cardinality(Valid(c)) <= Cardinality(requests[c])
    BY <1>3, <1>4, FS_Subset
<1>6. Cardinality(Valid(c)) \in Nat /\ Cardinality(requests[c]) \in Nat
    BY <1>3, <1>5, FS_CardinalityType
<1>7. Cardinality(requests[c]) <= Limit
    BY DEF TypeOK
<1> QED
    BY <1>4, <1>5, <1>6, <1>7, LimiterAssumption

\* Adding a grant to a bucket below the limit keeps it within the limit.
LEMMA OneMoreFits ==
    ASSUME TypeOK, NEW c \in Clients, NEW i,
           Cardinality(Valid(c)) < Limit
    PROVE  Cardinality(Valid(c) \cup {i}) <= Limit
<1>1. Cardinality(Valid(c) \cup {i}) =
        IF i \in Valid(c) THEN Cardinality(Valid(c)) ELSE Cardinality(Valid(c)) + 1
    BY ValidIsPart, FS_AddElement
<1> QED
    BY <1>1, ValidIsPart, LimiterAssumption

-----------------------------------------------------------------------------
(* Type correctness *)

LEMMA TypeInit == Init => TypeOK
<1> SUFFICES ASSUME Init PROVE TypeOK
    OBVIOUS
<1>1. now \in 0..Horizon
    BY LimiterAssumption DEF Init
<1>2. \A c \in Clients : Cardinality(requests[c]) <= Limit
    BY FS_EmptySet, LimiterAssumption DEF Init
<1> QED
    BY <1>1, <1>2 DEF Init, TypeOK

LEMMA TypeStep == TypeOK /\ [Next]_vars => TypeOK'
<1> SUFFICES ASSUME TypeOK, [Next]_vars PROVE TypeOK'
    OBVIOUS
<1>1. ASSUME NEW c \in Clients, Allow(c)
      PROVE  TypeOK'
  <2>1. /\ now' = now /\ now \in Nat /\ now \in 0..Horizon
        /\ known' \subseteq Clients
        /\ lastSeen' \in [Clients -> Nat]
      BY <1>1, LimiterAssumption DEF Allow, TypeOK
  <2>2. CASE Cardinality(Valid(c)) >= Limit /\ requests' = [requests EXCEPT ![c] = Valid(c)]
             /\ UNCHANGED granted
    <3>1. \A d \in Clients : requests'[d] \subseteq DOMAIN granted[d]
        BY <2>2, ValidIsPart DEF TypeOK
    <3>2. \A d \in Clients : Cardinality(requests'[d]) <= Limit
        BY <2>2, ValidIsPart DEF TypeOK
    <3>3. requests' \in [Clients -> SUBSET Nat]
        BY <2>2, ValidIsPart DEF TypeOK
    <3> QED
        BY <2>1, <2>2, <3>1, <3>2, <3>3 DEF TypeOK
  <2>3. CASE /\ Cardinality(Valid(c)) < Limit
             /\ requests' = [requests EXCEPT ![c] = Valid(c) \cup {Len(granted[c]) + 1}]
             /\ granted' = [granted EXCEPT ![c] = Append(@, now)]
    <3>1. granted' \in [Clients -> Seq(Nat)]
        BY <2>1, <2>3, History DEF TypeOK
    <3>2. /\ granted'[c] = Append(granted[c], now)
          /\ \A d \in Clients \ {c} : granted'[d] = granted[d]
        BY <2>3 DEF TypeOK
    <3>3. DOMAIN granted'[c] = 1..(Len(granted[c]) + 1)
        BY <3>2, <2>1, History
    <3>4. /\ requests'[c] = Valid(c) \cup {Len(granted[c]) + 1}
          /\ \A d \in Clients \ {c} : requests'[d] = requests[d]
        BY <2>3 DEF TypeOK
    <3>5. Valid(c) \subseteq 1..Len(granted[c])
        BY ValidIsPart, History DEF TypeOK
    <3>6. \A d \in Clients : requests'[d] \subseteq DOMAIN granted'[d]
      <4>1. requests'[c] \subseteq DOMAIN granted'[c]
          BY <3>3, <3>4, <3>5, History
      <4> QED
          BY <4>1, <3>2, <3>4 DEF TypeOK
    <3>7. \A d \in Clients : Cardinality(requests'[d]) <= Limit
      <4>1. Cardinality(requests'[c]) <= Limit
          BY <2>3, <3>4, OneMoreFits
      <4> QED
          BY <4>1, <3>4 DEF TypeOK
    <3>8. requests' \in [Clients -> SUBSET Nat]
      <4>1. Valid(c) \cup {Len(granted[c]) + 1} \in SUBSET Nat
          BY <3>5, History
      <4> QED
          BY <4>1, <2>3 DEF TypeOK
    <3> QED
        BY <2>1, <3>1, <3>6, <3>7, <3>8 DEF TypeOK
  <2> QED
      BY <1>1, <2>2, <2>3 DEF Allow
<1>2. ASSUME Cleanup PROVE TypeOK'
  <2>1. \A c \in Clients : requests'[c] = {} \/ requests'[c] = requests[c]
      BY <1>2 DEF Cleanup
  <2>2. Cardinality({}) <= Limit
      BY FS_EmptySet, LimiterAssumption
  <2>3. \A c \in Clients : Cardinality(requests'[c]) <= Limit
    <3>1. SUFFICES ASSUME NEW c \in Clients
                   PROVE  Cardinality(requests'[c]) <= Limit
        OBVIOUS
    <3>2. CASE requests'[c] = {}
        BY <2>2, <3>2
    <3>3. CASE requests'[c] = requests[c]
        BY <3>3 DEF TypeOK
    <3> QED
        BY <2>1, <3>2, <3>3
  <2> QED
      BY <1>2, <2>1, <2>3 DEF Cleanup, TypeOK
<1>3. ASSUME Elapse PROVE TypeOK'
    BY <1>3, LimiterAssumption DEF Elapse, TypeOK
<1>4. CASE UNCHANGED vars
    BY <1>4 DEF vars, TypeOK
<1> QED
    BY <1>1, <1>2, <1>3, <1>4 DEF Next

\* Whatever Allow drops and cleanup deletes, a bucket only refers to grants
\* that were made and never holds more than the limit
\* (ratelimit.go:58-74).  No relation of window and expiry is needed.
THEOREM BucketsAreBounded == Spec => []TypeOK
<1> QED
    BY TypeInit, TypeStep, PTL DEF Spec

-----------------------------------------------------------------------------
(* What is remembered *)

\* The limiter remembers no more than its window, and all of it when the
\* expiry is as long.
LEMMA MemoryIsPart ==
    /\ Memory \in Nat /\ Memory <= Window /\ Memory <= Expiry + 1
    /\ Window <= Expiry => Memory = Window
BY LimiterAssumption DEF Memory

\* The bucket after dropping expired requests still holds every grant that
\* is remembered.
LEMMA RecentIsValid ==
    ASSUME TypeOK, RememberedFor(Memory), NEW c \in Clients,
           NEW i \in DOMAIN granted[c], granted[c][i] > now - Memory
    PROVE  i \in Valid(c)
<1>1. i \in requests[c]
    BY DEF RememberedFor
<1>2. granted[c][i] \in Nat /\ now \in Nat /\ Window \in Nat
    BY History, LimiterAssumption DEF TypeOK
<1>3. granted[c][i] > now - Window
    BY <1>2, MemoryIsPart
<1> QED
    BY <1>1, <1>3 DEF Valid

\* A request that finds fewer than Limit grants in its bucket comes at least
\* a Memory after the grant that is Limit places before it.
LEMMA GrantIsSpaced ==
    ASSUME TypeOK, Timely, RememberedFor(Memory),
           NEW c \in Clients, Cardinality(Valid(c)) < Limit,
           NEW i \in DOMAIN granted[c], Len(granted[c]) + 1 = i + Limit
    PROVE  now - granted[c][i] >= Memory
<1>1. /\ i \in Nat /\ Limit \in Nat \ {0} /\ Memory \in Nat /\ now \in Nat
      /\ Len(granted[c]) \in Nat /\ granted[c][i] \in Nat
    BY History, LimiterAssumption, MemoryIsPart DEF TypeOK
<1>2. SUFFICES ASSUME granted[c][i] > now - Memory PROVE FALSE
    BY <1>1
<1>3. i..Len(granted[c]) \subseteq Valid(c)
  <2>1. SUFFICES ASSUME NEW j \in i..Len(granted[c]) PROVE j \in Valid(c)
      OBVIOUS
  <2>2. j \in DOMAIN granted[c] /\ i <= j
      BY <1>1, History
  <2>3. granted[c][i] <= granted[c][j]
      BY <2>2 DEF Timely
  <2>4. granted[c][j] \in Nat
      BY <2>2, History
  <2>5. granted[c][j] > now - Memory
      BY <1>1, <1>2, <2>3, <2>4
  <2> QED
      BY <2>2, <2>5, RecentIsValid
<1>4. Cardinality(i..Len(granted[c])) = Limit
  <2>1. i \in Int /\ Len(granted[c]) \in Int
      BY <1>1
  <2>2. Cardinality(i..Len(granted[c])) =
          IF i > Len(granted[c]) THEN 0 ELSE Len(granted[c]) - i + 1
      BY <2>1, FS_Interval
  <2> QED
      BY <2>2, <1>1
<1>5. Cardinality(i..Len(granted[c])) <= Cardinality(Valid(c))
    BY <1>3, ValidIsPart, FS_Subset
<1> QED
    BY <1>1, <1>4, <1>5, ValidIsPart

LEMMA SlidingInit == Init => SlidingInv
<1> SUFFICES ASSUME Init PROVE SlidingInv
    OBVIOUS
<1>1. TypeOK
    BY TypeInit
<1>2. Timely /\ RememberedFor(Memory) /\ MemoryHoldsLimit
    BY DEF Init, Timely, RememberedFor, MemoryHoldsLimit, LimitHoldsFor
<1> QED
    BY <1>1, <1>2 DEF SlidingInv

\* A denied request changes the bucket only, by what no longer counts.
LEMMA DenyKeeps ==
    ASSUME SlidingInv, NEW c \in Clients,
           UNCHANGED <<now, granted>>,
           lastSeen' = [lastSeen EXCEPT ![c] = now],
           requests' = [requests EXCEPT ![c] = Valid(c)]
    PROVE  Timely' /\ RememberedFor(Memory)' /\ MemoryHoldsLimit'
<1>1. Timely'
  <2>1. \A d \in Clients : lastSeen'[d] = now \/ lastSeen'[d] = lastSeen[d]
      BY DEF SlidingInv, TypeOK
  <2>2. \A d \in Clients : \A i \in DOMAIN granted[d] : granted[d][i] \in Nat
      BY History DEF SlidingInv
  <2> QED
      BY <2>1, <2>2 DEF SlidingInv, TypeOK, Timely
<1>2. RememberedFor(Memory)'
  <2>1. SUFFICES ASSUME NEW d \in Clients, NEW i \in DOMAIN granted[d],
                        granted[d][i] > now - Memory
                 PROVE  i \in requests'[d]
      BY DEF RememberedFor
  <2>2. i \in requests[d] /\ i \in Valid(d)
      BY <2>1, RecentIsValid DEF SlidingInv, RememberedFor
  <2> QED
      BY <2>2 DEF SlidingInv, TypeOK
<1>3. MemoryHoldsLimit'
    BY DEF SlidingInv, MemoryHoldsLimit, LimitHoldsFor
<1> QED
    BY <1>1, <1>2, <1>3

\* A granted request is the latest of its client, is put in the bucket, and
\* is a Memory away from the grant Limit places before it.
LEMMA GrantKeeps ==
    ASSUME SlidingInv, NEW c \in Clients,
           now' = now, Cardinality(Valid(c)) < Limit,
           lastSeen' = [lastSeen EXCEPT ![c] = now],
           requests' = [requests EXCEPT ![c] = Valid(c) \cup {Len(granted[c]) + 1}],
           granted' = [granted EXCEPT ![c] = Append(@, now)]
    PROVE  Timely' /\ RememberedFor(Memory)' /\ MemoryHoldsLimit'
<1>1. /\ TypeOK /\ Timely /\ RememberedFor(Memory) /\ MemoryHoldsLimit
      /\ now \in Nat /\ Len(granted[c]) \in Nat /\ Limit \in Nat \ {0}
      /\ Memory \in Nat
    BY History, LimiterAssumption, MemoryIsPart DEF SlidingInv, TypeOK
<1> DEFINE new == Len(granted[c]) + 1
<1>2. /\ granted'[c] = Append(granted[c], now)
      /\ requests'[c] = Valid(c) \cup {new}
      /\ lastSeen'[c] = now
    BY <1>1 DEF TypeOK
<1>3. \A d \in Clients \ {c} : /\ granted'[d] = granted[d]
                               /\ requests'[d] = requests[d]
                               /\ lastSeen'[d] = lastSeen[d]
    BY <1>1 DEF TypeOK
<1>4. /\ DOMAIN granted'[c] = DOMAIN granted[c] \cup {new}
      /\ granted'[c][new] = now
      /\ \A i \in DOMAIN granted[c] : granted'[c][i] = granted[c][i] /\ i \in Nat /\ i < new
  <2>1. /\ DOMAIN granted'[c] = 1..(Len(granted[c]) + 1)
        /\ \A i \in 1..Len(granted[c]) : granted'[c][i] = granted[c][i]
        /\ granted'[c][Len(granted[c]) + 1] = now
      BY <1>1, <1>2, History
  <2> QED
      BY <2>1, <1>1, History
<1>5. \A i \in DOMAIN granted[c] : granted[c][i] \in Nat /\ granted[c][i] <= now
  <2>1. lastSeen[c] \in Nat /\ lastSeen[c] <= now
      BY <1>1 DEF TypeOK, Timely
  <2>2. \A i \in DOMAIN granted[c] : granted[c][i] <= lastSeen[c]
      BY <1>1 DEF Timely
  <2>3. \A i \in DOMAIN granted[c] : granted[c][i] \in Nat
      BY <1>1, History
  <2> QED
      BY <1>1, <2>1, <2>2, <2>3
<1>6. Timely'
  <2>1. SUFFICES ASSUME NEW d \in Clients
                 PROVE  /\ lastSeen'[d] <= now
                        /\ \A i \in DOMAIN granted'[d] : granted'[d][i] <= lastSeen'[d]
                        /\ \A i, j \in DOMAIN granted'[d] :
                              i <= j => granted'[d][i] <= granted'[d][j]
      BY DEF Timely
  <2>2. CASE d = c
    <3>1. \A i \in DOMAIN granted'[c] : granted'[c][i] <= now
        BY <1>1, <1>4, <1>5
    <3>2. ASSUME NEW i \in DOMAIN granted'[c], NEW j \in DOMAIN granted'[c], i <= j
          PROVE  granted'[c][i] <= granted'[c][j]
      <4>1. CASE j = new
          BY <3>1, <4>1, <1>4
      <4>2. CASE j # new
        <5>1. i \in DOMAIN granted[c] /\ j \in DOMAIN granted[c]
            BY <3>2, <4>2, <1>1, <1>4
        <5> QED
            BY <5>1, <3>2, <1>1, <1>4 DEF Timely
      <4> QED
          BY <4>1, <4>2
    <3> QED
        BY <2>2, <3>1, <3>2, <1>1, <1>2
  <2>3. CASE d # c
      BY <2>3, <1>1, <1>3 DEF Timely
  <2> QED
      BY <2>2, <2>3
<1>7. RememberedFor(Memory)'
  <2>1. SUFFICES ASSUME NEW d \in Clients, NEW i \in DOMAIN granted'[d],
                        granted'[d][i] > now - Memory
                 PROVE  i \in requests'[d]
      BY DEF RememberedFor
  <2>2. CASE d = c
    <3>1. CASE i = new
        BY <2>2, <3>1, <1>2
    <3>2. CASE i # new
      <4>1. i \in DOMAIN granted[c] /\ granted[c][i] > now - Memory
          BY <2>1, <2>2, <3>2, <1>4
      <4>2. i \in Valid(c)
          BY <4>1, <1>1, RecentIsValid
      <4> QED
          BY <4>2, <2>2, <1>2
    <3> QED
        BY <3>1, <3>2
  <2>3. CASE d # c
      BY <2>1, <2>3, <1>1, <1>3 DEF RememberedFor
  <2> QED
      BY <2>2, <2>3
<1>8. MemoryHoldsLimit'
  <2>1. SUFFICES ASSUME NEW d \in Clients,
                        NEW i \in DOMAIN granted'[d], NEW j \in DOMAIN granted'[d],
                        j = i + Limit
                 PROVE  granted'[d][j] - granted'[d][i] >= Memory
      BY DEF MemoryHoldsLimit, LimitHoldsFor
  <2>2. CASE d = c
    <3>1. i \in DOMAIN granted[c]
        BY <2>1, <2>2, <1>1, <1>4
    <3>2. CASE j = new
      <4>1. now - granted[c][i] >= Memory
          BY <3>1, <3>2, <2>1, <1>1, GrantIsSpaced
      <4> QED
          BY <4>1, <3>1, <3>2, <2>2, <1>4
    <3>3. CASE j # new
      <4>1. j \in DOMAIN granted[c]
          BY <3>3, <2>2, <1>4
      <4> QED
          BY <4>1, <3>1, <2>1, <2>2, <1>1, <1>4 DEF MemoryHoldsLimit, LimitHoldsFor
    <3> QED
        BY <3>2, <3>3
  <2>3. CASE d # c
      BY <2>1, <2>3, <1>1, <1>3 DEF MemoryHoldsLimit, LimitHoldsFor
  <2> QED
      BY <2>2, <2>3
<1> QED
    BY <1>6, <1>7, <1>8

\* cleanup only deletes buckets none of whose grants is remembered: the
\* client was last seen before the expiry, and so were its grants.
LEMMA CleanupKeeps ==
    ASSUME SlidingInv, Cleanup
    PROVE  Timely' /\ RememberedFor(Memory)' /\ MemoryHoldsLimit'
<1>1. Timely' /\ MemoryHoldsLimit'
    BY DEF SlidingInv, Cleanup, Timely, MemoryHoldsLimit, LimitHoldsFor
<1>2. RememberedFor(Memory)'
  <2>1. SUFFICES ASSUME NEW c \in Clients, NEW i \in DOMAIN granted[c],
                        granted[c][i] > now - Memory
                 PROVE  i \in requests'[c]
      BY DEF Cleanup, RememberedFor
  <2>2. granted[c][i] <= lastSeen[c]
      BY DEF SlidingInv, Timely
  <2>3. granted[c][i] \in Nat /\ lastSeen[c] \in Nat /\ now \in Nat
      BY History DEF SlidingInv, TypeOK
  <2>4. ~(lastSeen[c] < now - Expiry)
      BY <2>1, <2>2, <2>3, MemoryIsPart, LimiterAssumption
  <2>5. c \notin Idle
      BY <2>4 DEF Idle
  <2>6. requests'[c] = requests[c]
      BY <2>5 DEF Cleanup
  <2> QED
      BY <2>1, <2>6 DEF SlidingInv, RememberedFor
<1> QED
    BY <1>1, <1>2

LEMMA SlidingStep == SlidingInv /\ [Next]_vars => SlidingInv'
<1> SUFFICES ASSUME SlidingInv, [Next]_vars PROVE SlidingInv'
    OBVIOUS
<1>1. TypeOK'
    BY TypeStep DEF SlidingInv
<1>2. Timely' /\ RememberedFor(Memory)' /\ MemoryHoldsLimit'
  <2>1. ASSUME NEW c \in Clients, Allow(c)
        PROVE  Timely' /\ RememberedFor(Memory)' /\ MemoryHoldsLimit'
      BY <2>1, DenyKeeps, GrantKeeps DEF Allow
  <2>2. ASSUME Cleanup
        PROVE  Timely' /\ RememberedFor(Memory)' /\ MemoryHoldsLimit'
      BY <2>2, CleanupKeeps
  <2>3. ASSUME Elapse
        PROVE  Timely' /\ RememberedFor(Memory)' /\ MemoryHoldsLimit'
    <3>1. now \in Nat /\ Memory \in Nat
        BY MemoryIsPart DEF SlidingInv, TypeOK
    <3>2. \A c \in Clients : lastSeen[c] \in Nat
        BY DEF SlidingInv, TypeOK
    <3>3. \A c \in Clients : \A i \in DOMAIN granted[c] : granted[c][i] \in Nat
        BY History DEF SlidingInv
    <3> QED
        BY <2>3, <3>1, <3>2, <3>3
        DEF Elapse, SlidingInv, Timely, RememberedFor, MemoryHoldsLimit,
            LimitHoldsFor
  <2>4. CASE UNCHANGED vars
      BY <2>4 DEF vars, SlidingInv, Timely, RememberedFor, MemoryHoldsLimit,
                  LimitHoldsFor
  <2> QED
      BY <2>1, <2>2, <2>3, <2>4 DEF Next
<1> QED
    BY <1>1, <1>2 DEF SlidingInv

\* SlidingInv is inductive, whatever the window and the expiry.
LEMMA SlidingInvariant == Spec => []SlidingInv
BY SlidingInit, SlidingStep, PTL DEF Spec

\* Every grant of the window, or of the last five minutes when the window is
\* longer, is in its bucket: cleanup (ratelimit.go:78-92) forgets no other.
THEOREM MemoryLasts == Spec => []RememberedFor(Memory)
<1>1. SlidingInv => RememberedFor(Memory)
    BY DEF SlidingInv
<1> QED
    BY <1>1, SlidingInvariant, PTL

\* Whatever window is configured, no stretch of time that is remembered
\* holds more than Limit grants to a client (ratelimit.go:40-92).
THEOREM LimitHoldsInMemory == Spec => []MemoryHoldsLimit
<1>1. SlidingInv => MemoryHoldsLimit
    BY DEF SlidingInv
<1> QED
    BY <1>1, SlidingInvariant, PTL

\* With a window no longer than the expiry, every grant that still counts
\* is in its bucket: cleanup (ratelimit.go:78-92) forgets nothing.
THEOREM NothingForgotten == Window <= Expiry => (Spec => []Remembered)
<1> SUFFICES ASSUME Window <= Expiry PROVE Spec => []Remembered
    OBVIOUS
<1>1. SlidingInv => Remembered
    BY MemoryIsPart DEF SlidingInv, Remembered, RememberedFor
<1> QED
    BY <1>1, SlidingInvariant, PTL

\* With a window no longer than the expiry, no window of time wherever it
\* begins holds more than Limit grants to a client (ratelimit.go:40-76).
THEOREM LimitHolds == Window <= Expiry => (Spec => []WindowsHoldLimit)
<1> SUFFICES ASSUME Window <= Expiry PROVE Spec => []WindowsHoldLimit
    OBVIOUS
<1>1. SlidingInv => WindowsHoldLimit
    BY MemoryIsPart DEF SlidingInv, WindowsHoldLimit, MemoryHoldsLimit, LimitHoldsFor
<1> QED
    BY <1>1, SlidingInvariant, PTL

-----------------------------------------------------------------------------
(* Refinement *)

\* A bucket decides like the history: the abstract limiter counts the same
\* grants.
LEMMA SameCount ==
    ASSUME Window <= Expiry, SlidingInv, NEW c \in Clients
    PROVE  SW!Cardinality(SW!Recent(c)) = Cardinality(Valid(c))
<1>1. SW!Recent(c) = Valid(c)
  <2>1. \A i \in DOMAIN granted[c] :
            granted[c][i] > now - Window => i \in requests[c]
      BY MemoryIsPart DEF SlidingInv, RememberedFor
  <2> QED
      BY <2>1 DEF SlidingInv, TypeOK, Valid, SW!Recent
<1>2. SW!Cardinality(Valid(c)) = Cardinality(Valid(c))
    BY Zenon DEF SW!Cardinality, Cardinality
<1> QED
    BY <1>1, <1>2

LEMMA RefinedInit == Init => SW!SWInit
BY DEF Init, SW!SWInit, NoAnswer, SW!NoAnswer

LEMMA RefinedStep ==
    Window <= Expiry =>
        (SlidingInv /\ [Next]_vars => [SW!SWNext]_<<now, granted, answer>>)
<1> SUFFICES ASSUME Window <= Expiry, SlidingInv, [Next]_vars
             PROVE  SW!SWNext \/ UNCHANGED <<now, granted, answer>>
    OBVIOUS
<1>1. ASSUME NEW c \in Clients, Allow(c) PROVE SW!SWNext
  <2>1. SW!Grant(c) \/ SW!Deny(c)
    <3>1. CASE /\ Cardinality(Valid(c)) >= Limit /\ UNCHANGED <<now, granted>>
               /\ answer' = <<c, "denied">>
        BY <3>1, SameCount DEF SW!Deny
    <3>2. CASE /\ Cardinality(Valid(c)) < Limit /\ UNCHANGED now
               /\ granted' = [granted EXCEPT ![c] = Append(@, now)]
               /\ answer' = <<c, "granted">>
        BY <3>2, SameCount DEF SW!Grant
    <3> QED
        BY <1>1, <3>1, <3>2 DEF Allow
  <2> QED
      BY <2>1 DEF SW!SWNext
<1>2. ASSUME Elapse PROVE SW!SWNext
    BY <1>2 DEF Elapse, SW!SWNext, SW!Elapse, NoAnswer, SW!NoAnswer
<1>3. ASSUME Cleanup PROVE UNCHANGED <<now, granted, answer>>
    BY <1>3 DEF Cleanup
<1>4. CASE UNCHANGED vars
    BY <1>4 DEF vars
<1> QED
    BY <1>1, <1>2, <1>3, <1>4 DEF Next

\* With a window no longer than the expiry, the limiter with its buckets,
\* its trimming and its deletions grants and denies exactly what the
\* abstract sliding window does.
THEOREM SlidesLikeTheWindow == Window <= Expiry => (Spec => IsSlidingWindow)
<1> SUFFICES ASSUME Window <= Expiry PROVE Spec => SW!SWSpec
    BY DEF IsSlidingWindow
<1>1. SlidingInv /\ [Next]_vars => [SW!SWNext]_<<now, granted, answer>>
    BY RefinedStep
<1> QED
    BY <1>1, SlidingInvariant, RefinedInit, PTL DEF Spec, SW!SWSpec

=============================================================================
