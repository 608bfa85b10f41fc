--------------------------- MODULE DNSCacheProofs ---------------------------
(***************************************************************************)
(* What the DNS cache guarantees for any hosts, callers and TTL: no answer *)
(* is used past the TTL, and one that nobody else resolved as well lasts   *)
(* for all of it.  Both rest on the deletion that each entry has coming.   *)
(***************************************************************************)
EXTENDS DNSCache, TLAPS

USE DNSAssumption

LEMMA TypeInit == Init => TypeOK
BY DEF Init, TypeOK

LEMMA OlderIsAnEntry ==
    ASSUME NEW e \in Entries \cup {Absent}
    PROVE  Older(e) \in Entries \cup {Absent}
BY DEF Older, Entries, Absent

LEMMA TypeStep == TypeOK /\ [Next]_vars => TypeOK'
<1> SUFFICES ASSUME TypeOK, [Next]_vars PROVE TypeOK'
    OBVIOUS
<1> USE DEF TypeOK, Goto
<1>1. CASE UNCHANGED vars
    BY <1>1 DEF vars
<1>2. ASSUME NEW c \in Callers, NEW h \in Hosts, Hit(c, h) PROVE TypeOK'
  <2>1. cache[h].size \in 0..MaxAddresses
      BY DEF Entries, Absent
  <2> QED
      BY <2>1, <1>2 DEF Hit
<1>3. ASSUME NEW c \in Callers, NEW h \in Hosts, Miss(c, h) PROVE TypeOK'
    BY <1>3 DEF Miss
<1>4. ASSUME NEW c \in Callers, Resolve(c) PROVE TypeOK'
    BY <1>4 DEF Resolve
<1>5. ASSUME NEW c \in Callers, Unresolved(c) PROVE TypeOK'
    BY <1>5 DEF Unresolved
<1>6. ASSUME NEW c \in Callers, Store(c) PROVE TypeOK'
  <2>1. [size |-> ips[c], age |-> 0] \in Entries
      BY <1>6 DEF Store, Entries
  <2> QED
      BY <2>1, <1>6 DEF Store
<1>7. ASSUME NEW c \in Callers, Spawn(c) PROVE TypeOK'
    BY <1>7 DEF Spawn
<1>8. ASSUME NEW c \in Callers, Connect(c) \/ Refused(c) \/ GiveUp(c)
      PROVE  TypeOK'
  <2>1. CASE Connect(c)
      BY <2>1 DEF Connect
  <2>2. CASE Refused(c)
      BY <2>2 DEF Refused
  <2>3. CASE GiveUp(c)
      BY <2>3 DEF GiveUp
  <2> QED
      BY <1>8, <2>1, <2>2, <2>3
<1>9. ASSUME NEW h \in Hosts, Expire(h) PROVE TypeOK'
    BY <1>9 DEF Expire
<1>10. CASE Tick
  <2>1. cache' \in [Hosts -> Entries \cup {Absent}]
      BY <1>10, OlderIsAnEntry DEF Tick
  <2>2. \A h \in Hosts : \A k \in 0..TTL :
            (IF k = TTL THEN 0 ELSE sleeping[h][k + 1]) \in Nat
      OBVIOUS
  <2>3. sleeping' \in [Hosts -> [0..TTL -> Nat]]
      BY <1>10, <2>2 DEF Tick
  <2> QED
      BY <1>10, <2>1, <2>3 DEF Tick
<1> QED
    BY <1>1, <1>2, <1>3, <1>4, <1>5, <1>6, <1>7, <1>8, <1>9, <1>10
    DEF Next, Call, Proceed

\* Time brings an entry and its deletion closer together by the same step.
LEMMA TickStep == CacheInv /\ Tick => DeletionIsDue'
<1> SUFFICES ASSUME CacheInv, Tick, NEW h \in Hosts, cache'[h] # Absent
             PROVE  cache'[h].age <= TTL /\ sleeping'[h][TTL - cache'[h].age] > 0
    BY DEF DeletionIsDue
<1>1. cache'[h] = Older(cache[h]) /\ cache[h] # Absent
    BY DEF Tick, CacheInv, TypeOK, Older
<1>2. /\ cache[h] \in Entries
      /\ cache[h].age \in 0..TTL /\ sleeping[h][TTL - cache[h].age] > 0
      /\ sleeping[h][0] = 0
    BY <1>1 DEF CacheInv, TypeOK, DeletionIsDue, Tick, Prompt, Entries
<1>3. cache[h].age < TTL
    BY <1>2
<1>4. cache'[h].age = cache[h].age + 1
    BY <1>1, <1>2, <1>3 DEF Older, Entries
<1> DEFINE k == TTL - (cache[h].age + 1)
<1>5. k \in 0..TTL /\ k # TTL /\ k + 1 = TTL - cache[h].age
    BY <1>2, <1>3
<1>6. sleeping'[h][k] = sleeping[h][k + 1]
    BY <1>5 DEF Tick
<1> QED
    BY <1>2, <1>3, <1>4, <1>5, <1>6

LEMMA CacheStep == CacheInv /\ [Next]_vars => CacheInv'
<1> SUFFICES ASSUME CacheInv, [Next]_vars PROVE DeletionIsDue'
    BY TypeStep DEF CacheInv
<1> USE DEF CacheInv, TypeOK, Goto
<1>1. CASE UNCHANGED vars
    BY <1>1 DEF vars, DeletionIsDue
<1>2. ASSUME NEW c \in Callers, pc[c] # "spawn", pc'[c] # "spawn",
             UNCHANGED <<cache, sleeping>>,
             \A d \in Callers \ {c} : pc'[d] = pc[d] /\ host'[d] = host[d]
      PROVE  DeletionIsDue'
    BY <1>2 DEF DeletionIsDue
<1>3. ASSUME NEW c \in Callers, NEW h \in Hosts, Hit(c, h) \/ Miss(c, h)
      PROVE  DeletionIsDue'
    BY <1>3, <1>2 DEF Hit, Miss
<1>4. ASSUME NEW c \in Callers,
             Resolve(c) \/ Unresolved(c) \/ Connect(c) \/ Refused(c) \/ GiveUp(c)
      PROVE  DeletionIsDue'
    BY <1>4, <1>2 DEF Resolve, Unresolved, Connect, Refused, GiveUp
<1>5. ASSUME NEW c \in Callers, Store(c) PROVE DeletionIsDue'
  <2>1. /\ pc' = [pc EXCEPT ![c] = "spawn"] /\ pc[c] = "store"
        /\ cache' = [cache EXCEPT ![host[c]] = [size |-> ips[c], age |-> 0]]
        /\ sleeping' = sleeping /\ host' = host
      BY <1>5 DEF Store
  <2> SUFFICES ASSUME NEW h \in Hosts, cache'[h] # Absent
               PROVE  \/ \E d \in Callers : /\ pc'[d] = "spawn" /\ host'[d] = h
                                            /\ cache'[h].age = 0
                      \/ /\ cache'[h].age <= TTL
                         /\ sleeping'[h][TTL - cache'[h].age] > 0
      BY DEF DeletionIsDue
  <2>2. CASE h = host[c]
    <3>1. pc'[c] = "spawn" /\ host'[c] = h /\ cache'[h].age = 0
        BY <2>1, <2>2
    <3> QED
        BY <3>1
  <2>3. CASE h # host[c]
    <3>1. cache'[h] = cache[h]
        BY <2>1, <2>3
    <3> QED
        BY <2>1, <3>1 DEF DeletionIsDue
  <2> QED
      BY <2>2, <2>3
<1>6. ASSUME NEW c \in Callers, Spawn(c) PROVE DeletionIsDue'
  <2>1. /\ pc' = [pc EXCEPT ![c] = "dial"] /\ pc[c] = "spawn"
        /\ sleeping' = [sleeping EXCEPT ![host[c]][TTL] = @ + 1]
        /\ cache' = cache /\ host' = host
      BY <1>6 DEF Spawn
  <2>3. sleeping'[host[c]][TTL] > 0
      BY <2>1
  <2> SUFFICES ASSUME NEW h \in Hosts, cache[h] # Absent
               PROVE  \/ \E d \in Callers : /\ pc'[d] = "spawn" /\ host[d] = h
                                            /\ cache[h].age = 0
                      \/ /\ cache[h].age <= TTL
                         /\ sleeping'[h][TTL - cache[h].age] > 0
      BY <2>1 DEF DeletionIsDue
  <2>4. CASE host[c] = h /\ cache[h].age = 0
      BY <2>3, <2>4
  <2>5. ASSUME NEW d \in Callers, d # c, pc[d] = "spawn", host[d] = h,
               cache[h].age = 0
        PROVE  pc'[d] = "spawn"
      BY <2>1, <2>5
  <2>6. CASE cache[h].age <= TTL /\ sleeping[h][TTL - cache[h].age] > 0
    <3>1. PICK k \in 0..TTL : k = TTL - cache[h].age
        BY <2>6 DEF Entries, Absent
    <3>2. sleeping'[h][k] > 0
        BY <2>1, <2>6, <3>1
    <3> QED
        BY <2>6, <3>1, <3>2
  <2> QED
      BY <2>4, <2>5, <2>6 DEF DeletionIsDue
<1>7. ASSUME NEW g \in Hosts, Expire(g) PROVE DeletionIsDue'
  <2>1. \A h \in Hosts : cache'[h] # Absent =>
            h # g /\ cache'[h] = cache[h] /\ sleeping'[h] = sleeping[h]
      BY <1>7 DEF Expire
  <2>2. pc' = pc /\ host' = host
      BY <1>7 DEF Expire
  <2> QED
      BY <2>1, <2>2 DEF DeletionIsDue
<1>8. CASE Tick
    BY <1>8, TickStep
<1> QED
    BY <1>1, <1>3, <1>4, <1>5, <1>6, <1>7, <1>8 DEF Next, Call, Proceed

\* For any hosts, callers and TTL an entry has its deletion coming
\* (dns_cache.go:42-52).
THEOREM DeletionsAreDue == Spec => []CacheInv
<1>1. Init => CacheInv
    BY TypeInit DEF Init, CacheInv, DeletionIsDue
<1> QED
    BY <1>1, CacheStep, PTL DEF Spec

\* Nobody stores an empty answer or tries an address that is not there.
THEOREM TypeCorrect == Spec => []TypeOK
BY DeletionsAreDue, PTL DEF CacheInv

\* For any interleaving of lookups and deletions, no answer is used past the
\* TTL (dns_cache.go:38-52).
THEOREM NoStaleAnswer == Spec => []AnswersAreFresh
<1>1. ASSUME CacheInv, NEW h \in Hosts PROVE cache[h].age <= TTL
  <2>1. CASE cache[h] = Absent
      BY <2>1 DEF Absent
  <2>2. CASE cache[h] # Absent
      BY <1>1, <2>2 DEF CacheInv, DeletionIsDue
  <2> QED
      BY <2>1, <2>2
<1>2. CacheInv => AnswersAreFresh
    BY <1>1 DEF AnswersAreFresh
<1> QED
    BY <1>2, DeletionsAreDue, PTL

LEMMA LoneStep ==
    CacheInv /\ [Next]_vars =>
        [\A h \in Hosts :
            cache[h] # Absent /\ cache'[h] = Absent /\ Alone(h) =>
                cache[h].age = TTL]_vars
<1> SUFFICES ASSUME CacheInv, Next, NEW h \in Hosts,
                    cache[h] # Absent, cache'[h] = Absent, Alone(h)
             PROVE  cache[h].age = TTL
    OBVIOUS
<1> USE DEF CacheInv, TypeOK
<1>1. Expire(h)
  <2>1. ASSUME NEW c \in Callers, NEW g \in Hosts, Hit(c, g) \/ Miss(c, g)
        PROVE  FALSE
      BY <2>1 DEF Hit, Miss
  <2>2. ASSUME NEW c \in Callers,
               Resolve(c) \/ Unresolved(c) \/ Connect(c) \/ Refused(c)
               \/ GiveUp(c) \/ Spawn(c)
        PROVE  FALSE
      BY <2>2 DEF Resolve, Unresolved, Connect, Refused, GiveUp, Spawn
  <2>3. ASSUME NEW c \in Callers, Store(c) PROVE FALSE
      BY <2>3 DEF Store, Absent
  <2>4. CASE Tick
      BY <2>4 DEF Tick, Older, Entries, Absent
  <2>5. ASSUME NEW g \in Hosts, g # h, Expire(g) PROVE FALSE
      BY <2>5 DEF Expire
  <2> QED
      BY <2>1, <2>2, <2>3, <2>4, <2>5 DEF Next, Call, Proceed
<1>2. sleeping[h][0] > 0
    BY <1>1 DEF Expire
<1>3. cache[h].age \in 0..TTL /\ sleeping[h][TTL - cache[h].age] > 0
    BY DEF DeletionIsDue, Alone, Entries
<1>4. PICK k \in 0..TTL : \A j \in 0..TTL \ {k} : sleeping[h][j] = 0
    BY DEF Alone
<1>5. k = 0 /\ TTL - cache[h].age = k
    BY <1>2, <1>3, <1>4
<1> QED
    BY <1>3, <1>5

\* For any hosts, callers and TTL: an entry that goes early was missed by
\* several callers together (dns_cache.go:47-52).
THEOREM EarlyDeletionNeedsARace == Spec => LoneEntryLastsTheTTL
BY DeletionsAreDue, LoneStep, PTL DEF Spec, LoneEntryLastsTheTTL

\* Nothing puts a deletion off: whatever is looked up and stored meanwhile,
\* one that is due in k ticks is due in k - 1 after the next tick, and time
\* does not pass over one that is due (dns_cache.go:49-52).
DeletionsApproach ==
    [][\A h \in Hosts : \A k \in 0..TTL :
          sleeping[h][k] > 0 =>
              \/ k = 0 /\ cache'[h] = Absent
              \/ ~Tick /\ sleeping'[h][k] > 0
              \/ Tick /\ k > 0 /\ sleeping'[h][k - 1] > 0]_vars

\* For any hosts, callers and TTL: a deletion that is due comes nearer with
\* every tick, and nothing but its coming takes it away
\* (dns_cache.go:49-52).
THEOREM NothingPutsOffADeletion == Spec => DeletionsApproach
<1> DEFINE Approaches ==
      \A h \in Hosts : \A k \in 0..TTL :
          sleeping[h][k] > 0 =>
              \/ k = 0 /\ cache'[h] = Absent
              \/ ~Tick /\ sleeping'[h][k] > 0
              \/ Tick /\ k > 0 /\ sleeping'[h][k - 1] > 0
<1>1. ASSUME CacheInv, Next PROVE Approaches
  <2> SUFFICES ASSUME NEW h \in Hosts, NEW k \in 0..TTL, sleeping[h][k] > 0
               PROVE  \/ k = 0 /\ cache'[h] = Absent
                      \/ ~Tick /\ sleeping'[h][k] > 0
                      \/ Tick /\ k > 0 /\ sleeping'[h][k - 1] > 0
      OBVIOUS
  <2> USE DEF CacheInv, TypeOK
  <2>1. CASE Tick
    <3>1. k > 0
        BY <2>1 DEF Tick, Prompt
    <3>2. k - 1 \in 0..TTL /\ k - 1 # TTL /\ (k - 1) + 1 = k
        BY <3>1, DNSAssumption
    <3>3. sleeping'[h][k - 1] = sleeping[h][k]
        BY <2>1, <3>2 DEF Tick
    <3> QED
        BY <2>1, <3>1, <3>3
  <2>2. CASE ~Tick
    <3>0. sleeping[h] \in [0..TTL -> Nat] /\ sleeping[h][k] \in Nat
        BY <1>1
    <3>1. ASSUME NEW c \in Callers, Spawn(c) PROVE sleeping'[h][k] > 0
      <4>1. sleeping'[h] = IF h = host[c]
                           THEN [sleeping[h] EXCEPT ![TTL] = @ + 1]
                           ELSE sleeping[h]
          BY <1>1, <3>1 DEF Spawn
      <4> QED
          BY <3>0, <4>1
    <3>2. ASSUME NEW g \in Hosts, Expire(g)
          PROVE  sleeping'[h][k] > 0 \/ (k = 0 /\ cache'[h] = Absent)
      <4>1. CASE g = h
        <5>1. sleeping'[h] = [sleeping[h] EXCEPT ![0] = @ - 1]
              /\ cache'[h] = Absent
            BY <1>1, <3>2, <4>1 DEF Expire
        <5> QED
            BY <3>0, <5>1
      <4>2. CASE g # h
          BY <3>2, <4>2 DEF Expire
      <4> QED
          BY <4>1, <4>2
    <3>3. ASSUME NEW c \in Callers, Call(c), ~Spawn(c)
          PROVE  sleeping' = sleeping
        BY <3>3 DEF Call, Proceed, Hit, Miss, Resolve, Unresolved, Store,
                    Connect, Refused, GiveUp
    <3> QED
        BY <1>1, <2>2, <3>1, <3>2, <3>3 DEF Next
  <2> QED
      BY <2>1, <2>2
<1>2. CacheInv /\ [Next]_vars => [Approaches]_vars
  <2> HIDE DEF Approaches
  <2> QED
      BY <1>1
<1> QED
    BY <1>2, DeletionsAreDue, PTL DEF Spec, DeletionsApproach

=============================================================================
