------------------------------ MODULE DNSCache ------------------------------
(***************************************************************************)
(* The DNS cache behind the transports of all nodes.  A goroutine that     *)
(* opens a connection takes the addresses of the host from the cache, or   *)
(* resolves the host, stores the answer and starts a goroutine that sleeps *)
(* for the TTL and then deletes the entry, whoever stored it.  Nothing     *)
(* keeps two that miss the same host from both doing so.                   *)
(*                                                                         *)
(* Grain.  A section of the code between two uses of the mutex, the        *)
(* lookup, the go statement and each attempt to connect are steps of their *)
(* own.  Time is discrete, and a tick is long: what does not wait for the  *)
(* network or a sleep is done within the tick (see Prompt).  An entry is   *)
(* reduced to how many addresses it has.                                   *)
(***************************************************************************)
EXTENDS Naturals

CONSTANTS
    Hosts,         \* the hosts of the configured nodes
    Callers,       \* goroutines that open connections
    TTL,           \* dns.cache_ttl, in ticks
    MaxAddresses,  \* bound: how many addresses a host has at most
    MaxSleepers    \* bound: no lookup begins while as many deletions of the
                   \* host are due at one time

ASSUME DNSAssumption ==
    /\ TTL \in Nat
    /\ MaxAddresses \in Nat \ {0}
    /\ MaxSleepers \in Nat

VARIABLES
    cache,     \* dnsCache: how many addresses an entry has, and its age
    sleeping,  \* how many goroutines will delete an entry, by the ticks left
    pc,        \* where each caller is
    host,      \* the host it connects to
    ips        \* how many of the addresses it has are not yet tried

vars == <<cache, sleeping, pc, host, ips>>

Absent == [size |-> 0, age |-> 0]

\* The age is a history variable, and not counted further than TTL + 1.
Entries == [size : 1..MaxAddresses, age : 0..TTL + 1]

Init ==
    /\ cache = [h \in Hosts |-> Absent]
    /\ sleeping = [h \in Hosts |-> [k \in 0..TTL |-> 0]]
    /\ pc = [c \in Callers |-> "idle"]
    /\ host \in [Callers -> Hosts]
    /\ ips = [c \in Callers |-> 0]

-----------------------------------------------------------------------------

Goto(c, where) == pc' = [pc EXCEPT ![c] = where]

Hit(c, h) ==
    /\ pc[c] = "idle" /\ cache[h] # Absent
    /\ Goto(c, "dial")
    /\ host' = [host EXCEPT ![c] = h]
    /\ ips' = [ips EXCEPT ![c] = cache[h].size]
    /\ UNCHANGED <<cache, sleeping>>

Miss(c, h) ==
    /\ pc[c] = "idle" /\ cache[h] = Absent
    /\ \A k \in 0..TTL : sleeping[h][k] < MaxSleepers
    /\ Goto(c, "lookup")
    /\ host' = [host EXCEPT ![c] = h]
    /\ UNCHANGED <<cache, sleeping, ips>>

Resolve(c) ==
    /\ pc[c] = "lookup"
    /\ Goto(c, "store")
    /\ \E n \in 1..MaxAddresses : ips' = [ips EXCEPT ![c] = n]
    /\ UNCHANGED <<cache, sleeping, host>>

\* A lookup that fails leaves the cache as it is.
Unresolved(c) ==
    /\ pc[c] = "lookup"
    /\ Goto(c, "idle")
    /\ UNCHANGED <<cache, sleeping, host, ips>>

Store(c) ==
    /\ pc[c] = "store"
    /\ Goto(c, "spawn")
    /\ cache' = [cache EXCEPT ![host[c]] = [size |-> ips[c], age |-> 0]]
    /\ UNCHANGED <<sleeping, host, ips>>

\* Mutant of Spawn: one sleeping goroutine a host is thought to be enough.
SpawnOnce(c) ==
    /\ pc[c] = "spawn"
    /\ Goto(c, "dial")
    /\ sleeping' = IF \A k \in 0..TTL : sleeping[host[c]][k] = 0
                   THEN [sleeping EXCEPT ![host[c]][TTL] = @ + 1]
                   ELSE sleeping
    /\ UNCHANGED <<cache, host, ips>>

\* Mutant of Spawn: the deletion is forgotten.
SpawnNever(c) ==
    /\ pc[c] = "spawn"
    /\ Goto(c, "dial")
    /\ UNCHANGED <<cache, sleeping, host, ips>>

\* The goroutine that sleeps for the TTL is started after the store.
Spawn(c) ==
    /\ pc[c] = "spawn"
    /\ Goto(c, "dial")
    /\ sleeping' = [sleeping EXCEPT ![host[c]][TTL] = @ + 1]
    /\ UNCHANGED <<cache, host, ips>>

Connect(c) ==
    /\ pc[c] = "dial" /\ ips[c] > 0
    /\ Goto(c, "idle")
    /\ ips' = [ips EXCEPT ![c] = 0]
    /\ UNCHANGED <<cache, sleeping, host>>

\* Mutant of Refused: there is always a next address.
RefusedAgain(c) ==
    /\ pc[c] = "dial"
    /\ ips' = [ips EXCEPT ![c] = @ - 1]
    /\ UNCHANGED <<cache, sleeping, pc, host>>

Refused(c) ==
    /\ pc[c] = "dial" /\ ips[c] > 0
    /\ ips' = [ips EXCEPT ![c] = @ - 1]
    /\ UNCHANGED <<cache, sleeping, pc, host>>

\* No address is left to try; the entry stays, to be used again.
GiveUp(c) ==
    /\ pc[c] = "dial" /\ ips[c] = 0
    /\ Goto(c, "idle")
    /\ UNCHANGED <<cache, sleeping, host, ips>>

\* Mutant of Expire: an entry must have outlived the TTL to be deleted.
ExpireIfOld(h) ==
    /\ sleeping[h][0] > 0
    /\ sleeping' = [sleeping EXCEPT ![h][0] = @ - 1]
    /\ cache' = IF cache[h].age > TTL THEN [cache EXCEPT ![h] = Absent] ELSE cache
    /\ UNCHANGED <<pc, host, ips>>

\* A goroutine wakes up and deletes the entry, be it its own or a later one.
Expire(h) ==
    /\ sleeping[h][0] > 0
    /\ sleeping' = [sleeping EXCEPT ![h][0] = @ - 1]
    /\ cache' = [cache EXCEPT ![h] = Absent]
    /\ UNCHANGED <<pc, host, ips>>

\* Whoever woke up, got an answer or has stored it goes on within the tick.
Prompt ==
    /\ \A h \in Hosts : sleeping[h][0] = 0
    /\ \A c \in Callers : pc[c] \notin {"store", "spawn"}

Older(entry) ==
    IF entry = Absent \/ entry.age > TTL THEN entry
    ELSE [entry EXCEPT !.age = @ + 1]

Tick ==
    /\ Prompt
    /\ cache' = [h \in Hosts |-> Older(cache[h])]
    /\ sleeping' = [h \in Hosts |-> [k \in 0..TTL |->
                        IF k = TTL THEN 0 ELSE sleeping[h][k + 1]]]
    /\ UNCHANGED <<pc, host, ips>>

Proceed(c) == Store(c) \/ Spawn(c)

Call(c) ==
    \/ \E h \in Hosts : Hit(c, h) \/ Miss(c, h)
    \/ Resolve(c) \/ Unresolved(c) \/ Proceed(c)
    \/ Connect(c) \/ Refused(c) \/ GiveUp(c)

Next ==
    \/ \E c \in Callers : Call(c)
    \/ \E h \in Hosts : Expire(h)
    \/ Tick

Spec == Init /\ [][Next]_vars

\* Time passes, and what is due happens.  Nothing is assumed of lookups and
\* connections, which may take as long as they please.
FairSpec ==
    /\ Spec
    /\ WF_vars(Tick)
    /\ \A c \in Callers : WF_vars(Proceed(c))
    /\ \A h \in Hosts : WF_vars(Expire(h))

-----------------------------------------------------------------------------
(* Properties *)

\* Nobody tries an address that is not there, and what is stored is not empty.
TypeOK ==
    /\ cache \in [Hosts -> Entries \cup {Absent}]
    /\ sleeping \in [Hosts -> [0..TTL -> Nat]]
    /\ pc \in [Callers -> {"idle", "lookup", "store", "spawn", "dial"}]
    /\ host \in [Callers -> Hosts]
    /\ ips \in [Callers -> 0..MaxAddresses]
    /\ \A c \in Callers : pc[c] \in {"store", "spawn"} => ips[c] > 0

\* No answer is used when it is older than the TTL, however the lookups of
\* several callers and their deletions interleave (dns_cache.go:38-52).
AnswersAreFresh == \A h \in Hosts : cache[h].age <= TTL

\* An entry has a goroutine that deletes it when it is as old as the TTL, or
\* the caller that stored it is about to start one.
DeletionIsDue ==
    \A h \in Hosts : cache[h] # Absent =>
        \/ \E c \in Callers : pc[c] = "spawn" /\ host[c] = h /\ cache[h].age = 0
        \/ cache[h].age <= TTL /\ sleeping[h][TTL - cache[h].age] > 0

CacheInv == TypeOK /\ DeletionIsDue

\* One goroutine is asleep for the host, and none is about to be.
Alone(h) ==
    /\ \A c \in Callers : pc[c] = "spawn" => host[c] # h
    /\ \E k \in 0..TTL :
          sleeping[h][k] = 1 /\ \A j \in 0..TTL \ {k} : sleeping[h][j] = 0

\* An entry is deleted before its time only when callers missed the host
\* together and each of them started a deletion (dns_cache.go:47-52).
LoneEntryLastsTheTTL ==
    [][\A h \in Hosts :
          cache[h] # Absent /\ cache'[h] = Absent /\ Alone(h) =>
              cache[h].age = TTL]_vars

\* An address that refuses every connection is not used for ever: its entry
\* goes, however often it is hit (dns_cache.go:47-52, 58).
EntriesExpire == \A h \in Hosts : cache[h] # Absent ~> cache[h] = Absent

=============================================================================
