------------------------------ MODULE Metrics ------------------------------
(***************************************************************************)
(* The Prometheus client, shared by all request handlers and the goroutine *)
(* of the periodic health check.  A vector of counters, summaries or       *)
(* gauges is created when its name is first used, with the labels of that  *)
(* use, registered with Prometheus and kept in a plain Go map.  No lock    *)
(* guards the three maps.                                                  *)
(*                                                                         *)
(* Grain.  Looking a name up, registering it, the write of the map, which  *)
(* has a beginning and an end, and the observation are steps of their own. *)
(* Go's map stops the process when it notices a write that overlaps with   *)
(* another access; it need not notice, and then a read sees the map        *)
(* before or after the write, and of two writes one may be lost.           *)
(***************************************************************************)
EXTENDS Naturals, FiniteSets

CONSTANTS
    Handlers,  \* goroutines of net/http, which recovers their panics
    Checker,   \* the health-check goroutine, whose panic ends the process
    Sites,     \* the calls of the client that occur
    MaxCalls,  \* bound: how many calls a goroutine makes
    Nil        \* the nil vector, and no call yet

Goroutines == Handlers \cup {Checker}

-----------------------------------------------------------------------------
(* The calls in the source: who calls, the map, the name, how many labels *)

Site(by, map, name, labels) ==
    [by |-> by, map |-> map, name |-> name, labels |-> labels]

RequestSites ==
    {Site("handler", "counters", "request.invalid_endpoint", 1),
     Site("handler", "summaries", "request.attempt_duration", 3),
     Site("handler", "summaries", "request.duration", 3),
     Site("handler", "counters", "request.success", 1),
     Site("handler", "counters", "node.primary_demoted", 1),
     Site("handler", "counters", "request.failover", 2),
     Site("handler", "counters", "request.failure", 0)}

UpgradeSites ==
    {Site("handler", "counters", "request.invalid_endpoint", 1),
     Site("handler", "counters", "websocket.connected", 1),
     Site("handler", "counters", "node.primary_demoted", 2),
     Site("handler", "counters", "websocket.disconnected", 1)}

\* A check that failed with another status than 200 has a label more.
CheckSites ==
    {Site("checker", "counters", "healthcheck.success", 1),
     Site("checker", "counters", "healthcheck.failed", 2),
     Site("checker", "counters", "healthcheck.failed", 3),
     Site("checker", "counters", "healthcheck.not_synced", 4)}

RoundSites ==
    {Site("checker", "counters", "node.failback_to_original_primary", 1),
     Site("checker", "counters", "node.backup_promoted", 1),
     Site("checker", "gauges", "loadbalancer.healthy_backup_nodes", 0),
     Site("checker", "gauges", "loadbalancer.unhealthy_backup_nodes", 0)}

AllSites == RequestSites \cup UpgradeSites \cup CheckSites \cup RoundSites

ASSUME MetricsAssumption ==
    /\ Sites \subseteq AllSites
    /\ Checker \notin Handlers
    /\ MaxCalls \in Nat
    /\ Nil \notin [labels : Nat, by : Handlers \cup {Checker}]
    /\ Nil \notin Sites

Names == {s.name : s \in Sites}

\* A vector: its labels, and the goroutine that created it.
Vectors == [labels : Nat, by : Goroutines]

VARIABLES
    enabled,    \* a PrometheusClient, not the NoOpClient
    process,    \* "up", or "crashed"
    vecs,       \* counters, summaries and gauges, by name
    registry,   \* what Prometheus has under a name, and shows at /metrics
    pc,         \* where each goroutine is in its call
    call,       \* the call it is making, or made last
    vec,        \* the local variable counter, summary or gauge
    calls,      \* bound: how many calls it has made
    panicked,   \* history: the goroutines whose call has panicked
    returned,   \* history: how many calls returned, by name
    scraped,    \* history: how many of them the registered vector counts
    met         \* history: the maps at which two goroutines were at once

local == <<pc, call, vec, calls>>
vars  == <<enabled, process, vecs, registry, local, panicked, returned, scraped,
           met>>

Init ==
    /\ enabled \in BOOLEAN /\ process = "up"
    /\ vecs = [n \in Names |-> Nil]
    /\ registry = [n \in Names |-> Nil]
    /\ pc = [g \in Goroutines |-> "idle"]
    /\ call = [g \in Goroutines |-> Nil]
    /\ vec = [g \in Goroutines |-> Nil]
    /\ calls = [g \in Goroutines |-> 0]
    /\ panicked = {}
    /\ returned = [n \in Names |-> 0] /\ scraped = [n \in Names |-> 0]
    /\ met = {}

-----------------------------------------------------------------------------

Name(g) == call[g].name

Goto(g, where) == pc' = [pc EXCEPT ![g] = where]

\* Another goroutine is writing the map that g is about to use.
Overlaps(g) ==
    \E o \in Goroutines \ {g} :
        pc[o] = "storing" /\ call[o].map = call[g].map

\* From the lookup to the end of the write.
Inside(g) == pc[g] \in {"lookup", "register", "store", "storing"}

\* The maps at which more than one goroutine is.
Crowded ==
    {call[g].map : g \in {h \in Goroutines :
        Inside(h) /\ \E o \in Goroutines \ {h} :
                         Inside(o) /\ call[o].map = call[h].map}}

\* The caller of one of the Sites; the NoOpClient does nothing.
Call(g, s) ==
    /\ process = "up" /\ enabled
    /\ pc[g] = "idle" /\ calls[g] < MaxCalls
    /\ s.by = IF g = Checker THEN "checker" ELSE "handler"
    /\ Goto(g, "lookup")
    /\ call' = [call EXCEPT ![g] = s]
    /\ calls' = [calls EXCEPT ![g] = @ + 1]
    /\ UNCHANGED <<enabled, process, vecs, registry, vec, panicked, returned,
                   scraped>>

\* A panic: net/http recovers it, the health check does not.
Panic(g) ==
    /\ panicked' = panicked \cup {g}
    /\ process' = IF g = Checker THEN "crashed" ELSE process
    /\ Goto(g, "idle")
    /\ UNCHANGED <<enabled, vecs, registry, call, vec, calls, returned, scraped>>

\* Mutant of Lookup: a missing vector is taken for one.
LookupBlind(g) ==
    /\ process = "up" /\ pc[g] = "lookup"
    /\ vec' = [vec EXCEPT ![g] = vecs[Name(g)]]
    /\ Goto(g, "observe")
    /\ UNCHANGED <<enabled, process, vecs, registry, call, calls, panicked,
                   returned, scraped>>

\* Mutant of Lookup: a vector is created for every call.
LookupNever(g) ==
    /\ process = "up" /\ pc[g] = "lookup"
    /\ Goto(g, "register")
    /\ UNCHANGED <<enabled, process, vecs, registry, call, vec, calls, panicked,
                   returned, scraped>>

Lookup(g) ==
    /\ process = "up" /\ pc[g] = "lookup"
    /\ vec' = [vec EXCEPT ![g] = vecs[Name(g)]]
    /\ Goto(g, IF vecs[Name(g)] = Nil THEN "register" ELSE "observe")
    /\ UNCHANGED <<enabled, process, vecs, registry, call, calls, panicked,
                   returned, scraped>>

\* The runtime notices concurrent accesses of a map, and stops the process.
Fatal(g) ==
    /\ process = "up" /\ pc[g] \in {"lookup", "store"} /\ Overlaps(g)
    /\ process' = "crashed"
    /\ UNCHANGED <<enabled, vecs, registry, local, panicked, returned, scraped>>

New(g) == [labels |-> call[g].labels, by |-> g]

\* Mutant of Register: a vector that Prometheus refuses is used all the same.
RegisterQuietly(g) ==
    /\ process = "up" /\ pc[g] = "register"
    /\ vec' = [vec EXCEPT ![g] = New(g)]
    /\ registry' = IF registry[Name(g)] = Nil
                   THEN [registry EXCEPT ![Name(g)] = New(g)] ELSE registry
    /\ Goto(g, "store")
    /\ UNCHANGED <<enabled, process, vecs, call, calls, panicked, returned,
                   scraped>>

\* promauto creates the vector and registers it.
Register(g) ==
    /\ process = "up" /\ pc[g] = "register"
    /\ registry[Name(g)] = Nil
    /\ registry' = [registry EXCEPT ![Name(g)] = New(g)]
    /\ vec' = [vec EXCEPT ![g] = New(g)]
    /\ Goto(g, "store")
    /\ UNCHANGED <<enabled, process, vecs, call, calls, panicked, returned,
                   scraped>>

\* The name is taken, by another goroutine that missed it too: promauto
\* panics.
Duplicate(g) ==
    /\ process = "up" /\ pc[g] = "register"
    /\ registry[Name(g)] # Nil
    /\ Panic(g)

Store(g) ==
    /\ process = "up" /\ pc[g] = "store"
    /\ Goto(g, "storing")
    /\ UNCHANGED <<enabled, process, vecs, registry, call, vec, calls, panicked,
                   returned, scraped>>

Stored(g) ==
    /\ process = "up" /\ pc[g] = "storing"
    /\ \/ vecs' = [vecs EXCEPT ![Name(g)] = vec[g]]
       \/ Overlaps(g) /\ UNCHANGED vecs
    /\ Goto(g, "observe")
    /\ UNCHANGED <<enabled, process, registry, call, vec, calls, panicked,
                   returned, scraped>>

Observe(g) ==
    /\ process = "up" /\ pc[g] = "observe"
    /\ vec[g].labels = call[g].labels
    /\ returned' = [returned EXCEPT ![Name(g)] = @ + 1]
    /\ scraped' = IF vec[g] = registry[Name(g)]
                  THEN [scraped EXCEPT ![Name(g)] = @ + 1] ELSE scraped
    /\ Goto(g, "idle")
    /\ UNCHANGED <<enabled, process, vecs, registry, call, vec, calls, panicked>>

\* WithLabelValues panics when it gets more or fewer values than labels.
Mismatch(g) ==
    /\ process = "up" /\ pc[g] = "observe"
    /\ vec[g].labels # call[g].labels
    /\ Panic(g)

Step(g) ==
    \/ \E s \in Sites : Call(g, s)
    \/ Lookup(g) \/ Fatal(g) \/ Register(g) \/ Duplicate(g)
    \/ Store(g) \/ Stored(g) \/ Observe(g) \/ Mismatch(g)

\* Nothing runs in a process that crashed; the others may be at rest.
Stopped ==
    /\ \/ process = "crashed" \/ ~enabled
       \/ \A g \in Goroutines : pc[g] = "idle"
    /\ UNCHANGED vars

Next ==
    \/ Stopped
    \/ (\E g \in Goroutines : Step(g)) /\ met' = met \cup Crowded'

Spec == Init /\ [][Next]_vars

-----------------------------------------------------------------------------
(* Properties *)

\* No goroutine observes into a vector that is not there.
TypeOK ==
    /\ enabled \in BOOLEAN /\ process \in {"up", "crashed"}
    /\ vecs \in [Names -> Vectors \cup {Nil}]
    /\ registry \in [Names -> Vectors \cup {Nil}]
    /\ pc \in [Goroutines -> {"idle", "lookup", "register", "store", "storing",
                              "observe"}]
    /\ call \in [Goroutines -> Sites \cup {Nil}]
    /\ vec \in [Goroutines -> Vectors \cup {Nil}]
    /\ calls \in [Goroutines -> 0..MaxCalls]
    /\ \A g \in Goroutines :
          /\ pc[g] # "idle" => call[g] \in Sites
          /\ pc[g] \in {"store", "storing", "observe"} => vec[g] \in Vectors
    /\ panicked \subseteq Goroutines
    /\ returned \in [Names -> Nat] /\ scraped \in [Names -> Nat]
    /\ met \subseteq {s.map : s \in Sites}

\* Every call that returned is shown by /metrics: however the creations of
\* a vector interleave, all goroutines observe into the one that Prometheus
\* has, since a second one is never used (client.go:82-98).
NothingUncounted == \A n \in Names : scraped[n] = returned[n]

\* What a goroutine or a map holds is what Prometheus registered.
OneVector ==
    /\ \A n \in Names : vecs[n] # Nil => vecs[n] = registry[n]
    /\ \A g \in Goroutines :
          pc[g] \in {"store", "storing", "observe"} =>
              vec[g] = registry[Name(g)]

\* The labels of a vector are those of a call that there is.
Labelled ==
    \A n \in Names : registry[n] # Nil =>
        \E s \in Sites : s.name = n /\ s.labels = registry[n].labels

CountInv == TypeOK /\ OneVector /\ Labelled /\ NothingUncounted

\* Calls of one name that disagree on their labels.
Divided(n) ==
    \E s, t \in Sites : s.name = n /\ t.name = n /\ s.labels # t.labels

\* A call of g ends without having counted.
Panics(g) == pc[g] # "idle" /\ pc'[g] = "idle" /\ returned' = returned

\* A call panics only over labels, or after two goroutines have been between
\* the lookup and the end of the write at its map at once, however long ago
\* (a lost write is noticed by the next call of the name); the process ends
\* only by the checker's panic or at a map where two have met.  One at a time,
\* with labels that agree, no call fails (client.go:82-122).
PanicsHaveACause ==
    [][/\ \A g \in Goroutines :
             Panics(g) => IF pc[g] = "observe" THEN Divided(Name(g))
                          ELSE call[g].map \in met
       /\ process' # process =>
             \/ Panics(Checker)
             \/ \E g \in Goroutines : Inside(g) /\ call[g].map \in met]_vars

-----------------------------------------------------------------------------
(* What the documentation promises and the code does not keep *)

\* README.md:11: metrics of "health check status".  They end the process:
\* healthcheck.failed is called with two labels and with three, and a
\* panic of the health-check goroutine is not recovered.
StaysUp == process = "up"

=============================================================================
