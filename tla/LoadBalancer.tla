---------------------------- MODULE LoadBalancer ----------------------------
(***************************************************************************)
(* The failover core of consensus-proxy: the list of healthy beacon nodes, *)
(* the priority and the two counters of every node, the request handlers   *)
(* that read the list and demote a failing primary, and the health-check   *)
(* goroutine that promotes, fails back and rebuilds the list.              *)
(*                                                                         *)
(* A node is identified with its position in the configured list, which is *)
(* also its OriginalPriority.  A position is missing from Nodes when New   *)
(* could not parse that node's URL and skipped it.  Node names are taken   *)
(* to be distinct, so that comparing names is comparing nodes.             *)
(*                                                                         *)
(* Grain.  Every access to state that two goroutines share (a counter, a   *)
(* priority, the list under lb.mu) is a step of its own.  A loop that only *)
(* reads, or whose writes no other goroutine can tell apart, is one step.  *)
(* lb.mu is held by the health check during the phases of Locked; the      *)
(* handlers' critical sections are single steps.                           *)
(***************************************************************************)
EXTENDS Naturals, Sequences, FiniteSets

CONSTANTS
    Nodes,           \* lb.nodes: the configured positions that parsed
    HttpRequests,    \* handlers of plain requests
    Upgrades,        \* handlers of WebSocket upgrade requests
    ErrorThreshold,  \* failover.error_threshold
    MaxRetries,      \* server.max_retries
    FailbackChecks,  \* health.successful_checks_for_failback
    NoNode           \* the nil *BeaconNode

ASSUME NodesAssumption ==
    /\ Nodes \subseteq Nat /\ Nodes # {} /\ IsFiniteSet(Nodes)
    /\ NoNode \notin Nodes

ASSUME HandlersAssumption == HttpRequests \cap Upgrades = {}

\* Config.Validate refuses a smaller value of any of the three.
ASSUME LimitsAssumption ==
    /\ ErrorThreshold \in Nat \ {0}
    /\ MaxRetries \in Nat \ {0}
    /\ FailbackChecks \in Nat \ {0}

VARIABLES
    healthyNodes,  \* lb.healthyNodes, in the order requests try it
    priority,      \* BeaconNode.Priority
    errors,        \* BeaconNode.ConsecutiveErrors, up to ErrorThreshold
    successes,     \* BeaconNode.ConsecutiveSuccesses, up to FailbackChecks
    pc,            \* where each handler is
    todo,          \* the nodes of its snapshot a handler still has to try
    hc,            \* where main, and then the health-check goroutine, is
    toScan,        \* nodes whose IsBackup the round has still to read
    checking,      \* backupNodes whose result has not been collected
    newHealthy,    \* newHealthyBackups, in the order results arrived
    kept,          \* the primary that updatedHealthyNodes begins with
    chosen         \* result.node, currentPrimary or nodeToPromote

nodeVars    == <<priority, errors, successes>>
handlerVars == <<pc, todo>>
checkVars   == <<hc, toScan, checking, newHealthy, kept, chosen>>
vars        == <<healthyNodes, nodeVars, handlerVars, checkVars>>

Handlers == HttpRequests \cup Upgrades

Elements(s) == {s[i] : i \in DOMAIN s}

Listed(n) == n \in Elements(healthyNodes)

\* The priority of a demoted primary: len(lb.nodes).
MaxPriority == Cardinality(Nodes)

IsPrimary(n) == priority[n] = 0
IsBackup(n)  == priority[n] > 0

\* A counter that is only compared with its limit saturates there.
Increment(count, limit) == IF count < limit THEN count + 1 ELSE count

\* The enumeration of a finite set of numbers in increasing order (a
\* singleton): what sort.Slice leaves, and what a filtering loop visits.
InOrder(S) ==
    {f \in [1..Cardinality(S) -> S] :
        \A i, j \in DOMAIN f : i < j => f[i] < f[j]}

\* lb.nodes is scanned in its own order: n comes first among those of S.
First(n, S) == n \in S /\ \A m \in S : n <= m

-----------------------------------------------------------------------------

Init ==
    /\ healthyNodes = <<>>
    /\ priority = [n \in Nodes |-> n]
    /\ errors = [n \in Nodes |-> 0]
    /\ successes = [n \in Nodes |-> 0]
    /\ pc = [h \in Handlers |-> "idle"]
    /\ todo = [h \in Handlers |-> <<>>]
    /\ hc = "boot"
    /\ toScan = {} /\ checking = {}
    /\ newHealthy = <<>> /\ kept = <<>> /\ chosen = NoNode

\* StartupHealthCheck: all nodes are checked, S passed.  With none main
\* exits; otherwise it starts the periodic check and serves.
Startup(S) ==
    /\ hc = "boot"
    /\ IF S = {}
       THEN hc' = "exited" /\ UNCHANGED healthyNodes
       ELSE hc' = "idle" /\ healthyNodes' \in InOrder(S)
    /\ UNCHANGED <<nodeVars, handlerVars, toScan, checking, newHealthy, kept,
                   chosen>>

Serving == hc \notin {"boot", "exited"}

-----------------------------------------------------------------------------
(* Request handlers *)

\* The phases in which performHealthCheck holds lb.mu.
Locked == {"failback", "reinstate", "pardon", "relegate", "restore",
           "elect", "promote", "absolve", "publish"}

MuFree == hc \notin Locked

Current(h) == Head(todo[h])

\* Mutant of NextNode: the loop tries the same node again.
NextNodeSame(h) ==
    /\ pc' = [pc EXCEPT ![h] = "attempt"]
    /\ UNCHANGED todo

\* The loop goes on with the next node of the snapshot.
NextNode(h) ==
    /\ pc' = [pc EXCEPT ![h] = "attempt"]
    /\ todo' = [todo EXCEPT ![h] = Tail(@)]

Goto(h, label) ==
    /\ pc' = [pc EXCEPT ![h] = label]
    /\ UNCHANGED todo

Reply(h) ==
    /\ pc' = [pc EXCEPT ![h] = "idle"]
    /\ todo' = [todo EXCEPT ![h] = <<>>]

\* Mutant of Snapshot: one attempt too many (i > MaxRetries).
SnapshotOneMore(h) ==
    IF h \in HttpRequests /\ Len(healthyNodes) > MaxRetries + 1
    THEN SubSeq(healthyNodes, 1, MaxRetries + 1)
    ELSE healthyNodes

\* The nodes a handler will try: only plain requests honour MaxRetries.
Snapshot(h) ==
    IF h \in HttpRequests /\ Len(healthyNodes) > MaxRetries
    THEN SubSeq(healthyNodes, 1, MaxRetries)
    ELSE healthyNodes

\* A request arrives and GetHealthyNodes returns the list (RLock).
Receive(h) ==
    /\ Serving /\ MuFree
    /\ pc[h] = "idle"
    /\ pc' = [pc EXCEPT ![h] = "attempt"]
    /\ todo' = [todo EXCEPT ![h] = Snapshot(h)]
    /\ UNCHANGED <<healthyNodes, nodeVars, checkVars>>

Trying(h) == pc[h] = "attempt" /\ todo[h] # <<>>

\* 2xx or 3xx from the node: the error count is reset, the reply copied.
\* A successful dial changes nothing the other goroutines see.
Succeed(h) ==
    /\ Trying(h)
    /\ errors' = IF h \in HttpRequests
                 THEN [errors EXCEPT ![Current(h)] = 0]
                 ELSE errors
    /\ Reply(h)
    /\ UNCHANGED <<healthyNodes, priority, successes, checkVars>>

\* The request ends without a verdict on the node: its context is done or
\* no time remains at the loop head, or copying the body panicked.
Abandon(h) ==
    /\ Trying(h) /\ h \in HttpRequests
    /\ Reply(h)
    /\ UNCHANGED <<healthyNodes, nodeVars, checkVars>>

\* Status below 200, or 4xx: the node is not blamed, the next is tried.
ClientError(h) ==
    /\ Trying(h) /\ h \in HttpRequests
    /\ NextNode(h)
    /\ UNCHANGED <<healthyNodes, nodeVars, checkVars>>

\* 5xx, or a dial that fails: IncrementError begins.
Fail(h) ==
    /\ Trying(h)
    /\ errors' = [errors EXCEPT ![Current(h)] = Increment(@, ErrorThreshold)]
    /\ Goto(h, "clear")
    /\ UNCHANGED <<healthyNodes, priority, successes, checkVars>>

\* IncrementError ends: the node loses its consecutive successes.
ClearSuccesses(h) ==
    /\ pc[h] = "clear"
    /\ successes' = [successes EXCEPT ![Current(h)] = 0]
    /\ Goto(h, IF h \in HttpRequests THEN "load" ELSE "judge")
    /\ UNCHANGED <<healthyNodes, priority, errors, checkVars>>

\* handleNodeError loads the count, then asks IsPrimary; the WebSocket
\* handler asks IsPrimary, then loads the count.
LoadErrors(h) ==
    /\ pc[h] = "load"
    /\ IF errors[Current(h)] >= ErrorThreshold
       THEN Goto(h, IF h \in HttpRequests THEN "judge" ELSE "demote")
       ELSE NextNode(h)
    /\ UNCHANGED <<healthyNodes, nodeVars, checkVars>>

CheckPrimary(h) ==
    /\ pc[h] = "judge"
    /\ IF IsPrimary(Current(h))
       THEN Goto(h, IF h \in HttpRequests THEN "demote" ELSE "load")
       ELSE NextNode(h)
    /\ UNCHANGED <<healthyNodes, nodeVars, checkVars>>

\* Mutant of Demote: the demoted node is not removed from the list.
DemoteOnly(h) ==
    /\ pc[h] = "demote"
    /\ priority' = [priority EXCEPT ![Current(h)] = MaxPriority]
    /\ NextNode(h)
    /\ UNCHANGED <<healthyNodes, errors, successes, checkVars>>

Demote(h) ==
    /\ pc[h] = "demote"
    /\ priority' = [priority EXCEPT ![Current(h)] = MaxPriority]
    /\ Goto(h, "unlist")
    /\ UNCHANGED <<healthyNodes, errors, successes, checkVars>>

\* The places of a list that hold another node than n.
Others(s, n) == {i \in DOMAIN s : s[i] # n}

\* Under lb.mu, every occurrence of the node is filtered out of the list.
Unlist(h) ==
    /\ pc[h] = "unlist" /\ MuFree
    /\ \E f \in InOrder(Others(healthyNodes, Current(h))) :
          healthyNodes' = [i \in DOMAIN f |-> healthyNodes[f[i]]]
    /\ NextNode(h)
    /\ UNCHANGED <<nodeVars, checkVars>>

\* No node is left to try (or there was none): 502, or 503 for an upgrade
\* that found the list empty.
Exhausted(h) ==
    /\ pc[h] = "attempt" /\ todo[h] = <<>>
    /\ Reply(h)
    /\ UNCHANGED <<healthyNodes, nodeVars, checkVars>>

Advance(h) ==
    \/ Succeed(h) \/ Abandon(h) \/ ClientError(h) \/ Fail(h)
    \/ ClearSuccesses(h) \/ LoadErrors(h) \/ CheckPrimary(h)
    \/ Demote(h) \/ Unlist(h) \/ Exhausted(h)

-----------------------------------------------------------------------------
(* performHealthCheck, run by one goroutine at every tick *)

Tick ==
    /\ hc = "idle"
    /\ hc' = "scan" /\ toScan' = Nodes
    /\ UNCHANGED <<healthyNodes, nodeVars, handlerVars, checking, newHealthy,
                   kept, chosen>>

\* Mutant of Scan: primaries are checked with the backups.
ScanAll(n) ==
    /\ hc = "scan" /\ First(n, toScan)
    /\ toScan' = toScan \ {n}
    /\ checking' = checking \cup {n}
    /\ UNCHANGED <<healthyNodes, nodeVars, handlerVars, hc, newHealthy, kept,
                   chosen>>

\* Mutant of Scan: a demoted node is not a backup.
ScanUndemoted(n) ==
    /\ hc = "scan" /\ First(n, toScan)
    /\ toScan' = toScan \ {n}
    /\ checking' = IF IsBackup(n) /\ priority[n] # MaxPriority
                   THEN checking \cup {n} ELSE checking
    /\ UNCHANGED <<healthyNodes, nodeVars, handlerVars, hc, newHealthy, kept,
                   chosen>>

\* The loop over lb.nodes that collects the backups, one IsBackup a step.
Scan(n) ==
    /\ hc = "scan" /\ First(n, toScan)
    /\ toScan' = toScan \ {n}
    /\ checking' = IF IsBackup(n) THEN checking \cup {n} ELSE checking
    /\ UNCHANGED <<healthyNodes, nodeVars, handlerVars, hc, newHealthy, kept,
                   chosen>>

\* Without backups the round is over; otherwise they are checked at once,
\* concurrently, and their results are collected as they come.
Launch ==
    /\ hc = "scan" /\ toScan = {}
    /\ hc' = IF checking = {} THEN "idle" ELSE "collect"
    /\ UNCHANGED <<healthyNodes, nodeVars, handlerVars, toScan, checking,
                   newHealthy, kept, chosen>>

\* A healthy result: IncrementSuccess, then ResetErrors and append.
Healthy(n) ==
    /\ hc = "collect" /\ n \in checking
    /\ successes' = [successes EXCEPT ![n] = Increment(@, FailbackChecks)]
    /\ checking' = checking \ {n}
    /\ hc' = "credit" /\ chosen' = n
    /\ UNCHANGED <<healthyNodes, priority, errors, handlerVars, toScan,
                   newHealthy, kept>>

Credit ==
    /\ hc = "credit"
    /\ errors' = [errors EXCEPT ![chosen] = 0]
    /\ newHealthy' = Append(newHealthy, chosen)
    /\ hc' = "collect" /\ chosen' = NoNode
    /\ UNCHANGED <<healthyNodes, priority, successes, handlerVars, toScan,
                   checking, kept>>

Unhealthy(n) ==
    /\ hc = "collect" /\ n \in checking
    /\ successes' = [successes EXCEPT ![n] = 0]
    /\ checking' = checking \ {n}
    /\ UNCHANGED <<healthyNodes, priority, errors, handlerVars, hc, toScan,
                   newHealthy, kept, chosen>>

\* All results are in: lb.mu.Lock, and is the original primary due back?
Lock ==
    /\ hc = "collect" /\ checking = {}
    /\ hc' = IF 0 \in Elements(newHealthy) /\ successes[0] >= FailbackChecks
             THEN "failback" ELSE "restore"
    /\ UNCHANGED <<healthyNodes, nodeVars, handlerVars, toScan, checking,
                   newHealthy, kept, chosen>>

Primaries == {n \in Nodes : IsPrimary(n)}

\* The scan for the current primary; failback needs one that is not the
\* original primary itself.
FindPrimary ==
    /\ hc = "failback"
    /\ \/ \E p \in Primaries \ {0} :
             First(p, Primaries) /\ hc' = "reinstate" /\ chosen' = p
       \/ /\ \A p \in Primaries : First(p, Primaries) => p = 0
          /\ hc' = "restore" /\ UNCHANGED chosen
    /\ UNCHANGED <<healthyNodes, nodeVars, handlerVars, toScan, checking,
                   newHealthy, kept>>

Reinstate ==
    /\ hc = "reinstate"
    /\ priority' = [priority EXCEPT ![0] = 0]
    /\ hc' = "pardon"
    /\ UNCHANGED <<healthyNodes, errors, successes, handlerVars, toScan,
                   checking, newHealthy, kept, chosen>>

Pardon ==
    /\ hc = "pardon"
    /\ errors' = [errors EXCEPT ![0] = 0]
    /\ hc' = "relegate"
    /\ UNCHANGED <<healthyNodes, priority, successes, handlerVars, toScan,
                   checking, newHealthy, kept, chosen>>

\* The stand-in primary goes back to its configured priority.
Relegate ==
    /\ hc = "relegate"
    /\ priority' = [priority EXCEPT ![chosen] = chosen]
    /\ hc' = "restore" /\ chosen' = NoNode
    /\ UNCHANGED <<healthyNodes, errors, successes, handlerVars, toScan,
                   checking, newHealthy, kept>>

\* Every node that passed its check gets its original priority back.
Restore ==
    /\ hc = "restore"
    /\ priority' = [n \in Nodes |->
                      IF n \in Elements(newHealthy) THEN n ELSE priority[n]]
    /\ hc' = "elect"
    /\ UNCHANGED <<healthyNodes, errors, successes, handlerVars, toScan,
                   checking, newHealthy, kept, chosen>>

\* Mutant of Promotable: the comparison is the wrong way round.
PromotableLast(i) ==
    \A j \in DOMAIN newHealthy :
        \/ priority[newHealthy[i]] > priority[newHealthy[j]]
        \/ priority[newHealthy[i]] = priority[newHealthy[j]] /\ i <= j

\* Where in newHealthy the backup of the lowest priority stands, the first
\* of equals; the original primary goes before any other.
Promotable(i) ==
    LET rank(j) == IF newHealthy[j] = 0 THEN 0 ELSE priority[newHealthy[j]]
    IN  \A j \in DOMAIN newHealthy :
            rank(i) < rank(j) \/ (rank(i) = rank(j) /\ i <= j)

\* Mutant of Elect: a backup is promoted whenever no primary is listed.
ElectIfNoneListed ==
    /\ hc = "elect"
    /\ \/ \E p \in Primaries :
            /\ First(p, Primaries) /\ Listed(p) /\ kept' = <<p>>
            /\ hc' = "publish" /\ UNCHANGED chosen
       \/ /\ newHealthy = <<>>
          /\ hc' = "publish" /\ UNCHANGED <<kept, chosen>>
       \/ /\ \A p \in Primaries : First(p, Primaries) => ~Listed(p)
          /\ \E i \in DOMAIN newHealthy :
                Promotable(i) /\ chosen' = newHealthy[i]
          /\ hc' = "promote" /\ UNCHANGED kept
    /\ UNCHANGED <<healthyNodes, nodeVars, handlerVars, toScan, checking,
                   newHealthy>>

\* The second scan for a primary.  One that was listed is carried over; if
\* there is none at all, a healthy backup is to be promoted.
Elect ==
    /\ hc = "elect"
    /\ \/ \E p \in Primaries :
            /\ First(p, Primaries)
            /\ kept' = IF Listed(p) THEN <<p>> ELSE <<>>
            /\ hc' = "publish" /\ UNCHANGED chosen
       \/ /\ Primaries = {} /\ newHealthy = <<>>
          /\ hc' = "publish" /\ UNCHANGED <<kept, chosen>>
       \/ /\ Primaries = {}
          /\ \E i \in DOMAIN newHealthy :
                Promotable(i) /\ chosen' = newHealthy[i]
          /\ hc' = "promote" /\ UNCHANGED kept
    /\ UNCHANGED <<healthyNodes, nodeVars, handlerVars, toScan, checking,
                   newHealthy>>

Promote ==
    /\ hc = "promote"
    /\ priority' = [priority EXCEPT ![chosen] = 0]
    /\ hc' = "absolve"
    /\ UNCHANGED <<healthyNodes, errors, successes, handlerVars, toScan,
                   checking, newHealthy, kept, chosen>>

Absolve ==
    /\ hc = "absolve"
    /\ errors' = [errors EXCEPT ![chosen] = 0]
    /\ hc' = "publish" /\ chosen' = NoNode
    /\ UNCHANGED <<healthyNodes, priority, successes, handlerVars, toScan,
                   checking, newHealthy, kept>>

\* Mutant of Publish: with the primary carried over the backups are lost.
PublishKeptOnly ==
    /\ hc = "publish"
    /\ healthyNodes' = IF kept = <<>> THEN newHealthy ELSE kept
    /\ hc' = "idle" /\ newHealthy' = <<>> /\ kept' = <<>>
    /\ UNCHANGED <<nodeVars, handlerVars, toScan, checking, chosen>>

\* Mutant of Publish: an empty result leaves the old list in place.
PublishIfAny ==
    /\ hc = "publish"
    /\ healthyNodes' = IF kept \o newHealthy = <<>> THEN healthyNodes
                       ELSE kept \o newHealthy
    /\ hc' = "idle" /\ newHealthy' = <<>> /\ kept' = <<>>
    /\ UNCHANGED <<nodeVars, handlerVars, toScan, checking, chosen>>

\* The new list replaces the old one, and lb.mu is released.
Publish ==
    /\ hc = "publish"
    /\ healthyNodes' = kept \o newHealthy
    /\ hc' = "idle" /\ newHealthy' = <<>> /\ kept' = <<>>
    /\ UNCHANGED <<nodeVars, handlerVars, toScan, checking, chosen>>

CheckRound ==
    \/ Tick \/ Launch \/ Credit \/ Lock
    \/ FindPrimary \/ Reinstate \/ Pardon \/ Relegate \/ Restore
    \/ Elect \/ Promote \/ Absolve \/ Publish
    \/ \E n \in Nodes : Scan(n) \/ Healthy(n) \/ Unhealthy(n)

\* After a failed startup check the process is gone.
Exited == hc = "exited" /\ UNCHANGED vars

Next ==
    \/ \E S \in SUBSET Nodes : Startup(S)
    \/ \E h \in Handlers : Receive(h) \/ Advance(h)
    \/ CheckRound
    \/ Exited

Spec == Init /\ [][Next]_vars

\* main starts; the ticker never stops and every check times out; a handler
\* that is in a request keeps running, each attempt being bounded by the
\* request timeout (or the dialer's), and obtains lb.mu, which Go grants in
\* turn.  That requests arrive is not assumed.
Fairness ==
    /\ WF_vars(\E S \in SUBSET Nodes : Startup(S))
    /\ WF_vars(CheckRound)
    /\ \A h \in Handlers : SF_vars(Advance(h))

FairSpec == Spec /\ Fairness

-----------------------------------------------------------------------------
(* Properties *)

\* The counters stay within their limits, a priority is 0, the configured
\* one or len(lb.nodes), and a plain request never tries more than
\* MaxRetries nodes (http_handler.go:57).
TypeOK ==
    /\ healthyNodes \in Seq(Nodes)
    /\ priority \in [Nodes -> Nodes \cup {0, MaxPriority}]
    /\ \A n \in Nodes : priority[n] \in {0, n, MaxPriority}
    /\ errors \in [Nodes -> 0..ErrorThreshold]
    /\ successes \in [Nodes -> 0..FailbackChecks]
    /\ pc \in [Handlers -> {"idle", "attempt", "clear", "load", "judge",
                            "demote", "unlist"}]
    /\ todo \in [Handlers -> Seq(Nodes)]
    /\ \A h \in Handlers :
          /\ pc[h] \notin {"idle", "attempt"} => todo[h] # <<>>
          /\ h \in HttpRequests => Len(todo[h]) <= MaxRetries
    /\ hc \in Locked \cup {"boot", "exited", "idle", "scan", "collect",
                           "credit"}
    /\ toScan \subseteq Nodes /\ checking \subseteq Nodes
    /\ newHealthy \in Seq(Nodes) /\ kept \in Seq(Nodes)
    /\ chosen \in Nodes \cup {NoNode}
    /\ hc \in {"credit", "reinstate", "pardon", "relegate", "promote",
               "absolve"} => chosen \in Nodes
    /\ hc \in {"failback", "reinstate", "pardon"} => 0 \in Nodes

\* Some handler has demoted n and is about to take it off the list.
Leaving(n) == \E h \in Handlers : pc[h] = "unlist" /\ Current(h) = n

\* A node that stands in the list with the priority of a demoted one is on
\* its way out: whatever the health check carries over, promotes, restores
\* or publishes while a handler is between SetPriority and lb.mu.Lock
\* (http_handler.go:189-203), no demoted node stays in rotation.
DemotedIsLeaving ==
    \A n \in Nodes \ {MaxPriority} :
        Listed(n) /\ priority[n] = MaxPriority => Leaving(n)

\* The list holds a node twice only while a handler is about to remove
\* every copy of it: a published list (health_check.go:310-371) does not
\* make a request try the same node twice for good.
TwiceListedIsLeaving ==
    \A i, j \in DOMAIN healthyNodes :
        i # j /\ healthyNodes[i] = healthyNodes[j] => Leaving(healthyNodes[i])

\* However demotions, failbacks and promotions interleave, at most one node
\* other than the original primary holds priority 0: a stand-in is promoted
\* only when there is no primary (health_check.go:328-367).
OneStandIn ==
    \A m, n \in Primaries : m # 0 /\ n # 0 => m = n

\* However the steps of demotions, failbacks and promotions interleave, the
\* office of the primary changes hands as Office says: a stand-in never
\* replaces a primary, nor joins one, and none returns but the original
\* (health_check.go:271-367, http_handler.go:189).
TheOffice == INSTANCE Office WITH holders <- Primaries

HoldsOffice == TheOffice!OfficeSpec

\* The backup about to be promoted is the healthy one configured first;
\* only one that was demoted during this very round is passed over
\* (health_check.go:339-348; README.md:212).
PromotesBest ==
    hc = "promote" =>
        \A m \in Elements(newHealthy) :
            chosen <= m \/ priority[m] = MaxPriority

\* The loop of a plain request, as HttpHandler has it too.
RequestOf(h) == INSTANCE Attempts WITH
    busy     <- pc[h] # "idle",
    trying   <- todo[h],
    blaming  <- pc[h] \notin {"idle", "attempt"}

\* Whatever the health check and the other handlers do to the list and to
\* the nodes, a request keeps to its snapshot of at most MaxRetries nodes,
\* and answers only when no charge of its own is half done
\* (http_handler.go:55-98, 171-203).  This is RequestOf(h)!AttemptsSpec for
\* every h, with the quantifier where TLC takes it.
KeepsToItsSnapshot ==
    /\ \A h \in HttpRequests : RequestOf(h)!Init
    /\ [][\A h \in HttpRequests :
             RequestOf(h)!Next \/ UNCHANGED RequestOf(h)!request]_vars

-----------------------------------------------------------------------------
(* The inductive invariant.  Its parts say what a round of checks has      *)
(* established when it is interrupted between any two of its steps.        *)

\* Nothing has happened before the startup check is over.
Booting ==
    hc = "boot" => /\ priority = [n \in Nodes |-> n]
                   /\ \A h \in Handlers : pc[h] = "idle"

\* The round's local variables are empty where it does not use them.
RoundShape ==
    /\ hc \notin {"scan", "collect", "credit"} => checking = {}
    /\ hc \notin {"collect", "credit"} \cup Locked => newHealthy = <<>>
    /\ hc # "publish" => kept = <<>>

\* A backup of this round is outstanding, being credited or collected, and
\* only one of these.
EachOnce ==
    /\ \A i, j \in DOMAIN newHealthy : newHealthy[i] = newHealthy[j] => i = j
    /\ Elements(newHealthy) \cap checking = {}
    /\ hc = "credit" => chosen \notin checking \cup Elements(newHealthy)

InRound(n) ==
    n \in checking \/ n \in Elements(newHealthy) \/ (hc = "credit" /\ n = chosen)

\* The original primary is only checked after a demotion, so if it is still
\* listed the handler that demoted it has not yet taken it off.
OriginalIsLeaving ==
    0 \in Nodes /\ InRound(0) /\ Listed(0) => Leaving(0)

\* After Restore only a demotion can move a healthy backup's priority.
Restored ==
    hc = "elect" => \A n \in Elements(newHealthy) : priority[n] \in {n, MaxPriority}

\* DemotedIsLeaving, for the list that is about to be published.
ToPublishIsLeaving ==
    hc \in {"elect", "promote", "absolve", "publish"} =>
        \A n \in (Elements(newHealthy) \cup Elements(kept)) \ {MaxPriority} :
            priority[n] = MaxPriority => Leaving(n)

\* At most one primary is carried over; it was listed, and only the original
\* primary can have been checked in the same round.
KeptWasListed ==
    /\ Len(kept) <= 1
    /\ \A p \in Elements(kept) : Listed(p) /\ (p \in Elements(newHealthy) => p = 0)

NoRival == hc = "promote" => Primaries = {}

RoundInv ==
    /\ Booting /\ RoundShape /\ EachOnce /\ OriginalIsLeaving /\ Restored
    /\ ToPublishIsLeaving /\ KeptWasListed /\ NoRival
    /\ DemotedIsLeaving /\ TwiceListedIsLeaving /\ OneStandIn

\* Until it is restored, a node of the round other than the original primary
\* is a backup: it was one when it was scanned, and only this goroutine
\* makes primaries.
RoundIsOfBackups ==
    hc \notin {"elect", "promote", "absolve", "publish"} =>
        \A n \in Nodes \ {0} : InRound(n) => IsBackup(n)

\* Failback relegates another node than it reinstates.
StandInIsAnother == hc \in {"reinstate", "pardon", "relegate"} => chosen # 0

OfficeInv == RoundInv /\ RoundIsOfBackups /\ StandInIsAnother

-----------------------------------------------------------------------------
(* Liveness *)

\* A request that was received is answered, even by a handler that has to
\* wait for lb.mu: nothing holds the lock for ever.
RequestsEnd == \A h \in Handlers : pc[h] # "idle" ~> pc[h] = "idle"

StaysBackup(n) == <>[](Serving /\ IsBackup(n))

\* A node that remains a backup and fails no more checks ends up in the
\* list for good (health_check.go:168-173, 370).
HealthyBackupIsListed ==
    \A n \in Nodes :
        StaysBackup(n) /\ <>[][~Unhealthy(n)]_vars => <>[]Listed(n)

\* A node that remains a backup and passes no more checks is out of the
\* list for good.
FailingBackupIsUnlisted ==
    \A n \in Nodes :
        StaysBackup(n) /\ <>[][~Healthy(n)]_vars => <>[]~Listed(n)

\* The original primary, once it fails no more checks and no more
\* requests, has priority 0 again for good.
OriginalPrimaryReturns ==
    (0 \in Nodes /\ <>[]Serving /\ <>[][~Unhealthy(0)]_vars
     /\ <>[][\A h \in Handlers : ~(Fail(h) /\ Current(h) = 0)]_vars)
        => <>[]IsPrimary(0)

-----------------------------------------------------------------------------
(* What the documentation promises and the code does not keep              *)

\* README.md:7: automatic failover.  A backup that from some time on never
\* fails a check or a request keeps the list from staying empty; but when
\* it was dropped with priority 0 the proxy answers 502 for ever.
BackupTakesOver ==
    \A n \in Nodes \ {0} :
        <>[][~Unhealthy(n) /\ \A h \in Handlers : ~(Fail(h) /\ Current(h) = n)]_vars
            => []<>(healthyNodes # <<>> \/ hc = "exited")

=============================================================================
