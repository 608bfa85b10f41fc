------------------------- MODULE LoadBalancerProofs -------------------------
(***************************************************************************)
(* Machine-checked proofs about LoadBalancer, for any number of nodes,     *)
(* handlers, retries and checks.                                           *)
(***************************************************************************)
EXTENDS LoadBalancer, FiniteSetTheorems, WellFoundedInduction, TLAPS

-----------------------------------------------------------------------------
(* Why nobody is held up: what the fairness of FairSpec has to work with    *)

\* How many steps a handler has taken with the current node.
Taken(h) ==
    IF pc[h] = "clear" THEN 1
    ELSE IF pc[h] = "load" THEN IF h \in HttpRequests THEN 2 ELSE 3
    ELSE IF pc[h] = "judge" THEN IF h \in HttpRequests THEN 3 ELSE 2
    ELSE IF pc[h] = "demote" THEN 4
    ELSE IF pc[h] = "unlist" THEN 5 ELSE 0

\* How many it can still take: six for each node it has left, and the reply.
StepsLeft(h) == 6 * Len(todo[h]) + 1 - Taken(h)

\* Whatever the other goroutines do to the list, the priorities and the
\* counters, a request never goes back to a node: each of its steps brings it
\* nearer to its reply, and nobody else's step takes it away from there.
RequestsAreFinite ==
    [][\A h \in Handlers :
          pc[h] # "idle" => \/ pc'[h] = pc[h] /\ todo'[h] = todo[h]
                            \/ pc'[h] = "idle"
                            \/ StepsLeft(h)' < StepsLeft(h)]_vars

RequestsAreShort ==
    \A h \in HttpRequests : pc[h] # "idle" => StepsLeft(h) <= 6 * MaxRetries + 1

InProgress == hc \notin {"boot", "exited", "idle"}

\* How many steps a round of checks can still take.
RoundStepsLeft ==
    IF hc = "scan" THEN 12 + 3 * Cardinality(toScan) + 2 * Cardinality(checking)
    ELSE IF hc = "credit" THEN 12 + 2 * Cardinality(checking)
    ELSE IF hc = "collect" THEN 11 + 2 * Cardinality(checking)
    ELSE IF hc = "failback" THEN 10
    ELSE IF hc = "reinstate" THEN 9
    ELSE IF hc = "pardon" THEN 8
    ELSE IF hc = "relegate" THEN 7
    ELSE IF hc = "restore" THEN 6
    ELSE IF hc = "elect" THEN 5
    ELSE IF hc = "promote" THEN 4
    ELSE IF hc = "absolve" THEN 3
    ELSE IF hc = "publish" THEN 2 ELSE 0

\* A round ends, and gives lb.mu back, whatever the handlers do meanwhile.
RoundsAreFinite ==
    [][InProgress => UNCHANGED checkVars \/ RoundStepsLeft' < RoundStepsLeft]_vars

\* The loops that look for a node find one or have a branch for none, so
\* that a round is never stuck with lb.mu held; a handler only waits for it.
NobodyIsStuck ==
    /\ hc = "scan" => toScan = {} \/ \E n \in Nodes : First(n, toScan)
    /\ hc = "elect" => \/ \E p \in Primaries : First(p, Primaries)
                       \/ Primaries = {} /\ newHealthy = <<>>
                       \/ Primaries = {} /\ \E i \in DOMAIN newHealthy : Promotable(i)

-----------------------------------------------------------------------------
(* Facts about the operators *)

\* len(lb.nodes) is a number and at least one.
LEMMA MaxPriorityType == MaxPriority \in Nat \ {0}
  BY NodesAssumption, FS_CardinalityType, FS_EmptySet DEF MaxPriority

\* What InOrder yields is a sequence over its set, without repetition.
LEMMA InOrderType ==
    ASSUME NEW S, IsFiniteSet(S), S \subseteq Nat, NEW f \in InOrder(S)
    PROVE  /\ f \in Seq(S)
           /\ \A i, j \in DOMAIN f : f[i] = f[j] => i = j
<1>1. Cardinality(S) \in Nat
  BY FS_CardinalityType
<1>2. f \in [1..Cardinality(S) -> S]
  BY DEF InOrder
<1>3. f \in Seq(S)
  BY <1>1, <1>2
<1>4. ASSUME NEW i \in DOMAIN f, NEW j \in DOMAIN f, f[i] = f[j]
      PROVE  i = j
  <2>1. i \in 1..Cardinality(S) /\ j \in 1..Cardinality(S) /\ f[i] \in Nat
    BY <1>2
  <2>2. ~(i < j) /\ ~(j < i)
    BY <1>1, <1>4, <2>1 DEF InOrder
  <2>3. QED
    BY <1>1, <2>1, <2>2
<1>5. QED
  BY <1>3, <1>4

\* The list a handler leaves behind: only nodes that were listed, without
\* the node it removes, and no place of the old list used twice.
LEMMA UnlistedList ==
    ASSUME NEW s \in Seq(Nodes), NEW n \in Nodes,
           NEW f \in InOrder(Others(s, n)),
           NEW t, t = [i \in DOMAIN f |-> s[f[i]]]
    PROVE  /\ t \in Seq(Nodes)
           /\ \A i \in DOMAIN t : f[i] \in DOMAIN s /\ t[i] = s[f[i]]
                                  /\ t[i] # n
           /\ \A i, j \in DOMAIN t : f[i] = f[j] => i = j
<1> DEFINE K == Others(s, n)
<1>1. IsFiniteSet(K) /\ K \subseteq Nat
  <2>1. IsFiniteSet(1..Len(s)) /\ DOMAIN s = 1..Len(s) /\ Len(s) \in Nat
    BY FS_Interval
  <2>2. QED
    BY <2>1, FS_Subset DEF Others
<1>2. f \in Seq(K) /\ \A i, j \in DOMAIN f : f[i] = f[j] => i = j
  BY <1>1, InOrderType
<1>3. DOMAIN t = DOMAIN f /\ \A i \in DOMAIN t : f[i] \in K
  BY <1>2
<1>4. t \in Seq(Nodes) /\ \A i \in DOMAIN t : t[i] # n /\ f[i] \in DOMAIN s
  <2>1. DOMAIN f = 1..Len(f) /\ Len(f) \in Nat
    BY <1>2
  <2>2. t \in [1..Len(f) -> Nodes]
    BY <1>3, <2>1 DEF Others
  <2>3. QED
    BY <1>3, <2>1, <2>2 DEF Others
<1>5. QED
  BY <1>2, <1>3, <1>4

-----------------------------------------------------------------------------
(* Type correctness *)

\* The node a handler deals with is a configured one.
LEMMA CurrentType ==
    ASSUME TypeOK, NEW h \in Handlers,
           todo[h] # <<>> \/ pc[h] \notin {"idle", "attempt"}
    PROVE  todo[h] # <<>> /\ Current(h) \in Nodes
  BY DEF TypeOK, Current

\* Every action by which a handler leaves the current node.
LEMMA NextNodeType ==
    ASSUME TypeOK, NEW h \in Handlers, todo[h] # <<>>, NextNode(h)
    PROVE  /\ pc' \in [Handlers -> {"idle", "attempt", "clear", "load",
                                    "judge", "demote", "unlist"}]
           /\ todo' \in [Handlers -> Seq(Nodes)]
           /\ \A g \in Handlers :
                 /\ pc'[g] \notin {"idle", "attempt"} => todo'[g] # <<>>
                 /\ g \in HttpRequests => Len(todo'[g]) <= MaxRetries
<1>1. Tail(todo[h]) \in Seq(Nodes) /\ Len(Tail(todo[h])) = Len(todo[h]) - 1
  BY DEF TypeOK
<1>2. \A g \in Handlers : Len(todo[g]) \in Nat
  BY DEF TypeOK
<1>3. QED
  BY <1>1, <1>2, LimitsAssumption DEF TypeOK, NextNode

\* The types hold in the initial state and after every step of a handler.
LEMMA HandlerType ==
    ASSUME TypeOK, NEW h \in Handlers, Receive(h) \/ Advance(h)
    PROVE  TypeOK'
<1> USE DEF Goto, Reply, Trying
<1> errors \in [Nodes -> 0..ErrorThreshold] /\ successes \in [Nodes -> 0..FailbackChecks]
  BY DEF TypeOK
<1>1. CASE Receive(h)
  <2>1. Snapshot(h) \in Seq(Nodes)
        /\ (h \in HttpRequests => Len(Snapshot(h)) <= MaxRetries)
    BY LimitsAssumption DEF TypeOK, Snapshot
  <2>2. QED
    BY <1>1, <2>1 DEF TypeOK, Receive, nodeVars, checkVars, MaxPriority
<1>2. CASE Succeed(h)
  <2>1. errors' \in [Nodes -> 0..ErrorThreshold]
    BY <1>2, CurrentType, LimitsAssumption DEF Succeed
  <2>2. QED
    BY <1>2, <2>1, LimitsAssumption DEF TypeOK, Succeed, checkVars, MaxPriority
<1>3. CASE Abandon(h)
  BY <1>3, LimitsAssumption DEF TypeOK, Abandon, nodeVars, checkVars, MaxPriority
<1>4. CASE ClientError(h)
  BY <1>4, NextNodeType DEF TypeOK, ClientError, nodeVars, checkVars, MaxPriority
<1>5. CASE Fail(h)
  <2>1. errors' \in [Nodes -> 0..ErrorThreshold]
    <3>1. \A c \in 0..ErrorThreshold : Increment(c, ErrorThreshold) \in 0..ErrorThreshold
      BY LimitsAssumption DEF Increment
    <3>2. QED
      BY <1>5, <3>1, CurrentType DEF Fail
  <2>2. QED
    BY <1>5, <2>1 DEF TypeOK, Fail, checkVars, MaxPriority
<1>6. CASE ClearSuccesses(h)
  <2>1. successes' \in [Nodes -> 0..FailbackChecks]
    BY <1>6, CurrentType, LimitsAssumption DEF ClearSuccesses
  <2>2. QED
    BY <1>6, <2>1 DEF TypeOK, ClearSuccesses, checkVars, MaxPriority
<1>7. CASE LoadErrors(h)
  BY <1>7, NextNodeType DEF TypeOK, LoadErrors, nodeVars, checkVars, MaxPriority
<1>8. CASE CheckPrimary(h)
  BY <1>8, NextNodeType DEF TypeOK, CheckPrimary, nodeVars, checkVars, MaxPriority
<1>9. CASE Demote(h)
  BY <1>9 DEF TypeOK, Demote, checkVars, MaxPriority
<1>10. CASE Unlist(h)
  <2>1. todo[h] # <<>> /\ Current(h) \in Nodes
    BY <1>10, CurrentType DEF Unlist
  <2>2. healthyNodes' \in Seq(Nodes)
    <3>1. PICK f \in InOrder(Others(healthyNodes, Current(h))) :
                 healthyNodes' = [i \in DOMAIN f |-> healthyNodes[f[i]]]
      BY <1>10 DEF Unlist
    <3>2. healthyNodes \in Seq(Nodes)
      BY DEF TypeOK
    <3>3. QED
      BY <2>1, <3>1, <3>2, UnlistedList
  <2>3. QED
    BY <1>10, <2>1, <2>2, NextNodeType DEF TypeOK, Unlist, nodeVars, checkVars, MaxPriority
<1>11. CASE Exhausted(h)
  BY <1>11, LimitsAssumption DEF TypeOK, Exhausted, nodeVars, checkVars, MaxPriority
<1>12. QED
  BY <1>1, <1>2, <1>3, <1>4, <1>5, <1>6, <1>7, <1>8, <1>9, <1>10, <1>11 DEF Advance

\* The types hold after every step of a round of health checks.
LEMMA RoundType ==
    ASSUME TypeOK, CheckRound
    PROVE  TypeOK'
<1> USE DEF nodeVars, handlerVars, MaxPriority, Locked
<1>1. CASE Tick \/ Launch \/ \E n \in Nodes : Scan(n)
  BY <1>1 DEF TypeOK, Tick, Launch, Scan, First
<1>2. ASSUME NEW n \in Nodes, Healthy(n)
      PROVE  TypeOK'
  <2>1. successes' \in [Nodes -> 0..FailbackChecks]
    <3>1. \A c \in 0..FailbackChecks :
             Increment(c, FailbackChecks) \in 0..FailbackChecks
      BY LimitsAssumption DEF Increment
    <3>2. QED
      BY <1>2, <3>1 DEF Healthy, TypeOK
  <2>2. QED
    BY <1>2, <2>1 DEF TypeOK, Healthy
<1>3. CASE Credit
  <2>1. errors' \in [Nodes -> 0..ErrorThreshold] /\ newHealthy' \in Seq(Nodes)
    BY <1>3, LimitsAssumption DEF Credit, TypeOK
  <2>2. QED
    BY <1>3, <2>1 DEF TypeOK, Credit
<1>4. ASSUME NEW n \in Nodes, Unhealthy(n)
      PROVE  TypeOK'
  <2>1. successes' \in [Nodes -> 0..FailbackChecks]
    BY <1>4, LimitsAssumption DEF Unhealthy, TypeOK
  <2>2. QED
    BY <1>4, <2>1 DEF TypeOK, Unhealthy
<1>5. CASE Lock
  BY <1>5 DEF TypeOK, Lock, Elements
<1>6. CASE FindPrimary
  BY <1>6 DEF TypeOK, FindPrimary, Primaries, First
<1>7. CASE Reinstate
  BY <1>7 DEF TypeOK, Reinstate
<1>8. CASE Pardon
  <2>1. errors' \in [Nodes -> 0..ErrorThreshold]
    BY <1>8, LimitsAssumption DEF Pardon, TypeOK
  <2>2. QED
    BY <1>8, <2>1 DEF TypeOK, Pardon
<1>9. CASE Relegate
  BY <1>9 DEF TypeOK, Relegate
<1>10. CASE Restore
  BY <1>10 DEF TypeOK, Restore
<1>11. CASE Elect
  <2>1. kept' \in Seq(Nodes) /\ chosen' \in Nodes \cup {NoNode}
        /\ (hc' = "promote" => chosen' \in Nodes)
        /\ hc' \in {"publish", "promote"}
    <3>1. ASSUME NEW p \in Primaries
          PROVE  <<p>> \in Seq(Nodes)
      BY <3>1 DEF Primaries
    <3>2. \A i \in DOMAIN newHealthy : newHealthy[i] \in Nodes
      BY DEF TypeOK
    <3>3. kept \in Seq(Nodes) /\ <<>> \in Seq(Nodes) /\ chosen \in Nodes \cup {NoNode}
      BY DEF TypeOK
    <3>4. QED
      BY <1>11, <3>1, <3>2, <3>3 DEF Elect
  <2>2. QED
    BY <1>11, <2>1 DEF TypeOK, Elect
<1>12. CASE Promote
  BY <1>12 DEF TypeOK, Promote
<1>13. CASE Absolve
  <2>1. errors' \in [Nodes -> 0..ErrorThreshold]
    BY <1>13, LimitsAssumption DEF Absolve, TypeOK
  <2>2. QED
    BY <1>13, <2>1 DEF TypeOK, Absolve
<1>14. CASE Publish
  <2>1. healthyNodes' \in Seq(Nodes)
    BY <1>14 DEF TypeOK, Publish
  <2>2. QED
    BY <1>14, <2>1 DEF TypeOK, Publish
<1>15. QED
  BY <1>1, <1>2, <1>3, <1>4, <1>5, <1>6, <1>7, <1>8, <1>9, <1>10, <1>11,
     <1>12, <1>13, <1>14
  DEF CheckRound

LEMMA StartupType ==
    ASSUME TypeOK, NEW S \in SUBSET Nodes, Startup(S)
    PROVE  TypeOK'
<1>1. healthyNodes' \in Seq(Nodes)
  <2>1. CASE S = {}
    BY <2>1 DEF TypeOK, Startup
  <2>2. CASE S # {}
    <3>1. IsFiniteSet(S) /\ S \subseteq Nat
      BY NodesAssumption, FS_Subset
    <3>2. healthyNodes' \in Seq(S)
      BY <2>2, <3>1, InOrderType DEF Startup
    <3>3. QED
      BY <3>2
  <2>3. QED
    BY <2>1, <2>2
<1>2. QED
  BY <1>1 DEF TypeOK, Startup, nodeVars, handlerVars, MaxPriority

LEMMA InitType == Init => TypeOK
  BY NodesAssumption, LimitsAssumption, MaxPriorityType DEF Init, TypeOK

\* Every reachable state is well typed: the counters, the priorities and the
\* retry limit of http_handler.go:57, whatever the configuration.
THEOREM TypeCorrect == Spec => []TypeOK
<1>1. Init => TypeOK
  BY InitType
<1>2. TypeOK /\ [Next]_vars => TypeOK'
  <2> SUFFICES ASSUME TypeOK, [Next]_vars
               PROVE  TypeOK'
    OBVIOUS
  <2>1. CASE Next
    BY <2>1, StartupType, HandlerType, RoundType
       DEF Next, Exited, vars, nodeVars, handlerVars, checkVars, TypeOK,
           MaxPriority
  <2>2. CASE UNCHANGED vars
    BY <2>2 DEF vars, nodeVars, handlerVars, checkVars, TypeOK, MaxPriority
  <2>3. QED
    BY <2>1, <2>2
<1>3. QED
  BY <1>1, <1>2, PTL DEF Spec

-----------------------------------------------------------------------------
(* The inductive invariant, steps of the handlers *)

LEMMA ElementsAppend ==
    ASSUME NEW s \in Seq(Nodes), NEW e \in Nodes
    PROVE  Elements(Append(s, e)) = Elements(s) \cup {e}
<1>1. /\ DOMAIN Append(s, e) = 1..(Len(s) + 1) /\ DOMAIN s = 1..Len(s)
      /\ Len(s) \in Nat
      /\ \A i \in 1..Len(s) : Append(s, e)[i] = s[i]
      /\ Append(s, e)[Len(s) + 1] = e
  OBVIOUS
<1>2. 1..(Len(s) + 1) = 1..Len(s) \cup {Len(s) + 1}
  BY <1>1
<1>3. QED
  BY <1>1, <1>2 DEF Elements

LEMMA ElementsConcat ==
    ASSUME NEW s \in Seq(Nodes), NEW t \in Seq(Nodes), NEW i \in DOMAIN (s \o t)
    PROVE  \/ i \in DOMAIN s /\ (s \o t)[i] = s[i]
           \/ i - Len(s) \in DOMAIN t /\ (s \o t)[i] = t[i - Len(s)]
  OBVIOUS

\* The steps of a handler that touch neither the list nor a priority, and
\* do not begin with a pending removal.
LEMMA QuietStep ==
    ASSUME TypeOK, RoundInv, NEW h \in Handlers,
           UNCHANGED <<healthyNodes, priority, checkVars>>,
           pc[h] # "unlist", hc # "boot",
           \A g \in Handlers \ {h} : pc'[g] = pc[g] /\ todo'[g] = todo[g]
    PROVE  RoundInv'
<1>1. \A n \in Nodes : Leaving(n) => Leaving(n)'
  BY DEF Leaving, Current
<1>2. MaxPriority' = MaxPriority
  BY DEF MaxPriority
<1>3. (Booting /\ RoundShape /\ EachOnce /\ Restored /\ KeptWasListed
       /\ NoRival /\ OneStandIn)'
  BY DEF RoundInv, Booting, RoundShape, EachOnce, Restored, KeptWasListed,
         NoRival, OneStandIn, checkVars, Elements, Listed, Primaries,
         IsPrimary, MaxPriority
<1>4. OriginalIsLeaving'
  BY <1>1 DEF RoundInv, OriginalIsLeaving, InRound, Listed, Elements, checkVars
<1>5. ToPublishIsLeaving' /\ DemotedIsLeaving'
  <2>1. Elements(newHealthy) \cup Elements(kept) \subseteq Nodes
    BY DEF TypeOK, Elements
  <2>2. QED
    BY <1>1, <1>2, <2>1
       DEF RoundInv, ToPublishIsLeaving, DemotedIsLeaving, Listed, Elements,
           checkVars
<1>6. TwiceListedIsLeaving'
  BY <1>1 DEF RoundInv, TwiceListedIsLeaving, TypeOK
<1>7. QED
  BY <1>3, <1>4, <1>5, <1>6 DEF RoundInv

\* A handler that has demoted a node is about to take it off the list.
LEMMA DemoteStep ==
    ASSUME TypeOK, RoundInv, NEW h \in Handlers, Demote(h)
    PROVE  RoundInv'
<1>0. PICK d \in Nodes : d = Current(h)
  BY CurrentType DEF Demote
<1>1. priority \in [Nodes -> Nodes \cup {0, MaxPriority}]
  BY DEF TypeOK
<1>2. /\ priority'[d] = MaxPriority
      /\ \A n \in Nodes \ {d} : priority'[n] = priority[n]
  BY <1>0, <1>1 DEF Demote
<1>3. Leaving(d)' /\ \A n \in Nodes : Leaving(n) => Leaving(n)'
  BY <1>0 DEF Demote, Goto, Leaving, Current, TypeOK
<1>4. /\ UNCHANGED <<healthyNodes, hc, toScan, checking, newHealthy, kept, chosen>>
      /\ MaxPriority' = MaxPriority /\ MaxPriority # 0
      /\ hc # "boot"
  BY MaxPriorityType DEF Demote, checkVars, MaxPriority, RoundInv, Booting
<1>5. Primaries' \subseteq Primaries
  BY <1>2, <1>4 DEF Primaries, IsPrimary
<1>6. Elements(newHealthy) \cup Elements(kept) \subseteq Nodes
  BY DEF TypeOK, Elements
<1>7. (Booting /\ RoundShape /\ EachOnce /\ KeptWasListed)'
  BY <1>4 DEF RoundInv, Booting, RoundShape, EachOnce, KeptWasListed,
              Elements, Listed
<1>8. (NoRival /\ OneStandIn)'
  BY <1>4, <1>5 DEF RoundInv, NoRival, OneStandIn
<1>9. Restored'
  BY <1>2, <1>4, <1>6 DEF RoundInv, Restored, Elements
<1>10. OriginalIsLeaving'
  BY <1>3, <1>4 DEF RoundInv, OriginalIsLeaving, InRound, Listed, Elements
<1>11. ToPublishIsLeaving'
  BY <1>2, <1>3, <1>4, <1>6 DEF RoundInv, ToPublishIsLeaving, Elements
<1>12. DemotedIsLeaving'
  BY <1>2, <1>3, <1>4 DEF RoundInv, DemotedIsLeaving, Listed, Elements
<1>13. TwiceListedIsLeaving'
  BY <1>3, <1>4 DEF RoundInv, TwiceListedIsLeaving, TypeOK
<1>14. QED
  BY <1>7, <1>8, <1>9, <1>10, <1>11, <1>12, <1>13 DEF RoundInv

\* The removal takes every copy of the node off the list, outside the health
\* check's critical section, and leaves the other pending removals alone.
LEMMA UnlistStep ==
    ASSUME TypeOK, RoundInv, NEW h \in Handlers, Unlist(h)
    PROVE  RoundInv'
<1> DEFINE d == Current(h)
<1>1. d \in Nodes /\ healthyNodes \in Seq(Nodes)
  BY CurrentType DEF Unlist, TypeOK
<1>2. PICK f \in InOrder(Others(healthyNodes, d)) :
            healthyNodes' = [i \in DOMAIN f |-> healthyNodes[f[i]]]
  BY DEF Unlist
<1>3. /\ healthyNodes' \in Seq(Nodes)
      /\ \A i \in DOMAIN healthyNodes' :
            /\ f[i] \in DOMAIN healthyNodes
            /\ healthyNodes'[i] = healthyNodes[f[i]]
            /\ healthyNodes'[i] # d
      /\ \A i, j \in DOMAIN healthyNodes' : f[i] = f[j] => i = j
  BY <1>1, <1>2, UnlistedList
<1>4. \A n \in Nodes : Listed(n)' => Listed(n) /\ n # d
  BY <1>3 DEF Listed, Elements
<1>5. \A n \in Nodes \ {d} : Leaving(n) => Leaving(n)'
  BY DEF Unlist, NextNode, Leaving, Current
<1>6. /\ UNCHANGED <<priority, hc, toScan, checking, newHealthy, kept, chosen>>
      /\ MaxPriority' = MaxPriority
      /\ hc \notin Locked /\ hc # "boot"
  BY DEF Unlist, MuFree, nodeVars, checkVars, MaxPriority, RoundInv, Booting
<1>7. (Booting /\ RoundShape /\ EachOnce /\ NoRival /\ OneStandIn /\ Restored)'
  BY <1>6 DEF RoundInv, Booting, RoundShape, EachOnce, NoRival, OneStandIn,
              Restored, Elements, Primaries, IsPrimary, Locked
<1>8. (ToPublishIsLeaving)' /\ KeptWasListed'
  <2>1. kept = <<>> /\ kept' = <<>>
    BY <1>6 DEF RoundInv, RoundShape, Locked
  <2>2. Elements(kept') = {} /\ Len(kept') <= 1
    BY <2>1 DEF Elements
  <2>3. QED
    BY <1>6, <2>2 DEF ToPublishIsLeaving, KeptWasListed, Locked, Elements
<1>9. OriginalIsLeaving'
  BY <1>4, <1>5, <1>6 DEF RoundInv, OriginalIsLeaving, InRound, Elements
<1>10. DemotedIsLeaving'
  BY <1>4, <1>5, <1>6 DEF RoundInv, DemotedIsLeaving
<1>11. TwiceListedIsLeaving'
  <2> SUFFICES ASSUME NEW i \in DOMAIN healthyNodes', NEW j \in DOMAIN healthyNodes',
                      i # j, healthyNodes'[i] = healthyNodes'[j]
               PROVE  \E g \in Handlers : /\ pc'[g] = "unlist"
                                         /\ Head(todo'[g]) = healthyNodes'[i]
    BY DEF TwiceListedIsLeaving, Leaving, Current
  <2>1. f[i] # f[j] /\ healthyNodes[f[i]] = healthyNodes[f[j]]
    BY <1>3
  <2>2. Leaving(healthyNodes[f[i]])
    BY <1>3, <2>1 DEF RoundInv, TwiceListedIsLeaving
  <2>3. healthyNodes'[i] = healthyNodes[f[i]] /\ healthyNodes'[i] \in Nodes \ {d}
    BY <1>3
  <2>4. \A n \in Nodes \ {d} : Leaving(n) => \E g \in Handlers : pc'[g] = "unlist" /\ Head(todo'[g]) = n
    BY <1>5 DEF Leaving, Current
  <2>5. QED
    BY <2>2, <2>3, <2>4
<1>12. QED
  BY <1>7, <1>8, <1>9, <1>10, <1>11 DEF RoundInv

LEMMA HandlerStep ==
    ASSUME TypeOK, RoundInv, NEW h \in Handlers, Receive(h) \/ Advance(h)
    PROVE  RoundInv'
<1>1. CASE Demote(h)
  BY <1>1, DemoteStep
<1>2. CASE Unlist(h)
  BY <1>2, UnlistStep
<1>3. CASE \/ Receive(h) \/ Succeed(h) \/ Abandon(h) \/ ClientError(h)
           \/ Fail(h) \/ ClearSuccesses(h) \/ LoadErrors(h)
           \/ CheckPrimary(h) \/ Exhausted(h)
  <2>1. /\ UNCHANGED <<healthyNodes, priority, checkVars>>
        /\ pc[h] # "unlist"
        /\ \A g \in Handlers \ {h} : pc'[g] = pc[g] /\ todo'[g] = todo[g]
    BY <1>3 DEF TypeOK, Receive, Succeed, Abandon, ClientError, Fail,
         ClearSuccesses, LoadErrors, CheckPrimary, Exhausted, Trying, Goto,
         Reply, NextNode, nodeVars
  <2>2. hc # "boot"
    BY <1>3 DEF RoundInv, Booting, Receive, Serving, Succeed, Abandon,
         ClientError, Fail, ClearSuccesses, LoadErrors, CheckPrimary,
         Exhausted, Trying
  <2>3. QED
    BY <2>1, <2>2, QuietStep
<1>4. QED
  BY <1>1, <1>2, <1>3 DEF Advance

-----------------------------------------------------------------------------
(* The inductive invariant, steps of the health check *)

\* What every step of a round keeps: no handler moves.
LEMMA RoundKeepsLeaving ==
    ASSUME UNCHANGED handlerVars
    PROVE  \A n \in Nodes : Leaving(n) <=> Leaving(n)'
  BY DEF handlerVars, Leaving, Current

\* Steps before the lock is taken change neither the list nor a priority.
LEMMA CollectStep ==
    ASSUME TypeOK, RoundInv,
           \/ Tick \/ Launch \/ Credit \/ Lock
           \/ \E n \in Nodes : Scan(n) \/ Healthy(n) \/ Unhealthy(n)
    PROVE  RoundInv'
<1>1. /\ UNCHANGED <<healthyNodes, priority, handlerVars, kept>>
      /\ hc \in {"idle", "scan", "collect", "credit"}
      /\ hc' \in {"idle", "scan", "collect", "credit", "failback", "restore"}
  BY DEF Tick, Launch, Credit, Lock, Scan, Healthy, Unhealthy, nodeVars
<1>2. /\ MaxPriority' = MaxPriority /\ MaxPriority # 0
      /\ \A n \in Nodes : Leaving(n) <=> Leaving(n)'
  BY <1>1, RoundKeepsLeaving, MaxPriorityType DEF MaxPriority
<1>3. (Booting /\ Restored /\ ToPublishIsLeaving /\ NoRival)'
  BY <1>1 DEF Booting, Restored, ToPublishIsLeaving, NoRival
<1>4. (DemotedIsLeaving /\ TwiceListedIsLeaving /\ OneStandIn)'
  BY <1>1, <1>2 DEF RoundInv, DemotedIsLeaving, TwiceListedIsLeaving,
     OneStandIn, Listed, Elements, Primaries, IsPrimary, TypeOK
<1>5. RoundShape' /\ KeptWasListed'
  <2>1. kept = <<>> /\ kept' = <<>>
    BY <1>1 DEF RoundInv, RoundShape
  <2>2. RoundShape'
    BY <1>1, <2>1 DEF RoundInv, RoundShape, Tick, Launch, Credit, Lock, Scan,
       Healthy, Unhealthy, nodeVars, Locked
  <2>3. QED
    BY <2>1, <2>2 DEF KeptWasListed, Elements
<1>6. EachOnce' /\ OriginalIsLeaving'
  <2>1. CASE Tick \/ Launch \/ Lock \/ \E n \in Nodes : Unhealthy(n)
    BY <1>1, <1>2, <2>1 DEF RoundInv, EachOnce, OriginalIsLeaving, InRound,
       Tick, Launch, Lock, Unhealthy, Elements, Listed
  <2>2. ASSUME NEW n \in Nodes, Scan(n)
        PROVE  EachOnce' /\ OriginalIsLeaving'
    <3>1. newHealthy = <<>> /\ newHealthy' = <<>>
          /\ hc = "scan" /\ hc' = "scan"
          /\ checking' \subseteq checking \cup {n}
          /\ (n \in checking' /\ n \notin checking => IsBackup(n))
      BY <2>2 DEF Scan, RoundInv, RoundShape, Locked
    <3>2. Elements(newHealthy) = {} /\ Elements(newHealthy)' = {}
      BY <3>1 DEF Elements
    <3>3. EachOnce'
      BY <3>1, <3>2 DEF EachOnce
    <3>4. ASSUME 0 \in Nodes, IsBackup(0), Listed(0)
          PROVE  Leaving(0)
      <4>1. priority[0] \in {0, MaxPriority} /\ priority[0] > 0
        BY <3>4 DEF TypeOK, IsBackup
      <4>2. priority[0] = MaxPriority /\ 0 # MaxPriority
        BY <1>2, <4>1
      <4>3. QED
        BY <3>4, <4>2 DEF RoundInv, DemotedIsLeaving
    <3>5. OriginalIsLeaving'
      BY <1>1, <1>2, <3>1, <3>2, <3>4
         DEF RoundInv, OriginalIsLeaving, InRound, Listed, Elements
    <3>6. QED
      BY <3>3, <3>5
  <2>3. ASSUME NEW n \in Nodes, Healthy(n)
        PROVE  EachOnce' /\ OriginalIsLeaving'
    BY <1>1, <1>2, <2>3 DEF RoundInv, EachOnce, OriginalIsLeaving, InRound,
       Healthy, Elements, Listed
  <2>4. CASE Credit
    <3>1. /\ newHealthy' = Append(newHealthy, chosen) /\ checking' = checking
          /\ hc = "credit" /\ hc' = "collect"
          /\ newHealthy \in Seq(Nodes) /\ chosen \in Nodes
      BY <2>4 DEF Credit, TypeOK
    <3>2. Elements(newHealthy)' = Elements(newHealthy) \cup {chosen}
      BY <3>1, ElementsAppend DEF Elements
    <3>3. chosen \notin checking \cup Elements(newHealthy)
      BY <3>1 DEF RoundInv, EachOnce
    <3>4. \A i, j \in DOMAIN newHealthy' :
              newHealthy'[i] = newHealthy'[j] => i = j
      BY <3>1, <3>3 DEF RoundInv, EachOnce, Elements
    <3>5. QED
      BY <1>1, <1>2, <3>1, <3>2, <3>3, <3>4
         DEF RoundInv, EachOnce, OriginalIsLeaving, InRound, Listed, Elements
  <2>5. QED
    BY <2>1, <2>2, <2>3, <2>4
<1>7. QED
  BY <1>3, <1>4, <1>5, <1>6 DEF RoundInv

\* Inside the critical section, up to the publication, the list, the round's
\* results and the handlers stand still: what each step can disturb are the
\* parts of the invariant about priorities and about kept.
LEMMA LockedFrame ==
    ASSUME TypeOK, RoundInv, hc \in Locked, hc' \in Locked,
           UNCHANGED <<healthyNodes, handlerVars, toScan, checking, newHealthy>>
    PROVE  /\ Booting' /\ EachOnce' /\ OriginalIsLeaving'
           /\ TwiceListedIsLeaving'
           /\ \A n \in Nodes : Leaving(n) <=> Leaving(n)'
           /\ (hc' = "publish" \/ kept' = <<>>) => RoundShape'
           /\ MaxPriority' = MaxPriority /\ MaxPriority # 0
<1>1. \A n \in Nodes : Leaving(n) <=> Leaving(n)'
  BY RoundKeepsLeaving
<1>2. MaxPriority' = MaxPriority /\ MaxPriority # 0
  BY MaxPriorityType DEF MaxPriority
<1>3. Booting' /\ ((hc' = "publish" \/ kept' = <<>>) => RoundShape')
  BY DEF RoundInv, Booting, RoundShape, Locked
<1>4. EachOnce'
  BY DEF RoundInv, EachOnce, Elements, Locked
<1>5. OriginalIsLeaving'
  BY <1>1 DEF RoundInv, OriginalIsLeaving, InRound, Listed, Elements, Locked
<1>6. TwiceListedIsLeaving'
  BY <1>1 DEF RoundInv, TwiceListedIsLeaving, TypeOK
<1>7. QED
  BY <1>1, <1>2, <1>3, <1>4, <1>5, <1>6

\* The failback: the original primary is reinstated, the stand-in relegated.
LEMMA FailbackStep ==
    ASSUME TypeOK, RoundInv, FindPrimary \/ Reinstate \/ Pardon \/ Relegate
    PROVE  RoundInv'
<1>1. /\ UNCHANGED <<healthyNodes, handlerVars, toScan, checking, newHealthy, kept>>
      /\ hc \in {"failback", "reinstate", "pardon", "relegate"}
      /\ hc' \in {"reinstate", "pardon", "relegate", "restore"}
  BY DEF FindPrimary, Reinstate, Pardon, Relegate, nodeVars
<1>2. /\ Booting' /\ EachOnce' /\ OriginalIsLeaving' /\ TwiceListedIsLeaving'
      /\ \A n \in Nodes : Leaving(n) <=> Leaving(n)'
      /\ kept' = <<>> /\ RoundShape'
      /\ MaxPriority' = MaxPriority /\ MaxPriority # 0
  BY <1>1, LockedFrame DEF Locked, RoundInv, RoundShape
<1>3. (Restored /\ ToPublishIsLeaving /\ NoRival /\ KeptWasListed)'
  BY <1>1, <1>2 DEF Restored, ToPublishIsLeaving, NoRival, KeptWasListed, Elements
<1>4. \A n \in Nodes : priority'[n] \in {0, n, priority[n]}
      /\ (n # 0 /\ priority'[n] = 0 => priority[n] = 0)
  BY DEF FindPrimary, Reinstate, Pardon, Relegate, nodeVars, TypeOK
<1>5. DemotedIsLeaving'
  BY <1>1, <1>2, <1>4 DEF RoundInv, DemotedIsLeaving, Listed, Elements
<1>6. OneStandIn'
  BY <1>4 DEF RoundInv, OneStandIn, Primaries, IsPrimary
<1>7. QED
  BY <1>2, <1>3, <1>5, <1>6 DEF RoundInv

LEMMA RestoreStep ==
    ASSUME TypeOK, RoundInv, Restore
    PROVE  RoundInv'
<1>1. /\ UNCHANGED <<healthyNodes, handlerVars, toScan, checking, newHealthy, kept>>
      /\ hc = "restore" /\ hc' = "elect"
  BY DEF Restore
<1>2. /\ Booting' /\ EachOnce' /\ OriginalIsLeaving' /\ TwiceListedIsLeaving'
      /\ \A n \in Nodes : Leaving(n) <=> Leaving(n)'
      /\ kept' = <<>> /\ RoundShape'
      /\ MaxPriority' = MaxPriority /\ MaxPriority # 0
  BY <1>1, LockedFrame DEF Locked, RoundInv, RoundShape
<1>3. \A n \in Nodes :
          priority'[n] = IF n \in Elements(newHealthy) THEN n ELSE priority[n]
  BY DEF Restore
<1>4. Elements(newHealthy)' = Elements(newHealthy) /\ Elements(newHealthy) \subseteq Nodes
      /\ Elements(kept)' = {}
  BY <1>1, <1>2 DEF Elements, TypeOK
<1>5. (Restored /\ ToPublishIsLeaving /\ NoRival /\ KeptWasListed)'
  BY <1>1, <1>2, <1>3, <1>4
     DEF Restored, ToPublishIsLeaving, NoRival, KeptWasListed
<1>6. DemotedIsLeaving'
  BY <1>1, <1>2, <1>3 DEF RoundInv, DemotedIsLeaving, Listed, Elements
<1>7. OneStandIn'
  BY <1>3 DEF RoundInv, OneStandIn, Primaries, IsPrimary
<1>8. QED
  BY <1>2, <1>5, <1>6, <1>7 DEF RoundInv

LEMMA ElectStep ==
    ASSUME TypeOK, RoundInv, Elect
    PROVE  RoundInv'
<1>1. /\ UNCHANGED <<healthyNodes, priority, handlerVars, toScan, checking, newHealthy>>
      /\ hc = "elect" /\ hc' \in {"publish", "promote"}
  BY DEF Elect, nodeVars
<1>2. /\ kept = <<>>
      /\ \/ kept' = <<>>
         \/ hc' = "publish" /\ \E p \in Primaries : Listed(p) /\ kept' = <<p>>
      /\ hc' = "promote" => Primaries = {}
  BY <1>1 DEF Elect, RoundInv, RoundShape
<1>3. /\ Booting' /\ EachOnce' /\ OriginalIsLeaving' /\ TwiceListedIsLeaving'
      /\ \A n \in Nodes : Leaving(n) <=> Leaving(n)'
      /\ RoundShape'
      /\ MaxPriority' = MaxPriority /\ MaxPriority # 0
  BY <1>1, <1>2, LockedFrame DEF Locked
<1>4. Elements(newHealthy)' = Elements(newHealthy) /\ Elements(newHealthy) \subseteq Nodes
  BY <1>1 DEF Elements, TypeOK
<1>5. /\ Len(kept') <= 1
      /\ \A p \in Elements(kept)' : p \in Primaries /\ Listed(p)
  <2>1. CASE kept' = <<>>
    BY <2>1 DEF Elements
  <2>2. ASSUME NEW p \in Primaries, Listed(p), kept' = <<p>>
        PROVE  Len(kept') <= 1 /\ Elements(kept)' = {p}
    <3>1. DOMAIN kept' = {1} /\ kept'[1] = p /\ Len(kept') = 1
      BY <2>2
    <3>2. QED
      BY <3>1 DEF Elements
  <2>3. QED
    BY <1>2, <2>1, <2>2
<1>6. KeptWasListed'
  <2>1. \A p \in Primaries : p \in Elements(newHealthy) => p = 0
    BY <1>1, <1>3 DEF RoundInv, Restored, Primaries, IsPrimary
  <2>2. \A p \in Elements(kept)' : Listed(p)' /\ (p \in Elements(newHealthy)' => p = 0)
    BY <1>1, <1>4, <1>5, <2>1 DEF Listed, Elements
  <2>3. QED
    BY <1>5, <2>2 DEF KeptWasListed
<1>7. ToPublishIsLeaving'
  <2>1. \A p \in Elements(kept)' : priority[p] # MaxPriority
    BY <1>3, <1>5 DEF Primaries, IsPrimary
  <2>2. \A n \in Elements(newHealthy) \ {MaxPriority} :
            priority[n] = MaxPriority => Leaving(n)
    BY <1>1 DEF RoundInv, ToPublishIsLeaving
  <2>3. QED
    BY <1>1, <1>3, <1>4, <2>1, <2>2 DEF ToPublishIsLeaving
<1>8. (Restored /\ NoRival)'
  BY <1>1, <1>2 DEF Restored, NoRival, Primaries, IsPrimary
<1>9. (DemotedIsLeaving /\ OneStandIn)'
  BY <1>1, <1>3 DEF RoundInv, DemotedIsLeaving, OneStandIn, Listed, Elements,
     Primaries, IsPrimary
<1>10. QED
  BY <1>3, <1>6, <1>7, <1>8, <1>9 DEF RoundInv

\* The promotion: there is no other primary at this moment.
LEMMA PromoteStep ==
    ASSUME TypeOK, RoundInv, Promote \/ Absolve
    PROVE  RoundInv'
<1>1. /\ UNCHANGED <<healthyNodes, handlerVars, toScan, checking, newHealthy, kept>>
      /\ hc \in {"promote", "absolve"} /\ hc' \in {"absolve", "publish"}
      /\ hc = "promote" <=> hc' = "absolve"
  BY DEF Promote, Absolve
<1>2. kept = <<>> /\ kept' = <<>>
  BY <1>1 DEF RoundInv, RoundShape
<1>3. /\ Booting' /\ EachOnce' /\ OriginalIsLeaving' /\ TwiceListedIsLeaving'
      /\ \A n \in Nodes : Leaving(n) <=> Leaving(n)'
      /\ RoundShape'
      /\ MaxPriority' = MaxPriority /\ MaxPriority # 0
  BY <1>1, <1>2, LockedFrame DEF Locked
<1>4. PICK c \in Nodes : c = chosen
  BY <1>1 DEF TypeOK
<1>5. /\ \A n \in Nodes : priority'[n] = priority[n] \/ priority'[n] = 0
      /\ \A n \in Nodes \ {c} : priority'[n] = priority[n]
      /\ hc # "promote" => priority' = priority
  BY <1>1, <1>4 DEF Promote, Absolve, TypeOK
<1>6. Elements(newHealthy)' = Elements(newHealthy) /\ Elements(newHealthy) \subseteq Nodes
      /\ Elements(kept)' = {}
  BY <1>1, <1>2 DEF Elements, TypeOK
<1>7. (Restored /\ NoRival /\ KeptWasListed)'
  BY <1>1, <1>2, <1>6 DEF Restored, NoRival, KeptWasListed
<1>8. ToPublishIsLeaving'
  BY <1>1, <1>3, <1>5, <1>6 DEF RoundInv, ToPublishIsLeaving
<1>9. DemotedIsLeaving'
  BY <1>1, <1>3, <1>5 DEF RoundInv, DemotedIsLeaving, Listed, Elements
<1>10. OneStandIn'
  <2>1. CASE hc = "promote"
    <3>1. \A n \in Nodes : priority[n] # 0
      BY <2>1 DEF RoundInv, NoRival, Primaries, IsPrimary
    <3>2. QED
      BY <1>5, <3>1 DEF OneStandIn, Primaries, IsPrimary
  <2>2. CASE hc # "promote"
    BY <1>5, <2>2 DEF RoundInv, OneStandIn, Primaries, IsPrimary
  <2>3. QED
    BY <2>1, <2>2
<1>11. QED
  BY <1>3, <1>7, <1>8, <1>9, <1>10 DEF RoundInv

\* The publication: what was true of the list being built becomes true of
\* the list.
LEMMA PublishStep ==
    ASSUME TypeOK, RoundInv, Publish
    PROVE  RoundInv'
<1>1. /\ UNCHANGED <<priority, handlerVars, checking>>
      /\ hc = "publish" /\ hc' = "idle"
      /\ newHealthy' = <<>> /\ kept' = <<>>
      /\ healthyNodes' = kept \o newHealthy
  BY DEF Publish, nodeVars
<1>2. /\ MaxPriority' = MaxPriority /\ MaxPriority # 0
      /\ \A n \in Nodes : Leaving(n) <=> Leaving(n)'
  BY <1>1, RoundKeepsLeaving, MaxPriorityType DEF MaxPriority
<1>3. newHealthy \in Seq(Nodes) /\ kept \in Seq(Nodes) /\ Len(kept) <= 1
      /\ checking = {}
  BY <1>1 DEF TypeOK, RoundInv, KeptWasListed, RoundShape
<1>4. Elements(newHealthy)' = {} /\ Elements(kept)' = {}
  BY <1>1 DEF Elements
<1>5. (Booting /\ RoundShape /\ EachOnce /\ OriginalIsLeaving /\ Restored
       /\ ToPublishIsLeaving /\ KeptWasListed /\ NoRival)'
  BY <1>1, <1>3, <1>4 DEF Booting, RoundShape, EachOnce, OriginalIsLeaving,
     InRound, Restored, ToPublishIsLeaving, KeptWasListed, NoRival, Locked
<1>6. OneStandIn'
  BY <1>1 DEF RoundInv, OneStandIn, Primaries, IsPrimary
<1>7. \A i \in DOMAIN healthyNodes' :
          \/ i \in DOMAIN kept /\ healthyNodes'[i] = kept[i]
          \/ /\ i - Len(kept) \in DOMAIN newHealthy
             /\ healthyNodes'[i] = newHealthy[i - Len(kept)]
  BY <1>1, <1>3, ElementsConcat
<1>8. DemotedIsLeaving'
  <2>1. \A n \in Nodes : Listed(n)' => n \in Elements(kept) \cup Elements(newHealthy)
    BY <1>7 DEF Listed, Elements
  <2>2. QED
    BY <1>1, <1>2, <2>1 DEF RoundInv, ToPublishIsLeaving, DemotedIsLeaving
<1>9. TwiceListedIsLeaving'
  <2> SUFFICES ASSUME NEW i \in DOMAIN healthyNodes', NEW j \in DOMAIN healthyNodes',
                      i # j, healthyNodes'[i] = healthyNodes'[j]
               PROVE  \E g \in Handlers : /\ pc'[g] = "unlist"
                                         /\ Head(todo'[g]) = healthyNodes'[i]
    BY DEF TwiceListedIsLeaving, Leaving, Current
  <2>1. DOMAIN kept \subseteq {1} /\ DOMAIN newHealthy \subseteq Nat
        /\ i \in Nat /\ j \in Nat /\ Len(kept) \in Nat
    BY <1>1, <1>3
  <2>2. PICK n \in Nodes : n = healthyNodes'[i]
    BY <1>3, <1>7
  <2>3. n \in Elements(kept) /\ n \in Elements(newHealthy)
    <3>1. CASE i \in DOMAIN kept /\ j \in DOMAIN kept
      BY <2>1, <3>1
    <3>2. CASE /\ i - Len(kept) \in DOMAIN newHealthy
               /\ healthyNodes'[i] = newHealthy[i - Len(kept)]
               /\ j - Len(kept) \in DOMAIN newHealthy
               /\ healthyNodes'[j] = newHealthy[j - Len(kept)]
      <4>1. i - Len(kept) = j - Len(kept)
        BY <3>2 DEF RoundInv, EachOnce
      <4>2. QED
        BY <2>1, <4>1
    <3>3. QED
      BY <1>7, <2>2, <3>1, <3>2 DEF Elements
  <2>4. n = 0 /\ Listed(0)
    BY <2>3 DEF RoundInv, KeptWasListed
  <2>5. Leaving(0)
    BY <2>2, <2>3, <2>4 DEF RoundInv, OriginalIsLeaving, InRound
  <2>6. QED
    BY <1>1, <2>2, <2>4, <2>5 DEF Leaving, Current, handlerVars
<1>10. QED
  BY <1>5, <1>6, <1>8, <1>9 DEF RoundInv

-----------------------------------------------------------------------------
(* The theorems *)

LEMMA StartupStep ==
    ASSUME TypeOK, RoundInv, NEW S \in SUBSET Nodes, Startup(S)
    PROVE  RoundInv'
<1>1. /\ UNCHANGED <<priority, handlerVars, checking, newHealthy, kept>>
      /\ hc = "boot" /\ hc' \in {"idle", "exited"}
      /\ priority = [n \in Nodes |-> n]
      /\ checking = {} /\ newHealthy = <<>> /\ kept = <<>>
  BY DEF Startup, RoundInv, Booting, RoundShape, nodeVars, Locked
<1>2. Elements(newHealthy)' = {} /\ Elements(kept)' = {} /\ MaxPriority' = MaxPriority
  BY <1>1 DEF Elements, MaxPriority
<1>3. (Booting /\ RoundShape /\ EachOnce /\ OriginalIsLeaving /\ Restored
       /\ ToPublishIsLeaving /\ KeptWasListed /\ NoRival)'
  BY <1>1, <1>2 DEF Booting, RoundShape, EachOnce, OriginalIsLeaving,
     InRound, Restored, ToPublishIsLeaving, KeptWasListed, NoRival
<1>4. (DemotedIsLeaving /\ OneStandIn)'
  BY <1>1, <1>2 DEF DemotedIsLeaving, RoundInv, OneStandIn, Primaries, IsPrimary
<1>5. TwiceListedIsLeaving'
  <2>1. CASE S = {}
    BY <1>1, <2>1 DEF Startup, RoundInv, TwiceListedIsLeaving, Leaving, Current,
       handlerVars
  <2>2. CASE S # {}
    <3>1. IsFiniteSet(S) /\ S \subseteq Nat /\ healthyNodes' \in InOrder(S)
      BY <2>2, NodesAssumption, FS_Subset DEF Startup
    <3>2. QED
      BY <3>1, InOrderType DEF TwiceListedIsLeaving
  <2>3. QED
    BY <2>1, <2>2
<1>6. QED
  BY <1>3, <1>4, <1>5 DEF RoundInv

LEMMA InitRound == Init => RoundInv
<1> SUFFICES ASSUME Init
             PROVE  RoundInv
  OBVIOUS
<1>1. Elements(<<>>) = {}
  BY DEF Elements
<1>2. QED
  BY <1>1 DEF Init, RoundInv, Booting, RoundShape, EachOnce, OriginalIsLeaving,
     InRound, Restored, ToPublishIsLeaving, KeptWasListed, NoRival, Listed,
     DemotedIsLeaving, TwiceListedIsLeaving, OneStandIn, Primaries, IsPrimary

\* RoundInv is inductive: it holds after every interleaving of the handlers
\* with a round of health checks.
THEOREM RoundCorrect == Spec => []RoundInv
<1>1. Init => RoundInv
  BY InitRound
<1>2. TypeOK /\ RoundInv /\ [Next]_vars => RoundInv'
  <2> SUFFICES ASSUME TypeOK, RoundInv, [Next]_vars
               PROVE  RoundInv'
    OBVIOUS
  <2>1. CASE UNCHANGED vars
    BY <2>1 DEF vars, nodeVars, handlerVars, checkVars, RoundInv, Booting,
       RoundShape, EachOnce, OriginalIsLeaving, InRound, Restored,
       ToPublishIsLeaving, KeptWasListed, NoRival, Listed, DemotedIsLeaving,
       TwiceListedIsLeaving, OneStandIn, Primaries, IsPrimary, Elements,
       Leaving, Current, MaxPriority
  <2>2. CASE CheckRound
    BY <2>2, CollectStep, FailbackStep, RestoreStep, ElectStep, PromoteStep,
       PublishStep DEF CheckRound
  <2>3. CASE Next
    BY <2>1, <2>2, <2>3, StartupStep, HandlerStep DEF Next, Exited
  <2>4. QED
    BY <2>1, <2>3
<1>3. QED
  BY <1>1, <1>2, TypeCorrect, PTL DEF Spec

\* No demoted node stays in rotation: whoever is listed with a demoted node's
\* priority is about to be removed by the handler that demoted it.
THEOREM DemotedNodesLeave == Spec => []DemotedIsLeaving
<1>1. RoundInv => DemotedIsLeaving
  BY DEF RoundInv
<1>2. QED
  BY <1>1, RoundCorrect, PTL

\* A list never offers a node twice for longer than a pending removal lasts.
THEOREM NoLastingDuplicate == Spec => []TwiceListedIsLeaving
<1>1. RoundInv => TwiceListedIsLeaving
  BY DEF RoundInv
<1>2. QED
  BY <1>1, RoundCorrect, PTL

\* Besides the original primary at most one node has priority 0.
THEOREM AtMostOneStandIn == Spec => []OneStandIn
<1>1. RoundInv => OneStandIn
  BY DEF RoundInv
<1>2. QED
  BY <1>1, RoundCorrect, PTL

-----------------------------------------------------------------------------
(* Why nobody is held up: the requests *)

\* Where a busy handler goes from the current node, and what is left then.
LEMMA HandlerMoves ==
    ASSUME TypeOK, NEW h \in Handlers, Advance(h)
    PROVE  \/ pc'[h] = "idle"
           \/ /\ pc'[h] = "attempt" /\ todo'[h] = Tail(todo[h]) /\ todo[h] # <<>>
              /\ pc[h] # "idle"
           \/ /\ todo'[h] = todo[h]
              /\ \/ pc[h] = "attempt" /\ pc'[h] = "clear"
                 \/ h \in HttpRequests /\ \/ pc[h] = "clear" /\ pc'[h] = "load"
                                          \/ pc[h] = "load" /\ pc'[h] = "judge"
                                          \/ pc[h] = "judge" /\ pc'[h] = "demote"
                 \/ h \notin HttpRequests /\ \/ pc[h] = "clear" /\ pc'[h] = "judge"
                                             \/ pc[h] = "judge" /\ pc'[h] = "load"
                                             \/ pc[h] = "load" /\ pc'[h] = "demote"
                 \/ pc[h] = "demote" /\ pc'[h] = "unlist"
<1>1. h \in DOMAIN pc /\ h \in DOMAIN todo
  BY DEF TypeOK
<1>2. CASE Succeed(h) \/ Abandon(h) \/ Exhausted(h)
  BY <1>1, <1>2 DEF Succeed, Abandon, Exhausted, Reply
<1>3. CASE ClientError(h) \/ Unlist(h)
  BY <1>1, <1>3, CurrentType DEF ClientError, Unlist, NextNode, Trying
<1>4. CASE Fail(h) \/ ClearSuccesses(h) \/ Demote(h)
  BY <1>1, <1>4 DEF Fail, ClearSuccesses, Demote, Goto, Trying
<1>5. CASE LoadErrors(h) \/ CheckPrimary(h)
  BY <1>1, <1>5, CurrentType DEF LoadErrors, CheckPrimary, Goto, NextNode
<1>6. QED
  BY <1>2, <1>3, <1>4, <1>5 DEF Advance

\* A handler's steps are its own.
LEMMA HandlerAlone ==
    ASSUME TypeOK, NEW g \in Handlers, Receive(g) \/ Advance(g),
           NEW h \in Handlers, h # g
    PROVE  pc'[h] = pc[h] /\ todo'[h] = todo[h]
<1>1. /\ pc' = pc \/ \E x : pc' = [pc EXCEPT ![g] = x]
      /\ todo' = todo \/ \E x : todo' = [todo EXCEPT ![g] = x]
  BY DEF Receive, Advance, Succeed, Abandon, ClientError, Fail, ClearSuccesses,
     LoadErrors, CheckPrimary, Demote, Unlist, Exhausted, Goto, NextNode, Reply
<1>2. QED
  BY <1>1 DEF TypeOK

LEMMA TakenType ==
    ASSUME NEW h \in Handlers
    PROVE  Taken(h) \in 0..5
  BY DEF Taken

LEMMA StepsCount ==
    ASSUME TypeOK, NEW h \in Handlers, Advance(h), pc'[h] # "idle"
    PROVE  StepsLeft(h)' < StepsLeft(h)
<1>1. Len(todo[h]) \in Nat
  BY DEF TypeOK
<1>2. CASE pc'[h] = "attempt" /\ todo'[h] = Tail(todo[h]) /\ todo[h] # <<>>
  <2>1. Len(todo'[h]) = Len(todo[h]) - 1
    BY <1>2 DEF TypeOK
  <2>2. PICK n \in Nat : n = Len(todo[h])
    BY <1>1
  <2>3. Taken(h)' = 0
    BY <1>2 DEF Taken
  <2>4. PICK k \in 0..5 : k = Taken(h)
    BY TakenType
  <2>5. QED
    BY <2>1, <2>2, <2>3, <2>4 DEF StepsLeft
<1>3. CASE /\ todo'[h] = todo[h]
           /\ ~(pc'[h] = "attempt" /\ todo'[h] = Tail(todo[h]) /\ todo[h] # <<>>)
  <2>1. PICK n \in Nat : n = Len(todo[h]) /\ n = Len(todo'[h])
    BY <1>1, <1>3
  <2>2. PICK k \in 0..4 : Taken(h) = k /\ Taken(h)' = k + 1
    BY <1>3, HandlerMoves DEF Taken
  <2>3. StepsLeft(h) = 6 * n + 1 - k /\ StepsLeft(h)' = 6 * n + 1 - (k + 1)
    BY <2>1, <2>2 DEF StepsLeft
  <2>4. QED
    BY <2>3
<1>4. QED
  BY <1>2, <1>3, HandlerMoves

\* However a request interleaves with the others and with the health check,
\* it is answered after a number of its own steps that it fixes on arrival.
THEOREM RequestsRunOut == Spec => RequestsAreFinite
<1>1. TypeOK /\ [Next]_vars =>
         [\A h \in Handlers :
             pc[h] # "idle" => \/ pc'[h] = pc[h] /\ todo'[h] = todo[h]
                               \/ pc'[h] = "idle"
                               \/ StepsLeft(h)' < StepsLeft(h)]_vars
  <2> SUFFICES ASSUME TypeOK, Next, NEW h \in Handlers, pc[h] # "idle",
                      ~(pc'[h] = pc[h] /\ todo'[h] = todo[h]), pc'[h] # "idle"
               PROVE  StepsLeft(h)' < StepsLeft(h)
    OBVIOUS
  <2>1. ~UNCHANGED handlerVars
    BY DEF handlerVars
  <2>2. PICK g \in Handlers : Receive(g) \/ Advance(g)
    BY <2>1 DEF Next, Startup, CheckRound, Exited, vars, Tick, Launch, Credit,
       Lock, FindPrimary, Reinstate, Pardon, Relegate, Restore, Elect, Promote,
       Absolve, Publish, Scan, Healthy, Unhealthy
  <2>3. g = h /\ Advance(h)
    BY <2>2, HandlerAlone DEF Receive
  <2>4. QED
    BY <2>3, StepsCount
<1>2. QED
  BY <1>1, TypeCorrect, PTL DEF Spec, RequestsAreFinite

\* For a plain request that number is at most 6 * MaxRetries + 1.
THEOREM RequestsStayShort == Spec => []RequestsAreShort
<1>1. TypeOK => RequestsAreShort
  <2> SUFFICES ASSUME TypeOK, NEW h \in HttpRequests
               PROVE  StepsLeft(h) <= 6 * MaxRetries + 1
    BY DEF RequestsAreShort
  <2>1. h \in Handlers /\ Len(todo[h]) \in Nat /\ Len(todo[h]) <= MaxRetries
    BY DEF TypeOK, Handlers
  <2>2. PICK n \in Nat : n = Len(todo[h])
    BY <2>1
  <2>3. PICK k \in 0..5 : k = Taken(h)
    BY <2>1, TakenType
  <2>4. QED
    BY <2>1, <2>2, <2>3, LimitsAssumption DEF StepsLeft
<1>2. QED
  BY <1>1, TypeCorrect, PTL

-----------------------------------------------------------------------------
(* The loop of a plain request *)

LEMMA LoopStep ==
    ASSUME TypeOK, Next, NEW h \in HttpRequests
    PROVE  RequestOf(h)!Next \/ UNCHANGED RequestOf(h)!request
<1> USE DEF RequestOf!Next, RequestOf!request
<1>0. h \in Handlers
  BY DEF Handlers
<1>1. CASE UNCHANGED <<pc[h], todo[h]>>
  BY <1>1
<1>2. CASE Receive(h)
  <2>1. Snapshot(h) \in Seq(Nodes) /\ Len(Snapshot(h)) <= MaxRetries
    BY LimitsAssumption DEF TypeOK, Snapshot
  <2>2. pc[h] = "idle" /\ pc'[h] = "attempt" /\ todo'[h] = Snapshot(h)
    BY <1>0, <1>2 DEF Receive, TypeOK
  <2>3. RequestOf(h)!Begin
    BY <2>1, <2>2 DEF RequestOf!Begin
  <2>4. QED
    BY <2>3
<1>3. CASE Advance(h)
  <2>1. CASE pc'[h] = "idle"
    <3>1. /\ pc[h] = "attempt" /\ pc'[h] = "idle" /\ todo'[h] = <<>>
      BY <1>0, <1>3, <2>1 DEF Advance, Succeed, Abandon, ClientError, Fail,
         ClearSuccesses, LoadErrors, CheckPrimary, Demote, Unlist, Exhausted,
         Goto, NextNode, Reply, Trying, TypeOK
    <3>2. RequestOf(h)!End
      BY <3>1 DEF RequestOf!End
    <3>3. QED
      BY <3>2
  <2>2. CASE /\ pc'[h] = "attempt" /\ todo'[h] = Tail(todo[h]) /\ todo[h] # <<>>
             /\ pc[h] # "idle"
    BY <2>2 DEF RequestOf!PassOver
  <2>3. CASE /\ todo'[h] = todo[h] /\ pc'[h] \notin {"idle", "attempt"}
             /\ pc[h] # "idle"
    <3>1. CASE pc[h] = "attempt"
      <4>1. todo[h] # <<>>
        BY <1>0, <1>3, <2>3, <3>1 DEF Advance, Succeed, Abandon, ClientError, Fail,
           ClearSuccesses, LoadErrors, CheckPrimary, Demote, Unlist, Exhausted,
           Goto, NextNode, Reply, Trying, TypeOK
      <4>2. QED
        BY <2>3, <3>1, <4>1 DEF RequestOf!Blame
    <3>2. CASE pc[h] # "attempt"
      BY <2>3, <3>2
    <3>3. QED
      BY <3>1, <3>2
  <2>4. QED
    BY <1>0, <1>3, <2>1, <2>2, <2>3, HandlerMoves
<1>4. QED
  <2>1. CASE UNCHANGED handlerVars
    BY <1>1, <2>1 DEF handlerVars
  <2>2. CASE \E g \in Handlers : Receive(g) \/ Advance(g)
    BY <1>0, <1>1, <1>2, <1>3, <2>2, HandlerAlone
  <2>3. QED
    BY <2>1, <2>2 DEF Next, Startup, CheckRound, Exited, vars, Tick, Launch,
       Credit, Lock, FindPrimary, Reinstate, Pardon, Relegate, Restore, Elect,
       Promote, Absolve, Publish, Scan, Healthy, Unhealthy

\* Every plain request of LoadBalancer implements Attempts, as the one that
\* HttpHandler follows does (HttpHandlerProofs): the two modules agree on how
\* a request goes through its nodes, which is where they meet.
THEOREM RequestsKeepTheirSnapshot == Spec => KeepsToItsSnapshot
<1>1. Init => \A h \in HttpRequests : RequestOf(h)!Init
  BY DEF Init, RequestOf!Init, Handlers
<1>2. TypeOK /\ [Next]_vars =>
         [\A h \in HttpRequests :
             RequestOf(h)!Next \/ UNCHANGED RequestOf(h)!request]_vars
  BY LoopStep
<1>3. QED
  BY <1>1, <1>2, TypeCorrect, PTL DEF Spec, KeepsToItsSnapshot

-----------------------------------------------------------------------------
(* Why nobody is held up: the rounds *)

LEMMA RoundSets ==
    ASSUME TypeOK
    PROVE  /\ IsFiniteSet(toScan) /\ IsFiniteSet(checking)
           /\ Cardinality(toScan) \in Nat /\ Cardinality(checking) \in Nat
           /\ \A n \in toScan : Cardinality(toScan \ {n}) = Cardinality(toScan) - 1
           /\ \A n \in checking :
                 Cardinality(checking \ {n}) = Cardinality(checking) - 1
           /\ \A n \in Nodes :
                 Cardinality(checking \cup {n}) \in Nat
                 /\ Cardinality(checking \cup {n}) <= Cardinality(checking) + 1
<1>1. IsFiniteSet(toScan) /\ IsFiniteSet(checking)
  BY NodesAssumption, FS_Subset DEF TypeOK
<1>2. Cardinality(toScan) \in Nat /\ Cardinality(checking) \in Nat
  BY <1>1, FS_CardinalityType
<1>3. ASSUME NEW n \in Nodes
      PROVE  Cardinality(checking \cup {n}) \in Nat
             /\ Cardinality(checking \cup {n}) <= Cardinality(checking) + 1
  <2>1. CASE n \in checking
    <3>1. checking \cup {n} = checking
      BY <2>1
    <3>2. Cardinality(checking \cup {n}) = Cardinality(checking)
      BY <3>1, Zenon
    <3>3. QED
      BY <1>2, <3>2
  <2>2. CASE n \notin checking
    <3>1. Cardinality(checking \cup {n}) = Cardinality(checking) + 1
      BY <1>1, <2>2, FS_AddElement
    <3>2. QED
      BY <1>2, <3>1
  <2>3. QED
    BY <2>1, <2>2
<1>4. \A n \in toScan : Cardinality(toScan \ {n}) = Cardinality(toScan) - 1
  BY <1>1, FS_RemoveElement
<1>5. \A n \in checking : Cardinality(checking \ {n}) = Cardinality(checking) - 1
  BY <1>1, FS_RemoveElement
<1>6. QED
  BY <1>1, <1>2, <1>3, <1>4, <1>5

LEMMA RoundCounts ==
    ASSUME TypeOK, CheckRound, InProgress
    PROVE  RoundStepsLeft' < RoundStepsLeft
<1> USE DEF RoundStepsLeft
<1>1. PICK s \in Nat, c \in Nat : s = Cardinality(toScan) /\ c = Cardinality(checking)
  BY RoundSets
<1>2. CASE Tick
  BY <1>2 DEF Tick, InProgress
<1>3. ASSUME NEW n \in Nodes, Scan(n)
      PROVE  RoundStepsLeft' < RoundStepsLeft
  <2>1. hc = "scan" /\ hc' = "scan" /\ n \in toScan /\ toScan' = toScan \ {n}
        /\ (checking' = checking \/ checking' = checking \cup {n})
    BY <1>3 DEF Scan, First
  <2>2. Cardinality(toScan') = s - 1
    BY <1>1, <2>1, RoundSets
  <2>3. PICK d \in Nat : d = Cardinality(checking') /\ d <= c + 1
    BY <1>1, <2>1, RoundSets
  <2>4. QED
    BY <1>1, <2>1, <2>2, <2>3
<1>4. CASE Launch
  BY <1>1, <1>4 DEF Launch
<1>5. ASSUME NEW n \in Nodes, Healthy(n) \/ Unhealthy(n)
      PROVE  RoundStepsLeft' < RoundStepsLeft
  <2>1. Cardinality(checking') = c - 1
    BY <1>1, <1>5, RoundSets DEF Healthy, Unhealthy
  <2>2. hc = "collect" /\ hc' \in {"collect", "credit"}
    BY <1>5 DEF Healthy, Unhealthy
  <2>3. QED
    BY <1>1, <2>1, <2>2
<1>6. CASE Credit
  BY <1>1, <1>6 DEF Credit
<1>7. CASE Lock
  BY <1>1, <1>7 DEF Lock
<1>8. CASE FindPrimary \/ Reinstate \/ Pardon \/ Relegate
  BY <1>8 DEF FindPrimary, Reinstate, Pardon, Relegate
<1>9. CASE Restore \/ Elect \/ Promote \/ Absolve \/ Publish
  BY <1>9 DEF Restore, Elect, Promote, Absolve, Publish
<1>10. QED
  BY <1>2, <1>3, <1>4, <1>5, <1>6, <1>7, <1>8, <1>9 DEF CheckRound

\* No round of checks goes on for ever, and none keeps lb.mu from the
\* handlers that wait for it, however many nodes there are.
THEOREM RoundsRunOut == Spec => RoundsAreFinite
<1>1. TypeOK /\ [Next]_vars =>
         [InProgress => UNCHANGED checkVars \/ RoundStepsLeft' < RoundStepsLeft]_vars
  <2> SUFFICES ASSUME TypeOK, Next, InProgress, ~UNCHANGED checkVars
               PROVE  RoundStepsLeft' < RoundStepsLeft
    OBVIOUS
  <2>1. \A h \in Handlers : ~(Receive(h) \/ Advance(h))
    BY DEF Receive, Advance, Succeed, Abandon, ClientError, Fail,
       ClearSuccesses, LoadErrors, CheckPrimary, Demote, Unlist, Exhausted
  <2>2. CheckRound
    BY <2>1 DEF Next, Startup, Exited, InProgress
  <2>3. QED
    BY <2>2, RoundCounts
<1>2. QED
  BY <1>1, TypeCorrect, PTL DEF Spec, RoundsAreFinite

-----------------------------------------------------------------------------
(* Why nobody is held up: the choices *)

LEMMA LeastExists ==
    ASSUME NEW S, S \subseteq Nat, S # {}
    PROVE  \E x \in S : \A y \in S : x <= y
<1>1. PICK x \in S : \A y \in S : <<y, x>> \notin OpToRel(<, Nat)
  BY NatLessThanWellFounded, WFMin
<1>2. ASSUME NEW y \in S
      PROVE  ~(y < x)
  BY <1>1, <1>2 DEF OpToRel
<1>3. QED
  BY <1>2

\* The scan of lb.nodes finds a node if there is one to find.
LEMMA SomeFirst ==
    ASSUME NEW S, S \subseteq Nodes, S # {}
    PROVE  \E n \in S : First(n, S)
<1>1. S \subseteq Nat
  BY NodesAssumption
<1>2. QED
  BY <1>1, LeastExists DEF First

\* Among healthy backups there is one to promote: of those with the lowest
\* rank, the one that came first.
LEMMA SomePromotable ==
    ASSUME TypeOK, newHealthy # <<>>
    PROVE  \E i \in DOMAIN newHealthy : Promotable(i)
<1> DEFINE rank(j) == IF newHealthy[j] = 0 THEN 0 ELSE priority[newHealthy[j]]
           Ranks == {rank(j) : j \in DOMAIN newHealthy}
<1>1. /\ newHealthy \in Seq(Nodes) /\ 1 \in DOMAIN newHealthy
      /\ DOMAIN newHealthy \subseteq Nat
  BY DEF TypeOK
<1>2. \A j \in DOMAIN newHealthy : rank(j) \in Nat
  <2>1. \A n \in Nodes : priority[n] \in Nat
    BY NodesAssumption, MaxPriorityType DEF TypeOK
  <2>2. QED
    BY <1>1, <2>1
<1>3. PICK r \in Ranks : \A q \in Ranks : r <= q
  <2>1. Ranks \subseteq Nat /\ Ranks # {}
    BY <1>1, <1>2
  <2>2. QED
    BY <2>1, LeastExists
<1> DEFINE Lowest == {j \in DOMAIN newHealthy : rank(j) = r}
<1>4. PICK i \in Lowest : \A j \in Lowest : i <= j
  <2>1. Lowest \subseteq Nat /\ Lowest # {}
    BY <1>1
  <2>2. QED
    BY <2>1, LeastExists
<1>5. ASSUME NEW j \in DOMAIN newHealthy
      PROVE  rank(i) < rank(j) \/ (rank(i) = rank(j) /\ i <= j)
  <2>1. rank(i) = r /\ r <= rank(j) /\ rank(j) \in Nat /\ r \in Nat
    BY <1>2, <1>3, <1>4
  <2>2. rank(j) = r => i <= j
    BY <1>4
  <2>3. QED
    BY <2>1, <2>2
<1>6. Promotable(i)
  BY <1>5 DEF Promotable
<1>7. QED
  BY <1>4, <1>6

\* A round that holds lb.mu finds the node it looks for, or has a branch for
\* none: with RoundsRunOut, no handler waits for the lock for ever.
THEOREM NobodyStaysStuck == Spec => []NobodyIsStuck
<1>1. TypeOK => NobodyIsStuck
  <2> SUFFICES ASSUME TypeOK
               PROVE  NobodyIsStuck
    OBVIOUS
  <2>1. toScan = {} \/ \E n \in Nodes : First(n, toScan)
    BY SomeFirst DEF TypeOK
  <2>2. Primaries = {} \/ \E p \in Primaries : First(p, Primaries)
    BY SomeFirst DEF Primaries
  <2>3. newHealthy = <<>> \/ \E i \in DOMAIN newHealthy : Promotable(i)
    BY SomePromotable
  <2>4. QED
    BY <2>1, <2>2, <2>3 DEF NobodyIsStuck
<1>2. QED
  BY <1>1, TypeCorrect, PTL

=============================================================================
