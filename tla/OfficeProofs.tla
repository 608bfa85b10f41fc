---------------------------- MODULE OfficeProofs ----------------------------
(***************************************************************************)
(* The proof that LoadBalancer implements Office: however demotions,       *)
(* failbacks and promotions interleave, the office of the primary changes  *)
(* hands as the abstract specification allows.                             *)
(***************************************************************************)
EXTENDS LoadBalancerProofs

\* A round that found a healthy backup leaves a primary behind, unless a
\* handler has just demoted one and waits for lb.mu to take it off the list.
RoundAppoints ==
    hc \in {"absolve", "publish"} /\ newHealthy # <<>> =>
        Primaries # {} \/ \E n \in Nodes : Leaving(n)

\* A node is the primary or a backup, not both.
LEMMA PrimaryOrBackup ==
    ASSUME TypeOK, NEW n \in Nodes
    PROVE  IsBackup(n) <=> ~IsPrimary(n)
<1>1. priority[n] \in Nat
  BY NodesAssumption, MaxPriorityType DEF TypeOK
<1>2. QED
  BY <1>1 DEF IsBackup, IsPrimary

-----------------------------------------------------------------------------
(* What each kind of step does to the primaries *)

\* A handler takes the office away from one node or leaves it alone.
LEMMA HandlersOnlyRemove ==
    ASSUME TypeOK, NEW h \in Handlers, Receive(h) \/ Advance(h)
    PROVE  /\ UNCHANGED checkVars
           /\ Primaries' = Primaries \/ \E d \in Primaries : Primaries' = Primaries \ {d}
<1>1. UNCHANGED checkVars
  BY DEF Receive, Advance, Succeed, Abandon, ClientError, Fail, ClearSuccesses,
     LoadErrors, CheckPrimary, Demote, Unlist, Exhausted
<1>2. CASE Demote(h)
  <2>1. PICK d \in Nodes : d = Current(h)
    BY <1>2, CurrentType DEF Demote
  <2>2. priority'[d] = MaxPriority /\ MaxPriority # 0
        /\ \A n \in Nodes \ {d} : priority'[n] = priority[n]
    BY <1>2, <2>1, MaxPriorityType DEF Demote, TypeOK
  <2>3. Primaries' = Primaries \ {d}
    BY <2>2 DEF Primaries, IsPrimary
  <2>4. QED
    BY <1>1, <2>3
<1>3. CASE ~Demote(h)
  <2>1. UNCHANGED priority
    BY <1>3 DEF Receive, Advance, Succeed, Abandon, ClientError, Fail,
       ClearSuccesses, LoadErrors, CheckPrimary, Unlist, Exhausted, nodeVars
  <2>2. QED
    BY <1>1, <2>1 DEF Primaries, IsPrimary
<1>4. QED
  BY <1>2, <1>3

\* The steps of a round that set no priority.
LEMMA OtherStepsKeep ==
    ASSUME \/ Tick \/ Launch \/ Credit \/ Lock \/ FindPrimary \/ Pardon
           \/ Elect \/ Absolve \/ Publish
           \/ \E n \in Nodes : Scan(n) \/ Healthy(n) \/ Unhealthy(n)
    PROVE  UNCHANGED priority /\ Primaries' = Primaries
<1>1. UNCHANGED priority
  BY DEF Tick, Launch, Credit, Lock, FindPrimary, Pardon, Elect, Absolve,
     Publish, Scan, Healthy, Unhealthy, nodeVars
<1>2. QED
  BY <1>1 DEF Primaries, IsPrimary

\* The failback: the original primary comes back first, and the stand-in,
\* which is another node, goes after.
LEMMA ReinstateReturns ==
    ASSUME TypeOK, Reinstate
    PROVE  0 \in Nodes /\ Primaries' = Primaries \cup {0}
<1>1. 0 \in Nodes /\ priority' = [priority EXCEPT ![0] = 0]
  BY DEF Reinstate, TypeOK
<1>2. priority'[0] = 0 /\ \A n \in Nodes \ {0} : priority'[n] = priority[n]
  BY <1>1 DEF TypeOK
<1>3. QED
  BY <1>1, <1>2 DEF Primaries, IsPrimary

LEMMA RelegateRemoves ==
    ASSUME TypeOK, StandInIsAnother, Relegate
    PROVE  Primaries' = Primaries \ {chosen}
<1>1. PICK c \in Nodes : c = chosen
  BY DEF Relegate, TypeOK
<1>2. c # 0 /\ priority' = [priority EXCEPT ![c] = c]
  BY <1>1 DEF Relegate, StandInIsAnother
<1>3. priority'[c] = c /\ \A n \in Nodes \ {c} : priority'[n] = priority[n]
  BY <1>2 DEF TypeOK
<1>4. QED
  BY <1>1, <1>2, <1>3 DEF Primaries, IsPrimary

\* Restoring the checked nodes makes no primary but the original one, and
\* removes none: the others that were checked are backups.
LEMMA RestoreReturns ==
    ASSUME TypeOK, RoundIsOfBackups, Restore
    PROVE  Primaries' = Primaries \/ (0 \in Nodes /\ Primaries' = Primaries \cup {0})
<1>1. /\ hc = "restore"
      /\ \A n \in Nodes :
            priority'[n] = IF n \in Elements(newHealthy) THEN n ELSE priority[n]
  BY DEF Restore
<1>2. \A n \in Nodes \ {0} : n \in Elements(newHealthy) => ~IsPrimary(n)
  BY <1>1, PrimaryOrBackup DEF RoundIsOfBackups, InRound
<1>3. \A n \in Nodes \ {0} : n \in Primaries' <=> n \in Primaries
  BY <1>1, <1>2 DEF Primaries, IsPrimary
<1>4. 0 \in Primaries => 0 \in Primaries'
  BY <1>1 DEF Primaries, IsPrimary
<1>5. Primaries \subseteq Nodes /\ Primaries' \subseteq Nodes
  BY DEF Primaries
<1>6. QED
  BY <1>3, <1>4, <1>5

\* A promotion fills an office nobody holds.
LEMMA PromoteAppoints ==
    ASSUME TypeOK, RoundInv, Promote
    PROVE  Primaries = {} /\ \E n \in Nodes : Primaries' = {n}
<1>1. PICK c \in Nodes : c = chosen
  BY DEF Promote, TypeOK
<1>2. priority'[c] = 0 /\ \A n \in Nodes \ {c} : priority'[n] = priority[n]
  BY <1>1 DEF Promote, TypeOK
<1>3. Primaries = {}
  BY DEF Promote, RoundInv, NoRival
<1>4. Primaries' = {c}
  BY <1>2, <1>3 DEF Primaries, IsPrimary
<1>5. QED
  BY <1>3, <1>4

-----------------------------------------------------------------------------
(* The strengthening of RoundInv *)

\* No handler and no other step of the round makes a primary of a node under
\* check.
LEMMA RoundStaysOfBackups ==
    ASSUME TypeOK, RoundInv, RoundIsOfBackups, StandInIsAnother, [Next]_vars
    PROVE  RoundIsOfBackups'
<1> DEFINE Late == {"elect", "promote", "absolve", "publish"}
<1>0. TypeOK'
  <2>1. CASE Next
    BY <2>1, StartupType, HandlerType, RoundType
       DEF Next, Exited, vars, nodeVars, handlerVars, checkVars, TypeOK,
           MaxPriority
  <2>2. CASE UNCHANGED vars
    BY <2>2 DEF vars, nodeVars, handlerVars, checkVars, TypeOK, MaxPriority
  <2>3. QED
    BY <2>1, <2>2
<1>1. SUFFICES ASSUME hc' \notin Late, NEW n \in Nodes \ {0}, InRound(n)'
               PROVE  ~IsPrimary(n)'
  <2>1. \A n \in Nodes : IsBackup(n)' <=> ~IsPrimary(n)'
    <3>1. MaxPriority' \in Nat /\ Nodes \subseteq Nat
      BY NodesAssumption, MaxPriorityType DEF MaxPriority
    <3>2. \A n \in Nodes : priority'[n] \in {0, n, MaxPriority'}
      BY <1>0 DEF TypeOK
    <3>3. \A n \in Nodes : priority'[n] \in Nat
      BY <3>1, <3>2
    <3>4. QED
      BY <3>3 DEF IsBackup, IsPrimary
  <2>2. QED
    BY <1>1, <2>1 DEF RoundIsOfBackups
<1>2. hc \notin Late /\ InRound(n) => ~IsPrimary(n)
  BY PrimaryOrBackup DEF RoundIsOfBackups
<1>3. ASSUME hc \notin Late, InRound(n), n \in Primaries' => n \in Primaries
      PROVE  ~IsPrimary(n)'
  BY <1>2, <1>3 DEF Primaries, IsPrimary
<1>4. ASSUME NEW h \in Handlers, Receive(h) \/ Advance(h)
      PROVE  ~IsPrimary(n)'
  <2>1. hc' = hc /\ (InRound(n)' <=> InRound(n))
    BY <1>4, HandlersOnlyRemove DEF checkVars, InRound, Elements
  <2>2. Primaries' \subseteq Primaries
    BY <1>4, HandlersOnlyRemove
  <2>3. QED
    BY <1>1, <1>3, <2>1, <2>2
<1>5. CASE UNCHANGED vars
  BY <1>1, <1>3, <1>5 DEF vars, checkVars, nodeVars, InRound, Elements,
     Primaries, IsPrimary
<1>6. ASSUME NEW S \in SUBSET Nodes, Startup(S)
      PROVE  ~IsPrimary(n)'
  <2>1. UNCHANGED <<priority, checking, newHealthy>>
        /\ hc \notin Late /\ hc' # "credit"
    BY <1>6 DEF Startup, nodeVars
  <2>2. InRound(n)
    BY <1>1, <2>1 DEF InRound, Elements
  <2>3. QED
    BY <1>3, <2>1, <2>2 DEF Primaries, IsPrimary
<1>7. ASSUME NEW m \in Nodes, Scan(m)
      PROVE  ~IsPrimary(n)'
  <2>1. UNCHANGED <<priority, newHealthy, hc>> /\ hc = "scan"
        /\ (n \in checking' => n \in checking \/ IsBackup(n))
    BY <1>7 DEF Scan, nodeVars
  <2>2. CASE IsBackup(n)
    BY <2>1, <2>2, PrimaryOrBackup DEF IsPrimary
  <2>3. CASE ~IsBackup(n)
    <3>1. InRound(n)
      BY <1>1, <2>1, <2>3 DEF InRound, Elements
    <3>2. QED
      BY <1>3, <2>1, <3>1 DEF Primaries, IsPrimary
  <2>4. QED
    BY <2>2, <2>3
<1>8. CASE Credit
  <2>1. PICK c \in Nodes : c = chosen
    BY <1>8 DEF Credit, TypeOK
  <2>2. Elements(newHealthy)' = Elements(newHealthy) \cup {c}
    <3>1. newHealthy' = Append(newHealthy, c) /\ newHealthy \in Seq(Nodes)
      BY <1>8, <2>1 DEF Credit, TypeOK
    <3>2. QED
      BY <3>1, ElementsAppend DEF Elements
  <2>3. hc = "credit" /\ hc' = "collect" /\ checking' = checking
    BY <1>8 DEF Credit
  <2>4. InRound(n)
    BY <1>1, <2>1, <2>2, <2>3 DEF InRound
  <2>5. QED
    BY <1>3, <1>8, <2>3, <2>4, OtherStepsKeep
<1>9. CASE Tick \/ Launch \/ Lock \/ FindPrimary \/ Pardon
           \/ \E m \in Nodes : Healthy(m) \/ Unhealthy(m)
  <2>1. hc \notin Late /\ newHealthy' = newHealthy
        /\ checking' \subseteq checking
        /\ (hc' = "credit" => chosen' \in checking)
    BY <1>9 DEF Tick, Launch, Lock, FindPrimary, Pardon, Healthy, Unhealthy
  <2>2. InRound(n)
    BY <1>1, <2>1 DEF InRound, Elements
  <2>3. QED
    BY <1>3, <1>9, <2>1, <2>2, OtherStepsKeep
<1>10. CASE Reinstate \/ Relegate
  <2>1. hc \notin Late /\ UNCHANGED <<newHealthy, checking>> /\ hc' # "credit"
    BY <1>10 DEF Reinstate, Relegate
  <2>2. InRound(n)
    BY <1>1, <2>1 DEF InRound, Elements
  <2>3. n \in Primaries' => n \in Primaries
    BY <1>10, ReinstateReturns, RelegateRemoves
  <2>4. QED
    BY <1>3, <2>1, <2>2, <2>3
<1>11. CASE Restore \/ Elect \/ Promote \/ Absolve
  BY <1>1, <1>11 DEF Restore, Elect, Promote, Absolve
<1>12. CASE Publish
  <2>1. newHealthy' = <<>> /\ checking' = {} /\ hc' = "idle"
    BY <1>12 DEF Publish, RoundInv, RoundShape
  <2>2. QED
    BY <1>1, <2>1 DEF InRound, Elements
<1>13. QED
  BY <1>4, <1>5, <1>6, <1>7, <1>8, <1>9, <1>10, <1>11, <1>12
     DEF Next, CheckRound, Exited

\* The stand-in that FindPrimary chose is kept until it is relegated.
LEMMA StandInStaysAnother ==
    ASSUME StandInIsAnother, [Next]_vars
    PROVE  StandInIsAnother'
<1>1. CASE UNCHANGED vars
  BY <1>1 DEF vars, checkVars, StandInIsAnother
<1>2. ASSUME NEW h \in Handlers, Receive(h) \/ Advance(h)
      PROVE  StandInIsAnother'
  <2>1. UNCHANGED checkVars
    BY <1>2 DEF Receive, Advance, Succeed, Abandon, ClientError, Fail,
       ClearSuccesses, LoadErrors, CheckPrimary, Demote, Unlist, Exhausted
  <2>2. QED
    BY <2>1 DEF checkVars, StandInIsAnother
<1>3. CASE FindPrimary \/ Reinstate \/ Pardon \/ Relegate
  BY <1>3 DEF FindPrimary, Reinstate, Pardon, Relegate, StandInIsAnother
<1>4. CASE \/ Tick \/ Launch \/ Credit \/ Lock \/ Restore
           \/ Elect \/ Promote \/ Absolve \/ Publish
           \/ \E n \in Nodes : Scan(n) \/ Healthy(n) \/ Unhealthy(n)
  BY <1>4 DEF Tick, Launch, Credit, Lock, Restore, Elect, Promote, Absolve,
     Publish, Scan, Healthy, Unhealthy, StandInIsAnother
<1>5. ASSUME NEW S \in SUBSET Nodes, Startup(S)
      PROVE  StandInIsAnother'
  BY <1>5 DEF Startup, StandInIsAnother
<1>6. QED
  BY <1>1, <1>2, <1>3, <1>4, <1>5 DEF Next, CheckRound, Exited

\* Of the nodes under check only the original can be a primary, and failback
\* never relegates the node it has just reinstated.
THEOREM OfficeCorrect == Spec => []OfficeInv
<1>1. Init => RoundIsOfBackups /\ StandInIsAnother
  <2>1. Elements(<<>>) = {}
    BY DEF Elements
  <2>2. QED
    BY <2>1 DEF Init, RoundIsOfBackups, InRound, StandInIsAnother
<1>2. TypeOK /\ RoundInv /\ RoundIsOfBackups /\ StandInIsAnother /\ [Next]_vars
      => (RoundIsOfBackups /\ StandInIsAnother)'
  BY RoundStaysOfBackups, StandInStaysAnother
<1>3. OfficeInv <=> RoundInv /\ RoundIsOfBackups /\ StandInIsAnother
  BY DEF OfficeInv
<1>4. QED
  BY <1>1, <1>2, <1>3, TypeCorrect, RoundCorrect, PTL DEF Spec

-----------------------------------------------------------------------------
(* The refinement *)

\* At first the first node holds the office.
LEMMA OfficeInit == Init => TheOffice!Init
<1> SUFFICES ASSUME Init
             PROVE  Primaries = {0} \cap Nodes
  BY DEF TheOffice!Init
<1>1. \A n \in Nodes : IsPrimary(n) <=> n = 0
  BY DEF Init, IsPrimary
<1>2. QED
  BY <1>1 DEF Primaries

\* Every step resigns, returns, appoints, or leaves the office as it is.
LEMMA OfficeStep ==
    ASSUME TypeOK, OfficeInv, [Next]_vars
    PROVE  TheOffice!Next \/ UNCHANGED Primaries
<1> USE DEF TheOffice!Next, TheOffice!Resign, TheOffice!Return, TheOffice!Appoint
<1>0. RoundInv /\ RoundIsOfBackups /\ StandInIsAnother
  BY DEF OfficeInv
<1>1. CASE UNCHANGED vars
  BY <1>1 DEF vars, nodeVars, Primaries, IsPrimary
<1>2. ASSUME NEW S \in SUBSET Nodes, Startup(S)
      PROVE  UNCHANGED Primaries
  BY <1>2 DEF Startup, nodeVars, Primaries, IsPrimary
<1>3. ASSUME NEW h \in Handlers, Receive(h) \/ Advance(h)
      PROVE  TheOffice!Next \/ UNCHANGED Primaries
  BY <1>3, HandlersOnlyRemove
<1>4. CASE Reinstate
  BY <1>4, ReinstateReturns
<1>5. CASE Relegate
  <2>1. Primaries' = Primaries \ {chosen}
    BY <1>0, <1>5, RelegateRemoves
  <2>2. QED
    BY <2>1
<1>6. CASE Restore
  BY <1>0, <1>6, RestoreReturns
<1>7. CASE Promote
  BY <1>0, <1>7, PromoteAppoints
<1>8. QED
  BY <1>1, <1>2, <1>3, <1>4, <1>5, <1>6, <1>7, OtherStepsKeep
     DEF Next, CheckRound, Exited

\* LoadBalancer implements Office: a stand-in never replaces a primary nor
\* joins one, whatever the number of nodes and handlers.
THEOREM OfficeIsHeld == Spec => HoldsOffice
<1>1. Init => TheOffice!Init
  BY OfficeInit
<1>2. TypeOK /\ OfficeInv /\ [Next]_vars => [TheOffice!Next]_Primaries
  BY OfficeStep
<1>3. QED
  BY <1>1, <1>2, TypeCorrect, OfficeCorrect, PTL
     DEF Spec, HoldsOffice, TheOffice!OfficeSpec

-----------------------------------------------------------------------------
(* Which backup is promoted *)

\* The election: at this moment nobody has priority 0, and a healthy backup
\* has its configured priority unless it was demoted since it was restored.
LEMMA ElectBest ==
    ASSUME TypeOK, RoundInv, Elect, hc' = "promote",
           \A n \in Nodes : n <= MaxPriority
    PROVE  PromotesBest'
<1>1. /\ hc = "elect" /\ Primaries = {}
      /\ UNCHANGED <<priority, newHealthy>>
      /\ \E i \in DOMAIN newHealthy : Promotable(i) /\ chosen' = newHealthy[i]
  BY DEF Elect, nodeVars
<1>2. PICK i \in DOMAIN newHealthy : Promotable(i) /\ chosen' = newHealthy[i]
  BY <1>1
<1>3. /\ \A n \in Nodes : priority[n] # 0
      /\ \A n \in Elements(newHealthy) : priority[n] \in {n, MaxPriority}
  BY <1>1 DEF Primaries, IsPrimary, RoundInv, Restored
<1>4. MaxPriority' = MaxPriority /\ MaxPriority \in Nat \ {0} /\ Nodes \subseteq Nat
  BY NodesAssumption, MaxPriorityType DEF MaxPriority
<1>5. Elements(newHealthy)' = Elements(newHealthy)
  BY <1>1 DEF Elements
<1> SUFFICES ASSUME NEW m \in Elements(newHealthy), priority[m] # MaxPriority
             PROVE  chosen' <= m
  BY <1>1, <1>4, <1>5 DEF PromotesBest
<1>6. PICK j \in DOMAIN newHealthy : newHealthy[j] = m
  BY DEF Elements
<1>7. PICK c \in Nodes : c = newHealthy[i]
  BY DEF TypeOK
<1>8. m \in Nodes /\ c \in Elements(newHealthy) /\ i \in Nat /\ j \in Nat
  BY <1>6, <1>7 DEF TypeOK, Elements
<1>9. \/ (IF c = 0 THEN 0 ELSE priority[c]) < (IF m = 0 THEN 0 ELSE priority[m])
      \/ (IF c = 0 THEN 0 ELSE priority[c]) = (IF m = 0 THEN 0 ELSE priority[m])
  BY <1>2, <1>6, <1>7 DEF Promotable
<1>10. priority[m] = m /\ m # 0 /\ priority[c] \in {c, MaxPriority}
       /\ c <= MaxPriority
  BY <1>3, <1>7, <1>8
<1>11. c <= m
  <2>1. c \in Nat /\ m \in Nat
    BY <1>4, <1>7, <1>8
  <2>2. QED
    BY <1>4, <1>9, <1>10, <2>1
<1>12. QED
  BY <1>2, <1>7, <1>11

\* When the configured positions do not exceed the number of nodes, only a
\* demotion during the round can pass over the healthy backup that is
\* configured first.
THEOREM BestIsPromoted ==
    ASSUME \A n \in Nodes : n <= MaxPriority
    PROVE  Spec => []PromotesBest
<1>1. Init => PromotesBest
  BY DEF Init, PromotesBest
<1>2. TypeOK /\ RoundInv /\ PromotesBest /\ [Next]_vars => PromotesBest'
  <2> SUFFICES ASSUME TypeOK, RoundInv, PromotesBest, [Next]_vars, hc' = "promote"
               PROVE  PromotesBest'
    BY DEF PromotesBest
  <2>1. MaxPriority' = MaxPriority
    BY DEF MaxPriority
  <2>2. CASE Elect
    BY <2>2, ElectBest
  <2>3. CASE UNCHANGED vars
    BY <2>3 DEF vars, nodeVars, checkVars, PromotesBest, Elements, MaxPriority
  <2>4. ASSUME NEW h \in Handlers, Receive(h) \/ Advance(h)
        PROVE  PromotesBest'
    <3>1. UNCHANGED checkVars
      BY <2>4, HandlersOnlyRemove
    <3>2. \A n \in Nodes : priority'[n] \in {priority[n], MaxPriority}
      BY <2>4 DEF Receive, Advance, Succeed, Abandon, ClientError, Fail,
         ClearSuccesses, LoadErrors, CheckPrimary, Demote, Unlist, Exhausted,
         nodeVars, TypeOK
    <3>3. Elements(newHealthy) \subseteq Nodes
      BY DEF TypeOK, Elements
    <3>4. QED
      BY <2>1, <3>1, <3>2, <3>3 DEF PromotesBest, checkVars, Elements
  <2>5. CASE Promote
    BY <2>5 DEF Promote
  <2>6. ASSUME NEW S \in SUBSET Nodes, Startup(S)
        PROVE  PromotesBest'
    BY <2>6 DEF Startup
  <2>7. CASE \/ Tick \/ Launch \/ Credit \/ Lock \/ FindPrimary \/ Reinstate
             \/ Pardon \/ Relegate \/ Restore \/ Absolve \/ Publish
             \/ \E n \in Nodes : Scan(n) \/ Healthy(n) \/ Unhealthy(n)
    BY <2>7 DEF Tick, Launch, Credit, Lock, FindPrimary, Reinstate, Pardon,
       Relegate, Restore, Absolve, Publish, Scan, Healthy, Unhealthy
  <2>8. QED
    BY <2>2, <2>3, <2>4, <2>5, <2>6, <2>7 DEF Next, CheckRound, Exited
<1>3. QED
  BY <1>1, <1>2, TypeCorrect, RoundCorrect, PTL DEF Spec

-----------------------------------------------------------------------------
(* What a round leaves behind *)

\* A handler takes a primary out of office only to take it off the list,
\* which has to wait while lb.mu is held.
LEMMA HandlersLeaveTheirMark ==
    ASSUME TypeOK, NEW h \in Handlers, Receive(h) \/ Advance(h), hc \in Locked
    PROVE  /\ \A n \in Nodes : Leaving(n) => Leaving(n)'
           /\ Primaries' = Primaries \/ \E n \in Nodes : Leaving(n)'
<1>1. CASE Demote(h)
  <2>1. PICK d \in Nodes : d = Current(h)
    BY <1>1, CurrentType DEF Demote
  <2>2. pc' = [pc EXCEPT ![h] = "unlist"] /\ todo' = todo
    BY <1>1 DEF Demote, Goto
  <2>3. Leaving(d)'
    BY <2>1, <2>2 DEF Leaving, Current, TypeOK
  <2>4. \A n \in Nodes : Leaving(n) => Leaving(n)'
    BY <2>2 DEF Leaving, Current, TypeOK
  <2>5. QED
    BY <2>3, <2>4
<1>2. CASE ~Demote(h)
  <2>1. Primaries' = Primaries
    <3>1. UNCHANGED priority
      BY <1>2 DEF Receive, Advance, Succeed, Abandon, ClientError, Fail,
         ClearSuccesses, LoadErrors, CheckPrimary, Unlist, Exhausted, nodeVars
    <3>2. QED
      BY <3>1 DEF Primaries, IsPrimary
  <2>2. pc[h] # "unlist"
    BY <1>2 DEF Receive, Advance, Succeed, Abandon, ClientError, Fail, Trying,
       ClearSuccesses, LoadErrors, CheckPrimary, Unlist, Exhausted, MuFree
  <2>3. \A g \in Handlers : g # h => pc'[g] = pc[g] /\ todo'[g] = todo[g]
    BY HandlerAlone
  <2>4. \A n \in Nodes : Leaving(n) => Leaving(n)'
    BY <2>2, <2>3 DEF Leaving, Current
  <2>5. QED
    BY <2>1, <2>4
<1>3. QED
  BY <1>1, <1>2

\* However its results arrive and whatever is demoted meanwhile, a round that
\* found a healthy backup does not end without a primary in office.
THEOREM RoundsAppoint == Spec => []RoundAppoints
<1>1. Init => RoundAppoints
  BY DEF Init, RoundAppoints
<1>2. TypeOK /\ RoundAppoints /\ [Next]_vars => RoundAppoints'
  <2> SUFFICES ASSUME TypeOK, RoundAppoints, [Next]_vars,
                      hc' \in {"absolve", "publish"}, newHealthy' # <<>>
               PROVE  (Primaries # {} \/ \E n \in Nodes : Leaving(n))'
    BY DEF RoundAppoints
  <2>1. CASE UNCHANGED vars
    BY <2>1 DEF vars, nodeVars, handlerVars, checkVars, RoundAppoints, Primaries,
       IsPrimary, Leaving, Current
  <2>2. ASSUME NEW h \in Handlers, Receive(h) \/ Advance(h)
        PROVE  (Primaries # {} \/ \E n \in Nodes : Leaving(n))'
    <3>1. UNCHANGED checkVars
      BY <2>2, HandlersOnlyRemove
    <3>2. hc \in Locked /\ (Primaries # {} \/ \E n \in Nodes : Leaving(n))
      BY <3>1 DEF checkVars, RoundAppoints, Locked
    <3>3. QED
      BY <2>2, <3>2, HandlersLeaveTheirMark
  <2>3. CASE Elect
    <3>1. Primaries' = Primaries /\ Primaries # {}
      BY <2>3, OtherStepsKeep DEF Elect
    <3>2. QED
      BY <3>1
  <2>4. CASE Promote
    <3>1. chosen \in Nodes /\ priority'[chosen] = 0
      BY <2>4 DEF Promote, TypeOK
    <3>2. QED
      BY <3>1 DEF Primaries, IsPrimary
  <2>5. CASE Absolve
    <3>1. Primaries' = Primaries /\ UNCHANGED <<handlerVars, newHealthy>>
          /\ hc = "absolve"
      BY <2>5, OtherStepsKeep DEF Absolve
    <3>2. QED
      BY <3>1 DEF RoundAppoints, handlerVars, Leaving, Current
  <2>6. ASSUME NEW S \in SUBSET Nodes, Startup(S)
        PROVE  FALSE
    BY <2>6 DEF Startup
  <2>7. CASE \/ Tick \/ Launch \/ Credit \/ Lock \/ FindPrimary \/ Reinstate
             \/ Pardon \/ Relegate \/ Restore \/ Publish
             \/ \E n \in Nodes : Scan(n) \/ Healthy(n) \/ Unhealthy(n)
    BY <2>7 DEF Tick, Launch, Credit, Lock, FindPrimary, Reinstate, Pardon,
       Relegate, Restore, Publish, Scan, Healthy, Unhealthy
  <2>8. QED
    BY <2>1, <2>2, <2>3, <2>4, <2>5, <2>6, <2>7 DEF Next, CheckRound, Exited
<1>3. QED
  BY <1>1, <1>2, TypeCorrect, PTL DEF Spec

=============================================================================
