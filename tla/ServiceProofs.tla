---------------------------- MODULE ServiceProofs ----------------------------
(***************************************************************************)
(* Machine-checked proofs about Service, for any names, any number of      *)
(* beacons and any mistakes in the file.                                   *)
(***************************************************************************)
EXTENDS Service, TLAPS

-----------------------------------------------------------------------------
(* The configuration *)

\* What is decoded of a file has the types of a configuration.
LEMMA DecodedType ==
    ASSUME NEW f \in Files
    PROVE  /\ Decoded(f) \in [nodes : Seq(Tables), wrong : SUBSET Mistakes,
                              slow : BOOLEAN, limited : BOOLEAN]
           /\ DOMAIN Decoded(f).nodes = DOMAIN f.names
           /\ DOMAIN f.names \subseteq 1..MaxNames
<1>1. PICK k \in 0..MaxNames : f.names \in [1..k -> Names]
  BY DEF Files
<1>2. f.tables \in [Names -> Tables] /\ f.wrong \in SUBSET Mistakes
      /\ f.slow \in BOOLEAN /\ f.limited \in BOOLEAN
  BY DEF Files
<1>3. MaxNames \in Nat /\ k \in Nat /\ k <= MaxNames
  BY <1>1, ServiceAssumption
<1>4. Decoded(f).nodes \in [1..k -> Tables]
  BY <1>1, <1>2 DEF Decoded
<1>5. Decoded(f).nodes \in Seq(Tables)
  BY <1>3, <1>4
<1>6. QED
  BY <1>1, <1>2, <1>3, <1>5 DEF Decoded

LEMMA DefaultType ==
    Default \in [nodes : Seq(Tables), wrong : SUBSET Mistakes,
                 slow : BOOLEAN, limited : BOOLEAN]
  BY DEF Default

\* Nodes are only created from a file that is valid.
LEMMA CreatedFromFile ==
    ASSUME Configured, Created # {}
    PROVE  FromTheFile
<1>1. CASE cfg = Default
  <2>1. DOMAIN cfg.nodes = {}
    BY <1>1 DEF Default
  <2>2. Created = {}
    BY <2>1 DEF Created
  <2>3. QED
    BY <2>2
<1>2. QED
  BY <1>1 DEF Configured

\* A created node has a position of the file as its priority.
LEMMA CreatedPositions ==
    ASSUME file \in Files, Configured
    PROVE  Created \subseteq 0..MaxNames - 1
<1>1. DOMAIN cfg.nodes \subseteq 1..MaxNames
  BY DecodedType DEF Default, Configured, FromTheFile
<1>2. \A i \in 1..MaxNames : i - 1 \in 0..MaxNames - 1
  BY ServiceAssumption
<1>3. \A j \in Created : \E i \in DOMAIN cfg.nodes : j = i - 1
  BY DEF Created
<1>4. QED
  BY <1>1, <1>2, <1>3

-----------------------------------------------------------------------------
(* What holds before each stage *)

LEMMA InitStartup == Init => TypeOK /\ StartupInv
  BY DefaultType DEF Init, TypeOK, StartupInv, Configured, Served

\* Where a request went does not change after it was served.
LEMMA RoutedKept ==
    ASSUME routed' = routed, limiter' = limiter, cfg' = cfg
    PROVE  Handler(routed[1])' = Handler(routed[1]) /\ Created' = Created
  BY DEF Handler, Admit, Share, Balance, Created

\* The nodes are only healthy, and the ticker only starts, when some were
\* created; and those came from a valid file.
LEMMA StartupStep ==
    ASSUME TypeOK, StartupInv, [Next]_vars
    PROVE  StartupInv'
<1> USE DEF StartupInv, Configured, FromTheFile, Served, given
<1>1. CASE UNCHANGED vars
  BY <1>1, RoutedKept DEF vars
<1>2. CASE Help \/ NoNodes \/ NoneHealthy \/ ListenFails
  BY <1>2, RoutedKept DEF Help, NoNodes, NoneHealthy, ListenFails, Exit
<1>3. CASE Load
  BY <1>3 DEF Load, LoadOrDefault
<1>4. CASE Create
  BY <1>4 DEF Create, Created
<1>5. CASE Probe
  <2>1. /\ Handler(routed[1])' = Handler(routed[1]) /\ Created' = Created
        /\ healthy' # {} /\ stage = "probe" /\ stage' = "watch"
        /\ UNCHANGED <<exit, given, cfg, nodes, watched, limiter, routed>>
    BY <1>5, RoutedKept DEF Probe
  <2>2. QED
    BY <2>1
<1>6. CASE Watch
  <2>1. nodes # {} /\ nodes = Created
    BY <1>6 DEF Watch
  <2>2. Valid(cfg)
    BY <2>1, CreatedFromFile DEF Loads
  <2>3. "interval" \notin cfg.wrong
    BY <2>2 DEF Valid, Settings
  <2>4. QED
    BY <1>6, <2>1, <2>3, RoutedKept DEF Watch
<1>7. CASE Limit \/ Listen
  <2>1. routed # <<>> => limiter' = limiter
    BY <1>7 DEF Limit, Listen
  <2>2. cfg' = cfg /\ routed' = routed /\ Created' = Created
    BY <1>7 DEF Limit, Listen, Created
  <2>3. routed # <<>> => Handler(routed[1])' = Handler(routed[1])
    BY <2>1, <2>2, RoutedKept
  <2>4. QED
    BY <1>7, <2>2, <2>3 DEF Limit, Listen
<1>8. ASSUME NEW q \in Requests, Serve(q)
      PROVE  StartupInv'
  <2>1. routed'[1] = q /\ routed'[2] = Handler(q) /\ Handler(q)' = Handler(q)
    BY <1>8 DEF Serve, Handler, Admit, Share, Balance
  <2>2. QED
    BY <1>8, <2>1 DEF Serve, Created
<1>9. QED
  BY <1>1, <1>2, <1>3, <1>4, <1>5, <1>6, <1>7, <1>8 DEF Next, Main

LEMMA TypeStep ==
    ASSUME TypeOK, StartupInv, [Next]_vars
    PROVE  TypeOK'
<1> USE DEF TypeOK, given
<1>1. CASE UNCHANGED vars
  BY <1>1 DEF vars
<1>2. CASE Help \/ NoNodes \/ NoneHealthy \/ ListenFails
  BY <1>2 DEF Help, NoNodes, NoneHealthy, ListenFails, Exit
<1>3. CASE Load
  <2>1. cfg' = Default \/ cfg' = Decoded(file)
    BY <1>3 DEF Load, LoadOrDefault
  <2>2. cfg' \in [nodes : Seq(Tables), wrong : SUBSET Mistakes,
                  slow : BOOLEAN, limited : BOOLEAN]
    BY <2>1, DecodedType, DefaultType
  <2>3. QED
    BY <1>3, <2>2 DEF Load
<1>4. CASE Create
  <2>1. Created \subseteq 0..MaxNames - 1
    BY CreatedPositions DEF StartupInv
  <2>2. healthy = {}
    BY <1>4 DEF Create, StartupInv
  <2>3. QED
    BY <1>4, <2>1, <2>2 DEF Create
<1>5. CASE Probe \/ Watch \/ Limit \/ Listen
  BY <1>5 DEF Probe, Watch, Limit, Listen
<1>6. ASSUME NEW q \in Requests, Serve(q)
      PROVE  TypeOK'
  <2>1. Handler(q) \in {"status", "metrics", "too_many", "preflight",
                        "forbidden", "websocket", "http"}
    BY DEF Handler, Admit, Share, Balance
  <2>2. QED
    BY <1>6, <2>1 DEF Serve
<1>7. QED
  BY <1>1, <1>2, <1>3, <1>4, <1>5, <1>6 DEF Next, Main

-----------------------------------------------------------------------------
(* The theorems *)

\* StartupInv is inductive: what main established before a stage still holds
\* there, and after the process has ended.
THEOREM StartupCorrect == Spec => [](TypeOK /\ StartupInv)
<1>1. Init => TypeOK /\ StartupInv
  BY InitStartup
<1>2. TypeOK /\ StartupInv /\ [Next]_vars => (TypeOK /\ StartupInv)'
  BY StartupStep, TypeStep
<1>3. QED
  BY <1>1, <1>2, PTL DEF Spec

\* Whatever the file and the arguments, the nodes that are taken for healthy
\* are nodes that were created, and those are positions of the file.
THEOREM TypeCorrect == Spec => []TypeOK
<1>1. QED
  BY StartupCorrect, PTL

\* Every process that starts its health checks has the limits that the other
\* modules assume, and its ticker does not panic.
THEOREM LimitsAreChecked == Spec => []LimitsHold
<1>1. StartupInv => LimitsHold
  <2> SUFFICES ASSUME StartupInv
               PROVE  LimitsHold
    OBVIOUS
  <2>1. watched => Valid(cfg)
    BY CreatedFromFile DEF StartupInv, FromTheFile, Loads
  <2>2. limiter => watched /\ cfg.limited
    BY DEF StartupInv
  <2>3. QED
    BY <2>1, <2>2 DEF LimitsHold, Valid, StartupInv
<1>2. QED
  BY <1>1, StartupCorrect, PTL

\* However many nodes were left out, one that serves has the position of its
\* name as its priority, and each good one of the file is there.
THEOREM PositionsAreKept == Spec => []PriorityIsThePosition
<1>1. TypeOK /\ StartupInv => PriorityIsThePosition
  <2> SUFFICES ASSUME TypeOK, StartupInv, stage = "serving",
                      NEW i \in 1..MaxNames
               PROVE  i - 1 \in nodes <=> i \in DOMAIN file.names
                                          /\ file.tables[file.names[i]] = "good"
    BY DEF PriorityIsThePosition
  <2>1. nodes = Created /\ FromTheFile
    BY CreatedFromFile DEF StartupInv
  <2>2. file \in Files
    BY DEF TypeOK
  <2>3. /\ DOMAIN cfg.nodes = DOMAIN file.names
        /\ DOMAIN file.names \subseteq 1..MaxNames
    BY <2>1, <2>2, DecodedType DEF FromTheFile
  <2>4. \A j \in DOMAIN file.names :
            /\ cfg.nodes[j] = file.tables[file.names[j]]
            /\ cfg.nodes[j] \in Tables
    <3>1. file.tables \in [Names -> Tables]
      BY <2>2 DEF Files
    <3>2. PICK k \in 0..MaxNames : file.names \in [1..k -> Names]
      BY <2>2 DEF Files
    <3>3. QED
      BY <2>1, <3>1, <3>2 DEF FromTheFile, Decoded
  <2>5. \A j \in DOMAIN file.names : cfg.nodes[j] \notin {"none", "no url", "odd type"}
    BY <2>1, <2>3, <2>4 DEF FromTheFile, Loads, Parses, Valid
  <2>6. \A j \in DOMAIN file.names :
            cfg.nodes[j] # "odd url" <=> file.tables[file.names[j]] = "good"
    BY <2>4, <2>5 DEF Tables
  <2>7. i - 1 \in Created <=> i \in DOMAIN cfg.nodes /\ cfg.nodes[i] # "odd url"
    <3>1. \A j \in DOMAIN cfg.nodes : j \in Nat /\ (j - 1 = i - 1 => j = i)
      BY <2>3, ServiceAssumption
    <3>2. QED
      BY <3>1 DEF Created
  <2>8. QED
    BY <2>1, <2>3, <2>6, <2>7
<1>2. QED
  BY <1>1, StartupCorrect, PTL

\* Whatever is requested, the nodes get nothing before one of them was found
\* healthy and the periodic check runs, and nothing the limiter refuses.
THEOREM TrafficWaits == Spec => []TrafficIsAdmitted
<1>1. TypeOK /\ StartupInv => TrafficIsAdmitted
  <2> SUFFICES ASSUME TypeOK, StartupInv, routed # <<>>,
                      routed[2] \in {"http", "websocket"}
               PROVE  /\ healthy # {} /\ watched
                      /\ routed[1].path = "beacon" /\ ~routed[1].options
                      /\ file.limited => routed[1].allowed
    BY DEF TrafficIsAdmitted
  <2>1. watched /\ nodes # {} /\ healthy # {} /\ limiter = cfg.limited
        /\ routed[2] = Handler(routed[1])
    BY DEF StartupInv, Served
  <2>2. FromTheFile
    BY <2>1, CreatedFromFile DEF StartupInv
  <2>3. cfg.limited = file.limited
    BY <2>2 DEF FromTheFile, Decoded
  <2>4. PICK q \in Requests : q = routed[1]
    BY DEF TypeOK
  <2>5. q.path \in {"healthz", "metrics", "beacon", "other"}
    BY DEF Requests
  <2>6. Handler(q) \in {"http", "websocket"} =>
            q.path = "beacon" /\ ~q.options /\ (limiter => q.allowed)
    BY <2>5 DEF Handler, Admit, Share, Balance
  <2>7. QED
    BY <2>1, <2>3, <2>4, <2>6
<1>2. QED
  BY <1>1, StartupCorrect, PTL

-----------------------------------------------------------------------------
(* What FailsLoudly says without a word about time: the file decides where *)
(* main can be, and main never goes back                                   *)

\* With a file that cannot be used, no process gets as far as a probe, and
\* one that ended has failed; what serves has the settings of the file, all
\* of them (config.go:196-203, main.go:61-89).
OnlyTheFileServes ==
    /\ args # "help" /\ ~Usable =>
          /\ stage \in {"start", "create", "ended"} /\ nodes = {}
          /\ stage = "ended" => exit = "failure"
    /\ Served => args # "help" /\ Usable /\ cfg = Decoded(file)

FileInv ==
    /\ cfg = Default \/ (Usable /\ cfg = Decoded(file))
    /\ args = "help" => stage \in {"start", "ended"} /\ nodes = {}
    /\ exit = "none" <=> stage # "ended"
    /\ exit = "usage" => args = "help"
    /\ stage = "start" => cfg = Default

Stages == <<"start", "create", "probe", "watch", "limit", "listen", "serving",
            "ended">>

Later(s, t) == \E i, j \in 1..8 : i < j /\ Stages[i] = s /\ Stages[j] = t

\* Every step of main is one of finitely many, and what it established is
\* not touched again: a request changes nothing that another one meets
\* (main.go:40-127).
MainMovesOn ==
    [][/\ Later(stage, stage') \/ (stage = "serving" /\ stage' = "serving")
       /\ ~watched => routed' = routed
       /\ stage \in {"serving", "ended"} =>
             UNCHANGED <<given, cfg, nodes, healthy, watched, limiter>>]_vars

LEMMA NoNodesByDefault == cfg = Default => Created = {}
<1>1. DOMAIN Default.nodes = {}
  BY DEF Default
<1>2. QED
  BY <1>1 DEF Created

LEMMA FileStep ==
    ASSUME TypeOK, StartupInv, FileInv, [Next]_vars
    PROVE  FileInv'
<1> USE DEF FileInv, given
<1>0. UNCHANGED given => Usable' = Usable /\ Decoded(file)' = Decoded(file)
  <2>1. ASSUME UNCHANGED given
        PROVE  file' = file /\ place' = place /\ args' = args /\ env' = env
    BY <2>1
  <2>2. ASSUME file' = file
        PROVE  Decoded(file)' = Decoded(file) /\ Parses(file)' = Parses(file)
    BY <2>2 DEF Decoded, Parses
  <2>3. ASSUME file' = file
        PROVE  Loads(file)' = Loads(file)
    BY <2>2, <2>3 DEF Loads, Valid
  <2>4. QED
    BY <2>1, <2>2, <2>3 DEF Usable, ConfigPath
<1>1. UNCHANGED given
  BY DEF vars, Next, Main, Help, Load, Create, NoNodes, Probe, NoneHealthy,
         Watch, Limit, Listen, ListenFails, Serve, Exit
<1>2. CASE UNCHANGED vars
  BY <1>0, <1>2 DEF vars
<1>3. CASE Help \/ NoNodes \/ NoneHealthy \/ ListenFails
  BY <1>0, <1>1, <1>3
     DEF Help, NoNodes, NoneHealthy, ListenFails, Exit, StartupInv
<1>4. CASE Load
  <2>1. cfg' = LoadOrDefault(ConfigPath) /\ stage' = "create" /\ args # "help"
        /\ exit' = exit /\ exit = "none"
    BY <1>4 DEF Load
  <2>2. IF Usable THEN cfg' = Decoded(file) ELSE cfg' = Default
    BY <2>1 DEF LoadOrDefault, Usable
  <2>3. QED
    BY <1>0, <1>1, <2>1, <2>2
<1>5. CASE Create
  BY <1>0, <1>1, <1>5 DEF Create
<1>6. CASE Probe \/ Limit \/ Listen
  BY <1>0, <1>1, <1>6 DEF Probe, Limit, Listen, StartupInv
<1>7. CASE Watch
  BY <1>0, <1>1, <1>7 DEF Watch, StartupInv
<1>8. ASSUME NEW q \in Requests, Serve(q)
      PROVE  FileInv'
  BY <1>0, <1>1, <1>8 DEF Serve
<1>9. QED
  BY <1>2, <1>3, <1>4, <1>5, <1>6, <1>7, <1>8 DEF Next, Main

\* Whatever the file and the arguments: a file that cannot be used gets no
\* process beyond the creation of its nodes, and one that ended has failed.
THEOREM NothingElseServes == Spec => []OnlyTheFileServes
<1>1. Init => FileInv
  BY DEF Init, FileInv
<1>2. TypeOK /\ StartupInv /\ FileInv /\ [Next]_vars => FileInv'
  BY FileStep
<1>3. TypeOK /\ StartupInv /\ FileInv => OnlyTheFileServes
  <2> SUFFICES ASSUME TypeOK, StartupInv, FileInv
               PROVE  OnlyTheFileServes
    OBVIOUS
  <2>1. ~Usable => nodes = {}
    BY NoNodesByDefault DEF FileInv, StartupInv
  <2>2. args # "help" /\ ~Usable => stage \in {"start", "create", "ended"}
    BY <2>1 DEF StartupInv, TypeOK
  <2>3. args # "help" /\ stage = "ended" => exit = "failure"
    BY DEF FileInv, StartupInv, TypeOK
  <2>4. Served => nodes # {}
    BY DEF StartupInv
  <2>5. nodes # {} => cfg # Default
    BY NoNodesByDefault DEF StartupInv
  <2>6. QED
    BY <2>1, <2>2, <2>3, <2>4, <2>5 DEF OnlyTheFileServes, FileInv
<1>4. QED
  BY <1>1, <1>2, <1>3, StartupCorrect, PTL DEF Spec

\* A later stage than another.
LEMMA StageOrder ==
    /\ Later("start", "create") /\ Later("create", "probe")
    /\ Later("probe", "watch") /\ Later("watch", "limit")
    /\ Later("limit", "listen") /\ Later("listen", "serving")
    /\ \A s \in {"start", "create", "probe", "watch", "limit", "listen",
                  "serving"} : Later(s, "ended")
<1>1. ASSUME NEW i \in 1..7
      PROVE  Later(Stages[i], Stages[i + 1]) /\ Later(Stages[i], Stages[8])
  <2>1. i \in 1..8 /\ i + 1 \in 1..8 /\ i < i + 1 /\ 8 \in 1..8 /\ i < 8
    OBVIOUS
  <2>2. QED
    BY <2>1 DEF Later
<1>2. /\ Stages[1] = "start" /\ Stages[2] = "create" /\ Stages[3] = "probe"
      /\ Stages[4] = "watch" /\ Stages[5] = "limit" /\ Stages[6] = "listen"
      /\ Stages[7] = "serving" /\ Stages[8] = "ended"
  BY DEF Stages
<1>3. /\ Later(Stages[1], Stages[2]) /\ Later(Stages[2], Stages[3])
      /\ Later(Stages[3], Stages[4]) /\ Later(Stages[4], Stages[5])
      /\ Later(Stages[5], Stages[6]) /\ Later(Stages[6], Stages[7])
  BY <1>1
<1>4. \A i \in 1..7 : Later(Stages[i], Stages[8])
  BY <1>1
<1>5. /\ Later(Stages[1], Stages[8]) /\ Later(Stages[2], Stages[8])
      /\ Later(Stages[3], Stages[8]) /\ Later(Stages[4], Stages[8])
      /\ Later(Stages[5], Stages[8]) /\ Later(Stages[6], Stages[8])
      /\ Later(Stages[7], Stages[8])
  BY <1>4
<1>6. QED
  BY <1>2, <1>3, <1>5

\* Main goes through its stages in their order, and what it established is
\* not touched by the requests that follow.
THEOREM StartupIsInOrder == Spec => MainMovesOn
<1> DEFINE Moves ==
      /\ Later(stage, stage') \/ (stage = "serving" /\ stage' = "serving")
      /\ ~watched => routed' = routed
      /\ stage \in {"serving", "ended"} =>
            UNCHANGED <<given, cfg, nodes, healthy, watched, limiter>>
<1>1. ASSUME TypeOK, StartupInv, Next, ~UNCHANGED vars
      PROVE  Moves
  <2> USE StageOrder DEF given
  <2>1. CASE Help
    BY <2>1 DEF Help, Exit
  <2>2. CASE Load \/ Create \/ Probe \/ Limit \/ Listen
    BY <2>2 DEF Load, Create, Probe, Limit, Listen
  <2>3. CASE NoNodes \/ NoneHealthy \/ ListenFails
    BY <2>3 DEF NoNodes, NoneHealthy, ListenFails, Exit
  <2>4. CASE Watch
    BY <2>4 DEF Watch
  <2>5. ASSUME NEW q \in Requests, Serve(q)
        PROVE  Moves
    <3>1. stage = "serving" /\ stage' = stage
          /\ UNCHANGED <<given, cfg, nodes, healthy, watched, limiter>>
      BY <2>5 DEF Serve
    <3>2. watched = TRUE
      BY <1>1, <3>1 DEF StartupInv, TypeOK
    <3>3. QED
      BY <3>1, <3>2
  <2>6. QED
    BY <1>1, <2>1, <2>2, <2>3, <2>4, <2>5 DEF Next, Main
<1>2. TypeOK /\ StartupInv /\ [Next]_vars => [Moves]_vars
  <2> HIDE DEF Moves
  <2>1. QED
    BY <1>1
<1>3. QED
  BY <1>2, StartupCorrect, PTL DEF Spec, MainMovesOn

=============================================================================
