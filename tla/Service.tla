------------------------------ MODULE Service ------------------------------
(***************************************************************************)
(* The process around the load balancer: where it looks for its            *)
(* configuration, what becomes of a file that is missing, malformed or     *)
(* invalid, how the nodes are created and probed before anything is        *)
(* served, and which handler a request gets to when it is.                 *)
(*                                                                         *)
(* A setting is reduced to whether it is in its range: one that the file   *)
(* leaves out has its default and is.  What probes, checks and requests    *)
(* do is LoadBalancer's, and what the limiter allows is RateLimiter's.     *)
(*                                                                         *)
(* Grain.  A statement of main that can end the process is a step.         *)
(***************************************************************************)
EXTENDS Naturals, Sequences, FiniteSets

CONSTANTS
    Names,      \* the names of beacons that occur in a file
    MaxNames,   \* bound: how many names beacons.nodes lists
    Mistakes,   \* the settings that a file may have out of range
    MaxWrong    \* bound: how many of them are at a time

\* Checked always, and checked when the rate limiter is enabled.
Settings == {"port", "max_retries", "request_timeout", "error_threshold",
             "interval", "timeout", "successful_checks", "level", "format"}

RateSettings == {"requests_per_second", "window"}

ASSUME ServiceAssumption ==
    /\ MaxNames \in Nat /\ MaxWrong \in Nat
    /\ Mistakes \subseteq Settings \cup RateSettings

\* The table of a beacon: not there, without a url, of a type that is not
\* known, with a url that cannot be parsed, or with nothing wrong.
Tables == {"none", "no url", "odd type", "odd url", "good"}

Paths == {"argument", "environment", "default"}

Files ==
    [decodes : BOOLEAN,
     names   : UNION {[1..k -> Names] : k \in 0..MaxNames},
     tables  : [Names -> Tables],
     wrong   : {s \in SUBSET Mistakes : Cardinality(s) <= MaxWrong},
     slow    : BOOLEAN,  \* health.timeout is not below health.interval
     limited : BOOLEAN]  \* ratelimit.enabled

VARIABLES
    stage,     \* where main is
    exit,      \* how the process ended
    args,      \* os.Args: a path, the flag for it alone, or none of them
    env,       \* CONSENSUS_PROXY_CONFIG is set
    file,      \* the one configuration file there is
    place,     \* the path where it is
    cfg,       \* the configuration
    nodes,     \* the nodes that were created, by their priority
    healthy,   \* those that passed the startup check
    watched,   \* the periodic check runs
    limiter,   \* there is a rate limiter
    routed     \* history: the last request and where it went

given == <<args, env, file, place>>
vars  == <<stage, exit, given, cfg, nodes, healthy, watched, limiter, routed>>

-----------------------------------------------------------------------------
(* The configuration *)

\* The argument goes before the environment, and that before the default.
ConfigPath ==
    IF args = "path" THEN "argument"
    ELSE IF env THEN "environment" ELSE "default"

\* getDefaultConfig has no nodes, and every setting in its range.
Default == [nodes |-> <<>>, wrong |-> {}, slow |-> FALSE, limited |-> FALSE]

\* Every name of the list needs a table with a url.
Parses(f) == \A i \in DOMAIN f.names : f.tables[f.names[i]] \notin {"none", "no url"}

Decoded(f) ==
    [nodes   |-> [i \in DOMAIN f.names |-> f.tables[f.names[i]]],
     wrong   |-> f.wrong, slow |-> f.slow, limited |-> f.limited]

\* Mutant of Valid: a timeout as long as the interval passes.
ValidIfSlow(c) ==
    /\ c.nodes # <<>>
    /\ c.wrong \cap Settings = {}
    /\ c.limited => c.wrong \cap RateSettings = {}
    /\ \A i \in DOMAIN c.nodes : c.nodes[i] # "odd type"

Valid(c) ==
    /\ c.nodes # <<>>
    /\ c.wrong \cap Settings = {}
    /\ c.limited => c.wrong \cap RateSettings = {}
    /\ ~c.slow
    /\ \A i \in DOMAIN c.nodes : c.nodes[i] # "odd type"

Loads(f) == f.decodes /\ Parses(f) /\ Valid(Decoded(f))

\* Mutant of LoadOrDefault: what was decoded before the error is used.
LoadOrPartial(p) ==
    IF p = place /\ file.decodes /\ Parses(file) THEN Decoded(file) ELSE Default

\* Whatever is wrong with the file, the defaults take its place.
LoadOrDefault(p) ==
    IF p = place /\ Loads(file) THEN Decoded(file) ELSE Default

-----------------------------------------------------------------------------
(* main *)

Init ==
    /\ stage = "start" /\ exit = "none"
    /\ args \in {"none", "path", "flag", "help"}
    /\ env \in BOOLEAN
    /\ file \in Files /\ place \in Paths
    /\ cfg = Default /\ nodes = {} /\ healthy = {}
    /\ watched = FALSE /\ limiter = FALSE /\ routed = <<>>

Exit(how) ==
    /\ stage' = "ended" /\ exit' = how
    /\ UNCHANGED <<given, cfg, nodes, healthy, watched, limiter, routed>>

Help == stage = "start" /\ args = "help" /\ Exit("usage")

Load ==
    /\ stage = "start" /\ args # "help"
    /\ stage' = "create" /\ cfg' = LoadOrDefault(ConfigPath)
    /\ UNCHANGED <<exit, given, nodes, healthy, watched, limiter, routed>>

\* Mutant of Created: the nodes are numbered without those left out.
CreatedWithoutGaps ==
    {i - 1 : i \in 1..Cardinality({j \in DOMAIN cfg.nodes : cfg.nodes[j] # "odd url"})}

\* New leaves out a node whose url it cannot parse, and its priority.
Created == {i - 1 : i \in {j \in DOMAIN cfg.nodes : cfg.nodes[j] # "odd url"}}

Create ==
    /\ stage = "create" /\ Created # {}
    /\ stage' = "probe" /\ nodes' = Created
    /\ UNCHANGED <<exit, given, cfg, healthy, watched, limiter, routed>>

NoNodes == stage = "create" /\ Created = {} /\ Exit("failure")

\* Mutant of Probe: the first node is taken for healthy.
ProbeBackups ==
    /\ stage = "probe"
    /\ \E ok \in SUBSET nodes : healthy' = ok \cup {0}
    /\ stage' = "watch"
    /\ UNCHANGED <<exit, given, cfg, nodes, watched, limiter, routed>>

Probe ==
    /\ stage = "probe"
    /\ stage' = "watch" /\ healthy' \in (SUBSET nodes) \ {{}}
    /\ UNCHANGED <<exit, given, cfg, nodes, watched, limiter, routed>>

NoneHealthy == stage = "probe" /\ Exit("failure")

\* NewTicker panics on an interval that is not positive.
Watch ==
    /\ stage = "watch"
    /\ watched' = ("interval" \notin cfg.wrong)
    /\ stage' = IF watched' THEN "limit" ELSE "ended"
    /\ exit' = IF watched' THEN exit ELSE "panic"
    /\ UNCHANGED <<given, cfg, nodes, healthy, limiter, routed>>

Limit ==
    /\ stage = "limit"
    /\ stage' = "listen" /\ limiter' = cfg.limited
    /\ UNCHANGED <<exit, given, cfg, nodes, healthy, watched, routed>>

Listen ==
    /\ stage = "listen" /\ "port" \notin cfg.wrong
    /\ stage' = "serving"
    /\ UNCHANGED <<exit, given, cfg, nodes, healthy, watched, limiter, routed>>

\* The port is taken, or there is no such port; or the server stops.
ListenFails == stage \in {"listen", "serving"} /\ Exit("failure")

-----------------------------------------------------------------------------
(* The routes and the chain of handlers *)

\* allowed is what the limiter would say to the client.
Requests ==
    [path : {"healthz", "metrics", "beacon", "other"}, options : BOOLEAN,
     upgrade : BOOLEAN, allowed : BOOLEAN]

\* ServeHTTP of the load balancer: paths that are not on the list of
\* endpoints are refused, and upgrades have a handler of their own.
Balance(q) ==
    IF q.path = "other" THEN "forbidden"
    ELSE IF q.upgrade THEN "websocket" ELSE "http"

\* The headers for browsers come next, and answer OPTIONS themselves.
Share(q) == IF q.options THEN "preflight" ELSE Balance(q)

\* Mutant of Admit: an upgrade does not count as a request.
AdmitUpgrade(q) ==
    IF limiter /\ ~q.allowed /\ ~q.upgrade THEN "too_many" ELSE Share(q)

\* The middleware of the limiter comes first, if there is one.
Admit(q) == IF limiter /\ ~q.allowed THEN "too_many" ELSE Share(q)

Handler(q) ==
    CASE q.path = "healthz" -> "status"
      [] q.path = "metrics" -> "metrics"
      [] OTHER -> Admit(q)

Serve(q) ==
    /\ stage = "serving"
    /\ routed' = <<q, Handler(q)>>
    /\ UNCHANGED <<stage, exit, given, cfg, nodes, healthy, watched, limiter>>

Main ==
    \/ Help \/ Load \/ Create \/ NoNodes \/ Probe \/ NoneHealthy
    \/ Watch \/ Limit \/ Listen \/ ListenFails

Next ==
    \/ Main
    \/ \E q \in Requests : Serve(q)
    \/ stage = "ended" /\ UNCHANGED vars

Spec == Init /\ [][Next]_vars

FairSpec == Spec /\ WF_vars(stage # "serving" /\ Main)

-----------------------------------------------------------------------------
(* Properties *)

\* Only nodes that were created are taken for healthy, whichever of the
\* configured ones were left out.
TypeOK ==
    /\ stage \in {"start", "create", "probe", "watch", "limit", "listen",
                  "serving", "ended"}
    /\ exit \in {"none", "usage", "failure", "panic"}
    /\ args \in {"none", "path", "flag", "help"}
    /\ env \in BOOLEAN /\ file \in Files /\ place \in Paths
    /\ cfg \in [nodes : Seq(Tables), wrong : SUBSET Mistakes, slow : BOOLEAN,
                limited : BOOLEAN]
    /\ nodes \subseteq 0..MaxNames - 1 /\ healthy \subseteq nodes
    /\ watched \in BOOLEAN /\ limiter \in BOOLEAN
    /\ routed = <<>> \/ /\ routed[1] \in Requests
                        /\ routed[2] \in {"status", "metrics", "too_many",
                                          "preflight", "forbidden", "websocket",
                                          "http"}

\* A node that serves has the priority of its name in the file, although
\* others were left out: the first name, and no other, is the primary
\* (loadbalancer.go:35-51, config.toml.example:66).
PriorityIsThePosition ==
    stage = "serving" =>
        \A i \in 1..MaxNames :
            i - 1 \in nodes <=> i \in DOMAIN file.names
                                /\ file.tables[file.names[i]] = "good"

\* What the other modules assume of the limits holds of every process that
\* starts its health checks, although a file that is not valid never stops
\* one by itself, and no ticker panics (config.go:205-261, 264-353).
LimitsHold ==
    /\ watched => cfg.wrong \cap Settings = {} /\ ~cfg.slow
    /\ limiter => cfg.wrong \cap RateSettings = {}
    /\ exit # "panic"

\* The file is where it is looked for, and has no mistake.
Usable == place = ConfigPath /\ Loads(file)

\* A file that is not at the path asked for, or that has any mistake, ends
\* the process with a failure: the defaults that replace it cannot serve
\* (config.go:196-203, main.go:61-89).
FailsLoudly ==
    (args # "help" /\ ~Usable) ~> exit = "failure"

\* No request gets to the nodes before the startup check has found one that
\* is healthy and the periodic check runs (README.md:217), nor one that the
\* limiter the file asks for refuses, however the request is made.
TrafficIsAdmitted ==
    routed # <<>> /\ routed[2] \in {"http", "websocket"} =>
        /\ healthy # {} /\ watched
        /\ routed[1].path = "beacon" /\ ~routed[1].options
        /\ file.limited => routed[1].allowed

-----------------------------------------------------------------------------
(* The inductive invariant: what main has established when it gets to each *)
(* of its stages, and what remains of that when it has ended.              *)

FromTheFile == Loads(file) /\ cfg = Decoded(file)

Configured == cfg = Default \/ FromTheFile

Served == stage = "serving" \/ routed # <<>>

StartupInv ==
    /\ Configured
    /\ nodes # {} => nodes = Created
    /\ stage \in {"start", "create"} => nodes = {}
    /\ stage \in {"probe", "watch", "limit", "listen", "serving"} => nodes # {}
    /\ stage \in {"watch", "limit", "listen", "serving"} => healthy # {}
    /\ stage \in {"limit", "listen", "serving"} => watched
    /\ watched => nodes # {} /\ healthy # {}
    /\ limiter => watched /\ cfg.limited
    /\ (stage = "listen" \/ Served) => watched /\ limiter = cfg.limited
    /\ routed # <<>> => routed[2] = Handler(routed[1])
    /\ exit # "panic"

=============================================================================
