# consensus-proxy: specifications, model checking and proofs

consensus-proxy puts one HTTP and WebSocket endpoint in front of several
Ethereum beacon nodes. It sends requests to a *primary* node, demotes it when it
keeps failing, promotes a backup, and goes back to the original primary once that
is healthy again. This directory models that program in TLA+, checks the models
with TLC and proves theorems about them with TLAPS. Paths such as
`http_handler.go:189` refer to files under `src/cmd/loadbalancer/` unless a
directory is given or the file's name is unique.

To check: `tlc -config LBGap.cfg MCLoadBalancer` (the module of each run is in
`PROJECT.json`), `tlapm LoadBalancerProofs.tla`, and so on for each `*Proofs.tla`.

## 1. Inventory

| Component | State | Operations | Modelled |
|---|---|---|---|
| Failover core (`loadbalancer/`, `beaconnode/node.go`, `beaconnode/health_check.go`) | `lb.healthyNodes` under `lb.mu`; per node `Priority`, `ConsecutiveErrors`, `ConsecutiveSuccesses` | startup check, choice and blame of nodes by HTTP and WebSocket handlers, demotion, periodic check: promotion, failback, publication | `LoadBalancer`, abstractly `Office` and, each request, `Attempts` |
| HTTP request (`http_handler.go`, `response_recorder.go`) | recorder of an attempt, request body, two deadlines, reply | attempt, record, copy, pass over, reply | `HttpHandler`, abstractly `FirstAnswer` and `Attempts` |
| WebSocket proxy (`websocket_handler.go`) | two connections, `errChan` | dial, upgrade, two pumps, close | `WebSocketProxy`, abstractly `MessageRelay` |
| Rate limiter (`ratelimit/ratelimit.go`) | per-client bucket of request times and `lastSeen`, under `rl.mu` | `Allow`, `cleanup`, `getClientIP` | `RateLimiter`, abstractly `SlidingWindow`; `getClientIP` not |
| DNS cache (`beaconnode/dns_cache.go`) | map from host to addresses under `dnsMutex`, sleeping goroutines | look up, resolve, store, expire, dial | `DNSCache` |
| Metrics (`metrics/client.go`) | three maps of lazily created vectors, no lock; Prometheus' registry | `Incr`, `Timing`, `Gauge` | `Metrics` |
| Configuration and startup (`config/config.go`, `main.go`, `loadbalancer.go`) | the configuration, how far `main` has got | `Load`, `LoadOrDefault`, `Validate`, `New`, the order of `main` | `Service` |
| Routing and middleware (`main.go`, `handlers/`, `Middleware`) | none | the chain of handlers | `Service` |
| Validator (`validator/validator.go`) | none | one pure function | two classes of paths in `Service` |
| Proxy director and transport, logger | none | header rewriting, output | not modelled |

How they interact:

* `main` loads the configuration, builds the load balancer, runs the startup
  check (which may end the process), starts one health-check goroutine and then
  serves. A request passes rate limiter, CORS handler and validator before it
  reaches the load balancer (`Service`).
* Request handlers and the health-check goroutine share `lb.healthyNodes` (under
  `lb.mu`), the priorities (under a lock per node) and the counters (atomics).
  No lock spans two of them in a handler, and the health check holds `lb.mu` only
  after all its results are in (`LoadBalancer`).
* A handler takes a snapshot of the list and goes through it. `LoadBalancer` has
  what an attempt does to the node and the list and leaves its outcome open;
  `HttpHandler` and `WebSocketProxy` have how the outcome comes about and what the
  client sees, and leave the list open: a request may find any list. What
  `LoadBalancer` and `HttpHandler` say of the loop itself is one: each request of
  either implements the abstract loop `Attempts`, which is proved for both.
* All of them call the metrics client, from many goroutines (`Metrics`), and all
  transports resolve names through one cache (`DNSCache`).
* Nodes answer, fail, hang or cut off at any time. Attempts are bounded by the
  request timeout, dials by the dialer, checks by the health-check timeout; a
  WebSocket write is bounded by nothing.
* Nothing is persisted: there is no recovery to model. A restart is `Init`.

What makes each component correct:

* *Failover core*: a demoted node leaves the rotation; no request tries a node
  twice for good; the primary's office is never taken from its holder except by the
  original primary, and goes to the best healthy backup; a healthy node is used
  and a failing one is not; requests end.
* *HTTP request*: the reply is one whole answer of the first node in the list that
  gave a success, or an error of the proxy; a body goes to one node; nodes are
  blamed for their own failures only; a deadline ends the request.
* *WebSocket proxy*: messages are forwarded in order, both pumps and both
  connections end with the session, and what a peer said before it left arrives.
* *Rate limiter*: no window of time holds more than the limit, and no request is
  refused that fits.
* *DNS cache*: an address is kept for the TTL after it was resolved and no longer.
* *Metrics*: each sample is shown, and no call panics or ends the process without a
  cause in how its maps or labels are used.
* *Service*: what is wrong with a file ends the process loudly; what is served is
  what the file says; traffic waits for the checks and passes the limiter.

`PROJECT.json` lists the hazards at their lines, with the properties that would
catch them; five have none, with the reason. In the modules, a definition called a
*mutant* of another is a plausible slip, defined so that TLC can show that it
breaks a property; no specification uses one.

## 2. The failover core: `LoadBalancer`, `Office`

A node is its position in the configured list, which is its `OriginalPriority`.
`New` skips nodes whose URL does not parse, so `Nodes` may have gaps, and need not
contain 0.

| Variable | Code |
|---|---|
| `healthyNodes` | `lb.healthyNodes` |
| `priority`, `errors`, `successes` | `Priority`, `ConsecutiveErrors`, `ConsecutiveSuccesses` of each node |
| `pc`, `todo` | where each handler is in its loop, and the nodes of its snapshot still to try, the current one first |
| `hc`, `chosen` | where `main`, then the health-check goroutine, is, and the node it is working on |
| `toScan`, `checking`, `newHealthy`, `kept` | locals of `performHealthCheck`: nodes not scanned yet, checks outstanding, `newHealthyBackups`, the primary at the head of `updatedHealthyNodes` |

Request handlers: `Receive` takes the snapshot; `Succeed`, `ClientError`, `Fail`
and `Abandon` are the outcomes of an attempt; `Fail` begins the blame of a
node, which continues with `ClearSuccesses`, `LoadErrors`, `CheckPrimary`,
`Demote` and `Unlist`, each of them one access to shared state. A plain request
(`HttpRequests`) reads the error count and then asks `IsPrimary`; a
WebSocket dial (`Upgrades`) does so the other way round, ignores `max_retries`,
and resets no counter when it succeeds.

Health check: `Startup`; then per round `Tick`, `Scan` for each node, `Launch`,
`Healthy`/`Credit` or `Unhealthy` for each result in any order, `Lock`, and with
`lb.mu` held `FindPrimary`, `Reinstate`, `Pardon`, `Relegate`, `Restore`, `Elect`,
`Promote`, `Absolve`, `Publish`.

`Office` is what failover promises of priority 0: nodes give the office up one at a
time, the original primary may come back to it, and another node is appointed only
when nobody is left in it. `HoldsOffice` states that the set of nodes of priority 0
in `LoadBalancer` behaves so.

`Attempts` is the loop of one plain request: it takes at most `MaxRetries` nodes,
tries them in turn, blames a node only while it is the current one, goes on to the
next after that, and cannot end with a charge half done. `KeepsToItsSnapshot` states
that every plain request of `LoadBalancer` behaves so (`RequestOf(h)`), `LoopsAlike`
that the one of `HttpHandler` does (`Loop`). So the two modules, of which one follows
the nodes and their counters and the other answers and deadlines, agree on where
they meet.

Choices of the model:

* *Grain.* Each access to shared state is a step. `Restore`, the scans for a
  primary in `FindPrimary` and `Elect`, and the choice of `Promotable` are one
  step each although they read or write several nodes: only a demotion can
  change a priority meanwhile, always from 0 to `MaxPriority`, and each
  interleaving of it with the loop is equal to one before or after the step, except
  that two demotions of different nodes could straddle one loop.
* *Locks.* `lb.mu` is held in the phases `Locked`; a critical section of a handler
  is one step that needs it free. The node locks guard single accesses.
* *Counters* saturate at the limit they are compared with, which loses nothing.
  `TotalFailures` and `Requests` are written only and left out.
* *The data race* of `websocket_handler.go:94` (a plain read of an atomic counter)
  has one outcome on 64-bit builds, the current value.
* *Abandon* joins three ways a request ends without blaming a node; `HttpHandler`
  tells them apart.
* *Dials* may succeed here, although as the code stands they never do (section 4):
  the model allows more than the code does, so its safety properties hold either way.
* *Names.* The code compares names where the model compares nodes: names are
  taken to be distinct, which `Validate` does not enforce.
* *Metrics* calls are taken to return; `Metrics` shows when they do not.

### Runs

| Run | Instance | Shows |
|---|---|---|
| `LBGap` | nodes 0 and 2 (1 was skipped), one request and one dial, threshold 2, one attempt, 2 checks for failback | `TypeOK`, `DemotedIsLeaving`, `TwiceListedIsLeaving` when the two kinds of handler share a count and may demote the same node twice, and when the priority of a demoted node is one a backup is configured with |
| `LBLive` | 3 nodes, one request, 2 attempts, threshold 1, fair | `OfficeInv`, `HoldsOffice`, `PromotesBest` with a real choice of backup; `RequestsEnd`, `HealthyBackupIsListed`, `FailingBackupIsUnlisted`, `OriginalPrimaryReturns` |
| `LBOutage` | 2 nodes, one request, fair | violation, section 8 |

Why the bounds are enough to be interesting: a demotion needs a threshold only
to be reached, and 1 and 2 give both "at once" and "by two handlers together";
two failback checks give one that is not enough and one that is; two nodes give a
primary and its stand-in, three a choice of stand-in and a backup that stays
one. Handlers receive requests without end, and the check runs without end, so
no run is bounded in length. More nodes and handlers are the matter of the proofs.

With a gap `PromotesBest` does not hold in one race: a node demoted during the
round gets the priority `len(lb.nodes)`, which can be at or below that of a backup
configured later. The theorem has the absence of that case as its hypothesis.

### Fairness

`FairSpec` adds: weak fairness of startup and of the health-check goroutine (its
ticker never stops, each check has a timeout, and Go grants a lock to a waiter in
time); strong fairness of each handler's next step, since a handler that waits for
`lb.mu` finds it free again and again rather than for ever, and `sync.RWMutex` does
not starve a waiter; the attempts themselves are bounded by `request_timeout` and
the dialer's handshake timeout. Nothing is assumed of the arrival of
requests nor of the outcome of attempts and checks: the liveness properties state
as hypotheses which nodes stop failing.

### Proofs

`LoadBalancerProofs` proves, for any set of nodes with or without gaps, any
handlers and any limits (assumptions: `NodesAssumption`, `HandlersAssumption`,
`LimitsAssumption`, the last from `Config.Validate`): `TypeCorrect`;
`RoundCorrect` (`[]RoundInv`); and from it `DemotedNodesLeave`,
`NoLastingDuplicate`, `AtMostOneStandIn`. `OfficeProofs` proves `OfficeCorrect`
(`[]OfficeInv`), `BestIsPromoted` (for nodes whose configured priorities do not
exceed `MaxPriority`), the refinement `OfficeIsHeld`, and `RoundsAppoint`: a round
that found a healthy backup leaves a primary, unless a handler has just demoted one
and waits for `lb.mu` to take it off the list.

What the liveness properties of `LBLive` rest on is proved as far as it needs no
temporal logic. `RequestsRunOut`: whatever the other goroutines do, each step of a
request lowers `StepsLeft`, six for each node it still has, and nobody else's
step moves it; for a plain request this begins at no more than
`6 * MaxRetries + 1` (`RequestsStayShort`). `RoundsRunOut`: each step of a round
lowers `RoundStepsLeft`, so that `lb.mu` is given back. `NobodyStaysStuck`: a round
in one of the loops that look for a node finds one or has a branch for none; the
proof needs that a set of nodes has a least one, which is well-foundedness of the
naturals. Any other wait is for `lb.mu`. What is left to TLC is the step from
there to `RequestsEnd`, which is about fairness and `ENABLED`.
`RequestsKeepTheirSnapshot` is the refinement of `Attempts`.

`DemotedIsLeaving` alone is not inductive: the list published at the end of a
round was put together while demotions went on. `RoundInv` says what a round has
established whenever it is interrupted: each backup is outstanding, being
credited or collected, once (`EachOnce`); a node 0 under check that is still
listed is being removed (`OriginalIsLeaving`), hence the primary carried over
can be among the collected nodes only if a handler is about to remove it
(`KeptWasListed`); demoted nodes of the list to be published are on their way out
(`ToPublishIsLeaving`); no primary appears between the election and the promotion
(`NoRival`). The steps of handlers and the steps of a round are each shown to
preserve the parts they can disturb, grouped in lemmas (`HandlerStep`,
`CollectStep`, `FailbackStep`, `ElectStep`, `PublishStep` and others). For the
office, `OfficeInv` adds that until it is restored a node of the round other than
the original primary is a backup (`RoundIsOfBackups`), so that `Restore` makes no
primary but the original, and that failback relegates another node than it
reinstates (`StandInIsAnother`).

## 3. One plain request: `HttpHandler`, `FirstAnswer`

| Variable | Code |
|---|---|
| `pc`, `list`, `tried` | where `handleHTTPRequest` is, its snapshot, `i` |
| `recorder` | the `responseRecorder` of the attempt: first status and body |
| `body` | `r.Body`: absent, unread, or closed by the reverse proxy |
| `reply` | what was written to `w`: a relayed answer, 502, 504, nothing (`implicit`), or the connection dropped (`aborted`) |
| `clock`, `gone` | which of `start + RequestTimeout` and the deadline of `overallCtx` have passed; the client has left |
| `cut`, `reached`, `given`, `outcome`, `hinted`, `complete`, `blamed` | history: when time or client ran out, and what became of each attempt |

The handler's own steps are `Receive`, `Exhausted`, `Abandon`, `CheckTimeout`,
`OutOfTime`, `Attempt`, `Relay`, `PassOver`. `httputil.ReverseProxy` is external
and acts as its calls of the recorder show: it sends the request and closes the body
(`Send`), calls its error handler (`Refuse`, `Lose`), passes on a 1xx
(`Informational`), a header, pieces of the body (`Copy`), and panics with
`ErrAbortHandler` when an answer breaks off (`Break`). It closes the body after any
attempt, also one that was refused. A retry with a body therefore sends the request
line and the headers, finds the body closed, and fails, unless the node answers before
it has read the body: `Send` has no condition on the body, `given` remembers the
attempts that found it unread, and `Lose` is the failure to read it. The two deadlines differ by the
moments between `start` and `context.WithTimeout`, and so does what the handler
does: 504 in between, an unwritten reply after both.

`HTTPRequest` checks lists of up to three nodes with two attempts and answers of up
to two pieces: enough for a list that is longer, as long as and shorter than the limit,
for an answer broken between two pieces, and for every pair of outcomes.
`ReplyIsOneAnswer`, `BodyGoesToTheFirst`, `NoBlameForAnAnswer`,
`SuccessIsNotRetried`, `NoAttemptAfterTheCut` are its safety properties.

`RelaysFirstAnswer` is the refinement of `FirstAnswer`. There a node that was asked is
*pending*, sends pieces, and ends as a *success* or a *failure*; the next one is asked
only after a failure; a success can only become the reply, with all the pieces of that
node and no other; "unavailable" needs every node that may be asked to have failed, and
the request is cut short only while one is asked or left to ask. The verdict is read
off the history of what the nodes sent (`Verdict`), not off the recorder from which the
code decides, so that the refinement fails when the recorder or the order of
the tests loses a success. `RequestEnds` holds under
weak fairness of the handler, of time, and of the end of an attempt whose context
is done, which `net/http` promises; of the nodes nothing is assumed, so one that
never answers is included.

`HttpHandlerProofs` proves type correctness, the five safety properties and the
refinement, for any nodes, limits and lengths (`HandlerAssumption`). The inductive
invariant `HandlerInv` adds that nothing is written before the handler returns, what
the recorder holds is this attempt's (`Recorded`, by phase), that an answer
belongs to an attempt that was sent (`Traced`), that an unread body has been in no
attempt (`UnreadIsFirst`), and when the cut was made (`CutKept`). The refinement rests on
it: between two attempts the last has failed (`FailedBetween`), and what the recorder
shows as a success is one (`SuccessIsOne`). From it follow three more theorems. `OnlyEarnedErrors`: a
502 means that every node that might be asked was asked and none succeeded (except
behind a 1xx), a 504 and the empty 200 that the time was up or the client gone with
nodes left to ask, a dropped connection that an answer broke off.
`StepsCountForProgress`: each step ends the request, goes on to the next
node or phase, or copies a piece of the answer; only a node that sends 1xx after 1xx
can keep it where it is, which is why `RequestEnds` needs the deadlines.
`LoopsAreAlike`: the refinement of `Attempts`. `RequestEnds` itself is model-checked
only.

## 4. A WebSocket: `WebSocketProxy`, `MessageRelay`

`Receive`, `Dial`, `DialFails`, `Upgrade`, `UpgradeFails`, `Settle`,
`CloseClient`, `CloseUpstream` are the handler; `Read`, `ReadFails`, `Write`,
`WriteLost`, `WriteFails`, `Report` the goroutine that reads from one side and writes
to the other; `Send`, `Take`, `Leave`, `Break` the two peers. A peer that leaves is
heard out, one that breaks off loses what was under way; a peer that does not read
stops writes to it after `Window` messages; a write to a peer that is gone may fail
or go unnoticed. `errors` is `errChan`, with its two places.

*`Stripped`.* The code dials with the client's own headers
(`websocket_handler.go:83`), and the dialer of gorilla/websocket 1.5.3 returns an
error for `Upgrade`, `Connection` and the `Sec-Websocket-*` headers a handshake must
have. So no session begins: this is the code with `Stripped = FALSE`, which run
`WSUpgrade` shows (section 8). What lies behind the dial is checked with
`Stripped = TRUE`, that is, as it would run if those headers were taken out before
the dial; the pumps and the closing are as in the code. The theorems hold for both
values.

`WebSocket` checks two nodes, two messages from each peer and a window of one: a pump
can hold a message while another is unread, and a write can wait. It shows
`NothingLeftBehind`, `ClosedWhenDone`, `PumpsEnd` (no goroutine stays behind although
only one error is received), `SessionEnds` (if both peers keep reading or go: a write
has no deadline) and `RelaysBothWays`, each direction's refinement of `MessageRelay`.
Fairness: handler and pumps run; nothing is assumed of the peers.

`WebSocketProofs` proves type correctness, `ClosedWhenDone`, `NothingLeftBehind` and
`RelaysBothWays` for any nodes, windows and numbers of messages. The inductive
invariant `SessionInv` says which connections and pumps there are by where the
handler is (`Lifecycle`), that a read fails before the close only when its peer is
gone and drained (`ReadErrorsAreFinal`), and that what was written, held and unread
are, in this order, the messages sent (`Flow`).

`PumpsEnd` is proved up to its temporal part. Each pump reports one error, which is
in `errChan` or was taken by the handler (`EachReportsOnce`), so the two places of
`errChan` are enough and a send never blocks (`SendsNeverBlock`). Once the handler is
done no pump waits, whether its peer reads or not (`NoneWaitsAfterwards`; `CanMove`
collects the guards of a pump's steps, and TLC found it equal to `ENABLED` of them on
the instance of the run), and each has at most three steps left (`PumpsRunOut`). That
a pump which can move does move is fairness, and stays with TLC, as all of
`SessionEnds`. `NothingIsOpened` proves for any nodes what run `WSUpgrade` shows of
two: with `Stripped = FALSE` no connection is ever opened or switched.

## 5. The rate limiter: `RateLimiter`, `SlidingWindow`

`Allow` and one sweep of `cleanup` are critical sections of `rl.mu` that read the
clock inside, so each is a step; `Elapse` lets time pass up to `Horizon`. `cleanup`
runs each minute; in the model it may run at any time, which includes that. The
history `granted` records when requests were granted; a bucket is the set of places of
that history it still holds, so two grants in one instant remain two.
`Expiry` stands for the five minutes of `ratelimit.go:83`.

`SlidingWindow` is what such a limiter promises: a request is granted exactly when
fewer than `Limit` were granted to its client within the last `Window`. It has no
buckets, no trimming, no deletion. `IsSlidingWindow` states that `RateLimiter`
implements it, `now`, `granted` and `answer` being the same.

`RLWindow` (2 clients, limit 2, window 3, expiry 3, 7 ticks) checks `TypeOK`,
`Remembered`, `WindowsHoldLimit`, `IsSlidingWindow`; the expiry equals the window,
the boundary case, and the horizon lets two windows and a deletion fit.

`RateLimiterProofs` proves for any clients, limit, window and horizon:
`BucketsAreBounded` (`[]TypeOK`, whatever the expiry) and, provided
`Window <= Expiry`, `NothingForgotten` (`[]Remembered`), `LimitHolds`
(`[]WindowsHoldLimit`) and the refinement `SlidesLikeTheWindow`. Without that
hypothesis the same holds for what the limiter remembers for sure, `Memory`, which is the window or,
when that is longer, the expiry and an instant: `MemoryLasts`, `LimitHoldsInMemory`.
So a window above five minutes is weakened to a limit on each five minutes, and no
further. The inductive invariant `SlidingInv` adds that grants are in order and none is later than
its client was last seen (`Timely`): that is why a bucket old enough to be
deleted holds nothing that counts. The bound on windows is a counting argument: if
the grant `Limit` places back were less than a window ago, so would be
all grants since, and the bucket would be full.

## 6. Shared helpers: `DNSCache`, `Metrics`

`DNSCache`: `Hit` and `Miss` are the look-up under the read lock, `Resolve` and
`Unresolved` the DNS query of any length, `Store` the write, `Spawn` the `go`
statement, `Expire` the deletion by a goroutine that wakes up, `Connect`, `Refused`,
`GiveUp` the dials. An entry is its number of addresses and its age. Time is
discrete: a tick passes only when no goroutine is due (`Prompt`), so that "as old as
the TTL" is exact up to the moments the code takes between two waits. Run `DNSCache`
has two callers and hosts, a TTL of two ticks, and shows `AnswersAreFresh`,
`LoneEntryLastsTheTTL` (an entry goes early only when callers missed together) and
`EntriesExpire` (an address that refuses every connection is not used for ever), the
last under fairness of time and of what is due, not of lookups and dials.
`DNSCacheProofs` proves all but the last for any hosts, callers and TTL; the
invariant is that each entry has a goroutine that will delete it when it is exactly as
old as the TTL, or is about to get one (`DeletionIsDue`). `NothingPutsOffADeletion` is
the part of `EntriesExpire` that needs no temporal logic: a deletion due in k ticks is
due in k - 1 after the next, whatever is hit, looked up or stored meanwhile.

`Metrics`: a call looks its name up, registers a vector when there is none, writes the
map (with a beginning and an end, since the Go runtime may notice another access in
between and stop the process, or not), and observes. A panic of a handler is
recovered by `net/http`, one of the health check ends the process. `AllSites` lists
the calls in the source with their map, name and number of labels. Run `Metrics` has
two handlers and the checker with the calls that share names, labels and maps in
each way there is, two calls each; the call sites of one name with different labels
are in it, panics included. `NothingUncounted`: whatever is created concurrently, the
calls that return observe into the vector that `/metrics` shows. `met` remembers the
maps at which two goroutines have been at once between the look-up and the end of the
write, which is where a lock is missing. `PanicsHaveACause`: a call fails over labels
that its name is used with in another number, or because two goroutines have met
at its map, be it long ago (of two writes one may be lost, and the next call registers
the name again and panics, alone); nothing else panics or ends the process. `MetricsProofs`
proves both for any goroutines and call sites. The invariant `MetInv` is that a
registered name is in its map, or is being written there, unless two goroutines have met
over it. `MetricsCrash` is the counterexample to staying up, section 8.

## 7. Startup and routing: `Service`

`Service` takes the process from its arguments to the answer of a request. `Files` are
the configuration files: whether one decodes, the names of its list, the table of
each, the settings out of range, whether the check's timeout is below its interval,
whether the limiter is on. `LoadOrDefault` replaces whatever does not load by
defaults, which have no nodes; `Create` leaves out nodes whose URL does not parse;
`Probe`, `Watch`, `Limit`, `Listen` are the statements of `main` in their order, each of
which may end the process; `Handler` is the mux, and `Admit`, `Share`, `Balance` are the
limiter's middleware, the CORS handler and `ServeHTTP`.

Run `Service` enumerates all files of up to two beacons with at most one of two
settings wrong, one checked always and one checked with the limiter: `Validate`
treats the others alike. `PriorityIsThePosition`, `LimitsHold` (what the assumptions of
`LoadBalancer` and `RateLimiter` need; and no ticker panics), `TrafficIsAdmitted` (no
request reaches the nodes before the startup check, or around the limiter) and
`FailsLoudly` (a file that is missing or has any mistake ends the process with
a failure), the last under fairness of `main` up to the moment it serves.
`ServiceProofs` proves the first three and the types, by `StartupInv`: what `main` has
established at each stage. It also proves what `FailsLoudly` says apart from time:
`NothingElseServes` (a file that is missing or wrong gets no process beyond the
creation of its nodes, one that ended has failed, and what serves has every setting
of the file) and `StartupIsInOrder` (each step of `main` goes to a later stage of eight,
and requests change nothing of what it established).

## 8. Where the code does not do what is said of it

Shown by runs:

| Run | What happens |
|---|---|
| `LBOutage` | The restore loop (`health_check.go:298-307`) gives the original primary its priority back early; two nodes have priority 0 and one is listed. When that one fails, the other counts as the current primary, so nothing is promoted; without another backup the list stays empty although a healthy node exists. README.md:7 says automatic failover. |
| `MetricsCrash` | `healthcheck.failed` has a label more when a node answered with another status than 200 (`health_check.go:197`). The second form to be used panics, in a goroutine nobody recovers: the process ends. README.md:11 lists health check status among the metrics. |
| `WSUpgrade` | No WebSocket session can begin (section 4); each attempt counts as an error of every listed node and may demote the primary. README.md:10 says bidirectional WebSocket proxying. |
| `HTTPClientError` | A 4xx answer is retried and ends as 502 (`http_handler.go:80-98`). README.md:206 says retry on failure (5xx). |

Found while modelling, visible in the definitions but not in a run of their own:

* A demoted original primary displaces its stand-in after one healthy check, whatever
  `successful_checks_for_failback` is (`health_check.go:305`; README.md:213): `Restore`.
* Backups are listed in the order their checks returned (`health_check.go:370`), so
  a request may try a lower-priority one first (README.md:205): `Healthy`, `Publish`.
* A handler demotes the primary, a whole round of checks runs before it gets `lb.mu`
  and makes the node primary again, and the handler then drops it from the list
  (`http_handler.go:196`; README.md:218): `Demote`, `Unlist`.
* A primary that fails the startup check keeps priority 0, is not listed, and is never
  checked (`health_check.go:125`; the comment at 103 says all nodes are): `Startup`, `Scan`.
* A request whose deadline has passed at the loop head is answered with an empty 200
  (`http_handler.go:62-64`): `Abandon`, reply `implicit`.
* A request with a body is retried though its body is closed (`http_handler.go:123-130`;
  README.md:206): the next node gets the headers only, the attempt fails unless
  that node answers early, and the healthy node is charged an error (171): `Consume`,
  `Send`, `Lose`.
* A 1xx answer hides the success behind it (`response_recorder.go:21-25`), which is why
  `SuccessIsNotRetried` excludes it.
* With a rate-limit window above five minutes, cleanup forgets grants that count
  (`ratelimit.go:83`; `client_expiry` of config.toml.example:31 is never read): the
  hypothesis `Window <= Expiry`. Theorem `LimitHoldsInMemory` says what is left of
  the limit.
* `requests_per_second` limits the whole window, by default a minute (`ratelimit.go:69`;
  config.toml.example:28): `Allow`.
* A DNS entry may be deleted before its TTL when callers missed together
  (`dns_cache.go:47-52`; README.md:13): the hypothesis of `LoneEntryLastsTheTTL`.
  `AnswersAreFresh` bounds the age of an entry in the cache; a caller that took the
  addresses before may still dial them later (`dns_cache.go:57-66`): `Connect`.
* The section `[healthcheck]` of README.md:110 and config.toml.example:56 is ignored:
  the tag is `health` (`config.go:22`), and the defaults stay in force.

## 9. Only model-checked, and not modelled

Liveness (`RequestsEnd`, `HealthyBackupIsListed`, `FailingBackupIsUnlisted`,
`OriginalPrimaryReturns`, `RequestEnds`, `PumpsEnd`, `SessionEnds`, `EntriesExpire`,
`FailsLoudly`) is beyond the prover, which has no rule for fairness or `ENABLED`, and
stays with TLC. Every other property of a passing run is a theorem.

| Liveness, checked by TLC | The part of it that is proved |
|---|---|
| `RequestsEnd` | `RequestsRunOut`, `RequestsStayShort`, `RoundsRunOut`, `NobodyStaysStuck` |
| `OriginalPrimaryReturns`, `HealthyBackupIsListed` | only that a round ends and appoints: `RoundsRunOut`, `RoundsAppoint` |
| `FailingBackupIsUnlisted` | only that a round ends: `RoundsRunOut` |
| `RequestEnds` | `StepsCountForProgress`, `CutIsFinal` |
| `PumpsEnd` | `SendsNeverBlock`, `NoneWaitsAfterwards`, `PumpsRunOut` |
| `SessionEnds` | nothing beyond the above |
| `EntriesExpire` | `DeletionsAreDue`, `NothingPutsOffADeletion` |
| `FailsLoudly` | `NothingElseServes`, `StartupIsInOrder` |

The properties that are theorems without being in a run (those of the right column,
`ErrorsAreEarned`, `KeepsToItsSnapshot`, `LoopsAlike`, `MemoryHoldsLimit`
and the others of sections 2 to 7) were each put to TLC on the
instance of their component's run before they were proved. Those that only the
proofs use are defined in the `*Proofs` modules, which TLC reads too: to repeat
it, let the run's module extend that one, and name them as INVARIANT or PROPERTY in a
copy of the cfg.

Not modelled: the contents of requests and responses, headers and how the director
rewrites them (no state, and no property here is about them); how `getClientIP` and
the validator parse (pure functions of strings); logging (output only); TLS and
connection pooling (external). `net/http`, `httputil.ReverseProxy`,
`gorilla/websocket`, the Go runtime and the Prometheus library appear only as the
outcomes they can have. `GetStats` and `IsHealthy` of a node are used by tests only.
The modules are not composed into one: what they share is small (a handler's outcome, a
list, the validated limits) and each takes it as arbitrary, or assumes what `Service`
is shown to provide; the loop that `LoadBalancer` and `HttpHandler` share is `Attempts`.

## 10. What is left

Proofs of the liveness properties are out of reach. Worth proving: what the abstract
specifications promise by themselves (that `SlidingWindow` holds the limit in every
window, that `Office` has one stand-in at most, that `FirstAnswer` never replies with the
pieces of two nodes), so that each refinement carries it over; and bounds on a
health-check round in terms of what the list holds after it. Worth
modelling: a composition of `HttpHandler` with `LoadBalancer`, in which the outcome of an
attempt and the blame it brings are one, beyond the common loop `Attempts`;
`getClientIP` as a function on kinds of headers; and nodes with equal names, which
`Validate` lets through.
