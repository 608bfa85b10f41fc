---------------------------- MODULE HttpHandler ----------------------------
(***************************************************************************)
(* One plain request on its way through handleHTTPRequest: the attempts at *)
(* the nodes of its snapshot of the list, the recorder that keeps a node's *)
(* answer until it is known to be a success, the body that can be sent     *)
(* only once, the two deadlines, and the reply the client gets.            *)
(*                                                                         *)
(* Around the handler, and at any time, the deadlines pass, the client     *)
(* leaves, and a node refuses, hangs, answers or breaks off.  What becomes *)
(* of the node's counters and of the list is LoadBalancer's; here an       *)
(* attempt is either charged to its node or not.                           *)
(*                                                                         *)
(* Grain.  The reverse proxy calls the recorder several times in an        *)
(* attempt, and the deadline is read at several places: each is a step.    *)
(***************************************************************************)
EXTENDS Naturals, Sequences, FiniteSets

CONSTANTS
    Nodes,       \* the nodes a list can hold
    MaxLength,   \* bound: the longest list a request may find
    MaxRetries,  \* server.max_retries
    Chunks       \* bound: how often the reverse proxy writes a node's body

ASSUME HandlerAssumption ==
    /\ MaxLength \in Nat
    /\ MaxRetries \in Nat \ {0}
    /\ Chunks \in Nat

VARIABLES
    pc,        \* where the handler is
    list,      \* healthyNodes, as GetHealthyNodes returned it
    tried,     \* i: the attempts that are over
    recorder,  \* the responseRecorder of the current attempt
    body,      \* r.Body: absent, unread or closed
    reply,     \* what was written to w
    clock,     \* which of the two deadlines have passed
    gone,      \* the client has closed its connection
    cut,       \* history: the attempt during which the request first ran
               \* out of time or lost its client, 0 before that
    reached,   \* history: the attempts whose request left the proxy
    given,     \* history: those that left with the body still to be read
    outcome,   \* history: the status of each attempt's answer, if it gave one
    hinted,    \* history: the attempts whose answer began with a 1xx
    complete,  \* history: the attempts whose answer arrived to its end
    blamed     \* history: the attempts charged to their node as errors

around  == <<clock, gone, cut>>
history == <<reached, given, outcome, hinted, complete, blamed>>
vars    == <<pc, list, tried, recorder, body, reply, around, history>>

\* Status codes matter by their class: 1xx, 2xx or 3xx, 4xx, 5xx and above.
\* A recorder starts with statusCode 0 and no body.
Final == {"ok", "client", "server"}

NoAnswer == [status |-> "none", body |-> <<>>]

Lists == UNION {[1..k -> Nodes] : k \in 0..MaxLength}

\* Mutant of Allowed: i > MaxRetries ends the loop.
AllowedOneMore == IF Len(list) <= MaxRetries THEN Len(list) ELSE MaxRetries + 1

\* The loop ends with the list or with MaxRetries.
Allowed == IF Len(list) < MaxRetries THEN Len(list) ELSE MaxRetries

Current == list[tried + 1]

\* The context of the attempt is done: its own deadline is not before
\* start + RequestTimeout and not after the overall one.
Expired == clock # "ahead" \/ gone

\* Mutant of OverallDone: the loop does not look at its context.
OverallNever == FALSE

\* The overall context is done: its deadline is RequestTimeout after its
\* creation, a little later than start + RequestTimeout.
OverallDone == clock = "over" \/ gone

Init ==
    /\ pc = "idle" /\ list = <<>> /\ tried = 0
    /\ recorder = NoAnswer /\ body \in {"absent", "unread"} /\ reply = NoAnswer
    /\ clock = "ahead" /\ gone = FALSE /\ cut = 0
    /\ reached = {} /\ given = {} /\ outcome = <<>> /\ hinted = {}
    /\ complete = {} /\ blamed = {}

-----------------------------------------------------------------------------
(* The handler *)

Receive(l) ==
    /\ pc = "idle"
    /\ pc' = "head" /\ list' = l
    /\ UNCHANGED <<tried, recorder, body, reply, around, history>>

Done(status, data) ==
    /\ pc' = "done"
    /\ reply' = [status |-> status, body |-> data]
    /\ UNCHANGED <<list, tried, recorder, body, around, history>>

\* The loop is over: 502.
Exhausted == pc = "head" /\ tried = Allowed /\ Done("bad_gateway", <<>>)

\* checkRequestTimeout: the handler returns and has written nothing, which
\* net/http sends as an empty 200.
Abandon ==
    pc = "head" /\ tried < Allowed /\ OverallDone /\ Done("implicit", <<>>)

CheckTimeout ==
    /\ pc = "head" /\ tried < Allowed /\ ~OverallDone
    /\ pc' = "check"
    /\ UNCHANGED <<list, tried, recorder, body, reply, around, history>>

\* No time is left by the handler's own clock: 504.
OutOfTime == pc = "check" /\ clock # "ahead" /\ Done("timeout", <<>>)

\* Mutant of NewRecorder: all attempts share one recorder.
SameRecorder == recorder

NewRecorder == NoAnswer

Attempt ==
    /\ pc = "check" /\ clock = "ahead"
    /\ pc' = "send" /\ recorder' = NewRecorder
    /\ outcome' = Append(outcome, "none")
    /\ UNCHANGED <<list, tried, body, reply, around, reached, given,
                   hinted, complete, blamed>>

Success == recorder.status = "ok"

\* Mutant of Relay: a success is dropped when the deadline has passed.
RelayInTime ==
    /\ pc = "settle" /\ Success
    /\ IF Expired THEN Done("timeout", <<>>) ELSE Done("ok", recorder.body)

\* handleSuccessResponse copies the recorder to the client.
Relay == pc = "settle" /\ Success /\ Done("ok", recorder.body)

\* Mutant of Charged: a client error counts as well.
ChargedFrom400 == recorder.status \in {"client", "server"}

\* handleNodeError charges answers of 500 and above.
Charged == recorder.status = "server"

\* handleNodeError, and on to the next node.
PassOver ==
    /\ pc = "settle" /\ ~Success
    /\ pc' = "head" /\ tried' = tried + 1
    /\ blamed' = IF Charged THEN blamed \cup {tried + 1} ELSE blamed
    /\ UNCHANGED <<list, recorder, body, reply, around, reached, given,
                   outcome, hinted, complete>>

-----------------------------------------------------------------------------
(* The reverse proxy, writing to the recorder *)

\* Only the first status is kept.
WriteHeader(status) ==
    recorder' = [recorder EXCEPT !.status = IF @ = "none" THEN status ELSE @]

\* A body without a status implies 200.
Write(data) ==
    recorder' = [status |-> IF recorder.status = "none" THEN "ok"
                            ELSE recorder.status,
                 body |-> Append(recorder.body, data)]

\* Mutant of Consume: the body is kept in memory and sent again.
ConsumeCopy == UNCHANGED body

\* Whatever becomes of the attempt, the reverse proxy closes the body.
Consume == body' = IF body = "absent" THEN "absent" ELSE "closed"

\* The request line and the headers leave first, also in an attempt that
\* finds the body closed: only then is the body read.
Send ==
    /\ pc = "send"
    /\ Consume
    /\ pc' = "wait" /\ reached' = reached \cup {tried + 1}
    /\ given' = IF body = "unread" THEN given \cup {tried + 1} ELSE given
    /\ UNCHANGED <<list, tried, recorder, reply, around, outcome, hinted,
                   complete, blamed>>

\* The error handler of the reverse proxy: 502.
ProxyError ==
    /\ pc' = "settle"
    /\ WriteHeader("server")
    /\ UNCHANGED <<list, tried, reply, around, history>>

\* The node refuses the connection.
Refuse == pc = "send" /\ Consume /\ ProxyError

\* The node breaks off before its answer, or the body cannot be read again
\* after the headers were sent.
Lose == pc = "wait" /\ ProxyError /\ UNCHANGED body

\* A 1xx answer is passed on to the recorder like any other.
Informational ==
    /\ pc = "wait"
    /\ WriteHeader("info")
    /\ hinted' = hinted \cup {tried + 1}
    /\ UNCHANGED <<pc, list, tried, body, reply, around, reached, given,
                   outcome, complete, blamed>>

Header(status) ==
    /\ pc = "wait"
    /\ pc' = "copy"
    /\ WriteHeader(status)
    /\ outcome' = [outcome EXCEPT ![tried + 1] = status]
    /\ UNCHANGED <<list, tried, body, reply, around, reached, given, hinted,
                   complete, blamed>>

Copy ==
    /\ pc = "copy" /\ Len(recorder.body) < Chunks
    /\ Write(Current)
    /\ UNCHANGED <<pc, list, tried, body, reply, around, history>>

Finish ==
    /\ pc = "copy"
    /\ pc' = "settle" /\ complete' = complete \cup {tried + 1}
    /\ UNCHANGED <<list, tried, recorder, body, reply, around, reached, given,
                   outcome, hinted, blamed>>

\* Mutant of Break: what came of the answer is taken for the whole.
BreakQuietly ==
    /\ pc = "copy"
    /\ pc' = "settle"
    /\ UNCHANGED <<list, tried, recorder, body, reply, around, history>>

\* An answer breaks off in its body: the reverse proxy panics with
\* ErrAbortHandler, and net/http drops the client's connection.
Break == pc = "copy" /\ Done("aborted", <<>>)

\* Mutant of Expire: the attempt does not run under the request's context.
ExpireNever == FALSE

\* The context of the attempt ends it, wherever it is.
Expire == Expired /\ (Refuse \/ Lose \/ Break)

-----------------------------------------------------------------------------
(* Time and the client *)

Cut == cut' = IF Expired THEN cut ELSE tried + 1

\* start + RequestTimeout passes, then the deadline of the overall context.
Pass ==
    /\ pc \notin {"idle", "done"} /\ clock # "over"
    /\ clock' = IF clock = "ahead" THEN "spent" ELSE "over"
    /\ Cut
    /\ UNCHANGED <<pc, list, tried, recorder, body, reply, gone, history>>

Leave ==
    /\ pc \notin {"idle", "done"} /\ ~gone
    /\ gone' = TRUE
    /\ Cut
    /\ UNCHANGED <<pc, list, tried, recorder, body, reply, clock, history>>

Handle ==
    \/ Exhausted \/ Abandon \/ CheckTimeout \/ OutOfTime \/ Attempt
    \/ Relay \/ PassOver

Proxy ==
    \/ Send \/ Refuse \/ Lose \/ Informational \/ Copy \/ Finish \/ Break
    \/ \E status \in Final : Header(status)

Next ==
    \/ \E l \in Lists : Receive(l)
    \/ Handle \/ Proxy \/ Expire \/ Pass \/ Leave
    \/ pc = "done" /\ UNCHANGED vars

Spec == Init /\ [][Next]_vars

\* The handler runs, time passes and contexts are honoured.  Nothing is
\* assumed of the nodes: one may take a request and never answer it.
FairSpec == Spec /\ WF_vars(Handle) /\ WF_vars(Pass) /\ WF_vars(Expire)

-----------------------------------------------------------------------------
(* Properties *)

\* The attempts are numbered without gaps and within the limits, and the
\* history of an attempt refers to one that was made.
TypeOK ==
    /\ pc \in {"idle", "head", "check", "send", "wait", "copy", "settle", "done"}
    /\ list \in Seq(Nodes) /\ tried \in 0..MaxRetries /\ tried <= Len(list)
    /\ recorder \in [status : Final \cup {"none", "info"}, body : Seq(Nodes)]
    /\ reply \in [status : {"none", "ok", "bad_gateway", "timeout", "implicit",
                            "aborted"},
                  body : Seq(Nodes)]
    /\ body \in {"absent", "unread", "closed"}
    /\ clock \in {"ahead", "spent", "over"} /\ gone \in BOOLEAN
    /\ cut \in 0..tried + 1
    /\ outcome \in Seq(Final \cup {"none"})
    /\ Len(outcome) \in {tried, tried + 1}
    /\ Len(outcome) <= MaxRetries /\ Len(outcome) <= Len(list)
    /\ reached \subseteq 1..Len(outcome) /\ complete \subseteq reached
    /\ hinted \subseteq reached /\ given \subseteq reached
    /\ blamed \subseteq 1..tried
    /\ pc \in {"send", "wait", "copy", "settle"} => Len(outcome) = tried + 1
    /\ pc \in {"head", "check"} => Len(outcome) = tried
    /\ pc = "idle" => list = <<>>
    /\ pc = "check" => tried < Allowed
    /\ pc \in {"wait", "copy"} => tried + 1 \in reached

\* What is relayed to the client is one whole answer of the node tried last,
\* and nothing of an earlier attempt is mixed into it (http_handler.go:124,
\* response_recorder.go:37-48).
ReplyIsOneAnswer ==
    reply.status = "ok" =>
        LET last == Len(outcome)
        IN  /\ outcome[last] = "ok" /\ last \in complete
            /\ \A i \in DOMAIN reply.body : reply.body[i] = list[last]

\* The body of a request goes to the first node asked or to none, so that no
\* two nodes act on it: a retry sends the headers alone, also when the first
\* node had refused the connection (http_handler.go:118-130).
BodyGoesToTheFirst == given \subseteq {1}

\* No node is charged an error for an attempt it answered with less than 500
\* (http_handler.go:171, 212).
NoBlameForAnAnswer ==
    \A i \in blamed : outcome[i] \in {"none", "server"}

\* A node's success is the reply, not an attempt to be repeated elsewhere
\* (http_handler.go:81-84), unless the node sent a 1xx before it: the
\* recorder keeps that first status, and the success behind it is lost
\* (response_recorder.go:21-25).
SuccessIsNotRetried ==
    \A i \in 1..tried : outcome[i] = "ok" => i \in hinted

\* The attempt under way when the deadline passes or the client leaves is
\* the last: at most this one node is charged for it (http_handler.go:62,
\* 67-71).
NoAttemptAfterTheCut == cut # 0 => Len(outcome) <= cut

\* The proxy speaks for itself only with reason: 502 when every node it may
\* ask was asked and none succeeded (but behind a 1xx), 504 and the empty 200
\* when the time is up or the client gone with nodes left to ask, and a
\* dropped connection when an answer broke off (http_handler.go:55-98).
ErrorsAreEarned ==
    /\ reply.status = "bad_gateway" =>
          tried = Allowed /\ \A i \in 1..tried : outcome[i] = "ok" => i \in hinted
    /\ reply.status = "timeout"  => tried < Allowed /\ clock # "ahead"
    /\ reply.status = "implicit" => tried < Allowed /\ OverallDone
    /\ reply.status = "aborted"  =>
          outcome[tried + 1] \in Final /\ tried + 1 \notin complete

\* The request is bound to be answered or dropped although a node may hang:
\* the deadlines end every attempt (http_handler.go:49, 120).
RequestEnds == pc # "idle" ~> pc = "done"

\* What became of the attempt begun last, by its history.
Verdict ==
    LET last == Len(outcome)
    IN  IF last = 0 THEN "none"
        ELSE IF pc \in {"send", "wait", "copy"} THEN "pending"
        ELSE IF last \in complete \ hinted /\ outcome[last] = "ok" THEN "success"
        ELSE "failure"

\* The reply, by what the client can tell.
Told ==
    [status |-> IF reply.status = "ok" THEN "answer"
                ELSE IF reply.status = "bad_gateway" THEN "unavailable"
                ELSE IF reply.status = "none" THEN "none" ELSE "cut",
     body   |-> reply.body]

\* The nodes are asked in order and the first whole success, with all that
\* came with it, is the reply: none is passed over, dropped or cut short for
\* a deadline that passes late (http_handler.go:55-98).  A success behind a
\* 1xx counts as a failure, as the code has it.
FA == INSTANCE FirstAnswer WITH
    open    <- pc \notin {"idle", "done"},
    turn    <- Len(outcome),
    verdict <- Verdict,
    data    <- recorder.body,
    reply   <- Told

RelaysFirstAnswer == FA!FASpec

\* The nodes that the loop may still ask.
Remaining ==
    IF pc \in {"idle", "done"} THEN <<>> ELSE SubSeq(list, tried + 1, Allowed)

\* The same loop as LoadBalancer's RequestOf.
Loop == INSTANCE Attempts WITH
    busy     <- pc \notin {"idle", "done"},
    trying   <- Remaining,
    blaming  <- pc = "settle" /\ Charged

LoopsAlike == Loop!AttemptsSpec

-----------------------------------------------------------------------------
(* The inductive invariant.  Its parts say how the handler, its recorder    *)
(* and the history fit together wherever the request is interrupted.        *)

\* Nothing is written before the handler returns.
Unwritten == pc # "done" => reply = NoAnswer

\* What the recorder of the current attempt holds is this attempt's.
Recorded ==
    LET now == tried + 1
    IN  /\ pc \in {"send", "wait", "copy", "settle"} =>
              \A i \in DOMAIN recorder.body : recorder.body[i] = Current
        /\ pc \in {"send", "wait"} =>
              /\ outcome[now] = "none" /\ recorder.body = <<>>
              /\ recorder.status = IF now \in hinted THEN "info" ELSE "none"
        /\ pc = "copy" =>
              /\ outcome[now] \in Final
              /\ recorder.status = IF now \in hinted THEN "info" ELSE outcome[now]
        /\ pc = "settle" =>
              \/ /\ now \notin hinted /\ now \in complete
                 /\ recorder.status = outcome[now]
              \/ now \in hinted /\ recorder.status = "info"
              \/ outcome[now] = "none" /\ recorder.status = "server"
        /\ pc = "send" => now \notin hinted

\* The history of an attempt begins with its being sent.
Traced == \A i \in DOMAIN outcome : outcome[i] # "none" => i \in reached

\* A body still unread has been in no attempt.
UnreadIsFirst ==
    body = "unread" => tried = 0 /\ pc \notin {"wait", "copy", "settle"}

\* When the cut was, and that after it only the attempt it fell into runs.
CutKept ==
    /\ Expired <=> cut # 0
    /\ pc = "check" /\ clock = "ahead" /\ gone => cut = tried + 1

HandlerInv ==
    /\ TypeOK /\ Unwritten /\ Recorded /\ Traced /\ UnreadIsFirst /\ CutKept
    /\ ReplyIsOneAnswer /\ BodyGoesToTheFirst /\ NoBlameForAnAnswer
    /\ SuccessIsNotRetried /\ NoAttemptAfterTheCut

-----------------------------------------------------------------------------
(* What the documentation promises and the code does not keep *)

\* README.md:206: "On failure (5xx), retry with next healthy node".  A client
\* error is retried like a failure and ends as 502.
RetriedAfterServerErrors ==
    \A i \in DOMAIN outcome : i < Len(outcome) => outcome[i] # "client"

=============================================================================
