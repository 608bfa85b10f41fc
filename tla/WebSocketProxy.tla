--------------------------- MODULE WebSocketProxy ---------------------------
(***************************************************************************)
(* One request to open a WebSocket: the dial to the nodes of its snapshot  *)
(* of the list, the upgrade of the client's connection, and the session:   *)
(* two goroutines that pump messages, one in each direction, and the       *)
(* handler that waits for the first error of theirs and closes both ends.  *)
(*                                                                         *)
(* The client and the node send, stop reading, leave and break off when    *)
(* they please.  A connection keeps the order of its messages.  What a     *)
(* failed dial does to the node and the list is LoadBalancer's.            *)
(*                                                                         *)
(* Grain.  A read, a write, a report, a dial and a close are steps.        *)
(***************************************************************************)
EXTENDS Naturals, Sequences

CONSTANTS
    Nodes,        \* the nodes a list can hold
    MaxLength,    \* bound: the longest list a request may find
    MaxMessages,  \* bound: how many messages a peer sends
    Window,       \* how many messages a peer that does not read can be sent
    Stripped      \* whether the headers of the client's handshake are taken
                  \* out of those the node is dialled with; the code does not

ASSUME SessionAssumption ==
    /\ MaxLength \in Nat /\ MaxMessages \in Nat
    /\ Window \in Nat \ {0}
    /\ Stripped \in BOOLEAN

Sides == {"client", "upstream"}

Other(s) == IF s = "client" THEN "upstream" ELSE "client"

VARIABLES
    pc,         \* where the handler is
    list,       \* healthyNodes, without the nodes already dialled
    accepting,  \* the nodes that would accept the session
    reply,      \* what the client's request is answered with
    conn,       \* clientConn and upstreamConn: the proxy's ends
    pump,       \* where the goroutine is that reads from a side
    held,       \* the message it has read and not written, if any
    errors,     \* errChan: whose read or write failed
    cause,      \* history: the error the handler took
    peer,       \* the far ends: up, left, or broken off
    unread,     \* what a peer sent and the proxy has not read
    sent,       \* history: how many messages a peer sent
    written,    \* history: what was written to a side
    taken       \* how much of that its peer has read

request == <<list, accepting, reply>>
proxy   == <<pump, held, errors, cause>>
network == <<peer, unread, sent, written, taken>>
vars    == <<pc, request, conn, proxy, network>>

Lists == UNION {[1..k -> Nodes] : k \in 0..MaxLength}

\* The k-th message that a peer sends.
Messages == Sides \X (1..MaxMessages)

Error(s, at) == [side |-> s, at |-> at]

Errors == {Error(s, at) : s \in Sides, at \in {"read", "write"}}

NoError == Error("none", "none")

Init ==
    /\ pc = "idle" /\ list = <<>> /\ accepting \in SUBSET Nodes
    /\ reply = "none"
    /\ conn = [s \in Sides |-> "none"]
    /\ pump = [s \in Sides |-> "off"] /\ held = [s \in Sides |-> <<>>]
    /\ errors = <<>> /\ cause = NoError
    /\ peer = [s \in Sides |-> "up"]
    /\ unread = [s \in Sides |-> <<>>] /\ sent = [s \in Sides |-> 0]
    /\ written = [s \in Sides |-> <<>>] /\ taken = [s \in Sides |-> 0]

-----------------------------------------------------------------------------
(* The handler *)

Receive(l) ==
    /\ pc = "idle" /\ l # <<>>
    /\ pc' = "dial" /\ list' = l
    /\ UNCHANGED <<accepting, reply, conn, proxy, network>>

Answer(status) ==
    /\ pc' = "done" /\ reply' = status
    /\ UNCHANGED <<list, accepting, conn, proxy, network>>

\* No node is healthy: 503.
NoNodes == pc = "idle" /\ Answer("unavailable")

\* The dialer refuses headers of a handshake other than its own, and every
\* request that gets here has them.
Refused == ~Stripped

Dial ==
    /\ pc = "dial" /\ list # <<>>
    /\ ~Refused /\ Head(list) \in accepting
    /\ pc' = "upgrade" /\ conn' = [conn EXCEPT !["upstream"] = "open"]
    /\ UNCHANGED <<request, proxy, network>>

DialFails ==
    /\ pc = "dial" /\ list # <<>>
    /\ Refused \/ Head(list) \notin accepting
    /\ list' = Tail(list)
    /\ UNCHANGED <<pc, accepting, reply, conn, proxy, network>>

\* Every node was dialled: 502.
Exhausted == pc = "dial" /\ list = <<>> /\ Answer("bad_gateway")

Upgrade ==
    /\ pc = "upgrade"
    /\ pc' = "pump" /\ reply' = "switched"
    /\ conn' = [conn EXCEPT !["client"] = "open"]
    /\ pump' = [s \in Sides |-> "read"]
    /\ UNCHANGED <<list, accepting, held, errors, cause, network>>

\* Mutant of UpgradeFails: the connection to the node is forgotten.
UpgradeForgets ==
    /\ pc = "upgrade"
    /\ pc' = "done" /\ reply' = "refused"
    /\ UNCHANGED <<list, accepting, conn, proxy, network>>

\* The client's handshake is not valid; the upgrader has replied.
UpgradeFails ==
    /\ pc = "upgrade"
    /\ pc' = "close" /\ reply' = "refused"
    /\ UNCHANGED <<list, accepting, conn, proxy, network>>

\* Mutant of Enough: both goroutines are waited for.
EnoughOfBoth == Len(errors) = 2

\* One error ends the session.
Enough == errors # <<>>

Settle ==
    /\ pc = "pump" /\ Enough
    /\ pc' = "close" /\ cause' = Head(errors) /\ errors' = Tail(errors)
    /\ UNCHANGED <<request, conn, pump, held, network>>

\* The deferred calls: clientConn is closed first, if there is one.
CloseClient ==
    /\ pc = "close" /\ conn["client"] = "open"
    /\ conn' = [conn EXCEPT !["client"] = "closed"]
    /\ UNCHANGED <<pc, request, proxy, network>>

CloseUpstream ==
    /\ pc = "close" /\ conn["client"] # "open"
    /\ conn' = [conn EXCEPT !["upstream"] = "closed"]
    /\ pc' = "done"
    /\ UNCHANGED <<request, proxy, network>>

-----------------------------------------------------------------------------
(* The goroutine that reads from side s and writes to the other *)

Goto(s, where) == pump' = [pump EXCEPT ![s] = where]

\* What was received before the connection was closed may still be read.
Read(s) ==
    /\ pump[s] = "read" /\ unread[s] # <<>>
    /\ Goto(s, "write")
    /\ held' = [held EXCEPT ![s] = <<Head(unread[s])>>]
    /\ unread' = [unread EXCEPT ![s] = Tail(@)]
    /\ UNCHANGED <<pc, request, conn, errors, cause, peer, sent, written, taken>>

ReadFails(s) ==
    /\ pump[s] = "read"
    /\ \/ conn[s] = "closed"
       \/ peer[s] # "up" /\ unread[s] = <<>>
    /\ Goto(s, "read error")
    /\ UNCHANGED <<pc, request, conn, held, errors, cause, network>>

Free(d) == Len(written[d]) - taken[d] < Window

\* Mutant of Target: messages are written back to where they came from.
TargetSame(s) == s

Target(s) == Other(s)

\* Mutant of Write: what does not fit is dropped instead of waited for.
WriteOrDrop(s) ==
    LET d == Target(s)
    IN  /\ pump[s] = "write" /\ conn[d] = "open" /\ peer[d] = "up"
        /\ Goto(s, "read")
        /\ held' = [held EXCEPT ![s] = <<>>]
        /\ written' = IF Free(d) THEN [written EXCEPT ![d] = @ \o held[s]]
                      ELSE written
        /\ UNCHANGED <<pc, request, conn, errors, cause, peer, unread, sent, taken>>

\* Mutant of Write: the message is written and kept.
WriteKeeping(s) ==
    LET d == Target(s)
    IN  /\ pump[s] = "write" /\ conn[d] = "open" /\ peer[d] = "up" /\ Free(d)
        /\ Goto(s, "read")
        /\ written' = [written EXCEPT ![d] = @ \o held[s]]
        /\ UNCHANGED <<pc, request, conn, held, errors, cause, peer, unread, sent,
                       taken>>

\* A write waits while the peer does not read; it has no deadline.
Write(s) ==
    LET d == Target(s)
    IN  /\ pump[s] = "write" /\ conn[d] = "open" /\ peer[d] = "up" /\ Free(d)
        /\ Goto(s, "read")
        /\ held' = [held EXCEPT ![s] = <<>>]
        /\ written' = [written EXCEPT ![d] = @ \o held[s]]
        /\ UNCHANGED <<pc, request, conn, errors, cause, peer, unread, sent, taken>>

\* A write to a peer that is gone may go unnoticed.
WriteLost(s) ==
    LET d == Target(s)
    IN  /\ pump[s] = "write" /\ conn[d] = "open" /\ peer[d] # "up"
        /\ Goto(s, "read")
        /\ held' = [held EXCEPT ![s] = <<>>]
        /\ UNCHANGED <<pc, request, conn, errors, cause, network>>

WriteFails(s) ==
    LET d == Target(s)
    IN  /\ pump[s] = "write"
        /\ conn[d] = "closed" \/ peer[d] # "up"
        /\ Goto(s, "write error")
        /\ UNCHANGED <<pc, request, conn, held, errors, cause, network>>

\* Mutant of Room: errChan has no buffer, so only who waits can be told.
RoomIfAwaited == pc = "pump" /\ errors = <<>>

\* errChan takes the errors of both goroutines.
Room == Len(errors) < 2

Report(s) ==
    /\ pump[s] \in {"read error", "write error"} /\ Room
    /\ errors' = Append(errors,
                        Error(s, IF pump[s] = "read error" THEN "read" ELSE "write"))
    /\ Goto(s, "done")
    /\ UNCHANGED <<pc, request, conn, held, cause, network>>

-----------------------------------------------------------------------------
(* The client and the node *)

Send(s) ==
    /\ conn[s] = "open" /\ peer[s] = "up" /\ sent[s] < MaxMessages
    /\ sent' = [sent EXCEPT ![s] = @ + 1]
    /\ unread' = [unread EXCEPT ![s] = Append(@, <<s, sent[s] + 1>>)]
    /\ UNCHANGED <<pc, request, conn, proxy, peer, written, taken>>

Take(s) ==
    /\ peer[s] = "up" /\ taken[s] < Len(written[s])
    /\ taken' = [taken EXCEPT ![s] = @ + 1]
    /\ UNCHANGED <<pc, request, conn, proxy, peer, unread, sent, written>>

\* A peer leaves, and what it sent before still arrives.
Leave(s) ==
    /\ conn[s] = "open" /\ peer[s] = "up"
    /\ peer' = [peer EXCEPT ![s] = "left"]
    /\ UNCHANGED <<pc, request, conn, proxy, unread, sent, written, taken>>

\* A peer is gone, and with it what was under way.
Break(s) ==
    /\ conn[s] = "open" /\ peer[s] = "up"
    /\ peer' = [peer EXCEPT ![s] = "broken"]
    /\ unread' = [unread EXCEPT ![s] = <<>>]
    /\ UNCHANGED <<pc, request, conn, proxy, sent, written, taken>>

Handle ==
    \/ NoNodes \/ Dial \/ DialFails \/ Exhausted \/ Upgrade \/ UpgradeFails
    \/ Settle \/ CloseClient \/ CloseUpstream

Pump(s) ==
    \/ Read(s) \/ ReadFails(s) \/ Write(s) \/ WriteLost(s) \/ WriteFails(s)
    \/ Report(s)

Peer(s) == Send(s) \/ Take(s) \/ Leave(s) \/ Break(s)

\* Nothing is left to do but to read, for a peer that is still there.
Over ==
    /\ pc = "done" /\ \A s \in Sides : pump[s] \in {"off", "done"}
    /\ UNCHANGED vars

Next ==
    \/ \E l \in Lists : Receive(l)
    \/ Handle \/ Over
    \/ \E s \in Sides : Pump(s) \/ Peer(s)

Spec == Init /\ [][Next]_vars

\* The goroutines run.  Nothing is assumed of the peers.
FairSpec ==
    /\ Spec /\ WF_vars(Handle)
    /\ WF_vars(Pump("client")) /\ WF_vars(Pump("upstream"))

-----------------------------------------------------------------------------
(* Properties *)

\* errChan never holds more than its two places, a goroutine that writes has
\* one message, and no peer reads what was not written.
MessagesOK ==
    /\ held \in [Sides -> Seq(Messages)]
    /\ unread \in [Sides -> Seq(Messages)]
    /\ sent \in [Sides -> 0..MaxMessages]
    /\ written \in [Sides -> Seq(Messages)]
    /\ taken \in [Sides -> Nat]
    /\ \A s \in Sides : taken[s] <= Len(written[s])

TypeOK ==
    /\ pc \in {"idle", "dial", "upgrade", "pump", "close", "done"}
    /\ list \in Seq(Nodes) /\ accepting \subseteq Nodes
    /\ reply \in {"none", "unavailable", "bad_gateway", "refused", "switched"}
    /\ conn \in [Sides -> {"none", "open", "closed"}]
    /\ pump \in [Sides -> {"off", "read", "write", "read error", "write error",
                           "done"}]
    /\ MessagesOK
    /\ \A s \in Sides :
          /\ pump[s] = "write" => Len(held[s]) = 1
          /\ pump[s] \in {"off", "read"} => held[s] = <<>>
    /\ errors \in Seq(Errors) /\ Len(errors) <= 2
    /\ cause \in Errors \cup {NoError}
    /\ peer \in [Sides -> {"up", "left", "broken"}]

\* When a session ends because one peer left, the other was sent all that
\* this peer had to say, unless it was gone as well
\* (websocket_handler.go:144-173).
NothingLeftBehind ==
    \A s \in Sides :
        /\ cause = Error(s, "read")
        /\ peer[s] = "left" /\ peer[Other(s)] = "up"
        => Len(written[Other(s)]) = sent[s]

\* No connection outlives its session, and none is kept when the client's
\* upgrade fails (websocket_handler.go:42, 53).
ClosedWhenDone == pc = "done" => \A s \in Sides : conn[s] # "open"

\* Both goroutines end with the session, although only one error of theirs is
\* taken and the other may be reading or waiting for a peer that does not
\* read (websocket_handler.go:141, 176).
PumpsEnd == pc = "done" ~> \A s \in Sides : pump[s] \in {"off", "done"}

\* The peer at side s keeps reading, or goes.
Attentive(s) == []<>(taken[s] = Len(written[s]) \/ peer[s] # "up")

\* A peer that is gone ends the session, if the other keeps reading: a write
\* to one that does not has no deadline (websocket_handler.go:152-176).
SessionEnds ==
    (\A s \in Sides : Attentive(s)) =>
        \A s \in Sides : peer[s] # "up" ~> pc = "done"

\* Each direction passes messages on in order and without a gap.
MessagesOf(s) == [k \in 1..sent[s] |-> <<s, k>>]

IsOver(s) == pump[s] \in {"read error", "write error", "done"}

ToNode == INSTANCE MessageRelay WITH
    sent <- MessagesOf("client"), got <- written["upstream"],
    over <- IsOver("client")

ToClient == INSTANCE MessageRelay WITH
    sent <- MessagesOf("upstream"), got <- written["client"],
    over <- IsOver("upstream")

RelaysBothWays == ToNode!RelaySpec /\ ToClient!RelaySpec

-----------------------------------------------------------------------------
(* The inductive invariant *)

\* Which connections and goroutines there are, by where the handler is.
Lifecycle ==
    /\ pc \in {"idle", "dial"} => \A s \in Sides : conn[s] = "none"
    /\ pc = "upgrade" => conn["client"] = "none" /\ conn["upstream"] = "open"
    /\ pc = "pump" => \A s \in Sides : conn[s] = "open"
    /\ pc = "close" => conn["upstream"] = "open"
    /\ pc = "done" => \A s \in Sides : conn[s] # "open"
    /\ \A s \in Sides : pump[s] = "off" <=> conn["client"] = "none"
    /\ pc \in {"idle", "dial", "upgrade", "pump"} => cause = NoError
    /\ \A s \in Sides :
          pump[s] # "off" /\ (pc = "close" \/ conn[s] = "closed") => cause # NoError

\* A peer is gone, and all that came from it was passed on.
Drained(s) == peer[s] # "up" /\ unread[s] = <<>> /\ held[s] = <<>>

\* Before anything is closed, a read only fails when its peer is gone.
ReadErrorsAreFinal ==
    /\ cause = NoError =>
          \A s \in Sides :
             (pump[s] = "read error"
              \/ \E i \in DOMAIN errors : errors[i] = Error(s, "read")) => Drained(s)
    /\ \A s \in Sides : cause = Error(s, "read") => Drained(s)

\* What was written to the other side, is held and is unread are, in this
\* order, the messages from s; without an end when s broke off, and unless
\* some were written to a peer that is gone.
Flow(s) ==
    /\ Len(written[Other(s)]) <= sent[s]
    /\ \A i \in 1..Len(written[Other(s)]) : written[Other(s)][i] = <<s, i>>
    /\ peer[Other(s)] = "up" =>
          /\ \A i \in 1..Len(held[s]) :
                held[s][i] = <<s, Len(written[Other(s)]) + i>>
          /\ \A i \in 1..Len(unread[s]) :
                unread[s][i] = <<s, Len(written[Other(s)]) + Len(held[s]) + i>>
          /\ Len(written[Other(s)]) + Len(held[s]) + Len(unread[s]) <= sent[s]
          /\ peer[s] # "broken" =>
                Len(written[Other(s)]) + Len(held[s]) + Len(unread[s]) = sent[s]

SessionInv == Lifecycle /\ ReadErrorsAreFinal /\ \A s \in Sides : Flow(s)

-----------------------------------------------------------------------------
(* What the documentation promises and the code does not keep *)

\* README.md:10: "Bidirectional WebSocket proxying".  The node is dialled
\* with the headers of the client's handshake, which the dialer refuses.
AcceptingNodeIsUsed ==
    [][pc = "dial" /\ list' # list => Head(list) \notin accepting]_vars

\* What the code does instead: whichever nodes would accept, no session is
\* ever opened and no client's connection switched.
NoSession ==
    /\ pc \in {"idle", "dial", "done"} /\ reply # "switched"
    /\ \A s \in Sides : conn[s] = "none" /\ pump[s] = "off"

=============================================================================
