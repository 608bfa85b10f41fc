--------------------------- MODULE WebSocketProofs ---------------------------
(***************************************************************************)
(* Machine-checked proofs about WebSocketProxy, for any nodes and any      *)
(* number of messages, with the headers of the handshake stripped or not.  *)
(***************************************************************************)
EXTENDS WebSocketProxy, SequenceTheorems, TLAPS

-----------------------------------------------------------------------------
(* Why the goroutines end *)

\* A goroutine reports once, and the error that the handler took is one of
\* the two: a second report always finds room.
ErrorsOnce ==
    /\ \A i \in DOMAIN errors :
          /\ pump[errors[i].side] = "done"
          /\ \A j \in DOMAIN errors : errors[j].side = errors[i].side => j = i
    /\ cause # NoError =>
          /\ pump[cause.side] = "done"
          /\ \A i \in DOMAIN errors : errors[i].side # cause.side
    /\ conn["client"] # "none" => conn["upstream"] # "none"

\* Where the goroutine of side s is not waiting: the guards of its steps.
CanMove(s) ==
    \/ pump[s] = "read" /\ (unread[s] # <<>> \/ conn[s] = "closed" \/ peer[s] # "up")
    \/ /\ pump[s] = "write"
       /\ \/ conn[Target(s)] = "open" /\ Free(Target(s))
          \/ conn[Target(s)] = "closed" \/ peer[Target(s)] # "up"
    \/ pump[s] \in {"read error", "write error"} /\ Room

\* Sending on errChan never blocks, however the errors and the handler that
\* takes one of them interleave (websocket_handler.go:141-176).
ReportsFit == \A s \in Sides : pump[s] \in {"read error", "write error"} => Room

\* Once the handler is done, no goroutine waits, whether its peer reads or not.
NoneWaits ==
    pc = "done" => \A s \in Sides : pump[s] \in {"off", "done"} \/ CanMove(s)

StepsLeft(s) ==
    IF pump[s] = "read" THEN 3
    ELSE IF pump[s] = "write" THEN 2
    ELSE IF pump[s] \in {"read error", "write error"} THEN 1 ELSE 0

\* From then on each has at most three steps, whatever its peer still sends.
PumpsWindDown ==
    [][pc = "done" =>
          /\ pc' = "done"
          /\ \A s \in Sides : pump'[s] # pump[s] => StepsLeft(s)' < StepsLeft(s)]_vars

-----------------------------------------------------------------------------
(* The sides and the messages *)

LEMMA OtherSide ==
    ASSUME NEW s \in Sides
    PROVE  Other(s) \in Sides /\ Other(s) # s /\ Other(Other(s)) = s
           /\ Target(s) = Other(s)
  BY DEF Sides, Other, Target

\* The steps of the handler that touch no message.
Handling == Handle \/ \E l \in Lists : Receive(l)

-----------------------------------------------------------------------------
(* Type correctness *)

LEMMA InitType == Init => TypeOK
<1> SUFFICES ASSUME Init
             PROVE  TypeOK
  OBVIOUS
<1>1. MessagesOK
  <2>1. <<>> \in Seq(Messages) /\ Len(<<>>) = 0 /\ 0 \in Nat /\ 0 \in 0..MaxMessages
    BY SessionAssumption
  <2>2. QED
    BY <2>1 DEF Init, MessagesOK
<1>2. QED
  BY <1>1 DEF Init, TypeOK, NoError

\* What TypeOK says, piece by piece.
LEMMA Typed ==
    ASSUME TypeOK, NEW s \in Sides
    PROVE  /\ MessagesOK
           /\ held[s] \in Seq(Messages) /\ unread[s] \in Seq(Messages)
           /\ written[s] \in Seq(Messages)
           /\ sent[s] \in 0..MaxMessages /\ taken[s] \in Nat
           /\ taken[s] <= Len(written[s])
           /\ pump[s] = "write" => Len(held[s]) = 1
           /\ pump[s] \in {"off", "read"} => held[s] = <<>>
<1>1. MessagesOK
  BY DEF TypeOK
<1>2. held[s] \in Seq(Messages) /\ unread[s] \in Seq(Messages)
      /\ written[s] \in Seq(Messages) /\ sent[s] \in 0..MaxMessages
      /\ taken[s] \in Nat /\ taken[s] <= Len(written[s])
  BY <1>1 DEF MessagesOK
<1>3. QED
  BY <1>1, <1>2 DEF TypeOK

\* An error that a goroutine reports names a side and is not NoError.
LEMMA ErrorType ==
    /\ \A s \in Sides, at \in {"read", "write"} :
          Error(s, at) \in Errors
    /\ NoError \notin Errors
  BY DEF Error, Errors, NoError, Sides

LEMMA InAppend ==
    ASSUME NEW q \in Seq(Errors), NEW e \in Errors, NEW i \in DOMAIN Append(q, e)
    PROVE  (i \in DOMAIN q /\ Append(q, e)[i] = q[i]) \/ Append(q, e)[i] = e
  OBVIOUS

LEMMA SameError ==
    ASSUME NEW s, NEW t, NEW a, NEW b, Error(s, a) = Error(t, b)
    PROVE  s = t /\ a = b
  BY DEF Error

LEMMA HandlingType ==
    ASSUME TypeOK, Lifecycle, Handling
    PROVE  TypeOK'
<1> USE DEF request, proxy, network
<1>0. MessagesOK'
  BY DEF TypeOK, MessagesOK, Handling, Receive, Handle, NoNodes, Dial,
     DialFails, Exhausted, Answer, Upgrade, UpgradeFails, Settle, CloseClient,
     CloseUpstream
<1>1. ASSUME NEW l \in Lists, Receive(l)
      PROVE  TypeOK'
  <2>1. PICK k \in 0..MaxLength : l \in [1..k -> Nodes]
    BY DEF Lists
  <2>2. l \in Seq(Nodes)
    BY <2>1, SessionAssumption
  <2>3. QED
    BY <1>0, <1>1, <2>2 DEF Receive, TypeOK
<1>2. CASE NoNodes \/ Exhausted \/ UpgradeFails
  BY <1>0, <1>2 DEF NoNodes, Exhausted, UpgradeFails, Answer, TypeOK
<1>3. CASE Dial \/ CloseClient \/ CloseUpstream
  BY <1>0, <1>3 DEF Dial, CloseClient, CloseUpstream, Sides, TypeOK
<1>4. CASE DialFails
  <2>1. list \in Seq(Nodes) /\ list # <<>> /\ list' = Tail(list)
    BY <1>4 DEF DialFails, TypeOK
  <2>2. list' \in Seq(Nodes)
    BY <2>1
  <2>3. QED
    BY <1>0, <1>4, <2>2 DEF DialFails, TypeOK
<1>5. CASE Upgrade
  <2>1. pump' = [s \in Sides |-> "read"] /\ held' = held
    BY <1>5 DEF Upgrade
  <2>2. \A s \in Sides : held[s] = <<>>
    BY <1>5 DEF Upgrade, Lifecycle, TypeOK
  <2>3. QED
    BY <1>0, <1>5, <2>1, <2>2 DEF Upgrade, Sides, TypeOK
<1>6. CASE Settle
  <2>1. errors \in Seq(Errors) /\ errors # <<>> /\ Len(errors) <= 2
        /\ cause' = Head(errors) /\ errors' = Tail(errors)
    BY <1>6 DEF Settle, Enough, TypeOK
  <2>2. cause' \in Errors /\ errors' \in Seq(Errors) /\ Len(errors') <= 2
    BY <2>1
  <2>3. QED
    BY <1>0, <1>6, <2>2 DEF Settle, TypeOK
<1>7. QED
  BY <1>1, <1>2, <1>3, <1>4, <1>5, <1>6 DEF Handling, Handle

\* A goroutine reads into its hands and writes out of them.
LEMMA PumpType ==
    ASSUME TypeOK, NEW s \in Sides, Pump(s)
    PROVE  TypeOK'
<1>0. Other(s) \in Sides /\ Target(s) = Other(s)
  BY OtherSide
<1>1. CASE Read(s)
  <2>1. unread[s] \in Seq(Messages) /\ unread[s] # <<>>
    BY <1>1, Typed DEF Read
  <2>2. Head(unread[s]) \in Messages /\ Tail(unread[s]) \in Seq(Messages)
    BY <2>1
  <2>3. <<Head(unread[s])>> \in Seq(Messages) /\ Len(<<Head(unread[s])>>) = 1
    BY <2>2
  <2>4. /\ held' = [held EXCEPT ![s] = <<Head(unread[s])>>]
        /\ unread' = [unread EXCEPT ![s] = Tail(unread[s])]
        /\ pump' = [pump EXCEPT ![s] = "write"]
        /\ UNCHANGED <<pc, request, conn, errors, cause, peer, sent, written, taken>>
    BY <1>1 DEF Read, Goto
  <2>5. MessagesOK'
    BY <2>2, <2>3, <2>4, Typed DEF MessagesOK
  <2>6. Len(held'[s]) = 1 /\ \A t \in Sides \ {s} : held'[t] = held[t]
    BY <2>3, <2>4, Typed DEF MessagesOK
  <2>7. QED
    BY <2>4, <2>5, <2>6 DEF TypeOK, request
<1>2. CASE ReadFails(s)
  <2>1. MessagesOK'
    BY <1>2, Typed DEF ReadFails, network, MessagesOK
  <2>2. QED
    BY <1>2, <2>1 DEF ReadFails, Goto, network, request, TypeOK
<1>3. CASE Write(s)
  <2>1. /\ written[Other(s)] \in Seq(Messages) /\ held[s] \in Seq(Messages)
        /\ Len(held[s]) = 1
    BY <1>0, <1>3, Typed DEF Write
  <2>2. /\ written[Other(s)] \o held[s] \in Seq(Messages)
        /\ Len(written[Other(s)] \o held[s]) = Len(written[Other(s)]) + 1
        /\ Len(written[Other(s)]) \in Nat
    <3>1. ASSUME NEW a \in Seq(Messages), NEW b \in Seq(Messages), Len(b) = 1
          PROVE  /\ a \o b \in Seq(Messages)
                 /\ Len(a \o b) = Len(a) + 1 /\ Len(a) \in Nat
      <4>1. Len(a \o b) = Len(a) + Len(b) /\ Len(a) \in Nat
        BY ConcatProperties
      <4>2. a \o b \in Seq(Messages)
        BY ConcatProperties
      <4>3. QED
        BY <3>1, <4>1, <4>2
    <3>2. QED
      BY <2>1, <3>1
  <2>3. /\ written' = [written EXCEPT ![Other(s)] = written[Other(s)] \o held[s]]
        /\ held' = [held EXCEPT ![s] = <<>>]
        /\ pump' = [pump EXCEPT ![s] = "read"]
        /\ UNCHANGED <<pc, request, conn, errors, cause, peer, unread, sent, taken>>
    BY <1>0, <1>3 DEF Write, Goto
  <2>4. MessagesOK'
    <3>1. written \in [Sides -> Seq(Messages)] /\ held \in [Sides -> Seq(Messages)]
      BY Typed DEF MessagesOK
    <3>2. written' \in [Sides -> Seq(Messages)]
      BY <1>0, <2>2, <2>3, <3>1
    <3>3. <<>> \in Seq(Messages)
      OBVIOUS
    <3>4. held' \in [Sides -> Seq(Messages)]
      BY <2>3, <3>1, <3>3
    <3>5. \A d \in Sides : taken'[d] <= Len(written'[d])
      <4>1. ASSUME NEW d \in Sides
            PROVE  taken[d] <= Len(written'[d])
        <5>1. taken[d] \in Nat /\ taken[d] <= Len(written[d])
          BY Typed
        <5>2. CASE d = Other(s)
          BY <2>2, <2>3, <3>1, <5>1, <5>2
        <5>3. CASE d # Other(s)
          BY <2>3, <3>1, <5>1, <5>3
        <5>4. QED
          BY <5>2, <5>3
      <4>2. QED
        BY <2>3, <4>1
    <3>6. QED
      BY <2>3, <3>2, <3>4, <3>5, Typed DEF MessagesOK
  <2>5. held'[s] = <<>> /\ \A t \in Sides \ {s} : held'[t] = held[t]
    BY <2>3, Typed DEF MessagesOK
  <2>6. QED
    BY <2>3, <2>4, <2>5 DEF TypeOK, request
<1>4. CASE WriteLost(s)
  <2>1. /\ held' = [held EXCEPT ![s] = <<>>]
        /\ pump' = [pump EXCEPT ![s] = "read"]
        /\ UNCHANGED <<pc, request, conn, errors, cause, network>>
    BY <1>4 DEF WriteLost, Goto
  <2>2. MessagesOK'
    <3>1. <<>> \in Seq(Messages)
      OBVIOUS
    <3>2. QED
      BY <2>1, <3>1, Typed DEF MessagesOK, network
  <2>3. held'[s] = <<>> /\ \A t \in Sides \ {s} : held'[t] = held[t]
    BY <2>1, Typed DEF MessagesOK
  <2>4. QED
    BY <2>1, <2>2, <2>3 DEF TypeOK, request, network
<1>5. CASE WriteFails(s)
  <2>1. MessagesOK'
    BY <1>5, Typed DEF WriteFails, network, MessagesOK
  <2>2. QED
    BY <1>5, <2>1 DEF WriteFails, Goto, network, request, TypeOK
<1>6. CASE Report(s)
  <2>1. MessagesOK'
    BY <1>6, Typed DEF Report, network, MessagesOK
  <2>2. PICK e \in Errors : errors' = Append(errors, e)
    BY <1>6, ErrorType DEF Report
  <2>3. errors \in Seq(Errors) /\ Len(errors) < 2
    BY <1>6 DEF Report, Room, TypeOK
  <2>4. errors' \in Seq(Errors) /\ Len(errors') <= 2
    BY <2>2, <2>3
  <2>5. QED
    BY <1>6, <2>1, <2>4 DEF Report, Goto, network, request, TypeOK
<1>7. QED
  BY <1>1, <1>2, <1>3, <1>4, <1>5, <1>6 DEF Pump

LEMMA PeerType ==
    ASSUME TypeOK, NEW s \in Sides, Peer(s)
    PROVE  TypeOK'
<1>1. MessagesOK'
  <2>1. CASE Send(s)
    <3>1. sent[s] \in 0..MaxMessages /\ sent[s] < MaxMessages
          /\ unread[s] \in Seq(Messages)
      BY <2>1, Typed DEF Send
    <3>2. sent[s] + 1 \in 0..MaxMessages /\ sent[s] + 1 \in 1..MaxMessages
      BY <3>1, SessionAssumption
    <3>3. <<s, sent[s] + 1>> \in Messages
      BY <3>2 DEF Messages
    <3>4. Append(unread[s], <<s, sent[s] + 1>>) \in Seq(Messages)
      BY <3>1, <3>3
    <3>5. QED
      BY <2>1, <3>2, <3>4, Typed DEF Send, proxy, MessagesOK
  <2>2. CASE Take(s)
    <3>1. taken[s] \in Nat /\ taken[s] < Len(written[s])
          /\ Len(written[s]) \in Nat
      BY <2>2, Typed DEF Take
    <3>2. taken[s] + 1 \in Nat /\ taken[s] + 1 <= Len(written[s])
      BY <3>1
    <3>3. taken' = [taken EXCEPT ![s] = taken[s] + 1]
          /\ UNCHANGED <<held, unread, sent, written>>
      BY <2>2 DEF Take, proxy
    <3>4. QED
      BY <3>2, <3>3, Typed DEF MessagesOK
  <2>3. CASE Leave(s)
    BY <2>3, Typed DEF Leave, proxy, MessagesOK
  <2>4. CASE Break(s)
    <3>1. <<>> \in Seq(Messages)
      OBVIOUS
    <3>2. QED
      BY <2>4, <3>1, Typed DEF Break, proxy, MessagesOK
  <2>5. QED
    BY <2>1, <2>2, <2>3, <2>4 DEF Peer
<1>2. QED
  BY <1>1 DEF Peer, Send, Take, Leave, Break, request, proxy, TypeOK

LEMMA Steps ==
    ASSUME [Next]_vars
    PROVE  \/ Handling \/ UNCHANGED vars
           \/ \E s \in Sides : Pump(s) \/ Peer(s)
  BY DEF Next, Handling, Over

-----------------------------------------------------------------------------
(* The inductive invariant *)

LEMMA InitSession == Init => SessionInv
<1> SUFFICES ASSUME Init
             PROVE  SessionInv
  OBVIOUS
<1>1. Lifecycle
  BY DEF Init, Lifecycle, Sides
<1>2. ReadErrorsAreFinal
  BY DEF Init, ReadErrorsAreFinal, NoError, Error, Sides
<1>3. \A s \in Sides : Flow(s)
  BY OtherSide DEF Init, Flow
<1>4. QED
  BY <1>1, <1>2, <1>3 DEF SessionInv

\* A peer that is gone with nothing left stays so.
LEMMA DrainedStays ==
    ASSUME TypeOK, NEW s \in Sides, Drained(s),
           NEW t \in Sides, Pump(t) \/ Peer(t)
    PROVE  Drained(s)'
<1>0. /\ unread \in [Sides -> Seq(Messages)] /\ held \in [Sides -> Seq(Messages)]
      /\ peer \in [Sides -> {"up", "left", "broken"}]
  BY Typed DEF TypeOK, MessagesOK
<1>1. CASE Pump(t)
  <2>1. UNCHANGED peer
    BY <1>1 DEF Pump, Read, ReadFails, Write, WriteLost, WriteFails, Report, network
  <2>2. UNCHANGED unread \/ (t # s /\ unread' = [unread EXCEPT ![t] = Tail(@)])
    BY <1>1 DEF Pump, Read, ReadFails, Write, WriteLost, WriteFails, Report,
       network, Drained
  <2>3. \/ UNCHANGED held
        \/ held' = [held EXCEPT ![t] = <<>>]
        \/ t # s /\ held' = [held EXCEPT ![t] = <<Head(unread[t])>>]
    BY <1>1 DEF Pump, Read, ReadFails, Write, WriteLost, WriteFails, Report, Drained
  <2>4. QED
    BY <1>0, <2>1, <2>2, <2>3 DEF Drained
<1>2. CASE Peer(t)
  <2>1. UNCHANGED held
    BY <1>2 DEF Peer, Send, Take, Leave, Break, proxy
  <2>2. peer'[s] = peer[s] /\ unread'[s] = unread[s]
    BY <1>0, <1>2 DEF Peer, Send, Take, Leave, Break, Drained
  <2>3. QED
    BY <2>1, <2>2 DEF Drained
<1>3. QED
  BY <1>1, <1>2

LEMMA HandlingSession ==
    ASSUME TypeOK, SessionInv, Handling
    PROVE  SessionInv'
<1>1. UNCHANGED <<network, held>>
  BY DEF Handling, Receive, Handle, NoNodes, Dial, DialFails, Exhausted, Answer,
     Upgrade, UpgradeFails, Settle, CloseClient, CloseUpstream, proxy
<1>2. (\A s \in Sides : Flow(s))' /\ \A s \in Sides : Drained(s)' <=> Drained(s)
  BY <1>1 DEF SessionInv, Flow, Drained, network
<1>3. Lifecycle' /\ ReadErrorsAreFinal'
  <2> USE DEF SessionInv, proxy, network, request
  <2>1. CASE ~Settle /\ ~Upgrade
    <3>1. UNCHANGED <<pump, errors, cause>>
      BY <2>1 DEF Handling, Receive, Handle, NoNodes, Dial, DialFails,
         Exhausted, Answer, UpgradeFails, CloseClient, CloseUpstream
    <3>2. ReadErrorsAreFinal'
      BY <1>2, <3>1 DEF ReadErrorsAreFinal
    <3>3. Lifecycle'
      BY <2>1, <3>1 DEF Handling, Receive, Handle, NoNodes, Dial, DialFails,
         Exhausted, Answer, UpgradeFails, CloseClient, CloseUpstream, Lifecycle,
         Sides, TypeOK
    <3>4. QED
      BY <3>2, <3>3
  <2>2. CASE Upgrade
    <3>1. UNCHANGED <<errors, cause>> /\ pump' = [s \in Sides |-> "read"]
      BY <2>2 DEF Upgrade
    <3>2. ReadErrorsAreFinal'
      BY <1>2, <3>1 DEF ReadErrorsAreFinal
    <3>3. Lifecycle'
      BY <2>2, <3>1 DEF Upgrade, Lifecycle, Sides, TypeOK
    <3>4. QED
      BY <3>2, <3>3
  <2>3. CASE Settle
    <3>1. /\ errors # <<>> /\ cause' = Head(errors)
          /\ cause' = errors[1] /\ 1 \in DOMAIN errors
          /\ errors[1] # NoError
          /\ pc = "pump" /\ pc' = "close" /\ cause = NoError
          /\ UNCHANGED <<conn, pump>>
      <4>1. /\ errors # <<>> /\ cause' = Head(errors)
            /\ pc = "pump" /\ pc' = "close"
            /\ UNCHANGED <<conn, pump>>
        BY <2>3 DEF Settle, Enough
      <4>2. cause = NoError
        BY <4>1 DEF Lifecycle
      <4>3. errors \in Seq(Errors)
        BY DEF TypeOK
      <4>4. Head(errors) = errors[1] /\ 1 \in DOMAIN errors /\ errors[1] \in Errors
        BY <4>1, <4>3
      <4>5. QED
        BY <4>1, <4>2, <4>4, ErrorType
    <3>2. ReadErrorsAreFinal'
      BY <1>2, <3>1 DEF ReadErrorsAreFinal
    <3>3. Lifecycle'
      BY <3>1 DEF Lifecycle, Sides
    <3>4. QED
      BY <3>2, <3>3
  <2>4. QED
    BY <2>1, <2>2, <2>3
<1>4. QED
  BY <1>2, <1>3 DEF SessionInv

LEMMA PumpLifecycle ==
    ASSUME TypeOK, Lifecycle, NEW s \in Sides, Pump(s)
    PROVE  Lifecycle'
<1>1. /\ UNCHANGED <<pc, conn, cause>>
      /\ pump[s] # "off"
      /\ \E where \in {"read", "write", "read error", "write error", "done"} :
            pump' = [pump EXCEPT ![s] = where]
  BY DEF Pump, Read, ReadFails, Write, WriteLost, WriteFails, Report, Goto
<1>2. pump \in [Sides -> {"off", "read", "write", "read error", "write error",
                          "done"}]
  BY DEF TypeOK
<1>3. \A t \in Sides : pump'[t] = "off" <=> pump[t] = "off"
  BY <1>1, <1>2
<1>4. QED
  BY <1>1, <1>3 DEF Lifecycle

\* Only a goroutine whose peer is gone with nothing left gets a read error
\* while both connections are open.
LEMMA PumpVerdict ==
    ASSUME TypeOK, Lifecycle, ReadErrorsAreFinal, NEW s \in Sides, Pump(s)
    PROVE  ReadErrorsAreFinal'
<1>0. /\ UNCHANGED cause
      /\ pump \in [Sides -> {"off", "read", "write", "read error", "write error",
                             "done"}]
  BY DEF TypeOK, Pump, Read, ReadFails, Write, WriteLost, WriteFails, Report
<1>1. \A t \in Sides : Drained(t) => Drained(t)'
  BY DrainedStays
<1>2. ASSUME cause = NoError, NEW t \in Sides, pump'[t] = "read error"
      PROVE  Drained(t)
  <2>1. CASE pump[t] = "read error"
    BY <1>2, <2>1 DEF ReadErrorsAreFinal
  <2>2. CASE pump[t] # "read error"
    <3>1. t = s /\ ReadFails(s)
      BY <1>0, <1>2, <2>2 DEF Pump, Read, ReadFails, Write, WriteLost,
         WriteFails, Report, Goto
    <3>2. conn[s] # "closed" /\ pump[s] = "read"
      BY <1>2, <3>1 DEF ReadFails, Lifecycle
    <3>3. held[s] = <<>>
      BY <3>2, Typed
    <3>4. QED
      BY <3>1, <3>2, <3>3 DEF ReadFails, Drained
  <2>3. QED
    BY <2>1, <2>2
<1>3. ASSUME cause = NoError, NEW t \in Sides,
             NEW i \in DOMAIN errors', errors'[i] = Error(t, "read")
      PROVE  Drained(t)
  <2>1. CASE ~Report(s)
    <3>1. UNCHANGED errors
      BY <2>1 DEF Pump, Read, ReadFails, Write, WriteLost, WriteFails
    <3>2. QED
      BY <1>3, <3>1 DEF ReadErrorsAreFinal
  <2>2. CASE Report(s)
    <3>1. PICK e : e = Error(s, IF pump[s] = "read error" THEN "read" ELSE "write")
                   /\ errors' = Append(errors, e)
      BY <2>2 DEF Report
    <3>2. errors \in Seq(Errors)
      BY DEF TypeOK
    <3>3. \/ i \in DOMAIN errors /\ errors'[i] = errors[i]
          \/ errors'[i] = e
      <4>1. e \in Errors
        BY <3>1, ErrorType
      <4>2. i \in DOMAIN Append(errors, e) /\ errors'[i] = Append(errors, e)[i]
        BY <1>3, <3>1
      <4>3. QED
        BY <3>2, <4>1, <4>2, InAppend
    <3>4. CASE i \in DOMAIN errors /\ errors'[i] = errors[i]
      BY <1>3, <3>4 DEF ReadErrorsAreFinal
    <3>5. CASE errors'[i] = e
      <4>1. t = s /\ pump[s] = "read error"
        <5>1. CASE pump[s] = "read error"
          <6>1. Error(s, "read") = Error(t, "read")
            BY <1>3, <3>1, <3>5, <5>1
          <6>2. QED
            BY <5>1, <6>1, SameError
        <5>2. CASE pump[s] # "read error"
          <6>1. Error(s, "write") = Error(t, "read")
            BY <1>3, <3>1, <3>5, <5>2
          <6>2. "write" = "read"
            BY <6>1, SameError
          <6>3. QED
            BY <6>2
        <5>3. QED
          BY <5>1, <5>2
      <4>2. QED
        BY <1>3, <4>1 DEF ReadErrorsAreFinal
    <3>6. QED
      BY <3>3, <3>4, <3>5
  <2>3. QED
    BY <2>1, <2>2
<1>4. QED
  BY <1>0, <1>1, <1>2, <1>3 DEF ReadErrorsAreFinal

LEMMA PeerQuiet ==
    ASSUME TypeOK, Lifecycle, ReadErrorsAreFinal, NEW s \in Sides, Peer(s)
    PROVE  Lifecycle' /\ ReadErrorsAreFinal'
<1>1. UNCHANGED <<pc, conn, pump, errors, cause>>
  BY DEF Peer, Send, Take, Leave, Break, proxy
<1>2. \A t \in Sides : Drained(t) => Drained(t)'
  BY DrainedStays
<1>3. QED
  BY <1>1, <1>2 DEF Lifecycle, ReadErrorsAreFinal

-----------------------------------------------------------------------------
(* The messages of one direction *)

\* A step that leaves a direction's messages alone, and revives no peer.
LEMMA FlowKept ==
    ASSUME NEW t \in Sides, Flow(t),
           written'[Other(t)] = written[Other(t)], held'[t] = held[t],
           unread'[t] = unread[t], sent'[t] = sent[t],
           peer'[Other(t)] = "up" => peer[Other(t)] = "up",
           peer'[t] # "broken" => peer[t] # "broken"
    PROVE  Flow(t)'
  BY DEF Flow

LEMMA ReadFlow ==
    ASSUME TypeOK, NEW s \in Sides, Flow(s), Read(s)
    PROVE  Flow(s)'
<1> DEFINE d == Other(s)
<1>1. /\ unread[s] \in Seq(Messages) /\ unread[s] # <<>> /\ held[s] = <<>>
      /\ written[d] \in Seq(Messages) /\ sent[s] \in Nat
      /\ held \in [Sides -> Seq(Messages)] /\ unread \in [Sides -> Seq(Messages)]
  BY OtherSide, Typed DEF Read, MessagesOK
<1>2. PICK u \in Seq(Messages) : u = unread[s] /\ u # <<>>
  BY <1>1
<1>3. PICK n \in Nat : n = Len(written[d])
  BY <1>1
<1>4. /\ held'[s] = <<Head(u)>> /\ unread'[s] = Tail(u)
      /\ UNCHANGED <<written, sent, peer>>
  BY <1>1, <1>2 DEF Read
<1>5. /\ Len(u) \in Nat \ {0} /\ Head(u) = u[1] /\ Len(Tail(u)) = Len(u) - 1
      /\ \A i \in 1..Len(Tail(u)) : Tail(u)[i] = u[i + 1]
      /\ Len(held'[s]) = 1 /\ held'[s][1] = u[1] /\ Len(held[s]) = 0
  BY <1>1, <1>2, <1>4
<1>6. CASE peer[d] # "up"
  BY <1>4, <1>6 DEF Flow
<1>7. CASE peer[d] = "up"
  <2>1. /\ \A i \in 1..Len(u) : u[i] = <<s, n + 0 + i>>
        /\ n + 0 + Len(u) <= sent[s]
        /\ peer[s] # "broken" => n + 0 + Len(u) = sent[s]
    BY <1>2, <1>3, <1>5, <1>7 DEF Flow
  <2>2. u[1] = <<s, n + 1>>
    BY <1>5, <2>1
  <2>3. \A i \in 1..1 : held'[s][i] = <<s, n + i>>
    BY <1>5, <2>2
  <2>4. ASSUME NEW i \in 1..Len(Tail(u))
        PROVE  Tail(u)[i] = <<s, n + 1 + i>>
    <3>1. i + 1 \in 1..Len(u) /\ n + 0 + (i + 1) = n + 1 + i
      BY <1>5
    <3>2. u[i + 1] = <<s, n + 0 + (i + 1)>>
      BY <2>1, <3>1
    <3>3. QED
      BY <1>5, <3>1, <3>2
  <2>5. /\ n + 1 + Len(Tail(u)) <= sent[s]
        /\ peer[s] # "broken" => n + 1 + Len(Tail(u)) = sent[s]
    BY <1>5, <2>1
  <2>6. QED
    BY <1>3, <1>4, <1>5, <2>3, <2>4, <2>5 DEF Flow
<1>8. QED
  BY <1>6, <1>7

\* One more message at the end of a sequence.
LEMMA OneMore ==
    ASSUME NEW w \in Seq(Messages), NEW h \in Seq(Messages), Len(h) = 1
    PROVE  /\ w \o h = Append(w, h[1]) /\ Len(w \o h) = Len(w) + 1
           /\ \A i \in 1..Len(w) : (w \o h)[i] = w[i]
           /\ (w \o h)[Len(w) + 1] = h[1]
           /\ h[1] \in Messages
<1>1. /\ Len(w) \in Nat /\ Len(w \o h) = Len(w) + 1
      /\ \A i \in 1..Len(w) : (w \o h)[i] = w[i]
      /\ (w \o h)[Len(w) + 1] = h[1]
      /\ h[1] \in Messages
  <2>1. h[1] \in Messages /\ Len(w) \in Nat
    OBVIOUS
  <2>2. Len(w \o h) = Len(w) + Len(h)
    BY ConcatProperties
  <2>3. \A i \in 1..Len(w) : (w \o h)[i] = w[i]
    BY ConcatProperties
  <2>4. PICK k \in Nat : k = Len(w) + 1
    BY <2>1
  <2>5. k \in 1..Len(w) + Len(h) /\ k > Len(w) /\ k - Len(w) = 1
    BY <2>1, <2>4
  <2>6. (w \o h)[k] = h[k - Len(w)]
    <3>1. (w \o h)[k] = IF k <= Len(w) THEN w[k] ELSE h[k - Len(w)]
      BY <2>5, ConcatProperties
    <3>2. ~(k <= Len(w))
      BY <2>1, <2>4
    <3>3. QED
      BY <3>1, <3>2
  <2>7. QED
    BY <2>1, <2>2, <2>3, <2>4, <2>5, <2>6
<1>2. /\ Append(w, h[1]) \in Seq(Messages) /\ Len(Append(w, h[1])) = Len(w) + 1
      /\ \A i \in 1..Len(w) : Append(w, h[1])[i] = w[i]
      /\ Append(w, h[1])[Len(w) + 1] = h[1]
  BY <1>1
<1>3. w \o h \in Seq(Messages)
  BY ConcatProperties
<1>4. \A i \in 1..Len(w) + 1 : (w \o h)[i] = Append(w, h[1])[i]
  BY <1>1, <1>2
<1>5. QED
  BY <1>1, <1>2, <1>3, <1>4

LEMMA WriteFlow ==
    ASSUME TypeOK, NEW s \in Sides, Flow(s), Write(s)
    PROVE  Flow(s)'
<1> DEFINE d == Other(s)
<1>0. d \in Sides /\ Target(s) = d
  BY OtherSide
<1>1. /\ written \in [Sides -> Seq(Messages)] /\ held \in [Sides -> Seq(Messages)]
      /\ unread[s] \in Seq(Messages) /\ sent[s] \in Nat
      /\ Len(held[s]) = 1
  BY Typed DEF Write, MessagesOK
<1>2. PICK w \in Seq(Messages) : w = written[d]
  BY <1>0, <1>1
<1>3. PICK h \in Seq(Messages) : h = held[s] /\ Len(h) = 1
  BY <1>1
<1>4. /\ written'[d] = w \o h /\ held'[s] = <<>> /\ peer[d] = "up"
      /\ UNCHANGED <<unread, sent, peer>>
  BY <1>0, <1>1, <1>2, <1>3 DEF Write
<1>5. PICK n \in Nat : n = Len(w)
  BY <1>2
<1>6. PICK u \in Nat : u = Len(unread[s])
  BY <1>1
<1>7. /\ n <= sent[s]
      /\ \A i \in 1..n : w[i] = <<s, i>>
      /\ \A i \in 1..1 : h[i] = <<s, n + i>>
      /\ \A i \in 1..u : unread[s][i] = <<s, n + 1 + i>>
      /\ n + 1 + u <= sent[s]
      /\ peer[s] # "broken" => n + 1 + u = sent[s]
  BY <1>2, <1>3, <1>4, <1>5, <1>6 DEF Flow
<1>8. Len(w \o h) = n + 1 /\ \A i \in 1..n + 1 : (w \o h)[i] = <<s, i>>
  <2>1. /\ Len(w \o h) = n + 1 /\ \A i \in 1..n : (w \o h)[i] = w[i]
        /\ (w \o h)[n + 1] = h[1]
    BY <1>3, <1>5, OneMore
  <2>2. h[1] = <<s, n + 1>>
    BY <1>7
  <2>3. \A i \in 1..n + 1 : i \in 1..n \/ i = n + 1
    OBVIOUS
  <2>4. QED
    BY <1>7, <2>1, <2>2, <2>3
<1>9. Len(held'[s]) = 0 /\ n + 1 <= sent[s]
      /\ n + 1 + 0 + u <= sent[s]
      /\ (peer[s] # "broken" => n + 1 + 0 + u = sent[s])
      /\ \A i \in 1..u : unread[s][i] = <<s, n + 1 + 0 + i>>
      /\ 1..0 = {}
  BY <1>1, <1>4, <1>7
<1>10. /\ Len(written'[d]) = n + 1 /\ Len(unread'[s]) = u /\ sent'[s] = sent[s]
       /\ unread'[s] = unread[s] /\ peer' = peer
  BY <1>4, <1>6, <1>8
<1>11. /\ \A i \in 1..n + 1 : written'[d][i] = <<s, i>>
       /\ \A i \in 1..0 : held'[s][i] = <<s, n + 1 + i>>
       /\ \A i \in 1..u : unread'[s][i] = <<s, n + 1 + 0 + i>>
  BY <1>4, <1>8, <1>9, <1>10
<1>12. QED
  BY <1>9, <1>10, <1>11 DEF Flow

LEMMA PumpFlow ==
    ASSUME TypeOK, NEW s \in Sides, Pump(s), \A t \in Sides : Flow(t)
    PROVE  \A t \in Sides : Flow(t)'
<1>0. /\ written \in [Sides -> Seq(Messages)] /\ held \in [Sides -> Seq(Messages)]
      /\ unread \in [Sides -> Seq(Messages)]
  BY Typed DEF MessagesOK
<1>1. UNCHANGED <<sent, peer>>
  BY DEF Pump, Read, ReadFails, Write, WriteLost, WriteFails, Report, network
<1>2. ASSUME NEW t \in Sides, t # s
      PROVE  Flow(t)'
  <2>1. Other(t) # Other(s) /\ Other(t) \in Sides /\ Other(s) \in Sides
        /\ Target(s) = Other(s)
    BY <1>2, OtherSide
  <2>2. unread' = unread \/ unread' = [unread EXCEPT ![s] = Tail(@)]
    BY DEF Pump, Read, ReadFails, Write, WriteLost, WriteFails, Report, network
  <2>3. held' = held \/ \E x : held' = [held EXCEPT ![s] = x]
    BY DEF Pump, Read, ReadFails, Write, WriteLost, WriteFails, Report
  <2>4. written' = written \/ \E x : written' = [written EXCEPT ![Other(s)] = x]
    BY <2>1 DEF Pump, Read, ReadFails, Write, WriteLost, WriteFails, Report, network
  <2>5. unread'[t] = unread[t] /\ held'[t] = held[t]
        /\ written'[Other(t)] = written[Other(t)]
    BY <1>0, <1>2, <2>1, <2>2, <2>3, <2>4
  <2>6. QED
    BY <1>1, <2>5, FlowKept
<1>3. Flow(s)'
  <2>1. CASE Read(s)
    BY <2>1, ReadFlow
  <2>2. CASE Write(s)
    BY <2>2, WriteFlow
  <2>3. CASE WriteLost(s)
    <3>1. peer[Other(s)] # "up" /\ UNCHANGED <<written, sent, peer>>
      BY <2>3, OtherSide DEF WriteLost, network
    <3>2. QED
      BY <3>1 DEF Flow
  <2>4. CASE ReadFails(s) \/ WriteFails(s) \/ Report(s)
    <3>1. UNCHANGED <<written, sent, peer, held, unread>>
      BY <2>4 DEF ReadFails, WriteFails, Report, network
    <3>2. QED
      BY <3>1, FlowKept
  <2>5. QED
    BY <2>1, <2>2, <2>3, <2>4 DEF Pump
<1>4. QED
  BY <1>2, <1>3

LEMMA PeerFlow ==
    ASSUME TypeOK, NEW s \in Sides, Peer(s), \A t \in Sides : Flow(t)
    PROVE  \A t \in Sides : Flow(t)'
<1>0. /\ written \in [Sides -> Seq(Messages)] /\ held \in [Sides -> Seq(Messages)]
      /\ unread \in [Sides -> Seq(Messages)] /\ sent \in [Sides -> 0..MaxMessages]
      /\ peer \in [Sides -> {"up", "left", "broken"}]
  BY Typed DEF MessagesOK, TypeOK
<1>1. UNCHANGED <<held, written>>
  BY DEF Peer, Send, Take, Leave, Break, proxy
<1>2. ASSUME NEW t \in Sides, t # s
      PROVE  Flow(t)'
  <2>1. Other(t) = s
    BY <1>2 DEF Sides, Other
  <2>2. /\ unread'[t] = unread[t] /\ sent'[t] = sent[t] /\ peer'[t] = peer[t]
        /\ peer'[s] = "up" => peer[s] = "up"
    BY <1>0, <1>2 DEF Peer, Send, Take, Leave, Break
  <2>3. QED
    BY <1>1, <2>1, <2>2, FlowKept
<1>3. Flow(s)'
  <2>1. CASE Send(s)
    <3>1. peer[s] = "up" /\ UNCHANGED peer
          /\ sent'[s] = sent[s] + 1 /\ sent[s] \in Nat
          /\ unread'[s] = Append(unread[s], <<s, sent[s] + 1>>)
      BY <1>0, <2>1 DEF Send
    <3>2. CASE peer[Other(s)] # "up"
      <4>1. Len(written[Other(s)]) \in Nat
        BY <1>0, OtherSide
      <4>2. Len(written[Other(s)]) <= sent[s]
        BY DEF Flow
      <4>3. Len(written[Other(s)]) <= sent[s] + 1
        BY <3>1, <4>1, <4>2
      <4>4. QED
        BY <1>1, <3>1, <3>2, <4>3 DEF Flow
    <3>3. CASE peer[Other(s)] = "up"
      <4>1. PICK n \in Nat : n = Len(written[Other(s)])
        BY <1>0, OtherSide
      <4>2. PICK h \in Nat : h = Len(held[s])
        BY <1>0
      <4>3. PICK m : m = <<s, sent[s] + 1>>
        OBVIOUS
      <4>4. Len(unread[s]) \in Nat /\ Len(unread'[s]) = Len(unread[s]) + 1
            /\ (\A i \in 1..Len(unread[s]) : unread'[s][i] = unread[s][i])
            /\ unread'[s][Len(unread[s]) + 1] = m
        BY <1>0, <3>1, <4>3
      <4>5. PICK u \in Nat : u = Len(unread[s])
        BY <4>4
      <4>6. /\ n <= sent[s] /\ n + h + u = sent[s]
            /\ \A i \in 1..n : written[Other(s)][i] = <<s, i>>
            /\ \A i \in 1..h : held[s][i] = <<s, n + i>>
            /\ \A i \in 1..u : unread[s][i] = <<s, n + h + i>>
        BY <3>1, <3>3, <4>1, <4>2, <4>5 DEF Flow
      <4>7. \A i \in 1..u + 1 : unread'[s][i] = <<s, n + h + i>>
        <5>1. \A i \in 1..u + 1 : i \in 1..u \/ i = u + 1
          OBVIOUS
        <5>2. unread'[s][u + 1] = <<s, n + h + (u + 1)>>
          <6>1. n + h + (u + 1) = sent[s] + 1
            BY <3>1, <4>6
          <6>2. QED
            BY <4>3, <4>4, <4>5, <6>1
        <5>3. QED
          BY <4>4, <4>5, <4>6, <5>1, <5>2
      <4>8. n <= sent'[s] /\ n + h + (u + 1) = sent'[s]
            /\ n + h + (u + 1) <= sent'[s]
        BY <3>1, <4>6
      <4>9. Len(unread'[s]) = u + 1
        BY <4>4, <4>5
      <4>10. QED
        BY <1>1, <4>1, <4>2, <4>6, <4>7, <4>8, <4>9 DEF Flow
    <3>4. QED
      BY <3>2, <3>3
  <2>2. CASE Take(s)
    BY <1>1, <2>2, FlowKept DEF Take
  <2>3. CASE Leave(s)
    <3>1. Other(s) # s /\ Other(s) \in Sides
      BY OtherSide
    <3>2. UNCHANGED <<unread, sent>> /\ peer'[Other(s)] = peer[Other(s)]
          /\ peer[s] = "up"
      BY <1>0, <2>3, <3>1 DEF Leave
    <3>3. QED
      BY <1>1, <3>2, FlowKept
  <2>4. CASE Break(s)
    <3>1. Other(s) # s /\ Other(s) \in Sides
      BY OtherSide
    <3>2. UNCHANGED sent /\ peer'[Other(s)] = peer[Other(s)]
          /\ peer'[s] = "broken" /\ unread'[s] = <<>> /\ Len(unread'[s]) = 0
      BY <1>0, <2>4, <3>1 DEF Break
    <3>3. Len(written[Other(s)]) \in Nat /\ Len(held[s]) \in Nat
          /\ Len(unread[s]) \in Nat /\ sent[s] \in Nat
      BY <1>0, <3>1
    <3>4. peer[Other(s)] = "up" => Len(written[Other(s)]) + Len(held[s]) + 0 <= sent[s]
      <4>1. ASSUME peer[Other(s)] = "up"
            PROVE  Len(written[Other(s)]) + Len(held[s]) + Len(unread[s]) <= sent[s]
        BY <4>1 DEF Flow
      <4>2. \A a, b, c, m \in Nat : a + b + c <= m => a + b + 0 <= m
        OBVIOUS
      <4>3. QED
        BY <3>3, <4>1, <4>2
    <3>5. 1..0 = {}
      OBVIOUS
    <3>6. QED
      BY <1>1, <3>2, <3>4, <3>5 DEF Flow
  <2>5. QED
    BY <2>1, <2>2, <2>3, <2>4 DEF Peer
<1>4. QED
  BY <1>2, <1>3

-----------------------------------------------------------------------------
(* The theorems *)

\* SessionInv is inductive: it holds wherever a session is interrupted, with
\* any number of messages on their way in both directions.
THEOREM SessionCorrect == Spec => [](TypeOK /\ SessionInv)
<1>1. Init => TypeOK /\ SessionInv
  BY InitType, InitSession
<1>2. TypeOK /\ SessionInv /\ [Next]_vars => (TypeOK /\ SessionInv)'
  <2> SUFFICES ASSUME TypeOK, SessionInv, [Next]_vars
               PROVE  (TypeOK /\ SessionInv)'
    OBVIOUS
  <2>0. Lifecycle /\ ReadErrorsAreFinal /\ \A t \in Sides : Flow(t)
    BY DEF SessionInv
  <2>1. CASE UNCHANGED vars
    <3>1. TypeOK'
      BY <2>1 DEF TypeOK, MessagesOK, vars, request, proxy, network
    <3>2. Lifecycle' /\ ReadErrorsAreFinal'
      BY <2>0, <2>1 DEF Lifecycle, ReadErrorsAreFinal, Drained, vars, request,
         proxy, network
    <3>3. \A t \in Sides : Flow(t)'
      BY <2>0, <2>1, FlowKept DEF vars, proxy, network
    <3>4. QED
      BY <3>1, <3>2, <3>3 DEF SessionInv
  <2>2. CASE Handling
    BY <2>0, <2>2, HandlingType, HandlingSession
  <2>3. ASSUME NEW s \in Sides, Pump(s)
        PROVE  (TypeOK /\ SessionInv)'
    BY <2>0, <2>3, PumpType, PumpLifecycle, PumpVerdict, PumpFlow DEF SessionInv
  <2>4. ASSUME NEW s \in Sides, Peer(s)
        PROVE  (TypeOK /\ SessionInv)'
    BY <2>0, <2>4, PeerType, PeerQuiet, PeerFlow DEF SessionInv
  <2>5. QED
    BY <2>1, <2>2, <2>3, <2>4, Steps
<1>3. QED
  BY <1>1, <1>2, PTL DEF Spec

\* errChan never overflows, a goroutine that writes has one message, and a
\* peer reads only what was written to it, however long a session lasts.
THEOREM TypeCorrect == Spec => []TypeOK
<1>1. QED
  BY SessionCorrect, PTL

\* Whatever fails, no connection is left open by a handler that is done.
THEOREM EndsAreClosed == Spec => []ClosedWhenDone
<1>1. SessionInv => ClosedWhenDone
  BY DEF SessionInv, Lifecycle, ClosedWhenDone
<1>2. QED
  BY <1>1, SessionCorrect, PTL

\* A session that ends because one peer left has passed on all it sent.
THEOREM LastWordsArrive == Spec => []NothingLeftBehind
<1>1. TypeOK /\ SessionInv => NothingLeftBehind
  <2> SUFFICES ASSUME TypeOK, SessionInv, NEW s \in Sides,
                      cause = Error(s, "read"), peer[s] = "left",
                      peer[Other(s)] = "up"
               PROVE  Len(written[Other(s)]) = sent[s]
    BY DEF NothingLeftBehind
  <2>1. Drained(s) /\ Flow(s)
    BY DEF SessionInv, ReadErrorsAreFinal
  <2>2. Len(held[s]) = 0 /\ Len(unread[s]) = 0
    BY <2>1 DEF Drained
  <2>3. Len(written[Other(s)]) \in Nat
    BY OtherSide, Typed
  <2>4. QED
    BY <2>1, <2>2, <2>3 DEF Flow
<1>2. QED
  BY <1>1, SessionCorrect, PTL

-----------------------------------------------------------------------------
(* How a session ends *)

\* What the steps do to the goroutines and the connections, and to nothing
\* else that ErrorsOnce looks at.
LEMMA ErrorsHaveSides ==
    ASSUME TypeOK
    PROVE  /\ \A i \in DOMAIN errors : errors[i].side \in Sides
           /\ cause # NoError => cause.side \in Sides
<1>1. \A e \in Errors : e.side \in Sides
  BY DEF Errors, Error
<1>2. errors \in Seq(Errors) /\ cause \in Errors \cup {NoError}
  BY DEF TypeOK
<1>3. \A i \in DOMAIN errors : errors[i] \in Errors
  BY <1>2
<1>4. QED
  BY <1>1, <1>2, <1>3

LEMMA HandlingErrors ==
    ASSUME TypeOK, SessionInv, ErrorsOnce, Handling
    PROVE  ErrorsOnce'
<1>0. errors \in Seq(Errors)
  BY DEF TypeOK
<1>1. CASE Settle
  <2>1. /\ UNCHANGED <<pump, conn>> /\ errors # <<>>
        /\ cause' = errors[1] /\ errors' = Tail(errors)
    BY <1>0, <1>1 DEF Settle, Enough
  <2>2. \A i \in DOMAIN Tail(errors) :
           i + 1 \in DOMAIN errors /\ i + 1 # 1 /\ i \in Nat
           /\ Tail(errors)[i] = errors[i + 1]
    BY <1>0, <2>1
  <2>3. 1 \in DOMAIN errors
    BY <1>0, <2>1
  <2>4. \A i \in DOMAIN errors' :
           /\ pump'[errors'[i].side] = "done"
           /\ errors'[i].side # cause'.side
           /\ \A j \in DOMAIN errors' : errors'[j].side = errors'[i].side => j = i
    BY <2>1, <2>2, <2>3 DEF ErrorsOnce
  <2>5. QED
    BY <2>1, <2>3, <2>4 DEF ErrorsOnce
<1>2. CASE Upgrade
  <2>1. /\ pump' = [s \in Sides |-> "read"] /\ UNCHANGED <<errors, cause>>
        /\ conn' = [conn EXCEPT !["client"] = "open"] /\ cause = NoError
        /\ conn["upstream"] = "open"
        /\ \A s \in Sides : pump[s] = "off"
    BY <1>2 DEF Upgrade, SessionInv, Lifecycle
  <2>2. \A i \in DOMAIN errors : FALSE
    <3>1. \A i \in DOMAIN errors : errors[i].side \in Sides
      BY <1>0 DEF Errors, Error
    <3>2. QED
      BY <2>1, <3>1 DEF ErrorsOnce
  <2>3. conn'["upstream"] = "open"
    BY <2>1 DEF TypeOK, Sides
  <2>4. QED
    BY <2>1, <2>2, <2>3 DEF ErrorsOnce
<1>3. CASE ~Settle /\ ~Upgrade
  <2>1. UNCHANGED <<pump, errors, cause>>
    BY <1>3 DEF Handling, Receive, Handle, NoNodes, Dial, DialFails,
       Exhausted, Answer, UpgradeFails, CloseClient, CloseUpstream, proxy
  <2>2. conn["client"] = "none" \/ conn["upstream"] # "none"
    BY DEF ErrorsOnce
  <2>3. conn'["client"] # "none" => conn'["upstream"] # "none"
    BY <1>3, <2>2 DEF Handling, Receive, Handle, NoNodes, Dial, DialFails,
       Exhausted, Answer, UpgradeFails, CloseClient, CloseUpstream, TypeOK, Sides
  <2>4. QED
    BY <2>1, <2>3 DEF ErrorsOnce
<1>4. QED
  BY <1>1, <1>2, <1>3

LEMMA PumpErrors ==
    ASSUME TypeOK, SessionInv, ErrorsOnce, NEW s \in Sides, Pump(s)
    PROVE  ErrorsOnce'
<1>0. /\ errors \in Seq(Errors) /\ UNCHANGED <<conn, cause>>
      /\ pump \in [Sides -> {"off", "read", "write", "read error", "write error",
                             "done"}]
      /\ pump[s] # "done"
  BY DEF TypeOK, Pump, Read, ReadFails, Write, WriteLost, WriteFails, Report
<1>1. /\ \A i \in DOMAIN errors : errors[i].side # s
      /\ cause # NoError => cause.side # s
  BY <1>0 DEF ErrorsOnce
<1>2. CASE Report(s)
  <2>1. PICK at \in {"read", "write"} : errors' = Append(errors, Error(s, at))
    BY <1>2 DEF Report
  <2>2. pump' = [pump EXCEPT ![s] = "done"]
    BY <1>2 DEF Report, Goto
  <2>3. Error(s, at) \in Errors /\ Error(s, at).side = s
    BY ErrorType DEF Error
  <2>4. \A i \in DOMAIN errors' :
           \/ i \in DOMAIN errors /\ errors'[i] = errors[i]
           \/ i = Len(errors) + 1 /\ errors'[i].side = s
    <3>1. \A q \in Seq(Errors) : \A e : \A i \in DOMAIN Append(q, e) :
             \/ i \in DOMAIN q /\ Append(q, e)[i] = q[i]
             \/ i = Len(q) + 1 /\ Append(q, e)[i] = e
      OBVIOUS
    <3>2. QED
      BY <1>0, <2>1, <2>3, <3>1
  <2>5. \A i \in DOMAIN errors' : pump'[errors'[i].side] = "done"
    BY <1>0, <1>1, <2>2, <2>4, ErrorsHaveSides DEF ErrorsOnce
  <2>6. \A i, j \in DOMAIN errors' : errors'[j].side = errors'[i].side => j = i
    BY <1>1, <2>4 DEF ErrorsOnce
  <2>7. cause # NoError => /\ pump'[cause.side] = "done"
                           /\ \A i \in DOMAIN errors' : errors'[i].side # cause.side
    BY <1>0, <1>1, <2>2, <2>4, ErrorsHaveSides DEF ErrorsOnce
  <2>8. QED
    BY <1>0, <2>5, <2>6, <2>7 DEF ErrorsOnce
<1>3. CASE ~Report(s)
  <2>1. UNCHANGED errors /\ \E where : pump' = [pump EXCEPT ![s] = where]
    BY <1>3 DEF Pump, Read, ReadFails, Write, WriteLost, WriteFails, Goto
  <2>2. \A t \in Sides : t # s /\ pump[t] = "done" => pump'[t] = "done"
    BY <1>0, <2>1
  <2>3. QED
    BY <1>0, <1>1, <2>1, <2>2, ErrorsHaveSides DEF ErrorsOnce
<1>4. QED
  BY <1>2, <1>3

\* Each goroutine reports one error, and none is lost or counted twice
\* between errChan and the handler that takes one from it.
THEOREM EachReportsOnce == Spec => []ErrorsOnce
<1>1. Init => ErrorsOnce
  BY DEF Init, ErrorsOnce, Sides
<1>2. TypeOK /\ SessionInv /\ ErrorsOnce /\ [Next]_vars => ErrorsOnce'
  <2> SUFFICES ASSUME TypeOK, SessionInv, ErrorsOnce, [Next]_vars
               PROVE  ErrorsOnce'
    OBVIOUS
  <2>1. CASE UNCHANGED vars
    BY <2>1 DEF ErrorsOnce, vars, proxy
  <2>2. ASSUME NEW s \in Sides, Peer(s)
        PROVE  ErrorsOnce'
    BY <2>2 DEF Peer, Send, Take, Leave, Break, proxy, ErrorsOnce
  <2>3. QED
    BY <2>1, <2>2, Steps, HandlingErrors, PumpErrors
<1>3. QED
  BY <1>1, <1>2, SessionCorrect, PTL DEF Spec

LEMMA FullMeansDone ==
    ASSUME TypeOK, ErrorsOnce, ~Room
    PROVE  \A s \in Sides : pump[s] = "done"
<1>1. errors \in Seq(Errors) /\ Len(errors) <= 2 /\ ~(Len(errors) < 2)
  BY DEF Room, TypeOK
<1>2. 1 \in DOMAIN errors /\ 2 \in DOMAIN errors
  BY <1>1
<1>3. errors[1].side \in Sides /\ errors[2].side \in Sides
  BY <1>2, ErrorsHaveSides
<1>4. errors[1].side = errors[2].side => 1 = 2
  BY <1>2 DEF ErrorsOnce
<1>5. errors[1].side # errors[2].side
  BY <1>4
<1>6. \A s \in Sides : s = errors[1].side \/ s = errors[2].side
  BY <1>3, <1>5 DEF Sides
<1>7. QED
  BY <1>2, <1>6 DEF ErrorsOnce

LEMMA RoomToReport ==
    ASSUME TypeOK, ErrorsOnce
    PROVE  ReportsFit
  BY FullMeansDone DEF ReportsFit

\* Two places are enough for errChan: no goroutine is left behind in a send
\* that nobody receives.
THEOREM SendsNeverBlock == Spec => []ReportsFit
<1>1. QED
  BY RoomToReport, SessionCorrect, EachReportsOnce, PTL

\* With PumpsRunOut, the argument for PumpsEnd that needs no temporal logic:
\* after the handler's closes both goroutines can move, ...
THEOREM NoneWaitsAfterwards == Spec => []NoneWaits
<1>1. TypeOK /\ SessionInv /\ ErrorsOnce => NoneWaits
  <2> SUFFICES ASSUME TypeOK, SessionInv, ErrorsOnce, pc = "done", NEW s \in Sides,
                      pump[s] \notin {"off", "done"}
               PROVE  CanMove(s)
    BY DEF NoneWaits
  <2>1. conn["client"] # "none" /\ \A t \in Sides : conn[t] # "open"
    BY DEF SessionInv, Lifecycle
  <2>2. \A t \in Sides : conn[t] = "closed"
    BY <2>1 DEF ErrorsOnce, TypeOK, Sides
  <2>3. conn[s] = "closed" /\ conn[Target(s)] = "closed"
    BY <2>2, OtherSide
  <2>4. pump[s] \in {"read error", "write error"} => Room
    BY RoomToReport DEF ReportsFit
  <2>5. QED
    BY <2>3, <2>4 DEF CanMove, TypeOK
<1>2. QED
  BY <1>1, SessionCorrect, EachReportsOnce, PTL

\* ... and every step of one brings it nearer to its end.
THEOREM PumpsRunOut == Spec => PumpsWindDown
<1>1. TypeOK /\ SessionInv /\ [Next]_vars =>
         [pc = "done" =>
             /\ pc' = "done"
             /\ \A s \in Sides : pump'[s] # pump[s] => StepsLeft(s)' < StepsLeft(s)]_vars
  <2> SUFFICES ASSUME TypeOK, SessionInv, [Next]_vars, pc = "done"
               PROVE  /\ pc' = "done"
                      /\ \A s \in Sides :
                            pump'[s] # pump[s] => StepsLeft(s)' < StepsLeft(s)
    OBVIOUS
  <2>0. /\ pump \in [Sides -> {"off", "read", "write", "read error", "write error",
                               "done"}]
        /\ \A s \in Sides : conn[s] # "open"
    BY DEF TypeOK, SessionInv, Lifecycle
  <2>1. CASE UNCHANGED vars
    BY <2>1 DEF vars, proxy
  <2>2. ~Handling
    BY DEF Handling, Receive, Handle, NoNodes, Dial, DialFails, Exhausted,
       Upgrade, UpgradeFails, Settle, CloseClient, CloseUpstream
  <2>3. ASSUME NEW s \in Sides, Peer(s)
        PROVE  UNCHANGED <<pc, pump>>
    BY <2>3 DEF Peer, Send, Take, Leave, Break, proxy
  <2>4. ASSUME NEW s \in Sides, Pump(s)
        PROVE  /\ pc' = "done"
               /\ \A t \in Sides :
                     pump'[t] # pump[t] => StepsLeft(t)' < StepsLeft(t)
    <3>1. conn[Target(s)] # "open"
      BY <2>0, OtherSide
    <3>2. UNCHANGED pc
      BY <2>4 DEF Pump, Read, ReadFails, Write, WriteLost, WriteFails, Report
    <3>3. \/ pump[s] = "read" /\ pump' = [pump EXCEPT ![s] = "write"]
          \/ pump[s] = "read" /\ pump' = [pump EXCEPT ![s] = "read error"]
          \/ pump[s] = "write" /\ pump' = [pump EXCEPT ![s] = "write error"]
          \/ /\ pump[s] \in {"read error", "write error"}
             /\ pump' = [pump EXCEPT ![s] = "done"]
      BY <2>4, <3>1 DEF Pump, Read, ReadFails, Write, WriteLost, WriteFails, Report,
         Goto
    <3>4. \A t \in Sides : t # s => pump'[t] = pump[t]
      BY <2>0, <3>3
    <3>5. StepsLeft(s)' < StepsLeft(s)
      <4>1. \/ pump[s] = "read" /\ pump'[s] \in {"write", "read error"}
            \/ pump[s] = "write" /\ pump'[s] = "write error"
            \/ pump[s] \in {"read error", "write error"} /\ pump'[s] = "done"
        BY <2>0, <3>3
      <4>2. \/ StepsLeft(s) = 3 /\ StepsLeft(s)' \in {2, 1}
            \/ StepsLeft(s) = 2 /\ StepsLeft(s)' = 1
            \/ StepsLeft(s) = 1 /\ StepsLeft(s)' = 0
        BY <4>1 DEF StepsLeft
      <4>3. QED
        BY <4>2
    <3>6. QED
      BY <3>2, <3>4, <3>5
  <2>5. QED
    BY <2>1, <2>2, <2>3, <2>4, Steps
<1>2. QED
  BY <1>1, SessionCorrect, PTL DEF Spec, PumpsWindDown

-----------------------------------------------------------------------------
(* What the code does *)

\* With the headers of the handshake passed on, as the code passes them, no
\* session is ever opened, whatever the nodes and the list are.
THEOREM NothingIsOpened == ~Stripped => (Spec => []NoSession)
<1> SUFFICES ASSUME ~Stripped
             PROVE  Spec => []NoSession
  OBVIOUS
<1>1. Init => NoSession
  BY DEF Init, NoSession
<1>2. NoSession /\ [Next]_vars => NoSession'
  <2> SUFFICES ASSUME NoSession, [Next]_vars
               PROVE  NoSession'
    OBVIOUS
  <2>1. CASE UNCHANGED vars
    BY <2>1 DEF vars, request, proxy, NoSession
  <2>2. CASE Handling
    BY <2>2 DEF NoSession, Handling, Receive, Handle, NoNodes, Dial, Refused,
       DialFails, Exhausted, Answer, Upgrade, UpgradeFails, Settle, CloseClient,
       CloseUpstream, proxy
  <2>3. ASSUME NEW s \in Sides, Pump(s)
        PROVE  FALSE
    BY <2>3 DEF NoSession, Pump, Read, ReadFails, Write, WriteLost, WriteFails, Report
  <2>4. ASSUME NEW s \in Sides, Peer(s)
        PROVE  NoSession'
    BY <2>4 DEF NoSession, Peer, Send, Take, Leave, Break, request, proxy
  <2>5. QED
    BY <2>1, <2>2, <2>3, <2>4, Steps
<1>3. QED
  BY <1>1, <1>2, PTL DEF Spec

-----------------------------------------------------------------------------
(* The refinement *)

LEMMA MessagesOfType ==
    ASSUME TypeOK, NEW s \in Sides
    PROVE  /\ MessagesOf(s) \in Seq(Messages) /\ Len(MessagesOf(s)) = sent[s]
           /\ \A k \in 1..sent[s] : MessagesOf(s)[k] = <<s, k>>
<1>1. sent[s] \in 0..MaxMessages /\ MaxMessages \in Nat
  BY Typed, SessionAssumption
<1>2. \A k \in 1..sent[s] : <<s, k>> \in Messages
  BY <1>1 DEF Messages
<1>3. MessagesOf(s) \in [1..sent[s] -> Messages]
  BY <1>2 DEF MessagesOf
<1>4. \A n \in Nat : \A f \in [1..n -> Messages] : f \in Seq(Messages) /\ Len(f) = n
  OBVIOUS
<1>5. QED
  BY <1>1, <1>3, <1>4 DEF MessagesOf

\* The message that a goroutine writes is the next that its side sent.
LEMMA WriteForwards ==
    ASSUME TypeOK, SessionInv, NEW s \in Sides, Write(s)
    PROVE  /\ Len(written[Other(s)]) < Len(MessagesOf(s))
           /\ written'[Other(s)] = Append(written[Other(s)],
                                    MessagesOf(s)[Len(written[Other(s)]) + 1])
<1>0. Other(s) \in Sides /\ Target(s) = Other(s) /\ Flow(s)
  BY OtherSide DEF SessionInv
<1>1. /\ written \in [Sides -> Seq(Messages)] /\ held[s] \in Seq(Messages)
      /\ Len(held[s]) = 1 /\ Len(unread[s]) \in Nat /\ sent[s] \in Nat
  BY Typed DEF Write, MessagesOK
<1>2. PICK w \in Seq(Messages) : w = written[Other(s)]
  BY <1>0, <1>1
<1>3. PICK n \in Nat : n = Len(w)
  BY <1>2
<1>4. written'[Other(s)] = w \o held[s] /\ peer[Other(s)] = "up"
  BY <1>0, <1>1, <1>2 DEF Write
<1>5. held[s][1] = <<s, n + 1>> /\ n + 1 \in 1..sent[s] /\ n < sent[s]
  <2>1. /\ \A i \in 1..Len(held[s]) : held[s][i] = <<s, n + i>>
        /\ n + Len(held[s]) + Len(unread[s]) <= sent[s]
    BY <1>0, <1>2, <1>3, <1>4 DEF Flow
  <2>2. PICK u \in Nat : u = Len(unread[s])
    BY <1>1
  <2>3. n + 1 + u <= sent[s] /\ held[s][1] = <<s, n + 1>>
    <3>1. n + 1 + u <= sent[s]
      BY <1>1, <2>1, <2>2
    <3>2. 1 \in 1..Len(held[s])
      BY <1>1
    <3>3. QED
      BY <2>1, <3>1, <3>2
  <2>4. n + 1 <= sent[s]
    BY <1>1, <2>3
  <2>5. QED
    BY <1>1, <2>3, <2>4
<1>6. n + 1 \in 1..sent[s] /\ n < sent[s]
  BY <1>5
<1>7. MessagesOf(s)[n + 1] = <<s, n + 1>> /\ Len(MessagesOf(s)) = sent[s]
  BY <1>6, MessagesOfType
<1>8. w \o held[s] = Append(w, held[s][1])
  BY <1>1, OneMore
<1>9. QED
  BY <1>2, <1>3, <1>4, <1>5, <1>6, <1>7, <1>8

LEMMA SendAppends ==
    ASSUME TypeOK, NEW s \in Sides, Send(s)
    PROVE  \E m \in Messages : MessagesOf(s)' = Append(MessagesOf(s), m)
<1>1. sent[s] \in 0..MaxMessages /\ sent[s] < MaxMessages /\ MaxMessages \in Nat
  BY Typed, SessionAssumption DEF Send
<1>2. PICK n \in Nat : n = sent[s]
  BY <1>1
<1>3. sent'[s] = n + 1
  BY <1>2, Typed DEF Send, MessagesOK
<1>4. <<s, n + 1>> \in Messages
  BY <1>1, <1>2 DEF Messages
<1>5. PICK q \in Seq(Messages) : q = MessagesOf(s) /\ Len(q) = n
                                 /\ \A k \in 1..n : q[k] = <<s, k>>
  BY <1>2, MessagesOfType
<1>6. PICK r : r = Append(q, <<s, n + 1>>)
  OBVIOUS
<1>7. /\ r \in Seq(Messages) /\ Len(r) = n + 1
      /\ \A k \in 1..n : r[k] = q[k]
      /\ r[n + 1] = <<s, n + 1>>
  BY <1>4, <1>5, <1>6, AppendProperties
<1>8. MessagesOf(s)' = [k \in 1..n + 1 |-> <<s, k>>]
  BY <1>3 DEF MessagesOf
<1>9. \A k \in 1..n + 1 : k \in 1..n \/ k = n + 1
  OBVIOUS
<1>10. \A k \in 1..n + 1 : r[k] = <<s, k>>
  BY <1>5, <1>7, <1>9
<1>11. r = [k \in 1..n + 1 |-> <<s, k>>]
  <2>1. r \in [1..n + 1 -> Messages]
    BY <1>7
  <2>2. QED
    BY <1>10, <2>1
<1>12. QED
  BY <1>4, <1>5, <1>6, <1>8, <1>11

\* What any step does to the direction from side s: it sends a message,
\* forwards the next one, ends the direction, or does nothing to it.
LEMMA Direction ==
    ASSUME TypeOK, SessionInv, [Next]_vars, NEW s \in Sides
    PROVE  \/ /\ \E m \in Messages : MessagesOf(s)' = Append(MessagesOf(s), m)
              /\ written'[Other(s)] = written[Other(s)] /\ (IsOver(s)' <=> IsOver(s))
           \/ /\ ~IsOver(s) /\ Len(written[Other(s)]) < Len(MessagesOf(s))
              /\ written'[Other(s)] = Append(written[Other(s)],
                                        MessagesOf(s)[Len(written[Other(s)]) + 1])
              /\ MessagesOf(s)' = MessagesOf(s) /\ ~IsOver(s)'
           \/ /\ IsOver(s)'
              /\ MessagesOf(s)' = MessagesOf(s)
              /\ written'[Other(s)] = written[Other(s)]
           \/ /\ MessagesOf(s)' = MessagesOf(s)
              /\ written'[Other(s)] = written[Other(s)] /\ (IsOver(s)' <=> IsOver(s))
<1>0. /\ written \in [Sides -> Seq(Messages)] /\ sent \in [Sides -> 0..MaxMessages]
      /\ pump \in [Sides -> {"off", "read", "write", "read error", "write error",
                             "done"}]
      /\ Other(s) \in Sides /\ Target(s) = Other(s)
  BY Typed, OtherSide DEF MessagesOK, TypeOK
<1>1. CASE UNCHANGED vars
  BY <1>1 DEF vars, proxy, network, MessagesOf, IsOver
<1>2. CASE Handling
  <2>1. UNCHANGED <<sent, written>>
    BY <1>2 DEF Handling, Receive, Handle, NoNodes, Dial, DialFails, Exhausted,
       Answer, Upgrade, UpgradeFails, Settle, CloseClient, CloseUpstream, network
  <2>2. IsOver(s)' <=> IsOver(s)
    <3>1. CASE Upgrade
      <4>1. pump[s] = "off" /\ pump'[s] = "read"
        BY <3>1 DEF Upgrade, SessionInv, Lifecycle
      <4>2. QED
        BY <4>1 DEF IsOver
    <3>2. CASE ~Upgrade
      <4>1. UNCHANGED pump
        BY <1>2, <3>2 DEF Handling, Receive, Handle, NoNodes, Dial, DialFails,
           Exhausted, Answer, UpgradeFails, Settle, CloseClient, CloseUpstream, proxy
      <4>2. QED
        BY <4>1 DEF IsOver
    <3>3. QED
      BY <3>1, <3>2
  <2>3. QED
    BY <2>1, <2>2 DEF MessagesOf
<1>3. ASSUME NEW t \in Sides, t # s, Pump(t) \/ Peer(t)
      PROVE  /\ MessagesOf(s)' = MessagesOf(s)
             /\ written'[Other(s)] = written[Other(s)] /\ (IsOver(s)' <=> IsOver(s))
  <2>1. Other(t) # Other(s) /\ Target(t) = Other(t)
    BY <1>3, OtherSide
  <2>2. written' = written \/ \E x : written' = [written EXCEPT ![Other(t)] = x]
    BY <1>3, <2>1 DEF Pump, Read, ReadFails, Write, WriteLost, WriteFails, Report,
       Peer, Send, Take, Leave, Break, network
  <2>3. pump' = pump \/ \E x : pump' = [pump EXCEPT ![t] = x]
    BY <1>3 DEF Pump, Read, ReadFails, Write, WriteLost, WriteFails, Report, Goto,
       Peer, Send, Take, Leave, Break, proxy
  <2>4. sent' = sent \/ sent' = [sent EXCEPT ![t] = @ + 1]
    BY <1>3 DEF Pump, Read, ReadFails, Write, WriteLost, WriteFails, Report,
       Peer, Send, Take, Leave, Break, network
  <2>5. sent'[s] = sent[s] /\ pump'[s] = pump[s]
        /\ written'[Other(s)] = written[Other(s)]
    BY <1>0, <1>3, <2>1, <2>2, <2>3, <2>4
  <2>6. QED
    BY <2>5 DEF MessagesOf, IsOver
<1>4. CASE Write(s)
  <2>1. pump[s] = "write" /\ pump'[s] = "read" /\ UNCHANGED sent
    BY <1>0, <1>4 DEF Write, Goto
  <2>2. ~IsOver(s) /\ ~IsOver(s)' /\ MessagesOf(s)' = MessagesOf(s)
    BY <2>1 DEF IsOver, MessagesOf
  <2>3. QED
    BY <1>4, <2>2, WriteForwards
<1>5. CASE Read(s) \/ WriteLost(s)
  <2>1. pump[s] \in {"read", "write"} /\ pump'[s] \in {"read", "write"}
        /\ UNCHANGED <<sent, written>>
    BY <1>0, <1>5 DEF Read, WriteLost, Goto, network
  <2>2. QED
    BY <2>1 DEF IsOver, MessagesOf
<1>6. CASE ReadFails(s) \/ WriteFails(s) \/ Report(s)
  <2>1. pump'[s] \in {"read error", "write error", "done"} /\ UNCHANGED <<sent, written>>
    BY <1>0, <1>6 DEF ReadFails, WriteFails, Report, Goto, network
  <2>2. QED
    BY <2>1 DEF IsOver, MessagesOf
<1>7. CASE Send(s)
  <2>1. UNCHANGED <<pump, written>>
    BY <1>7 DEF Send, proxy
  <2>2. QED
    BY <1>7, <2>1, SendAppends DEF IsOver
<1>8. CASE Take(s) \/ Leave(s) \/ Break(s)
  <2>1. UNCHANGED <<pump, written, sent>>
    BY <1>8 DEF Take, Leave, Break, proxy
  <2>2. QED
    BY <2>1 DEF IsOver, MessagesOf
<1>9. QED
  BY <1>1, <1>2, <1>3, <1>4, <1>5, <1>6, <1>7, <1>8, Steps DEF Pump, Peer

\* Both directions of a session implement MessageRelay: nothing is dropped,
\* repeated or reordered before a direction has ended.
THEOREM RelaysCorrect == Spec => RelaysBothWays
<1>1. ASSUME Init
      PROVE  ToNode!Init /\ ToClient!Init
  <2>1. \A s \in Sides : sent[s] = 0 /\ written[s] = <<>> /\ pump[s] = "off"
    BY <1>1 DEF Init
  <2>2. \A s \in Sides : MessagesOf(s) = <<>> /\ ~IsOver(s)
    <3>1. \A s \in Sides : MessagesOf(s) \in Seq(Messages) /\ Len(MessagesOf(s)) = 0
      BY <1>1, <2>1, InitType, MessagesOfType
    <3>2. \A q \in Seq(Messages) : Len(q) = 0 => q = <<>>
      BY EmptySeq
    <3>3. \A s \in Sides : MessagesOf(s) = <<>>
      BY <3>1, <3>2
    <3>4. QED
      BY <2>1, <3>3 DEF IsOver
  <2>3. QED
    BY <2>1, <2>2 DEF ToNode!Init, ToClient!Init, Sides
<1>2. ASSUME TypeOK, SessionInv, [Next]_vars
      PROVE  /\ ToNode!Next \/ UNCHANGED ToNode!direction
             /\ ToClient!Next \/ UNCHANGED ToClient!direction
  <2>1. Other("client") = "upstream" /\ Other("upstream") = "client"
        /\ "client" \in Sides /\ "upstream" \in Sides
    BY DEF Other, Sides
  <2>2. ToNode!Next \/ UNCHANGED ToNode!direction
    <3> DEFINE got == written["upstream"]
    <3> USE DEF ToNode!Next, ToNode!Send, ToNode!Forward, ToNode!End, ToNode!direction
    <3>1. \/ /\ \E m \in Messages : MessagesOf("client")' = Append(MessagesOf("client"), m)
             /\ got' = got /\ (IsOver("client")' <=> IsOver("client"))
          \/ /\ ~IsOver("client") /\ Len(got) < Len(MessagesOf("client"))
             /\ got' = Append(got, MessagesOf("client")[Len(got) + 1])
             /\ MessagesOf("client")' = MessagesOf("client") /\ ~IsOver("client")'
          \/ IsOver("client")' /\ MessagesOf("client")' = MessagesOf("client") /\ got' = got
          \/ /\ MessagesOf("client")' = MessagesOf("client")
             /\ got' = got /\ (IsOver("client")' <=> IsOver("client"))
      BY <1>2, <2>1, Direction
    <3>2. IsOver("client") \in BOOLEAN /\ IsOver("client")' \in BOOLEAN
      BY DEF IsOver
    <3>3. QED
      BY <3>1, <3>2
  <2>3. ToClient!Next \/ UNCHANGED ToClient!direction
    <3> DEFINE got == written["client"]
    <3> USE DEF ToClient!Next, ToClient!Send, ToClient!Forward, ToClient!End, ToClient!direction
    <3>1. \/ /\ \E m \in Messages : MessagesOf("upstream")' = Append(MessagesOf("upstream"), m)
             /\ got' = got /\ (IsOver("upstream")' <=> IsOver("upstream"))
          \/ /\ ~IsOver("upstream") /\ Len(got) < Len(MessagesOf("upstream"))
             /\ got' = Append(got, MessagesOf("upstream")[Len(got) + 1])
             /\ MessagesOf("upstream")' = MessagesOf("upstream") /\ ~IsOver("upstream")'
          \/ IsOver("upstream")' /\ MessagesOf("upstream")' = MessagesOf("upstream") /\ got' = got
          \/ /\ MessagesOf("upstream")' = MessagesOf("upstream")
             /\ got' = got /\ (IsOver("upstream")' <=> IsOver("upstream"))
      BY <1>2, <2>1, Direction
    <3>2. IsOver("upstream") \in BOOLEAN /\ IsOver("upstream")' \in BOOLEAN
      BY DEF IsOver
    <3>3. QED
      BY <3>1, <3>2
  <2>4. QED
    BY <2>2, <2>3
<1>3. QED
  BY <1>1, <1>2, SessionCorrect, PTL
     DEF Spec, RelaysBothWays, ToNode!RelaySpec, ToClient!RelaySpec

=============================================================================
