------------------------- MODULE HttpHandlerProofs -------------------------
(***************************************************************************)
(* What handleHTTPRequest guarantees for any list, any limit on attempts   *)
(* and any length of an answer, whenever deadlines pass and clients leave: *)
(* its attempts and its reply fit together (HandlerInv), and it implements *)
(* FirstAnswer and Attempts.                                               *)
(***************************************************************************)
EXTENDS HttpHandler, SequenceTheorems, TLAPS

USE HandlerAssumption

-----------------------------------------------------------------------------
(* Why a request does not go round in circles *)

\* An attempt is complete when the body has been copied, not before.
NotYetComplete == pc \in {"send", "wait", "copy"} => tried + 1 \notin complete

PhasesLeft ==
    IF pc = "head" THEN 6
    ELSE IF pc = "check" THEN 5
    ELSE IF pc = "send" THEN 4
    ELSE IF pc = "wait" THEN 3
    ELSE IF pc = "copy" THEN 2
    ELSE IF pc = "settle" THEN 1 ELSE 0

\* Every step of a request ends it, begins with the next node, goes on to the
\* next phase of the attempt, or copies one more piece of the answer.  Only a
\* node that sends 1xx after 1xx can keep it where it is.
EveryStepCounts ==
    [][pc # "idle" =>
          \/ pc' = "done"
          \/ tried' = tried + 1 /\ tried' <= Allowed /\ pc' = "head"
          \/ tried' = tried /\ PhasesLeft' < PhasesLeft
          \/ /\ tried' = tried /\ pc' = "copy"
             /\ Len(recorder'.body) = Len(recorder.body) + 1
             /\ Len(recorder'.body) <= Chunks
          \/ /\ tried' = tried /\ pc' = pc /\ recorder'.body = recorder.body
             /\ \/ pc = "wait" /\ tried + 1 \in hinted'
                \/ clock' # clock \/ gone' # gone]_vars

\* The actions by what they do to the request.
LEMMA ActionCases ==
    ASSUME Next
    PROVE  \/ \E l \in Lists : Receive(l)
           \/ \E s \in {"ok", "bad_gateway", "timeout", "implicit", "aborted"},
                 d \in {<<>>, recorder.body} : Done(s, d)
           \/ CheckTimeout \/ Attempt \/ PassOver
           \/ Send \/ Refuse \/ Lose \/ Informational \/ Copy \/ Finish
           \/ \E s \in Final : Header(s)
           \/ Pass \/ Leave \/ UNCHANGED vars
BY DEF Next, Handle, Proxy, Expire, Exhausted, Abandon, OutOfTime, Relay, Break

LEMMA ListsAreLists == \A l \in Lists : l \in Seq(Nodes)
BY DEF Lists

-----------------------------------------------------------------------------
(* Type correctness *)

LEMMA TypeInit == Init => TypeOK
<1>1. <<>> \in Seq(Nodes) /\ <<>> \in Seq(Final \cup {"none"}) /\ Len(<<>>) = 0
    OBVIOUS
<1>2. ASSUME Init
      PROVE  /\ tried = 0 /\ list = <<>> /\ cut = 0 /\ outcome = <<>>
             /\ pc = "idle" /\ clock = "ahead" /\ gone = FALSE
             /\ body \in {"absent", "unread"}
             /\ recorder = NoAnswer /\ reply = NoAnswer
             /\ reached = {} /\ given = {} /\ hinted = {} /\ complete = {} /\ blamed = {}
    BY <1>2 DEF Init
<1>3. NoAnswer \in [status : {"none"}, body : Seq(Nodes)]
    BY <1>1 DEF NoAnswer
<1> QED
    BY <1>1, <1>2, <1>3 DEF TypeOK

\* The first attempt of a list is within it.
LEMMA AllowedIsALimit ==
    ASSUME TypeOK
    PROVE  /\ Allowed \in Nat /\ Allowed <= MaxRetries /\ Allowed <= Len(list)
           /\ tried < Allowed => tried + 1 <= MaxRetries /\ tried + 1 <= Len(list)
           /\ tried < Len(list) => Current \in Nodes
BY DEF TypeOK, Allowed, Current

LEMMA TypeStep == TypeOK /\ [Next]_vars => TypeOK'
<1> SUFFICES ASSUME TypeOK, [Next]_vars PROVE TypeOK'
    OBVIOUS
<1> USE DEF TypeOK, Final, around, history
<1>1. ASSUME NEW l \in Lists, Receive(l) PROVE TypeOK'
    BY <1>1, ListsAreLists DEF Receive
<1>2. CASE Exhausted
    BY <1>2 DEF Exhausted, Done
<1>3. CASE Abandon
    BY <1>3 DEF Abandon, Done
<1>4. CASE CheckTimeout
    BY <1>4 DEF CheckTimeout, Allowed
<1>5. CASE OutOfTime
    BY <1>5 DEF OutOfTime, Done
<1>6. CASE Attempt
  <2>1. /\ tried + 1 <= MaxRetries /\ tried + 1 <= Len(list)
        /\ Len(outcome) = tried
      BY <1>6, AllowedIsALimit DEF Attempt
  <2>2. recorder' = [status |-> "none", body |-> <<>>]
      BY <1>6 DEF Attempt, NewRecorder, NoAnswer
  <2>3. outcome' \in Seq(Final \cup {"none"}) /\ Len(outcome') = tried + 1
      BY <1>6, <2>1 DEF Attempt
  <2>4. reached \subseteq 1..Len(outcome') /\ Len(outcome') \in {tried, tried + 1}
      BY <2>1, <2>3
  <2> QED
      BY <1>6, <2>1, <2>2, <2>3, <2>4 DEF Attempt
<1>7. CASE Relay
    BY <1>7 DEF Relay, Done
<1>8. CASE PassOver
    BY <1>8 DEF PassOver
<1>9. CASE Send
    BY <1>9 DEF Send, Consume
<1>10. CASE Refuse
    BY <1>10 DEF Refuse, Consume, ProxyError, WriteHeader
<1>11. CASE Lose
    BY <1>11 DEF Lose, ProxyError, WriteHeader
<1>12. CASE Informational
    BY <1>12 DEF Informational, WriteHeader
<1>13. ASSUME NEW s \in Final, Header(s) PROVE TypeOK'
  <2>1. tried + 1 \in 1..Len(outcome)
      BY <1>13 DEF Header
  <2>2. outcome' = [outcome EXCEPT ![tried + 1] = s]
      BY <1>13 DEF Header
  <2>3. outcome' \in Seq(Final \cup {"none"}) /\ Len(outcome') = Len(outcome)
      BY <2>1, <2>2
  <2> QED
      BY <1>13, <2>3 DEF Header, WriteHeader
<1>14. CASE Copy
    BY <1>14, AllowedIsALimit DEF Copy, Write
<1>15. CASE Finish
    BY <1>15 DEF Finish
<1>16. CASE Break
    BY <1>16 DEF Break, Done
<1>17. CASE Pass
    BY <1>17 DEF Pass, Cut, Allowed
<1>18. CASE Leave
    BY <1>18 DEF Leave, Cut, Allowed
<1>19. CASE UNCHANGED vars
    BY <1>19 DEF vars, Allowed
<1> QED
    BY <1>1, <1>2, <1>3, <1>4, <1>5, <1>6, <1>7, <1>8, <1>9, <1>10, <1>11,
       <1>12, <1>13, <1>14, <1>15, <1>16, <1>17, <1>18, <1>19
    DEF Next, Handle, Proxy, Expire

-----------------------------------------------------------------------------
(* The recorder and the history *)

\* A step of any kind but these leaves the history alone.
LEMMA RecordedStep ==
    TypeOK /\ Traced /\ Recorded /\ [Next]_vars => Recorded'
<1> SUFFICES ASSUME TypeOK, Traced, Recorded, [Next]_vars PROVE Recorded'
    OBVIOUS
<1> USE DEF Recorded, around, history, Current
<1>1. ASSUME NEW l \in Lists, Receive(l) PROVE Recorded'
    BY <1>1 DEF Receive
<1>2. ASSUME NEW s, NEW d, Done(s, d) PROVE Recorded'
    BY <1>2 DEF Done
<1>3. CASE CheckTimeout
    BY <1>3 DEF CheckTimeout
<1>4. CASE Attempt
  <2>1. Len(outcome) = tried /\ outcome \in Seq(Final \cup {"none"})
      BY <1>4 DEF Attempt, TypeOK
  <2>2. outcome'[tried + 1] = "none" /\ tried' = tried
      BY <1>4, <2>1 DEF Attempt, Final
  <2>3. tried + 1 \notin hinted /\ hinted' = hinted
      BY <1>4, <2>1 DEF Attempt, TypeOK
  <2>4. recorder'.status = "none" /\ recorder'.body = <<>> /\ pc' = "send"
      BY <1>4 DEF Attempt, NewRecorder, NoAnswer
  <2>5. DOMAIN recorder'.body = {}
      BY <2>4
  <2> QED
      BY <2>2, <2>3, <2>4, <2>5
<1>5. CASE PassOver
    BY <1>5 DEF PassOver
<1>6. CASE Send
    BY <1>6 DEF Send
<1>7. CASE Refuse
    BY <1>7 DEF Refuse, ProxyError, WriteHeader, TypeOK
<1>8. CASE Lose
    BY <1>8 DEF Lose, ProxyError, WriteHeader, TypeOK
<1>9. CASE Informational
    BY <1>9 DEF Informational, WriteHeader, TypeOK
<1>10. ASSUME NEW s \in Final, Header(s) PROVE Recorded'
  <2>1. tried + 1 \in 1..Len(outcome)
      BY <1>10 DEF Header, TypeOK
  <2>2. outcome'[tried + 1] = s
      BY <1>10, <2>1 DEF Header, TypeOK
  <2> QED
      BY <1>10, <2>2 DEF Header, WriteHeader, TypeOK
<1>11. CASE Copy
  <2>1. /\ recorder'.status = recorder.status
        /\ recorder'.body = Append(recorder.body, Current)
      BY <1>11 DEF Copy, Write, TypeOK, Final
  <2>2. recorder.body \in Seq(Nodes)
      BY DEF TypeOK
  <2>3. \A i \in DOMAIN recorder'.body : recorder'.body[i] = Current
      BY <1>11, <2>1, <2>2 DEF Copy
  <2> QED
      BY <1>11, <2>1, <2>3 DEF Copy
<1>12. CASE Finish
    BY <1>12 DEF Finish
<1>13. CASE Pass
    BY <1>13 DEF Pass
<1>14. CASE Leave
    BY <1>14 DEF Leave
<1>15. CASE UNCHANGED vars
    BY <1>15 DEF vars
<1> QED
    BY <1>1, <1>2, <1>3, <1>4, <1>5, <1>6, <1>7, <1>8, <1>9, <1>10, <1>11,
       <1>12, <1>13, <1>14, <1>15, ActionCases

\* The properties of the history, and what became of the body.
LEMMA HistoryStep ==
    ASSUME TypeOK, Recorded, Traced, UnreadIsFirst, BodyGoesToTheFirst,
           NoBlameForAnAnswer, SuccessIsNotRetried, [Next]_vars
    PROVE  /\ Traced' /\ UnreadIsFirst' /\ BodyGoesToTheFirst'
           /\ NoBlameForAnAnswer' /\ SuccessIsNotRetried'
<1> USE DEF Traced, UnreadIsFirst, BodyGoesToTheFirst, NoBlameForAnAnswer,
            SuccessIsNotRetried, around, history
<1> DEFINE Goal == /\ Traced' /\ UnreadIsFirst' /\ BodyGoesToTheFirst'
                   /\ NoBlameForAnAnswer' /\ SuccessIsNotRetried'
<1>1. ASSUME NEW l \in Lists, Receive(l) PROVE Goal
    BY <1>1 DEF Receive
<1>2. ASSUME NEW s, NEW d, Done(s, d) PROVE Goal
    BY <1>2 DEF Done
<1>3. CASE CheckTimeout \/ Copy \/ Finish \/ Pass \/ Leave \/ UNCHANGED vars
    BY <1>3 DEF CheckTimeout, Copy, Finish, Pass, Leave, vars
<1>4. CASE Attempt
  <2>1. /\ Len(outcome) = tried /\ outcome' = Append(outcome, "none")
        /\ outcome \in Seq(Final \cup {"none"})
        /\ blamed \subseteq 1..tried /\ tried \in Nat
      BY <1>4 DEF Attempt, TypeOK
  <2>2. /\ DOMAIN outcome' = 1..tried + 1
        /\ \A i \in 1..tried : outcome'[i] = outcome[i]
        /\ outcome'[tried + 1] = "none"
      BY <2>1 DEF Final
  <2>3. DOMAIN outcome = 1..tried
      BY <2>1
  <2> QED
      BY <1>4, <2>1, <2>2, <2>3 DEF Attempt
<1>5. CASE PassOver
    BY <1>5 DEF PassOver, Recorded, Success, Charged, TypeOK
<1>6. CASE Send
  <2>1. body = "unread" => tried + 1 = 1
      BY <1>6 DEF TypeOK
  <2>2. given' \subseteq {1} /\ body' # "unread"
      BY <1>6, <2>1 DEF Send, Consume, TypeOK
  <2> QED
      BY <1>6, <2>2 DEF Send
<1>7. CASE Refuse \/ Lose
    BY <1>7 DEF Refuse, Lose, Consume, ProxyError, TypeOK
<1>8. CASE Informational
    BY <1>8 DEF Informational
<1>9. ASSUME NEW s \in Final, Header(s) PROVE Goal
  <2>1. /\ outcome' = [outcome EXCEPT ![tried + 1] = s]
        /\ outcome \in Seq(Final \cup {"none"})
        /\ Len(outcome) = tried + 1 /\ tried \in Nat /\ tried + 1 \in reached
        /\ blamed \subseteq 1..tried
      BY <1>9 DEF Header, TypeOK
  <2>2. /\ DOMAIN outcome' = DOMAIN outcome
        /\ \A i \in 1..tried : outcome'[i] = outcome[i]
      BY <2>1
  <2> QED
      BY <1>9, <2>1, <2>2 DEF Header
<1> QED
    BY <1>1, <1>2, <1>3, <1>4, <1>5, <1>6, <1>7, <1>8, <1>9, ActionCases

\* The deadlines, the client and the attempt they find under way.
LEMMA CutStep ==
    ASSUME TypeOK, CutKept, NoAttemptAfterTheCut, [Next]_vars
    PROVE  CutKept' /\ NoAttemptAfterTheCut'
<1> USE DEF CutKept, NoAttemptAfterTheCut, Expired, around, history, TypeOK
<1>1. ASSUME NEW l \in Lists, Receive(l) PROVE CutKept' /\ NoAttemptAfterTheCut'
    BY <1>1 DEF Receive
<1>2. ASSUME NEW s, NEW d, Done(s, d) PROVE CutKept' /\ NoAttemptAfterTheCut'
    BY <1>2 DEF Done
<1>3. CASE CheckTimeout
    BY <1>3 DEF CheckTimeout, OverallDone
<1>4. CASE Attempt
    BY <1>4 DEF Attempt
<1>5. CASE PassOver \/ Send \/ Refuse \/ Lose
    BY <1>5 DEF PassOver, Send, Refuse, Lose, ProxyError
<1>6. CASE Informational \/ Copy \/ Finish \/ UNCHANGED vars
    BY <1>6 DEF Informational, Copy, Finish, vars
<1>7. ASSUME NEW s \in Final, Header(s) PROVE CutKept' /\ NoAttemptAfterTheCut'
    BY <1>7 DEF Header
<1>8. CASE Pass
    BY <1>8 DEF Pass, Cut
<1>9. CASE Leave
    BY <1>9 DEF Leave, Cut
<1> QED
    BY <1>1, <1>2, <1>3, <1>4, <1>5, <1>6, <1>7, <1>8, <1>9, ActionCases

\* What Relay writes is what the recorder has of the attempt that succeeded.
LEMMA ReplyStep ==
    ASSUME TypeOK, Recorded, Unwritten, ReplyIsOneAnswer, [Next]_vars
    PROVE  Unwritten' /\ ReplyIsOneAnswer'
<1> USE DEF Unwritten, ReplyIsOneAnswer, NoAnswer
<1>1. CASE Relay
  <2>1. Len(outcome) = tried + 1 /\ recorder.status = "ok"
      BY <1>1 DEF Relay, Success, TypeOK
  <2>2. /\ outcome[tried + 1] = "ok" /\ tried + 1 \in complete
        /\ \A i \in DOMAIN recorder.body : recorder.body[i] = list[tried + 1]
      BY <1>1, <2>1 DEF Relay, Recorded, Current
  <2>3. /\ reply' = [status |-> "ok", body |-> recorder.body] /\ pc' = "done"
        /\ UNCHANGED <<outcome, complete, list>>
      BY <1>1 DEF Relay, Done, history
  <2> QED
      BY <2>1, <2>2, <2>3
<1>2. CASE Exhausted \/ Abandon \/ OutOfTime \/ Break
  <2>1. reply'.status # "ok" /\ pc' = "done"
      BY <1>2 DEF Exhausted, Abandon, OutOfTime, Break, Done
  <2> QED
      BY <2>1
<1>3. CASE UNCHANGED vars
    BY <1>3 DEF vars, history
<1>4. CASE /\ reply' = reply
           /\ pc \notin {"idle", "done"} \/ ~(\E l \in Lists : Receive(l))
           /\ pc # "done"
    BY <1>4
<1> QED
    BY <1>1, <1>2, <1>3, <1>4
    DEF Next, Handle, Proxy, Expire, Receive, CheckTimeout, Attempt, PassOver,
        Send, Refuse, Lose, ProxyError, Informational, Header, Copy, Finish,
        Pass, Leave

-----------------------------------------------------------------------------
(* The theorems *)

LEMMA InvInit == Init => HandlerInv
<1> SUFFICES ASSUME Init PROVE HandlerInv
    OBVIOUS
<1>1. TypeOK
    BY TypeInit
<1>2. /\ pc = "idle" /\ reply = NoAnswer /\ outcome = <<>> /\ given = {}
      /\ tried = 0 /\ blamed = {} /\ clock = "ahead" /\ gone = FALSE /\ cut = 0
    BY DEF Init
<1>3. DOMAIN outcome = {}
    BY <1>2
<1> QED
    BY <1>1, <1>2, <1>3
    DEF HandlerInv, Unwritten, Recorded, Traced, UnreadIsFirst, CutKept, Expired,
        ReplyIsOneAnswer, BodyGoesToTheFirst, NoBlameForAnAnswer,
        SuccessIsNotRetried, NoAttemptAfterTheCut, NoAnswer

LEMMA InvStep == HandlerInv /\ [Next]_vars => HandlerInv'
BY TypeStep, RecordedStep, HistoryStep, CutStep, ReplyStep DEF HandlerInv

\* The attempts of a request, their recorders and its reply fit together at
\* every point where deadlines or the client may interrupt it
\* (http_handler.go:45-98).
THEOREM RequestCorrect == Spec => []HandlerInv
<1> QED
    BY InvInit, InvStep, PTL DEF Spec

\* The attempts stay within the list and max_retries (http_handler.go:55-59).
THEOREM TypeCorrect == Spec => []TypeOK
BY RequestCorrect, PTL DEF HandlerInv

\* The client gets one node's whole answer, that of the last attempt.
THEOREM RepliesAreOneAnswer == Spec => []ReplyIsOneAnswer
BY RequestCorrect, PTL DEF HandlerInv

\* No two nodes are given the body of a request, and none but the first.
THEOREM BodiesGoToTheFirst == Spec => []BodyGoesToTheFirst
BY RequestCorrect, PTL DEF HandlerInv

\* A node is charged for an attempt only if it did not answer, or with 500
\* and above.
THEOREM BlameIsForFailures == Spec => []NoBlameForAnAnswer
BY RequestCorrect, PTL DEF HandlerInv

\* A success that no 1xx preceded ends the request.
THEOREM SuccessesAreFinal == Spec => []SuccessIsNotRetried
BY RequestCorrect, PTL DEF HandlerInv

\* Nothing is attempted after the attempt the deadline or the client's
\* leaving fell into.
THEOREM CutIsFinal == Spec => []NoAttemptAfterTheCut
BY RequestCorrect, PTL DEF HandlerInv

-----------------------------------------------------------------------------
(* What the client is told *)

LEMMA NotYetStep ==
    TypeOK /\ NotYetComplete /\ [Next]_vars => NotYetComplete'
<1> SUFFICES ASSUME TypeOK, NotYetComplete, [Next]_vars PROVE NotYetComplete'
    OBVIOUS
<1> USE DEF NotYetComplete, around, history
<1>1. CASE Attempt
  <2>1. complete \subseteq 1..tried /\ tried \in Nat
      BY <1>1 DEF Attempt, TypeOK
  <2> QED
      BY <1>1, <2>1 DEF Attempt
<1>2. CASE \/ \E l \in Lists : Receive(l)
           \/ CheckTimeout \/ PassOver \/ Refuse \/ Lose \/ Finish
  <2>1. pc' \notin {"send", "wait", "copy"}
      BY <1>2 DEF Receive, CheckTimeout, PassOver, Refuse, Lose, ProxyError, Finish
  <2> QED
      BY <2>1
<1>3. ASSUME NEW s, NEW d, Done(s, d) PROVE NotYetComplete'
    BY <1>3 DEF Done
<1>4. CASE Send \/ Informational \/ Copy \/ Pass \/ Leave \/ UNCHANGED vars
           \/ \E s \in Final : Header(s)
  <2>1. /\ UNCHANGED <<tried, complete>>
        /\ pc' \in {"send", "wait", "copy"} => pc \in {"send", "wait", "copy"}
      BY <1>4 DEF Send, Informational, Copy, Header, Pass, Leave, vars
  <2> QED
      BY <2>1
<1> QED
    BY <1>1, <1>2, <1>3, <1>4, ActionCases

LEMMA EarnedStep ==
    ASSUME HandlerInv, NotYetComplete, ErrorsAreEarned, [Next]_vars
    PROVE  ErrorsAreEarned'
<1> USE DEF ErrorsAreEarned, NoAnswer, around, history
<1>0. TypeOK /\ Unwritten /\ Recorded /\ SuccessIsNotRetried
    BY DEF HandlerInv
<1>1. CASE Exhausted
  <2>1. \A i \in 1..tried : outcome[i] = "ok" => i \in hinted
      BY <1>0 DEF SuccessIsNotRetried
  <2>2. /\ reply'.status = "bad_gateway" /\ tried = Allowed
        /\ UNCHANGED <<tried, list, outcome, hinted>>
      BY <1>1 DEF Exhausted, Done
  <2> QED
      BY <2>1, <2>2 DEF Allowed
<1>2. CASE OutOfTime
  <2>1. tried < Allowed
      BY <1>0, <1>2 DEF OutOfTime, TypeOK
  <2>2. /\ reply'.status = "timeout" /\ clock # "ahead"
        /\ UNCHANGED <<tried, list, clock>>
      BY <1>2 DEF OutOfTime, Done
  <2> QED
      BY <2>1, <2>2 DEF Allowed
<1>3. CASE Abandon
  <2>1. /\ reply'.status = "implicit" /\ OverallDone /\ tried < Allowed
        /\ UNCHANGED <<tried, list, clock, gone>>
      BY <1>3 DEF Abandon, Done
  <2> QED
      BY <2>1 DEF Allowed, OverallDone
<1>4. CASE Break
  <2>1. /\ reply'.status = "aborted" /\ UNCHANGED <<tried, outcome, complete>>
      BY <1>4 DEF Break, Done
  <2>2. outcome[tried + 1] \in Final /\ tried + 1 \notin complete
      BY <1>0, <1>4 DEF Break, Recorded, NotYetComplete
  <2> QED
      BY <2>1, <2>2
<1>5. CASE Relay
  <2>1. reply'.status = "ok"
      BY <1>5 DEF Relay, Done
  <2> QED
      BY <2>1
<1>6. CASE UNCHANGED vars
    BY <1>6 DEF vars, Allowed, OverallDone
<1>7. CASE reply' = reply /\ pc # "done"
  <2>1. reply'.status = "none"
      BY <1>0, <1>7 DEF Unwritten
  <2> QED
      BY <2>1
<1> QED
    BY <1>1, <1>2, <1>3, <1>4, <1>5, <1>6, <1>7
    DEF Next, Handle, Proxy, Expire, Receive, CheckTimeout, Attempt, PassOver,
        Send, Refuse, Lose, ProxyError, Informational, Header, Copy, Finish,
        Pass, Leave

\* Whenever the proxy answers for itself or drops the connection, what it
\* tells the client is so.
THEOREM OnlyEarnedErrors == Spec => []ErrorsAreEarned
<1>1. Init => NotYetComplete /\ ErrorsAreEarned
    BY DEF Init, NotYetComplete, ErrorsAreEarned, NoAnswer
<1>2. HandlerInv /\ NotYetComplete /\ ErrorsAreEarned /\ [Next]_vars
        => NotYetComplete' /\ ErrorsAreEarned'
    BY NotYetStep, EarnedStep DEF HandlerInv
<1> QED
    BY <1>1, <1>2, RequestCorrect, PTL DEF Spec

-----------------------------------------------------------------------------
(* Why a request does not go round in circles *)

LEMMA ProgressStep ==
    ASSUME TypeOK, Next, pc # "idle"
    PROVE  \/ pc' = "done"
           \/ tried' = tried + 1 /\ tried' <= Allowed /\ pc' = "head"
           \/ tried' = tried /\ PhasesLeft' < PhasesLeft
           \/ /\ tried' = tried /\ pc' = "copy"
              /\ Len(recorder'.body) = Len(recorder.body) + 1
              /\ Len(recorder'.body) <= Chunks
           \/ /\ tried' = tried /\ pc' = pc /\ recorder'.body = recorder.body
              /\ \/ pc = "wait" /\ tried + 1 \in hinted'
                 \/ clock' # clock \/ gone' # gone
           \/ UNCHANGED vars
<1> USE DEF around, history
<1>1. CASE PassOver
  <2>1. tried \in Nat /\ tried + 1 <= MaxRetries /\ tried + 1 <= Len(list)
      BY <1>1 DEF PassOver, TypeOK
  <2>2. tried + 1 <= Allowed
      BY <2>1 DEF Allowed
  <2> QED
      BY <1>1, <2>2 DEF PassOver
<1>2. CASE Copy
  <2>1. recorder.body \in Seq(Nodes) /\ Len(recorder.body) < Chunks
        /\ recorder'.body = Append(recorder.body, Current)
      BY <1>2 DEF Copy, Write, TypeOK
  <2>2. PICK q : q = recorder.body
      OBVIOUS
  <2>3. Len(Append(q, Current)) = Len(q) + 1 /\ Len(q) + 1 <= Chunks
      BY <2>1, <2>2
  <2> QED
      BY <1>2, <2>1, <2>2, <2>3 DEF Copy
<1>3. CASE CheckTimeout \/ Attempt \/ Send \/ Refuse \/ Lose \/ Finish
           \/ \E s \in Final : Header(s)
  <2>1. /\ tried' = tried
        /\ \/ pc = "head" /\ pc' = "check"
           \/ pc = "check" /\ pc' = "send"
           \/ pc = "send" /\ pc' = "wait"
           \/ pc = "send" /\ pc' = "settle"
           \/ pc = "wait" /\ pc' = "copy"
           \/ pc = "wait" /\ pc' = "settle"
           \/ pc = "copy" /\ pc' = "settle"
      BY <1>3 DEF CheckTimeout, Attempt, Send, Refuse, Lose, ProxyError, Finish,
         Header
  <2> QED
      BY <2>1 DEF PhasesLeft
<1>4. CASE Informational
    BY <1>4 DEF Informational, WriteHeader, TypeOK
<1>5. CASE Pass \/ Leave
    BY <1>5 DEF Pass, Leave
<1>6. ASSUME NEW s, NEW d, Done(s, d)
      PROVE  pc' = "done"
    BY <1>6 DEF Done
<1> QED
    BY <1>1, <1>2, <1>3, <1>4, <1>5, <1>6, ActionCases DEF Receive

\* Nodes, attempts and pieces of an answer run out, for any limits.
THEOREM StepsCountForProgress == Spec => EveryStepCounts
<1>1. TypeOK /\ [Next]_vars =>
        [pc # "idle" =>
          \/ pc' = "done"
          \/ tried' = tried + 1 /\ tried' <= Allowed /\ pc' = "head"
          \/ tried' = tried /\ PhasesLeft' < PhasesLeft
          \/ /\ tried' = tried /\ pc' = "copy"
             /\ Len(recorder'.body) = Len(recorder.body) + 1
             /\ Len(recorder'.body) <= Chunks
          \/ /\ tried' = tried /\ pc' = pc /\ recorder'.body = recorder.body
             /\ \/ pc = "wait" /\ tried + 1 \in hinted'
                \/ clock' # clock \/ gone' # gone]_vars
    BY ProgressStep
<1> QED
    BY <1>1, RequestCorrect, PTL DEF Spec, EveryStepCounts, HandlerInv

-----------------------------------------------------------------------------
(* The refinement *)

LEMMA PromiseInit == Init => FA!Init
<1> SUFFICES ASSUME Init PROVE FA!Init
    OBVIOUS
<1>1. /\ pc = "idle" /\ list = <<>> /\ outcome = <<>> /\ Len(outcome) = 0
      /\ recorder = NoAnswer /\ reply = NoAnswer
    BY DEF Init
<1> QED
    BY <1>1 DEF FA!Init, FA!Nothing, Verdict, Told, NoAnswer

\* Between two attempts the last one has failed: a success ends the request.
LEMMA FailedBetween ==
    ASSUME HandlerInv, pc \in {"head", "check"}
    PROVE  Verdict \in {"none", "failure"} /\ Len(outcome) = tried
<1>1. TypeOK /\ SuccessIsNotRetried
    BY DEF HandlerInv
<1>2. Len(outcome) = tried /\ tried \in Nat
    BY <1>1 DEF TypeOK
<1>3. tried # 0 /\ outcome[tried] = "ok" => tried \in hinted
    BY <1>1, <1>2 DEF SuccessIsNotRetried
<1> QED
    BY <1>2, <1>3 DEF Verdict

LEMMA PendingWithin ==
    ASSUME HandlerInv, pc \in {"send", "wait", "copy"}
    PROVE  /\ Verdict = "pending" /\ Len(outcome) = tried + 1
           /\ outcome \in Seq(Final \cup {"none"}) /\ tried \in Nat
<1>1. Len(outcome) = tried + 1 /\ tried \in Nat
    BY DEF HandlerInv, TypeOK
<1> QED
    BY <1>1 DEF Verdict, HandlerInv, TypeOK

\* What the recorder shows as a success is one.
LEMMA SuccessIsOne ==
    ASSUME HandlerInv, pc = "settle", Success
    PROVE  Verdict = "success"
<1>1. Len(outcome) = tried + 1 /\ tried \in Nat
    BY DEF HandlerInv, TypeOK
<1>2. /\ tried + 1 \notin hinted /\ tried + 1 \in complete
      /\ outcome[tried + 1] = "ok"
    BY DEF HandlerInv, Recorded, Success
<1> QED
    BY <1>1, <1>2 DEF Verdict

\* A step of the handler or of the reverse proxy asks, hears, judges or
\* answers; all others change nothing a client could be promised.
LEMMA PromiseStep ==
    ASSUME HandlerInv, NotYetComplete, [Next]_vars
    PROVE  FA!Next \/ UNCHANGED FA!promise
<1> USE DEF FA!Next, FA!promise, around, history
<1>0. TypeOK /\ Unwritten /\ recorder \in [status : Final \cup {"none", "info"},
                                            body : Seq(Nodes)]
    BY DEF HandlerInv, TypeOK
<1>1. ASSUME NEW l \in Lists, Receive(l) PROVE FA!Open
  <2>1. Len(outcome) = 0 /\ outcome' = outcome
      BY <1>0, <1>1 DEF Receive, TypeOK
  <2>2. Verdict = "none" /\ Verdict' = "none"
      BY <2>1 DEF Verdict
  <2>3. reply = NoAnswer /\ reply' = reply
      BY <1>0, <1>1 DEF Receive, Unwritten
  <2> QED
      BY <1>1, <2>1, <2>2, <2>3, ListsAreLists
      DEF Receive, FA!Open, FA!Nothing, Told, NoAnswer
<1>2. CASE Attempt
  <2>1. Verdict \in {"none", "failure"} /\ Len(outcome) = tried /\ tried < Allowed
      BY <1>0, <1>2, FailedBetween DEF Attempt, TypeOK
  <2>2. Len(outcome') = tried + 1 /\ tried \in Nat
      BY <1>0, <1>2, <2>1 DEF Attempt, TypeOK, Final
  <2>3. Verdict' = "pending"
      BY <1>2, <2>2 DEF Attempt, Verdict
  <2>4. recorder'.body = <<>> /\ Told' = Told
      BY <1>2 DEF Attempt, NewRecorder, NoAnswer, Told
  <2> QED
      BY <1>2, <2>1, <2>2, <2>3, <2>4 DEF Attempt, FA!Ask, FA!Limit, Allowed
<1>3. CASE Copy
  <2>1. Verdict = "pending" /\ Len(outcome) = tried + 1
      BY <1>3, PendingWithin DEF Copy
  <2>2. Verdict' = "pending" /\ outcome' = outcome /\ Told' = Told
      BY <1>3, <2>1 DEF Copy, Verdict, Told
  <2>3. recorder'.body = Append(recorder.body, list[Len(outcome)])
      BY <1>3, <2>1 DEF Copy, Write, Current
  <2> QED
      BY <1>3, <2>1, <2>2, <2>3 DEF Copy, FA!Piece
<1>4. CASE Send \/ Informational \/ \E s \in Final : Header(s)
  <2>1. /\ pc \in {"send", "wait"} /\ pc' \in {"wait", "copy"}
        /\ UNCHANGED <<list, tried, reply>>
      BY <1>4 DEF Send, Informational, Header
  <2>2. Verdict = "pending" /\ Len(outcome) = tried + 1 /\ tried \in Nat
        /\ outcome \in Seq(Final \cup {"none"})
      BY <2>1, PendingWithin
  <2>3. Len(outcome') = Len(outcome)
      BY <1>4, <2>2 DEF Send, Informational, Header
  <2>4. Verdict' = "pending" /\ Told' = Told
      BY <2>1, <2>2, <2>3 DEF Verdict, Told
  <2>5. recorder'.body = recorder.body
      BY <1>0, <1>4 DEF Send, Informational, Header, WriteHeader
  <2> QED
      BY <2>1, <2>2, <2>3, <2>4, <2>5
<1>5. CASE Refuse \/ Lose \/ Finish
  <2>1. /\ pc \in {"send", "wait", "copy"} /\ pc' = "settle"
        /\ UNCHANGED <<list, outcome, reply>> /\ recorder'.body = recorder.body
      BY <1>0, <1>5 DEF Refuse, Lose, ProxyError, WriteHeader, Finish
  <2>2. Verdict = "pending" /\ Len(outcome) = tried + 1 /\ tried \in Nat
      BY <2>1, PendingWithin
  <2>3. Verdict' \in {"success", "failure"} /\ Told' = Told
      BY <2>1, <2>2 DEF Verdict, Told
  <2> QED
      BY <2>1, <2>2, <2>3 DEF FA!Settle
<1>6. CASE Relay
  <2>1. Verdict = "success" /\ Verdict' = Verdict
      BY <1>6, SuccessIsOne DEF Relay, Done, Verdict
  <2>2. Told' = [status |-> "answer", body |-> recorder.body]
      BY <1>6 DEF Relay, Done, Told
  <2> QED
      BY <1>6, <2>1, <2>2 DEF Relay, Done, FA!Answer, FA!Close
<1>7. CASE Exhausted
  <2>1. Verdict \in {"none", "failure"} /\ Len(outcome) = tried
      BY <1>7, FailedBetween DEF Exhausted
  <2>2. Verdict' = Verdict /\ Told' = [status |-> "unavailable", body |-> <<>>]
      BY <1>7 DEF Exhausted, Done, Verdict, Told
  <2> QED
      BY <1>7, <2>1, <2>2
      DEF Exhausted, Done, FA!Unavailable, FA!Close, FA!Limit, Allowed
<1>8. CASE Abandon \/ OutOfTime
  <2>1. /\ pc \in {"head", "check"} /\ pc' = "done" /\ tried < Allowed
        /\ UNCHANGED <<list, outcome, recorder, complete, hinted>>
        /\ reply'.status \in {"implicit", "timeout"} /\ reply'.body = <<>>
      BY <1>0, <1>8 DEF Abandon, OutOfTime, Done, TypeOK
  <2>2. Verdict \in {"none", "failure"} /\ Len(outcome) = tried
      BY <2>1, FailedBetween
  <2>3. Verdict' = Verdict
      BY <2>1 DEF Verdict
  <2>4. Told' = [status |-> "cut", body |-> <<>>]
      BY <2>1 DEF Told
  <2> QED
      BY <2>1, <2>2, <2>3, <2>4 DEF FA!CutShort, FA!Close, FA!Limit, Allowed
<1>9. CASE Break
  <2>1. Verdict = "pending" /\ Len(outcome) = tried + 1 /\ tried \in Nat
      BY <1>9, PendingWithin DEF Break
  <2>2. tried + 1 \notin complete
      BY <1>9 DEF Break, NotYetComplete
  <2>3. Verdict' = "failure" /\ Told' = [status |-> "cut", body |-> <<>>]
      BY <1>9, <2>1, <2>2 DEF Break, Done, Verdict, Told
  <2> QED
      BY <1>9, <2>1, <2>3 DEF Break, Done, FA!CutShort, FA!Close
<1>10. CASE CheckTimeout \/ PassOver \/ Pass \/ Leave
  <2>1. /\ UNCHANGED <<list, outcome, recorder, reply, complete, hinted>>
        /\ pc \notin {"idle", "done"} /\ pc' \notin {"idle", "done"}
        /\ pc' \in {"send", "wait", "copy"} <=> pc \in {"send", "wait", "copy"}
      BY <1>10 DEF CheckTimeout, PassOver, Pass, Leave
  <2>2. Verdict' = Verdict /\ Told' = Told
      BY <2>1 DEF Verdict, Told
  <2> QED
      BY <2>1, <2>2
<1>11. CASE UNCHANGED vars
    BY <1>11 DEF vars, Verdict, Told
<1> QED
    BY <1>1, <1>2, <1>3, <1>4, <1>5, <1>6, <1>7, <1>8, <1>9, <1>10, <1>11
    DEF Next, Handle, Proxy, Expire

\* Deadlines, disconnections and failures notwithstanding, the handler keeps
\* the promise of FirstAnswer: at most max_retries nodes in the order of the
\* list, and the whole answer of the first that succeeds.
THEOREM KeepsThePromise == Spec => RelaysFirstAnswer
<1>1. Init => NotYetComplete
    BY DEF Init, NotYetComplete
<1>2. HandlerInv /\ NotYetComplete /\ [Next]_vars => NotYetComplete'
    BY NotYetStep DEF HandlerInv
<1>3. HandlerInv /\ NotYetComplete /\ [Next]_vars => [FA!Next]_(FA!promise)
    BY PromiseStep
<1> QED
    BY <1>1, <1>2, <1>3, PromiseInit, RequestCorrect, PTL
    DEF Spec, RelaysFirstAnswer, FA!FASpec

-----------------------------------------------------------------------------
(* The loop that LoadBalancer has too *)

\* The nodes a request may still ask are within its list and its limit, and
\* passing one over leaves the rest.
LEMMA RestOfList ==
    ASSUME NEW l \in Seq(Nodes), NEW t \in Nat, NEW a \in Nat,
           t <= a, a <= Len(l), a <= MaxRetries
    PROVE  /\ SubSeq(l, t + 1, a) \in Seq(Nodes)
           /\ Len(SubSeq(l, t + 1, a)) <= MaxRetries
           /\ t < a => /\ SubSeq(l, t + 1, a) # <<>>
                       /\ Tail(SubSeq(l, t + 1, a)) = SubSeq(l, t + 1 + 1, a)
<1>1. PICK m \in Int, n \in Int : m = t + 1 /\ n = a
    OBVIOUS
<1>2. \A i \in m .. n : l[i] \in Nodes
    BY <1>1
<1>3. SubSeq(l, m, n) \in Seq(Nodes)
      /\ Len(SubSeq(l, m, n)) = IF m <= n THEN n - m + 1 ELSE 0
    BY <1>2, SubSeqProperties
<1>4. Len(SubSeq(l, m, n)) <= MaxRetries
    BY <1>1, <1>3
<1>5. ASSUME t < a
      PROVE  SubSeq(l, m, n) # <<>> /\ Tail(SubSeq(l, m, n)) = SubSeq(l, m + 1, n)
  <2>1. m \in 1 .. Len(l) /\ n \in m .. Len(l)
      BY <1>1, <1>5
  <2>2. Len(SubSeq(l, m, n)) # 0
      BY <1>3, <2>1
  <2> QED
      BY <2>1, <2>2, HeadTailOfSubSeq
<1> QED
    BY <1>1, <1>3, <1>4, <1>5

LEMMA AllowedBounds ==
    ASSUME TypeOK
    PROVE  /\ list \in Seq(Nodes) /\ tried \in Nat /\ tried <= Allowed
           /\ Allowed \in Nat /\ Allowed <= MaxRetries /\ Allowed <= Len(list)
BY AllowedIsALimit DEF TypeOK, Allowed

LEMMA LoopStep ==
    ASSUME TypeOK, TypeOK', [Next]_vars
    PROVE  Loop!Next \/ UNCHANGED Loop!request
<1> USE DEF Loop!Next, Loop!request, around, history
<1>1. ASSUME NEW l \in Lists, Receive(l)
      PROVE  Loop!Begin
  <2>1. Remaining' \in Seq(Nodes) /\ Len(Remaining') <= MaxRetries
    <3>1. /\ list' \in Seq(Nodes) /\ tried' \in Nat /\ tried' <= Allowed'
          /\ Allowed' \in Nat /\ Allowed' <= MaxRetries /\ Allowed' <= Len(list')
        BY DEF TypeOK, Allowed
    <3>2. pc' = "head"
        BY <1>1 DEF Receive
    <3> QED
        BY <3>1, <3>2, RestOfList DEF Remaining
  <2> QED
      BY <1>1, <2>1 DEF Loop!Begin, Receive
<1>2. CASE PassOver
  <2>1. tried < Allowed /\ pc = "settle" /\ pc' = "head" /\ tried' = tried + 1
        /\ list' = list /\ Allowed' = Allowed
      BY <1>2, AllowedIsALimit DEF PassOver, TypeOK, Allowed
  <2>2. Remaining # <<>> /\ Remaining' = Tail(Remaining)
      BY <2>1, AllowedBounds, RestOfList DEF Remaining
  <2> QED
      BY <2>1, <2>2 DEF Loop!PassOver
<1>3. CASE Exhausted \/ Abandon \/ OutOfTime \/ Relay \/ Break
  <2>1. /\ pc \notin {"idle", "done"} /\ pc' = "done"
        /\ ~(pc = "settle" /\ Charged)
      BY <1>3 DEF Exhausted, Abandon, OutOfTime, Relay, Break, Done, Success, Charged
  <2> QED
      BY <2>1 DEF Loop!End, Remaining
<1>4. CASE /\ CheckTimeout \/ Attempt \/ Send \/ Refuse \/ Lose \/ Informational
              \/ Copy \/ Finish \/ Pass \/ Leave \/ \E s \in Final : Header(s)
  <2>1. /\ pc \notin {"idle", "done"} /\ pc' \notin {"idle", "done"}
        /\ Remaining' = Remaining
      BY <1>4 DEF CheckTimeout, Attempt, Send, Refuse, Lose, ProxyError,
         Informational, Header, Copy, Finish, Pass, Leave, Remaining, Allowed
  <2>2. CASE pc = "settle"
    <3>1. (pc' = "settle" /\ Charged') <=> (pc = "settle" /\ Charged)
        BY <1>4, <2>2 DEF CheckTimeout, Attempt, Send, Refuse, Lose, ProxyError,
           Informational, Header, Copy, Finish, Pass, Leave, Charged
    <3> QED
        BY <2>1, <3>1
  <2>3. CASE pc # "settle" /\ pc' # "settle"
      BY <2>1, <2>3
  <2>4. CASE pc # "settle" /\ pc' = "settle"
    <3>1. tried < Allowed
        BY <1>4, <2>4, AllowedIsALimit DEF CheckTimeout, Attempt, Send, Refuse,
           Lose, ProxyError, Informational, Header, Copy, Finish, Pass, Leave,
           TypeOK, Allowed
    <3>2. Remaining # <<>>
        BY <2>1, <3>1, AllowedBounds, RestOfList DEF Remaining
    <3> QED
        BY <2>1, <2>4, <3>2 DEF Loop!Blame
  <2> QED
      BY <2>2, <2>3, <2>4
<1>5. CASE UNCHANGED vars
    BY <1>5 DEF vars, Remaining, Allowed, Charged
<1> QED
    BY <1>1, <1>2, <1>3, <1>4, <1>5 DEF Next, Handle, Proxy, Expire

\* The request implements Attempts, as every plain request of LoadBalancer
\* does (LoadBalancerProofs): the two modules follow the same loop.
THEOREM LoopsAreAlike == Spec => LoopsAlike
<1>1. Init => Loop!Init
    BY DEF Init, Loop!Init, Remaining
<1>2. TypeOK /\ TypeOK' /\ [Next]_vars => [Loop!Next]_(Loop!request)
    BY LoopStep
<1> QED
    BY <1>1, <1>2, TypeCorrect, PTL DEF Spec, LoopsAlike, Loop!AttemptsSpec

=============================================================================
