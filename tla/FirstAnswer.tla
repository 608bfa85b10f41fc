---------------------------- MODULE FirstAnswer ----------------------------
(***************************************************************************)
(* What a request is promised, whatever happens between the proxy and its  *)
(* nodes.  The nodes of a list are asked one after the other, in its order *)
(* and at most MaxRetries of them, and the next only when the one before   *)
(* has failed.  A node that succeeds is the last: what it sent, all of it  *)
(* and nothing else, is the reply.  The request is reported unavailable    *)
(* only when every node it may ask has failed, and cut short only while a  *)
(* node is being asked or is left to ask.                                  *)
(***************************************************************************)
EXTENDS Naturals, Sequences

CONSTANTS Nodes, MaxRetries

VARIABLES
    open,     \* the request is being handled
    list,     \* the nodes it was given
    turn,     \* how many of them were asked
    verdict,  \* on the node asked last: pending, success or failure; or none
    data,     \* what that node has sent
    reply     \* what the client got

promise == <<open, list, turn, verdict, data, reply>>

Nothing == [status |-> "none", body |-> <<>>]

Limit == IF Len(list) < MaxRetries THEN Len(list) ELSE MaxRetries

Init ==
    /\ ~open /\ list = <<>> /\ turn = 0
    /\ verdict = "none" /\ data = <<>> /\ reply = Nothing

Open ==
    /\ ~open /\ reply = Nothing
    /\ open' = TRUE /\ list' \in Seq(Nodes)
    /\ UNCHANGED <<turn, verdict, data, reply>>

Ask ==
    /\ open /\ verdict \in {"none", "failure"} /\ turn < Limit
    /\ turn' = turn + 1 /\ verdict' = "pending" /\ data' = <<>>
    /\ UNCHANGED <<open, list, reply>>

Piece ==
    /\ open /\ verdict = "pending"
    /\ data' = Append(data, list[turn])
    /\ UNCHANGED <<open, list, turn, verdict, reply>>

Settle ==
    /\ open /\ verdict = "pending"
    /\ verdict' \in {"success", "failure"}
    /\ UNCHANGED <<open, list, turn, data, reply>>

Close(status, body) ==
    /\ open
    /\ open' = FALSE /\ reply' = [status |-> status, body |-> body]
    /\ UNCHANGED <<list, turn, data>>

Answer == verdict = "success" /\ Close("answer", data) /\ UNCHANGED verdict

Unavailable ==
    /\ verdict \in {"none", "failure"} /\ turn = Limit
    /\ Close("unavailable", <<>>) /\ UNCHANGED verdict

\* The time is up or the client gone, or the node broke off in its answer.
CutShort ==
    \/ /\ verdict \in {"none", "failure"} /\ turn < Limit
       /\ Close("cut", <<>>) /\ UNCHANGED verdict
    \/ /\ verdict = "pending"
       /\ Close("cut", <<>>) /\ verdict' = "failure"

Next == Open \/ Ask \/ Piece \/ Settle \/ Answer \/ Unavailable \/ CutShort

FASpec == Init /\ [][Next]_promise

=============================================================================
