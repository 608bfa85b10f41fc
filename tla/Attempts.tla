------------------------------ MODULE Attempts ------------------------------
(***************************************************************************)
(* The loop of one plain request over its snapshot of the list: what       *)
(* LoadBalancer, which follows the nodes and their counters, and           *)
(* HttpHandler, which follows the answers and the deadlines, say alike.    *)
(* Both implement it, so the attempts of the one are those of the other:   *)
(* the nodes are tried in turn, each once and no more than MaxRetries; a   *)
(* node is blamed only while it is the current one; and a request that     *)
(* blames a node goes on to the next and cannot end before it has.         *)
(***************************************************************************)
EXTENDS Naturals, Sequences

CONSTANTS Nodes, MaxRetries

VARIABLES
    busy,     \* the request is being handled
    trying,   \* the nodes it may still try, the current one first
    blaming   \* the current node is being charged with an error

request == <<busy, trying, blaming>>

Init == ~busy /\ trying = <<>> /\ ~blaming

Begin ==
    /\ ~busy /\ busy'
    /\ trying' \in Seq(Nodes) /\ Len(trying') <= MaxRetries
    /\ ~blaming'

Blame ==
    /\ busy /\ trying # <<>> /\ ~blaming
    /\ busy' /\ trying' = trying
    /\ blaming'

PassOver ==
    /\ busy /\ trying # <<>>
    /\ busy' /\ trying' = Tail(trying)
    /\ ~blaming'

End ==
    /\ busy /\ ~blaming
    /\ ~busy' /\ trying' = <<>>
    /\ ~blaming'

Next == Begin \/ Blame \/ PassOver \/ End

AttemptsSpec == Init /\ [][Next]_request

=============================================================================
