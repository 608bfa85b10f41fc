---------------------------- MODULE MessageRelay ----------------------------
(***************************************************************************)
(* What one direction of a WebSocket session promises: the receiver gets   *)
(* the messages of the sender, in their order and without a gap, until the *)
(* session ends; what was not forwarded by then is lost.                   *)
(***************************************************************************)
EXTENDS Naturals, Sequences

CONSTANT Messages

VARIABLES
    sent,  \* what the sender has sent
    got,   \* what was forwarded to the receiver
    over   \* nothing more is forwarded

direction == <<sent, got, over>>

Init == sent = <<>> /\ got = <<>> /\ ~over

Send ==
    /\ \E m \in Messages : sent' = Append(sent, m)
    /\ UNCHANGED <<got, over>>

Forward ==
    /\ ~over /\ Len(got) < Len(sent)
    /\ got' = Append(got, sent[Len(got) + 1])
    /\ UNCHANGED <<sent, over>>

End == over' = TRUE /\ UNCHANGED <<sent, got>>

Next == Send \/ Forward \/ End

RelaySpec == Init /\ [][Next]_direction

=============================================================================
