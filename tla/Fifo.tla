-------------------------------- MODULE Fifo --------------------------------
(***************************************************************************)
(* What the users of class LFQueue expect of it, without slots, indices or *)
(* counters: the consumer receives what the producer sent, each value      *)
(* once, in order, and a channel is closed only when nothing is left in    *)
(* it.  Logger and MarketData are shown to implement it.                   *)
(***************************************************************************)
EXTENDS Naturals, Sequences

CONSTANT Value

VARIABLES
    sent,      \* every value the producer has committed, in order
    received,  \* every value the consumer has used, in order
    closed     \* the consumer's side has been shut down

vars == <<sent, received, closed>>

Init ==
    /\ sent = <<>>
    /\ received = <<>>
    /\ closed = FALSE

Send(v) ==
    /\ ~closed
    /\ sent' = Append(sent, v)
    /\ UNCHANGED <<received, closed>>

Receive ==
    /\ ~closed
    /\ Len(received) < Len(sent)
    /\ received' = Append(received, sent[Len(received) + 1])
    /\ UNCHANGED <<sent, closed>>

Close ==
    /\ ~closed
    /\ received = sent
    /\ closed' = TRUE
    /\ UNCHANGED <<sent, received>>

Next == \/ \E v \in Value : Send(v)
        \/ Receive
        \/ Close

Spec == Init /\ [][Next]_vars

\* A value that was sent is not left lying: the consumer gets to it.
LiveSpec == Spec /\ WF_vars(Receive)

=============================================================================
