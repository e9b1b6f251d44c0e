---------------------------- MODULE MessageStream ----------------------------
(***************************************************************************)
(* What one direction of a connection promises: messages arrive whole and  *)
(* in the order they were sent, and all of them, unless the receiver       *)
(* closes the connection.                                                  *)
(***************************************************************************)
EXTENDS Naturals, Sequences

VARIABLES sent, got, open

vars == <<sent, got, open>>

Init == sent = <<>> /\ got = <<>> /\ open = TRUE

\* Any message is appended.
Send ==
    /\ Len(sent') = Len(sent) + 1
    /\ sent = SubSeq(sent', 1, Len(sent))
    /\ UNCHANGED <<got, open>>

Deliver ==
    /\ open
    /\ Len(got) < Len(sent)
    /\ got' = Append(got, sent[Len(got) + 1])
    /\ UNCHANGED <<sent, open>>

Close ==
    /\ open' = FALSE
    /\ UNCHANGED <<sent, got>>

Next == Send \/ Deliver \/ Close

Safety == Init /\ [][Next]_vars

Spec == Safety /\ WF_vars(Deliver)

=============================================================================
