----------------------------- MODULE SecureChannel -----------------------------
(***************************************************************************)
(* What one direction of a transport session promises: frames are received *)
(* in the order they were sealed, each once, none left out and none made   *)
(* up.  Frames may stop arriving at any time.  A new session starts empty. *)
(***************************************************************************)
EXTENDS Sequences, Naturals

CONSTANT Frames
VARIABLES sent, got

Init == sent = <<>> /\ got = <<>>

Send == /\ \E f \in Frames : sent' = Append(sent, f)
        /\ UNCHANGED got

Receive == /\ Len(got) < Len(sent)
           /\ got' = Append(got, sent[Len(got) + 1])
           /\ UNCHANGED sent

Reset == sent' = <<>> /\ got' = <<>>

Next == Send \/ Receive \/ Reset

Spec == Init /\ [][Next]_<<sent, got>>
=============================================================================
