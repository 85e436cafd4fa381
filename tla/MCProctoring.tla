---------------------------- MODULE MCProctoring ----------------------------
(* Proctoring with two scenes: a candidate alone, and a phone on the desk.  *)
EXTENDS Proctoring, TLC

MCScene == {[labels |-> {"keyboard"}, persons |-> 1],
            [labels |-> {"keyboard", "cell phone"}, persons |-> 1]}

Symmetry == Permutations(Peer)
=============================================================================
