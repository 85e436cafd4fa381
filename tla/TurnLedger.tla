----------------------------- MODULE TurnLedger -----------------------------
(***************************************************************************)
(* What the marking side may rely on, one row per turn, whatever overlaps, *)
(* fails or arrives late: the words of a row were said in that very turn   *)
(* (or there are none), and a row has a recording only when one of that    *)
(* turn was archived.  It may not rely on more: two callers of a turn may  *)
(* each send every record, and the words alone may come after the          *)
(* recording.                                                              *)
(***************************************************************************)
EXTENDS Naturals

CONSTANTS Turn, Speech, Silence

VARIABLES row,       \* per turn: none, preliminary or full, and its words
          said,      \* per speech: the turn it was said in, or 0
          recorded   \* turns of which a recording was archived

vars == <<row, said, recorded>>

Init ==
    /\ \A n \in Turn : row[n].phase = "none"
    /\ said = [s \in Speech |-> 0]
    /\ recorded = {}

Say(s, n) == said[s] = 0 /\ said' = [said EXCEPT ![s] = n] /\ UNCHANGED <<row, recorded>>

Archive(n) == recorded' = recorded \cup {n} /\ UNCHANGED <<row, said>>

\* Words that were said in turn n.
Of(n) == {Silence} \cup {s \in Speech : said[s] = n}

Record(n, w) ==
    /\ w \in Of(n)
    /\ row' = [row EXCEPT ![n] = [phase |-> "preliminary", take |-> w]]
    /\ UNCHANGED <<said, recorded>>

Complete(n, w) ==
    /\ n \in recorded /\ w \in Of(n)
    /\ row' = [row EXCEPT ![n] = [phase |-> "full", take |-> w]]
    /\ UNCHANGED <<said, recorded>>

Next ==
    \E n \in Turn :
        \/ Archive(n)
        \/ \E s \in Speech : Say(s, n)
        \/ \E w \in Speech \cup {Silence} : Record(n, w) \/ Complete(n, w)
Spec == Init /\ [][Next]_vars
=============================================================================
