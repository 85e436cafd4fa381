---------------------------- MODULE GradingLedger ----------------------------
(***************************************************************************)
(* What the grading consumer promises the marking side, one message per    *)
(* finished answer: verdicts are added and never taken back, the offset    *)
(* moves over one message at a time, only when that one has its verdict,   *)
(* and a verdict is about the message it was published for.  The promise   *)
(* breaks off there for a message that cannot be parsed: what is published *)
(* for it is a failure of another one.                                     *)
(***************************************************************************)
EXTENDS Integers

CONSTANTS Offset,   \* the messages of the topic, 1 .. the last one
          Verdict   \* what may be published for a message

VARIABLES readable,   \* the messages that can be parsed
          outcome,    \* per message, the verdicts published for it
          committed   \* the last message that will not be delivered again

vars == <<readable, outcome, committed>>

Init ==
    /\ readable \in SUBSET Offset
    /\ outcome = [i \in Offset |-> {}]
    /\ committed = 0

Publish(i, v) ==
    /\ \/ v.about = i
       \/ i \notin readable /\ v.about \in readable /\ v.kind = "failed"
    /\ outcome' = [outcome EXCEPT ![i] = @ \cup {v}]
    /\ UNCHANGED <<readable, committed>>

Commit ==
    /\ committed + 1 \in Offset
    /\ outcome[committed + 1] # {}
    /\ committed' = committed + 1
    /\ UNCHANGED <<readable, outcome>>

Next == Commit \/ \E i \in Offset, v \in Verdict : Publish(i, v)
Spec == Init /\ [][Next]_vars
=============================================================================
