--------------------------- MODULE GradingConsumer ---------------------------
(***************************************************************************)
(* Grading finished answers: the consumers that start_exam_attempt_consumer *)
(* runs on one partition of the request topic (exam_consumer.py).          *)
(*                                                                         *)
(* A message is one answer.  Its turns are evaluated in concurrent worker  *)
(* threads, transient failures are retried turn by turn, any other failure *)
(* restarts the message, and the last one publishes a Failed event; the    *)
(* offset is committed by hand after an event was published.               *)
(*                                                                         *)
(* Kafka is modelled from how it is used: a group gives the partition to   *)
(* one member, at the committed offset; a member that is late keeps working *)
(* on what it has; a member whose task died is idle and loses the partition *)
(* at last.  commit() commits the position of the partitions one is         *)
(* assigned, and nothing, or an exception, when one is no longer.          *)
(***************************************************************************)
EXTENDS Integers

CONSTANTS Consumer,    \* the instances (KAFKA_EXAM_CONSUMER_CONCURRENCY)
          MaxOffset,   \* messages on the partition
          Turn,        \* the scoreable turns of an answer, by turn order
          Kinds,       \* the kinds of messages there are
          MaxRetry,    \* KAFKA_MAX_RETRY
          MaxFaults    \* bound on failing sends, commits, rebalances, crashes

\* No turn to grade (none at all, or clarifications only), turns to grade, a JSON
\* object that is no ExamAttemptEvaluationRequested event, or no JSON object.
AllKinds == {"unscored", "spoken", "invalid", "garbled"}

ASSUME OffsetAssumption == MaxOffset \in Nat \ {0}
ASSUME TurnAssumption   == Turn \subseteq Nat /\ Turn # {}
ASSUME KindsAssumption  == Kinds \subseteq AllKinds
ASSUME RetryAssumption  == MaxRetry \in Nat
ASSUME FaultsAssumption == MaxFaults \in Nat

VARIABLES
    log,        \* the messages, by offset
    committed,  \* the group's committed offset (durable)
    owner,      \* the member that has the partition
    position,   \* the next offset it will be given
    cons,       \* the consumers
    usage,      \* answers with AI usage in _usage_buffer
    charged,    \* answers whose AI usage was published
    outcome,    \* per message, the events that its handling published
    faults

vars == <<log, committed, owner, position, cons, usage, charged, outcome, faults>>

Offset  == 1 .. MaxOffset
\* An event, by the results it is made of and the message whose ids it carries.
Verdict == [kind : {"completed", "failed"}, turns : SUBSET Turn, about : Offset]
Grade   == {"none", "running", "ok", "transient", "broken"}
Consumers ==
    [pc      : {"idle", "read", "evaluate", "aggregate", "publish", "flush", "commit",
                "publishFailed", "commitFailed", "dead"},
     offset  : 0 .. MaxOffset,       \* the message in hand
     retries : 0 .. MaxRetry + 1,    \* failures of the message in hand
     attempt : 0 .. MaxRetry,        \* retries within its batch of turns
     turn    : [Turn -> Grade],
     bound   : BOOLEAN,              \* publish_failed was assigned before
     named   : 0 .. MaxOffset]       \* the message normalized_payload is of

TypeOK ==
    /\ log \in [Offset -> Kinds]
    /\ committed \in 0 .. MaxOffset
    /\ owner \in Consumer
    /\ position \in 1 .. MaxOffset + 1
    /\ cons \in [Consumer -> Consumers]
    /\ usage \subseteq Offset
    /\ charged \subseteq Offset
    /\ outcome \in [Offset -> SUBSET Verdict]
    /\ faults \in 0 .. MaxFaults

NoTurns == [t \in Turn |-> "none"]
New == [pc |-> "idle", offset |-> 0, retries |-> 0, attempt |-> 0,
        turn |-> NoTurns, bound |-> FALSE, named |-> 0]

Init ==
    /\ log \in [Offset -> Kinds]
    /\ committed = 0 /\ position = 1
    /\ owner \in Consumer
    /\ cons = [c \in Consumer |-> New]
    /\ usage = {} /\ charged = {}
    /\ outcome = [i \in Offset |-> {}]
    /\ faults = 0

-----------------------------------------------------------------------------
Fault == faults < MaxFaults /\ faults' = faults + 1

Goto(c, pc) == cons' = [cons EXCEPT ![c].pc = pc]

\* A consumer whose message failed: retry it, or give it up if the retries are
\* used up, those of one of its turns (terminal) or its own.
Failing(k, terminal) ==
    [k EXCEPT !.pc = IF terminal \/ k.retries >= MaxRetry THEN "publishFailed" ELSE "read",
              !.retries = k.retries + 1, !.attempt = 0, !.turn = NoTurns]

Raise(c, terminal) == cons' = [cons EXCEPT ![c] = Failing(cons[c], terminal)]

Settled(c) == \A t \in Turn : cons[c].turn[t] # "running"
Graded(c)  == {t \in Turn : cons[c].turn[t] = "ok"}

\* Outcomes of a batch that are raised: any other failure, and a transient one
\* after the last retry.
Raised(c) == {t \in Turn : \/ cons[c].turn[t] = "broken"
                           \/ cons[c].turn[t] = "transient" /\ cons[c].attempt = MaxRetry}

-----------------------------------------------------------------------------
\* async for message in consumer: the position moves on.  The handler's local
\* variables keep what the messages before have left in them.
Receive(c) ==
    /\ owner = c /\ cons[c].pc = "idle" /\ position <= MaxOffset
    /\ cons' = [cons EXCEPT ![c] = [New EXCEPT !.pc = "read", !.offset = position,
                                               !.bound = cons[c].bound,
                                               !.named = cons[c].named]]
    /\ position' = position + 1
    /\ UNCHANGED <<log, committed, owner, usage, charged, outcome, faults>>

\* The handler's variables after a message was parsed, and after it was valid.
Parsed(k) == [k EXCEPT !.named = k.offset]
Valid(k)  == [Parsed(k) EXCEPT !.bound = TRUE]

\* Parse, validate, bind publish_failed, and go on by what the answer holds: a
\* zero-point result is published without a batch of turns.
Read(c) ==
    /\ cons[c].pc = "read"
    /\ log[cons[c].offset] \in {"unscored", "spoken"}
    /\ cons' = [cons EXCEPT ![c] =
                  IF log[cons[c].offset] = "spoken"
                  THEN [Valid(cons[c]) EXCEPT !.pc = "evaluate",
                                              !.turn = [t \in Turn |-> "running"]]
                  ELSE [Valid(cons[c]) EXCEPT !.pc = "publish"]]
    /\ UNCHANGED <<log, committed, owner, position, usage, charged, outcome, faults>>

\* The ids of an object that is no request are taken from it; those of a message
\* that is no object are left as they were.
ReadInvalid(c) ==
    /\ cons[c].pc = "read"
    /\ \/ /\ log[cons[c].offset] = "invalid"
          /\ cons' = [cons EXCEPT ![c] = Failing(Parsed(cons[c]), FALSE)]
       \/ /\ log[cons[c].offset] = "garbled"
          /\ Raise(c, FALSE)
    /\ UNCHANGED <<log, committed, owner, position, usage, charged, outcome, faults>>

\* One _evaluate_turn returns or raises; the model calls it made are on record
\* (every evaluation is taken to make one).
TurnSettles(c, t, grade) ==
    /\ cons[c].pc = "evaluate" /\ cons[c].turn[t] = "running"
    /\ cons' = [cons EXCEPT ![c].turn[t] = grade]
    /\ usage' = usage \cup {cons[c].offset}
    /\ UNCHANGED <<log, committed, owner, position, charged, outcome, faults>>

\* Mutated form of Retried: the attempts are not counted.
RetriedUncounted(k) ==
    [k EXCEPT !.turn = [t \in Turn |-> IF k.turn[t] = "transient" THEN "running"
                                       ELSE k.turn[t]]]

\* A consumer that runs the transient failures of its batch again.
Retried(k) ==
    [k EXCEPT !.attempt = k.attempt + 1,
              !.turn = [t \in Turn |-> IF k.turn[t] = "transient" THEN "running"
                                       ELSE k.turn[t]]]

\* gather is done: the transient failures alone run again.
BatchRetries(c) ==
    /\ cons[c].pc = "evaluate" /\ Settled(c)
    /\ \E t \in Turn : cons[c].turn[t] = "transient"
    /\ Raised(c) = {}
    /\ cons' = [cons EXCEPT ![c] = Retried(cons[c])]
    /\ UNCHANGED <<log, committed, owner, position, usage, charged, outcome, faults>>

\* ... or the first of the failures to be raised, in turn order, is raised.
BatchFails(c) ==
    /\ cons[c].pc = "evaluate" /\ Settled(c)
    /\ \E t \in Raised(c) :
          /\ \A u \in Raised(c) : t <= u
          /\ Raise(c, cons[c].turn[t] = "transient")
    /\ UNCHANGED <<log, committed, owner, position, usage, charged, outcome, faults>>

\* Mutated form of BatchDone: what could not be evaluated is left out.
BatchDoneAnyway(c) ==
    /\ cons[c].pc = "evaluate" /\ Settled(c)
    /\ Goto(c, "aggregate")
    /\ UNCHANGED <<log, committed, owner, position, usage, charged, outcome, faults>>

BatchDone(c) ==
    /\ cons[c].pc = "evaluate"
    /\ Graded(c) = Turn
    /\ Goto(c, "aggregate")
    /\ UNCHANGED <<log, committed, owner, position, usage, charged, outcome, faults>>

\* Mutated form of Aggregate: the usage is flushed before the result is out.
AggregateCharges(c) ==
    /\ cons[c].pc = "aggregate"
    /\ Goto(c, "publish") \/ Raise(c, FALSE)
    /\ charged' = charged \cup {cons[c].offset}
    /\ UNCHANGED <<log, committed, owner, position, usage, outcome, faults>>

\* _run_aggregate_text_evaluation and building the event, or an exception.
Aggregate(c) ==
    /\ cons[c].pc = "aggregate"
    /\ Goto(c, "publish") \/ Raise(c, FALSE)
    /\ usage' = usage \cup {cons[c].offset}
    /\ UNCHANGED <<log, committed, owner, position, charged, outcome, faults>>

\* publish_completed; it may raise, with or without the event on the topic.
Publish(c) ==
    /\ cons[c].pc = "publish"
    /\ LET i == cons[c].offset
           published == [outcome EXCEPT ![i] =
                            @ \cup {[kind |-> "completed", turns |-> Graded(c),
                                     about |-> i]}]
       IN \/ /\ outcome' = published
             /\ Goto(c, IF log[i] = "spoken" THEN "flush" ELSE "commit")
             /\ UNCHANGED faults
          \/ /\ Fault
             /\ outcome' = published \/ UNCHANGED outcome
             /\ Raise(c, FALSE)
    /\ UNCHANGED <<log, committed, owner, position, usage, charged>>

\* _flush_ai_usage: pop, then publish; a failure is swallowed and loses it.
Flush(c) ==
    /\ cons[c].pc = "flush"
    /\ Goto(c, "commit")
    /\ usage' = usage \ {cons[c].offset}
    /\ \/ /\ charged' = charged \cup (usage \cap {cons[c].offset})
          /\ UNCHANGED faults
       \/ Fault /\ UNCHANGED charged
    /\ UNCHANGED <<log, committed, owner, position, outcome>>

\* Where commit() leaves the group's offset, if it does not raise.
Committed(c) == IF owner = c THEN position - 1 ELSE committed

\* An exception of commit() is handled like any other.
Commit(c) ==
    /\ cons[c].pc = "commit"
    /\ \/ /\ committed' = Committed(c)
          /\ Goto(c, "idle")
          /\ UNCHANGED faults
       \/ /\ Fault \/ (owner # c /\ UNCHANGED faults)
          /\ Raise(c, FALSE)
          /\ UNCHANGED committed
    /\ UNCHANGED <<log, owner, position, usage, charged, outcome>>

\* The Failed event of the message in hand, under the ids last parsed.
FailedEvent(c) == [kind |-> "failed", turns |-> {}, about |-> cons[c].named]

\* Mutated form of PublishFailed: a failing send is logged and committed.
PublishFailedSwallows(c) ==
    /\ cons[c].pc = "publishFailed"
    /\ \/ /\ outcome' = [outcome EXCEPT ![cons[c].offset] =
                             @ \cup {FailedEvent(c)}]
          /\ UNCHANGED faults
       \/ Fault /\ UNCHANGED outcome
    /\ Goto(c, "commitFailed")
    /\ UNCHANGED <<log, committed, owner, position, usage, charged>>

\* publish_failed; nothing catches an exception in the handler of one.
PublishFailed(c) ==
    /\ cons[c].pc = "publishFailed" /\ cons[c].bound
    /\ LET published == [outcome EXCEPT ![cons[c].offset] = @ \cup {FailedEvent(c)}]
       IN \/ /\ outcome' = published
             /\ Goto(c, "commitFailed")
             /\ UNCHANGED faults
          \/ /\ Fault
             /\ outcome' = published \/ UNCHANGED outcome
             /\ Goto(c, "dead")
    /\ UNCHANGED <<log, committed, owner, position, usage, charged>>

\* publish_failed is not even assigned: no message was ever valid.
Unbound(c) ==
    /\ cons[c].pc = "publishFailed" /\ ~cons[c].bound
    /\ Goto(c, "dead")
    /\ UNCHANGED <<log, committed, owner, position, usage, charged, outcome, faults>>

CommitFailed(c) ==
    /\ cons[c].pc = "commitFailed"
    /\ \/ /\ committed' = Committed(c)
          /\ Goto(c, "idle")
          /\ UNCHANGED faults
       \/ /\ Fault \/ (owner # c /\ UNCHANGED faults)
          /\ Goto(c, "dead")
          /\ UNCHANGED committed
    /\ UNCHANGED <<log, owner, position, usage, charged, outcome>>

-----------------------------------------------------------------------------
\* The group gives the partition to c: a fault (a missed heartbeat, an
\* evaluation longer than the poll interval) unless its owner is dead.
Rebalance(c) ==
    /\ c # owner /\ cons[c].pc # "dead"
    /\ Fault \/ (cons[owner].pc = "dead" /\ UNCHANGED faults)
    /\ owner' = c
    /\ position' = committed + 1
    /\ UNCHANGED <<log, committed, cons, usage, charged, outcome>>

\* The process is restarted: its consumers begin anew.
Crash ==
    /\ Fault
    /\ cons' = [c \in Consumer |-> New]
    /\ usage' = {}
    /\ owner' \in Consumer
    /\ position' = committed + 1
    /\ UNCHANGED <<log, committed, charged, outcome>>

Work(c) ==
    \/ Receive(c) \/ Read(c) \/ ReadInvalid(c)
    \/ BatchRetries(c) \/ BatchFails(c) \/ BatchDone(c)
    \/ Aggregate(c) \/ Publish(c) \/ Flush(c) \/ Commit(c)
    \/ PublishFailed(c) \/ Unbound(c) \/ CommitFailed(c)

Next ==
    \/ \E c \in Consumer :
          \/ Work(c) \/ Rebalance(c)
          \/ \E t \in Turn, grade \in {"ok", "transient", "broken"} : TurnSettles(c, t, grade)
    \/ Crash

Spec == Init /\ [][Next]_vars

\* The event loop runs every consumer that is not dead, an evaluation ends one
\* way or the other, and the group takes the partition from a dead member.
Fairness ==
    /\ \A c \in Consumer :
          /\ WF_vars(Work(c))
          /\ WF_vars(\E t \in Turn, grade \in Grade \ {"none", "running"} :
                         TurnSettles(c, t, grade))
    /\ WF_vars(\E c \in Consumer : cons[owner].pc = "dead" /\ Rebalance(c))
FairSpec == Spec /\ Fairness
-----------------------------------------------------------------------------
(* Properties *)

\* Whatever fails, crashes, is delivered twice or taken over in the middle: the
\* offset passes a message only when its handling published an event, and never
\* moves back; and every event is about the message it comes from, with the one
\* exception of the Failed event of a message that is no JSON object, which is
\* about the last one that this member parsed before (exam_consumer.py:1050).
Readable == {i \in Offset : log[i] # "garbled"}
Ledger == INSTANCE GradingLedger WITH readable <- Readable
LedgerSpec == Ledger!Spec

\* A spoken answer is Completed only from the results of all of its scoreable
\* turns, although some were retried and some attempts were given up.
GradedFromEveryTurn ==
    \A i \in Offset : \A v \in outcome[i] :
        log[i] = "spoken" /\ v.kind = "completed" => v.turns = Turn

\* Only an answer that got its result is charged (exam_consumer.py:1043).
ChargedIsGraded ==
    \A i \in charged : \E v \in outcome[i] : v.kind = "completed"

\* The inductive invariant behind the properties above.  The owner's position is
\* ahead of the committed offset by the message it has in hand, or by one that
\* it died with; a member that lost the partition is free to be anywhere.
InHand == {"read", "evaluate", "aggregate", "publish", "flush", "commit",
           "publishFailed", "commitFailed"}

PositionIsNext ==
    \/ position = committed + 1
    \/ /\ position = committed + 2
       /\ \/ cons[owner].pc = "dead"
          \/ cons[owner].pc \in InHand /\ cons[owner].offset = committed + 1

WorkIsSound(c) ==
    /\ cons[c].pc \in InHand => cons[c].offset \in Offset
    /\ cons[c].pc \in InHand \ {"publishFailed", "commitFailed"}
          => cons[c].retries <= MaxRetry
    /\ cons[c].pc \in {"flush", "commit", "commitFailed"} => outcome[cons[c].offset] # {}
    /\ cons[c].pc \in {"evaluate", "aggregate", "flush"} => log[cons[c].offset] = "spoken"
    /\ cons[c].pc \in {"aggregate", "publish"} /\ log[cons[c].offset] = "spoken"
          => Graded(c) = Turn
    /\ cons[c].pc = "flush"
          => \E v \in outcome[cons[c].offset] : v.kind = "completed"

IInv ==
    /\ TypeOK
    /\ \A i \in 1 .. committed : outcome[i] # {}
    /\ PositionIsNext
    /\ \A c \in Consumer : WorkIsSound(c) 
    /\ GradedFromEveryTurn
    /\ ChargedIsGraded

\* The ids a consumer holds are those of a message that could be parsed, of the
\* one in hand if it could be and was.
NamesAreSound(k) ==
    /\ k.named # 0 => k.named \in Readable
    /\ k.bound => k.named # 0
    /\ k.pc \in InHand \ {"read"} /\ k.offset \in Readable => k.named = k.offset

NamesInv == \A c \in Consumer : NamesAreSound(cons[c])

\* Every answer gets an outcome of its own; a message that cannot be read and
\* comes before any valid one kills the consumers one after the other.
EveryAnswerGetsAnOutcome ==
    \A i \in Offset :
        (\A j \in 1 .. i : log[j] \in {"unscored", "spoken"})
            ~> \E v \in outcome[i] : v.about = i
=============================================================================
