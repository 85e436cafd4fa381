----------------------- MODULE GradingConsumer_proofs -----------------------
(***************************************************************************)
(* Theorems about GradingConsumer, for any number of consumers, messages,  *)
(* turns, retries and faults.                                              *)
(***************************************************************************)
EXTENDS GradingConsumer, TLAPS

\* The consumers that are not the one that moves stay sound, as outcomes only
\* grow, and no message that was passed loses its outcome.
LEMMA OthersStaySound ==
    ASSUME IInv, NEW c \in Consumer, NEW k \in Consumers,
           cons' = [cons EXCEPT ![c] = k],
           log' = log,
           outcome' \in [Offset -> SUBSET Verdict],
           \A i \in Offset : outcome[i] \subseteq outcome'[i],
           WorkIsSound(c)'
    PROVE  /\ cons' \in [Consumer -> Consumers]
           /\ cons'[c] = k
           /\ \A d \in Consumer : d # c => cons'[d] = cons[d]
           /\ \A d \in Consumer : WorkIsSound(d)'
           /\ \A i \in 1 .. committed : outcome'[i] # {}
<1>1. /\ cons' \in [Consumer -> Consumers]
      /\ cons'[c] = k
      /\ \A d \in Consumer : d # c => cons'[d] = cons[d]
  BY DEF IInv, TypeOK
<1>2. ASSUME NEW d \in Consumer, d # c
      PROVE  WorkIsSound(d)'
  <2>1. cons'[d] = cons[d] /\ WorkIsSound(d)
    BY <1>1, <1>2 DEF IInv
  <2>2. Graded(d)' = Graded(d)
    BY <2>1 DEF Graded
  <2>3. cons[d].pc \in InHand => outcome[cons[d].offset] \subseteq outcome'[cons[d].offset]
    BY <2>1 DEF WorkIsSound
  <2> QED
    BY <2>1, <2>2, <2>3 DEF WorkIsSound, InHand
<1>3. \A i \in 1 .. committed : i \in Offset /\ outcome[i] # {}
  <2>1. committed \in 0 .. MaxOffset /\ \A i \in 1 .. committed : outcome[i] # {}
    BY DEF IInv, TypeOK
  <2> QED
    BY <2>1, OffsetAssumption DEF Offset
<1> QED
  BY <1>1, <1>2, <1>3

\* Any step of a consumer that keeps its message in hand, or dies, leaves the
\* partition alone and only adds events.
LEMMA WorkStep ==
    ASSUME IInv, NEW c \in Consumer, NEW k \in Consumers,
           cons' = [cons EXCEPT ![c] = k],
           log' = log, owner' = owner, position' = position, committed' = committed,
           outcome' \in [Offset -> SUBSET Verdict],
           \A i \in Offset : outcome[i] \subseteq outcome'[i],
           usage' \subseteq Offset, charged' \subseteq Offset, faults' \in 0 .. MaxFaults,
           cons[c].pc \in InHand, k.pc \in InHand \cup {"dead"},
           k.offset = cons[c].offset,
           WorkIsSound(c)', GradedFromEveryTurn', ChargedIsGraded'
    PROVE  IInv'
<1>1. /\ cons' \in [Consumer -> Consumers]
      /\ cons'[c] = k
      /\ \A d \in Consumer : d # c => cons'[d] = cons[d]
      /\ \A d \in Consumer : WorkIsSound(d)'
      /\ \A i \in 1 .. committed : outcome'[i] # {}
  BY OthersStaySound
<1>2. TypeOK'
  BY <1>1 DEF IInv, TypeOK
<1>3. PositionIsNext'
  <2>1. /\ owner \in Consumer /\ PositionIsNext
        /\ owner # c => cons'[owner] = cons[owner]
        /\ "dead" \notin InHand
    BY <1>1 DEF IInv, TypeOK, InHand
  <2>2. CASE position = committed + 1
    BY <2>2 DEF PositionIsNext
  <2>3. CASE position = committed + 2 /\ owner # c
    BY <2>1, <2>3 DEF PositionIsNext
  <2>4. CASE position = committed + 2 /\ owner = c
    BY <1>1, <2>1, <2>4 DEF PositionIsNext
  <2> QED
    BY <2>1, <2>2, <2>3, <2>4 DEF PositionIsNext
<1> QED
  BY <1>1, <1>2, <1>3 DEF IInv

\* The same without an event and without a charge.
LEMMA SilentStep ==
    ASSUME IInv, NEW c \in Consumer, NEW k \in Consumers,
           cons' = [cons EXCEPT ![c] = k],
           UNCHANGED <<log, owner, position, committed, outcome, charged>>,
           usage' \subseteq Offset, faults' \in 0 .. MaxFaults,
           cons[c].pc \in InHand, k.pc \in InHand \cup {"dead"},
           k.offset = cons[c].offset,
           WorkIsSound(c)'
    PROVE  IInv'
<1>1. outcome' \in [Offset -> SUBSET Verdict] /\ charged' \subseteq Offset
  BY DEF IInv, TypeOK
<1>2. GradedFromEveryTurn' /\ ChargedIsGraded'
  BY DEF IInv, GradedFromEveryTurn, ChargedIsGraded
<1> QED
  BY <1>1, <1>2, WorkStep

\* A message that failed is read again or given up, with its offset.
LEMMA FailingType ==
    ASSUME NEW k \in Consumers, NEW terminal \in BOOLEAN, k.retries <= MaxRetry
    PROVE  /\ Failing(k, terminal) \in Consumers
           /\ Failing(k, terminal).offset = k.offset
           /\ Failing(k, terminal).named = k.named /\ Failing(k, terminal).bound = k.bound
           /\ Failing(k, terminal).pc \in {"read", "publishFailed"}
           /\ Failing(k, terminal).pc = "read" => Failing(k, terminal).retries <= MaxRetry
<1>1. NoTurns \in [Turn -> Grade]
  BY DEF NoTurns, Grade
<1>2. k.retries \in Nat /\ k.retries <= MaxRetry /\ MaxRetry \in Nat
  BY RetryAssumption DEF Consumers
<1>3. k.retries + 1 \in 0 .. MaxRetry + 1 /\ 0 \in 0 .. MaxRetry
  BY <1>2
<1>4. (k.retries < MaxRetry) <=> ~(k.retries >= MaxRetry)
  BY <1>2
<1>5. k.retries < MaxRetry => k.retries + 1 <= MaxRetry
  BY <1>2
<1>6. CASE terminal \/ k.retries >= MaxRetry
  <2>1. Failing(k, terminal) = [k EXCEPT !.pc = "publishFailed", !.retries = k.retries + 1,
                                         !.attempt = 0, !.turn = NoTurns]
    BY <1>6 DEF Failing
  <2> QED
    BY <1>1, <1>3, <2>1 DEF Consumers
<1>7. CASE ~(terminal \/ k.retries >= MaxRetry)
  <2>1. Failing(k, terminal) = [k EXCEPT !.pc = "read", !.retries = k.retries + 1,
                                         !.attempt = 0, !.turn = NoTurns]
    BY <1>7 DEF Failing
  <2> QED
    BY <1>1, <1>3, <1>4, <1>5, <1>7, <2>1 DEF Consumers
<1> QED
  BY <1>6, <1>7

\* So raising is a silent step, if nothing else happens.
LEMMA RaiseStep ==
    ASSUME IInv, NEW c \in Consumer, NEW terminal \in BOOLEAN,
           Raise(c, terminal),
           UNCHANGED <<log, owner, position, committed, outcome, charged>>,
           usage' \subseteq Offset, faults' \in 0 .. MaxFaults,
           cons[c].pc \in InHand \ {"publishFailed", "commitFailed"}
    PROVE  IInv'
<1> DEFINE k == Failing(cons[c], terminal)
<1>1. /\ cons[c] \in Consumers /\ WorkIsSound(c)
      /\ cons[c].pc \in InHand /\ cons[c].offset \in Offset /\ cons[c].retries <= MaxRetry
  BY DEF IInv, TypeOK, WorkIsSound
<1>2. /\ k \in Consumers /\ k.offset = cons[c].offset /\ k.pc \in {"read", "publishFailed"}
      /\ k.pc = "read" => k.retries <= MaxRetry
  BY <1>1, FailingType
<1> HIDE DEF k
<1>3. cons' = [cons EXCEPT ![c] = k] /\ cons'[c] = k
  BY DEF Raise, k, IInv, TypeOK
<1>4. WorkIsSound(c)'
  BY <1>1, <1>2, <1>3 DEF WorkIsSound, InHand
<1>5. k.pc \in InHand \cup {"dead"}
  BY <1>2 DEF InHand
<1> QED
  BY <1>1, <1>2, <1>3, <1>4, <1>5, SilentStep

\* A first state satisfies the invariant.
LEMMA InitIInv == Init => IInv
<1> SUFFICES ASSUME Init PROVE IInv
  OBVIOUS
<1>1. New \in Consumers
  BY RetryAssumption, OffsetAssumption DEF New, Consumers, NoTurns, Grade
<1>2. TypeOK
  BY <1>1, OffsetAssumption, FaultsAssumption DEF Init, TypeOK, Offset
<1>3. \A c \in Consumer : WorkIsSound(c)
  BY DEF Init, New, WorkIsSound, InHand
<1>4. 1 .. committed = {} /\ PositionIsNext
  BY DEF Init, PositionIsNext
<1>5. GradedFromEveryTurn /\ ChargedIsGraded
  BY DEF Init, GradedFromEveryTurn, ChargedIsGraded
<1> QED
  BY <1>2, <1>3, <1>4, <1>5 DEF IInv

\* What parsing and validating leave in the handler's variables.
LEMMA ParsedType ==
    ASSUME NEW k \in Consumers, k.offset \in Offset
    PROVE  /\ Parsed(k) \in Consumers /\ Valid(k) \in Consumers
           /\ Parsed(k).offset = k.offset /\ Valid(k).offset = k.offset
           /\ Parsed(k).retries = k.retries /\ Valid(k).retries = k.retries
           /\ Parsed(k).named = k.offset /\ Valid(k).named = k.offset
<1>1. k.offset \in 0 .. MaxOffset
  BY OffsetAssumption DEF Offset
<1>2. /\ Parsed(k) \in Consumers /\ Parsed(k).offset = k.offset
      /\ Parsed(k).retries = k.retries /\ Parsed(k).named = k.offset
  BY <1>1 DEF Parsed, Consumers
<1> QED
  BY <1>2 DEF Valid, Consumers

\* Reading a message: it is graded, or answered at once, or it is invalid.
LEMMA ReadStep ==
    ASSUME IInv, NEW c \in Consumer, Read(c) \/ ReadInvalid(c)
    PROVE  IInv'
<1>1. /\ cons[c] \in Consumers /\ WorkIsSound(c) /\ cons[c].pc \in InHand
      /\ cons[c].offset \in Offset /\ cons[c].retries <= MaxRetry
      /\ usage \subseteq Offset /\ faults \in 0 .. MaxFaults
      /\ cons \in [Consumer -> Consumers]
      /\ UNCHANGED <<log, owner, position, committed, outcome, charged, usage, faults>>
      /\ cons[c].pc = "read"
  BY DEF IInv, TypeOK, WorkIsSound, Read, ReadInvalid, InHand
<1>2. CASE ReadInvalid(c) /\ Raise(c, FALSE)
  BY <1>1, <1>2, RaiseStep DEF InHand
<1>3. CASE cons' = [cons EXCEPT ![c] = Failing(Parsed(cons[c]), FALSE)]
  <2>1. PICK q : q = Parsed(cons[c])
    OBVIOUS
  <2>2. q \in Consumers /\ q.offset = cons[c].offset /\ q.retries = cons[c].retries
    BY <1>1, <2>1, ParsedType
  <2>3. PICK k : k = Failing(q, FALSE)
    OBVIOUS
  <2>4. /\ k \in Consumers /\ k.offset = cons[c].offset
        /\ k.pc \in {"read", "publishFailed"}
        /\ k.pc = "read" => k.retries <= MaxRetry
    BY <1>1, <2>2, <2>3, FailingType
  <2>5. cons' = [cons EXCEPT ![c] = k] /\ cons'[c] = k
    BY <1>1, <1>3, <2>1, <2>3
  <2>6. WorkIsSound(c)' /\ k.pc \in InHand
    BY <1>1, <2>4, <2>5 DEF WorkIsSound, InHand
  <2> QED
    BY <1>1, <2>4, <2>5, <2>6, SilentStep
<1>4. CASE Read(c) /\ log[cons[c].offset] = "spoken"
  <2>1. PICK q : q = Valid(cons[c])
    OBVIOUS
  <2>2. q \in Consumers /\ q.offset = cons[c].offset /\ q.retries = cons[c].retries
    BY <1>1, <2>1, ParsedType
  <2> DEFINE k == [q EXCEPT !.pc = "evaluate", !.turn = [t \in Turn |-> "running"]]
  <2>3. k \in Consumers /\ k.offset = cons[c].offset /\ k.pc = "evaluate"
        /\ k.retries = cons[c].retries
    BY <1>1, <2>2 DEF Consumers, Grade
  <2>4. cons' = [cons EXCEPT ![c] = k]
    BY <1>4, <2>1 DEF Read
  <2> HIDE DEF k
  <2>5. WorkIsSound(c)' /\ k.pc \in InHand
    BY <1>1, <1>4, <2>3, <2>4 DEF WorkIsSound, InHand
  <2> QED
    BY <1>1, <2>3, <2>4, <2>5, SilentStep
<1>5. CASE Read(c) /\ log[cons[c].offset] # "spoken"
  <2>1. PICK q : q = Valid(cons[c])
    OBVIOUS
  <2>2. q \in Consumers /\ q.offset = cons[c].offset /\ q.retries = cons[c].retries
    BY <1>1, <2>1, ParsedType
  <2> DEFINE k == [q EXCEPT !.pc = "publish"]
  <2>3. k \in Consumers /\ k.offset = cons[c].offset /\ k.pc = "publish"
        /\ k.retries = cons[c].retries
    BY <1>1, <2>2 DEF Consumers
  <2>4. cons' = [cons EXCEPT ![c] = k]
    BY <1>5, <2>1 DEF Read
  <2> HIDE DEF k
  <2>5. WorkIsSound(c)' /\ k.pc \in InHand
    BY <1>1, <1>5, <2>3, <2>4 DEF WorkIsSound, InHand
  <2> QED
    BY <1>1, <2>3, <2>4, <2>5, SilentStep
<1> QED
  BY <1>2, <1>3, <1>4, <1>5 DEF ReadInvalid

\* The batch of turns: settling, retrying, failing and being done.
LEMMA BatchStep ==
    ASSUME IInv, NEW c \in Consumer,
           \/ \E t \in Turn, g \in {"ok", "transient", "broken"} : TurnSettles(c, t, g)
           \/ BatchRetries(c) \/ BatchFails(c) \/ BatchDone(c)
    PROVE  IInv'
<1>1. /\ cons[c] \in Consumers /\ WorkIsSound(c) /\ cons[c].pc \in InHand
      /\ cons[c].offset \in Offset /\ cons[c].retries <= MaxRetry
      /\ usage \subseteq Offset /\ faults \in 0 .. MaxFaults
      /\ cons \in [Consumer -> Consumers]
      /\ cons[c].pc = "evaluate"
  BY DEF IInv, TypeOK, WorkIsSound, TurnSettles, BatchRetries, BatchFails, BatchDone, InHand
<1>2. ASSUME NEW t \in Turn, NEW g \in {"ok", "transient", "broken"}, TurnSettles(c, t, g)
      PROVE  IInv'
  <2> DEFINE k == [cons[c] EXCEPT !.turn = [cons[c].turn EXCEPT ![t] = g]]
  <2>1. k \in Consumers /\ k.offset = cons[c].offset /\ k.pc = "evaluate"
        /\ k.retries = cons[c].retries
    BY <1>1 DEF Consumers, Grade
  <2>2. cons' = [cons EXCEPT ![c] = k]
    BY <1>2 DEF TurnSettles
  <2> HIDE DEF k
  <2>3. WorkIsSound(c)' /\ k.pc \in InHand
    BY <1>1, <1>2, <2>1, <2>2 DEF WorkIsSound, InHand, TurnSettles
  <2> QED
    BY <1>1, <1>2, <2>1, <2>2, <2>3, SilentStep DEF TurnSettles
<1>3. CASE BatchRetries(c)
  <2> DEFINE k == Retried(cons[c])
  <2>1. cons[c].attempt # MaxRetry
    BY <1>3 DEF BatchRetries, Raised
  <2>2. cons[c].attempt + 1 \in 0 .. MaxRetry
    BY <1>1, <2>1, RetryAssumption DEF Consumers
  <2>3. k \in Consumers /\ k.offset = cons[c].offset /\ k.pc = "evaluate"
        /\ k.retries = cons[c].retries
    BY <1>1, <2>2 DEF Consumers, Grade, Retried
  <2>4. cons' = [cons EXCEPT ![c] = k]
    BY <1>3 DEF BatchRetries
  <2> HIDE DEF k
  <2>5. WorkIsSound(c)' /\ k.pc \in InHand
    BY <1>1, <1>3, <2>3, <2>4 DEF WorkIsSound, InHand, BatchRetries
  <2> QED
    BY <1>1, <1>3, <2>3, <2>4, <2>5, SilentStep DEF BatchRetries
<1>4. CASE BatchFails(c)
  <2>1. PICK t \in Raised(c) : Raise(c, cons[c].turn[t] = "transient")
    BY <1>4 DEF BatchFails
  <2>2. (cons[c].turn[t] = "transient") \in BOOLEAN
    OBVIOUS
  <2>3. UNCHANGED <<log, owner, position, committed, outcome, charged, usage, faults>>
    BY <1>4 DEF BatchFails
  <2>4. cons[c].pc \in InHand \ {"publishFailed", "commitFailed"}
    BY <1>1
  <2> QED
    BY <1>1, <2>1, <2>2, <2>3, <2>4, RaiseStep
<1>5. CASE BatchDone(c)
  <2> DEFINE k == [cons[c] EXCEPT !.pc = "aggregate"]
  <2>1. k \in Consumers /\ k.offset = cons[c].offset /\ k.pc = "aggregate"
        /\ k.retries = cons[c].retries /\ k.turn = cons[c].turn
    BY <1>1 DEF Consumers
  <2>2. cons' = [cons EXCEPT ![c] = k]
    BY <1>5 DEF BatchDone, Goto
  <2> HIDE DEF k
  <2>3. Graded(c)' = Turn
    BY <1>1, <1>5, <2>1, <2>2 DEF Graded, BatchDone
  <2>4. log[cons[c].offset] = "spoken"
    BY <1>1 DEF WorkIsSound
  <2>5. WorkIsSound(c)' /\ k.pc \in InHand
    BY <1>1, <1>5, <2>1, <2>2, <2>3, <2>4 DEF WorkIsSound, InHand, BatchDone
  <2> QED
    BY <1>1, <1>5, <2>1, <2>2, <2>5, SilentStep DEF BatchDone
<1> QED
  BY <1>2, <1>3, <1>4, <1>5

\* The aggregate evaluation succeeds or raises.
LEMMA AggregateStep ==
    ASSUME IInv, NEW c \in Consumer, Aggregate(c)
    PROVE  IInv'
<1>1. /\ cons[c] \in Consumers /\ WorkIsSound(c) /\ cons[c].pc = "aggregate"
      /\ cons[c].pc \in InHand \ {"publishFailed", "commitFailed"}
      /\ cons[c].offset \in Offset /\ cons[c].retries <= MaxRetry
      /\ cons \in [Consumer -> Consumers]
      /\ usage' \subseteq Offset /\ faults' \in 0 .. MaxFaults
      /\ UNCHANGED <<log, owner, position, committed, outcome, charged>>
  BY DEF IInv, TypeOK, WorkIsSound, Aggregate, InHand
<1>2. CASE Raise(c, FALSE)
  BY <1>1, <1>2, RaiseStep
<1>3. CASE Goto(c, "publish")
  <2> DEFINE k == [cons[c] EXCEPT !.pc = "publish"]
  <2>1. k \in Consumers /\ k.offset = cons[c].offset /\ k.pc = "publish"
        /\ k.retries = cons[c].retries /\ k.turn = cons[c].turn
    BY <1>1 DEF Consumers
  <2>2. cons' = [cons EXCEPT ![c] = k]
    BY <1>3 DEF Goto
  <2> HIDE DEF k
  <2>3. Graded(c)' = Graded(c) /\ Graded(c) = Turn
    BY <1>1, <2>1, <2>2 DEF Graded, WorkIsSound
  <2>4. WorkIsSound(c)' /\ k.pc \in InHand
    BY <1>1, <2>1, <2>2, <2>3 DEF WorkIsSound, InHand
  <2> QED
    BY <1>1, <2>1, <2>2, <2>4, SilentStep
<1> QED
  BY <1>2, <1>3 DEF Aggregate

\* An event that is added to one message leaves the others alone.
LEMMA EventAdded ==
    ASSUME IInv, NEW i \in Offset, NEW v \in Verdict,
           outcome' = [outcome EXCEPT ![i] = @ \cup {v}],
           log' = log, charged' = charged,
           log[i] = "spoken" /\ v.kind = "completed" => v.turns = Turn
    PROVE  /\ outcome' \in [Offset -> SUBSET Verdict]
           /\ \A j \in Offset : outcome[j] \subseteq outcome'[j]
           /\ v \in outcome'[i]
           /\ GradedFromEveryTurn' /\ ChargedIsGraded'
<1>1. outcome \in [Offset -> SUBSET Verdict] /\ charged \subseteq Offset
  BY DEF IInv, TypeOK
<1>2. \A j \in Offset : outcome'[j] = IF j = i THEN outcome[j] \cup {v} ELSE outcome[j]
  BY <1>1
<1>3. GradedFromEveryTurn'
  BY <1>2 DEF IInv, GradedFromEveryTurn
<1>4. ChargedIsGraded'
  BY <1>1, <1>2 DEF IInv, ChargedIsGraded
<1> QED
  BY <1>1, <1>2, <1>3, <1>4

\* Publishing the result, with its failures.
LEMMA PublishStep ==
    ASSUME IInv, NEW c \in Consumer, Publish(c)
    PROVE  IInv'
<1> DEFINE i == cons[c].offset
           v == [kind |-> "completed", turns |-> Graded(c), about |-> i]
           added == outcome' = [outcome EXCEPT ![i] = @ \cup {v}]
<1>1. /\ cons[c] \in Consumers /\ WorkIsSound(c) /\ cons[c].pc = "publish"
      /\ cons[c].pc \in InHand \ {"publishFailed", "commitFailed"}
      /\ i \in Offset /\ cons[c].retries <= MaxRetry
      /\ cons \in [Consumer -> Consumers]
      /\ usage' \subseteq Offset /\ faults' \in 0 .. MaxFaults /\ charged' \subseteq Offset
      /\ UNCHANGED <<log, owner, position, committed, charged>>
  <2>1. cons[c].pc = "publish" /\ UNCHANGED <<log, owner, position, committed, usage, charged>>
    BY DEF Publish
  <2>2. faults' = faults \/ Fault
    BY DEF Publish
  <2>3. faults' \in 0 .. MaxFaults
    BY <2>2, FaultsAssumption DEF Fault, IInv, TypeOK
  <2> QED
    BY <2>1, <2>3 DEF IInv, TypeOK, WorkIsSound, InHand
<1>2. v \in Verdict /\ (log[i] = "spoken" => v.turns = Turn) /\ v.kind = "completed"
  BY <1>1 DEF Verdict, Graded, WorkIsSound
<1>3. added => /\ outcome' \in [Offset -> SUBSET Verdict]
               /\ \A j \in Offset : outcome[j] \subseteq outcome'[j]
               /\ v \in outcome'[i]
               /\ GradedFromEveryTurn' /\ ChargedIsGraded'
  <2> HIDE DEF v, i
  <2> QED
    BY <1>1, <1>2, EventAdded
<1>4. CASE outcome' = outcome /\ Raise(c, FALSE)
  BY <1>1, <1>4, RaiseStep
<1>5. CASE added /\ Raise(c, FALSE)
  <2> DEFINE k == Failing(cons[c], FALSE)
  <2>1. /\ k \in Consumers /\ k.offset = i /\ k.pc \in {"read", "publishFailed"}
        /\ k.pc = "read" => k.retries <= MaxRetry
    BY <1>1, FailingType
  <2> HIDE DEF k, v
  <2>2. cons' = [cons EXCEPT ![c] = k] /\ cons'[c] = k
    BY <1>1, <1>5 DEF Raise, k
  <2>3. WorkIsSound(c)' /\ k.pc \in InHand
    BY <1>1, <2>1, <2>2 DEF WorkIsSound, InHand
  <2> QED
    BY <1>1, <1>3, <1>5, <2>1, <2>2, <2>3, WorkStep
<1>6. CASE added /\ Goto(c, IF log[i] = "spoken" THEN "flush" ELSE "commit")
  <2> DEFINE k == [cons[c] EXCEPT !.pc = IF log[i] = "spoken" THEN "flush" ELSE "commit"]
  <2>1. /\ k \in Consumers /\ k.offset = i /\ k.retries = cons[c].retries
        /\ k.pc \in {"flush", "commit"} /\ (k.pc = "flush" => log[i] = "spoken")
    BY <1>1 DEF Consumers
  <2>2. cons' = [cons EXCEPT ![c] = k] /\ cons'[c] = k
    BY <1>1, <1>6 DEF Goto
  <2> HIDE DEF k, v
  <2>3. WorkIsSound(c)' /\ k.pc \in InHand
    BY <1>1, <1>2, <1>3, <1>6, <2>1, <2>2 DEF WorkIsSound, InHand
  <2> QED
    BY <1>1, <1>3, <1>6, <2>1, <2>2, <2>3, WorkStep
<1> QED
  BY <1>4, <1>5, <1>6 DEF Publish

\* A Failed event is about a message that could be parsed, about the message in
\* hand if that one could be.
LEMMA FailedEventType ==
    ASSUME IInv, NamesInv, NEW c \in Consumer, PublishFailed(c)
    PROVE  /\ FailedEvent(c) \in Verdict /\ FailedEvent(c).kind = "failed"
           /\ FailedEvent(c).about \in Readable
           /\ cons[c].offset \in Readable => FailedEvent(c).about = cons[c].offset
<1>1. /\ cons[c].bound /\ NamesAreSound(cons[c])
      /\ cons[c].pc \in InHand \ {"read"}
  BY DEF PublishFailed, NamesInv, InHand
<1>2. cons[c].named \in Readable /\ cons[c].named \in Offset
  BY <1>1 DEF NamesAreSound, Readable
<1> QED
  BY <1>1, <1>2 DEF FailedEvent, Verdict, NamesAreSound

\* Giving an answer up, or dying in the attempt.
LEMMA PublishFailedStep ==
    ASSUME IInv, NamesInv, NEW c \in Consumer, PublishFailed(c) \/ Unbound(c)
    PROVE  IInv'
<1> DEFINE i == cons[c].offset
           v == FailedEvent(c)
           added == PublishFailed(c) /\ outcome' = [outcome EXCEPT ![i] = @ \cup {v}]
<1>1. /\ cons[c] \in Consumers /\ WorkIsSound(c) /\ cons[c].pc = "publishFailed"
      /\ cons[c].pc \in InHand
      /\ i \in Offset
      /\ cons \in [Consumer -> Consumers]
      /\ usage' \subseteq Offset /\ faults' \in 0 .. MaxFaults /\ charged' \subseteq Offset
      /\ UNCHANGED <<log, owner, position, committed, charged>>
  BY FaultsAssumption DEF IInv, TypeOK, WorkIsSound, PublishFailed, Unbound, InHand, Fault
<1>2. PublishFailed(c) => v \in Verdict /\ v.kind # "completed"
  BY FailedEventType
<1>3. added => /\ outcome' \in [Offset -> SUBSET Verdict]
               /\ \A j \in Offset : outcome[j] \subseteq outcome'[j]
               /\ v \in outcome'[i]
               /\ GradedFromEveryTurn' /\ ChargedIsGraded'
  <2> HIDE DEF v, i
  <2> QED
    BY <1>1, <1>2, EventAdded
<1>4. ASSUME NEW pc \in {"commitFailed", "dead"}, Goto(c, pc),
             added \/ (outcome' = outcome /\ pc = "dead")
      PROVE  IInv'
  <2> DEFINE k == [cons[c] EXCEPT !.pc = pc]
  <2>1. k \in Consumers /\ k.offset = i /\ k.pc = pc
    BY <1>1 DEF Consumers
  <2>2. cons' = [cons EXCEPT ![c] = k] /\ cons'[c] = k
    BY <1>1, <1>4 DEF Goto
  <2> HIDE DEF k, v
  <2>3. WorkIsSound(c)' /\ k.pc \in InHand \cup {"dead"}
    BY <1>1, <1>3, <1>4, <2>1, <2>2 DEF WorkIsSound, InHand
  <2>4. CASE added
    BY <1>1, <1>3, <2>1, <2>2, <2>3, <2>4, WorkStep
  <2>5. CASE outcome' = outcome
    BY <1>1, <2>1, <2>2, <2>3, <2>5, SilentStep
  <2> QED
    BY <1>4, <2>4, <2>5
<1> QED
  BY <1>4 DEF PublishFailed, Unbound

\* Publishing the AI usage of an answer whose result is out.
LEMMA FlushStep ==
    ASSUME IInv, NEW c \in Consumer, Flush(c)
    PROVE  IInv'
<1> DEFINE k == [cons[c] EXCEPT !.pc = "commit"]
<1>1. /\ cons[c] \in Consumers /\ WorkIsSound(c) /\ cons[c].pc = "flush"
      /\ cons[c].pc \in InHand
      /\ cons[c].offset \in Offset
      /\ cons \in [Consumer -> Consumers]
      /\ usage' \subseteq Offset /\ faults' \in 0 .. MaxFaults /\ charged' \subseteq Offset
      /\ charged' \subseteq charged \cup {cons[c].offset}
      /\ UNCHANGED <<log, owner, position, committed, outcome>>
  BY FaultsAssumption DEF IInv, TypeOK, WorkIsSound, Flush, InHand, Fault
<1>2. k \in Consumers /\ k.offset = cons[c].offset /\ k.pc = "commit"
      /\ k.retries = cons[c].retries
  BY <1>1 DEF Consumers
<1>3. cons' = [cons EXCEPT ![c] = k]
  BY DEF Flush, Goto
<1> HIDE DEF k
<1>4. WorkIsSound(c)' /\ k.pc \in InHand
  BY <1>1, <1>2, <1>3 DEF WorkIsSound, InHand
<1>5. GradedFromEveryTurn' /\ ChargedIsGraded'
  BY <1>1 DEF IInv, GradedFromEveryTurn, ChargedIsGraded, WorkIsSound
<1>6. outcome' \in [Offset -> SUBSET Verdict]
  BY <1>1 DEF IInv, TypeOK
<1> QED
  BY <1>1, <1>2, <1>3, <1>4, <1>5, <1>6, WorkStep

\* The owner takes the next message.
LEMMA ReceiveStep ==
    ASSUME IInv, NEW c \in Consumer, Receive(c)
    PROVE  IInv'
<1> DEFINE k == [New EXCEPT !.pc = "read", !.offset = position,
                            !.bound = cons[c].bound, !.named = cons[c].named]
<1>1. /\ cons[c] \in Consumers /\ cons \in [Consumer -> Consumers] /\ owner = c
      /\ cons[c].pc = "idle" /\ position \in Offset /\ "idle" \notin InHand
      /\ position \in Nat /\ committed \in Nat
      /\ position' = position + 1
      /\ UNCHANGED <<log, committed, owner, usage, charged, outcome, faults>>
  BY OffsetAssumption DEF IInv, TypeOK, Receive, Offset, InHand
<1>2. position = committed + 1
  BY <1>1 DEF IInv, PositionIsNext
<1>3. k \in Consumers /\ k.offset = position /\ k.pc = "read" /\ k.retries <= MaxRetry
  <2>1. New \in Consumers /\ New.retries = 0
    BY RetryAssumption, OffsetAssumption DEF New, Consumers, NoTurns, Grade
  <2>2. /\ position \in 0 .. MaxOffset /\ cons[c].bound \in BOOLEAN
        /\ cons[c].named \in 0 .. MaxOffset
    BY <1>1, OffsetAssumption DEF Offset, Consumers
  <2>3. k \in Consumers
    BY <2>1, <2>2 DEF Consumers
  <2>4. k.offset = position /\ k.pc = "read" /\ k.retries = 0
    BY <2>1 DEF Consumers
  <2> QED
    BY <2>3, <2>4, RetryAssumption
<1>4. cons' = [cons EXCEPT ![c] = k]
  BY DEF Receive
<1> HIDE DEF k
<1>5. WorkIsSound(c)'
  BY <1>1, <1>3, <1>4 DEF WorkIsSound, InHand
<1>6. outcome' \in [Offset -> SUBSET Verdict]
      /\ \A i \in Offset : outcome[i] \subseteq outcome'[i]
  BY <1>1 DEF IInv, TypeOK
<1>7. /\ cons' \in [Consumer -> Consumers] /\ cons'[c] = k
      /\ \A d \in Consumer : WorkIsSound(d)'
      /\ \A i \in 1 .. committed : outcome'[i] # {}
  BY <1>1, <1>3, <1>4, <1>5, <1>6, OthersStaySound
<1>8. TypeOK'
  BY <1>1, <1>7, OffsetAssumption DEF IInv, TypeOK, Offset
<1>9. PositionIsNext'
  BY <1>1, <1>2, <1>3, <1>7 DEF PositionIsNext, InHand
<1>10. GradedFromEveryTurn' /\ ChargedIsGraded'
  BY <1>1 DEF IInv, GradedFromEveryTurn, ChargedIsGraded
<1> QED
  BY <1>1, <1>7, <1>8, <1>9, <1>10 DEF IInv

\* Where a successful commit leaves the offset: at most one further, over a
\* message whose outcome is out.
LEMMA CommittedIsNext ==
    ASSUME IInv, NEW c \in Consumer, cons[c].pc \in {"commit", "commitFailed"}
    PROVE  \/ Committed(c) = committed /\ (owner = c => position = committed + 1)
           \/ /\ owner = c /\ position = committed + 2
              /\ Committed(c) = committed + 1
              /\ committed + 1 \in Offset /\ outcome[committed + 1] # {}
<1>1. /\ committed \in Nat /\ position \in Nat /\ WorkIsSound(c) /\ cons[c].pc \in InHand
      /\ PositionIsNext /\ cons[c].pc # "dead"
  BY OffsetAssumption DEF IInv, TypeOK, InHand
<1>2. CASE owner # c
  BY <1>2 DEF Committed
<1>3. CASE owner = c /\ position = committed + 1
  BY <1>1, <1>3 DEF Committed
<1>4. CASE owner = c /\ position # committed + 1
  BY <1>1, <1>4 DEF Committed, PositionIsNext, WorkIsSound
<1> QED
  BY <1>2, <1>3, <1>4

\* Committing, with its failures.
LEMMA CommitStep ==
    ASSUME IInv, NEW c \in Consumer, Commit(c) \/ CommitFailed(c)
    PROVE  IInv'
<1>1. /\ cons[c] \in Consumers /\ cons \in [Consumer -> Consumers] /\ WorkIsSound(c)
      /\ cons[c].pc \in {"commit", "commitFailed"} /\ cons[c].pc \in InHand
      /\ committed \in Nat /\ position \in Nat /\ PositionIsNext
      /\ UNCHANGED <<log, owner, position, usage, charged, outcome>>
      /\ outcome \in [Offset -> SUBSET Verdict] /\ usage' \subseteq Offset
  <2>1. /\ cons[c].pc \in {"commit", "commitFailed"}
        /\ UNCHANGED <<log, owner, position, usage, charged, outcome>>
    BY DEF Commit, CommitFailed
  <2> QED
    BY <2>1, OffsetAssumption DEF IInv, TypeOK, InHand
<1>2. faults' = faults \/ Fault
  BY DEF Commit, CommitFailed
<1>3. faults' \in 0 .. MaxFaults
  BY <1>2, FaultsAssumption DEF Fault, IInv, TypeOK
<1>4. CASE committed' = committed /\ cons[c].pc = "commit" /\ Raise(c, FALSE)
  BY <1>1, <1>3, <1>4, RaiseStep DEF InHand
<1>5. CASE committed' = committed /\ cons[c].pc = "commitFailed" /\ Goto(c, "dead")
  <2> DEFINE k == [cons[c] EXCEPT !.pc = "dead"]
  <2>1. k \in Consumers /\ k.offset = cons[c].offset /\ k.pc = "dead"
    BY <1>1 DEF Consumers
  <2>2. cons' = [cons EXCEPT ![c] = k] /\ cons'[c] = k
    BY <1>1, <1>5 DEF Goto
  <2> HIDE DEF k
  <2>3. WorkIsSound(c)'
    BY <2>1, <2>2 DEF WorkIsSound, InHand
  <2> QED
    BY <1>1, <1>3, <1>5, <2>1, <2>2, <2>3, SilentStep
<1>6. CASE committed' = Committed(c) /\ Goto(c, "idle")
  <2> DEFINE k == [cons[c] EXCEPT !.pc = "idle"]
  <2>1. k \in Consumers /\ k.pc = "idle"
    BY <1>1 DEF Consumers
  <2>2. cons' = [cons EXCEPT ![c] = k]
    BY <1>6 DEF Goto
  <2> HIDE DEF k
  <2>3. cons'[c] = k /\ WorkIsSound(c)'
    BY <1>1, <2>1, <2>2 DEF WorkIsSound, InHand
  <2>4. /\ cons' \in [Consumer -> Consumers]
        /\ \A d \in Consumer : d # c => cons'[d] = cons[d]
        /\ \A d \in Consumer : WorkIsSound(d)'
        /\ \A i \in 1 .. committed : outcome'[i] # {}
    <3>1. \A i \in Offset : outcome[i] \subseteq outcome'[i]
      BY <1>1
    <3> QED
      BY <1>1, <2>1, <2>2, <2>3, <3>1, OthersStaySound
  <2>5. \/ committed' = committed /\ (owner = c => position = committed + 1)
        \/ /\ owner = c /\ position = committed + 2 /\ committed' = committed + 1
           /\ committed + 1 \in Offset /\ outcome[committed + 1] # {}
    BY <1>1, <1>6, CommittedIsNext
  <2>6. committed' \in 0 .. MaxOffset /\ \A i \in 1 .. committed' : outcome'[i] # {}
    BY <1>1, <2>4, <2>5, OffsetAssumption DEF IInv, TypeOK, Offset
  <2>7. TypeOK'
    BY <1>1, <1>3, <2>4, <2>6 DEF IInv, TypeOK
  <2>8. PositionIsNext'
    BY <1>1, <2>4, <2>5 DEF PositionIsNext, IInv, TypeOK
  <2>9. GradedFromEveryTurn' /\ ChargedIsGraded'
    BY <1>1 DEF IInv, GradedFromEveryTurn, ChargedIsGraded
  <2> QED
    BY <2>4, <2>6, <2>7, <2>8, <2>9 DEF IInv
<1> QED
  BY <1>4, <1>5, <1>6 DEF Commit, CommitFailed

\* The partition goes to another member, or all members start again.
LEMMA RestartStep ==
    ASSUME IInv, (\E c \in Consumer : Rebalance(c)) \/ Crash
    PROVE  IInv'
<1>1. /\ committed \in 0 .. MaxOffset /\ position' = committed + 1
      /\ UNCHANGED <<log, committed, charged, outcome>>
  BY DEF IInv, TypeOK, Rebalance, Crash
<1>2. faults' = faults \/ Fault
  BY DEF Rebalance, Crash
<1>3. faults' \in 0 .. MaxFaults
  BY <1>2, FaultsAssumption DEF Fault, IInv, TypeOK
<1>4. PositionIsNext'
  BY <1>1 DEF PositionIsNext
<1>5. position' \in 1 .. MaxOffset + 1
  BY <1>1, OffsetAssumption
<1>6. GradedFromEveryTurn' /\ ChargedIsGraded'
  BY <1>1 DEF IInv, GradedFromEveryTurn, ChargedIsGraded
<1>7. CASE \E c \in Consumer : Rebalance(c)
  <2>1. cons' = cons /\ usage' = usage /\ owner' \in Consumer
    BY <1>7 DEF Rebalance
  <2>2. TypeOK'
    BY <1>1, <1>3, <1>5, <2>1 DEF IInv, TypeOK
  <2>3. \A c \in Consumer : WorkIsSound(c)'
    BY <1>1, <2>1 DEF IInv, WorkIsSound, Graded
  <2> QED
    BY <1>1, <1>4, <1>6, <2>2, <2>3 DEF IInv
<1>8. CASE Crash
  <2>1. /\ cons' = [c \in Consumer |-> New] /\ usage' = {} /\ owner' \in Consumer
    BY <1>8 DEF Crash
  <2>2. New \in Consumers /\ New.pc = "idle"
    BY RetryAssumption, OffsetAssumption DEF New, Consumers, NoTurns, Grade
  <2>3. TypeOK'
    BY <1>1, <1>3, <1>5, <2>1, <2>2 DEF IInv, TypeOK
  <2>4. \A c \in Consumer : WorkIsSound(c)'
    BY <2>1, <2>2 DEF WorkIsSound, InHand
  <2> QED
    BY <1>1, <1>4, <1>6, <2>3, <2>4 DEF IInv
<1> QED
  BY <1>7, <1>8

\* A step that changes nothing.
LEMMA StutterStep ==
    ASSUME IInv, UNCHANGED vars
    PROVE  IInv'
<1>1. TypeOK' /\ PositionIsNext' /\ GradedFromEveryTurn' /\ ChargedIsGraded'
  BY DEF vars, IInv, TypeOK, PositionIsNext, GradedFromEveryTurn, ChargedIsGraded
<1>2. \A c \in Consumer : WorkIsSound(c)'
  BY DEF vars, IInv, WorkIsSound, Graded
<1>3. \A i \in 1 .. committed' : outcome'[i] # {}
  BY DEF vars, IInv
<1> QED
  BY <1>1, <1>2, <1>3 DEF IInv

\* Whatever a consumer does to its record, the names stay sound if its own do.
LEMMA NamesStep ==
    ASSUME IInv, NamesInv, NEW c \in Consumer, NEW k,
           cons' = [cons EXCEPT ![c] = k], log' = log, NamesAreSound(k)
    PROVE  NamesInv'
<1>1. Readable' = Readable
  BY DEF Readable
<1>2. \A d \in Consumer : cons'[d] = k \/ cons'[d] = cons[d]
  BY DEF IInv, TypeOK
<1>3. \A d \in Consumer : NamesAreSound(cons'[d])
  BY <1>2 DEF NamesInv
<1> QED
  BY <1>1, <1>3 DEF NamesInv, NamesAreSound

\* They do, if it keeps the ids, and the message once it has been read.
LEMMA NamesKept ==
    ASSUME IInv, NamesInv, NEW c \in Consumer, NEW k,
           cons' = [cons EXCEPT ![c] = k], log' = log,
           k.named = cons[c].named, k.bound = cons[c].bound,
           k.pc \in InHand \ {"read"}
              => cons[c].pc \in InHand \ {"read"} /\ k.offset = cons[c].offset
    PROVE  NamesInv'
<1>1. NamesAreSound(cons[c])
  BY DEF NamesInv
<1>2. NamesAreSound(k)
  BY <1>1 DEF NamesAreSound
<1> QED
  BY <1>2, NamesStep

\* A step to another point of the handler, or back to its start.
LEMMA NamesGoto ==
    ASSUME IInv, NamesInv, NEW c \in Consumer, NEW pc,
           cons[c].pc \in InHand \ {"read"}, Goto(c, pc), log' = log
    PROVE  NamesInv'
<1> DEFINE k == [cons[c] EXCEPT !.pc = pc]
<1>1. cons[c] \in Consumers
  BY DEF IInv, TypeOK
<1>2. k.named = cons[c].named /\ k.bound = cons[c].bound /\ k.offset = cons[c].offset
  BY <1>1 DEF Consumers
<1>3. cons' = [cons EXCEPT ![c] = k]
  BY DEF Goto
<1> HIDE DEF k
<1> QED
  BY <1>2, <1>3, NamesKept

LEMMA NamesRaise ==
    ASSUME IInv, NamesInv, NEW c \in Consumer, NEW terminal \in BOOLEAN,
           cons[c].pc \in InHand \ {"publishFailed", "commitFailed"},
           cons[c].pc = "read" => cons[c].offset \notin Readable,
           Raise(c, terminal), log' = log
    PROVE  NamesInv'
<1>1. PICK k : k = Failing(cons[c], terminal)
  OBVIOUS
<1>2. cons[c] \in Consumers /\ cons[c].retries <= MaxRetry
  BY DEF IInv, TypeOK, WorkIsSound
<1>3. k.named = cons[c].named /\ k.bound = cons[c].bound /\ k.offset = cons[c].offset
  BY <1>1, <1>2, FailingType
<1>4. cons' = [cons EXCEPT ![c] = k]
  BY <1>1 DEF Raise
<1>5. NamesAreSound(cons[c])
  BY DEF NamesInv
<1>6. NamesAreSound(k)
  BY <1>3, <1>5 DEF NamesAreSound
<1> QED
  BY <1>4, <1>6, NamesStep

\* Reading takes the ids of the message in hand, if it can be parsed.
LEMMA NamesRead ==
    ASSUME IInv, NamesInv, NEW c \in Consumer, Read(c) \/ ReadInvalid(c)
    PROVE  NamesInv'
<1>1. /\ cons[c] \in Consumers /\ cons[c].pc = "read" /\ cons[c].pc \in InHand
      /\ cons[c].offset \in Offset /\ cons[c].offset # 0 /\ log' = log
      /\ cons[c].retries <= MaxRetry
  <2>1. /\ cons[c] \in Consumers /\ WorkIsSound(c) /\ cons[c].pc = "read" /\ log' = log
    BY DEF IInv, TypeOK, Read, ReadInvalid
  <2>2. cons[c].pc \in InHand /\ cons[c].offset \in Offset /\ cons[c].retries <= MaxRetry
    BY <2>1 DEF WorkIsSound, InHand
  <2>3. 0 \notin Offset
    BY OffsetAssumption DEF Offset
  <2> QED
    BY <2>1, <2>2, <2>3
<1>2. CASE log[cons[c].offset] = "garbled"
  <2>1. cons[c].offset \notin Readable /\ Raise(c, FALSE)
    BY <1>2 DEF Readable, Read, ReadInvalid
  <2> QED
    BY <1>1, <2>1, NamesRaise DEF InHand
<1>3. CASE log[cons[c].offset] # "garbled"
  <2>1. cons[c].offset \in Readable
    BY <1>1, <1>3 DEF Readable
  <2>2. CASE cons' = [cons EXCEPT ![c] = Failing(Parsed(cons[c]), FALSE)]
    <3>1. PICK q : q = Parsed(cons[c])
      OBVIOUS
    <3>2. /\ q \in Consumers /\ q.offset = cons[c].offset /\ q.retries = cons[c].retries
          /\ q.named = cons[c].offset
      BY <1>1, <3>1, ParsedType
    <3>3. PICK k : k = Failing(q, FALSE)
      OBVIOUS
    <3>4. k.offset = cons[c].offset /\ k.named = cons[c].offset
      BY <1>1, <3>2, <3>3, FailingType
    <3>5. NamesAreSound(k)
      BY <1>1, <2>1, <3>4 DEF NamesAreSound
    <3> QED
      BY <1>1, <2>2, <3>1, <3>3, <3>5, NamesStep
  <2>3. CASE Read(c)
    <3>1. PICK q : q = Valid(cons[c])
      OBVIOUS
    <3>2. /\ q \in Consumers /\ q.offset = cons[c].offset /\ q.named = cons[c].offset
      BY <1>1, <3>1, ParsedType
    <3>3. PICK k : /\ \/ k = [q EXCEPT !.pc = "evaluate", !.turn = [t \in Turn |-> "running"]]
                      \/ k = [q EXCEPT !.pc = "publish"]
                   /\ cons' = [cons EXCEPT ![c] = k]
      BY <2>3, <3>1 DEF Read
    <3>4. k.offset = cons[c].offset /\ k.named = cons[c].offset
      BY <3>2, <3>3 DEF Consumers
    <3>5. NamesAreSound(k)
      BY <1>1, <2>1, <3>4 DEF NamesAreSound
    <3> QED
      BY <1>1, <3>3, <3>5, NamesStep
  <2> QED
    BY <1>3, <2>2, <2>3 DEF ReadInvalid
<1> QED
  BY <1>2, <1>3

\* Every other step of a consumer keeps the ids.
LEMMA NamesWork ==
    ASSUME IInv, NamesInv, NEW c \in Consumer, Work(c)
    PROVE  NamesInv'
<1>1. cons[c] \in Consumers
  BY DEF IInv, TypeOK
<1>2. CASE Receive(c)
  <2> DEFINE k == [New EXCEPT !.pc = "read", !.offset = position,
                              !.bound = cons[c].bound, !.named = cons[c].named]
  <2>1. k.named = cons[c].named /\ k.bound = cons[c].bound /\ k.pc = "read"
    BY DEF New
  <2>2. cons' = [cons EXCEPT ![c] = k] /\ log' = log
    BY <1>2 DEF Receive
  <2> HIDE DEF k
  <2> QED
    BY <2>1, <2>2, NamesKept
<1>3. CASE Read(c) \/ ReadInvalid(c)
  BY <1>3, NamesRead
<1>4. CASE BatchRetries(c)
  <2>1. PICK k : k = Retried(cons[c])
    OBVIOUS
  <2>2. /\ k.named = cons[c].named /\ k.bound = cons[c].bound
        /\ k.offset = cons[c].offset
    BY <1>1, <2>1 DEF Consumers, Retried
  <2>3. cons' = [cons EXCEPT ![c] = k] /\ log' = log /\ cons[c].pc \in InHand \ {"read"}
    BY <1>4, <2>1 DEF BatchRetries, InHand
  <2> QED
    BY <2>2, <2>3, NamesKept
<1>5. ASSUME NEW terminal \in BOOLEAN, Raise(c, terminal), log' = log,
             cons[c].pc \in InHand \ {"read", "publishFailed", "commitFailed"}
      PROVE  NamesInv'
  BY <1>5, NamesRaise
<1>6. ASSUME NEW pc, Goto(c, pc), log' = log, cons[c].pc \in InHand \ {"read"}
      PROVE  NamesInv'
  BY <1>6, NamesGoto
<1>7. CASE BatchFails(c)
  <2>1. PICK t \in Raised(c) : Raise(c, cons[c].turn[t] = "transient")
    BY <1>7 DEF BatchFails
  <2>2. (cons[c].turn[t] = "transient") \in BOOLEAN
    OBVIOUS
  <2>3. log' = log /\ cons[c].pc \in InHand \ {"read", "publishFailed", "commitFailed"}
    BY <1>7 DEF BatchFails, InHand
  <2> QED
    BY <1>5, <2>1, <2>2, <2>3
<1>8. CASE Aggregate(c) \/ Publish(c) \/ Commit(c)
  <2>1. log' = log /\ cons[c].pc \in InHand \ {"read", "publishFailed", "commitFailed"}
    BY <1>8 DEF Aggregate, Publish, Commit, InHand
  <2>2. Raise(c, FALSE) \/ \E pc : Goto(c, pc)
    BY <1>8 DEF Aggregate, Publish, Commit
  <2> QED
    BY <1>5, <1>6, <2>1, <2>2
<1>9. CASE BatchDone(c) \/ Flush(c) \/ PublishFailed(c) \/ Unbound(c) \/ CommitFailed(c)
  <2>1. log' = log /\ cons[c].pc \in InHand \ {"read"}
    BY <1>9 DEF BatchDone, Flush, PublishFailed, Unbound, CommitFailed, InHand
  <2>2. \E pc : Goto(c, pc)
    BY <1>9 DEF BatchDone, Flush, PublishFailed, Unbound, CommitFailed
  <2> QED
    BY <1>6, <2>1, <2>2
<1> QED
  BY <1>2, <1>3, <1>4, <1>7, <1>8, <1>9 DEF Work

\* So do the settling of a turn, a rebalance and a restart.
LEMMA NamesNext ==
    ASSUME IInv, NamesInv, [Next]_vars
    PROVE  NamesInv'
<1>1. ASSUME NEW c \in Consumer, NEW t \in Turn,
             NEW g \in {"ok", "transient", "broken"}, TurnSettles(c, t, g)
      PROVE  NamesInv'
  <2> DEFINE k == [cons[c] EXCEPT !.turn = [cons[c].turn EXCEPT ![t] = g]]
  <2>1. cons[c] \in Consumers
    BY DEF IInv, TypeOK
  <2>2. /\ k.named = cons[c].named /\ k.bound = cons[c].bound
        /\ k.offset = cons[c].offset
    BY <2>1 DEF Consumers
  <2>3. cons' = [cons EXCEPT ![c] = k] /\ log' = log /\ cons[c].pc \in InHand \ {"read"}
    BY <1>1 DEF TurnSettles, InHand
  <2> HIDE DEF k
  <2> QED
    BY <2>2, <2>3, NamesKept
<1>2. CASE Crash
  <2>1. cons' = [c \in Consumer |-> New]
    BY <1>2 DEF Crash
  <2> QED
    BY <2>1 DEF NamesInv, NamesAreSound, New, InHand
<1>3. CASE (\E c \in Consumer : Rebalance(c)) \/ UNCHANGED vars
  <2>1. cons' = cons /\ log' = log
    BY <1>3 DEF Rebalance, vars
  <2> QED
    BY <2>1 DEF NamesInv, NamesAreSound, Readable
<1> QED
  BY <1>1, <1>2, <1>3, NamesWork DEF Next

\* The invariant holds in every reachable state.
THEOREM Invariant == Spec => [](IInv /\ NamesInv)
<1>1. Init => NamesInv
  <2>1. NamesAreSound(New)
    BY DEF NamesAreSound, New, InHand
  <2>2. Init => \A c \in Consumer : cons[c] = New
    BY DEF Init
  <2> QED
    BY <2>1, <2>2 DEF NamesInv
<1>2. IInv /\ NamesInv /\ [Next]_vars => IInv' /\ NamesInv'
  <2> SUFFICES ASSUME IInv, NamesInv, [Next]_vars PROVE IInv'
    BY NamesNext
  <2>1. ASSUME NEW c \in Consumer, Work(c)
        PROVE  IInv'
    BY <2>1, ReceiveStep, ReadStep, BatchStep, AggregateStep, PublishStep, FlushStep,
       CommitStep, PublishFailedStep DEF Work
  <2>2. ASSUME NEW c \in Consumer, NEW t \in Turn,
               NEW g \in {"ok", "transient", "broken"}, TurnSettles(c, t, g)
        PROVE  IInv'
    BY <2>2, BatchStep
  <2>3. CASE (\E c \in Consumer : Rebalance(c)) \/ Crash
    BY <2>3, RestartStep
  <2>4. CASE UNCHANGED vars
    BY <2>4, StutterStep
  <2> QED
    BY <2>1, <2>2, <2>3, <2>4 DEF Next
<1> QED
  BY <1>1, <1>2, InitIInv, PTL DEF Spec

\* The types of the variables, of which IInv is the strengthening.
THEOREM TypeCorrect == Spec => []TypeOK
<1>1. IInv => TypeOK
  BY DEF IInv
<1> QED
  BY <1>1, Invariant, PTL

\* A spoken answer is completed from the results of all of its turns: however
\* often turns and messages are retried, none is left out.
THEOREM NoTurnIsLeftOut == Spec => []GradedFromEveryTurn
<1>1. IInv => GradedFromEveryTurn
  BY DEF IInv
<1> QED
  BY <1>1, Invariant, PTL

\* No answer is charged that did not get its result (exam_consumer.py:1043).
THEOREM ChargeFollowsResult == Spec => []ChargedIsGraded
<1>1. IInv => ChargedIsGraded
  BY DEF IInv
<1> QED
  BY <1>1, Invariant, PTL

\* Every step of the consumers is a step of the ledger: it publishes a verdict,
\* moves the offset over a message that has one, or changes neither.
LEMMA LedgerStep ==
    ASSUME IInv, NamesInv, [Next]_vars
    PROVE  [Ledger!Next]_<<Readable, outcome, committed>>
<1>0. log' = log /\ Readable' = Readable
  BY DEF Next, Work, Receive, Read, ReadInvalid, BatchRetries, BatchFails, BatchDone,
         Aggregate, Publish, Flush, Commit, PublishFailed, Unbound, CommitFailed,
         TurnSettles, Rebalance, Crash, vars, Readable
<1>1. outcome \in [Offset -> SUBSET Verdict]
  BY DEF IInv, TypeOK
<1>2. CASE UNCHANGED <<outcome, committed>>
  BY <1>0, <1>2
<1>3. ASSUME NEW c \in Consumer, Publish(c)
      PROVE  [Ledger!Next]_<<Readable, outcome, committed>>
  <2> DEFINE v == [kind |-> "completed", turns |-> Graded(c), about |-> cons[c].offset]
             i == cons[c].offset
  <2>1. i \in Offset /\ v \in Verdict /\ v.about = i
    BY <1>3 DEF IInv, WorkIsSound, Publish, InHand, Verdict, Graded
  <2>2. committed' = committed
        /\ (outcome' = outcome \/ outcome' = [outcome EXCEPT ![i] = @ \cup {v}])
    BY <1>3 DEF Publish
  <2> HIDE DEF v, i
  <2> QED
    BY <1>0, <2>1, <2>2 DEF Ledger!Next, Ledger!Publish
<1>4. ASSUME NEW c \in Consumer, PublishFailed(c)
      PROVE  [Ledger!Next]_<<Readable, outcome, committed>>
  <2> DEFINE v == FailedEvent(c)
             i == cons[c].offset
  <2>1. /\ i \in Offset /\ v \in Verdict /\ v.kind = "failed" /\ v.about \in Readable
        /\ i \in Readable => v.about = i
    BY <1>4, FailedEventType DEF IInv, WorkIsSound, PublishFailed, InHand
  <2>2. committed' = committed
        /\ (outcome' = outcome \/ outcome' = [outcome EXCEPT ![i] = @ \cup {v}])
    BY <1>4 DEF PublishFailed
  <2> HIDE DEF v, i
  <2> QED
    BY <1>0, <2>1, <2>2 DEF Ledger!Next, Ledger!Publish
<1>5. ASSUME NEW c \in Consumer, Commit(c) \/ CommitFailed(c)
      PROVE  [Ledger!Next]_<<Readable, outcome, committed>>
  <2>1. /\ cons[c].pc \in {"commit", "commitFailed"} /\ outcome' = outcome
        /\ committed' = committed \/ committed' = Committed(c)
    BY <1>5 DEF Commit, CommitFailed
  <2>2. \/ committed' = committed
        \/ /\ committed' = committed + 1
           /\ committed + 1 \in Offset /\ outcome[committed + 1] # {}
    BY <2>1, CommittedIsNext
  <2> QED
    BY <1>0, <2>1, <2>2 DEF Ledger!Next, Ledger!Commit
<1>6. ASSUME NEW c \in Consumer,
             \/ Receive(c) \/ Read(c) \/ ReadInvalid(c) \/ BatchRetries(c)
             \/ BatchFails(c) \/ BatchDone(c) \/ Aggregate(c) \/ Flush(c) \/ Unbound(c)
             \/ Rebalance(c)
      PROVE  UNCHANGED <<outcome, committed>>
  BY <1>6 DEF Receive, Read, ReadInvalid, BatchRetries, BatchFails, BatchDone, Aggregate,
              Flush, Unbound, Rebalance
<1>7. ASSUME NEW c \in Consumer, NEW t \in Turn,
             NEW g \in {"ok", "transient", "broken"}, TurnSettles(c, t, g)
      PROVE  UNCHANGED <<outcome, committed>>
  BY <1>7 DEF TurnSettles
<1>8. CASE Crash \/ UNCHANGED vars
  BY <1>2, <1>8 DEF Crash, vars
<1> QED
  BY <1>2, <1>3, <1>4, <1>5, <1>6, <1>7, <1>8 DEF Next, Work

\* The consumers implement the ledger: through failures, rebalances and crashes
\* the offset passes only messages whose event is out, and never moves back, and
\* an event about another message than the one it was published for is the Failed
\* event of one that could not be parsed (exam_consumer.py:1050).
THEOREM LedgerIsKept == Spec => LedgerSpec
<1>1. Init => Ledger!Init
  BY DEF Init, Ledger!Init, Readable
<1>2. IInv /\ NamesInv /\ [Next]_vars => [Ledger!Next]_(Ledger!vars)
  BY LedgerStep DEF Ledger!vars
<1> QED
  BY <1>1, <1>2, Invariant, PTL DEF Spec, LedgerSpec, Ledger!Spec
=============================================================================
