------------------------- MODULE PracticeConnection -------------------------
(***************************************************************************)
(* A practice session: PracticeAttemptConnection, its coordinator and the   *)
(* background task _after_turn that corrects, saves and goes on             *)
(* (realtime/practice_attempt).                                             *)
(*                                                                         *)
(* The Java side is modelled from how it is used: it records submitted      *)
(* turns, and next-question gives the newest question of the paper as long  *)
(* as no turn of it was recorded, and otherwise adds one.  Nobody archives  *)
(* practice turns: of an answer's thread only the snapshot of the question  *)
(* and the transcripts of its turns are ever written.                       *)
(***************************************************************************)
EXTENDS Integers

CONSTANTS MaxQuestion,  \* questions of the paper, in the order they are given
          MaxTurn,      \* bound on the turns of a question
          MaxConn,      \* bound on the connections of the session
          MaxFaults,    \* bound on what goes wrong
          Trouble       \* what may go wrong, see AllTrouble

\* A submit or a next-question call that fails; the 30 seconds of a background
\* task; a connection or the process that is lost; the student going on before the
\* correction of a turn came.
AllTrouble == {"submit", "next", "timeout", "lost", "unpaced"}

ASSUME BoundAssumption ==
    /\ MaxQuestion \in Nat \ {0} /\ MaxTurn \in Nat \ {0} /\ MaxConn \in Nat \ {0}
    /\ MaxFaults \in Nat
ASSUME TroubleAssumption == Trouble \subseteq AllTrouble

VARIABLES
    client,       \* the app: its connection, the question shown, what it waits for
    pc,           \* per connection, what its frame loop is at
    active,       \* per connection, the active question, 0 for none
    session,      \* per connection and question, the session object
    tasks,        \* the _after_turn tasks under way
    prefetch,     \* per connection, whether a prefetch is under way
    transcripts,  \* the turns with a transcript in the answer's thread (durable)
    current,      \* current_answer_id (durable)
    newest,       \* Java: the newest question of the paper
    submits,      \* Java: how often a turn was submitted
    pushed,       \* history: how often a question was pushed to the app
    faults,       \* bound: how much has gone wrong
    hit           \* history: the kinds of trouble met, and "back", see Resume

vars == <<client, pc, active, session, tasks, prefetch, transcripts, current,
          newest, submits, pushed, faults, hit>>
java == <<newest, submits>>
luck == <<faults, hit>>

Question == 1 .. MaxQuestion
Turn     == 1 .. MaxTurn
Conn     == 1 .. MaxConn

\* last: Java said it is the last question; turns: the turns completed.
Session == [turns : 0 .. MaxTurn, last : BOOLEAN]
NoSession == [turns |-> 0, last |-> FALSE]
Task == [conn : Conn, q : Question, turn : Turn, continue : BOOLEAN,
         pc : {"correct", "submit", "resolve", "push"},
         sent : 0 .. MaxTurn,        \* the turn in the payload
         attempt : 1 .. 3,
         next : 0 .. MaxQuestion]    \* the question resolved

TypeOK ==
    /\ client \in [conn : 0 .. MaxConn, q : Question,
                   phase : {"answering", "told", "waiting", "over"}]
    /\ pc \in [Conn -> {"unused", "idle", "deciding", "recovering", "closed"}]
    /\ active \in [Conn -> 0 .. MaxQuestion]
    /\ session \in [Conn -> [Question -> Session]]
    /\ tasks \subseteq Task
    /\ prefetch \in [Conn -> BOOLEAN]
    /\ transcripts \in [Question -> SUBSET Turn]
    /\ current \in Question
    /\ newest \in Question
    /\ submits \in [Question -> [Turn -> 0 .. 2]]
    /\ pushed \in [Question -> 0 .. 2]
    /\ faults \in 0 .. MaxFaults
    /\ hit \subseteq Trouble \cup {"back"}

\* The first question was started on the first connection.
Init ==
    /\ client = [conn |-> 1, q |-> 1, phase |-> "answering"]
    /\ pc = [k \in Conn |-> IF k = 1 THEN "idle" ELSE "unused"]
    /\ active = [k \in Conn |-> IF k = 1 THEN 1 ELSE 0]
    /\ session = [k \in Conn |-> [q \in Question |-> NoSession]]
    /\ tasks = {}
    /\ prefetch = [k \in Conn |-> FALSE]
    /\ transcripts = [q \in Question |-> {}]
    /\ current = 1 /\ newest = 1
    /\ submits = [q \in Question |-> [n \in Turn |-> 0]]
    /\ pushed = [q \in Question |-> IF q = 1 THEN 1 ELSE 0]
    /\ faults = 0
    /\ hit = {}

-----------------------------------------------------------------------------
Capped(n) == IF n < 2 THEN n + 1 ELSE n

Fault(kind) ==
    /\ kind \in Trouble /\ faults < MaxFaults
    /\ faults' = faults + 1
    /\ hit' = hit \cup {kind}

\* A message on connection k reaches the app unless it has left it.
Tell(k, new) == client' = IF client.conn = k THEN new ELSE client

\* Mutated form of Goto: the task is started over as another one.
GotoKeeps(t, new) == tasks' = tasks \cup {new}

Goto(t, new) == tasks' = (tasks \ {t}) \cup {new}
Done(t)      == tasks' = tasks \ {t}

\* Java records a turn.
Record(q, n) ==
    submits' = IF n = 0 THEN submits ELSE [submits EXCEPT ![q][n] = Capped(@)]

\* Java: the question a next-question call gives, 0 for no_more_questions.
NextQuestion ==
    IF \A n \in Turn : submits[newest][n] = 0 THEN newest
    ELSE IF newest < MaxQuestion THEN newest + 1 ELSE 0

Advance(q) == newest' = IF q = 0 THEN newest ELSE q

-----------------------------------------------------------------------------
\* turn_end: its text is taken and stored; the decision takes a while.
TurnEnd(k) ==
    /\ client.conn = k /\ pc[k] = "idle" /\ active[k] # 0
    /\ \/ client.phase = "answering" /\ UNCHANGED luck
       \/ client.phase = "told" /\ Fault("unpaced")
    /\ LET q == active[k]
           n == session[k][q].turns + 1
       IN /\ n \in Turn
          /\ transcripts' = [transcripts EXCEPT ![q] = @ \cup {n}]
    /\ pc' = [pc EXCEPT ![k] = "deciding"]
    /\ client' = [client EXCEPT !.phase = "waiting"]
    /\ UNCHANGED <<active, session, tasks, prefetch, current, java, pushed>>

\* The decision is there: the turn is completed, and _after_turn is spawned.
Decide(k, continue) ==
    /\ pc[k] \in {"deciding", "recovering"}
    /\ LET q == active[k]
           n == session[k][q].turns + 1
       IN /\ session' = [session EXCEPT ![k][q].turns = n]
          /\ tasks' = tasks \cup {[conn |-> k, q |-> q, turn |-> n, continue |-> continue,
                                   pc |-> "correct", sent |-> 0, attempt |-> 1, next |-> 0]}
    /\ pc' = [pc EXCEPT ![k] = "idle"]
    /\ Tell(k, [client EXCEPT !.phase = IF continue THEN "told" ELSE "waiting"])
    /\ UNCHANGED <<active, prefetch, transcripts, current, java, pushed, luck>>

-----------------------------------------------------------------------------
\* Correction and upload are done, or have failed; the payload is built from the
\* last turn the session has by now.
Corrected(t) ==
    /\ t.pc = "correct"
    /\ Goto(t, [t EXCEPT !.pc = "submit", !.sent = session[t.conn][t.q].turns])
    /\ UNCHANGED <<client, pc, active, session, prefetch, transcripts, current, java,
                   pushed, luck>>

\* The turn was saved: the correction is sent, and the session goes on.
Submitted(t) ==
    /\ t.pc = "submit"
    /\ Record(t.q, t.sent)
    /\ LET k == t.conn
           last == session[k][t.q].last
       IN \/ /\ t.continue
             /\ Tell(k, [client EXCEPT !.phase = IF @ = "told" THEN "answering" ELSE @])
             /\ prefetch' = [prefetch EXCEPT ![k] = @ \/ ~last]
             /\ Done(t)
          \/ /\ ~t.continue /\ last
             /\ Tell(k, [client EXCEPT !.phase = "over"])
             /\ Done(t) /\ UNCHANGED prefetch
          \/ /\ ~t.continue /\ ~last
             /\ Goto(t, [t EXCEPT !.pc = "resolve"])
             /\ UNCHANGED <<client, prefetch>>
    /\ UNCHANGED <<pc, active, session, transcripts, current, newest, pushed, luck>>

\* The quota is used up, with the turn recorded or (409) without.
QuotaExceeded(t) ==
    /\ t.pc = "submit"
    /\ Record(t.q, t.sent) \/ UNCHANGED submits
    /\ Tell(t.conn, [client EXCEPT !.phase = "over"])
    /\ Done(t)
    /\ UNCHANGED <<pc, active, session, prefetch, transcripts, current, newest,
                   pushed, luck>>

\* The attempts of one submit are one fault.
AttemptFails(t) == IF t.attempt = 1 THEN Fault("submit") ELSE UNCHANGED luck

\* Mutated forms of SubmitFails: after the last attempt it goes on as if the turn
\* was saved, or says nothing.
SubmitFailsGoesOn(t) ==
    /\ t.pc = "submit"
    /\ AttemptFails(t)
    /\ Record(t.q, t.sent) \/ UNCHANGED submits
    /\ IF t.attempt < 3
       THEN Goto(t, [t EXCEPT !.attempt = @ + 1])
       ELSE Goto(t, [t EXCEPT !.pc = "resolve"])
    /\ UNCHANGED <<client, pc, active, session, prefetch, transcripts, current, newest,
                   pushed>>

SubmitFailsSilently(t) ==
    /\ t.pc = "submit"
    /\ AttemptFails(t)
    /\ Record(t.q, t.sent) \/ UNCHANGED submits
    /\ IF t.attempt < 3 THEN Goto(t, [t EXCEPT !.attempt = @ + 1]) ELSE Done(t)
    /\ UNCHANGED <<client, pc, active, session, prefetch, transcripts, current, newest,
                   pushed>>

\* A submit that fails, although it may have been recorded, is tried three times.
SubmitFails(t) ==
    /\ t.pc = "submit"
    /\ AttemptFails(t)
    /\ Record(t.q, t.sent) \/ UNCHANGED submits
    /\ \/ /\ t.attempt < 3
          /\ Goto(t, [t EXCEPT !.attempt = @ + 1])
          /\ UNCHANGED client
       \/ /\ t.attempt = 3
          /\ Tell(t.conn, [client EXCEPT !.phase = "over"])
          /\ Done(t)
    /\ UNCHANGED <<pc, active, session, prefetch, transcripts, current, newest, pushed>>

\* next-question answers; its question gets a session right away.
Resolved(t) ==
    /\ t.pc = "resolve"
    /\ LET q == NextQuestion
           k == t.conn
       IN /\ Advance(q)
          /\ \/ /\ q = 0
                /\ Tell(k, [client EXCEPT !.phase = "over"])
                /\ Done(t) /\ UNCHANGED <<active, session>>
             \/ /\ q # 0
                /\ active' = [active EXCEPT ![k] = q]
                /\ \E last \in BOOLEAN :
                      session' = [session EXCEPT ![k][q] = [turns |-> 0, last |-> last]]
                /\ Goto(t, [t EXCEPT !.pc = "push", !.next = q])
                /\ UNCHANGED client
    /\ UNCHANGED <<pc, prefetch, transcripts, current, submits, pushed, luck>>

\* It fails for good, or Java did its part and the answer is lost (one retry).
ResolveFails(t) ==
    /\ t.pc = "resolve"
    /\ Fault("next")
    /\ \/ /\ Tell(t.conn, [client EXCEPT !.phase = "over"])
          /\ Done(t) /\ UNCHANGED newest
       \/ Advance(NextQuestion) /\ UNCHANGED <<client, tasks>>
    /\ UNCHANGED <<pc, active, session, prefetch, transcripts, current, submits, pushed>>

\* Mutated form of Push: the app is looked up and reached on whatever connection it has.
PushToTheApp(t) ==
    /\ t.pc = "push"
    /\ current' = t.next
    /\ Tell(client.conn, [client EXCEPT !.q = t.next, !.phase = "answering"])
    /\ pushed' = IF client.conn # 0 THEN [pushed EXCEPT ![t.next] = Capped(@)] ELSE pushed
    /\ Done(t)
    /\ UNCHANGED <<pc, active, session, prefetch, transcripts, java, luck>>

\* The new question is stored as the current one, and pushed.
Push(t) ==
    /\ t.pc = "push"
    /\ current' = t.next
    /\ Tell(t.conn, [client EXCEPT !.q = t.next, !.phase = "answering"])
    /\ pushed' = IF client.conn = t.conn THEN [pushed EXCEPT ![t.next] = Capped(@)]
                 ELSE pushed
    /\ Done(t)
    /\ UNCHANGED <<pc, active, session, prefetch, transcripts, java, luck>>

\* The prefetch ends; its result and its failure are ignored.
Prefetched(k) ==
    /\ prefetch[k]
    /\ prefetch' = [prefetch EXCEPT ![k] = FALSE]
    /\ \/ Advance(NextQuestion) /\ UNCHANGED luck
       \/ Fault("next") /\ UNCHANGED newest
    /\ UNCHANGED <<client, pc, active, session, tasks, transcripts, current, submits, pushed>>

-----------------------------------------------------------------------------
\* A request under way when its caller ends may or may not have reached Java.
Reached(t) ==
    \/ UNCHANGED java
    \/ t.pc = "submit" /\ Record(t.q, t.sent) /\ UNCHANGED newest
    \/ t.pc = "resolve" /\ Advance(NextQuestion) /\ UNCHANGED submits

\* spawn's time-out cancels a task, wherever it is.
TaskTimesOut(t) ==
    /\ Fault("timeout")
    /\ Done(t)
    /\ Reached(t)
    /\ UNCHANGED <<client, pc, active, session, prefetch, transcripts, current, pushed>>

\* Bound: the last connection is not lost.
ConnectionLost == Fault("lost") /\ \E k \in Conn : pc[k] = "unused"

\* The app loses its connection; tasks and the handler at work go on.
Disconnect ==
    /\ client.conn # 0 /\ client.phase # "over"
    /\ ConnectionLost
    /\ client' = [client EXCEPT !.conn = 0]
    /\ UNCHANGED <<pc, active, session, tasks, prefetch, transcripts, current, java, pushed>>

\* The frame loop comes to the end of a lost connection; tasks keep their session.
Close(k) ==
    /\ client.conn # k /\ pc[k] = "idle"
    /\ pc' = [pc EXCEPT ![k] = "closed"]
    /\ active' = [active EXCEPT ![k] = 0]
    /\ UNCHANGED <<client, session, tasks, prefetch, transcripts, current, java, pushed, luck>>

\* The process dies, with one request at most under way.
Crash ==
    /\ ConnectionLost
    /\ UNCHANGED java \/ \E t \in tasks : Reached(t)
    /\ client' = [client EXCEPT !.conn = 0]
    /\ tasks' = {}
    /\ pc' = [k \in Conn |-> IF pc[k] = "unused" THEN "unused" ELSE "closed"]
    /\ active' = [k \in Conn |-> 0]
    /\ prefetch' = [k \in Conn |-> FALSE]
    /\ UNCHANGED <<session, transcripts, current, pushed>>

\* A new connection resumes the question the app shows, or the current one.  Its
\* session has no turns, so the first turn is what it recovers, if it was ended.
\* history: the app may come back in a question before one it was shown.
Resume(k) ==
    /\ client.conn = 0 /\ client.phase # "over" /\ pc[k] = "unused"
    /\ \A j \in 1 .. k - 1 : pc[j] # "unused"
    /\ \E q \in {client.q, current} :
          /\ active' = [active EXCEPT ![k] = q]
          /\ session' = [session EXCEPT ![k][q] = NoSession]
          /\ client' = [conn |-> k, q |-> q,
                        phase |-> IF 1 \in transcripts[q] THEN "waiting" ELSE "answering"]
          /\ pc' = [pc EXCEPT ![k] = IF 1 \in transcripts[q] THEN "recovering" ELSE "idle"]
          /\ hit' = IF \E p \in Question : p > q /\ pushed[p] > 0 THEN hit \cup {"back"} ELSE hit
    /\ UNCHANGED <<tasks, prefetch, transcripts, current, java, pushed, faults>>

TaskStep(t) ==
    \/ Corrected(t) \/ Submitted(t) \/ QuotaExceeded(t) \/ SubmitFails(t)
    \/ Resolved(t) \/ ResolveFails(t) \/ Push(t)

Next ==
    \/ \E k \in Conn :
          \/ TurnEnd(k) \/ Prefetched(k) \/ Close(k) \/ Resume(k)
          \/ \E continue \in BOOLEAN : Decide(k, continue)
    \/ \E t \in tasks : TaskStep(t) \/ TaskTimesOut(t)
    \/ Disconnect \/ Crash

Spec == Init /\ [][Next]_vars

\* The event loop runs handlers and tasks, whose calls return or time out.
Fairness ==
    /\ \A k \in Conn : WF_vars(\E continue \in BOOLEAN : Decide(k, continue))
    /\ WF_vars(\E t \in tasks : TaskStep(t))
FairSpec == Spec /\ Fairness
-----------------------------------------------------------------------------
(* Properties *)

\* What _after_turn says it prevents: that the session "silently advance past a turn
\* that was never recorded" (connection.py:283).  A turn ended in a question before
\* the one pushed is recorded, or a task of its question is still at it.
NeverPassedBy ==
    \A q \in Question : pushed[q] > 0 =>
        \A p \in 1 .. q - 1 : \A n \in transcripts[p] :
            submits[p][n] > 0 \/ \E t \in tasks : t.q = p

\* While the app waits for each correction and no connection is lost, every such turn
\* is recorded by then, although submits fail, are retried, lose their answers and
\* time out.  A resumed session starts over at turn 1.
RecordedBeforeNext ==
    hit \cap {"lost", "unpaced"} = {} =>
        \A q \in Question : pushed[q] > 0 =>
            \A p \in 1 .. q - 1 : \A n \in transcripts[p] : submits[p][n] > 0

\* Prefetches, lost answers, retries and the tasks of an old connection never make a
\* question come twice, unless the app came back in an earlier one, nor be left out: it
\* was pushed, or is what a resumed app shows.
AskedOnceInOrder ==
    \A q \in Question : /\ pushed[q] <= 1 \/ "back" \in hit
                        /\ pushed[q] > 0 =>
                              \A p \in 1 .. q - 1 : pushed[p] > 0 \/ transcripts[p] # {}

\* A turn is submitted, and its cost charged, once, unless a submit failed, the app
\* went on early or came back: nothing else repeats it.
SubmittedOnce ==
    \A q \in Question, n \in Turn :
        submits[q][n] > 1 => hit \cap {"submit", "lost", "unpaced"} # {}

\* Every turn ends in a correction, a next question or the end of the session, until
\* a task times out or the connection is lost.
Cut == hit \cap {"timeout", "lost"} # {}
EveryTurnGoesOn ==
    client.phase \in {"told", "waiting"} ~> client.phase \in {"answering", "over"} \/ Cut

\* What current-answer is for: "which answer_id (question) this practice session was
\* last on" (practice_realtime_controller.py:26).
CurrentIsLastOn == current >= client.q

\* What _handle_resume says of the turn it recovers: "correction/submit/
\* resolve-next-question never happened for that turn" (connection.py:593).
RecoveredWasNotSubmitted ==
    [][\A k \in Conn : pc[k] = "unused" /\ pc'[k] = "recovering" =>
          submits[active'[k]][1] = 0]_vars
=============================================================================
