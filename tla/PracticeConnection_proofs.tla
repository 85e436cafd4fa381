----------------------- MODULE PracticeConnection_proofs -----------------------
(***************************************************************************)
(* For any number of questions, turns, connections and faults: no question *)
(* of a practice session is left out, and none comes twice unless the app  *)
(* came back in an earlier one; and as long as the student is paced and    *)
(* the connection lasts, every turn is recorded before the next question,  *)
(* once.                                                                   *)
(***************************************************************************)
EXTENDS PracticeConnection, TLAPS

Deciding(k) == pc[k] \in {"deciding", "recovering"}
Recorded(q) == \E n \in Turn : submits[q][n] > 0

\* A connection that decides about a turn has no task that may go on to the next
\* question; one that was never used has no task at all.
HandlerInv ==
    \A k \in Conn :
        /\ Deciding(k) => /\ active[k] \in Question /\ transcripts[active[k]] # {}
                          /\ session[k][active[k]].turns < MaxTurn
                          /\ \A t \in tasks : t.conn = k => t.continue
                          /\ client.conn = k => client.phase \in {"waiting", "over"}
        /\ pc[k] = "unused" => client.conn # k /\ \A t \in tasks : t.conn # k

\* No connection has two tasks that go on, and the app waits for the one of its own.
TaskInv ==
    /\ \A t, u \in tasks : t.conn = u.conn /\ ~ t.continue /\ ~ u.continue => t = u
    /\ \A t \in tasks :
          /\ transcripts[t.q] # {}
          /\ t.pc \in {"resolve", "push"} => ~ t.continue
          /\ t.pc = "push" => t.next \in Question
          /\ t.conn = client.conn /\ ~ t.continue => client.phase \in {"waiting", "over"}

\* Of the paper, whatever is shown or under way was given, and each question but
\* the newest has a recorded turn, which was ended.
PaperInv ==
    /\ \A q \in Question : pushed[q] > 0 => q <= newest
    /\ client.q <= newest /\ current <= newest
    /\ \A k \in Conn : active[k] <= newest
    /\ \A t \in tasks : t.q <= newest /\ t.next <= newest
    /\ \A p \in Question : p < newest => Recorded(p)
    /\ \A p \in Question : Recorded(p) => transcripts[p] # {}

\* The tasks of the app's connection are about what it shows: the one that goes on
\* is about this very question, and brings one after it.
OwnTask(t) ==
    /\ t.q <= client.q /\ session[t.conn][t.q].turns > 0
    /\ ~ t.continue => t.q = client.q
    /\ t.pc = "submit" => t.sent > 0
    /\ t.pc = "resolve" => Recorded(t.q)
    /\ t.pc = "push" => t.next > client.q /\ active[t.conn] = t.next

AppInv ==
    /\ client.conn # 0 /\ (client.phase \in {"answering", "told"} \/ Deciding(client.conn)) =>
          active[client.conn] = client.q
    /\ \A t \in tasks : t.conn = client.conn => OwnTask(t)

\* Unless it came back, the app is at the last question it was shown.
PushedInv ==
    "back" \notin hit => \A q \in Question : pushed[q] > 0 => q <= client.q /\ pushed[q] = 1

IInv == TypeOK /\ HandlerInv /\ TaskInv /\ PaperInv /\ AppInv /\ PushedInv

\* While the student is paced and the connection lasts, there is one connection, and one
\* thing under way on it: the student, a decision or a task.  Of the question shown, only
\* the turn that this is about may be not recorded, of the earlier ones none.
Calm  == hit \cap {"lost", "unpaced"} = {}
Turns == session[1][client.q].turns
Unsaved(n) == /\ n = Turns /\ pc[1] = "idle" /\ client.phase # "answering"
              /\ \A t \in tasks : t.pc \in {"correct", "submit"}

OneThing ==
    /\ client.conn = 1 /\ pc[1] \in {"idle", "deciding"}
    /\ \A k \in Conn : k # 1 => pc[k] = "unused"
    /\ \A t, u \in tasks : t = u
    /\ pc[1] = "deciding" \/ client.phase = "answering" => tasks = {}
    /\ \A t \in tasks : t.q = client.q /\ (t.pc = "submit" => t.sent = Turns)

AllSaved ==
    /\ "back" \notin hit
    /\ \A p \in Question : p < client.q => \A n \in transcripts[p] : submits[p][n] > 0
    /\ \A n \in transcripts[client.q] :
          submits[client.q][n] > 0 \/ (n = Turns + 1 /\ pc[1] = "deciding") \/ Unsaved(n)

Untouched ==
    /\ \A p \in Question : p > client.q => /\ transcripts[p] = {} /\ session[1][p].turns = 0
                                          /\ \A n \in Turn : submits[p][n] = 0
    /\ \A n \in Turn : n > Turns => submits[client.q][n] = 0

\* Unless a submit failed, each turn is submitted by one task, once.
Once ==
    "submit" \notin hit =>
        /\ \A q \in Question, n \in Turn : submits[q][n] <= 1
        /\ \A t \in tasks : t.pc \in {"correct", "submit"} =>
              t.attempt = 1 /\ \A n \in Turn : n = Turns => submits[client.q][n] = 0

CalmInv == Calm => OneThing /\ AllSaved /\ Untouched /\ Once

-----------------------------------------------------------------------------
(***************************************************************************)
(* What a step may do to Java: it gives and records more, and each question *)
(* it is past has a recorded turn.                                          *)
(***************************************************************************)
JavaStep ==
    /\ newest' \in Question /\ newest <= newest'
    /\ submits' \in [Question -> [Turn -> 0 .. 2]]
    /\ \A p \in Question : Recorded(p) => Recorded(p)'
    /\ \A p \in Question : Recorded(p)' => transcripts[p] # {}
    /\ \A p \in Question : p < newest' => Recorded(p)'

LEMMA JavaStays == ASSUME IInv, UNCHANGED java PROVE JavaStep
<1>1. newest' = newest /\ submits' = submits
  BY DEF java
<1>2. \A p \in Question : Recorded(p)' <=> Recorded(p)
  BY <1>1 DEF Recorded
<1>3. newest \in Nat /\ newest <= newest
  BY DEF IInv, TypeOK, Question
<1> QED
  BY <1>1, <1>2, <1>3 DEF IInv, TypeOK, PaperInv, JavaStep

LEMMA JavaRecords ==
    ASSUME IInv, NEW t \in tasks, NEW n \in 0 .. MaxTurn, Record(t.q, n), newest' = newest
    PROVE  JavaStep /\ (n > 0 => Recorded(t.q)')
<1>1. t.q \in Question /\ transcripts[t.q] # {}
  BY DEF IInv, TypeOK, Task, TaskInv
<1>2. CASE n = 0
  BY <1>2 DEF IInv, TypeOK, PaperInv, JavaStep, Record, Recorded, Question
<1>3. CASE n # 0
  <2>1. n \in Turn /\ n > 0
    BY <1>3, BoundAssumption DEF Turn
  <2>2. submits' = [submits EXCEPT ![t.q][n] = Capped(submits[t.q][n])]
    BY <1>3 DEF Record
  <2>0. submits[t.q][n] \in 0 .. 2
    BY <1>1, <2>1 DEF IInv, TypeOK
  <2>3. Capped(submits[t.q][n]) \in 0 .. 2 /\ Capped(submits[t.q][n]) > 0
    BY <2>0 DEF Capped
  <2>4. submits' \in [Question -> [Turn -> 0 .. 2]]
    BY <1>1, <2>1, <2>2, <2>3 DEF IInv, TypeOK
  <2>5. Recorded(t.q)'
    BY <1>1, <2>1, <2>2, <2>3 DEF IInv, TypeOK, Recorded
  <2>6. \A p \in Question : p # t.q => submits'[p] = submits[p]
    BY <1>1, <2>1, <2>2 DEF IInv, TypeOK
  <2>7. \A p \in Question : p # t.q => (Recorded(p) <=> Recorded(p)')
    BY <2>6 DEF Recorded
  <2>8. newest' \in Question /\ newest <= newest'
    BY DEF IInv, TypeOK, Question
  <2> QED
    BY <1>1, <2>4, <2>5, <2>7, <2>8 DEF IInv, PaperInv, JavaStep
<1> QED
  BY <1>2, <1>3

\* A next-question call gives the newest question, which has no recorded turn, or
\* the one after it.
LEMMA NextIsNew ==
    ASSUME IInv
    PROVE  \/ NextQuestion = 0
           \/ NextQuestion = newest /\ ~ Recorded(newest)
           \/ NextQuestion = newest + 1 /\ newest + 1 \in Question /\ Recorded(newest)
<1>1. newest \in 1 .. MaxQuestion /\ submits \in [Question -> [Turn -> 0 .. 2]]
  BY DEF IInv, TypeOK, Question
<1>2. CASE \A n \in Turn : submits[newest][n] = 0
  BY <1>1, <1>2 DEF NextQuestion, Recorded, Question
<1>3. CASE ~ \A n \in Turn : submits[newest][n] = 0
  <2>1. PICK n \in Turn : submits[newest][n] # 0
    BY <1>3
  <2>2. submits[newest][n] > 0
    BY <1>1, <2>1 DEF Question
  <2>3. Recorded(newest)
    BY <2>2 DEF Recorded
  <2>4. newest < MaxQuestion => newest + 1 \in Question
    BY <1>1, BoundAssumption DEF Question
  <2>5. NextQuestion = IF newest < MaxQuestion THEN newest + 1 ELSE 0
    BY <1>3 DEF NextQuestion
  <2> QED
    BY <2>3, <2>4, <2>5
<1> QED
  BY <1>2, <1>3

LEMMA JavaAdvances ==
    ASSUME IInv, Advance(NextQuestion), submits' = submits
    PROVE  /\ JavaStep
           /\ NextQuestion # 0 => /\ NextQuestion = newest' /\ NextQuestion \in Question
                                  /\ \A p \in Question : p <= newest /\ Recorded(p) => p < newest'
<1>1. newest \in 1 .. MaxQuestion /\ submits \in [Question -> [Turn -> 0 .. 2]]
  BY DEF IInv, TypeOK, Question
<1>2. \A p \in Question : Recorded(p)' <=> Recorded(p)
  BY DEF Recorded
<1>3. \A p \in Question : p < newest => Recorded(p)
  BY DEF IInv, PaperInv
<1>4. \A p \in Question : Recorded(p) => transcripts[p] # {}
  BY DEF IInv, PaperInv
<1>5. CASE NextQuestion = 0
  BY <1>1, <1>2, <1>3, <1>4, <1>5 DEF Advance, JavaStep, Question
<1>6. CASE NextQuestion = newest /\ ~ Recorded(newest)
  BY <1>1, <1>2, <1>3, <1>4, <1>6 DEF Advance, JavaStep, Question
<1>7. CASE NextQuestion = newest + 1 /\ newest + 1 \in Question /\ Recorded(newest)
  <2>1. newest' = newest + 1
    BY <1>1, <1>7 DEF Advance
  <2>2. \A p \in Question : p < newest + 1 => Recorded(p)
    BY <1>1, <1>3, <1>7 DEF Question
  <2>3. JavaStep
    BY <1>1, <1>2, <1>4, <1>7, <2>1, <2>2 DEF JavaStep
  <2>4. \A p \in Question : p <= newest => p < newest'
    BY <1>1, <2>1 DEF Question
  <2> QED
    BY <2>1, <2>3, <2>4, <1>7
<1> QED
  BY <1>5, <1>6, <1>7, NextIsNew

(***************************************************************************)
(* Types.                                                                  *)
(***************************************************************************)
Client == [conn : 0 .. MaxConn, q : Question, phase : {"answering", "told", "waiting", "over"}]

LEMMA NoBack == "back" \notin Trouble
BY TroubleAssumption DEF AllTrouble

LEMMA FaultType ==
    ASSUME TypeOK, NEW kind, Fault(kind)
    PROVE  faults' \in 0 .. MaxFaults /\ hit' \subseteq Trouble \cup {"back"} /\ hit \subseteq hit'
BY BoundAssumption DEF TypeOK, Fault

LEMMA LuckType ==
    ASSUME TypeOK, UNCHANGED luck
    PROVE  faults' \in 0 .. MaxFaults /\ hit' \subseteq Trouble \cup {"back"} /\ hit \subseteq hit'
BY DEF TypeOK, luck

LEMMA TellType ==
    ASSUME TypeOK, NEW k \in Conn, NEW new \in Client, Tell(k, new) PROVE client' \in Client
BY DEF TypeOK, Tell, Client

LEMMA PhaseType ==
    ASSUME TypeOK, NEW p \in {"answering", "told", "waiting", "over"}
    PROVE  [client EXCEPT !.phase = p] \in Client
BY DEF TypeOK, Client

LEMMA SessionType == NoSession \in Session
BY BoundAssumption DEF NoSession, Session

LEMMA InitType == Init => TypeOK
<1> SUFFICES ASSUME Init PROVE TypeOK
  OBVIOUS
<1>1. 1 \in Question /\ 1 \in Conn /\ 1 \in 0 .. MaxConn /\ 0 \in 0 .. MaxQuestion
      /\ 1 \in 0 .. MaxQuestion /\ 0 \in 0 .. MaxFaults
  BY BoundAssumption DEF Question, Conn
<1>2. client \in [conn : 0 .. MaxConn, q : Question,
                  phase : {"answering", "told", "waiting", "over"}]
  BY <1>1 DEF Init
<1>3. session \in [Conn -> [Question -> Session]]
  BY SessionType DEF Init
<1>4. /\ transcripts \in [Question -> SUBSET Turn] /\ pushed \in [Question -> 0 .. 2]
      /\ submits \in [Question -> [Turn -> 0 .. 2]]
  BY DEF Init
<1>5. /\ pc \in [Conn -> {"unused", "idle", "deciding", "recovering", "closed"}]
      /\ active \in [Conn -> 0 .. MaxQuestion] /\ prefetch \in [Conn -> BOOLEAN]
  BY <1>1 DEF Init
<1>6. current \in Question /\ newest \in Question /\ faults \in 0 .. MaxFaults
      /\ hit \subseteq Trouble \cup {"back"} /\ tasks \subseteq Task
  BY <1>1 DEF Init
<1> QED
  BY <1>2, <1>3, <1>4, <1>5, <1>6 DEF TypeOK

LEMMA TurnEndType == ASSUME IInv, NEW k \in Conn, TurnEnd(k) PROVE TypeOK'
<1> USE DEF IInv
<1>1. faults' \in 0 .. MaxFaults /\ hit' \subseteq Trouble \cup {"back"}
  BY FaultType, LuckType DEF TurnEnd
<1>2. client' \in Client
  BY PhaseType DEF TurnEnd
<1>3. transcripts' \in [Question -> SUBSET Turn]
  BY DEF TurnEnd, TypeOK, Question
<1>4. pc' \in [Conn -> {"unused", "idle", "deciding", "recovering", "closed"}]
  BY DEF TurnEnd, TypeOK
<1> QED
  BY <1>1, <1>2, <1>3, <1>4 DEF TurnEnd, TypeOK, Client, java

LEMMA DecideType ==
    ASSUME IInv, NEW k \in Conn, NEW continue \in BOOLEAN, Decide(k, continue) PROVE TypeOK'
<1> USE DEF IInv
<1>1. active[k] \in Question /\ session[k][active[k]].turns < MaxTurn
  BY DEF Decide, HandlerInv, Deciding
<1>2. session[k][active[k]] \in Session
  BY <1>1 DEF TypeOK
<1>3. session[k][active[k]].turns + 1 \in Turn /\ session[k][active[k]].turns + 1 \in 0 .. MaxTurn
  BY <1>1, <1>2, BoundAssumption DEF Session, Turn
<1>4. [session[k][active[k]] EXCEPT !.turns = session[k][active[k]].turns + 1] \in Session
  BY <1>2, <1>3 DEF Session
<1>5. session' = [session EXCEPT ![k][active[k]] =
                     [session[k][active[k]] EXCEPT !.turns = session[k][active[k]].turns + 1]]
  BY DEF Decide
<1>6. session' \in [Conn -> [Question -> Session]]
  BY <1>1, <1>4, <1>5 DEF TypeOK
<1>7. tasks' \subseteq Task
  <2>1. [conn |-> k, q |-> active[k], turn |-> session[k][active[k]].turns + 1,
         continue |-> continue, pc |-> "correct", sent |-> 0, attempt |-> 1, next |-> 0] \in Task
    BY <1>1, <1>3, BoundAssumption DEF Task
  <2> QED
    BY <2>1 DEF Decide, TypeOK
<1>8. client' \in Client
  BY PhaseType, TellType DEF Decide
<1>9. pc' \in [Conn -> {"unused", "idle", "deciding", "recovering", "closed"}]
  BY DEF Decide, TypeOK
<1> QED
  BY <1>6, <1>7, <1>8, <1>9, LuckType DEF Decide, TypeOK, Client, java

\* A task goes from one await to the next, or ends.
Follows(t, u) ==
    /\ u \in Task /\ u.pc \in {"submit", "resolve"}
    /\ u.conn = t.conn /\ u.q = t.q /\ u.continue = t.continue /\ u.next = t.next
    /\ u.pc = "resolve" => ~ u.continue
    /\ t.conn = client.conn => /\ u.pc = "submit" => u.sent > 0
                               /\ u.pc = "resolve" => Recorded(u.q)'

TasksGoOn ==
    \/ tasks' \subseteq tasks
    \/ \E t \in tasks, u \in Task : Follows(t, u) /\ tasks' = (tasks \ {t}) \cup {u}

\* What most steps of a task do: Java may record or give more, the app hears at most that
\* it may go on, or that the session is over.
QuietStep ==
    /\ JavaStep /\ TasksGoOn
    /\ client' \in Client /\ client'.conn = client.conn /\ client'.q = client.q
    /\ \/ client'.phase = client.phase \/ client'.phase = "over"
       \/ client'.phase = "answering" /\ client.phase = "told"
    /\ prefetch' \in [Conn -> BOOLEAN]
    /\ faults' \in 0 .. MaxFaults /\ hit' \subseteq Trouble \cup {"back"} /\ hit \subseteq hit'
    /\ UNCHANGED <<pc, active, session, transcripts, current, pushed>>

LEMMA TaskFields ==
    ASSUME IInv, NEW t \in tasks
    PROVE  /\ t \in Task /\ t.conn \in Conn /\ t.conn # 0 /\ t.q \in Question
           /\ t.next \in 0 .. MaxQuestion /\ t.sent \in 0 .. MaxTurn /\ t.continue \in BOOLEAN
           /\ session[t.conn][t.q] \in Session /\ session[t.conn][t.q].turns \in 0 .. MaxTurn
BY DEF IInv, TypeOK, Task, Session, Conn

\* Each task there is now was there before, under its last state.
LEMMA TaskBefore ==
    ASSUME IInv, TasksGoOn, JavaStep, NEW v \in tasks'
    PROVE  \E t \in tasks : /\ v.conn = t.conn /\ v.q = t.q /\ v.next = t.next
                            /\ v.continue = t.continue
                            /\ v = t \/ Follows(t, v)
<1>1. CASE v \in tasks
  BY <1>1
<1>2. CASE v \notin tasks
  BY <1>2 DEF TasksGoOn, Follows
<1> QED
  BY <1>1, <1>2

LEMMA QuietKeeps == ASSUME IInv, QuietStep PROVE IInv'
<1> USE DEF IInv
<1>1. TypeOK'
  <2>1. tasks' \subseteq Task
    BY DEF QuietStep, TasksGoOn, TypeOK
  <2> QED
    BY <2>1 DEF TypeOK, QuietStep, JavaStep, Client
<1>2. HandlerInv'
  <2>1. \A v \in tasks' : \E t \in tasks : v.conn = t.conn /\ v.continue = t.continue
    BY TaskBefore DEF QuietStep
  <2> QED
    BY <2>1 DEF HandlerInv, Deciding, QuietStep
<1>3. TaskInv'
  <2>1. ASSUME NEW v \in tasks', NEW w \in tasks', v.conn = w.conn, ~ v.continue, ~ w.continue
        PROVE  v = w
    <3>1. CASE tasks' \subseteq tasks
      BY <2>1, <3>1 DEF TaskInv
    <3>2. CASE \E t \in tasks, u \in Task : Follows(t, u) /\ tasks' = (tasks \ {t}) \cup {u}
      <4>1. PICK t \in tasks, u \in Task : Follows(t, u) /\ tasks' = (tasks \ {t}) \cup {u}
        BY <3>2
      <4> QED
        BY <2>1, <4>1 DEF TaskInv, Follows
    <3> QED
      BY <3>1, <3>2 DEF QuietStep, TasksGoOn
  <2>2. ASSUME NEW v \in tasks'
        PROVE  /\ transcripts'[v.q] # {}
               /\ v.pc \in {"resolve", "push"} => ~ v.continue
               /\ v.pc = "push" => v.next \in Question
               /\ v.conn = client'.conn /\ ~ v.continue => client'.phase \in {"waiting", "over"}
    <3>1. PICK t \in tasks : /\ v.conn = t.conn /\ v.q = t.q /\ v.next = t.next
                             /\ v.continue = t.continue
                             /\ v = t \/ Follows(t, v)
      BY TaskBefore DEF QuietStep
    <3> QED
      BY <3>1 DEF TaskInv, Follows, QuietStep
  <2> QED
    BY <2>1, <2>2 DEF TaskInv
<1>4. PaperInv'
  <2>1. \A v \in tasks' : v.q <= newest' /\ v.next <= newest'
    <3>1. \A t \in tasks : t.q <= newest' /\ t.next <= newest'
      BY TaskFields DEF PaperInv, QuietStep, JavaStep, TypeOK, Question
    <3> QED
      BY <3>1, TaskBefore DEF QuietStep
  <2>2. \A q \in Question : pushed'[q] > 0 => q <= newest'
    BY DEF PaperInv, QuietStep, JavaStep, TypeOK, Question
  <2>3. client'.q <= newest' /\ current' <= newest'
    BY DEF PaperInv, QuietStep, JavaStep, TypeOK, Question
  <2>4. \A k \in Conn : active'[k] <= newest'
    BY DEF PaperInv, QuietStep, JavaStep, TypeOK, Question
  <2> QED
    BY <2>1, <2>2, <2>3, <2>4 DEF PaperInv, QuietStep, JavaStep
<1>5. AppInv'
  <2>1. ASSUME NEW v \in tasks', v.conn = client'.conn PROVE OwnTask(v)'
    <3>1. PICK t \in tasks : /\ v.conn = t.conn /\ v.q = t.q /\ v.next = t.next
                             /\ v.continue = t.continue
                             /\ v = t \/ Follows(t, v)
      BY TaskBefore DEF QuietStep
    <3>2. OwnTask(t)
      BY <2>1, <3>1 DEF AppInv, QuietStep
    <3>3. Recorded(t.q) => Recorded(t.q)'
      BY TaskFields DEF QuietStep, JavaStep
    <3> QED
      BY <2>1, <3>1, <3>2, <3>3 DEF OwnTask, Follows, QuietStep
  <2> QED
    BY <2>1 DEF AppInv, QuietStep, Deciding
<1>6. PushedInv'
  BY DEF PushedInv, QuietStep
<1> QED
  BY <1>1, <1>2, <1>3, <1>4, <1>5, <1>6

(***************************************************************************)
(* The steps that are quiet.                                               *)
(***************************************************************************)
\* What the app hears of a task.
Hears == /\ client' \in Client /\ client'.conn = client.conn /\ client'.q = client.q
         /\ \/ client'.phase = client.phase \/ client'.phase = "over"
            \/ client'.phase = "answering" /\ client.phase = "told"

LEMMA HearsNothing == ASSUME IInv, client' = client PROVE Hears
BY DEF IInv, TypeOK, Client, Hears

LEMMA HearsOver ==
    ASSUME IInv, NEW k \in Conn, Tell(k, [client EXCEPT !.phase = "over"]) PROVE Hears
BY DEF IInv, TypeOK, Client, Hears, Tell

LEMMA HearsCorrection ==
    ASSUME IInv, NEW k \in Conn,
           Tell(k, [client EXCEPT !.phase = IF client.phase = "told" THEN "answering" ELSE client.phase])
    PROVE  Hears
BY DEF IInv, TypeOK, Client, Hears, Tell

LEMMA DoneGoesOn == ASSUME NEW t, Done(t) PROVE TasksGoOn
BY DEF Done, TasksGoOn

LEMMA GotoGoesOn ==
    ASSUME NEW t \in tasks, NEW u \in Task, Goto(t, u), Follows(t, u) PROVE TasksGoOn
BY DEF Goto, TasksGoOn

\* The luck of a step whose fault is one of the known kinds, or none.
LEMMA LuckKept ==
    ASSUME IInv, UNCHANGED luck \/ \E kind \in Trouble : Fault(kind)
    PROVE  faults' \in 0 .. MaxFaults /\ hit' \subseteq Trouble \cup {"back"} /\ hit \subseteq hit'
BY FaultType, LuckType DEF IInv

LEMMA FaultIsTrouble == ASSUME NEW kind, Fault(kind) PROVE \E j \in Trouble : Fault(j)
BY DEF Fault

LEMMA CorrectedQuiet == ASSUME IInv, NEW t \in tasks, Corrected(t) PROVE QuietStep
<1> DEFINE u == [t EXCEPT !.pc = "submit", !.sent = session[t.conn][t.q].turns]
<1>1. u \in Task
  BY TaskFields DEF Task
<1>2. t.conn = client.conn => u.sent > 0
  BY TaskFields DEF IInv, AppInv, OwnTask, Task
<1>3. Follows(t, u)
  BY <1>1, <1>2, TaskFields DEF Follows, Task
<1>4. TasksGoOn
  BY <1>1, <1>3, GotoGoesOn DEF Corrected
<1>5. JavaStep
  BY JavaStays DEF Corrected
<1>6. Hears
  BY HearsNothing DEF Corrected
<1> QED
  BY <1>4, <1>5, <1>6, LuckKept DEF Corrected, QuietStep, Hears, IInv, TypeOK

LEMMA SubmittedQuiet == ASSUME IInv, NEW t \in tasks, Submitted(t) PROVE QuietStep
<1>1. JavaStep /\ (t.sent > 0 => Recorded(t.q)')
  BY TaskFields, JavaRecords DEF Submitted
<1>2. t.conn \in Conn
  BY TaskFields
<1>3. prefetch' \in [Conn -> BOOLEAN]
  <2>1. \A b, c \in BOOLEAN : (b \/ c) \in BOOLEAN
    BY Zenon
  <2>2. prefetch[t.conn] \in BOOLEAN /\ (~ session[t.conn][t.q].last) \in BOOLEAN
    BY <1>2 DEF IInv, TypeOK
  <2>3. (prefetch[t.conn] \/ ~ session[t.conn][t.q].last) \in BOOLEAN
    BY <2>1, <2>2
  <2>4. \/ prefetch' = prefetch
        \/ prefetch' = [prefetch EXCEPT ![t.conn] = prefetch[t.conn] \/ ~ session[t.conn][t.q].last]
    BY DEF Submitted
  <2> QED
    BY <1>2, <2>3, <2>4 DEF IInv, TypeOK
<1>4. CASE t.continue
  <2>1. Hears /\ TasksGoOn
    BY <1>2, <1>4, HearsCorrection, DoneGoesOn DEF Submitted
  <2> QED
    BY <1>1, <1>3, <2>1, LuckKept DEF Submitted, QuietStep, Hears
<1>5. CASE ~ t.continue /\ session[t.conn][t.q].last
  <2>1. Hears /\ TasksGoOn
    BY <1>2, <1>5, HearsOver, DoneGoesOn DEF Submitted
  <2> QED
    BY <1>1, <1>3, <2>1, LuckKept DEF Submitted, QuietStep, Hears
<1>6. CASE ~ t.continue /\ ~ session[t.conn][t.q].last
  <2> DEFINE u == [t EXCEPT !.pc = "resolve"]
  <2>1. u \in Task
    BY TaskFields DEF Task
  <2>2. t.conn = client.conn => Recorded(t.q)'
    BY <1>1 DEF IInv, AppInv, OwnTask, Submitted
  <2>3. Recorded(t.q)' => Recorded(u.q)'
    <3>1. u.q = t.q
      BY TaskFields DEF Task
    <3> QED
      BY <3>1
  <2>4. Follows(t, u)
    BY <1>6, <2>1, <2>2, <2>3, TaskFields DEF Follows, Task
  <2>5. TasksGoOn
    BY <1>6, <2>1, <2>4, GotoGoesOn DEF Submitted
  <2>6. Hears
    BY <1>6, HearsNothing DEF Submitted
  <2> QED
    BY <1>1, <1>3, <2>5, <2>6, LuckKept DEF Submitted, QuietStep, Hears
<1> QED
  BY <1>4, <1>5, <1>6

LEMMA QuotaQuiet == ASSUME IInv, NEW t \in tasks, QuotaExceeded(t) PROVE QuietStep
<1>1. JavaStep
  BY TaskFields, JavaRecords, JavaStays DEF QuotaExceeded, java
<1>2. Hears /\ TasksGoOn
  BY TaskFields, HearsOver, DoneGoesOn DEF QuotaExceeded
<1> QED
  BY <1>1, <1>2, LuckKept DEF QuotaExceeded, QuietStep, Hears, IInv, TypeOK

LEMMA SubmitFailsQuiet == ASSUME IInv, NEW t \in tasks, SubmitFails(t) PROVE QuietStep
<1>1. JavaStep
  BY TaskFields, JavaRecords, JavaStays DEF SubmitFails, java
<1>2. UNCHANGED luck \/ \E kind \in Trouble : Fault(kind)
  BY FaultIsTrouble DEF SubmitFails, AttemptFails
<1>3. Hears /\ TasksGoOn
  <2>1. CASE t.attempt = 3
    BY <2>1, TaskFields, HearsOver, DoneGoesOn DEF SubmitFails
  <2>2. CASE t.attempt < 3
    <3> DEFINE u == [t EXCEPT !.attempt = t.attempt + 1]
    <3>1. u \in Task
      BY <2>2, TaskFields DEF Task
    <3>2. Follows(t, u)
      BY <3>1, TaskFields DEF Follows, Task, SubmitFails, IInv, AppInv, OwnTask
    <3> QED
      BY <2>2, <3>1, <3>2, HearsNothing, GotoGoesOn DEF SubmitFails
  <2> QED
    BY <2>1, <2>2 DEF SubmitFails
<1> QED
  BY <1>1, <1>2, <1>3, LuckKept DEF SubmitFails, QuietStep, Hears, IInv, TypeOK

LEMMA ResolveFailsQuiet == ASSUME IInv, NEW t \in tasks, ResolveFails(t) PROVE QuietStep
<1>1. JavaStep
  BY JavaAdvances, JavaStays DEF ResolveFails, java
<1>2. \E kind \in Trouble : Fault(kind)
  BY FaultIsTrouble DEF ResolveFails
<1>3. Hears /\ TasksGoOn
  BY TaskFields, HearsOver, HearsNothing, DoneGoesOn DEF ResolveFails, TasksGoOn
<1> QED
  BY <1>1, <1>2, <1>3, LuckKept DEF ResolveFails, QuietStep, Hears, IInv, TypeOK

LEMMA PrefetchedQuiet == ASSUME IInv, NEW k \in Conn, Prefetched(k) PROVE QuietStep
<1>1. JavaStep
  BY JavaAdvances, JavaStays DEF Prefetched, java
<1>2. UNCHANGED luck \/ \E kind \in Trouble : Fault(kind)
  BY FaultIsTrouble DEF Prefetched
<1>3. Hears /\ TasksGoOn
  BY HearsNothing DEF Prefetched, TasksGoOn
<1> QED
  BY <1>1, <1>2, <1>3, LuckKept DEF Prefetched, QuietStep, Hears, IInv, TypeOK

LEMMA ReachedJava == ASSUME IInv, NEW t \in tasks, Reached(t) PROVE JavaStep
BY TaskFields, JavaStays, JavaRecords, JavaAdvances DEF Reached

LEMMA TimesOutQuiet == ASSUME IInv, NEW t \in tasks, TaskTimesOut(t) PROVE QuietStep
<1>1. JavaStep
  BY ReachedJava DEF TaskTimesOut
<1>2. \E kind \in Trouble : Fault(kind)
  BY FaultIsTrouble DEF TaskTimesOut
<1>3. Hears /\ TasksGoOn
  BY HearsNothing, DoneGoesOn DEF TaskTimesOut
<1> QED
  BY <1>1, <1>2, <1>3, LuckKept DEF TaskTimesOut, QuietStep, Hears, IInv, TypeOK

(***************************************************************************)
(* The other steps.                                                        *)
(***************************************************************************)
\* What the paper needs of a step.
LEMMA PaperKept ==
    ASSUME IInv, JavaStep, pushed' \in [Question -> 0 .. 2],
           \A q \in Question : transcripts[q] # {} => transcripts'[q] # {},
           \A q \in Question : pushed'[q] > 0 => pushed[q] > 0 \/ q <= newest',
           client'.q <= newest', current' <= newest',
           \A k \in Conn : active'[k] <= newest',
           \A t \in tasks' : t.q <= newest' /\ t.next <= newest'
    PROVE  PaperInv'
<1>1. newest \in Int /\ newest' \in Int /\ newest <= newest' /\ \A q \in Question : q \in Int
  BY DEF IInv, TypeOK, JavaStep, Question
<1>2. \A q \in Question : pushed[q] > 0 => q <= newest
  BY DEF IInv, PaperInv
<1>3. \A q \in Question : pushed'[q] > 0 => q <= newest'
  BY <1>1, <1>2
<1> QED
  BY <1>3 DEF PaperInv, JavaStep

LEMMA PaperStays ==
    ASSUME IInv, JavaStep
    PROVE  /\ client.q <= newest' /\ current <= newest'
           /\ \A k \in Conn : active[k] <= newest'
           /\ \A t \in tasks : t.q <= newest' /\ t.next <= newest'
BY TaskFields DEF IInv, TypeOK, PaperInv, JavaStep, Question

LEMMA TurnEndKeeps == ASSUME IInv, NEW k \in Conn, TurnEnd(k) PROVE IInv'
<1> USE DEF IInv
<1> DEFINE q == active[k]
<1>1. /\ q \in Question /\ q = client.q /\ session[k][q].turns < MaxTurn
      /\ session[k][q].turns + 1 \in Turn
  <2>1. q \in Question
    BY DEF TurnEnd, TypeOK, Question
  <2>2. session[k][q].turns \in 0 .. MaxTurn
    BY <2>1 DEF TypeOK, Session
  <2>3. q = client.q
    BY DEF TurnEnd, AppInv, Conn
  <2> QED
    BY <2>1, <2>2, <2>3, BoundAssumption DEF TurnEnd, Turn
<1>2. /\ \A p \in Question : transcripts[p] # {} => transcripts'[p] # {}
      /\ transcripts'[q] # {}
  BY <1>1 DEF TurnEnd, TypeOK
<1>3. client'.phase = "waiting" /\ client'.conn = k /\ client'.q = client.q /\ client.conn = k
  BY DEF TurnEnd, TypeOK
<1>4. \A t \in tasks : t.conn = k => t.continue
  BY DEF TurnEnd, TaskInv
<1>5. HandlerInv'
  BY <1>1, <1>2, <1>3, <1>4, TaskFields DEF TurnEnd, HandlerInv, Deciding, TypeOK
<1>6. TaskInv'
  BY <1>2, <1>3, TaskFields DEF TurnEnd, TaskInv
<1>7. JavaStep
  BY JavaStays DEF TurnEnd
<1>8. PaperInv'
  BY <1>2, <1>3, <1>7, PaperKept, PaperStays DEF TurnEnd, TypeOK
<1>9. AppInv'
  BY <1>1, <1>3 DEF TurnEnd, AppInv, OwnTask, Recorded, java
<1>10. hit \subseteq hit'
  BY FaultType, LuckType DEF TurnEnd
<1>11. PushedInv'
  BY <1>3, <1>10 DEF TurnEnd, PushedInv
<1> QED
  BY TurnEndType, <1>5, <1>6, <1>8, <1>9, <1>11

LEMMA DecideKeeps ==
    ASSUME IInv, NEW k \in Conn, NEW continue \in BOOLEAN, Decide(k, continue) PROVE IInv'
<1> USE DEF IInv
<1> DEFINE q == active[k]
           n == session[k][q].turns + 1
           new == [conn |-> k, q |-> q, turn |-> n, continue |-> continue,
                   pc |-> "correct", sent |-> 0, attempt |-> 1, next |-> 0]
<1>1. /\ q \in Question /\ transcripts[q] # {} /\ Deciding(k)
      /\ \A t \in tasks : t.conn = k => t.continue
      /\ client.conn = k => q = client.q
  BY DEF Decide, HandlerInv, Deciding, AppInv, Conn
<1>2. /\ tasks' = tasks \cup {new} /\ new.conn = k /\ new.q = q /\ new.pc = "correct"
      /\ new.continue = continue /\ new.next = 0
  BY DEF Decide
<1>3. /\ session' \in [Conn -> [Question -> Session]]
      /\ session'[k][q].turns = n /\ n > 0
      /\ \A j \in Conn, p \in Question : j # k \/ p # q => session'[j][p] = session[j][p]
  <2>1. TypeOK'
    BY DecideType
  <2>2. session[k][q] \in Session /\ n > 0
    BY <1>1 DEF TypeOK, Session
  <2>3. session' = [session EXCEPT ![k][q] = [session[k][q] EXCEPT !.turns = n]]
    BY DEF Decide
  <2>4. session'[k][q] = [session[k][q] EXCEPT !.turns = n]
    BY <1>1, <2>3 DEF TypeOK
  <2>5. session'[k][q].turns = n
    BY <2>2, <2>4 DEF Session
  <2>6. \A j \in Conn, p \in Question : j # k \/ p # q => session'[j][p] = session[j][p]
    BY <1>1, <2>3 DEF TypeOK
  <2> QED
    BY <2>1, <2>2, <2>5, <2>6 DEF TypeOK
<1>4. /\ client'.conn = client.conn /\ client'.q = client.q
      /\ client.conn # k => client' = client
      /\ client.conn = k /\ ~ continue => client'.phase = "waiting"
  BY DEF Decide, Tell, TypeOK
<1>5. pc' = [pc EXCEPT ![k] = "idle"]
  BY DEF Decide
<1>6. HandlerInv'
  <2>1. ASSUME NEW j \in Conn, Deciding(j)' PROVE j # k /\ Deciding(j)
    BY <1>5, <2>1 DEF Deciding, TypeOK
  <2>2. ASSUME NEW j \in Conn, Deciding(j)'
        PROVE  /\ active'[j] \in Question /\ transcripts'[active'[j]] # {}
               /\ session'[j][active'[j]].turns < MaxTurn
               /\ \A t \in tasks' : t.conn = j => t.continue
               /\ client'.conn = j => client'.phase \in {"waiting", "over"}
    BY <1>2, <1>3, <1>4, <2>1, <2>2 DEF HandlerInv, Decide
  <2>3. ASSUME NEW j \in Conn, pc'[j] = "unused"
        PROVE  client'.conn # j /\ \A t \in tasks' : t.conn # j
    BY <1>2, <1>4, <1>5, <2>3 DEF HandlerInv, TypeOK
  <2> QED
    BY <2>2, <2>3 DEF HandlerInv
<1>7. TaskInv'
  BY <1>1, <1>2, <1>4 DEF TaskInv, Decide
<1>8. JavaStep
  BY JavaStays DEF Decide
<1>9. PaperInv'
  <2>1. \A t \in tasks' : t.q <= newest' /\ t.next <= newest'
    BY <1>2, <1>8, PaperStays DEF JavaStep, Question
  <2> QED
    BY <1>4, <1>8, <2>1, PaperKept, PaperStays DEF Decide, TypeOK
<1>10. AppInv'
  <2>1. ASSUME NEW t \in tasks', t.conn = client'.conn PROVE OwnTask(t)'
    <3>1. CASE t = new
      BY <1>1, <1>2, <1>3, <1>4, <2>1, <3>1 DEF OwnTask, Decide, TypeOK, Question
    <3>2. CASE t \in tasks
      <4>1. OwnTask(t)
        BY <1>4, <2>1, <3>2 DEF AppInv
      <4>2. session'[t.conn][t.q].turns > 0
        BY <1>3, <3>2, <4>1, TaskFields DEF OwnTask
      <4> QED
        BY <1>4, <4>1, <4>2 DEF OwnTask, Decide, Recorded, java
    <3> QED
      BY <1>2, <3>1, <3>2
  <2>2. (client.conn # 0 /\ (client.phase \in {"answering", "told"} \/ Deciding(client.conn)) =>
            active[client.conn] = client.q)'
    <3>1. CASE client.conn = k
      BY <1>1, <1>4, <3>1 DEF Decide
    <3>2. CASE client.conn # k
      <4>1. client.conn # 0 => (Deciding(client.conn)' <=> Deciding(client.conn))
        <5>1. client.conn # 0 => pc'[client.conn] = pc[client.conn]
          BY <1>5, <3>2 DEF TypeOK, Conn
        <5> QED
          BY <1>4, <5>1 DEF Deciding
      <4> QED
        BY <1>4, <3>2, <4>1 DEF AppInv, Decide, Deciding
    <3> QED
      BY <3>1, <3>2
  <2> QED
    BY <2>1, <2>2 DEF AppInv
<1>11. PushedInv'
  BY <1>4, LuckType DEF Decide, PushedInv
<1> QED
  BY DecideType, <1>6, <1>7, <1>9, <1>10, <1>11

LEMMA ResolvedKeeps == ASSUME IInv, NEW t \in tasks, Resolved(t) PROVE IInv'
<1> USE DEF IInv
<1> DEFINE q == NextQuestion
           k == t.conn
           u == [t EXCEPT !.pc = "push", !.next = q]
<1>1. JavaStep /\ (q # 0 => /\ q = newest' /\ q \in Question
                            /\ \A p \in Question : p <= newest /\ Recorded(p) => p < newest')
  BY JavaAdvances DEF Resolved
<1>2. CASE q = 0
  <2>1. Hears /\ TasksGoOn
    BY <1>2, TaskFields, HearsOver, DoneGoesOn DEF Resolved
  <2>2. QuietStep
    BY <1>1, <1>2, <2>1, LuckKept DEF Resolved, QuietStep, Hears, TypeOK
  <2> QED
    BY <2>2, QuietKeeps
<1>3. CASE q # 0
  <2>1. /\ k \in Conn /\ ~ t.continue /\ q \in Question /\ q = newest' /\ ~ Deciding(k)
        /\ pc[k] # "unused"
    BY <1>1, <1>3, TaskFields DEF Resolved, TaskInv, HandlerInv
  <2>2. /\ u \in Task /\ u.conn = k /\ u.q = t.q /\ u.pc = "push" /\ u.next = q
        /\ ~ u.continue
    <3>1. q \in 0 .. MaxQuestion
      BY <2>1, BoundAssumption DEF Question
    <3> QED
      BY <2>1, <3>1, TaskFields DEF Task
  <2>3. /\ tasks' = (tasks \ {t}) \cup {u} /\ client' = client /\ hit' = hit
        /\ UNCHANGED <<pc, transcripts, current, pushed>>
        /\ active' = [active EXCEPT ![k] = q]
    BY <1>3 DEF Resolved, Goto, luck
  <2> HIDE DEF u
  <2>4. /\ session' \in [Conn -> [Question -> Session]]
        /\ \A j \in Conn, p \in Question : j # k \/ p # q => session'[j][p] = session[j][p]
    <3>1. PICK last \in BOOLEAN :
              session' = [session EXCEPT ![k][q] = [turns |-> 0, last |-> last]]
      BY <1>3 DEF Resolved
    <3>2. [turns |-> 0, last |-> last] \in Session
      BY BoundAssumption DEF Session
    <3> QED
      BY <2>1, <3>1, <3>2 DEF TypeOK
  <2>5. TypeOK'
    <3>1. tasks' \subseteq Task
      BY <2>2, <2>3 DEF TypeOK
    <3>2. active' \in [Conn -> 0 .. MaxQuestion]
      BY <2>1, <2>3 DEF TypeOK, Question
    <3> QED
      BY <1>1, <2>3, <2>4, <3>1, <3>2 DEF TypeOK, Resolved, JavaStep, luck
  <2>6. HandlerInv'
    <3>1. ASSUME NEW j \in Conn, Deciding(j)'
          PROVE  /\ active'[j] \in Question /\ transcripts'[active'[j]] # {}
                 /\ session'[j][active'[j]].turns < MaxTurn
                 /\ \A v \in tasks' : v.conn = j => v.continue
                 /\ client'.conn = j => client'.phase \in {"waiting", "over"}
      <4>1. j # k /\ Deciding(j)
        BY <2>1, <2>3, <3>1 DEF Deciding
      <4>2. active'[j] = active[j]
        BY <2>1, <2>3, <4>1 DEF TypeOK
      <4>3. active[j] \in Question
        BY <4>1 DEF HandlerInv
      <4>4. session'[j][active[j]] = session[j][active[j]]
        BY <2>4, <4>1, <4>3
      <4>5. \A v \in tasks' : v.conn = j => v.continue
        BY <2>2, <2>3, <4>1 DEF HandlerInv
      <4> QED
        BY <2>3, <4>1, <4>2, <4>3, <4>4, <4>5 DEF HandlerInv
    <3>2. ASSUME NEW j \in Conn, pc'[j] = "unused"
          PROVE  client'.conn # j /\ \A v \in tasks' : v.conn # j
      BY <2>1, <2>2, <2>3, <3>2 DEF HandlerInv
    <3> QED
      BY <3>1, <3>2 DEF HandlerInv
  <2>7. TaskInv'
    <3>1. ASSUME NEW v \in tasks', NEW w \in tasks', v.conn = w.conn, ~ v.continue, ~ w.continue
          PROVE  v = w
      BY <2>1, <2>2, <2>3, <3>1 DEF TaskInv
    <3>2. ASSUME NEW v \in tasks'
          PROVE  /\ transcripts'[v.q] # {}
                 /\ v.pc \in {"resolve", "push"} => ~ v.continue
                 /\ v.pc = "push" => v.next \in Question
                 /\ v.conn = client'.conn /\ ~ v.continue => client'.phase \in {"waiting", "over"}
      BY <2>1, <2>2, <2>3 DEF TaskInv
    <3> QED
      BY <3>1, <3>2 DEF TaskInv
  <2>8. PaperInv'
    <3>1. \A v \in tasks' : v.q <= newest' /\ v.next <= newest'
      <4>1. \A v \in tasks : v.q <= newest' /\ v.next <= newest'
        BY <1>1, PaperStays
      <4>2. newest' <= newest'
        BY <1>1 DEF JavaStep, Question
      <4> QED
        BY <2>1, <2>2, <2>3, <4>1, <4>2
    <3>2. \A j \in Conn : active'[j] <= newest'
      BY <1>1, <2>1, <2>3, PaperStays DEF TypeOK, Question
    <3> QED
      BY <1>1, <2>3, <3>1, <3>2, PaperKept, PaperStays DEF TypeOK
  <2>9. AppInv'
    <3>1. ASSUME NEW v \in tasks', v.conn = client.conn PROVE OwnTask(v)'
      <4>1. CASE client.conn # k
        <5>1. v \in tasks /\ OwnTask(v) /\ v.conn \in Conn /\ v.q \in Question
          BY <2>2, <2>3, <3>1, <4>1, TaskFields DEF AppInv
        <5>2. session'[v.conn][v.q] = session[v.conn][v.q] /\ active'[v.conn] = active[v.conn]
          BY <2>1, <2>3, <2>4, <3>1, <4>1, <5>1 DEF TypeOK
        <5> QED
          BY <2>3, <5>1, <5>2 DEF OwnTask, Resolved, Recorded
      <4>2. CASE client.conn = k
        <5>1. OwnTask(t) /\ t.q = client.q /\ Recorded(t.q)
          BY <2>1, <4>2 DEF AppInv, OwnTask, Resolved
        <5>2. client.q < q
          <6>1. t.q <= newest /\ t.q \in Question
            BY TaskFields DEF PaperInv
          <6> QED
            BY <1>1, <1>3, <2>1, <5>1, <6>1
        <5>3. CASE v = u
          <6>1. session'[k][t.q].turns > 0
            BY <2>1, <2>4, <5>1, <5>2, TaskFields DEF OwnTask, TypeOK, Question
          <6>2. active'[k] = q
            BY <2>1, <2>3 DEF TypeOK
          <6> QED
            BY <2>2, <2>3, <5>1, <5>2, <5>3, <6>1, <6>2 DEF OwnTask
        <5>4. CASE v # u
          <6>1. v \in tasks /\ v # t /\ OwnTask(v) /\ v.continue /\ v.q \in Question /\ v.q <= client.q
            BY <2>1, <2>3, <3>1, <4>2, <5>4, TaskFields DEF AppInv, TaskInv, OwnTask
          <6>2. v.pc \notin {"resolve", "push"}
            BY <6>1 DEF TaskInv
          <6>3. session'[v.conn][v.q] = session[v.conn][v.q]
            BY <2>1, <2>4, <3>1, <4>2, <5>2, <6>1 DEF TypeOK, Question
          <6> QED
            BY <2>3, <6>1, <6>2, <6>3 DEF OwnTask
        <5> QED
          BY <5>3, <5>4
      <4> QED
        BY <4>1, <4>2
    <3>2. client.conn # 0 /\ (client.phase \in {"answering", "told"} \/ Deciding(client.conn)) =>
              client.conn # k
      BY <2>1 DEF TaskInv
    <3>3. client.conn # 0 /\ client.conn # k => active'[client.conn] = active[client.conn]
      BY <2>1, <2>3 DEF TypeOK, Conn
    <3>4. Deciding(client.conn)' <=> Deciding(client.conn)
      BY <2>3 DEF Deciding
    <3> QED
      BY <2>3, <3>1, <3>2, <3>3, <3>4 DEF AppInv
  <2>10. PushedInv'
    BY <2>3 DEF PushedInv
  <2> QED
    BY <2>5, <2>6, <2>7, <2>8, <2>9, <2>10
<1> QED
  BY <1>2, <1>3

LEMMA PushKeeps == ASSUME IInv, NEW t \in tasks, Push(t) PROVE IInv'
<1> USE DEF IInv
<1>1. /\ t.conn \in Conn /\ t.next \in Question /\ ~ t.continue /\ ~ Deciding(t.conn)
  BY TaskFields DEF Push, TaskInv, HandlerInv
<1>2. /\ tasks' = tasks \ {t} /\ current' = t.next /\ hit' = hit
      /\ UNCHANGED <<pc, active, session, transcripts>>
  BY DEF Push, Done, luck
<1>3. /\ client'.conn = client.conn
      /\ client.conn # t.conn => client' = client /\ pushed' = pushed
      /\ client.conn = t.conn => /\ client'.q = t.next /\ client'.phase = "answering"
                                 /\ pushed' = [pushed EXCEPT ![t.next] = Capped(pushed[t.next])]
  BY DEF Push, Tell, TypeOK
<1>4. client.conn = t.conn =>
          /\ OwnTask(t) /\ t.next > client.q /\ active[t.conn] = t.next
          /\ \A v \in tasks : v # t /\ v.conn = t.conn => OwnTask(v) /\ v.continue
  BY <1>1 DEF AppInv, OwnTask, Push, TaskInv
<1>5. JavaStep
  BY JavaStays DEF Push
<1>6. pushed' \in [Question -> 0 .. 2]
  <2>1. Capped(pushed[t.next]) \in 0 .. 2
    <3>1. pushed[t.next] \in 0 .. 2
      BY <1>1 DEF TypeOK
    <3> QED
      BY <3>1 DEF Capped
  <2> QED
    BY <1>1, <1>3, <2>1 DEF TypeOK
<1>7. TypeOK'
  <2>1. client' \in Client
    BY <1>1, TellType DEF Push, TypeOK, Client
  <2> QED
    BY <1>1, <1>2, <1>6, <2>1, LuckType DEF TypeOK, Push, Client, java
<1>8. HandlerInv'
  BY <1>1, <1>2, <1>3 DEF HandlerInv, Deciding
<1>9. TaskInv'
  BY <1>1, <1>2, <1>3, <1>4 DEF TaskInv
<1>10. PaperInv'
  <2>1. t.next <= newest'
    BY <1>5, PaperStays
  <2>2. \A q \in Question : pushed'[q] > 0 => pushed[q] > 0 \/ q <= newest'
    BY <1>1, <1>3, <2>1 DEF TypeOK
  <2>3. client'.q <= newest'
    BY <1>3, <1>5, <2>1, PaperStays
  <2> QED
    BY <1>2, <1>5, <1>6, <2>1, <2>2, <2>3, PaperKept, PaperStays
<1>11. AppInv'
  <2>1. CASE client.conn # t.conn
    BY <1>2, <1>3, <2>1 DEF AppInv, OwnTask, Deciding, Push, Recorded, java
  <2>2. CASE client.conn = t.conn
    <3>1. ASSUME NEW v \in tasks', v.conn = client.conn PROVE OwnTask(v)'
      <4>1. v \in tasks /\ OwnTask(v) /\ v.continue /\ v.q \in Question /\ v.q <= client.q
        BY <1>2, <1>4, <2>2, <3>1, TaskFields DEF OwnTask
      <4>2. v.pc \notin {"resolve", "push"}
        BY <4>1 DEF TaskInv
      <4>3. v.q <= t.next
        BY <1>1, <1>4, <2>2, <4>1 DEF Question, TypeOK
      <4> QED
        BY <1>2, <1>3, <2>2, <4>1, <4>2, <4>3 DEF OwnTask
    <3> QED
      BY <1>2, <1>3, <1>4, <2>2, <3>1 DEF AppInv
  <2> QED
    BY <2>1, <2>2
<1>12. PushedInv'
  <2>1. CASE client.conn # t.conn
    BY <1>2, <1>3, <2>1 DEF PushedInv
  <2>2. CASE client.conn = t.conn
    <3> SUFFICES ASSUME "back" \notin hit, NEW q \in Question, pushed'[q] > 0
                 PROVE  q <= client'.q /\ pushed'[q] = 1
      BY <1>2 DEF PushedInv
    <3>1. CASE q = t.next
      <4>1. pushed[t.next] \in 0 .. 2 /\ t.next \in Nat /\ client.q \in Nat
        BY <1>1 DEF TypeOK, Question
      <4>2. ~ pushed[t.next] > 0
        BY <1>1, <1>4, <2>2, <4>1 DEF PushedInv
      <4>3. pushed[t.next] = 0
        BY <4>1, <4>2
      <4>4. pushed'[t.next] = 1
        BY <1>1, <1>3, <2>2, <4>3 DEF TypeOK, Capped
      <4> QED
        BY <1>3, <2>2, <3>1, <4>1, <4>4
    <3>2. CASE q # t.next
      <4>1. pushed'[q] = pushed[q]
        BY <1>1, <1>3, <2>2, <3>2 DEF TypeOK
      <4>2. q <= client.q /\ pushed[q] = 1
        BY <4>1 DEF PushedInv
      <4> QED
        BY <1>1, <1>3, <1>4, <2>2, <4>1, <4>2 DEF TypeOK, Question
    <3> QED
      BY <3>1, <3>2
  <2> QED
    BY <2>1, <2>2
<1> QED
  BY <1>7, <1>8, <1>9, <1>10, <1>11, <1>12

LEMMA DisconnectKeeps == ASSUME IInv, Disconnect PROVE IInv'
<1> USE DEF IInv
<1>1. /\ client'.conn = 0 /\ client'.q = client.q /\ client'.phase = client.phase /\ client' \in Client
      /\ UNCHANGED <<pc, active, session, tasks, prefetch, transcripts, current, pushed>>
  <2>1. /\ client' = [client EXCEPT !.conn = 0]
        /\ UNCHANGED <<pc, active, session, tasks, prefetch, transcripts, current, pushed>>
    BY DEF Disconnect
  <2>2. client \in Client /\ 0 \in 0 .. MaxConn
    BY BoundAssumption DEF TypeOK, Client
  <2> QED
    BY <2>1, <2>2 DEF Client
<1>2. faults' \in 0 .. MaxFaults /\ hit' \subseteq Trouble \cup {"back"} /\ hit \subseteq hit'
  BY FaultType DEF Disconnect, ConnectionLost
<1>3. JavaStep
  BY JavaStays DEF Disconnect
<1>4. \A t \in tasks : t.conn # 0
  BY TaskFields
<1>5. TypeOK'
  BY <1>1, <1>2, <1>3 DEF TypeOK, Client, JavaStep
<1>6. HandlerInv'
  BY <1>1 DEF HandlerInv, Deciding, Conn
<1>7. TaskInv'
  BY <1>1, <1>4 DEF TaskInv
<1>8. PaperInv'
  BY <1>1, <1>3, PaperKept, PaperStays DEF TypeOK
<1>9. AppInv'
  BY <1>1, <1>4 DEF AppInv
<1>10. PushedInv'
  BY <1>1, <1>2 DEF PushedInv
<1> QED
  BY <1>5, <1>6, <1>7, <1>8, <1>9, <1>10

LEMMA CloseKeeps == ASSUME IInv, NEW k \in Conn, Close(k) PROVE IInv'
<1> USE DEF IInv
<1>1. /\ client.conn # k /\ pc[k] = "idle"
      /\ pc' = [pc EXCEPT ![k] = "closed"] /\ active' = [active EXCEPT ![k] = 0]
      /\ UNCHANGED <<client, session, tasks, prefetch, transcripts, current, pushed, hit, faults>>
  BY DEF Close, luck
<1>2. JavaStep
  BY JavaStays DEF Close
<1>3. TypeOK'
  <2>1. pc' \in [Conn -> {"unused", "idle", "deciding", "recovering", "closed"}]
    BY <1>1 DEF TypeOK
  <2>2. active' \in [Conn -> 0 .. MaxQuestion]
    BY <1>1, BoundAssumption DEF TypeOK
  <2> QED
    BY <1>1, <1>2, <2>1, <2>2 DEF TypeOK, JavaStep
<1>4. \A j \in Conn : j # k => pc'[j] = pc[j] /\ active'[j] = active[j]
  BY <1>1 DEF TypeOK
<1>5. pc'[k] = "closed" /\ active'[k] = 0
  BY <1>1 DEF TypeOK
<1>6. HandlerInv'
  BY <1>1, <1>4, <1>5 DEF HandlerInv, Deciding
<1>7. TaskInv'
  BY <1>1 DEF TaskInv
<1>8. PaperInv'
  <2>1. \A j \in Conn : active'[j] <= newest'
    BY <1>2, <1>4, <1>5, PaperStays DEF JavaStep, Question
  <2> QED
    BY <1>1, <1>2, <2>1, PaperKept, PaperStays DEF TypeOK
<1>9. AppInv'
  <2>1. client.conn # 0 => client.conn \in Conn
    BY DEF TypeOK, Conn
  <2>2. \A t \in tasks : t.conn = client.conn => active'[t.conn] = active[t.conn]
    BY <1>1, <1>4, TaskFields
  <2>3. \A t \in tasks : t.conn = client.conn => OwnTask(t)'
    BY <1>1, <2>2 DEF AppInv, OwnTask, Close, Recorded, java
  <2>4. client.conn # 0 => /\ active'[client.conn] = active[client.conn]
                           /\ Deciding(client.conn)' <=> Deciding(client.conn)
    BY <1>1, <1>4, <2>1 DEF Deciding
  <2> QED
    BY <1>1, <2>3, <2>4 DEF AppInv
<1>10. PushedInv'
  BY <1>1 DEF PushedInv
<1> QED
  BY <1>3, <1>6, <1>7, <1>8, <1>9, <1>10

LEMMA CrashKeeps == ASSUME IInv, Crash PROVE IInv'
<1> USE DEF IInv
<1>1. /\ client'.conn = 0 /\ client'.q = client.q /\ client'.phase = client.phase /\ client' \in Client
      /\ tasks' = {} /\ UNCHANGED <<session, transcripts, current, pushed>>
  BY BoundAssumption DEF Crash, TypeOK, Client
<1>2. faults' \in 0 .. MaxFaults /\ hit' \subseteq Trouble \cup {"back"} /\ hit \subseteq hit'
  BY FaultType DEF Crash, ConnectionLost
<1>3. JavaStep
  BY JavaStays, ReachedJava DEF Crash
<1>4. /\ pc' \in [Conn -> {"unused", "closed"}] /\ active' = [k \in Conn |-> 0]
      /\ prefetch' \in [Conn -> BOOLEAN]
  BY DEF Crash
<1>5. TypeOK'
  <2>1. active' \in [Conn -> 0 .. MaxQuestion]
    BY <1>4, BoundAssumption
  <2>2. pc' \in [Conn -> {"unused", "idle", "deciding", "recovering", "closed"}]
    BY <1>4
  <2> QED
    BY <1>1, <1>2, <1>3, <1>4, <2>1, <2>2 DEF TypeOK, Client, JavaStep
<1>6. HandlerInv'
  BY <1>1, <1>4 DEF HandlerInv, Deciding, Conn
<1>7. TaskInv'
  BY <1>1 DEF TaskInv
<1>8. PaperInv'
  <2>1. \A j \in Conn : active'[j] <= newest'
    BY <1>3, <1>4 DEF JavaStep, Question
  <2> QED
    BY <1>1, <1>3, <2>1, PaperKept, PaperStays DEF TypeOK
<1>9. AppInv'
  BY <1>1 DEF AppInv
<1>10. PushedInv'
  BY <1>1, <1>2 DEF PushedInv
<1> QED
  BY <1>5, <1>6, <1>7, <1>8, <1>9, <1>10

LEMMA ResumeKeeps == ASSUME IInv, NEW k \in Conn, Resume(k) PROVE IInv'
<1> USE DEF IInv
<1>1. PICK q \in {client.q, current} :
          /\ active' = [active EXCEPT ![k] = q]
          /\ session' = [session EXCEPT ![k][q] = NoSession]
          /\ client' = [conn |-> k, q |-> q,
                        phase |-> IF 1 \in transcripts[q] THEN "waiting" ELSE "answering"]
          /\ pc' = [pc EXCEPT ![k] = IF 1 \in transcripts[q] THEN "recovering" ELSE "idle"]
          /\ hit' = IF \E p \in Question : p > q /\ pushed[p] > 0 THEN hit \cup {"back"} ELSE hit
  BY DEF Resume
<1>2. UNCHANGED <<tasks, prefetch, transcripts, current, pushed, faults>>
  BY DEF Resume
<1>3. /\ q \in Question /\ q <= newest /\ k \in 0 .. MaxConn /\ k # 0
      /\ pc[k] = "unused" /\ client.conn = 0 /\ \A t \in tasks : t.conn # k
  BY DEF Resume, TypeOK, PaperInv, HandlerInv, Conn
<1>4. JavaStep
  BY JavaStays DEF Resume
<1>5. TypeOK'
  <2>1. client' \in Client
    BY <1>1, <1>3 DEF Client
  <2>2. session' \in [Conn -> [Question -> Session]]
    BY <1>1, <1>3, SessionType DEF TypeOK
  <2>3. active' \in [Conn -> 0 .. MaxQuestion]
    BY <1>1, <1>3, BoundAssumption DEF TypeOK, Question
  <2>4. pc' \in [Conn -> {"unused", "idle", "deciding", "recovering", "closed"}]
    BY <1>1 DEF TypeOK
  <2>5. hit' \subseteq Trouble \cup {"back"}
    BY <1>1 DEF TypeOK
  <2> QED
    BY <1>2, <1>4, <2>1, <2>2, <2>3, <2>4, <2>5 DEF TypeOK, Client, JavaStep
<1>6. /\ active'[k] = q /\ session'[k][q].turns = 0
      /\ pc'[k] = (IF 1 \in transcripts[q] THEN "recovering" ELSE "idle")
      /\ \A j \in Conn : j # k => pc'[j] = pc[j] /\ active'[j] = active[j] /\ session'[j] = session[j]
  BY <1>1, <1>3 DEF TypeOK, NoSession
<1>7. HandlerInv'
  <2>1. ASSUME NEW j \in Conn, Deciding(j)'
        PROVE  /\ active'[j] \in Question /\ transcripts'[active'[j]] # {}
               /\ session'[j][active'[j]].turns < MaxTurn
               /\ \A t \in tasks' : t.conn = j => t.continue
               /\ client'.conn = j => client'.phase \in {"waiting", "over"}
    <3>1. CASE j = k
      BY <1>1, <1>2, <1>3, <1>6, <2>1, <3>1, BoundAssumption DEF Deciding
    <3>2. CASE j # k
      BY <1>1, <1>2, <1>3, <1>6, <2>1, <3>2 DEF HandlerInv, Deciding
    <3> QED
      BY <3>1, <3>2
  <2>2. ASSUME NEW j \in Conn, pc'[j] = "unused" PROVE client'.conn # j /\ \A t \in tasks' : t.conn # j
    BY <1>1, <1>2, <1>6, <2>2 DEF HandlerInv
  <2> QED
    BY <2>1, <2>2 DEF HandlerInv
<1>8. TaskInv'
  BY <1>1, <1>2, <1>3 DEF TaskInv
<1>9. PaperInv'
  <2>1. q <= newest'
    BY <1>1, <1>4, PaperStays
  <2>2. \A j \in Conn : active'[j] <= newest'
    BY <1>4, <1>6, <2>1, PaperStays
  <2> QED
    BY <1>1, <1>2, <1>4, <2>1, <2>2, PaperKept, PaperStays DEF TypeOK
<1>10. AppInv'
  BY <1>1, <1>2, <1>3, <1>6 DEF AppInv
<1>11. PushedInv'
  <2> SUFFICES ASSUME "back" \notin hit', NEW p \in Question, pushed[p] > 0
               PROVE  p <= q /\ pushed[p] = 1
    BY <1>1, <1>2 DEF PushedInv
  <2>1. "back" \notin hit /\ ~ p > q
    BY <1>1
  <2> QED
    BY <1>3, <2>1 DEF PushedInv, Question
<1> QED
  BY <1>5, <1>7, <1>8, <1>9, <1>10, <1>11

LEMMA StutterKeeps == ASSUME IInv, UNCHANGED vars PROVE IInv'
<1>1. JavaStep
  BY JavaStays DEF vars, java
<1>2. Hears /\ TasksGoOn
  BY HearsNothing DEF vars, TasksGoOn
<1>3. QuietStep
  BY <1>1, <1>2, LuckKept DEF vars, luck, QuietStep, Hears, IInv, TypeOK
<1> QED
  BY <1>3, QuietKeeps

LEMMA InitIInv == Init => IInv
<1> SUFFICES ASSUME Init PROVE IInv
  OBVIOUS
<1>1. TypeOK
  BY InitType
<1>2. 1 \in Question /\ 1 \in Conn /\ tasks = {} /\ client.conn = 1 /\ client.q = 1
      /\ client.phase = "answering" /\ newest = 1 /\ current = 1 /\ active[1] = 1
  BY BoundAssumption DEF Init, Question, Conn
<1>3. HandlerInv
  BY <1>2 DEF Init, HandlerInv, Deciding
<1>4. TaskInv
  BY <1>2 DEF TaskInv
<1>5. \A q \in Question : pushed[q] = IF q = 1 THEN 1 ELSE 0
  BY DEF Init
<1>6. PaperInv
  <2>1. \A p \in Question : ~ Recorded(p) /\ ~ p < 1
    BY DEF Init, Recorded, Question
  <2>2. \A q \in Question : pushed[q] > 0 => q <= 1
    BY <1>5
  <2>3. \A k \in Conn : active[k] <= 1
    BY DEF Init
  <2> QED
    BY <1>2, <2>1, <2>2, <2>3 DEF PaperInv
<1>7. AppInv
  BY <1>2 DEF AppInv
<1>8. PushedInv
  BY <1>2, <1>5 DEF PushedInv
<1> QED
  BY <1>1, <1>3, <1>4, <1>6, <1>7, <1>8 DEF IInv

(***************************************************************************)
(* While the student is paced and the connection lasts.                    *)
(***************************************************************************)
CalmParts == OneThing /\ AllSaved /\ Untouched /\ Once

LEMMA OneType ==
    ASSUME IInv
    PROVE  /\ 1 \in Conn /\ client.q \in Question /\ Turns \in 0 .. MaxTurn
           /\ \A p \in Question, n \in Turn : submits[p][n] \in 0 .. 2
           /\ \A p \in Question : p \in Int /\ transcripts[p] \subseteq Turn
<1>1. 1 \in Conn /\ client.q \in Question
  BY BoundAssumption DEF IInv, TypeOK, Conn
<1>2. session[1][client.q] \in Session
  BY <1>1 DEF IInv, TypeOK
<1>3. Turns \in 0 .. MaxTurn
  BY <1>2 DEF Turns, Session
<1>4. \A p \in Question, n \in Turn : submits[p][n] \in 0 .. 2
  BY DEF IInv, TypeOK
<1>5. \A p \in Question : p \in Int /\ transcripts[p] \subseteq Turn
  BY DEF IInv, TypeOK, Question
<1> QED
  BY <1>1, <1>3, <1>4, <1>5

LEMMA OneTask ==
    ASSUME IInv, OneThing, NEW t \in tasks
    PROVE  /\ t.conn = 1 /\ client.conn = 1 /\ t.q = client.q /\ OwnTask(t)
           /\ Turns \in Turn /\ session[t.conn][t.q].turns = Turns
<1>1. t.conn = 1 /\ client.conn = 1 /\ t.q = client.q
  BY TaskFields DEF OneThing, IInv, HandlerInv
<1>2. OwnTask(t)
  BY <1>1 DEF IInv, AppInv
<1>3. Turns \in 0 .. MaxTurn /\ Turns > 0
  BY <1>1, <1>2, OneType DEF OwnTask, Turns
<1> QED
  BY <1>1, <1>2, <1>3, BoundAssumption DEF Turn, Turns

\* A step of a task saves the last turn of the question, or nothing.
MayRecord ==
    \/ submits' = submits
    \/ /\ Turns \in Turn
       /\ submits' = [submits EXCEPT ![client.q][Turns] = Capped(submits[client.q][Turns])]

LEMMA Saves ==
    ASSUME IInv, OneThing, NEW t \in tasks, t.pc = "submit", Record(t.q, t.sent)
    PROVE  MayRecord /\ submits'[client.q][Turns] > 0
<1>1. Turns \in Turn /\ t.sent = Turns /\ t.q = client.q
  BY OneTask DEF OneThing
<1>2. Turns # 0
  BY <1>1 DEF Turn
<1>3. submits' = [submits EXCEPT ![client.q][Turns] = Capped(submits[client.q][Turns])]
  BY <1>1, <1>2 DEF Record
<1>4. submits[client.q][Turns] \in 0 .. 2
  BY <1>1, OneType
<1>5. Capped(submits[client.q][Turns]) > 0
  BY <1>4 DEF Capped
<1> QED
  BY <1>1, <1>3, <1>5, OneType DEF MayRecord, IInv, TypeOK

LEMMA MayRecordKeeps ==
    ASSUME IInv, MayRecord
    PROVE  /\ \A p \in Question, n \in Turn : submits[p][n] > 0 => submits'[p][n] > 0
           /\ \A p \in Question, n \in Turn :
                 p # client.q \/ n # Turns => submits'[p][n] = submits[p][n]
           /\ submits' # submits =>
                 Turns \in Turn /\ submits'[client.q][Turns] = Capped(submits[client.q][Turns])
<1>1. CASE submits' = submits
  BY <1>1
<1>2. CASE submits' # submits
  <2>1. /\ Turns \in Turn
        /\ submits' = [submits EXCEPT ![client.q][Turns] = Capped(submits[client.q][Turns])]
    BY <1>2 DEF MayRecord
  <2>2. submits[client.q][Turns] \in 0 .. 2
    BY <2>1, OneType
  <2>3. Capped(submits[client.q][Turns]) > 0
    BY <2>2 DEF Capped
  <2>4. \A p \in Question, n \in Turn :
            p # client.q \/ n # Turns => submits'[p][n] = submits[p][n]
    BY <2>1, OneType DEF IInv, TypeOK
  <2>5. submits'[client.q][Turns] = Capped(submits[client.q][Turns])
    BY <2>1, OneType DEF IInv, TypeOK
  <2>6. ASSUME NEW p \in Question, NEW n \in Turn, submits[p][n] > 0 PROVE submits'[p][n] > 0
    BY <2>3, <2>4, <2>5, <2>6
  <2> QED
    BY <2>1, <2>4, <2>5, <2>6
<1> QED
  BY <1>1, <1>2

\* What the quiet steps do to the one thing under way.
CalmStep ==
    /\ QuietStep /\ MayRecord /\ "back" \notin hit'
    /\ \A v \in tasks' : v.pc = "submit" => v.sent = Turns
    /\ \A v \in tasks' : v.pc \in {"resolve", "push"} => v \in tasks \/ submits'[client.q][Turns] > 0
    /\ client'.phase = "answering" =>
          client.phase = "answering" \/ (tasks' = {} /\ submits'[client.q][Turns] > 0)
    /\ "submit" \notin hit' => \A v \in tasks' : v.pc \in {"correct", "submit"} =>
                                  v.attempt = 1 /\ submits' = submits
    /\ \A v \in tasks' : v.pc \in {"correct", "submit"} =>
          \E t \in tasks : t.pc \in {"correct", "submit"}
    /\ submits' = submits \/ \E t \in tasks : t.pc = "submit"

LEMMA CalmStepKeeps == ASSUME IInv, CalmParts, CalmStep PROVE CalmParts'
<1> USE DEF CalmParts, CalmStep
<1>1. /\ client'.conn = client.conn /\ client'.q = client.q /\ hit \subseteq hit'
      /\ pc' = pc /\ session' = session /\ transcripts' = transcripts
  BY DEF QuietStep
<1>2. Turns' = Turns
  BY <1>1 DEF Turns
<1>3. /\ \A p \in Question, n \in Turn : submits[p][n] > 0 => submits'[p][n] > 0
      /\ \A p \in Question, n \in Turn :
            p # client.q \/ n # Turns => submits'[p][n] = submits[p][n]
      /\ submits' # submits =>
            Turns \in Turn /\ submits'[client.q][Turns] = Capped(submits[client.q][Turns])
  BY MayRecordKeeps
<1>4. ASSUME NEW v \in tasks'
      PROVE  \E t \in tasks : v.q = t.q /\ (v = t \/ Follows(t, v))
  BY TaskBefore DEF QuietStep
<1>5. tasks = {} => tasks' = {}
  BY <1>4
<1>6. OneThing'
  <2>1. ASSUME NEW v \in tasks', NEW w \in tasks' PROVE v = w
    BY DEF QuietStep, TasksGoOn, OneThing
  <2>2. pc'[1] = "deciding" \/ client'.phase = "answering" => tasks' = {}
    BY <1>1, <1>5 DEF OneThing
  <2> QED
    BY <1>1, <1>2, <1>4, <2>1, <2>2 DEF OneThing
<1>7. AllSaved'
  <2>1. ASSUME NEW n \in transcripts[client.q]
        PROVE  \/ submits'[client.q][n] > 0 \/ (n = Turns + 1 /\ pc[1] = "deciding")
               \/ Unsaved(n)'
    <3>1. n \in Turn /\ client.q \in Question
      BY OneType
    <3>2. CASE submits[client.q][n] > 0 \/ (n = Turns + 1 /\ pc[1] = "deciding")
      BY <1>3, <3>1, <3>2
    <3>3. CASE Unsaved(n)
      <4>1. CASE submits'[client.q][Turns] > 0
        BY <3>3, <4>1 DEF Unsaved
      <4>2. CASE ~ submits'[client.q][Turns] > 0
        <5>1. client'.phase # "answering"
          BY <3>3, <4>2 DEF Unsaved
        <5>2. ASSUME NEW v \in tasks' PROVE v.pc \in {"correct", "submit"}
          <6>1. CASE v.pc \in {"resolve", "push"}
            BY <3>3, <4>2, <6>1 DEF Unsaved
          <6>2. v \in Task
            BY DEF QuietStep, TasksGoOn, IInv, TypeOK
          <6> QED
            BY <6>1, <6>2 DEF Task
        <5> QED
          BY <1>1, <1>2, <3>3, <5>1, <5>2 DEF Unsaved
      <4> QED
        BY <4>1, <4>2
    <3> QED
      BY <3>2, <3>3 DEF AllSaved
  <2>2. ASSUME NEW p \in Question, p < client.q, NEW n \in transcripts[p] PROVE submits'[p][n] > 0
    BY <1>3, <2>2, OneType DEF AllSaved
  <2> QED
    BY <1>1, <1>2, <2>1, <2>2 DEF AllSaved
<1>8. Untouched'
  <2>1. ASSUME NEW p \in Question, p > client.q, NEW n \in Turn PROVE submits'[p][n] = 0
    BY <1>3, <2>1, OneType DEF Untouched
  <2>2. ASSUME NEW n \in Turn, n > Turns PROVE submits'[client.q][n] = 0
    BY <1>3, <2>2, OneType DEF Untouched, Turn
  <2> QED
    BY <1>1, <1>2, <2>1, <2>2 DEF Untouched
<1>9. Once'
  <2> SUFFICES ASSUME "submit" \notin hit'
               PROVE  /\ \A q \in Question, n \in Turn : submits'[q][n] <= 1
                      /\ \A v \in tasks' : v.pc \in {"correct", "submit"} =>
                            v.attempt = 1 /\ \A n \in Turn : n = Turns => submits'[client.q][n] = 0
    BY <1>1, <1>2 DEF Once
  <2>1. /\ \A q \in Question, n \in Turn : submits[q][n] <= 1
        /\ \A t \in tasks : t.pc \in {"correct", "submit"} =>
                            t.attempt = 1 /\ \A n \in Turn : n = Turns => submits[client.q][n] = 0
    BY <1>1 DEF Once
  <2>2. ASSUME NEW q \in Question, NEW n \in Turn PROVE submits'[q][n] <= 1
    <3>1. CASE submits' = submits
      BY <2>1, <3>1
    <3>2. CASE submits' # submits
      <4>1. Turns \in Turn /\ submits'[client.q][Turns] = Capped(submits[client.q][Turns])
        BY <1>3, <3>2
      <4>2. submits[client.q][Turns] = 0
        BY <2>1, <3>2, <4>1
      <4>3. submits'[client.q][Turns] = 1
        BY <4>1, <4>2 DEF Capped
      <4> QED
        BY <1>3, <2>1, <4>3
    <3> QED
      BY <3>1, <3>2
  <2>3. ASSUME NEW v \in tasks', v.pc \in {"correct", "submit"}
        PROVE  v.attempt = 1 /\ \A n \in Turn : n = Turns => submits'[client.q][n] = 0
    <3>1. v.attempt = 1 /\ submits' = submits
      BY <2>3
    <3>2. \E t \in tasks : t.pc \in {"correct", "submit"}
      BY <2>3
    <3> QED
      BY <2>1, <3>1, <3>2
  <2> QED
    BY <2>2, <2>3
<1> QED
  BY <1>6, <1>7, <1>8, <1>9

\* Nothing undoes a trouble.
LEMMA CalmBefore ==
    ASSUME Calm', hit \subseteq hit' PROVE Calm
BY DEF Calm

LEMMA LuckMeets ==
    ASSUME IInv, "back" \notin hit, UNCHANGED luck \/ \E kind \in Trouble : Fault(kind)
    PROVE  "back" \notin hit'
BY NoBack DEF Fault, luck

\* The task under way is done, the paper and the rest as in a quiet step.
LEMMA CalmDone ==
    ASSUME QuietStep, MayRecord, "back" \notin hit', tasks' = {},
           client'.phase = "answering" => client.phase = "answering" \/ submits'[client.q][Turns] > 0,
           submits' = submits \/ \E t \in tasks : t.pc = "submit"
    PROVE  CalmStep
BY DEF CalmStep

LEMMA OnlyTask == ASSUME OneThing, NEW t \in tasks, Done(t) PROVE tasks' = {}
BY DEF OneThing, Done

LEMMA CorrectedCalm ==
    ASSUME IInv, CalmParts, NEW t \in tasks, Corrected(t) PROVE CalmStep
<1> USE DEF CalmParts
<1> DEFINE u == [t EXCEPT !.pc = "submit", !.sent = session[t.conn][t.q].turns]
<1>1. u.pc = "submit" /\ u.sent = Turns /\ u.attempt = t.attempt
  BY OneTask, TaskFields DEF Task
<1>2. tasks' = {u}
  BY DEF Corrected, Goto, OneThing
<1>3. MayRecord /\ submits' = submits /\ "back" \notin hit' /\ client' = client /\ hit' = hit
  BY DEF Corrected, MayRecord, AllSaved, java, luck
<1>4. "submit" \notin hit' => t.attempt = 1
  BY <1>3 DEF Once, Corrected
<1>5. t.pc = "correct"
  BY DEF Corrected
<1> HIDE DEF u
<1> QED
  BY <1>1, <1>2, <1>3, <1>4, <1>5, CorrectedQuiet DEF CalmStep

LEMMA SubmittedCalm ==
    ASSUME IInv, CalmParts, NEW t \in tasks, Submitted(t) PROVE CalmStep
<1> USE DEF CalmParts
<1>1. MayRecord /\ submits'[client.q][Turns] > 0 /\ t.pc = "submit"
  BY Saves DEF Submitted
<1>2. "back" \notin hit' /\ QuietStep
  BY SubmittedQuiet DEF Submitted, AllSaved, luck
<1>3. CASE Done(t)
  BY <1>1, <1>2, <1>3, OnlyTask, CalmDone
<1>4. CASE ~ Done(t)
  <2> DEFINE u == [t EXCEPT !.pc = "resolve"]
  <2>1. tasks' = {u} /\ client' = client
    BY <1>4 DEF Submitted, Goto, OneThing
  <2>2. u.pc = "resolve"
    BY TaskFields DEF Task
  <2> HIDE DEF u
  <2> QED
    BY <1>1, <1>2, <2>1, <2>2 DEF CalmStep
<1> QED
  BY <1>3, <1>4

LEMMA QuotaCalm ==
    ASSUME IInv, CalmParts, NEW t \in tasks, QuotaExceeded(t) PROVE CalmStep
<1> USE DEF CalmParts
<1>1. MayRecord /\ t.pc = "submit"
  BY Saves DEF QuotaExceeded, MayRecord
<1>2. "back" \notin hit' /\ QuietStep
  BY QuotaQuiet DEF QuotaExceeded, AllSaved, luck
<1>3. tasks' = {}
  BY OnlyTask DEF QuotaExceeded
<1>4. client'.phase = "over"
  <2>1. t.conn = client.conn
    BY OneTask
  <2> QED
    BY <2>1 DEF QuotaExceeded, Tell, IInv, TypeOK
<1> QED
  BY <1>1, <1>2, <1>3, <1>4, CalmDone

LEMMA SubmitFailsCalm ==
    ASSUME IInv, CalmParts, NEW t \in tasks, SubmitFails(t) PROVE CalmStep
<1> USE DEF CalmParts
<1>1. MayRecord /\ t.pc = "submit"
  BY Saves DEF SubmitFails, MayRecord
<1>2. UNCHANGED luck \/ \E kind \in Trouble : Fault(kind)
  BY FaultIsTrouble DEF SubmitFails, AttemptFails
<1>3. "back" \notin hit' /\ QuietStep
  BY <1>2, LuckMeets, SubmitFailsQuiet DEF AllSaved
<1>4. "submit" \in hit'
  <2>1. CASE t.attempt = 1
    BY <2>1 DEF SubmitFails, AttemptFails, Fault
  <2>2. CASE t.attempt # 1
    BY <1>1, <1>3, <2>2 DEF Once, QuietStep
  <2> QED
    BY <2>1, <2>2
<1>5. CASE t.attempt = 3
  <2>1. tasks' = {}
    BY <1>5, OnlyTask DEF SubmitFails
  <2>2. client'.phase = "over"
    <3>1. t.conn = client.conn
      BY OneTask
    <3> QED
      BY <1>5, <3>1 DEF SubmitFails, Tell, IInv, TypeOK
  <2> QED
    BY <1>1, <1>3, <2>1, <2>2, CalmDone
<1>6. CASE t.attempt # 3
  <2> DEFINE u == [t EXCEPT !.attempt = t.attempt + 1]
  <2>1. tasks' = {u} /\ client' = client
    BY <1>6 DEF SubmitFails, Goto, OneThing
  <2>2. u.pc = "submit" /\ u.sent = Turns
    BY <1>1, OneTask, TaskFields DEF Task, OneThing
  <2> HIDE DEF u
  <2> QED
    BY <1>1, <1>3, <1>4, <2>1, <2>2 DEF CalmStep
<1> QED
  BY <1>5, <1>6

\* A step that leaves the task where it is, and saves nothing.
LEMMA CalmStays ==
    ASSUME IInv, CalmParts, QuietStep, "back" \notin hit', tasks' = tasks, submits' = submits,
           client' = client
    PROVE  CalmStep
BY DEF CalmStep, CalmParts, MayRecord, OneThing, Once, QuietStep

LEMMA ResolveFailsCalm ==
    ASSUME IInv, CalmParts, NEW t \in tasks, ResolveFails(t) PROVE CalmStep
<1> USE DEF CalmParts
<1>1. "back" \notin hit' /\ QuietStep
  BY FaultIsTrouble, LuckMeets, ResolveFailsQuiet DEF ResolveFails, AllSaved
<1>2. submits' = submits /\ MayRecord
  BY DEF ResolveFails, MayRecord
<1>3. CASE tasks' = tasks /\ client' = client
  BY <1>1, <1>2, <1>3, CalmStays
<1>4. CASE Done(t) /\ Tell(t.conn, [client EXCEPT !.phase = "over"])
  <2>1. client'.phase = "over"
    <3>1. t.conn = client.conn
      BY OneTask
    <3> QED
      BY <1>4, <3>1 DEF Tell, IInv, TypeOK
  <2> QED
    BY <1>1, <1>2, <1>4, <2>1, OnlyTask, CalmDone
<1> QED
  BY <1>3, <1>4 DEF ResolveFails

LEMMA PrefetchedCalm ==
    ASSUME IInv, CalmParts, NEW k \in Conn, Prefetched(k) PROVE CalmStep
<1>1. "back" \notin hit' /\ QuietStep
  BY FaultIsTrouble, LuckMeets, PrefetchedQuiet DEF Prefetched, CalmParts, AllSaved
<1> QED
  BY <1>1, CalmStays DEF Prefetched

LEMMA TimesOutCalm ==
    ASSUME IInv, CalmParts, NEW t \in tasks, TaskTimesOut(t) PROVE CalmStep
<1> USE DEF CalmParts
<1>1. "back" \notin hit' /\ QuietStep
  BY FaultIsTrouble, LuckMeets, TimesOutQuiet DEF TaskTimesOut, AllSaved
<1>2. MayRecord /\ (submits' = submits \/ t.pc = "submit")
  BY Saves DEF TaskTimesOut, Reached, MayRecord, java
<1>3. tasks' = {} /\ client' = client
  BY OnlyTask DEF TaskTimesOut
<1> QED
  BY <1>1, <1>2, <1>3, CalmDone

LEMMA TurnEndCalm ==
    ASSUME IInv, CalmInv, Calm', NEW k \in Conn, TurnEnd(k) PROVE CalmParts'
<1> USE DEF CalmParts
<1>1. hit \subseteq hit'
  BY FaultType, LuckType DEF TurnEnd, IInv
<1>2. OneThing /\ AllSaved /\ Untouched /\ Once
  BY <1>1, CalmBefore DEF CalmInv
<1>3. client.phase = "answering" /\ hit' = hit
  BY DEF TurnEnd, Fault, Calm, luck
<1>4. k = 1 /\ tasks = {} /\ tasks' = {} /\ pc[1] = "idle"
  BY <1>2, <1>3 DEF TurnEnd, OneThing
<1>5. active[1] = client.q /\ session' = session /\ submits' = submits
      /\ client'.conn = client.conn /\ client'.q = client.q /\ client'.phase = "waiting"
  BY <1>2, <1>3, <1>4 DEF TurnEnd, OneThing, IInv, AppInv, TypeOK, java
<1>6. Turns' = Turns /\ Turns + 1 \in Turn
  BY <1>4, <1>5 DEF Turns, TurnEnd
<1>7. transcripts' = [transcripts EXCEPT ![client.q] = transcripts[client.q] \cup {Turns + 1}]
  BY <1>4, <1>5 DEF TurnEnd, Turns
<1>8. /\ transcripts'[client.q] = transcripts[client.q] \cup {Turns + 1}
      /\ \A p \in Question : p # client.q => transcripts'[p] = transcripts[p]
  BY <1>7, OneType DEF IInv, TypeOK
<1>9. pc'[1] = "deciding" /\ \A j \in Conn : j # 1 => pc'[j] = pc[j]
  BY <1>4, OneType DEF TurnEnd, IInv, TypeOK
<1>10. OneThing'
  BY <1>2, <1>4, <1>5, <1>9 DEF OneThing
<1>11. AllSaved'
  <2>1. ASSUME NEW n \in transcripts'[client.q]
        PROVE  submits[client.q][n] > 0 \/ n = Turns + 1
    BY <1>2, <1>3, <1>4, <1>8 DEF AllSaved, Unsaved
  <2>2. \A p \in Question : p < client.q => \A n \in transcripts'[p] : submits[p][n] > 0
    BY <1>2, <1>8, OneType DEF AllSaved
  <2> QED
    BY <1>2, <1>3, <1>5, <1>6, <1>9, <2>1, <2>2 DEF AllSaved
<1>12. Untouched'
  <2>1. \A p \in Question : p > client.q => transcripts'[p] = {}
    BY <1>2, <1>8, OneType DEF Untouched
  <2> QED
    BY <1>2, <1>5, <1>6, <2>1 DEF Untouched
<1>13. Once'
  BY <1>2, <1>3, <1>4, <1>5 DEF Once
<1> QED
  BY <1>10, <1>11, <1>12, <1>13

LEMMA DecideCalm ==
    ASSUME IInv, CalmInv, Calm', NEW k \in Conn, NEW continue \in BOOLEAN, Decide(k, continue)
    PROVE  CalmParts'
<1> USE DEF CalmParts
<1> DEFINE new == [conn |-> k, q |-> active[k], turn |-> session[k][active[k]].turns + 1,
                   continue |-> continue, pc |-> "correct", sent |-> 0, attempt |-> 1, next |-> 0]
<1>1. hit' = hit
  BY DEF Decide, luck
<1>2. OneThing /\ AllSaved /\ Untouched /\ Once
  BY <1>1, CalmBefore DEF CalmInv
<1>3. k = 1 /\ pc[1] = "deciding" /\ tasks = {} /\ client.conn = 1
  BY <1>2 DEF Decide, OneThing
<1>4. active[1] = client.q
  BY <1>3 DEF IInv, AppInv, Deciding
<1>5. /\ tasks' = {new} /\ submits' = submits /\ transcripts' = transcripts
      /\ session' = [session EXCEPT ![1][client.q].turns = Turns + 1]
  BY <1>3, <1>4 DEF Decide, Turns, java
<1>6. new.q = client.q /\ new.pc = "correct" /\ new.attempt = 1
  BY <1>3, <1>4
<1> HIDE DEF new
<1>7. /\ client'.conn = client.conn /\ client'.q = client.q /\ client'.phase # "answering"
  <2>1. client' = [client EXCEPT !.phase = IF continue THEN "told" ELSE "waiting"]
    BY <1>3 DEF Decide, Tell
  <2> QED
    BY <2>1 DEF IInv, TypeOK
<1>8. pc'[1] = "idle" /\ \A j \in Conn : j # 1 => pc'[j] = pc[j]
  BY <1>3, OneType DEF Decide, IInv, TypeOK
<1>9. /\ Turns' = Turns + 1
      /\ \A p \in Question : p # client.q => session'[1][p] = session[1][p]
  <2>1. session[1][client.q] \in Session
    BY OneType DEF IInv, TypeOK
  <2>2. session'[1][client.q] = [session[1][client.q] EXCEPT !.turns = Turns + 1]
    BY <1>5, OneType DEF IInv, TypeOK
  <2>3. session'[1][client.q].turns = Turns + 1
    BY <2>1, <2>2 DEF Session
  <2> QED
    BY <1>5, <1>7, <2>3, OneType DEF Turns, IInv, TypeOK
<1>10. OneThing'
  BY <1>2, <1>3, <1>5, <1>6, <1>7, <1>8 DEF OneThing
<1>11. AllSaved'
  <2>1. ASSUME NEW n \in transcripts[client.q] PROVE submits[client.q][n] > 0 \/ n = Turns + 1
    BY <1>2, <1>3 DEF AllSaved, Unsaved
  <2>2. ASSUME NEW n \in transcripts[client.q] PROVE submits[client.q][n] > 0 \/ Unsaved(n)'
    <3>1. CASE n = Turns + 1
      BY <1>5, <1>6, <1>7, <1>8, <1>9, <3>1 DEF Unsaved
    <3> QED
      BY <2>1, <3>1
  <2> QED
    BY <1>1, <1>2, <1>5, <1>7, <2>2 DEF AllSaved
<1>12. Untouched'
  <2>1. ASSUME NEW n \in Turn, n > Turns + 1 PROVE submits[client.q][n] = 0
    BY <1>2, <2>1, OneType DEF Untouched, Turn
  <2>2. ASSUME NEW p \in Question, p > client.q PROVE session'[1][p].turns = 0
    BY <1>2, <1>9, <2>2, OneType DEF Untouched
  <2> QED
    BY <1>2, <1>5, <1>7, <1>9, <2>1, <2>2 DEF Untouched
<1>13. Once'
  <2>1. \A n \in Turn : n = Turns + 1 => submits[client.q][n] = 0
    BY <1>2, OneType DEF Untouched
  <2> QED
    BY <1>1, <1>2, <1>5, <1>6, <1>7, <1>9, <2>1 DEF Once
<1> QED
  BY <1>10, <1>11, <1>12, <1>13

\* With a task that goes on to the next question, all of this one is saved.
LEMMA SavedBeforeNext ==
    ASSUME IInv, OneThing, AllSaved, NEW t \in tasks, t.pc \in {"resolve", "push"}
    PROVE  \A n \in transcripts[client.q] : submits[client.q][n] > 0
<1>1. pc[1] # "deciding" /\ \A n : ~ Unsaved(n)
  BY DEF OneThing, Unsaved
<1> QED
  BY <1>1 DEF AllSaved

LEMMA ResolvedCalm ==
    ASSUME IInv, CalmInv, Calm', NEW t \in tasks, Resolved(t) PROVE CalmParts'
<1> USE DEF CalmParts
<1> DEFINE q == NextQuestion
           u == [t EXCEPT !.pc = "push", !.next = q]
<1>1. hit' = hit
  BY DEF Resolved, luck
<1>2. OneThing /\ AllSaved /\ Untouched /\ Once
  BY <1>1, CalmBefore DEF CalmInv
<1>3. CASE q = 0
  <2>1. Hears /\ TasksGoOn
    BY <1>3, TaskFields, HearsOver, DoneGoesOn DEF Resolved
  <2>2. QuietStep
    BY <1>3, <2>1, JavaAdvances, LuckKept DEF Resolved, QuietStep, Hears, IInv, TypeOK
  <2>3. client'.phase = "over"
    <3>1. t.conn = client.conn
      BY <1>2, OneTask
    <3> QED
      BY <1>3, <3>1 DEF Resolved, Tell, IInv, TypeOK
  <2>4. MayRecord /\ tasks' = {} /\ submits' = submits /\ "back" \notin hit'
    BY <1>1, <1>2, <1>3, OnlyTask DEF Resolved, MayRecord, AllSaved
  <2> QED
    BY <1>2, <2>2, <2>3, <2>4, CalmDone, CalmStepKeeps
<1>4. CASE q # 0
  <2>1. /\ t.conn = 1 /\ client.conn = 1 /\ t.q = client.q /\ Recorded(client.q)
        /\ t.pc = "resolve" /\ pc[1] # "deciding" /\ client.phase # "answering"
    BY <1>2, OneTask DEF Resolved, OwnTask, OneThing
  <2>2. q \in Question /\ client.q < q
    <3>1. client.q \in Question /\ client.q <= newest
      BY OneType DEF IInv, PaperInv
    <3> QED
      BY <1>4, <2>1, <3>1, JavaAdvances DEF Resolved
  <2>3. tasks' = {u} /\ client' = client /\ pc' = pc /\ transcripts' = transcripts
        /\ submits' = submits
    BY <1>2, <1>4 DEF Resolved, Goto, OneThing
  <2>4. u.pc = "push" /\ u.q = client.q
    BY <2>1, TaskFields DEF Task
  <2> HIDE DEF u
  <2>5. PICK last \in BOOLEAN :
            session' = [session EXCEPT ![1][q] = [turns |-> 0, last |-> last]]
    BY <1>4, <2>1 DEF Resolved
  <2>6. /\ session'[1][q].turns = 0
        /\ \A p \in Question : p # q => session'[1][p] = session[1][p]
    BY <2>2, <2>5, OneType DEF IInv, TypeOK
  <2>7. Turns' = Turns
    BY <2>2, <2>3, <2>6, OneType DEF Turns
  <2>8. OneThing'
    BY <1>2, <2>1, <2>3, <2>4, <2>7 DEF OneThing
  <2>9. AllSaved'
    <3>1. \A n \in transcripts[client.q] : submits[client.q][n] > 0
      BY <1>2, <2>1, SavedBeforeNext
    <3> QED
      BY <1>1, <1>2, <2>3, <3>1 DEF AllSaved
  <2>10. Untouched'
    BY <1>2, <2>3, <2>6, <2>7 DEF Untouched
  <2>11. Once'
    BY <1>1, <1>2, <2>3, <2>4 DEF Once
  <2> QED
    BY <2>8, <2>9, <2>10, <2>11
<1> QED
  BY <1>3, <1>4

LEMMA PushCalm == ASSUME IInv, CalmInv, Calm', NEW t \in tasks, Push(t) PROVE CalmParts'
<1> USE DEF CalmParts
<1>1. hit' = hit
  BY DEF Push, luck
<1>2. OneThing /\ AllSaved /\ Untouched /\ Once
  BY <1>1, CalmBefore DEF CalmInv
<1>3. /\ t.conn = 1 /\ client.conn = 1 /\ t.next \in Question /\ t.next > client.q
      /\ pc[1] # "deciding"
  BY <1>2, OneTask DEF Push, OwnTask, OneThing, IInv, TaskInv
<1>4. tasks' = {} /\ submits' = submits /\ transcripts' = transcripts /\ pc' = pc /\ session' = session
  BY <1>2, OnlyTask DEF Push, java
<1>5. client'.conn = 1 /\ client'.q = t.next
  BY <1>3 DEF Push, Tell, IInv, TypeOK
<1>6. Turns' = 0
  BY <1>2, <1>3, <1>4, <1>5 DEF Turns, Untouched
<1>7. OneThing'
  BY <1>2, <1>3, <1>4, <1>5 DEF OneThing
<1>8. \A n \in transcripts[client.q] : submits[client.q][n] > 0
  BY <1>2, SavedBeforeNext DEF Push
<1>9. AllSaved'
  <2>1. ASSUME NEW p \in Question, p < t.next, NEW n \in transcripts[p] PROVE submits[p][n] > 0
    <3>1. CASE p < client.q
      BY <1>2, <3>1, <2>1 DEF AllSaved
    <3>2. CASE p = client.q
      BY <1>8, <3>2, <2>1
    <3>3. CASE p > client.q
      BY <1>2, <3>3, <2>1 DEF Untouched
    <3> QED
      BY <3>1, <3>2, <3>3, OneType
  <2>2. transcripts[t.next] = {}
    BY <1>2, <1>3 DEF Untouched
  <2> QED
    BY <1>1, <1>2, <1>4, <1>5, <2>1, <2>2 DEF AllSaved
<1>10. Untouched'
  <2>1. \A p \in Question : p > t.next => p > client.q
    BY <1>3, OneType
  <2>2. \A n \in Turn : submits[t.next][n] = 0
    BY <1>2, <1>3 DEF Untouched
  <2> QED
    BY <1>2, <1>4, <1>5, <2>1, <2>2 DEF Untouched
<1>11. Once'
  BY <1>1, <1>2, <1>4 DEF Once
<1> QED
  BY <1>7, <1>9, <1>10, <1>11

LEMMA InitCalm == Init => CalmInv
<1> SUFFICES ASSUME Init PROVE CalmParts
  BY DEF CalmInv, CalmParts
<1>1. 1 \in Question /\ 1 \in Conn
  BY BoundAssumption DEF Question, Conn
<1>2. /\ client.conn = 1 /\ client.q = 1 /\ tasks = {} /\ hit = {}
      /\ \A k \in Conn : pc[k] = IF k = 1 THEN "idle" ELSE "unused"
      /\ \A p \in Question : transcripts[p] = {} /\ session[1][p].turns = 0
      /\ \A p \in Question, n \in Turn : submits[p][n] = 0
  BY <1>1 DEF Init, NoSession
<1> QED
  BY <1>1, <1>2 DEF CalmParts, OneThing, AllSaved, Untouched, Once

LEMMA CalmKept == ASSUME IInv, CalmInv, [Next]_vars, Calm' PROVE CalmParts'
<1> USE DEF CalmParts
<1>1. ASSUME NEW t \in tasks, TaskStep(t) \/ TaskTimesOut(t) PROVE CalmParts'
  <2>1. CASE Resolved(t) \/ Push(t)
    BY <2>1, ResolvedCalm, PushCalm
  <2>2. CASE ~ (Resolved(t) \/ Push(t))
    <3>1. QuietStep
      BY <1>1, <2>2, CorrectedQuiet, SubmittedQuiet, QuotaQuiet, SubmitFailsQuiet,
         ResolveFailsQuiet, TimesOutQuiet DEF TaskStep
    <3>2. CalmParts
      BY <3>1, CalmBefore DEF QuietStep, CalmInv
    <3>3. CalmStep
      BY <1>1, <2>2, <3>2, CorrectedCalm, SubmittedCalm, QuotaCalm, SubmitFailsCalm,
         ResolveFailsCalm, TimesOutCalm DEF TaskStep
    <3> QED
      BY <3>2, <3>3, CalmStepKeeps
  <2> QED
    BY <2>1, <2>2
<1>2. ASSUME NEW k \in Conn, Prefetched(k) PROVE CalmParts'
  <2>1. CalmParts
    BY <1>2, PrefetchedQuiet, CalmBefore DEF QuietStep, CalmInv
  <2> QED
    BY <1>2, <2>1, PrefetchedCalm, CalmStepKeeps
<1>3. ASSUME NEW k \in Conn, Close(k) \/ Resume(k) PROVE FALSE
  <2>1. hit \subseteq hit'
    BY <1>3 DEF Close, Resume, luck
  <2>2. OneThing
    BY <2>1, CalmBefore DEF CalmInv
  <2> QED
    BY <1>3, <2>2 DEF Close, Resume, OneThing
<1>4. ASSUME Disconnect \/ Crash PROVE FALSE
  BY <1>4 DEF Disconnect, Crash, ConnectionLost, Fault, Calm
<1>5. CASE UNCHANGED vars
  <2>1. CalmParts
    BY <1>5, CalmBefore DEF vars, CalmInv
  <2> QED
    BY <1>5, <2>1 DEF vars, OneThing, AllSaved, Untouched, Once, Turns, Unsaved
<1>6. CASE \E k \in Conn : TurnEnd(k) \/ \E continue \in BOOLEAN : Decide(k, continue)
  BY <1>6, TurnEndCalm, DecideCalm
<1> QED
  BY <1>1, <1>2, <1>3, <1>4, <1>5, <1>6 DEF Next

THEOREM IInvHolds == Spec => []IInv
<1>1. ASSUME IInv, [Next]_vars PROVE IInv'
  <2>1. CASE \E k \in Conn : TurnEnd(k) \/ Prefetched(k) \/ Close(k) \/ Resume(k)
    BY <1>1, <2>1, TurnEndKeeps, PrefetchedQuiet, QuietKeeps, CloseKeeps, ResumeKeeps
  <2>2. CASE \E k \in Conn : \E continue \in BOOLEAN : Decide(k, continue)
    BY <1>1, <2>2, DecideKeeps
  <2>3. ASSUME NEW t \in tasks, TaskStep(t) \/ TaskTimesOut(t) PROVE IInv'
    <3>1. CASE Corrected(t) \/ Submitted(t) \/ QuotaExceeded(t) \/ SubmitFails(t)
      BY <1>1, <3>1, CorrectedQuiet, SubmittedQuiet, QuotaQuiet, SubmitFailsQuiet, QuietKeeps
    <3>2. CASE ResolveFails(t) \/ TaskTimesOut(t)
      BY <1>1, <3>2, ResolveFailsQuiet, TimesOutQuiet, QuietKeeps
    <3>3. CASE Resolved(t) \/ Push(t)
      BY <1>1, <3>3, ResolvedKeeps, PushKeeps
    <3> QED
      BY <2>3, <3>1, <3>2, <3>3 DEF TaskStep
  <2>4. CASE Disconnect \/ Crash
    BY <1>1, <2>4, DisconnectKeeps, CrashKeeps
  <2>5. CASE UNCHANGED vars
    BY <1>1, <2>5, StutterKeeps
  <2> QED
    BY <1>1, <2>1, <2>2, <2>3, <2>4, <2>5 DEF Next
<1> QED
  BY <1>1, InitIInv, PTL DEF Spec

THEOREM CalmHolds == Spec => []CalmInv
<1>1. ASSUME IInv, CalmInv, [Next]_vars PROVE CalmInv'
  BY <1>1, CalmKept DEF CalmInv, CalmParts
<1> QED
  BY <1>1, InitCalm, IInvHolds, PTL DEF Spec

\* Whatever goes wrong, the state of the session is typed: no turn and no question
\* passes its bound.
THEOREM TypeCorrect == Spec => []TypeOK
<1>1. IInv => TypeOK
  BY DEF IInv
<1> QED
  BY <1>1, IInvHolds, PTL

\* For any number of questions, turns, connections and faults: a student who is not
\* taken back is never asked a question twice, and no question is left out.
THEOREM QuestionsComeOnce == Spec => []AskedOnceInOrder
<1>1. IInv => AskedOnceInOrder
  <2> SUFFICES ASSUME IInv, NEW q \in Question
               PROVE  /\ pushed[q] <= 1 \/ "back" \in hit
                      /\ pushed[q] > 0 => \A p \in 1 .. q - 1 : pushed[p] > 0 \/ transcripts[p] # {}
    BY DEF AskedOnceInOrder
  <2>1. pushed[q] <= 1 \/ "back" \in hit
    <3>1. pushed[q] \in 0 .. 2
      BY DEF IInv, TypeOK
    <3>2. "back" \notin hit /\ pushed[q] > 0 => pushed[q] = 1
      BY DEF IInv, PushedInv
    <3> QED
      BY <3>1, <3>2
  <2>2. ASSUME pushed[q] > 0, NEW p \in 1 .. q - 1 PROVE transcripts[p] # {}
    <3>1. q <= newest /\ newest \in Int /\ q \in Int /\ q <= MaxQuestion
      BY <2>2 DEF IInv, PaperInv, TypeOK, Question
    <3>2. p \in Question /\ p < newest
      BY <3>1, BoundAssumption DEF Question
    <3> QED
      BY <3>2 DEF IInv, PaperInv
  <2> QED
    BY <2>1, <2>2
<1> QED
  BY <1>1, IInvHolds, PTL

\* For any number of submits, retries and time-outs: while the student is paced and the
\* connection lasts, no question comes before every turn of the earlier ones is recorded.
THEOREM TurnsAreSavedFirst == Spec => []RecordedBeforeNext
<1>1. IInv /\ CalmInv => RecordedBeforeNext
  <2> SUFFICES ASSUME IInv, CalmInv, Calm, NEW q \in Question, pushed[q] > 0,
                      NEW p \in 1 .. q - 1, NEW n \in transcripts[p]
               PROVE  submits[p][n] > 0
    BY DEF RecordedBeforeNext, Calm
  <2>1. AllSaved
    BY DEF CalmInv
  <2>2. q <= client.q /\ client.q \in Int /\ q \in Int /\ q <= MaxQuestion
    BY <2>1 DEF AllSaved, IInv, PushedInv, TypeOK, Question
  <2>3. p \in Question /\ p < client.q
    BY <2>2, BoundAssumption DEF Question
  <2> QED
    BY <2>1, <2>3 DEF AllSaved
<1> QED
  BY <1>1, IInvHolds, CalmHolds, PTL

\* For any number of questions and turns: nothing but a failed submit, an early student
\* or a resume submits a turn again.
THEOREM TurnsAreChargedOnce == Spec => []SubmittedOnce
<1>1. IInv /\ CalmInv => SubmittedOnce
  <2> SUFFICES ASSUME IInv, CalmInv, NEW q \in Question, NEW n \in Turn, submits[q][n] > 1,
                      hit \cap {"submit", "lost", "unpaced"} = {}
               PROVE  FALSE
    BY DEF SubmittedOnce
  <2>1. Calm /\ "submit" \notin hit
    BY DEF Calm
  <2>2. submits[q][n] <= 1
    BY <2>1 DEF CalmInv, Once
  <2> QED
    BY <2>2, OneType
<1> QED
  BY <1>1, IInvHolds, CalmHolds, PTL
=============================================================================
