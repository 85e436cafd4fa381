------------------------ MODULE TurnPublisher_proofs ------------------------
(***************************************************************************)
(* Proofs about TurnPublisher, for every MaxTurn, MaxEntry, set of takes   *)
(* and bound on faults: all of its safety properties, without any          *)
(* assumption on how callers, archive runs, connections and faults overlap *)
(***************************************************************************)
EXTENDS TurnPublisher, TLAPS

-----------------------------------------------------------------------------
(* The inductive invariant *)

\* The words of turn n: nothing, or what was said in it.
Mine(n) == {Blank} \cup {c \in Take : spoken[c] = n}

\* A transcript of turn n is in the thread, unless one was not stored or erased.
Known(n) == n \in missed \/ HasTranscript(th, n)

\* Words that may be published for turn n: the thread's, if it has any.
Fits(w, n) ==
    /\ w \in Mine(n)
    /\ n \in missed \/ (HasTranscript(th, n) /\ th.transcripts[n] \in {w, Blank})

\* What a thread, or the copy an archive run loaded, holds of a turn is true, and
\* its transcript is still the thread's.
ThreadJustified(t) ==
    \A n \in Turns :
        /\ n \in t.published => sent[n].full > 0
        /\ n \in t.preliminary => sent[n].preliminary > 0
        /\ t.turns[n].count <= 1
        /\ HasTurn(t, n) => n \in archived /\ Fits(t.turns[n].first, n)
        /\ HasTranscript(t, n) => /\ t.transcripts[n] \in Mine(n)
                                  /\ n \in missed \/ t.transcripts[n] = th.transcripts[n]

\* A publisher, or the request it left under way, has a reason for where it is.
TaskJustified(r) ==
    /\ r.pc \in {"decide", "check"} => Known(r.turn)
    /\ r.pc \in {"sendPreliminary", "recheck", "sendFull"} => Fits(r.take, r.turn)
    /\ r.pc = "markPreliminary" => sent[r.turn].preliminary > 0
    /\ r.pc = "wait" => r.turn \in missed \/ sent[r.turn].preliminary > 0
    /\ r.pc \in {"recheck", "sendFull"} => r.turn \in archived
    /\ r.pc = "markFull" => sent[r.turn].full > 0

JobJustified(j) ==
    /\ j.pc \in {"upload", "transcribe"} => Known(j.turn) /\ j.take \in Mine(j.turn)
    /\ j.pc = "append" => Fits(j.take, j.turn)
    /\ ThreadJustified(j.snap)

SpokenJustified(c) ==
    /\ spoken[c] # 0 => Known(spoken[c])
    /\ call[c].pc \in {"idle", "recover"} => spoken[c] = 0
    /\ call[c].pc = "decide" => spoken[c] \in {0, call[c].turn}

RowJustified(n) == row[n].phase # "none" => Fits(row[n].take, n)

\* A recording that is on its way to the archive, or its transcript, is words.
JobHasWords ==
    \A c \in Take : arch[c].pc \in {"upload", "transcribe", "append"} => arch[c].take \in Words

Typed == TypeOK /\ JobHasWords

IInv ==
    /\ Typed
    /\ ThreadJustified(th)
    /\ \A c \in Take : TaskJustified(call[c]) /\ JobJustified(arch[c]) /\ SpokenJustified(c)
    /\ \A r \in left : TaskJustified(r)
    /\ \A n \in Turns : RowJustified(n)
    /\ FullHasRecording

-----------------------------------------------------------------------------
(* Types *)

\* A thread nobody wrote to holds nothing.
LEMMA EmptyThreadLemma ==
    /\ EmptyThread \in Thread
    /\ EmptyThread.published = {} /\ EmptyThread.preliminary = {}
    /\ \A n \in Turns : /\ EmptyThread.turns[n].count = 0
                        /\ ~HasTurn(EmptyThread, n) /\ ~HasTranscript(EmptyThread, n)
  BY MaxEntryAssumption DEF EmptyThread, Thread, Heard, HasTurn, HasTranscript

\* The values a task or an archive run starts from and ends with.
LEMMA EndedLemma ==
    /\ NoTask \in Task /\ Ended \in Task
    /\ NoJob \in Job /\ JobOver \in Job
<1>1. "idle" \in TaskPc /\ "done" \in TaskPc /\ 1 \in Turns
  BY MaxTurnAssumption DEF TaskPc, Turns
<1>2. NoTask \in Task
  BY <1>1 DEF NoTask, Task, Heard
<1>3. Ended \in Task
  BY <1>1 DEF Ended, NoTask, Task, Heard
<1>4. NoJob \in Job /\ JobOver \in Job
  BY <1>1, EmptyThreadLemma DEF JobOver, NoJob, Job, JobPc, Heard
<1>5. QED
  BY <1>2, <1>3, <1>4

\* What the writes to a thread return.
LEMMA ThreadLemma ==
    ASSUME NEW t \in Thread, NEW n \in Turns, NEW w \in Words
    PROVE  /\ t.turns[n].first \in Heard /\ t.transcripts[n] \in Heard
           /\ AddTranscript(t, n, w) \in Thread
           /\ [t EXCEPT !.preliminary = @ \cup {n}] \in Thread
           /\ [t EXCEPT !.published = @ \cup {n}] \in Thread
           /\ AppendTurn(t, n, w) \in Thread
<1>1. AppendTurn(t, n, w) \in Thread
  BY MaxEntryAssumption DEF AppendTurn, HasTurn, Thread, Heard, Words
<1>2. QED
  BY <1>1 DEF Thread, Heard, Words, AddTranscript

\* The transcript of a recording is words.
LEMMA TranscriptType ==
    ASSUME NEW t, NEW n, NEW w \in Words PROVE TranscriptOf(t, n, w) \in Words
  BY DEF TranscriptOf, Words

\* A publisher or an archive run that only goes on keeps its type.
LEMMA TaskEdit ==
    ASSUME NEW r \in Task, NEW pc \in TaskPc, NEW w \in Heard
    PROVE  /\ [r EXCEPT !.pc = pc] \in Task
           /\ [r EXCEPT !.pc = pc, !.take = w] \in Task
           /\ [r EXCEPT !.live = FALSE] \in Task
  BY DEF Task

\* Every step keeps the types.
LEMMA TypeStep == Typed /\ [Next]_vars => Typed'
<1> SUFFICES ASSUME Typed, [Next]_vars PROVE Typed'
  OBVIOUS
<1>1. /\ call \in [Take -> Task] /\ arch \in [Take -> Job] /\ th \in Thread
      /\ row \in [Turns -> Row] /\ left \subseteq Task
      /\ sent \in [Turns -> [preliminary : Nat, full : Nat]]
      /\ archived \subseteq Turns /\ missed \subseteq Turns /\ cut \subseteq Turns
      /\ spoken \in [Take -> Turns \cup {0}] /\ faults \in Nat
  BY DEF Typed, TypeOK
<1>2. \A c \in Take : /\ call[c].turn \in Turns /\ call[c].take \in Heard
                      /\ arch[c].turn \in Turns /\ arch[c].take \in Heard
                      /\ arch[c].snap \in Thread
  BY <1>1 DEF Task, Job
<1>3. /\ \A r \in left : r.turn \in Turns /\ r.take \in Heard
      /\ \A n \in Turns : th.transcripts[n] \in Heard /\ th.turns[n].first \in Heard
      /\ NoTake \in Heard /\ Blank \in Words /\ Take \subseteq Words /\ Words \subseteq Heard
  BY <1>1 DEF Task, Heard, Words, Thread
<1>4. /\ session \in Session /\ NoSession \in Session
      /\ \A b \in BOOLEAN : [session EXCEPT !.busy = b] \in Session
      /\ \A n \in Turns : [session EXCEPT !.busy = FALSE, !.next = n + 1] \in Session
      /\ \A b \in BOOLEAN, n \in 1 .. MaxTurn + 1 : [up |-> TRUE, busy |-> b, next |-> n] \in Session
  <2>1. 1 \in 1 .. MaxTurn + 1 /\ \A n \in Turns : n + 1 \in 1 .. MaxTurn + 1
    BY MaxTurnAssumption DEF Turns
  <2>2. QED
    BY <2>1 DEF Typed, TypeOK, Session, NoSession
<1>5. \A r \in Task, pc \in TaskPc :
         /\ [r EXCEPT !.pc = pc] \in Task
         /\ \A w \in Heard : [r EXCEPT !.pc = pc, !.take = w] \in Task
  BY <1>3, TaskEdit
<1>6. /\ NoTask \in Task /\ Ended \in Task /\ NoJob \in Job /\ JobOver \in Job
      /\ JobOver.pc = "done"
  BY EndedLemma DEF JobOver, NoJob
<1>7. arch' = arch => JobHasWords'
  BY DEF Typed, JobHasWords
<1>8. ASSUME NEW n \in Turns, NEW p \in Phase, NEW w \in Heard
      PROVE  /\ [row EXCEPT ![n] = [phase |-> p, take |-> w]] \in [Turns -> Row]
             /\ [sent EXCEPT ![n].preliminary = @ + 1] \in [Turns -> [preliminary : Nat, full : Nat]]
             /\ [sent EXCEPT ![n].full = @ + 1] \in [Turns -> [preliminary : Nat, full : Nat]]
             /\ [th EXCEPT !.preliminary = @ \cup {n}] \in Thread
             /\ [th EXCEPT !.published = @ \cup {n}] \in Thread
  <2>1. [row EXCEPT ![n] = [phase |-> p, take |-> w]] \in [Turns -> Row]
    BY <1>1 DEF Row
  <2>2. /\ [sent EXCEPT ![n].preliminary = @ + 1] \in [Turns -> [preliminary : Nat, full : Nat]]
        /\ [sent EXCEPT ![n].full = @ + 1] \in [Turns -> [preliminary : Nat, full : Nat]]
    BY <1>1
  <2>3. /\ [th EXCEPT !.preliminary = @ \cup {n}] \in Thread
        /\ [th EXCEPT !.published = @ \cup {n}] \in Thread
    BY <1>1 DEF Thread
  <2>4. QED
    BY <2>1, <2>2, <2>3
<1>9. /\ {"preliminary", "full"} \subseteq Phase
      /\ {"recover", "decide", "check", "sendPreliminary", "markPreliminary", "wait",
          "recheck", "sendFull", "markFull", "done"} \subseteq TaskPc
      /\ {"upload", "transcribe", "append", "done"} \subseteq JobPc
  BY DEF Phase, TaskPc, JobPc
<1>10. ASSUME NEW c \in Take, NEW w \in {c, Blank}, TurnEnd(c, w) PROVE Typed'
  <2>1. session.next \in Turns
    <3>1. session.next \in 1 .. MaxTurn + 1
      BY <1>4 DEF Session
    <3>2. session.next <= MaxTurn
      BY <1>10 DEF TurnEnd
    <3>3. QED
      BY <3>1, <3>2, MaxTurnAssumption DEF Turns
  <2>2. call' \in [Take -> Task]
    BY <1>10, <1>1, <1>3, <1>9, <2>1 DEF TurnEnd, Task
  <2>3. AddTranscript(th, session.next, w) \in Thread
    BY <1>1, <1>3, <2>1, ThreadLemma
  <2>4. th' \in Thread /\ missed' \subseteq Turns
    BY <1>10, <1>1, <2>1, <2>3 DEF TurnEnd
  <2>5. session' \in Session
    BY <1>10, <1>4 DEF TurnEnd
  <2>6. spoken' \in [Take -> Turns \cup {0}]
    BY <1>10, <1>1, <2>1 DEF TurnEnd
  <2>7. faults' \in Nat
    BY <1>10, <1>1 DEF TurnEnd, Fault
  <2>8. QED
    BY <1>10, <1>1, <1>7, <2>1, <2>2, <2>3, <2>4, <2>5, <2>6, <2>7 DEF Typed, TypeOK, TurnEnd
<1>11. ASSUME NEW c \in Take, Decide(c) PROVE Typed'
  <2>1. [NoTask EXCEPT !.pc = "check", !.turn = call[c].turn] \in Task
    BY <1>2, <1>6, <1>9 DEF Task
  <2>2. call' \in [Take -> Task]
    BY <1>11, <1>1, <2>1 DEF Decide
  <2>3. [arch[c] EXCEPT !.pc = "upload", !.turn = call[c].turn, !.take = c] \in Job
    BY <1>1, <1>2, <1>3, <1>9 DEF Job
  <2>4. arch' \in [Take -> Job]
    BY <1>11, <1>1, <2>3 DEF Decide
  <2>5. session' \in Session
    BY <1>11, <1>2, <1>4 DEF Decide
  <2>6. JobHasWords'
    BY <1>11, <1>1, <1>3 DEF Decide, Typed, JobHasWords, Job
  <2>7. QED
    BY <1>11, <1>1, <1>7, <2>1, <2>2, <2>3, <2>4, <2>5, <2>6 DEF Typed, TypeOK, Decide
<1>12. ASSUME Drop PROVE Typed'
  <2>1. \A d \in Take : [call[d] EXCEPT !.live = FALSE] \in Task
    BY <1>1 DEF Task
  <2>2. call' \in [Take -> Task]
    BY <1>12, <2>1 DEF Drop, Orphaned
  <2>3. session' \in Session
    BY <1>12, <1>4 DEF Drop
  <2>4. QED
    BY <1>12, <1>1, <1>7, <2>1, <2>2, <2>3 DEF Typed, TypeOK, Drop
<1>13. ASSUME QuestionStart PROVE Typed'
  <2>1. session' \in Session
    BY <1>13, <1>4 DEF QuestionStart
  <2>2. QED
    BY <1>13, <1>1, <1>7, <2>1 DEF Typed, TypeOK, QuestionStart
<1>14. ASSUME NEW c \in Take, Resume(c) PROVE Typed'
  <2>1. call' \in [Take -> Task]
    BY <1>14, <1>1, <1>3, <1>9 DEF Resume, Task
  <2>2. Turns \subseteq 1 .. MaxTurn + 1
    BY MaxTurnAssumption DEF Turns
  <2>3. session' \in Session
    BY <1>14, <1>4, <2>2 DEF Resume
  <2>4. QED
    BY <1>14, <1>1, <1>7, <2>1, <2>2, <2>3 DEF Typed, TypeOK, Resume
<1>15. ASSUME NEW c \in Take, RecoverPending(c) PROVE Typed'
  <2>1. [call[c] EXCEPT !.pc = "decide"] \in Task
    BY <1>1, <1>5, <1>9
  <2>2. call' \in [Take -> Task]
    BY <1>15, <1>1, <1>6, <2>1 DEF RecoverPending, Goto, End
  <2>3. session' \in Session
    BY <1>15, <1>4 DEF RecoverPending
  <2>4. QED
    BY <1>15, <1>1, <1>7, <2>1, <2>2, <2>3 DEF Typed, TypeOK, RecoverPending
<1>16. ASSUME NEW c \in Take, CheckBefore(c) PROVE Typed'
  <2>1. \A w \in Heard : [call[c] EXCEPT !.pc = "sendPreliminary", !.take = w] \in Task
    BY <1>1, <1>5, <1>9
  <2>2. [call[c] EXCEPT !.pc = "wait"] \in Task
    BY <1>1, <1>5, <1>9
  <2>3. call' \in [Take -> Task]
    BY <1>16, <1>1, <1>2, <1>3, <1>6, <2>1, <2>2 DEF CheckBefore
  <2>4. QED
    BY <1>16, <1>1, <1>7, <2>1, <2>2, <2>3 DEF Typed, TypeOK, CheckBefore
<1>17. ASSUME NEW c \in Take, SendPreliminary(c) PROVE Typed'
  <2>1. [call[c] EXCEPT !.pc = "markPreliminary", !.take = NoTake] \in Task
    BY <1>1, <1>3, <1>5, <1>9
  <2>2. call' \in [Take -> Task]
    BY <1>17, <1>1, <2>1 DEF SendPreliminary
  <2>3. row' \in [Turns -> Row] /\ sent' \in [Turns -> [preliminary : Nat, full : Nat]]
    BY <1>17, <1>2, <1>8, <1>9 DEF SendPreliminary
  <2>4. QED
    BY <1>17, <1>1, <1>7, <2>1, <2>2, <2>3 DEF Typed, TypeOK, SendPreliminary
<1>18. ASSUME NEW c \in Take, MarkPreliminary(c) PROVE Typed'
  <2>1. [call[c] EXCEPT !.pc = "wait"] \in Task
    BY <1>1, <1>5, <1>9
  <2>2. call' \in [Take -> Task]
    BY <1>18, <1>1, <2>1 DEF MarkPreliminary, Goto
  <2>3. th' \in Thread
    BY <1>18, <1>2, <1>3, <1>8, <1>9 DEF MarkPreliminary
  <2>4. QED
    BY <1>18, <1>1, <1>7, <2>1, <2>2, <2>3 DEF Typed, TypeOK, MarkPreliminary
<1>19. ASSUME NEW c \in Take, SeeTurn(c) PROVE Typed'
  <2>1. \A w \in Heard : [call[c] EXCEPT !.pc = "recheck", !.take = w] \in Task
    BY <1>1, <1>5, <1>9
  <2>2. call' \in [Take -> Task]
    BY <1>19, <1>1, <1>2, <1>3, <2>1 DEF SeeTurn
  <2>3. QED
    BY <1>19, <1>1, <1>7, <2>1, <2>2 DEF Typed, TypeOK, SeeTurn
<1>20. ASSUME NEW c \in Take, WaitExpires(c) PROVE Typed'
  <2>1. call' \in [Take -> Task]
    BY <1>20, <1>1, <1>6 DEF WaitExpires, End
  <2>2. QED
    BY <1>20, <1>1, <1>7, <2>1 DEF Typed, TypeOK, WaitExpires
<1>21. ASSUME NEW c \in Take, Recheck(c) PROVE Typed'
  <2>1. \A w \in Heard : [call[c] EXCEPT !.pc = "sendFull", !.take = w] \in Task
    BY <1>1, <1>5, <1>9
  <2>2. [call[c] EXCEPT !.pc = "sendFull"] \in Task
    BY <1>1, <1>5, <1>9
  <2>3. call' \in [Take -> Task]
    BY <1>21, <1>1, <1>2, <1>3, <1>6, <2>1, <2>2 DEF Recheck
  <2>4. QED
    BY <1>21, <1>1, <1>7, <2>1, <2>2, <2>3 DEF Typed, TypeOK, Recheck
<1>22. ASSUME NEW c \in Take, SendFull(c) PROVE Typed'
  <2>1. [call[c] EXCEPT !.pc = "markFull", !.take = NoTake] \in Task
    BY <1>1, <1>3, <1>5, <1>9
  <2>2. call' \in [Take -> Task]
    BY <1>22, <1>1, <2>1 DEF SendFull
  <2>3. row' \in [Turns -> Row] /\ sent' \in [Turns -> [preliminary : Nat, full : Nat]]
    BY <1>22, <1>2, <1>8, <1>9 DEF SendFull
  <2>4. QED
    BY <1>22, <1>1, <1>7, <2>1, <2>2, <2>3 DEF Typed, TypeOK, SendFull
<1>23. ASSUME NEW c \in Take, MarkFull(c) PROVE Typed'
  <2>1. call' \in [Take -> Task]
    BY <1>23, <1>1, <1>6 DEF MarkFull, End
  <2>2. th' \in Thread
    BY <1>23, <1>2, <1>3, <1>8, <1>9 DEF MarkFull
  <2>3. QED
    BY <1>23, <1>1, <1>7, <2>1, <2>2 DEF Typed, TypeOK, MarkFull
<1>24. ASSUME NEW c \in Take, Abort(c) PROVE Typed'
  <2>1. call' \in [Take -> Task] /\ left' \subseteq Task
    BY <1>24, <1>1, <1>6 DEF Abort, End
  <2>2. session' \in Session
    BY <1>24, <1>4 DEF Abort
  <2>3. faults' \in Nat /\ cut' \subseteq Turns
    BY <1>24, <1>1, <1>2 DEF Abort, Fault
  <2>4. QED
    BY <1>24, <1>1, <1>7, <2>1, <2>2, <2>3 DEF Typed, TypeOK, Abort
<1>25. ASSUME NEW r \in left, Lands(r) PROVE Typed'
  <2>1. r \in Task /\ r.turn \in Turns /\ r.take \in Heard
    BY <1>1, <1>3
  <2>2. th' \in Thread
    BY <1>25, <1>1, <1>3, <1>8, <1>9, <2>1 DEF Lands
  <2>3. row' \in [Turns -> Row] /\ sent' \in [Turns -> [preliminary : Nat, full : Nat]]
    <3>1. CASE r.pc = "sendPreliminary"
      <4>1. /\ row' = [row EXCEPT ![r.turn] = [phase |-> "preliminary", take |-> r.take]]
            /\ sent' = [sent EXCEPT ![r.turn].preliminary = @ + 1]
        BY <3>1, <1>25 DEF Lands
      <4>2. QED
        BY <4>1, <1>8, <1>9, <2>1
    <3>2. CASE r.pc = "sendFull"
      <4>1. /\ row' = [row EXCEPT ![r.turn] = [phase |-> "full", take |-> r.take]]
            /\ sent' = [sent EXCEPT ![r.turn].full = @ + 1]
        BY <3>2, <1>25 DEF Lands
      <4>2. QED
        BY <4>1, <1>8, <1>9, <2>1
    <3>3. CASE r.pc \notin {"sendPreliminary", "sendFull"}
      BY <3>3, <1>25, <1>1 DEF Lands
    <3>4. QED
      BY <3>1, <3>2, <3>3
  <2>4. left' \subseteq Task /\ UNCHANGED <<session, call, arch, archived, spoken, missed, cut, faults>>
    BY <1>25, <1>1 DEF Lands
  <2>5. QED
    BY <1>7, <2>2, <2>3, <2>4 DEF Typed, TypeOK
<1>26. ASSUME NEW c \in Take, NEW d \in Take, PostArchive(c, d) PROVE Typed'
  <2>1. spoken[d] \in Turns
    BY <1>26, <1>1 DEF PostArchive
  <2>2. [arch[c] EXCEPT !.pc = "upload", !.turn = spoken[d], !.take = d] \in Job
    BY <1>1, <1>3, <1>9, <2>1 DEF Job
  <2>3. arch' \in [Take -> Job]
    BY <1>26, <1>1, <2>2 DEF PostArchive
  <2>4. JobHasWords'
    BY <1>26, <1>1, <1>3 DEF PostArchive, Typed, JobHasWords, Job
  <2>5. QED
    BY <1>26, <1>1, <1>7, <2>1, <2>2, <2>3, <2>4 DEF Typed, TypeOK, PostArchive
<1>27. ASSUME NEW c \in Take, ArchiveLoad(c) PROVE Typed'
  <2>1. arch' \in [Take -> Job]
    BY <1>27, <1>1, <1>9 DEF ArchiveLoad, Job
  <2>2. JobHasWords'
    BY <1>27, <1>1 DEF ArchiveLoad, Typed, JobHasWords, Job
  <2>3. QED
    BY <1>27, <1>1, <1>7, <2>1, <2>2 DEF Typed, TypeOK, ArchiveLoad
<1>28. ASSUME NEW c \in Take, ArchiveTranscribe(c) PROVE Typed'
  <2>1. PICK w \in {arch[c].take, Blank} :
            arch' = [arch EXCEPT ![c].pc = "append", ![c].take = TranscriptOf(arch[c].snap, arch[c].turn, w)]
    BY <1>28 DEF ArchiveTranscribe
  <2>2. w \in Words
    BY <1>28, <1>3 DEF ArchiveTranscribe, Typed, JobHasWords
  <2>3. TranscriptOf(arch[c].snap, arch[c].turn, w) \in Words
    BY <2>2, TranscriptType
  <2>4. arch' \in [Take -> Job] /\ JobHasWords'
    BY <1>1, <1>3, <1>9, <2>1, <2>3 DEF Typed, JobHasWords, Job
  <2>5. th' \in Thread /\ missed' \subseteq Turns
    BY <1>28, <1>1, <1>2 DEF ArchiveTranscribe, Overwrite
  <2>6. QED
    BY <1>28, <1>1, <1>7, <2>1, <2>2, <2>3, <2>4, <2>5 DEF Typed, TypeOK, ArchiveTranscribe
<1>29. ASSUME NEW c \in Take, ArchiveAppend(c) PROVE Typed'
  <2>1. arch' \in [Take -> Job]
    BY <1>29, <1>1, <1>6 DEF ArchiveAppend
  <2>2. JobHasWords'
    BY <1>29, <1>1, <1>6 DEF ArchiveAppend, Typed, JobHasWords, Job
  <2>3. AppendTurn(arch[c].snap, arch[c].turn, arch[c].take) \in Thread
    BY <1>29, <1>2, ThreadLemma DEF ArchiveAppend, Typed, JobHasWords
  <2>4. th' \in Thread /\ missed' \subseteq Turns /\ archived' \subseteq Turns
    BY <1>29, <1>1, <1>2, <2>3 DEF ArchiveAppend, Overwrite
  <2>5. QED
    BY <1>29, <1>1, <1>7, <2>1, <2>2, <2>3, <2>4 DEF Typed, TypeOK, ArchiveAppend
<1>30. ASSUME NEW c \in Take, ArchiveAbort(c) PROVE Typed'
  <2>1. arch' \in [Take -> Job]
    BY <1>30, <1>1, <1>6 DEF ArchiveAbort
  <2>2. JobHasWords'
    BY <1>30, <1>1, <1>6 DEF ArchiveAbort, Typed, JobHasWords, Job
  <2>3. faults' \in Nat
    BY <1>30, <1>1 DEF ArchiveAbort, Fault
  <2>4. QED
    BY <1>30, <1>1, <1>7, <2>1, <2>2, <2>3 DEF Typed, TypeOK, ArchiveAbort
<1>31. ASSUME Crash PROVE Typed'
  <2>1. call' \in [Take -> Task] /\ arch' \in [Take -> Job]
    BY <1>31, <1>1, <1>6 DEF Crash
  <2>2. JobHasWords'
    BY <1>31, <1>1, <1>6 DEF Crash, Typed, JobHasWords, Job
  <2>3. session' \in Session
    BY <1>31, <1>4 DEF Crash
  <2>4. cut' \subseteq Turns /\ faults' \in Nat /\ left' = {}
    BY <1>31, <1>1, <1>2 DEF Crash, Fault
  <2>5. QED
    BY <1>31, <1>1, <1>7, <2>1, <2>2, <2>3, <2>4 DEF Typed, TypeOK, Crash
<1>32. ASSUME UNCHANGED vars PROVE Typed'
  BY <1>32, <1>7 DEF Typed, TypeOK, vars
<1>33. QED
  BY <1>10, <1>11, <1>12, <1>13, <1>14, <1>15, <1>16, <1>17, <1>18, <1>19, <1>20, <1>21, <1>22, <1>23, <1>24, <1>25, <1>26, <1>27, <1>28, <1>29, <1>30, <1>31, <1>32 DEF Next, PublishStep, ArchiveStep

-----------------------------------------------------------------------------
(* The invariant is kept *)

\* What a thread, a publisher, an archive run or a row that a step writes has to
\* satisfy after it: the parts of IInv, in the next state.
FitsNext(w, n) ==
    /\ w = Blank \/ (w \in Take /\ spoken'[w] = n)
    /\ n \in missed' \/ (th'.transcripts[n] # NoTake /\ th'.transcripts[n] \in {w, Blank})

KnownNext(n) == n \in missed' \/ th'.transcripts[n] # NoTake

ThreadNext(t) ==
    \A n \in Turns :
        /\ n \in t.published => sent'[n].full > 0
        /\ n \in t.preliminary => sent'[n].preliminary > 0
        /\ t.turns[n].count <= 1
        /\ t.turns[n].count > 0 => n \in archived' /\ FitsNext(t.turns[n].first, n)
        /\ t.transcripts[n] # NoTake =>
              /\ t.transcripts[n] = Blank
                 \/ (t.transcripts[n] \in Take /\ spoken'[t.transcripts[n]] = n)
              /\ n \in missed' \/ t.transcripts[n] = th'.transcripts[n]

TaskNext(r) ==
    /\ r.pc \in {"decide", "check"} => KnownNext(r.turn)
    /\ r.pc \in {"sendPreliminary", "recheck", "sendFull"} => FitsNext(r.take, r.turn)
    /\ r.pc = "markPreliminary" => sent'[r.turn].preliminary > 0
    /\ r.pc = "wait" => r.turn \in missed' \/ sent'[r.turn].preliminary > 0
    /\ r.pc \in {"recheck", "sendFull"} => r.turn \in archived'
    /\ r.pc = "markFull" => sent'[r.turn].full > 0

JobNext(j) ==
    /\ j.pc \in {"upload", "transcribe"} =>
          /\ KnownNext(j.turn)
          /\ j.take = Blank \/ (j.take \in Take /\ spoken'[j.take] = j.turn)
    /\ j.pc = "append" => FitsNext(j.take, j.turn)
    /\ ThreadNext(j.snap)

SpokenNext(c) ==
    /\ spoken'[c] # 0 => KnownNext(spoken'[c])
    /\ call'[c].pc \in {"idle", "recover"} => spoken'[c] = 0
    /\ call'[c].pc = "decide" => spoken'[c] \in {0, call'[c].turn}

RowNext(n) == row'[n].phase # "none" => FitsNext(row'[n].take, n)

\* What a step may not take back: what was archived, published, missed or said,
\* and the transcript of a turn that misses none.
Persists ==
    /\ archived \subseteq archived' /\ missed \subseteq missed'
    /\ \A n \in Turns : /\ sent[n].full > 0 => sent'[n].full > 0
                        /\ sent[n].preliminary > 0 => sent'[n].preliminary > 0
    /\ \A c \in Take : spoken[c] # 0 => spoken'[c] = spoken[c]
    /\ \A n \in Turns : n \in missed' \/ ~HasTranscript(th, n)
                           \/ th'.transcripts[n] = th.transcripts[n]

\* A step that leaves the history of words and the transcripts alone.
LEMMA PersistsPlain ==
    ASSUME archived' = archived, missed' = missed, spoken' = spoken, sent' = sent,
           th'.transcripts = th.transcripts
    PROVE  Persists
  BY DEF Persists

\* Sending a record takes nothing back.
LEMMA PersistsSend ==
    ASSUME NEW n \in Turns, sent \in [Turns -> [preliminary : Nat, full : Nat]],
           archived' = archived, missed' = missed, spoken' = spoken, th' = th,
           \/ sent' = [sent EXCEPT ![n].full = @ + 1]
           \/ sent' = [sent EXCEPT ![n].preliminary = @ + 1]
    PROVE  Persists /\ (\A m \in Turns : m # n => sent'[m] = sent[m])
  BY DEF Persists

\* An archive run that writes its copy over the thread erases a transcript only
\* of a turn that is missed from then on.
LEMMA PersistsOverwrite ==
    ASSUME NEW t, NEW s, ThreadJustified(s), t.transcripts = s.transcripts, Overwrite(t),
           archived \subseteq archived', sent' = sent, spoken' = spoken
    PROVE  Persists
<1>1. missed \subseteq missed' /\ th' = t
  BY DEF Overwrite
<1>2. ASSUME NEW n \in Turns, n \notin missed', HasTranscript(th, n)
      PROVE  th'.transcripts[n] = th.transcripts[n]
  <2>1. HasTranscript(t, n)
    BY <1>2 DEF Overwrite
  <2>2. QED
    BY <1>1, <1>2, <2>1 DEF ThreadJustified, HasTranscript
<1>3. QED
  BY <1>1, <1>2 DEF Persists

\* Whatever was justified before a step that takes nothing back is so after it.
LEMMA Later ==
    ASSUME Persists, TypeOK
    PROVE  /\ \A n \in Turns : \A w : Fits(w, n) => FitsNext(w, n)
           /\ \A n \in Turns : Known(n) => KnownNext(n)
           /\ \A t : ThreadJustified(t) => ThreadNext(t)
           /\ \A r : r.turn \in Turns /\ TaskJustified(r) => TaskNext(r)
           /\ \A j : j.turn \in Turns /\ JobJustified(j) => JobNext(j)
<1>1. ASSUME NEW w, NEW n \in Turns, w \in Mine(n)
      PROVE  w = Blank \/ (w \in Take /\ spoken'[w] = n)
  <2>1. n # 0
    BY MaxTurnAssumption DEF Turns
  <2>2. QED
    BY <1>1, <2>1 DEF Mine, Persists
<1>2. ASSUME NEW n \in Turns, Known(n) PROVE KnownNext(n)
  BY <1>2 DEF Known, KnownNext, Persists, HasTranscript
<1>3. ASSUME NEW w, NEW n \in Turns, Fits(w, n) PROVE FitsNext(w, n)
  <2>1. w = Blank \/ (w \in Take /\ spoken'[w] = n)
    BY <1>1, <1>3 DEF Fits
  <2>2. n \in missed' \/ (th'.transcripts[n] # NoTake /\ th'.transcripts[n] \in {w, Blank})
    BY <1>3 DEF Fits, Persists, HasTranscript
  <2>3. QED
    BY <2>1, <2>2 DEF FitsNext
<1>4. ASSUME NEW t, ThreadJustified(t) PROVE ThreadNext(t)
  <2> SUFFICES ASSUME NEW n \in Turns
               PROVE /\ n \in t.published => sent'[n].full > 0
                     /\ n \in t.preliminary => sent'[n].preliminary > 0
                     /\ t.turns[n].count <= 1
                     /\ t.turns[n].count > 0 => n \in archived' /\ FitsNext(t.turns[n].first, n)
                     /\ t.transcripts[n] # NoTake =>
                           /\ t.transcripts[n] = Blank
                              \/ (t.transcripts[n] \in Take /\ spoken'[t.transcripts[n]] = n)
                           /\ n \in missed' \/ t.transcripts[n] = th'.transcripts[n]
    BY DEF ThreadNext
  <2>1. /\ n \in t.published => sent'[n].full > 0
        /\ n \in t.preliminary => sent'[n].preliminary > 0
        /\ t.turns[n].count <= 1
    BY <1>4 DEF ThreadJustified, Persists
  <2>2. t.turns[n].count > 0 => n \in archived' /\ FitsNext(t.turns[n].first, n)
    BY <1>3, <1>4 DEF ThreadJustified, Persists, HasTurn
  <2>3. t.transcripts[n] # NoTake => t.transcripts[n] = Blank
                              \/ (t.transcripts[n] \in Take /\ spoken'[t.transcripts[n]] = n)
    BY <1>1, <1>4 DEF ThreadJustified, HasTranscript
  <2>4. t.transcripts[n] # NoTake => n \in missed' \/ t.transcripts[n] = th'.transcripts[n]
    BY <1>4 DEF ThreadJustified, HasTranscript, Persists
  <2>5. QED
    BY <2>1, <2>2, <2>3, <2>4
<1>5. ASSUME NEW r, r.turn \in Turns, TaskJustified(r) PROVE TaskNext(r)
  BY <1>2, <1>3, <1>5 DEF TaskJustified, TaskNext, Persists
<1>6. ASSUME NEW j, j.turn \in Turns, JobJustified(j) PROVE JobNext(j)
  BY <1>1, <1>2, <1>3, <1>4, <1>6 DEF JobJustified, JobNext
<1>7. QED
  BY <1>2, <1>3, <1>4, <1>5, <1>6

\* What a step that takes nothing back has not to be asked about: all that it
\* leaves as it was.
LEMMA Untouched ==
    ASSUME IInv, Persists
    PROVE  /\ th' = th => ThreadNext(th')
           /\ \A c \in Take : call'[c] = call[c] => TaskNext(call'[c])
           /\ \A c \in Take : arch'[c] = arch[c] => JobNext(arch'[c])
           /\ \A c \in Take : (call'[c] = call[c] /\ spoken'[c] = spoken[c]) => SpokenNext(c)
           /\ \A c \in Take : (call'[c].pc \notin {"idle", "recover", "decide"}
                                  /\ spoken'[c] = spoken[c]) => SpokenNext(c)
           /\ \A r \in left : TaskNext(r)
           /\ \A n \in Turns : row'[n] = row[n] => RowNext(n)
           /\ sent' = sent => FullHasRecording'
<1>1. TypeOK
  BY DEF IInv, Typed
<1>2. /\ \A c \in Take : call[c].turn \in Turns /\ arch[c].turn \in Turns
      /\ \A r \in left : r.turn \in Turns
      /\ \A c \in Take : spoken[c] # 0 => spoken[c] \in Turns
  BY <1>1 DEF TypeOK, Task, Job
<1>3. th' = th => ThreadNext(th')
  BY <1>1, Later DEF IInv
<1>4. ASSUME NEW c \in Take
      PROVE  /\ call'[c] = call[c] => TaskNext(call'[c])
             /\ arch'[c] = arch[c] => JobNext(arch'[c])
  BY <1>1, <1>2, Later DEF IInv
<1>5. ASSUME NEW c \in Take
      PROVE  /\ (call'[c] = call[c] /\ spoken'[c] = spoken[c]) => SpokenNext(c)
             /\ (call'[c].pc \notin {"idle", "recover", "decide"} /\ spoken'[c] = spoken[c])
                   => SpokenNext(c)
  <2>1. spoken[c] # 0 => KnownNext(spoken[c])
    BY <1>1, <1>2, Later DEF IInv, SpokenJustified
  <2>2. /\ call[c].pc \in {"idle", "recover"} => spoken[c] = 0
        /\ call[c].pc = "decide" => spoken[c] \in {0, call[c].turn}
    BY DEF IInv, SpokenJustified
  <2>3. QED
    BY <2>1, <2>2 DEF SpokenNext
<1>6. \A r \in left : TaskNext(r)
  BY <1>1, <1>2, Later DEF IInv
<1>7. \A n \in Turns : row'[n] = row[n] => RowNext(n)
  BY <1>1, Later DEF IInv, RowJustified, RowNext
<1>8. sent' = sent => FullHasRecording'
  BY DEF IInv, FullHasRecording, Persists
<1>9. QED
  BY <1>3, <1>4, <1>5, <1>6, <1>7, <1>8

\* A finished call, or a job that is over, claims nothing.
LEMMA OverNext ==
    ASSUME TypeOK, Persists
    PROVE  TaskNext(Ended) /\ JobNext(JobOver) /\ Ended.pc = "done"
<1>1. Ended.pc = "done" /\ JobOver.pc = "done" /\ JobOver.snap = EmptyThread
  BY DEF Ended, NoTask, JobOver, NoJob
<1>2. ThreadNext(EmptyThread)
  BY EmptyThreadLemma DEF ThreadNext, HasTurn, HasTranscript
<1>3. QED
  BY <1>1, <1>2 DEF TaskNext, JobNext

\* The turn a turn_end is for.
LEMMA NextIsTurn == ASSUME TypeOK, session.next <= MaxTurn PROVE session.next \in Turns
<1>1. session.next \in 1 .. MaxTurn + 1
  BY DEF TypeOK, Session
<1>2. QED
  BY <1>1, MaxTurnAssumption DEF Turns

\* Every step keeps the invariant: one step per action, and under it what the
\* action writes.
LEMMA InvariantStep == IInv /\ [Next]_vars => IInv'
<1> SUFFICES ASSUME IInv, [Next]_vars PROVE IInv'
  OBVIOUS
<1>1. Typed /\ Typed' /\ TypeOK
  BY TypeStep DEF IInv, Typed
<1>2. /\ th \in Thread /\ call \in [Take -> Task] /\ arch \in [Take -> Job] /\ left \subseteq Task
      /\ sent \in [Turns -> [preliminary : Nat, full : Nat]] /\ row \in [Turns -> Row]
      /\ spoken \in [Take -> Turns \cup {0}]
  BY <1>1 DEF TypeOK
<1>3. \A c \in Take : call[c].turn \in Turns /\ arch[c].turn \in Turns /\ arch[c].snap \in Thread
  BY <1>2 DEF Task, Job
<1>4. /\ ThreadJustified(th) /\ FullHasRecording
      /\ \A c \in Take : TaskJustified(call[c]) /\ JobJustified(arch[c]) /\ SpokenJustified(c)
      /\ \A r \in left : TaskJustified(r) /\ r.turn \in Turns
      /\ \A n \in Turns : RowJustified(n)
  BY <1>2 DEF IInv, Task
<1> DEFINE Kept == /\ ThreadNext(th')
                   /\ \A d \in Take : TaskNext(call'[d]) /\ JobNext(arch'[d]) /\ SpokenNext(d)
                   /\ \A r \in left' : TaskNext(r)
                   /\ \A n \in Turns : RowNext(n)
                   /\ FullHasRecording'
<1>5. SUFFICES Kept
  <2>1. ThreadNext(th') => ThreadJustified(th)'
    BY DEF ThreadNext, ThreadJustified, FitsNext, Fits, Mine, HasTurn, HasTranscript
  <2>2. ASSUME NEW d \in Take, TaskNext(call'[d]), JobNext(arch'[d]), SpokenNext(d)
        PROVE  TaskJustified(call[d])' /\ JobJustified(arch[d])' /\ SpokenJustified(d)'
    <3>1. TaskJustified(call[d])'
      BY <2>2 DEF TaskNext, TaskJustified, FitsNext, Fits, KnownNext, Known, Mine, HasTranscript
    <3>2. ThreadNext(arch'[d].snap) => ThreadJustified(arch[d].snap)'
      BY DEF ThreadNext, ThreadJustified, FitsNext, Fits, Mine, HasTurn, HasTranscript
    <3>3. JobJustified(arch[d])'
      BY <2>2, <3>2 DEF JobNext, JobJustified, FitsNext, Fits, KnownNext, Known, Mine, HasTranscript
    <3>4. SpokenJustified(d)'
      BY <2>2 DEF SpokenNext, SpokenJustified, KnownNext, Known, HasTranscript
    <3>5. QED
      BY <3>1, <3>3, <3>4
  <2>3. \A r \in left' : TaskNext(r) => TaskJustified(r)'
    BY DEF TaskNext, TaskJustified, FitsNext, Fits, KnownNext, Known, Mine, HasTranscript
  <2>4. \A n \in Turns : RowNext(n) => RowJustified(n)'
    BY DEF RowNext, RowJustified, FitsNext, Fits, Mine, HasTranscript
  <2>5. QED
    BY <1>1, <2>1, <2>2, <2>3, <2>4 DEF IInv
<1>10. ASSUME NEW c \in Take, NEW w \in {c, Blank}, TurnEnd(c, w) PROVE Kept
  <2>1. session.next \in Turns /\ spoken[c] = 0
    BY <1>10, <1>1, <1>4, NextIsTurn DEF TurnEnd, Fresh, Unused, SpokenJustified
  <2>2. /\ missed \subseteq missed' /\ spoken' = [spoken EXCEPT ![c] = session.next]
        /\ session.next \in missed' \/ th' = AddTranscript(th, session.next, w)
        /\ th' = th \/ th' = AddTranscript(th, session.next, w)
    BY <1>10 DEF TurnEnd
  <2>3. /\ \A m \in Turns : m # session.next \/ HasTranscript(th, m)
                           => th'.transcripts[m] = th.transcripts[m]
        /\ th'.turns = th.turns /\ th'.published = th.published /\ th'.preliminary = th.preliminary
        /\ th'.transcripts[session.next] \in {th.transcripts[session.next], w}
        /\ session.next \in missed' \/ th'.transcripts[session.next] # NoTake
    BY <1>2, <2>1, <2>2, NoTakeAssumption DEF AddTranscript, HasTranscript, Thread
  <2>4. Persists
    BY <1>10, <1>2, <2>1, <2>2, <2>3 DEF Persists, TurnEnd
  <2>5. ThreadNext(th)
    BY <1>1, <1>4, <2>4, Later
  <2>6. w = Blank \/ (w \in Take /\ spoken'[w] = session.next)
    BY <1>10, <1>2, <2>2
  <2>7. ThreadNext(th')
    <3>1. ASSUME NEW m \in Turns, m # session.next \/ HasTranscript(th, m)
          PROVE  th'.transcripts[m] # NoTake =>
              /\ th'.transcripts[m] = Blank
                 \/ (th'.transcripts[m] \in Take /\ spoken'[th'.transcripts[m]] = m)
              /\ m \in missed' \/ th'.transcripts[m] = th'.transcripts[m]
      BY <2>3, <2>5, <3>1 DEF ThreadNext
    <3>2. ~HasTranscript(th, session.next) /\ th'.transcripts[session.next] # NoTake
             => th'.transcripts[session.next] = w
      BY <2>3 DEF HasTranscript
    <3>3. QED
      BY <2>3, <2>5, <2>6, <3>1, <3>2 DEF ThreadNext
  <2>8. call'[c] = [pc |-> "decide", turn |-> session.next, live |-> TRUE, take |-> NoTake]
    BY <1>10, <1>2 DEF TurnEnd
  <2>9. KnownNext(session.next)
    BY <2>3 DEF KnownNext
  <2>10. TaskNext(call'[c]) /\ SpokenNext(c)
    BY <1>2, <2>2, <2>8, <2>9 DEF TaskNext, SpokenNext
  <2>11. \A d \in Take : d # c => call'[d] = call[d] /\ spoken'[d] = spoken[d]
    BY <1>10, <1>2 DEF TurnEnd
  <2>12. QED
    BY <1>10, <1>2, <2>1, <2>2, <2>3, <2>4, <2>5, <2>6, <2>7, <2>8, <2>9, <2>10, <2>11, Untouched DEF TurnEnd
<1>11. ASSUME NEW c \in Take, Decide(c) PROVE Kept
  <2>1. Persists
    BY <1>11, PersistsPlain DEF Decide
  <2>2. call'[c].pc = "check" /\ call'[c].turn = call[c].turn
    BY <1>11, <1>2, <1>3 DEF Decide, NoTask, Task
  <2>3. KnownNext(call[c].turn)
    BY <1>11, <1>1, <1>3, <1>4, <2>1, Later DEF Decide, TaskJustified
  <2>4. TaskNext(call'[c])
    BY <2>2, <2>3 DEF TaskNext
  <2>5. JobNext(arch'[c])
    <3>1. CASE arch' = arch
      BY <3>1, <2>1, Untouched
    <3>2. CASE arch' # arch
      <4>1. /\ arch'[c] = [arch[c] EXCEPT !.pc = "upload", !.turn = call[c].turn, !.take = c]
            /\ spoken[c] # 0
        BY <1>11, <1>2, <3>2 DEF Decide
      <4>2. spoken'[c] = call[c].turn
        BY <1>11, <1>4, <4>1 DEF Decide, SpokenJustified
      <4>3. ThreadNext(arch[c].snap)
        BY <1>1, <1>4, <2>1, Later DEF JobJustified
      <4>4. /\ arch'[c].pc = "upload" /\ arch'[c].turn = call[c].turn /\ arch'[c].take = c
            /\ arch'[c].snap = arch[c].snap
        BY <1>2, <4>1 DEF Job
      <4>5. QED
        BY <2>3, <4>2, <4>3, <4>4 DEF JobNext
    <3>3. QED
      BY <3>1, <3>2
  <2>6. \A d \in Take : d # c => call'[d] = call[d] /\ arch'[d] = arch[d]
    BY <1>11, <1>2 DEF Decide
  <2>7. QED
    BY <1>11, <1>2, <2>1, <2>2, <2>3, <2>4, <2>5, <2>6, Untouched DEF Decide
<1>12. ASSUME Drop PROVE Kept
  <2>1. Persists
    BY <1>12, PersistsPlain DEF Drop
  <2>2. \A d \in Take : TaskNext(call[d]) /\ call'[d] = [call[d] EXCEPT !.live = FALSE]
    BY <1>12, <1>1, <1>3, <1>4, <2>1, Later DEF Drop, Orphaned
  <2>3. \A d \in Take : call'[d].pc = call[d].pc /\ call'[d].turn = call[d].turn /\ call'[d].take = call[d].take
    BY <1>2, <2>2 DEF Task
  <2>4. \A d \in Take : TaskNext(call'[d])
    BY <2>2, <2>3 DEF TaskNext
  <2>5. ASSUME NEW d \in Take PROVE SpokenNext(d)
    <3>1. spoken[d] # 0 => KnownNext(spoken[d])
      BY <1>1, <1>2, <1>4, <2>1, Later DEF SpokenJustified
    <3>2. spoken' = spoken
      BY <1>12 DEF Drop
    <3>3. QED
      BY <1>4, <2>3, <3>1, <3>2 DEF SpokenNext, SpokenJustified
  <2>6. QED
    BY <1>12, <1>2, <2>1, <2>2, <2>3, <2>4, <2>5, Untouched DEF Drop
<1>13. ASSUME QuestionStart PROVE Kept
  <2>1. Persists
    BY <1>13, PersistsPlain DEF QuestionStart
  <2>2. QED
    BY <1>13, <1>2, <2>1, Untouched DEF QuestionStart
<1>14. ASSUME NEW c \in Take, Resume(c) PROVE Kept
  <2>1. Persists
    BY <1>14, PersistsPlain DEF Resume
  <2>2. call'[c].pc = "recover" /\ \A d \in Take : d # c => call'[d] = call[d]
    BY <1>14, <1>2 DEF Resume
  <2>3. TaskNext(call'[c])
    BY <2>2 DEF TaskNext
  <2>4. SpokenNext(c)
    BY <1>14, <1>4, <2>2 DEF SpokenNext, SpokenJustified, Resume, Fresh, Unused
  <2>5. QED
    BY <1>14, <1>2, <2>1, <2>2, <2>3, <2>4, Untouched DEF Resume
<1>15. ASSUME NEW c \in Take, RecoverPending(c) PROVE Kept
  <2>1. Persists
    BY <1>15, PersistsPlain DEF RecoverPending
  <2>2. TaskNext(Ended) /\ JobNext(JobOver) /\ Ended.pc = "done"
    BY <1>1, <2>1, OverNext
  <2>3. \A d \in Take : d # c => call'[d] = call[d]
    BY <1>15, <1>2 DEF RecoverPending, Goto, End
  <2>4. spoken'[c] = 0
    BY <1>15, <1>4 DEF RecoverPending, SpokenJustified
  <2>5. TaskNext(call'[c]) /\ SpokenNext(c)
    <3>1. CASE HasTranscript(th, call[c].turn)
      <4>1. call'[c].pc = "decide" /\ call'[c].turn = call[c].turn
        BY <1>15, <1>2, <3>1 DEF RecoverPending, Goto, Task
      <4>2. KnownNext(call[c].turn)
        BY <1>15, <3>1 DEF RecoverPending, KnownNext, HasTranscript
      <4>3. QED
        BY <2>4, <4>1, <4>2 DEF TaskNext, SpokenNext
    <3>2. CASE ~HasTranscript(th, call[c].turn)
      <4>1. call'[c] = Ended
        BY <1>15, <1>2, <3>2 DEF RecoverPending, End
      <4>2. QED
        BY <2>2, <2>4, <4>1 DEF SpokenNext
    <3>3. QED
      BY <3>1, <3>2
  <2>6. QED
    BY <1>15, <1>2, <2>1, <2>2, <2>3, <2>4, <2>5, Untouched DEF RecoverPending
<1>16. ASSUME NEW c \in Take, CheckBefore(c) PROVE Kept
  <2>1. Persists
    BY <1>16, PersistsPlain DEF CheckBefore
  <2>2. TaskNext(Ended) /\ JobNext(JobOver) /\ Ended.pc = "done"
    BY <1>1, <2>1, OverNext
  <2>3. \A d \in Take : d # c => call'[d] = call[d]
    BY <1>16, <1>2 DEF CheckBefore
  <2>4. TaskNext(call'[c]) /\ call'[c].pc \in {"done", "sendPreliminary", "wait"}
    <3> DEFINE n == call[c].turn
    <3>1. CASE n \in th.published
      BY <1>16, <1>2, <2>2, <3>1 DEF CheckBefore
    <3>2. CASE n \notin th.published /\ n \notin th.preliminary /\ HasTranscript(th, n)
      <4>1. call'[c].pc = "sendPreliminary" /\ call'[c].take = th.transcripts[n] /\ call'[c].turn = n
        BY <1>16, <1>2, <3>2 DEF CheckBefore, Task
      <4>2. Fits(th.transcripts[n], n)
        BY <1>3, <1>4, <3>2 DEF ThreadJustified, Fits
      <4>3. FitsNext(th.transcripts[n], n)
        BY <1>1, <1>3, <2>1, <4>2, Later
      <4>4. QED
        BY <4>1, <4>3 DEF TaskNext
    <3>3. CASE n \notin th.published /\ ~(n \notin th.preliminary /\ HasTranscript(th, n))
      <4>1. call'[c].pc = "wait" /\ call'[c].turn = n
        BY <1>16, <1>2, <3>3 DEF CheckBefore, Task
      <4>2. n \in missed \/ sent[n].preliminary > 0
        BY <1>16, <1>3, <1>4, <3>3 DEF CheckBefore, TaskJustified, Known, ThreadJustified
      <4>3. n \in missed' \/ sent'[n].preliminary > 0
        BY <1>3, <2>1, <4>2 DEF Persists
      <4>4. QED
        BY <4>1, <4>3 DEF TaskNext
    <3>4. QED
      BY <3>1, <3>2, <3>3
  <2>5. QED
    BY <1>16, <1>2, <2>1, <2>2, <2>3, <2>4, Untouched DEF CheckBefore
<1>17. ASSUME NEW c \in Take, SendPreliminary(c) PROVE Kept
  <2>1. Persists /\ (\A m \in Turns : m # call[c].turn => sent'[m] = sent[m])
    BY <1>17, <1>2, <1>3, PersistsSend DEF SendPreliminary
  <2>2. call'[c].pc = "markPreliminary" /\ call'[c].turn = call[c].turn /\ \A d \in Take : d # c => call'[d] = call[d]
    BY <1>17, <1>2 DEF SendPreliminary, Task
  <2>3. sent'[call[c].turn].preliminary > 0
    BY <1>17, <1>2, <1>3 DEF SendPreliminary
  <2>4. TaskNext(call'[c])
    BY <2>2, <2>3 DEF TaskNext
  <2>5. FitsNext(call[c].take, call[c].turn)
    BY <1>17, <1>1, <1>3, <1>4, <2>1, Later DEF SendPreliminary, TaskJustified
  <2>6. \A m \in Turns : RowNext(m)
    <3>1. row'[call[c].turn].take = call[c].take
      BY <1>17, <1>2, <1>3 DEF SendPreliminary
    <3>2. \A m \in Turns : m # call[c].turn => row'[m] = row[m]
      BY <1>17, <1>2, <1>3 DEF SendPreliminary
    <3>3. QED
      BY <2>1, <2>5, <3>1, <3>2, Untouched DEF RowNext
  <2>7. FullHasRecording'
    BY <1>17, <1>2, <1>3, <1>4, <2>1 DEF FullHasRecording, SendPreliminary, TaskJustified
  <2>8. QED
    BY <1>17, <1>2, <2>1, <2>2, <2>3, <2>4, <2>5, <2>6, <2>7, Untouched DEF SendPreliminary
<1>18. ASSUME NEW c \in Take, MarkPreliminary(c) PROVE Kept
  <2>1. Persists
    BY <1>18, <1>2, PersistsPlain DEF MarkPreliminary, Thread
  <2>2. \A d \in Take : d # c => call'[d] = call[d]
    BY <1>18, <1>2 DEF MarkPreliminary, Goto, End
  <2>3. TaskNext(Ended) /\ Ended.pc = "done"
    BY <1>1, <2>1, OverNext
  <2>4. sent'[call[c].turn].preliminary > 0
    BY <1>18, <1>4 DEF MarkPreliminary, TaskJustified
  <2>5. TaskNext(call'[c]) /\ call'[c].pc \notin {"idle", "recover", "decide"}
    BY <1>18, <1>2, <2>3, <2>4 DEF MarkPreliminary, TaskNext, Goto, End, Task
  <2>6. ThreadNext(th)
    BY <1>1, <1>4, <2>1, Later
  <2>7. th' = [th EXCEPT !.preliminary = @ \cup {call[c].turn}]
    BY <1>18 DEF MarkPreliminary
  <2>8. /\ th'.published = th.published /\ th'.turns = th.turns /\ th'.transcripts = th.transcripts
        /\ th'.preliminary = th.preliminary \cup {call[c].turn}
    BY <1>2, <2>7 DEF Thread
  <2>9. ThreadNext(th')
    BY <2>4, <2>6, <2>8 DEF ThreadNext
  <2>10. QED
    BY <1>18, <1>2, <2>1, <2>2, <2>3, <2>4, <2>5, <2>6, <2>7, <2>8, <2>9, Untouched DEF MarkPreliminary
<1>19. ASSUME NEW c \in Take, SeeTurn(c) PROVE Kept
  <2>1. Persists
    BY <1>19, PersistsPlain DEF SeeTurn
  <2>2. call'[c].pc = "recheck" /\ call'[c].take = th.turns[call[c].turn].first /\ call'[c].turn = call[c].turn
    BY <1>19, <1>2 DEF SeeTurn, Task
  <2>3. call[c].turn \in archived /\ Fits(th.turns[call[c].turn].first, call[c].turn)
    BY <1>19, <1>3, <1>4 DEF SeeTurn, ThreadJustified
  <2>4. FitsNext(th.turns[call[c].turn].first, call[c].turn)
    BY <1>1, <1>3, <2>1, <2>3, Later
  <2>5. TaskNext(call'[c])
    BY <2>1, <2>2, <2>3, <2>4 DEF TaskNext, Persists
  <2>6. \A d \in Take : d # c => call'[d] = call[d]
    BY <1>19, <1>2 DEF SeeTurn
  <2>7. QED
    BY <1>19, <1>2, <2>1, <2>2, <2>3, <2>4, <2>5, <2>6, Untouched DEF SeeTurn
<1>20. ASSUME NEW c \in Take, WaitExpires(c) PROVE Kept
  <2>1. Persists
    BY <1>20, PersistsPlain DEF WaitExpires
  <2>2. TaskNext(Ended) /\ JobNext(JobOver) /\ Ended.pc = "done"
    BY <1>1, <2>1, OverNext
  <2>3. call'[c] = Ended /\ \A d \in Take : d # c => call'[d] = call[d]
    BY <1>20, <1>2 DEF WaitExpires, End
  <2>4. QED
    BY <1>20, <1>2, <2>1, <2>2, <2>3, Untouched DEF WaitExpires
<1>21. ASSUME NEW c \in Take, Recheck(c) PROVE Kept
  <2>1. Persists
    BY <1>21, PersistsPlain DEF Recheck
  <2>2. TaskNext(Ended) /\ JobNext(JobOver) /\ Ended.pc = "done"
    BY <1>1, <2>1, OverNext
  <2>3. \A d \in Take : d # c => call'[d] = call[d]
    BY <1>21, <1>2 DEF Recheck
  <2>4. Fits(call[c].take, call[c].turn) /\ call[c].turn \in archived'
    BY <1>21, <1>4, <2>1 DEF Recheck, TaskJustified, Persists
  <2>5. TaskNext(call'[c]) /\ call'[c].pc \in {"done", "sendFull"}
    <3> DEFINE n == call[c].turn
    <3>1. CASE n \in th.published
      BY <1>21, <1>2, <2>2, <3>1 DEF Recheck
    <3>2. CASE n \notin th.published
      <4>1. /\ call'[c].pc = "sendFull" /\ call'[c].turn = n
            /\ call'[c].take = call[c].take
               \/ (call'[c].take = th.transcripts[n] /\ HasTranscript(th, n))
        BY <1>21, <1>2, <3>2 DEF Recheck, Task
      <4>2. HasTranscript(th, n) => Fits(th.transcripts[n], n)
        BY <1>3, <1>4 DEF ThreadJustified, Fits
      <4>3. FitsNext(call'[c].take, n)
        BY <1>1, <1>3, <2>1, <2>4, <4>1, <4>2, Later
      <4>4. QED
        BY <2>4, <4>1, <4>3 DEF TaskNext
    <3>3. QED
      BY <3>1, <3>2
  <2>6. QED
    BY <1>21, <1>2, <2>1, <2>2, <2>3, <2>4, <2>5, Untouched DEF Recheck
<1>22. ASSUME NEW c \in Take, SendFull(c) PROVE Kept
  <2>1. Persists /\ (\A m \in Turns : m # call[c].turn => sent'[m] = sent[m])
    BY <1>22, <1>2, <1>3, PersistsSend DEF SendFull
  <2>2. call'[c].pc = "markFull" /\ call'[c].turn = call[c].turn /\ \A d \in Take : d # c => call'[d] = call[d]
    BY <1>22, <1>2 DEF SendFull, Task
  <2>3. sent'[call[c].turn].full > 0
    BY <1>22, <1>2, <1>3 DEF SendFull
  <2>4. TaskNext(call'[c])
    BY <2>2, <2>3 DEF TaskNext
  <2>5. FitsNext(call[c].take, call[c].turn)
    BY <1>22, <1>1, <1>3, <1>4, <2>1, Later DEF SendFull, TaskJustified
  <2>6. \A m \in Turns : RowNext(m)
    <3>1. row'[call[c].turn].take = call[c].take
      BY <1>22, <1>2, <1>3 DEF SendFull
    <3>2. \A m \in Turns : m # call[c].turn => row'[m] = row[m]
      BY <1>22, <1>2, <1>3 DEF SendFull
    <3>3. QED
      BY <2>1, <2>5, <3>1, <3>2, Untouched DEF RowNext
  <2>7. FullHasRecording'
    BY <1>22, <1>2, <1>3, <1>4, <2>1 DEF FullHasRecording, SendFull, TaskJustified
  <2>8. QED
    BY <1>22, <1>2, <2>1, <2>2, <2>3, <2>4, <2>5, <2>6, <2>7, Untouched DEF SendFull
<1>23. ASSUME NEW c \in Take, MarkFull(c) PROVE Kept
  <2>1. Persists
    BY <1>23, <1>2, PersistsPlain DEF MarkFull, Thread
  <2>2. \A d \in Take : d # c => call'[d] = call[d]
    BY <1>23, <1>2 DEF MarkFull, Goto, End
  <2>3. TaskNext(Ended) /\ Ended.pc = "done"
    BY <1>1, <2>1, OverNext
  <2>4. sent'[call[c].turn].full > 0
    BY <1>23, <1>4 DEF MarkFull, TaskJustified
  <2>5. TaskNext(call'[c]) /\ call'[c].pc \notin {"idle", "recover", "decide"}
    BY <1>23, <1>2, <2>3, <2>4 DEF MarkFull, TaskNext, Goto, End, Task
  <2>6. ThreadNext(th)
    BY <1>1, <1>4, <2>1, Later
  <2>7. th' = [th EXCEPT !.published = @ \cup {call[c].turn}]
    BY <1>23 DEF MarkFull
  <2>8. /\ th'.preliminary = th.preliminary /\ th'.turns = th.turns /\ th'.transcripts = th.transcripts
        /\ th'.published = th.published \cup {call[c].turn}
    BY <1>2, <2>7 DEF Thread
  <2>9. ThreadNext(th')
    BY <2>4, <2>6, <2>8 DEF ThreadNext
  <2>10. QED
    BY <1>23, <1>2, <2>1, <2>2, <2>3, <2>4, <2>5, <2>6, <2>7, <2>8, <2>9, Untouched DEF MarkFull
<1>24. ASSUME NEW c \in Take, Abort(c) PROVE Kept
  <2>1. Persists
    BY <1>24, PersistsPlain DEF Abort
  <2>2. TaskNext(Ended) /\ JobNext(JobOver) /\ Ended.pc = "done"
    BY <1>1, <2>1, OverNext
  <2>3. call'[c] = Ended /\ \A d \in Take : d # c => call'[d] = call[d]
    BY <1>24, <1>2 DEF Abort, End
  <2>4. TaskNext(call[c]) /\ left' \subseteq left \cup {call[c]}
    BY <1>24, <1>1, <1>3, <1>4, <2>1, Later DEF Abort
  <2>5. QED
    BY <1>24, <1>2, <2>1, <2>2, <2>3, <2>4, Untouched DEF Abort
<1>25. ASSUME NEW r \in left, Lands(r) PROVE Kept
  <2>1. /\ TaskJustified(r) /\ r.turn \in Turns
        /\ UNCHANGED <<session, call, arch, archived, spoken, missed, cut, faults>>
        /\ left' \subseteq left
    BY <1>25, <1>4 DEF Lands
  <2>2. CASE r.pc = "sendPreliminary" \/ r.pc = "sendFull"
    <3>1. /\ th' = th
          /\ \/ sent' = [sent EXCEPT ![r.turn].full = @ + 1] /\ r.pc = "sendFull"
             \/ sent' = [sent EXCEPT ![r.turn].preliminary = @ + 1]
          /\ \E p \in Phase : row' = [row EXCEPT ![r.turn] = [phase |-> p, take |-> r.take]]
      BY <2>2, <1>25 DEF Lands, Phase
    <3>2. Persists /\ (\A m \in Turns : m # r.turn => sent'[m] = sent[m])
      BY <1>2, <2>1, <3>1, PersistsSend
    <3>3. FitsNext(r.take, r.turn)
      BY <1>1, <2>1, <2>2, <3>2, Later DEF TaskJustified
    <3>4. \A m \in Turns : RowNext(m)
      <4>1. row'[r.turn].take = r.take /\ \A m \in Turns : m # r.turn => row'[m] = row[m]
        BY <1>2, <2>1, <3>1
      <4>2. QED
        BY <3>2, <3>3, <4>1, Untouched DEF RowNext
    <3>5. FullHasRecording'
      BY <1>2, <1>4, <2>1, <2>2, <3>1 DEF FullHasRecording, TaskJustified
    <3>6. QED
      BY <2>1, <3>1, <3>2, <3>4, <3>5, Untouched
  <2>3. CASE r.pc = "markPreliminary" \/ r.pc = "markFull"
    <3>1. /\ row' = row /\ sent' = sent
          /\ \/ r.pc = "markPreliminary" /\ th' = [th EXCEPT !.preliminary = @ \cup {r.turn}]
             \/ r.pc = "markFull" /\ th' = [th EXCEPT !.published = @ \cup {r.turn}]
      BY <2>3, <1>25 DEF Lands
    <3>2. Persists
      BY <1>2, <2>1, <3>1, PersistsPlain DEF Thread
    <3>3. ThreadNext(th)
      BY <1>1, <1>4, <3>2, Later
    <3>4. /\ th'.turns = th.turns /\ th'.transcripts = th.transcripts
          /\ th'.preliminary \subseteq th.preliminary \cup {r.turn}
          /\ th'.published \subseteq th.published \cup {r.turn}
          /\ th'.preliminary = th.preliminary \/ sent'[r.turn].preliminary > 0
          /\ th'.published = th.published \/ sent'[r.turn].full > 0
      BY <1>2, <2>1, <3>1 DEF Thread, TaskJustified
    <3>5. ThreadNext(th')
      BY <3>3, <3>4 DEF ThreadNext
    <3>6. QED
      BY <2>1, <3>1, <3>2, <3>5, Untouched
  <2>4. CASE r.pc \notin {"sendPreliminary", "sendFull", "markPreliminary", "markFull"}
    <3>1. th' = th /\ row' = row /\ sent' = sent
      BY <2>4, <1>25 DEF Lands
    <3>2. Persists
      BY <2>1, <3>1, PersistsPlain
    <3>3. QED
      BY <2>1, <3>1, <3>2, Untouched
  <2>5. QED
    BY <2>2, <2>3, <2>4
<1>26. ASSUME NEW c \in Take, NEW d \in Take, PostArchive(c, d) PROVE Kept
  <2>1. Persists
    BY <1>26, PersistsPlain DEF PostArchive
  <2>2. spoken[d] \in Turns /\ KnownNext(spoken[d])
    BY <1>26, <1>1, <1>2, <1>4, <2>1, Later DEF PostArchive, SpokenJustified
  <2>3. /\ arch'[c].pc = "upload" /\ arch'[c].turn = spoken[d] /\ arch'[c].take = d
        /\ arch'[c].snap = arch[c].snap /\ spoken' = spoken
    BY <1>26, <1>2 DEF PostArchive, Job
  <2>4. ThreadNext(arch[c].snap)
    BY <1>1, <1>4, <2>1, Later DEF JobJustified
  <2>5. JobNext(arch'[c])
    BY <2>2, <2>3, <2>4 DEF JobNext
  <2>6. \A e \in Take : e # c => arch'[e] = arch[e]
    BY <1>26, <1>2 DEF PostArchive
  <2>7. QED
    BY <1>26, <1>2, <2>1, <2>2, <2>3, <2>4, <2>5, <2>6, Untouched DEF PostArchive
<1>27. ASSUME NEW c \in Take, ArchiveLoad(c) PROVE Kept
  <2>1. Persists
    BY <1>27, PersistsPlain DEF ArchiveLoad
  <2>2. ThreadNext(th) /\ JobNext(arch[c])
    BY <1>1, <1>3, <1>4, <2>1, Later
  <2>3. /\ arch[c].pc = "upload" /\ arch'[c].pc = "transcribe" /\ arch'[c].turn = arch[c].turn
        /\ arch'[c].take = arch[c].take /\ arch'[c].snap = th
    BY <1>27, <1>2 DEF ArchiveLoad, Job
  <2>4. JobNext(arch'[c])
    BY <2>2, <2>3 DEF JobNext
  <2>5. \A e \in Take : e # c => arch'[e] = arch[e]
    BY <1>27, <1>2 DEF ArchiveLoad
  <2>6. QED
    BY <1>27, <1>2, <2>1, <2>2, <2>3, <2>4, <2>5, Untouched DEF ArchiveLoad
<1>28. ASSUME NEW c \in Take, ArchiveTranscribe(c) PROVE Kept
  <2>1. Persists
    BY <1>28, <1>4, PersistsOverwrite DEF ArchiveTranscribe, JobJustified
  <2>2. PICK w \in {arch[c].take, Blank} :
            arch' = [arch EXCEPT ![c].pc = "append", ![c].take = TranscriptOf(arch[c].snap, arch[c].turn, w)]
    BY <1>28 DEF ArchiveTranscribe
  <2>3. /\ arch[c].pc = "transcribe" /\ arch'[c].pc = "append" /\ arch'[c].turn = arch[c].turn
        /\ arch'[c].take = TranscriptOf(arch[c].snap, arch[c].turn, w) /\ arch'[c].snap = arch[c].snap
        /\ th' = arch[c].snap
    BY <1>28, <1>2, <2>2 DEF ArchiveTranscribe, Overwrite, Job
  <2>4. JobNext(arch[c])
    BY <1>1, <1>3, <1>4, <2>1, Later
  <2>5. ThreadNext(arch[c].snap)
    BY <2>4 DEF JobNext
  <2>6. FitsNext(arch'[c].take, arch[c].turn)
    <3> DEFINE n == arch[c].turn
               s == arch[c].snap
    <3>1. CASE s.transcripts[n] \in Take
      <4>1. arch'[c].take = s.transcripts[n] /\ s.transcripts[n] # NoTake
        BY <2>3, <3>1, NoTakeAssumption DEF TranscriptOf
      <4>2. QED
        BY <1>3, <2>3, <2>5, <3>1, <4>1 DEF ThreadNext, FitsNext
    <3>2. CASE s.transcripts[n] \notin Take
      <4>1. arch'[c].take = w
        BY <2>3, <3>2 DEF TranscriptOf
      <4>2. w = Blank \/ (w \in Take /\ spoken'[w] = n)
        BY <2>2, <2>3, <2>4 DEF JobNext
      <4>3. s.transcripts[n] \in {NoTake, Blank}
        BY <1>3, <3>2 DEF Thread, Heard, Words
      <4>4. n \in missed' \/ th'.transcripts[n] = Blank
        BY <2>3, <2>4, <4>3 DEF JobNext, KnownNext
      <4>5. QED
        BY <4>1, <4>2, <4>4, NoTakeAssumption DEF FitsNext
    <3>3. QED
      BY <3>1, <3>2
  <2>7. JobNext(arch'[c]) /\ ThreadNext(th')
    BY <2>3, <2>5, <2>6 DEF JobNext
  <2>8. \A e \in Take : e # c => arch'[e] = arch[e]
    BY <1>2, <2>2
  <2>9. QED
    BY <1>28, <1>2, <2>1, <2>2, <2>3, <2>4, <2>5, <2>6, <2>7, <2>8, Untouched DEF ArchiveTranscribe
<1>29. ASSUME NEW c \in Take, ArchiveAppend(c) PROVE Kept
  <2>1. ThreadJustified(arch[c].snap) /\ Fits(arch[c].take, arch[c].turn)
    BY <1>29, <1>4 DEF ArchiveAppend, JobJustified
  <2>2. LET t == AppendTurn(arch[c].snap, arch[c].turn, arch[c].take) IN
            /\ t.transcripts = arch[c].snap.transcripts /\ t.published = arch[c].snap.published
            /\ t.preliminary = arch[c].snap.preliminary
            /\ \A n \in Turns : t.turns[n] = arch[c].snap.turns[n]
                                \/ (n = arch[c].turn /\ t.turns[n] = [first |-> arch[c].take, count |-> 1])
    BY <1>3 DEF AppendTurn, Thread
  <2>3. Persists
    BY <1>29, <2>1, <2>2, PersistsOverwrite DEF ArchiveAppend
  <2>4. ThreadNext(arch[c].snap) /\ FitsNext(arch[c].take, arch[c].turn) /\ arch[c].turn \in archived'
    BY <1>29, <1>1, <1>3, <2>1, <2>3, Later DEF ArchiveAppend
  <2>5. th' = AppendTurn(arch[c].snap, arch[c].turn, arch[c].take)
    BY <1>29 DEF ArchiveAppend, Overwrite
  <2>6. ThreadNext(th')
    BY <2>2, <2>4, <2>5 DEF ThreadNext
  <2>7. TaskNext(Ended) /\ JobNext(JobOver) /\ Ended.pc = "done"
    BY <1>1, <2>3, OverNext
  <2>8. arch'[c] = JobOver /\ \A e \in Take : e # c => arch'[e] = arch[e]
    BY <1>29, <1>2 DEF ArchiveAppend
  <2>9. QED
    BY <1>29, <1>2, <2>1, <2>2, <2>3, <2>4, <2>5, <2>6, <2>7, <2>8, Untouched DEF ArchiveAppend
<1>30. ASSUME NEW c \in Take, ArchiveAbort(c) PROVE Kept
  <2>1. Persists
    BY <1>30, PersistsPlain DEF ArchiveAbort
  <2>2. TaskNext(Ended) /\ JobNext(JobOver) /\ Ended.pc = "done"
    BY <1>1, <2>1, OverNext
  <2>3. arch'[c] = JobOver /\ \A e \in Take : e # c => arch'[e] = arch[e]
    BY <1>30, <1>2 DEF ArchiveAbort
  <2>4. QED
    BY <1>30, <1>2, <2>1, <2>2, <2>3, Untouched DEF ArchiveAbort
<1>31. ASSUME Crash PROVE Kept
  <2>1. Persists
    BY <1>31, PersistsPlain DEF Crash
  <2>2. TaskNext(Ended) /\ JobNext(JobOver) /\ Ended.pc = "done"
    BY <1>1, <2>1, OverNext
  <2>3. \A d \in Take : call'[d] \in {call[d], Ended} /\ arch'[d] \in {arch[d], JobOver}
    BY <1>31 DEF Crash
  <2>4. \A d \in Take : TaskNext(call'[d]) /\ JobNext(arch'[d]) /\ SpokenNext(d)
    BY <1>31, <2>1, <2>2, <2>3, Untouched DEF Crash
  <2>5. QED
    BY <1>31, <1>2, <2>1, <2>2, <2>3, <2>4, Untouched DEF Crash
<1>32. ASSUME UNCHANGED vars PROVE Kept
  <2>1. Persists
    BY <1>32, PersistsPlain DEF vars
  <2>2. QED
    BY <1>32, <2>1, Untouched DEF vars
<1>33. QED
  BY <1>10, <1>11, <1>12, <1>13, <1>14, <1>15, <1>16, <1>17, <1>18, <1>19, <1>20, <1>21, <1>22, <1>23, <1>24, <1>25, <1>26, <1>27, <1>28, <1>29, <1>30, <1>31, <1>32 DEF Next, PublishStep, ArchiveStep

\* The invariant holds when the question starts.
LEMMA InitIInv == Init => IInv
<1> SUFFICES ASSUME Init PROVE IInv
  OBVIOUS
<1>1. TypeOK
  BY EmptyThreadLemma, EndedLemma, MaxTurnAssumption, MaxFaultsAssumption
     DEF Init, TypeOK, Session, Row, Phase, Turns, Heard
<1>2. JobHasWords
  BY DEF Init, NoJob, JobHasWords
<1>3. ThreadJustified(EmptyThread)
  BY EmptyThreadLemma DEF ThreadJustified
<1>4. \A c \in Take : TaskJustified(call[c]) /\ JobJustified(arch[c]) /\ SpokenJustified(c)
  BY <1>3 DEF Init, NoJob, NoTask, TaskJustified, JobJustified, SpokenJustified
<1>5. \A n \in Turns : RowJustified(n)
  BY DEF Init, RowJustified
<1>6. QED
  BY <1>1, <1>2, <1>3, <1>4, <1>5 DEF IInv, Typed, Init, FullHasRecording

-----------------------------------------------------------------------------
(* The theorems *)

\* The inductive invariant.
THEOREM Invariant == Spec => []IInv
<1>1. Init => IInv
  BY InitIInv
<1>2. IInv /\ [Next]_vars => IInv'
  BY InvariantStep
<1>3. QED
  BY <1>1, <1>2, PTL DEF Spec

\* Type correctness (TypeOK).
THEOREM TypeCorrect == Spec => []TypeOK
<1>1. IInv => TypeOK
  BY DEF IInv, Typed
<1>2. QED
  BY <1>1, Invariant, PTL

\* What publish_turn_if_new relies on: a turn marked in the thread was published,
\* whatever overlaps, expires, is cancelled, crashes or is written back late.
THEOREM MarksAreTrue == Spec => []MarkedIsSent
<1>1. IInv => MarkedIsSent
  BY DEF IInv, ThreadJustified, MarkedIsSent
<1>2. QED
  BY <1>1, Invariant, PTL

\* A full record is only published for a turn whose recording was archived.
THEOREM FullIsRecorded == Spec => []FullHasRecording
<1>1. IInv => FullHasRecording
  BY DEF IInv
<1>2. QED
  BY <1>1, Invariant, PTL

\* append_turn_node is idempotent under any overlap of archive runs.
THEOREM TurnsAppendedOnce == Spec => []OneEntryPerTurn
<1>1. IInv => OneEntryPerTurn
  BY DEF IInv, ThreadJustified, OneEntryPerTurn
<1>2. QED
  BY <1>1, Invariant, PTL

\* The recording does not decide whether a turn exists (turn_publisher.py:216): a
\* caller that waits for it has published the words, unless a transcript of the
\* turn was not stored or was erased by an archive run.
THEOREM NoWaitUnpublished == Spec => []RecordingDoesNotDecide
<1>1. IInv => RecordingDoesNotDecide
  BY DEF IInv, TaskJustified, RecordingDoesNotDecide
<1>2. QED
  BY <1>1, Invariant, PTL

\* With the same exception, the row of a turn has the words the thread has, which
\* the marking prefers: any number of takes, callers and archive runs of a turn,
\* in any order.
THEOREM RowsMatch == Spec => []RowMatchesThread
<1>1. IInv => RowMatchesThread
  BY DEF IInv, RowJustified, Fits, RowMatchesThread
<1>2. QED
  BY <1>1, Invariant, PTL

\* A step of the publishers and the archive is a step of the ledger, or none.
LEMMA LedgerStep == IInv /\ [Next]_vars => [Ledger!Next]_(Ledger!vars)
<1> SUFFICES ASSUME IInv, [Next]_vars PROVE [Ledger!Next]_(Ledger!vars)
  OBVIOUS
<1>1. /\ TypeOK /\ call \in [Take -> Task] /\ arch \in [Take -> Job] /\ left \subseteq Task
      /\ spoken \in [Take -> Turns \cup {0}]
      /\ \A c \in Take : call[c].turn \in Turns /\ arch[c].turn \in Turns
  BY DEF IInv, Typed, TypeOK, Task, Job
<1>2. /\ \A c \in Take : TaskJustified(call[c]) /\ SpokenJustified(c)
      /\ \A r \in left : TaskJustified(r) /\ r.turn \in Turns
  BY <1>1 DEF IInv, Task
<1>3. \A n \in Turns : \A w : Fits(w, n) => w \in Take \cup {Blank} /\ w \in Ledger!Of(n)
  BY DEF Fits, Mine, Ledger!Of
<1>4. ASSUME NEW c \in Take, NEW w \in {c, Blank}, TurnEnd(c, w) PROVE Ledger!Next
  <2>1. session.next \in Turns /\ spoken[c] = 0
    BY <1>1, <1>2, <1>4, NextIsTurn DEF TurnEnd, Fresh, Unused, SpokenJustified
  <2>2. Ledger!Say(c, session.next)
    BY <1>4, <2>1 DEF TurnEnd, Ledger!Say
  <2>3. QED
    BY <2>1, <2>2 DEF Ledger!Next
<1>5. ASSUME NEW c \in Take, SendPreliminary(c) PROVE Ledger!Next
  <2>1. Fits(call[c].take, call[c].turn)
    BY <1>2, <1>5 DEF SendPreliminary, TaskJustified
  <2>2. Ledger!Record(call[c].turn, call[c].take)
    BY <1>1, <1>3, <1>5, <2>1 DEF SendPreliminary, Ledger!Record
  <2>3. QED
    BY <1>1, <1>3, <2>1, <2>2 DEF Ledger!Next
<1>6. ASSUME NEW c \in Take, SendFull(c) PROVE Ledger!Next
  <2>1. Fits(call[c].take, call[c].turn) /\ call[c].turn \in archived
    BY <1>2, <1>6 DEF SendFull, TaskJustified
  <2>2. Ledger!Complete(call[c].turn, call[c].take)
    BY <1>1, <1>3, <1>6, <2>1 DEF SendFull, Ledger!Complete
  <2>3. QED
    BY <1>1, <1>3, <2>1, <2>2 DEF Ledger!Next
<1>7. ASSUME NEW c \in Take, ArchiveAppend(c) PROVE Ledger!Next
  <2>1. Ledger!Archive(arch[c].turn)
    BY <1>7 DEF ArchiveAppend, Ledger!Archive
  <2>2. QED
    BY <1>1, <2>1 DEF Ledger!Next
<1>8. ASSUME NEW r \in left, Lands(r) PROVE Ledger!Next \/ UNCHANGED Ledger!vars
  <2>1. TaskJustified(r) /\ r.turn \in Turns /\ archived' = archived /\ spoken' = spoken
    BY <1>2, <1>8 DEF Lands
  <2>2. CASE r.pc = "sendPreliminary"
    <3>1. row' = [row EXCEPT ![r.turn] = [phase |-> "preliminary", take |-> r.take]]
      BY <1>8, <2>2 DEF Lands
    <3>2. Fits(r.take, r.turn)
      BY <2>1, <2>2 DEF TaskJustified
    <3>3. Ledger!Record(r.turn, r.take)
      BY <1>3, <2>1, <3>1, <3>2 DEF Ledger!Record
    <3>4. r.take \in Take \cup {Blank} /\ r.turn \in Turns
      BY <1>3, <2>1, <3>2
    <3>5. QED
      BY <3>3, <3>4 DEF Ledger!Next
  <2>3. CASE r.pc = "sendFull"
    <3>1. row' = [row EXCEPT ![r.turn] = [phase |-> "full", take |-> r.take]]
      BY <1>8, <2>3 DEF Lands
    <3>2. Fits(r.take, r.turn) /\ r.turn \in archived
      BY <2>1, <2>3 DEF TaskJustified
    <3>3. Ledger!Complete(r.turn, r.take)
      BY <1>3, <2>1, <3>1, <3>2 DEF Ledger!Complete
    <3>4. r.take \in Take \cup {Blank} /\ r.turn \in Turns
      BY <1>3, <2>1, <3>2
    <3>5. QED
      BY <3>3, <3>4 DEF Ledger!Next
  <2>4. CASE r.pc \notin {"sendPreliminary", "sendFull"}
    <3>1. row' = row
      BY <1>8, <2>4 DEF Lands
    <3>2. QED
      BY <2>1, <3>1 DEF Ledger!vars
  <2>5. QED
    BY <2>2, <2>3, <2>4
<1>9. CASE UNCHANGED <<row, archived, spoken>>
  BY <1>9 DEF Ledger!vars
<1>10. QED
  BY <1>4, <1>5, <1>6, <1>7, <1>8, <1>9
     DEF Next, vars, Decide, Drop, QuestionStart, Resume, RecoverPending, PublishStep,
         CheckBefore, MarkPreliminary, SeeTurn, WaitExpires, Recheck, MarkFull, Abort,
         PostArchive, ArchiveStep, ArchiveLoad, ArchiveTranscribe, ArchiveAbort, Crash

\* Publishing implements the ledger, for any number of turns, takes and faults and
\* any overlap: a row holds words of its own turn, or none, and is complete only
\* when a recording of that turn was archived.
THEOREM LedgerIsKept == Spec => LedgerSpec
<1>1. Init => Ledger!Init
  BY DEF Init, Ledger!Init
<1>2. QED
  BY <1>1, LedgerStep, Invariant, PTL DEF Spec, LedgerSpec, Ledger!Spec
====
