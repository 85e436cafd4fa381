---------------------------- MODULE TurnPublisher ----------------------------
(***************************************************************************)
(* How the turns of one exam answer reach the durable thread and Kafka.    *)
(*                                                                         *)
(*   - the frame loop of the attempt connection ends turns (turn_end),     *)
(*     decides, and spawns two background tasks per turn;                  *)
(*   - publish_turn_if_new (turn_publisher.py) publishes a preliminary     *)
(*     record at once and the full one when the recording is archived;     *)
(*   - _archive_turn (attempt/connection.py), or a POST /turns/archive,    *)
(*     runs the archive graph, which works on the checkpoint it loaded     *)
(*     when it started and writes its own copy of every channel back;      *)
(*   - connections are replaced, the process crashes, tasks fail or expire.*)
(*                                                                         *)
(* A take is a turn_end together with the tasks it spawned; a recovery of  *)
(* a pending turn and a retried POST /turns/archive use up a take as well, *)
(* so |Take| bounds the number of publish_turn_if_new calls and of archive *)
(* runs.  update_state is one step: a read and a write of a few ms in one  *)
(* worker thread.  The archive graph is not: it loads, transcribes for     *)
(* seconds and then writes twice.                                          *)
(*                                                                         *)
(* A task that is cancelled is gone at once, but not what it was waiting   *)
(* for: the thread of a to_thread goes on with its write, and Kafka's      *)
(* producer with its message (`left`).  For the same reason nothing stops  *)
(* an archive run once the graph was started: its task may be cancelled,   *)
(* the run is not.                                                         *)
(***************************************************************************)
EXTENDS AnswerThread, FiniteSets

CONSTANT MaxFaults  \* bound on failing calls, lost writes, cancels and crashes

ASSUME MaxFaultsAssumption == MaxFaults \in Nat
ASSUME TakeAssumption == Take \subseteq Nat

VARIABLES
    th,        \* the checkpoint of the answer (durable)
    session,   \* the question session of the current connection
    call,      \* per take: its decision and its publish_turn_if_new task
    arch,      \* per take: its archive run
    row,       \* per turn: the last event Kafka got, i.e. the row Java upserts
    sent,      \* per turn: how many events of each phase were published
    left,      \* requests that cancelled tasks left under way
    archived,  \* history: turns whose recording was ever appended
    spoken,    \* history: per take, the turn it answered, or 0
    missed,    \* history: turns of which a transcript was not stored, or erased
    cut,       \* history: turns of which a call ended by an error, a cancel or a crash
    faults

vars == <<th, session, call, arch, row, sent, left, archived, spoken, missed, cut, faults>>

-----------------------------------------------------------------------------
TaskPc == {"idle", "recover", "decide", "check", "sendPreliminary",
           "markPreliminary", "wait", "recheck", "sendFull", "markFull", "done"}
JobPc  == {"none", "upload", "transcribe", "append", "done"}
Phase  == {"none", "preliminary", "full"}

Session == [up : BOOLEAN, busy : BOOLEAN, next : 1 .. MaxTurn + 1]
Row == [phase : Phase, take : Heard]
Task == [pc   : TaskPc,
         turn : Turns,
         live : BOOLEAN,  \* decided by the current connection
         take : Heard]    \* the words of the next event
Job  == [pc   : JobPc,
         turn : Turns,
         take : Heard,    \* the recording, then its words
         snap : Thread]   \* the checkpoint it works on

TypeOK ==
    /\ th \in Thread
    /\ session \in Session
    /\ call \in [Take -> Task]
    /\ arch \in [Take -> Job]
    /\ row \in [Turns -> Row]
    /\ sent \in [Turns -> [preliminary : Nat, full : Nat]]
    /\ left \subseteq Task
    /\ archived \subseteq Turns
    /\ spoken \in [Take -> Turns \cup {0}]
    /\ missed \subseteq Turns
    /\ cut \subseteq Turns
    /\ faults \in Nat

NoSession == [up |-> FALSE, busy |-> FALSE, next |-> 1]
NoTask == [pc |-> "idle", turn |-> 1, live |-> FALSE, take |-> NoTake]
NoJob  == [pc |-> "none", turn |-> 1, take |-> NoTake, snap |-> EmptyThread]

\* question_start was acknowledged: the session exists, nothing was said yet.
Init ==
    /\ th = EmptyThread
    /\ session = [up |-> TRUE, busy |-> FALSE, next |-> 1]
    /\ call = [c \in Take |-> NoTask]
    /\ arch = [c \in Take |-> NoJob]
    /\ row = [n \in Turns |-> [phase |-> "none", take |-> NoTake]]
    /\ sent = [n \in Turns |-> [preliminary |-> 0, full |-> 0]]
    /\ left = {} /\ archived = {}
    /\ spoken = [c \in Take |-> 0] /\ missed = {} /\ cut = {}
    /\ faults = 0

-----------------------------------------------------------------------------
Unused(c) == call[c].pc = "idle" /\ arch[c].pc = "none"

\* Takes are numbered in the order they are used.
Fresh(c) == Unused(c) /\ \A d \in Take : d < c => ~Unused(d)

Fault == faults < MaxFaults /\ faults' = faults + 1

Goto(c, pc) == call' = [call EXCEPT ![c].pc = pc]

\* A task that ends keeps nothing.
Ended   == [NoTask EXCEPT !.pc = "done"]
End(c)  == call' = [call EXCEPT ![c] = Ended]
JobOver == [NoJob EXCEPT !.pc = "done"]

\* Every call the current connection was deciding is now someone else's.
Orphaned == [c \in Take |-> [call[c] EXCEPT !.live = FALSE]]

-----------------------------------------------------------------------------
(* The connection's frame loop *)

\* TurnProcessor.process up to the decision: the transcript is stored before
\* the LLM is asked.  A failed write is logged and swallowed.
TurnEnd(c, words) ==
    /\ Fresh(c)
    /\ session.up /\ ~session.busy /\ session.next <= MaxTurn
    /\ \/ /\ th' = AddTranscript(th, session.next, words)
          /\ UNCHANGED <<missed, cut, faults>>
       \/ /\ Fault
          /\ missed' = missed \cup {session.next}
          /\ UNCHANGED th
    /\ spoken' = [spoken EXCEPT ![c] = session.next]
    /\ session' = [session EXCEPT !.busy = TRUE]
    /\ call' = [call EXCEPT ![c] = [pc |-> "decide", turn |-> session.next,
                                    live |-> TRUE, take |-> NoTake]]
    /\ UNCHANGED <<arch, row, sent, left, archived, cut>>

\* Mutated form of Decide: the archive reads the turn order of the session, which
\* complete_turn has advanced.
DecideReadsSession(c) ==
    /\ call[c].pc = "decide"
    /\ call' = [call EXCEPT ![c] = [NoTask EXCEPT !.pc = "check", !.turn = call[c].turn]]
    /\ session' = IF call[c].live
                  THEN [session EXCEPT !.busy = FALSE, !.next = call[c].turn + 1]
                  ELSE session
    /\ \/ /\ call[c].live /\ spoken[c] # 0 /\ call[c].turn < MaxTurn
          /\ arch' = [arch EXCEPT ![c] = [@ EXCEPT !.pc = "upload", !.turn = call[c].turn + 1,
                                                   !.take = c]]
       \/ UNCHANGED arch
    /\ UNCHANGED <<th, row, sent, left, archived, spoken, missed, cut, faults>>

\* _decide_and_complete, then the rest of _handle_turn_end: complete_turn,
\* spawn the publisher, and spawn the archive only if the connection still has
\* an active session.  An empty buffer ends _archive_turn at once, and that of a
\* recovered turn is empty.
Decide(c) ==
    /\ call[c].pc = "decide"
    /\ call' = [call EXCEPT ![c] = [NoTask EXCEPT !.pc = "check", !.turn = call[c].turn]]
    /\ session' = IF call[c].live
                  THEN [session EXCEPT !.busy = FALSE, !.next = call[c].turn + 1]
                  ELSE session
    /\ \/ /\ call[c].live /\ spoken[c] # 0
          /\ arch' = [arch EXCEPT ![c] = [@ EXCEPT !.pc = "upload", !.turn = call[c].turn,
                                                   !.take = c]]
       \/ UNCHANGED arch
    /\ UNCHANGED <<th, row, sent, left, archived, spoken, missed, cut, faults>>

\* The connection is evicted by a new one, or closes: clear() forgets the
\* session, its background tasks go on.
Drop ==
    /\ session.up
    /\ session' = NoSession
    /\ call' = Orphaned
    /\ UNCHANGED <<th, arch, row, sent, left, archived, spoken, missed, cut, faults>>

\* question_start on a new connection: hydrate_from_archive, no recovery.
QuestionStart ==
    /\ ~session.up
    /\ \E n \in 1 .. MaxTurn + 1 :
          /\ IsNextTurn(th, n)
          /\ session' = [up |-> TRUE, busy |-> FALSE, next |-> n]
    /\ UNCHANGED <<th, call, arch, row, sent, left, archived, spoken, missed, cut, faults>>

\* resume: create_from_archive rebuilds the session from the thread...
Resume(c) ==
    /\ ~session.up /\ Fresh(c)
    /\ \E n \in Turns :
       /\ IsNextTurn(th, n)
       /\ session' = [up |-> TRUE, busy |-> TRUE, next |-> n]
       /\ call' = [call EXCEPT ![c] = [pc |-> "recover", turn |-> n, live |-> TRUE, take |-> NoTake]]
    /\ UNCHANGED <<th, arch, row, sent, left, archived, spoken, missed, cut, faults>>

\* ... and recover_pending reads it again: a transcript of the turn to come
\* next is a turn whose decision never arrived; it is decided (again).
RecoverPending(c) ==
    /\ call[c].pc = "recover"
    /\ IF HasTranscript(th, call[c].turn)
       THEN Goto(c, "decide") /\ UNCHANGED session
       ELSE /\ End(c)
            /\ session' = IF call[c].live THEN [session EXCEPT !.busy = FALSE]
                                          ELSE session
    /\ UNCHANGED <<th, arch, row, sent, left, archived, spoken, missed, cut, faults>>

-----------------------------------------------------------------------------
(* publish_turn_if_new, one action per await *)

\* Mutated form of CheckBefore: no preliminary record, as if the recording
\* decided whether the turn exists.
CheckBeforeWaits(c) ==
    /\ call[c].pc = "check"
    /\ IF call[c].turn \in th.published THEN End(c) ELSE Goto(c, "wait")
    /\ UNCHANGED <<th, session, arch, row, sent, left, archived, spoken, missed, cut, faults>>

\* state_before: already published?  if not, is there a preliminary to send?
CheckBefore(c) ==
    /\ call[c].pc = "check"
    /\ LET n == call[c].turn IN
       call' = [call EXCEPT ![c] =
                  IF n \in th.published THEN Ended
                  ELSE IF n \notin th.preliminary /\ HasTranscript(th, n)
                  THEN [@ EXCEPT !.pc = "sendPreliminary",
                                 !.take = th.transcripts[n]]
                  ELSE [@ EXCEPT !.pc = "wait"]]
    /\ UNCHANGED <<th, session, arch, row, sent, left, archived, spoken, missed, cut, faults>>

SendPreliminary(c) ==
    /\ call[c].pc = "sendPreliminary"
    /\ call' = [call EXCEPT ![c].pc = "markPreliminary", ![c].take = NoTake]
    /\ row' = [row EXCEPT ![call[c].turn] = [phase |-> "preliminary", take |-> call[c].take]]
    /\ sent' = [sent EXCEPT ![call[c].turn].preliminary = @ + 1]
    /\ UNCHANGED <<th, session, arch, left, archived, spoken, missed, cut, faults>>

MarkPreliminary(c) ==
    /\ call[c].pc = "markPreliminary"
    /\ Goto(c, "wait")
    /\ th' = [th EXCEPT !.preliminary = @ \cup {call[c].turn}]
    /\ UNCHANGED <<session, arch, row, sent, left, archived, spoken, missed, cut, faults>>

\* wait_for_turn found the archived turn.
SeeTurn(c) ==
    /\ call[c].pc = "wait"
    /\ HasTurn(th, call[c].turn)
    /\ call' = [call EXCEPT ![c].pc = "recheck",
                            ![c].take = th.turns[call[c].turn].first]
    /\ UNCHANGED <<th, session, arch, row, sent, left, archived, spoken, missed, cut, faults>>

\* The polls are used up, or (first, in fact) spawn's 30 s cancel the task.
WaitExpires(c) ==
    /\ call[c].pc = "wait"
    /\ End(c)
    /\ UNCHANGED <<th, session, arch, row, sent, left, archived, spoken, missed, cut, faults>>

\* Mutated form of Recheck: the turn is marked as published before it is sent.
RecheckMarks(c) ==
    /\ call[c].pc = "recheck"
    /\ IF call[c].turn \in th.published
       THEN End(c) /\ UNCHANGED th
       ELSE Goto(c, "sendFull") /\ th' = [th EXCEPT !.published = @ \cup {call[c].turn}]
    /\ UNCHANGED <<session, arch, row, sent, left, archived, spoken, missed, cut, faults>>

\* state_now: another caller may have published while this one waited.  An
\* archived turn without words is given those that were heard live.
Recheck(c) ==
    /\ call[c].pc = "recheck"
    /\ LET n == call[c].turn IN
       call' = [call EXCEPT ![c] =
                  IF n \in th.published THEN Ended
                  ELSE IF @.take = Blank /\ HasTranscript(th, n)
                  THEN [@ EXCEPT !.pc = "sendFull", !.take = th.transcripts[n]]
                  ELSE [@ EXCEPT !.pc = "sendFull"]]
    /\ UNCHANGED <<th, session, arch, row, sent, left, archived, spoken, missed, cut, faults>>

SendFull(c) ==
    /\ call[c].pc = "sendFull"
    /\ call' = [call EXCEPT ![c].pc = "markFull", ![c].take = NoTake]
    /\ row' = [row EXCEPT ![call[c].turn] = [phase |-> "full", take |-> call[c].take]]
    /\ sent' = [sent EXCEPT ![call[c].turn].full = @ + 1]
    /\ UNCHANGED <<th, session, arch, left, archived, spoken, missed, cut, faults>>

MarkFull(c) ==
    /\ call[c].pc = "markFull"
    /\ End(c)
    /\ th' = [th EXCEPT !.published = @ \cup {call[c].turn}]
    /\ UNCHANGED <<session, arch, row, sent, left, archived, spoken, missed, cut, faults>>

\* An exception (caught and logged), spawn's timeout or drain's cancel.  What
\* a cancelled task was waiting for may still go through (Lands).
Abort(c) ==
    /\ call[c].pc \notin {"idle", "done"}
    /\ Fault
    /\ End(c)
    /\ cut' = cut \cup {call[c].turn}
    /\ \/ UNCHANGED left
       \/ /\ call[c].pc \in {"sendPreliminary", "markPreliminary", "sendFull", "markFull"}
          /\ left' = left \cup {call[c]}
    /\ session' = IF call[c].live /\ call[c].pc \in {"recover", "decide"}
                  THEN [session EXCEPT !.busy = FALSE] ELSE session
    /\ UNCHANGED <<th, arch, row, sent, archived, spoken, missed>>

\* The write or the message of a task that is no more.
Lands(r) ==
    /\ r \in left
    /\ left' = left \ {r}
    /\ CASE r.pc = "markPreliminary" -> th' = [th EXCEPT !.preliminary = @ \cup {r.turn}]
         [] r.pc = "markFull"        -> th' = [th EXCEPT !.published = @ \cup {r.turn}]
         [] OTHER                    -> UNCHANGED th
    /\ CASE r.pc = "sendPreliminary" ->
              /\ row' = [row EXCEPT ![r.turn] = [phase |-> "preliminary", take |-> r.take]]
              /\ sent' = [sent EXCEPT ![r.turn].preliminary = @ + 1]
         [] r.pc = "sendFull" ->
              /\ row' = [row EXCEPT ![r.turn] = [phase |-> "full", take |-> r.take]]
              /\ sent' = [sent EXCEPT ![r.turn].full = @ + 1]
         [] OTHER -> UNCHANGED <<row, sent>>
    /\ UNCHANGED <<session, call, arch, archived, spoken, missed, cut, faults>>

-----------------------------------------------------------------------------
(* The archive run of a take *)

\* A client that sends POST /turns/archive, or sends it again, for a turn it
\* recorded.
PostArchive(c, d) ==
    /\ Fresh(c)
    /\ spoken[d] # 0
    /\ arch' = [arch EXCEPT ![c] = [@ EXCEPT !.pc = "upload", !.turn = spoken[d], !.take = d]]
    /\ UNCHANGED <<th, session, call, row, sent, left, archived, spoken, missed, cut, faults>>

\* graph.invoke loads the latest checkpoint; from here on the run sees no
\* other writer's update.
ArchiveLoad(c) ==
    /\ arch[c].pc = "upload"
    /\ arch' = [arch EXCEPT ![c].pc = "transcribe", ![c].snap = th]
    /\ UNCHANGED <<th, session, call, row, sent, left, archived, spoken, missed, cut, faults>>

\* A run writes its copy over whatever others stored meanwhile.
Overwrite(t) ==
    /\ th' = t
    /\ missed' = missed \cup {n \in Turns : HasTranscript(th, n) /\ ~HasTranscript(t, n)}

\* The checkpoint after transcribe_turn is built from the loaded one.
ArchiveTranscribe(c) ==
    /\ arch[c].pc = "transcribe"
    /\ Overwrite(arch[c].snap)
    /\ \E words \in {arch[c].take, Blank} :
          arch' = [arch EXCEPT ![c].pc = "append",
                               ![c].take = TranscriptOf(arch[c].snap, arch[c].turn, words)]
    /\ UNCHANGED <<session, call, row, sent, left, archived, spoken, cut, faults>>

ArchiveAppend(c) ==
    /\ arch[c].pc = "append"
    /\ Overwrite(AppendTurn(arch[c].snap, arch[c].turn, arch[c].take))
    /\ arch' = [arch EXCEPT ![c] = JobOver]
    /\ archived' = archived \cup {arch[c].turn}
    /\ UNCHANGED <<session, call, row, sent, left, spoken, cut, faults>>

\* An error on the way (the upload's own is swallowed), or a cancel before the
\* graph was started: the recording is lost.
ArchiveAbort(c) ==
    /\ arch[c].pc \notin {"none", "done"}
    /\ Fault
    /\ arch' = [arch EXCEPT ![c] = JobOver]
    /\ UNCHANGED <<th, session, call, row, sent, left, archived, spoken, missed, cut>>

-----------------------------------------------------------------------------
\* The process dies: sessions and tasks are gone, the thread and Kafka stay.
Crash ==
    /\ Fault
    /\ session' = NoSession
    /\ call' = [c \in Take |-> IF Unused(c) THEN call[c] ELSE Ended]
    /\ arch' = [c \in Take |-> IF Unused(c) THEN arch[c] ELSE JobOver]
    /\ left' = {}
    /\ cut' = cut \cup {call[c].turn : c \in {d \in Take : call[d].pc \notin {"idle", "done"}}}
    /\ UNCHANGED <<th, row, sent, archived, spoken, missed>>

PublishStep(c) ==
    \/ CheckBefore(c) \/ SendPreliminary(c) \/ MarkPreliminary(c)
    \/ SeeTurn(c) \/ WaitExpires(c)
    \/ Recheck(c) \/ SendFull(c) \/ MarkFull(c)

ArchiveStep(c) == ArchiveLoad(c) \/ ArchiveTranscribe(c) \/ ArchiveAppend(c)

Next ==
    \/ \E c \in Take :
          \/ \E words \in {c, Blank} : TurnEnd(c, words)
          \/ Decide(c) \/ Resume(c) \/ RecoverPending(c)
          \/ PublishStep(c) \/ Abort(c)
          \/ \E d \in Take : PostArchive(c, d)
          \/ ArchiveStep(c) \/ ArchiveAbort(c)
    \/ Drop \/ QuestionStart \/ Crash \/ \E r \in left : Lands(r)

Spec == Init /\ [][Next]_vars

\* The event loop keeps running every call that is ready; nothing obliges the
\* student to speak, a client to reconnect, a recording to be archived or a fault
\* to happen.
Fairness == \A c \in Take : WF_vars(Decide(c) \/ RecoverPending(c) \/ PublishStep(c))
FairSpec == Spec /\ Fairness
-----------------------------------------------------------------------------
(* Properties *)

\* A turn marked in the thread as published was published, in that phase: no
\* interleaving of callers, expired tasks, crashes and archive runs that write
\* old marks back makes a later caller skip a turn Kafka never got.
MarkedIsSent ==
    \A n \in Turns : /\ n \in th.published => sent[n].full > 0
                     /\ n \in th.preliminary => sent[n].preliminary > 0

\* A full record is published only for a turn whose recording was archived.
FullHasRecording == \A n \in Turns : sent[n].full > 0 => n \in archived

\* However often a turn is archived, and however the runs overlap, the thread
\* holds one entry for it (append_turn_node's idempotency guard).
OneEntryPerTurn == \A n \in Turns : th.turns[n].count <= 1

\* A caller that waits for the recording has published the words first: the
\* recording does not decide whether the turn exists (turn_publisher.py:216).
\* Only a turn of which a transcript was not stored, or erased, waits for it.
RecordingDoesNotDecide ==
    \A c \in Take : call[c].pc = "wait" /\ call[c].turn \notin missed
                       => sent[call[c].turn].preliminary > 0

\* The words of a row are those first heard for the turn and still in the
\* thread, which a resume decides again and the marking prefers - whichever of
\* the takes of the turn was recorded, whoever publishes, whichever record
\* comes last.  They are the recording's only when nothing was heard live, and
\* anything only when a transcript was not stored or erased.
RowMatchesThread ==
    \A n \in Turns \ missed :
        row[n].phase # "none" =>
            LET heard == th.transcripts[n] IN row[n].take = heard \/ heard = Blank

\* Publishing implements the ledger, whatever overlaps or fails: no row holds
\* words that were said in another turn, and no row is complete without a
\* recording of its turn in the archive.
Ledger == INSTANCE TurnLedger WITH
              Turn <- Turns, Speech <- Take, Silence <- Blank,
              said <- spoken, recorded <- archived
LedgerSpec == Ledger!Spec

\* Every stored transcript reaches Kafka, with or without its recording, and
\* however connections are replaced: only a transcript that an archive run
\* erased, or a call of that very turn that was cut off, keeps it back.
EveryTurnReachesKafka ==
    []<>(\A n \in Turns : HasTranscript(th, n)
            => sent[n].preliminary > 0 \/ n \in missed \cup cut)

-----------------------------------------------------------------------------
(* What the comments of the code promise, and it does not keep *)

\* "publish it to Kafka exactly once, durably. Safe to call multiple times for
\* the same (answer_id, turn_order)" (turn_publisher.py:160), as safety.
FullAtMostOnce == \A n \in Turns : sent[n].full <= 1

\* "reconnect recovery can always see a turn_end that reached the server"
\* (archive_store.py:219): the turn of every take has a transcript.
RecoverySeesTranscript ==
    \A c \in Take : spoken[c] # 0 => HasTranscript(th, spoken[c])
=============================================================================
