---------------------------- MODULE AnswerThread ----------------------------
(***************************************************************************)
(* The durable state of one exam answer: the LangGraph checkpoint thread   *)
(* (thread_id = answer_id) that archive_store.py, turn_publisher.py and    *)
(* the archive graph all write.                                            *)
(*                                                                         *)
(* FollowUpGraphState declares five of its channels with the `add` reducer *)
(* (turns, realtime_transcripts, decision_reasons, preliminary_turn_orders *)
(* and published_turn_orders).  Such a channel is a list, but its readers  *)
(* only ever look up the FIRST entry of a turn order, or whether there is  *)
(* one.  The two marks are therefore sets of turn orders, a list of        *)
(* transcripts is the first one of each turn order, and turns, whose       *)
(* entries must not be doubled, have a count as well.  decision_reasons    *)
(* only fill the history a resumed session shows the LLM and are left out. *)
(*                                                                         *)
(* A node of the archive graph submits the whole state as its update, but  *)
(* for `turns` (_state_without_turns).  The reducer then appends to a list *)
(* the entries it holds: the first one of a turn order stays the same.     *)
(*                                                                         *)
(* The words of a transcript are named by the take they were said in (a    *)
(* turn_end), or Blank: nothing was heard, or the transcription of the     *)
(* recording came back empty.                                              *)
(***************************************************************************)
EXTENDS Integers

CONSTANTS MaxTurn,   \* turn orders are bounded by 1..MaxTurn
          MaxEntry,  \* entries of one turn order are counted up to MaxEntry
          Take,      \* the spoken answers (one per turn_end)
          Blank,     \* a transcript without words
          NoTake     \* no transcript

ASSUME MaxTurnAssumption  == MaxTurn \in Nat \ {0}
ASSUME MaxEntryAssumption == MaxEntry \in Nat \ {0, 1}
ASSUME NoTakeAssumption   == NoTake \notin Take \cup {Blank} /\ Blank \notin Take

Turns  == 1 .. MaxTurn
Words  == Take \cup {Blank}
Heard  == Words \cup {NoTake}
Thread == [turns       : [Turns -> [first : Heard, count : 0 .. MaxEntry]],
           transcripts : [Turns -> Heard],
           preliminary : SUBSET Turns,
           published   : SUBSET Turns]

EmptyThread == [turns       |-> [n \in Turns |-> [first |-> NoTake, count |-> 0]],
                transcripts |-> [n \in Turns |-> NoTake],
                preliminary |-> {},
                published   |-> {}]

HasTurn(t, n)       == t.turns[n].count > 0
HasTranscript(t, n) == t.transcripts[n] # NoTake

-----------------------------------------------------------------------------
\* persist_realtime_transcript: one more transcript of turn n.
AddTranscript(t, n, w) ==
    [t EXCEPT !.transcripts[n] = IF @ = NoTake THEN w ELSE @]

Counted(k) == IF k <= MaxEntry THEN k ELSE MaxEntry

\* Mutated form of AppendTurn: the idempotency guard is missing.
AppendTurnAlways(t, n, w) ==
    [t EXCEPT !.turns[n] = [first |-> IF @.count = 0 THEN w ELSE @.first,
                            count |-> Counted(@.count + 1)]]

\* append_turn_node: a turn order that is already archived is not appended.
AppendTurn(t, n, w) ==
    IF HasTurn(t, n) THEN t ELSE [t EXCEPT !.turns[n] = [first |-> w, count |-> 1]]

\* Mutated form of TranscriptOf: the recording is always transcribed again.
TranscribedAgain(t, n, w) == w

\* transcribe_turn_node: the transcript heard live is preferred; the recording
\* is transcribed (w) when the thread holds none for this turn order, or one
\* without words.
TranscriptOf(t, n, w) ==
    IF t.transcripts[n] \in Take THEN t.transcripts[n] ELSE w

\* _apply_resume_state: max(archived turn orders) + 1; a session without
\* archived turns keeps the turn order 1 it was created with.
IsNextTurn(t, k) ==
    /\ k > 1 => HasTurn(t, k - 1)
    /\ \A n \in Turns : n >= k => ~HasTurn(t, n)
=============================================================================
