------------------------ MODULE TranscriptAccumulator ------------------------
(***************************************************************************)
(* The words of a turn: TranscriptAccumulator, fed by the voice events of  *)
(* Voice Live and emptied by consume_turn.                                 *)
(*                                                                         *)
(* Text is a sequence of pieces: the whole text of an utterance, or what    *)
(* the deltas so far held.  An utterance belongs to the turn whose snapshot *)
(* was still to be taken when it began.  The vendor sends the text of an    *)
(* utterance some time after its end, or never, and not always in order.   *)
(*                                                                         *)
(* _final_event is set exactly when no final is awaited, but for the waiter *)
(* it already woke: that one is pc = "woken".                              *)
(***************************************************************************)
EXTENDS Integers, Sequences, FiniteSets

CONSTANTS MaxUtterance,  \* bound on what the student says
          MaxTurn        \* bound on the turns, of one or more questions

ASSUME UtteranceAssumption == MaxUtterance \in Nat
ASSUME TurnAssumption      == MaxTurn \in Nat

VARIABLES
    acc,      \* the accumulator of the active question
    pc,       \* consume_turn: not running, waiting for a final, woken by one
    routed,   \* there is an active question to route events to
    turn,     \* the next turn to be taken
    given,    \* what each turn was given
    spoken,   \* the utterances (history, but for pc)
    smooth    \* history: nothing went wrong so far, see Exact

vars == <<acc, pc, routed, turn, given, spoken, smooth>>

Utterance == 1 .. MaxUtterance
Turn      == 1 .. MaxTurn

Piece    == [of : (SUBSET Utterance) \ {{}}, whole : BOOLEAN]
Whole(u) == [of |-> {u}, whole |-> TRUE]
Part(p)  == [of |-> p, whole |-> FALSE]

Accumulator == [text      : Seq(Piece),         \* _finalized_text
                partial   : SUBSET Utterance,   \* utterances with words in _live_partial
                awaiting  : BOOLEAN,
                confident : SUBSET Utterance]   \* those in the confidence sums
Snapshot == [kind : {"none", "spoken", "typed"}, text : Seq(Piece),
             confident : SUBSET Utterance]
Spoken == [pc    : {"unsaid", "speaking", "stopped", "done"},
           turn  : 0 .. MaxTurn + 1,    \* the turn it was said in
           final : 0 .. MaxTurn + 1,    \* the turn its text came in, 0 for none
           sure  : BOOLEAN]             \* ... with a confidence

TypeOK ==
    /\ acc \in Accumulator
    /\ pc \in {"idle", "waiting", "woken"}
    /\ routed \in BOOLEAN
    /\ turn \in 1 .. MaxTurn + 1
    /\ given \in [Turn -> Snapshot]
    /\ spoken \in [Utterance -> Spoken]
    /\ smooth \in BOOLEAN

Fresh == [text |-> <<>>, partial |-> {}, awaiting |-> FALSE, confident |-> {}]
Nothing == [kind |-> "none", text |-> <<>>, confident |-> {}]

Init ==
    /\ acc = Fresh
    /\ pc = "idle"
    /\ routed = TRUE
    /\ turn = 1
    /\ given = [t \in Turn |-> Nothing]
    /\ spoken = [u \in Utterance |-> [pc |-> "unsaid", turn |-> 0, final |-> 0,
                                      sure |-> FALSE]]
    /\ smooth = TRUE

-----------------------------------------------------------------------------
\* route_voice_event: without an active question an event is dropped.
Route(new) == acc' = IF routed THEN new ELSE acc

Speaking == \E u \in Utterance : spoken[u].pc = "speaking"
Pending  == {u \in Utterance : spoken[u].pc = "stopped"}

\* Server VAD: one utterance at a time, each with a start and a stop.
SpeechStart(u) ==
    /\ spoken[u].pc = "unsaid" /\ ~Speaking
    /\ \A v \in 1 .. u - 1 : spoken[v].pc # "unsaid"
    /\ Route([acc EXCEPT !.partial = {}])
    /\ spoken' = [spoken EXCEPT ![u] =
                    [spoken[u] EXCEPT !.pc = "speaking", !.turn = turn]]
    /\ smooth' = (smooth /\ pc = "idle")
    /\ UNCHANGED <<pc, routed, turn, given>>

Delta(u) ==
    /\ spoken[u].pc \in {"speaking", "stopped"}
    /\ Route([acc EXCEPT !.partial = @ \cup {u}])
    /\ UNCHANGED <<pc, routed, turn, given, spoken, smooth>>

SpeechEnd(u) ==
    /\ spoken[u].pc = "speaking"
    /\ Route([acc EXCEPT !.awaiting = TRUE])
    /\ spoken' = [spoken EXCEPT ![u].pc = "stopped"]
    /\ smooth' = (smooth /\ Pending = {})
    /\ UNCHANGED <<pc, routed, turn, given>>

\* _final_event.set()
Woken == IF routed /\ pc = "waiting" THEN "woken" ELSE pc

\* on_final_transcript with a text, and a confidence if there were logprobs.
Final(u, sure) ==
    /\ spoken[u].pc = "stopped"
    /\ Route([text      |-> Append(acc.text, Whole(u)),
              partial   |-> {},
              awaiting  |-> FALSE,
              confident |-> IF sure THEN acc.confident \cup {u} ELSE acc.confident])
    /\ pc' = Woken
    /\ spoken' = [spoken EXCEPT ![u] =
                    [spoken[u] EXCEPT !.pc = "done", !.sure = sure,
                                      !.final = IF routed THEN turn ELSE 0]]
    /\ UNCHANGED <<routed, turn, given, smooth>>

\* on_final_transcript with an empty text takes the live partial.
FinalEmpty(u) ==
    /\ spoken[u].pc = "stopped"
    /\ Route([acc EXCEPT !.text = IF acc.partial = {} THEN @
                                  ELSE Append(@, Part(acc.partial)),
                         !.partial = {}, !.awaiting = FALSE])
    /\ pc' = Woken
    /\ spoken' = [spoken EXCEPT ![u].pc = "done"]
    /\ smooth' = FALSE
    /\ UNCHANGED <<routed, turn, given>>

\* A failed transcription is an event _translate does not know.
TranscriptionFails(u) ==
    /\ spoken[u].pc = "stopped"
    /\ spoken' = [spoken EXCEPT ![u].pc = "done"]
    /\ smooth' = FALSE
    /\ UNCHANGED <<acc, pc, routed, turn, given>>

-----------------------------------------------------------------------------
\* Mutated forms of Take: the reset forgets the text, or the confidence.
TakeKeepsText(kind, text) ==
    /\ given' = [given EXCEPT ![turn] =
                   [kind |-> kind, text |-> text,
                    confident |-> IF kind = "typed" THEN {} ELSE acc.confident]]
    /\ acc' = [Fresh EXCEPT !.text = text]
    /\ pc' = "idle"
    /\ turn' = turn + 1

TakeKeepsConfidence(kind, text) ==
    /\ given' = [given EXCEPT ![turn] =
                   [kind |-> kind, text |-> text,
                    confident |-> IF kind = "typed" THEN {} ELSE acc.confident]]
    /\ acc' = [Fresh EXCEPT !.confident = acc.confident]
    /\ pc' = "idle"
    /\ turn' = turn + 1

\* The turn is given its snapshot, and the accumulator is reset.
Take(kind, text) ==
    /\ given' = [given EXCEPT ![turn] =
                   [kind |-> kind, text |-> text,
                    confident |-> IF kind = "typed" THEN {} ELSE acc.confident]]
    /\ acc' = Fresh
    /\ pc' = "idle"
    /\ turn' = turn + 1

MayAct == pc = "idle" /\ routed /\ turn \in Turn

\* Mutated form of TurnEnd: it does not wait for the text under way.
TurnEndAtOnce ==
    /\ MayAct
    /\ Take("spoken", acc.text)
    /\ smooth' = (smooth /\ ~Speaking)
    /\ UNCHANGED <<routed, spoken>>

\* turn_end reaches consume_turn.
TurnEnd ==
    /\ MayAct
    /\ \/ ~acc.awaiting /\ Take("spoken", acc.text)
       \/ acc.awaiting /\ pc' = "waiting" /\ UNCHANGED <<acc, turn, given>>
    /\ smooth' = (smooth /\ ~Speaking)
    /\ UNCHANGED <<routed, spoken>>

\* The final event woke it; other events may have come since.
Wake ==
    /\ pc = "woken"
    /\ Take("spoken", acc.text)
    /\ UNCHANGED <<routed, spoken, smooth>>

\* Three seconds passed: the partial has to do.
TimesOut ==
    /\ pc # "idle"
    /\ Take("spoken", IF acc.partial = {} THEN acc.text
                      ELSE Append(acc.text, Part(acc.partial)))
    /\ smooth' = FALSE
    /\ UNCHANGED <<routed, spoken>>

\* A turn_end that carries its text: what was heard is dropped.
TypedTurnEnd ==
    /\ MayAct
    /\ Take("typed", <<>>)
    /\ smooth' = (smooth /\ ~Speaking /\ Pending = {})
    /\ UNCHANGED <<routed, spoken>>

\* question_start: a new session, with an accumulator of its own.
QuestionStart ==
    /\ MayAct
    /\ acc' = Fresh
    /\ turn' = turn + 1
    /\ smooth' = (smooth /\ ~Speaking /\ Pending = {})
    /\ UNCHANGED <<pc, routed, given, spoken>>

\* The connection is evicted or closed, whatever it is handling.
Clear ==
    /\ routed /\ routed' = FALSE
    /\ smooth' = FALSE
    /\ UNCHANGED <<acc, pc, turn, given, spoken>>

Next ==
    \/ \E u \in Utterance :
          \/ SpeechStart(u) \/ Delta(u) \/ SpeechEnd(u)
          \/ FinalEmpty(u) \/ TranscriptionFails(u)
          \/ \E sure \in BOOLEAN : Final(u, sure)
    \/ TurnEnd \/ Wake \/ TimesOut \/ TypedTurnEnd \/ QuestionStart \/ Clear

Spec == Init /\ [][Next]_vars
-----------------------------------------------------------------------------
(* Properties *)

SpokenIn(t) == {u \in Utterance : spoken[u].turn = t}
TextOf(s)   == UNION {s[i].of : i \in DOMAIN s}

Once(s, p)  == \E i \in DOMAIN s : \A j \in DOMAIN s : s[j] = p <=> j = i
Never(s, p) == \A i \in DOMAIN s : s[i] # p

\* A final text is given to the turn that was open when it came, once, and to no
\* other, whatever happened before: early ends, time-outs, overlapping
\* utterances, questions that change.
WholeOnce ==
    \A u \in Utterance, t \in Turn :
        IF spoken[u].final = t /\ given[t].kind = "spoken"
        THEN Once(given[t].text, Whole(u))
        ELSE Never(given[t].text, Whole(u))

\* The confidence of a turn is that of words it holds.
ConfidenceIsOfItsWords ==
    \A t \in Turn : given[t].confident \subseteq TextOf(given[t].text)

\* The inductive invariant behind WholeOnce and ConfidenceIsOfItsWords: what
\* the accumulator holds is what the turn to come will be given.
HeldOnce ==
    \A u \in Utterance : IF spoken[u].final = turn THEN Once(acc.text, Whole(u))
                         ELSE Never(acc.text, Whole(u))

FinalsAreDone ==
    \A u \in Utterance :
        /\ spoken[u].final <= turn
        /\ spoken[u].final # 0 => spoken[u].pc = "done"

IInv ==
    /\ TypeOK
    /\ pc # "idle" => turn \in Turn
    /\ \A t \in Turn : t >= turn => given[t] = Nothing
    /\ FinalsAreDone
    /\ HeldOnce
    /\ WholeOnce
    /\ acc.confident \subseteq TextOf(acc.text)
    /\ ConfidenceIsOfItsWords

\* As long as every text comes in time, one at a time, and turns end between
\* utterances: a turn is given exactly what was said in it, in order, with the
\* confidence of exactly those words.
Exact ==
    smooth => \A t \in Turn : given[t].kind = "spoken" =>
        /\ Len(given[t].text) = Cardinality(SpokenIn(t))
        /\ \A i \in DOMAIN given[t].text :
              \E u \in SpokenIn(t) : /\ given[t].text[i] = Whole(u)
                                     /\ Cardinality({v \in SpokenIn(t) : v < u}) = i - 1
        /\ given[t].confident = {u \in SpokenIn(t) : spoken[u].sure}
=============================================================================
