--------------------------- MODULE ExamEvaluation ---------------------------
(***************************************************************************)
(* The evaluation of one answer, as one attempt of the grading consumer    *)
(* runs it: the graph of every turn (exam or practice), then the whole     *)
(* answer's validity, length and language, then the Completed event.       *)
(*                                                                         *)
(* A graph runs in supersteps: the nodes scheduled together all read the   *)
(* state before the step, and what they schedule runs in the next one.     *)
(* Every node is an action; of two nodes of a step the later action reads  *)
(* nothing that the earlier one writes.  The retry of a failed attempt is  *)
(* module GradingConsumer.                                                 *)
(***************************************************************************)
EXTENDS Naturals, FiniteSets

CONSTANTS MaxTurns,  \* turns of an answer
          Kinds,     \* "exam", "practice": which graphs are looked at
          Reply      \* rules the validity model may report, as it words them

Turn == 1 .. MaxTurns
Said == {"silent", "english", "foreign"}
\* A transcript: "tagged" is foreign speech inside the marks [VI: ...] that
\* the transcription of a recording adds; a live transcript has none.
TextClass == Said \cup {"tagged"}
\* live: where a live transcript is found, in the archive or in the event.
Input == {i \in [said : Said, live : {"no", "archive", "event"}, audio : BOOLEAN] :
            i.said = "silent" => i.live = "no"}

Node  == {"start", "validity", "pronunciation", "scale", "length", "language", "merge"}
Error == {"pronunciation", "scale", "language"}
Cause == {"recording",   \* not fetched, transcribed or assessed
          "archive",     \* not read
          "reference",   \* scripted, without the text to assess a recording by
          "language"}    \* not judged
Rule  == [id : {"no_speech", "wrong_language", "too_short", "profanity", "off_topic"},
          blocking : BOOLEAN, action : {"reject_or_zero", "score_with_penalty"},
          severity : 0 .. 4]

ASSUME ReplyAssumption ==
    Reply \subseteq [id : {"profanity", "off_topic"}, blocking : {"yes", "no", "unset"},
                     action : {"reject_or_zero", "score_with_penalty", "unset"},
                     severity : {"medium", "critical", "unset"}]
ASSUME KindAssumption == MaxTurns \in Nat \ {0} /\ Kinds \subseteq {"exam", "practice"}

VARIABLES
    kind,     \* the topic the request came from
    turns,    \* how many turns the request has
    payload,  \* framed: a framework of the request, or its code or name, is that
              \* of pronunciation; unread: scripted, but without a reference
    input,    \* the request's turns
    run,      \* the graph state of each turn
    phase,    \* of the attempt
    whole,    \* the graph state of the aggregate evaluation
    event,    \* the Completed event, once built
    cause     \* history: what broke

vars == <<kind, turns, payload, input, run, phase, whole, event, cause>>

GraphState ==
    [at : SUBSET Node, next : SUBSET Node,
     status : {"idle", "processing", "completed", "error"},
     audio : BOOLEAN,                           \* audio_path is usable
     text : TextClass,                          \* transcribed_text
     judged : BOOLEAN, rules : SUBSET Rule,     \* validity
     pron : {"none", "blank", "azure", "rubric"},
     measured : BOOLEAN,                        \* answer_length_metrics
     language : BOOLEAN, attached : BOOLEAN,    \* the criteria, and on the result
     errors : SUBSET Error]

Idle == [at |-> {}, next |-> {}, status |-> "idle", audio |-> FALSE, text |-> "silent",
         judged |-> FALSE, rules |-> {}, pron |-> "none", measured |-> FALSE,
         language |-> FALSE, attached |-> FALSE, errors |-> {}]

NoEvent == [sent |-> FALSE]
Score   == {"none", "zero", "azure", "rubric", "model"}
Events  == [sent : {TRUE}, valid : BOOLEAN, action : {"reject_or_zero", "score_with_penalty", "score"},
            pronunciation : Score, language : Score, gate : BOOLEAN]

TypeOK ==
    /\ kind \in Kinds /\ turns \in Turn
    /\ payload \in [framed : BOOLEAN, unread : BOOLEAN]
    /\ input \in [Turn -> Input]
    /\ run \in [Turn -> GraphState]
    /\ phase \in {"turns", "validity", "length", "language", "merge", "completed", "failed"}
    /\ whole \in GraphState
    /\ event \in Events \cup {NoEvent}
    /\ cause \subseteq Cause

Asked == 1 .. turns

(***************************************************************************)
(* The rules of validity.                                                  *)
(***************************************************************************)
Words(text) == text # "silent"
\* compute_code_switching_ratio only counts words inside the marks.
MostlyForeign(text) == text = "tagged"
Unwrap(text) == IF text = "tagged" THEN "foreign" ELSE text

Critical == 4
NoSpeech == [id |-> "no_speech", blocking |-> TRUE, action |-> "reject_or_zero",
             severity |-> Critical]
WrongLanguage == [NoSpeech EXCEPT !.id = "wrong_language"]
TooShort == [id |-> "too_short", blocking |-> FALSE, action |-> "score_with_penalty",
             severity |-> 2]

\* What a reply leaves out, or words unknown to the schema, count as the worst.
Normalized(r) ==
    [id |-> r.id, blocking |-> r.blocking # "no",
     action |-> IF r.action = "unset" THEN "reject_or_zero" ELSE r.action,
     severity |-> IF r.severity = "medium" THEN 2 ELSE Critical]

Rejects(rules) == \E r \in rules : r.blocking /\ r.action = "reject_or_zero"

Gates(text) ==
    (IF Words(text) THEN {} ELSE {NoSpeech}) \cup
    (IF MostlyForeign(text) THEN {WrongLanguage} ELSE {})

\* What validity_node may answer for a text: the deterministic gates; for a
\* complete answer also the length rule and, when nothing rejects it yet, every
\* rule the model reports.  A model that fails adds none, or those it read first.
ValidityOf(text, fragment) ==
    LET short == IF fragment \/ ~ Words(text) THEN {{}} ELSE {{}, {TooShort}}
        model == IF fragment \/ Rejects(Gates(text)) THEN {{}}
                 ELSE SUBSET {Normalized(r) : r \in Reply}
    IN  {Gates(text) \cup s \cup m : s \in short, m \in model}

(***************************************************************************)
(* The graph of one turn.                                                  *)
(***************************************************************************)
Fragment == turns > 1

AfterValidity(rules) ==
    IF Rejects(rules) THEN {}
    ELSE IF Fragment THEN {"pronunciation"} ELSE {"pronunciation", "length"}

\* Mutant: the exam graph without its scale node.
UnscaledEdges(node) ==
    CASE node = "start"         -> {"validity"}
      [] node = "pronunciation" -> {"merge"}
      [] node = "length"        -> {"language"}
      [] node = "language"      -> {"merge"}
      [] OTHER                  -> {}

Edges(node) ==
    CASE node = "start"         -> {"validity"}
      [] node = "pronunciation" -> {"scale"}
      [] node = "scale"         -> {"merge"}
      [] node = "length"        -> {"language"}
      [] node = "language"      -> {"merge"}
      [] OTHER                  -> {}

\* Without the scale node the first merge runs beside the language node, and
\* merge runs again after it.
PracticeEdges(node) == IF node = "pronunciation" THEN {"merge"} ELSE Edges(node)

Successors(node) == IF kind = "practice" THEN PracticeEdges(node) ELSE Edges(node)

\* r after the node, with what it schedules; the last node ends the superstep.
Leave(r, node, scheduled) ==
    LET left == r.at \ {node}
        next == r.next \cup scheduled
    IN  [r EXCEPT !.at   = IF left = {} THEN next ELSE left,
                  !.next = IF left = {} THEN {} ELSE next]

Runs(t, node) == phase = "turns" /\ t \in Asked /\ node \in run[t].at

\* Before the graph the recording is fetched and the archive asked for the live
\* transcript; the practice consumer falls back on the transcript of the event.
HasLive(i) == i.live = "archive" \/ (kind = "practice" /\ i.live = "event")

BeginTurn(t) ==
    /\ phase = "turns" /\ t \in Asked /\ run[t].status = "idle"
    /\ \/ /\ run' = [run EXCEPT ![t] = [Idle EXCEPT !.status = "processing",
                                                    !.audio = input[t].audio,
                                                    !.at = {"start"}]]
          /\ UNCHANGED cause
       \/ /\ input[t].audio                \* the download raises
          /\ run' = [run EXCEPT ![t].status = "error"]
          /\ cause' = cause \cup {"recording"}
       \/ /\ run' = [run EXCEPT ![t].status = "error"]      \* the archive raises
          /\ cause' = cause \cup {"archive"}
    /\ UNCHANGED <<kind, turns, payload, input, phase, whole, event>>

\* The live transcript before the recording's, before silence.
Transcript(i) ==
    IF HasLive(i) THEN i.said
    ELSE IF ~ i.audio THEN "silent"
    ELSE IF i.said = "foreign" THEN "tagged" ELSE i.said

Start(t) ==
    /\ Runs(t, "start")
    /\ \/ /\ run' = [run EXCEPT ![t] = [Leave(run[t], "start", Successors("start"))
                                          EXCEPT !.text = Transcript(input[t])]]
          /\ UNCHANGED cause
       \/ /\ input[t].audio /\ ~ HasLive(input[t])         \* transcription raises
          /\ run' = [run EXCEPT ![t] = [Leave(run[t], "start", {}) EXCEPT !.status = "error"]]
          /\ cause' = cause \cup {"recording"}
    /\ UNCHANGED <<kind, turns, payload, input, phase, whole, event>>

Validity(t) ==
    /\ Runs(t, "validity")
    /\ \E rules \in ValidityOf(run[t].text, Fragment) :
          run' = [run EXCEPT ![t] = [Leave(run[t], "validity", AfterValidity(rules))
                                       EXCEPT !.judged = TRUE, !.rules = rules]]
    /\ UNCHANGED <<kind, turns, payload, input, phase, whole, event, cause>>

\* A scripted answer needs its reference.  One that cannot be corrected only
\* costs the correction; the timeout stops the recognition and keeps the
\* segments there are.
Pronunciation(t) ==
    /\ Runs(t, "pronunciation")
    /\ \/ /\ run[t].audio /\ ~ payload.unread
          /\ run' = [run EXCEPT ![t] = [Leave(run[t], "pronunciation", Successors("pronunciation"))
                                          EXCEPT !.pron = "azure"]]
          /\ UNCHANGED cause
       \/ /\ run' = [run EXCEPT ![t] = [Leave(run[t], "pronunciation", Successors("pronunciation"))
                                          EXCEPT !.errors = @ \cup {"pronunciation"}]]
          /\ cause' = cause \cup (IF ~ run[t].audio THEN {}
                                 ELSE IF payload.unread THEN {"reference"} ELSE {"recording"})
    /\ UNCHANGED <<kind, turns, payload, input, phase, whole, event>>

\* Scaled into the range of the rubric, when there is a result to scale and a
\* framework that says the range: else Azure's own score stays.
AzureScoreScale(t) ==
    /\ Runs(t, "scale")
    /\ LET r == Leave(run[t], "scale", Successors("scale")) IN
       run' = [run EXCEPT ![t] =
                 IF r.pron = "none" THEN [r EXCEPT !.errors = @ \cup {"scale"}]
                 ELSE IF payload.framed THEN [r EXCEPT !.pron = "rubric"] ELSE r]
    /\ UNCHANGED <<kind, turns, payload, input, phase, whole, event, cause>>

\* The length judgement of the model may fail: the caps are then left out.
AnswerLength(t) ==
    /\ Runs(t, "length")
    /\ run' = [run EXCEPT ![t] = [Leave(run[t], "length", Successors("length"))
                                    EXCEPT !.measured = TRUE]]
    /\ UNCHANGED <<kind, turns, payload, input, phase, whole, event, cause>>

LanguageQuality(t) ==
    /\ Runs(t, "language") /\ "merge" \notin run[t].at
    /\ LET r == Leave(run[t], "language", Successors("language")) IN
       \/ run' = [run EXCEPT ![t] = [r EXCEPT !.language = TRUE]] /\ UNCHANGED cause
       \/ /\ run' = [run EXCEPT ![t] = [r EXCEPT !.errors = @ \cup {"language"}]]
          /\ cause' = cause \cup {"language"}
    /\ UNCHANGED <<kind, turns, payload, input, phase, whole, event>>

\* Mutant: only the missing result is forgiven, the errors of its nodes are not.
MergedWithErrors(r) ==
    IF r.errors # {} THEN [r EXCEPT !.status = "error"]
    ELSE [r EXCEPT !.status = "completed", !.attached = r.language,
                   !.pron = IF r.pron = "none" THEN "blank" ELSE r.pron]

\* No recording is no error of pronunciation: a blank result takes the rest.
ExamMerged(r) ==
    LET errors == IF r.audio THEN r.errors \cup (IF r.pron = "none" THEN {"pronunciation"} ELSE {})
                  ELSE r.errors \ {"pronunciation", "scale"}
    IN  IF errors # {} THEN [r EXCEPT !.status = "error"]
        ELSE [r EXCEPT !.status = "completed", !.attached = r.language,
                       !.pron = IF r.pron = "none" THEN "blank" ELSE r.pron]

PracticeMerged(r) ==
    IF r.errors # {} \/ r.pron = "none" THEN [r EXCEPT !.status = "error"]
    ELSE [r EXCEPT !.status = "completed", !.attached = r.language]

Merge(t) ==
    /\ Runs(t, "merge")
    /\ LET r == Leave(run[t], "merge", {}) IN
       run' = [run EXCEPT ![t] = IF kind = "practice" THEN PracticeMerged(r) ELSE ExamMerged(r)]
    /\ UNCHANGED <<kind, turns, payload, input, phase, whole, event, cause>>

(***************************************************************************)
(* The whole answer.                                                       *)
(***************************************************************************)
Settled(t) == run[t].status # "idle" /\ run[t].at = {}
SaidText   == {Unwrap(run[t].text) : t \in Asked}

\* _combine_transcript takes every turn, also one that was rejected, and drops
\* the marks.  Foreign words are told from English ones by nobody after that;
\* mixed text is given the class of its English part.
Combined == IF "english" \in SaidText THEN "english"
            ELSE IF "foreign" \in SaidText THEN "foreign" ELSE "silent"

\* The blank or assessed result of the first turn that has one.
Base ==
    LET with == {t \in Asked : run[t].pron # "none"}
    IN  IF with = {} THEN "blank"
        ELSE run[CHOOSE t \in with : \A u \in with : t <= u].pron

\* All turns settled: one that failed fails the attempt.
EndTurns ==
    /\ phase = "turns" /\ \A t \in Asked : Settled(t)
    /\ IF \E t \in Asked : run[t].status = "error"
       THEN phase' = "failed" /\ UNCHANGED whole
       ELSE /\ phase' = "validity"
            /\ whole' = [Idle EXCEPT !.status = "processing", !.audio = run[1].audio,
                                     !.text = Combined, !.pron = Base]
    /\ UNCHANGED <<kind, turns, payload, input, run, event, cause>>

\* Mutant: every rule of every turn is kept.
AllRules(rules) == {rules \cup UNION {run[t].rules : t \in Asked}}

\* The aggregate's rules, and the profanity of a turn; of the rules with one id
\* the gravest is kept, of equally grave ones the aggregate's.
MergedRules(rules) ==
    LET safety == {r \in UNION {run[t].rules : t \in Asked} : r.id = "profanity"}
        all    == rules \cup safety
        Kept(r) == /\ \A s \in all : s.id = r.id => s.severity <= r.severity
                   /\ r \in rules \/ \A s \in rules : s.id = r.id => s.severity < r.severity
    IN  {kept \in SUBSET all :
           /\ \A r \in kept : Kept(r)
           /\ \A r \in all : \E s \in kept : s.id = r.id
           /\ \A r, s \in kept : r.id = s.id => r = s}

WholeValidity ==
    /\ phase = "validity"
    /\ \E rules \in ValidityOf(whole.text, FALSE) : \E merged \in MergedRules(rules) :
          LET valid == ~ Rejects(rules) /\ ~ Rejects(merged)
          IN  /\ whole' = [whole EXCEPT !.rules = merged, !.judged = valid]
              /\ phase' = IF valid THEN "length" ELSE "merge"
    /\ UNCHANGED <<kind, turns, payload, input, run, event, cause>>

WholeLength ==
    /\ phase = "length"
    /\ whole' = [whole EXCEPT !.measured = TRUE]
    /\ phase' = "language"
    /\ UNCHANGED <<kind, turns, payload, input, run, event, cause>>

WholeLanguage ==
    /\ phase = "language"
    /\ \/ whole' = [whole EXCEPT !.language = TRUE] /\ UNCHANGED cause
       \/ whole' = [whole EXCEPT !.errors = {"language"}] /\ cause' = cause \cup {"language"}
    /\ phase' = "merge"
    /\ UNCHANGED <<kind, turns, payload, input, run, event>>

(***************************************************************************)
(* The event.                                                              *)
(***************************************************************************)
\* A turn whose result has a pronunciation score.
Assessed(t) == run[t].pron \in {"azure", "rubric"}

Zeroed(w) == ~ w.judged \/ \E r \in w.rules : r.severity = Critical

\* Pronunciation is the average of the assessed turns.
Criteria(w) ==
    IF Zeroed(w) THEN [pronunciation |-> "zero", language |-> "zero"]
    ELSE [pronunciation |-> IF \E t \in Asked : Assessed(t)
                            THEN run[CHOOSE t \in Asked : Assessed(t)].pron ELSE "none",
          language |-> IF w.attached THEN "model" ELSE "none"]

\* The acoustic gate of the confidence case reads each turn's length metrics.
Gate == \E t \in Asked : run[t].measured /\ run[t].audio

Completed(w) ==
    [sent |-> TRUE, valid |-> w.judged,
     action |-> IF ~ w.judged THEN "reject_or_zero"
                ELSE IF \E r \in w.rules : r.action = "score_with_penalty"
                THEN "score_with_penalty" ELSE "score",
     pronunciation |-> Criteria(w).pronunciation, language |-> Criteria(w).language,
     gate |-> Gate]

\* The aggregate merges with the exam's node, in practice too.  Of an invalid
\* answer the outcome of the merge is not looked at.
WholeMerge ==
    /\ phase = "merge"
    /\ LET w == ExamMerged(whole) IN
       /\ whole' = w
       /\ IF w.judged /\ w.status = "error"
          THEN phase' = "failed" /\ UNCHANGED event
          ELSE phase' = "completed" /\ event' = Completed(w)
    /\ UNCHANGED <<kind, turns, payload, input, run, cause>>

Init ==
    /\ kind \in Kinds /\ turns \in Turn
    /\ payload \in [framed : BOOLEAN, unread : BOOLEAN]
    /\ input \in [Turn -> Input]
    /\ \A t \in Turn \ (1 .. turns) : input[t] = [said |-> "silent", live |-> "no", audio |-> FALSE]
    /\ run = [t \in Turn |-> Idle]
    /\ phase = "turns" /\ whole = Idle /\ event = NoEvent /\ cause = {}

\* The practice graph has its own copy of the nodes it shares with the exam's:
\* they differ in nothing a step reads or writes.
PracticeValidity(t)        == kind = "practice" /\ Validity(t)
PracticePronunciation(t)   == kind = "practice" /\ Pronunciation(t)
PracticeAnswerLength(t)    == kind = "practice" /\ AnswerLength(t)
PracticeLanguageQuality(t) == kind = "practice" /\ LanguageQuality(t)

ExamStep(t) ==
    /\ kind = "exam"
    /\ \/ Validity(t) \/ Pronunciation(t) \/ AzureScoreScale(t)
       \/ AnswerLength(t) \/ LanguageQuality(t)

PracticeStep(t) ==
    \/ PracticeValidity(t) \/ PracticePronunciation(t)
    \/ PracticeAnswerLength(t) \/ PracticeLanguageQuality(t)

TurnStep(t) == BeginTurn(t) \/ Start(t) \/ ExamStep(t) \/ PracticeStep(t) \/ Merge(t)

Done == phase \in {"completed", "failed"} /\ UNCHANGED vars

Next == (\E t \in Turn : TurnStep(t)) \/ EndTurns \/ WholeValidity \/ WholeLength
        \/ WholeLanguage \/ WholeMerge \/ Done

Spec == Init /\ [][Next]_vars

(***************************************************************************)
(* What an evaluation owes.                                                *)
(***************************************************************************)
Heard(t) == IF HasLive(input[t]) \/ input[t].audio THEN input[t].said ELSE "silent"

\* An exam attempt fails only when something broke: a recording could not be
\* fetched, transcribed or assessed, the archive not be read, the language not be
\* judged, or a recording came with a script that has no text.  A turn without
\* a recording, a silent one or a rejected one never costs the answer
\* (merge_scores_node, start_node, _evaluate_turn).
OnlyABreakFails == phase = "failed" /\ kind = "exam" => cause # {}

\* What the comments of _evaluate_turn and the graphs say of both kinds.  The code
\* does not keep it (README, further divergences), and no run checks it.
NoRecordingIsNoBreak == phase = "failed" => cause # {}

\* The pronunciation score of an answer is there exactly when some turn was
\* assessed from its recording, and it is on the scale of its request: the
\* rubric's range in an exam with a framework of pronunciation, else Azure's own.
ScoreIsOfARecording ==
    event.sent /\ event.pronunciation # "zero" =>
        event.pronunciation =
            IF \A t \in Asked : Rejects(run[t].rules) \/ ~ input[t].audio THEN "none"
            ELSE IF kind = "exam" /\ payload.framed THEN "rubric" ELSE "azure"

\* An answer is zeroed only when nothing was heard in any turn, or by a rule
\* of the model about the complete answer or about profanity: what the gates find
\* in one turn, silence or another language, never zeroes the others
\* (_merge_turn_validity).  That it zeroes nothing even when they find it in every
\* turn is what ForeignIsNotPassed holds against the code.
OneTurnDoesNotZero ==
    event.sent /\ "zero" \in {event.pronunciation, event.language} =>
        \/ \A t \in Asked : Heard(t) = "silent"
        \/ \E r \in whole.rules : r.id \in {"profanity", "off_topic"}

\* The deterministic backstop (the comment on WRONG_LANGUAGE_RATIO_THRESHOLD): an
\* answer each turn of which was found to be mostly in another language is not
\* passed.  The code does not keep it: the marks are dropped before the whole is
\* looked at.
ForeignIsNotPassed ==
    event.sent /\ (\A t \in Asked : WrongLanguage \in run[t].rules) => ~ event.valid
=============================================================================
