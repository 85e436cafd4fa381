-------------------------- MODULE FollowUpDecision --------------------------
(***************************************************************************)
(* The conversation about one question: for each turn of the student the   *)
(* decision graph (signals, then repeat recovery and follow-up side by     *)
(* side, then their merge), the limits of TurnProcessor, and complete_turn *)
(* of the session, exam and practice alike.  How a turn reaches the server *)
(* and its decision the student is TurnPublisher and AttemptConnection.    *)
(*                                                                         *)
(* The list of turns is kept as what the code reads of it: how many were   *)
(* an assessment, how many clarifications it ends with, how often a turn   *)
(* was recorded with each reason of repeat recovery, and whether a prompt  *)
(* was repeated.  Both language models may answer anything, or fail; the   *)
(* follow-up model names the reason of its decision as it likes.           *)
(***************************************************************************)
EXTENDS Naturals

CONSTANTS
    MaxTurns,           \* MAX_TURNS
    MaxClarification,   \* MAX_CLARIFICATION_TURNS
    MaxConsecutive,     \* MAX_CONSECUTIVE_CLARIFICATIONS
    Limits,             \* max_assessment_turns of a client; 0: it sends none
    MaxMisread          \* bound: turns with a reason in an odd spelling

ASSUME LimitAssumption ==
    /\ MaxTurns \in Nat \ {0} /\ MaxClarification \in Nat \ {0}
    /\ MaxConsecutive \in Nat \ {0} /\ Limits \subseteq Nat /\ MaxMisread \in Nat

Reminder == {"decline_repair", "remind_respectfully", "redirect_offtopic",
             "redirect_wrong_language"}

\* _FIRST_TIME_TO_MOVE_ON.
MoveOn == [r \in Reminder |->
             IF r = "decline_repair" THEN "decline_move_on"
             ELSE IF r = "remind_respectfully" THEN "uncooperative_move_on"
             ELSE IF r = "redirect_offtopic" THEN "offtopic_move_on"
             ELSE "language_move_on"]
MovesOn == {MoveOn[r] : r \in Reminder}
Action  == Reminder \cup MovesOn \cup {"clarify_prompt", "skip_requested", "continue_normal_followup"}

\* What both is_clarification_reason functions take for a clarification; the
\* graph's strips blanks, the session's ignores capitals.
Clarification == {"clarification_free", "clarification_limit_reached", "clarify_prompt",
                  "decline_repair", "remind_respectfully"}
Odd == {"padded_clarification", "capital_clarification"}

\* "free" stands for every reason nobody looks for.
Reason == Clarification \cup Odd \cup Action \cup
          {"free", "no_meaningful_speech", "no_meaningful_speech_after_repeat",
           "hesitation_reprompt", "graded_budget_exhausted", "max_turns_reached",
           "decision_fallback", "client_max_clarifications_reached",
           "client_speech_budget_exceeded", "client_max_turns_reached"}

Decision == [continue : BOOLEAN, reason : Reason]
Stop(reason) == [continue |-> FALSE, reason |-> reason]
Go(reason)   == [continue |-> TRUE, reason |-> reason]
NoDecision == Stop("continue_normal_followup")

VARIABLES
    limit,      \* max_assessment_turns of this client
    exhausted,  \* remaining_graded_seconds was zero when the question started
    assessed,   \* count_assessment_turns of the turns
    trailing,   \* clarifications the list of turns ends with
    noted,      \* turns recorded with each reason of repeat recovery
    repeated,   \* a turn was a clarification or silent
    total,      \* number of turns
    current,    \* the turn in the graph
    ended,      \* the reason that closed the question, or "no"
    answers,    \* history: assessments in which the student answered
    reasked,    \* history: assessments that only were asked again, see Reasked
    reminded,   \* history: reminders repeat recovery gave
    misread,    \* history: turns decided for an odd reason
    closer      \* history: who closed the question

history == <<answers, reasked, reminded, misread>>
turns == <<assessed, trailing, noted, repeated, total, history>>
conversationVars == <<limit, exhausted, turns, current, ended, closer>>

Counted == Reminder \cup {"clarify_prompt"}
CurrentTurn == [phase : {"idle", "signals", "nodes", "merged"},
                speech : {"silent", "hesitant", "speech"},
                over : BOOLEAN, last : BOOLEAN,            \* the client's own flags
                hard_stop : BOOLEAN,
                recovered : BOOLEAN, recovery : Decision,  \* repeat recovery has run
                followed : BOOLEAN, followup : Decision,   \* follow-up has run
                decision : Decision,
                by : {"recovery", "followup", "merge"}]    \* history: whose decision it is
NoTurn == [phase |-> "idle", speech |-> "silent", over |-> FALSE, last |-> FALSE,
           hard_stop |-> FALSE, recovered |-> FALSE, recovery |-> NoDecision,
           followed |-> FALSE, followup |-> NoDecision, decision |-> NoDecision, by |-> "merge"]

ConversationTypeOK ==
    /\ limit \in Limits /\ exhausted \in BOOLEAN
    /\ assessed \in Nat /\ trailing \in Nat /\ total \in Nat
    /\ noted \in [Counted -> Nat] /\ repeated \in BOOLEAN
    /\ current \in CurrentTurn /\ ended \in Reason \cup {"no"}
    /\ answers \in Nat /\ reasked \in Nat /\ misread \in Nat
    /\ reminded \in [Reminder -> Nat]
    /\ closer \in {"no", "recovery", "followup", "merge", "limits"}

\* The session's reading of a reason, and the graph's.
IsClarification(reason)       == reason \in Clarification \cup {"capital_clarification"}
IsClarificationReason(reason) == reason \in Clarification \cup {"padded_clarification"}

Over4(f) == f["decline_repair"] + f["remind_respectfully"]
            + f["redirect_offtopic"] + f["redirect_wrong_language"]
Violations == Over4(noted)

ConversationInit ==
    /\ limit \in Limits /\ exhausted \in BOOLEAN
    /\ assessed = 0 /\ trailing = 0 /\ total = 0
    /\ noted = [r \in Counted |-> 0] /\ repeated = FALSE
    /\ current = NoTurn /\ ended = "no" /\ closer = "no"
    /\ answers = 0 /\ reasked = 0 /\ misread = 0 /\ reminded = [r \in Reminder |-> 0]

(***************************************************************************)
(* The graph.                                                              *)
(***************************************************************************)
\* A turn of the student, with the limits its client reports.
DecideOn ==
    /\ current.phase = "idle" /\ ended = "no"
    /\ \E speech \in {"silent", "hesitant", "speech"}, over, last \in BOOLEAN :
          current' = [NoTurn EXCEPT !.phase = "signals", !.speech = speech, !.over = over, !.last = last]
    /\ UNCHANGED <<limit, exhausted, turns, ended, closer>>

PrepareTurnSignals ==
    /\ current.phase = "signals"
    /\ current' = [current EXCEPT !.phase = "nodes", !.hard_stop = assessed + 1 >= MaxTurns]
    /\ UNCHANGED <<limit, exhausted, turns, ended, closer>>

\* Mutant: a reminder is due as long as its own kind was not given.
EscalationByType(action) ==
    IF action \in Reminder /\ noted[action] >= 1 THEN MoveOn[action] ELSE action

\* One reminder of each kind and two in all; a move that is not due yet
\* becomes the reminder.
EnforceEscalation(action) ==
    LET due(r) == noted[r] >= 1 \/ Violations >= 2
    IN  IF action \in Reminder THEN IF due(action) THEN MoveOn[action] ELSE action
        ELSE IF action \in MovesOn
        THEN LET r == CHOOSE r \in Reminder : MoveOn[r] = action
             IN  IF due(r) THEN action ELSE r
        ELSE action

EdgeCaseDecision(action) ==
    IF action \in Reminder THEN Go(action)
    ELSE IF action = "clarify_prompt"
    THEN IF noted["clarify_prompt"] + 1 >= MaxClarification
         THEN Stop("clarification_limit_reached") ELSE Go("clarify_prompt")
    ELSE Stop(action)

\* An unknown action and a failed call count as continue_normal_followup.  The
\* alert that goes with uncooperative_move_on wants a running event loop, and
\* the thread of the node has none: nothing is ever scheduled.
RepeatRecovery ==
    /\ current.phase = "nodes" /\ ~ current.recovered
    /\ \E action \in Action :
          current' = [current EXCEPT !.recovered = TRUE,
                                     !.recovery = EdgeCaseDecision(EnforceEscalation(action))]
    /\ UNCHANGED <<limit, exhausted, turns, ended, closer>>

\* Silence and hesitation are answered without the model.
HandledEdgeCase ==
    IF current.speech = "silent"
    THEN Go(IF repeated THEN "no_meaningful_speech_after_repeat" ELSE "no_meaningful_speech")
    ELSE Go("hesitation_reprompt")

\* The model's decision, with whatever reason it names, one of repeat recovery
\* or of a limit among them; to continue without a prompt is the fallback.
FollowUps == {d \in Decision : d.reason \in Odd => misread < MaxMisread}

FollowUp ==
    /\ current.phase = "nodes" /\ ~ current.followed
    /\ \E d \in IF exhausted THEN {Stop("graded_budget_exhausted")}
                ELSE IF current.hard_stop THEN {Stop("max_turns_reached")}
                ELSE IF current.speech # "speech" THEN {HandledEdgeCase}
                ELSE FollowUps :
          current' = [current EXCEPT !.followed = TRUE, !.followup = d]
    /\ UNCHANGED <<limit, exhausted, turns, ended, closer>>

\* A reply that is JSON but no object raises out of the graph and the handler:
\* the turn is not completed and the student may end it again.
NodeRaises ==
    /\ current.phase = "nodes" /\ ~ (current.recovered /\ current.followed)
    /\ current' = NoTurn
    /\ UNCHANGED <<limit, exhausted, turns, ended, closer>>

Winner == IF current.recovery = NoDecision THEN current.followup ELSE current.recovery
Source == IF current.recovery = NoDecision THEN "followup" ELSE "recovery"

\* Mutant: the hard stop is left to the follow-up node.
MergeTrusting ==
    /\ current.phase = "nodes" /\ current.recovered /\ current.followed
    /\ current' = [current EXCEPT !.phase = "merged", !.decision = Winner, !.by = Source]
    /\ UNCHANGED <<limit, exhausted, turns, ended, closer>>

\* A decision of repeat recovery wins, but not over the hard stop.  That the
\* graded budget is exhausted only the follow-up node looks at.
MergeDecision ==
    /\ current.phase = "nodes" /\ current.recovered /\ current.followed
    /\ \/ /\ ~ (current.hard_stop /\ Winner.continue)
          /\ current' = [current EXCEPT !.phase = "merged", !.decision = Winner, !.by = Source]
       \/ /\ current.hard_stop /\ Winner.continue
          /\ current' = [current EXCEPT !.phase = "merged", !.by = "merge",
                                        !.decision = Stop("max_turns_reached")]
    /\ UNCHANGED <<limit, exhausted, turns, ended, closer>>

(***************************************************************************)
(* The turn processor and the session.                                     *)
(***************************************************************************)
\* The count a client with a structured limit sends is its own, of the
\* decisions it was given: the assessments before this turn.
ClientCount == assessed

\* Mutant: any turn reaches the limit.
LimitedByTurns(d) ==
    IF ~ d.continue THEN d
    ELSE IF IsClarification(d.reason) /\ trailing + 1 >= MaxConsecutive
    THEN Stop("client_max_clarifications_reached")
    ELSE IF current.over THEN Stop("client_speech_budget_exceeded")
    ELSE IF limit > 0 /\ ClientCount + 1 >= limit THEN Stop("client_max_turns_reached")
    ELSE d

ApplyTurnLimit(d) ==
    IF ~ d.continue THEN d
    ELSE IF IsClarification(d.reason) /\ trailing + 1 >= MaxConsecutive
    THEN Stop("client_max_clarifications_reached")
    ELSE IF current.over THEN Stop("client_speech_budget_exceeded")
    ELSE IF IF limit > 0 THEN ~ IsClarification(d.reason) /\ ClientCount + 1 >= limit
            ELSE current.last
    THEN Stop("client_max_turns_reached")
    ELSE d

\* The turn is recorded with the reason of its final decision.
CompleteTurn(reason) ==
    /\ total' = total + 1
    /\ assessed' = IF IsClarificationReason(reason) THEN assessed ELSE assessed + 1
    /\ trailing' = IF IsClarification(reason) THEN trailing + 1 ELSE 0
    /\ noted' = [r \in Counted |-> IF r = reason THEN noted[r] + 1 ELSE noted[r]]
    /\ repeated' = (repeated \/ IsClarificationReason(reason) \/ reason = "no_meaningful_speech")

\* The student said nothing, or next to nothing, and repeat recovery let it pass:
\* the prompt is asked once more under a reason that is no clarification.
Reasked == current.by = "followup"
           /\ current.decision.reason \in {"no_meaningful_speech", "no_meaningful_speech_after_repeat",
                                           "hesitation_reprompt"}

History(d) ==
    LET g == current.decision IN
    /\ answers'  = IF IsClarificationReason(g.reason) \/ Reasked THEN answers ELSE answers + 1
    /\ reasked'  = IF Reasked THEN reasked + 1 ELSE reasked
    /\ reminded' = [r \in Reminder |-> IF current.by = "recovery" /\ d.reason = r
                                       THEN reminded[r] + 1 ELSE reminded[r]]
    /\ misread'  = IF g.reason \in Odd THEN misread + 1 ELSE misread
    /\ closer'   = IF d.continue THEN closer ELSE IF g.continue THEN "limits" ELSE current.by

DecideAndComplete ==
    /\ current.phase = "merged"
    /\ LET d == ApplyTurnLimit(current.decision) IN
       /\ CompleteTurn(d.reason) /\ History(d)
       /\ ended' = IF d.continue THEN ended ELSE d.reason
    /\ current' = NoTurn
    /\ UNCHANGED <<limit, exhausted>>

QuestionOver == ended # "no" /\ UNCHANGED conversationVars

ConversationNext ==
    \/ DecideOn \/ PrepareTurnSignals \/ RepeatRecovery \/ FollowUp \/ NodeRaises
    \/ MergeDecision \/ DecideAndComplete \/ QuestionOver

ConversationSpec == ConversationInit /\ [][ConversationNext]_conversationVars

(***************************************************************************)
(* What a conversation owes.                                               *)
(***************************************************************************)
\* Whatever the student, the client and both models do, a question ends: at
\* most MaxConsecutive turns for each of its MaxTurns assessments, and as many
\* for each turn whose reason the graph and the session read differently.  The
\* limits that make it so are kept by four places of the code (_apply_turn_limit,
\* prepare_turn_signals_node, followup_decision_node, merge_decision_node).
EndsInTime ==
    LET most == MaxConsecutive * (MaxTurns + misread)
    IN  total <= most /\ (total = most => ended # "no")

\* Repeat recovery reminds a student at most once of each kind of misconduct and
\* twice in all, and moves one on only after a reminder of it or after two of any
\* kind (_TOTAL_VIOLATION_BUDGET), whatever both models ask for.  A turn that the
\* follow-up model gave the reason of a reminder counts as one.
WarnedBeforeMovedOn ==
    /\ Over4(reminded) <= 2 /\ \A r \in Reminder : reminded[r] <= 1
    /\ \A r \in Reminder : closer = "recovery" /\ ended = MoveOn[r] =>
          \/ reminded[r] = 1 \/ Over4(reminded) = 2
          \/ \E s \in Reminder : noted[s] > reminded[s]

\* What the comments of count_violations_of_type say: each kind of misconduct has a
\* reminder of its own, whatever the others used up.  The code has a budget of two
\* for all kinds together, and does not keep this.
RemindedOfEachKind ==
    \A r \in Reminder : closer = "recovery" /\ ended = MoveOn[r] => noted[r] >= 1

\* A client that limits the assessment turns gets exactly as many before the
\* limit closes the question.  Clarifications do not count
\* (is_clarification_reason, _apply_turn_limit); turns of silence or hesitation
\* that were only asked again do, and so are answers the client does not get.
LimitCountsAnswers ==
    limit > 0 /\ misread = 0 =>
        /\ answers + reasked <= limit
        /\ closer = "limits" /\ ended = "client_max_turns_reached" => answers + reasked = limit
=============================================================================
