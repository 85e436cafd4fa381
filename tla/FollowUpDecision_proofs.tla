----------------------- MODULE FollowUpDecision_proofs -----------------------
(***************************************************************************)
(* For every limit, every client, every student and every answer of both   *)
(* models: a question ends in time, nobody is moved on unwarned, and a     *)
(* client's limit is exact.                                                *)
(***************************************************************************)
EXTENDS FollowUpDecision, TLAPS

\* What _enforce_escalation makes true of a decision, given the turns so far.
Escalated(d) ==
    /\ d.reason \in Reminder => noted[d.reason] = 0 /\ Violations < 2
    /\ \A r \in Reminder : d.reason = MoveOn[r] => noted[r] >= 1 \/ Violations >= 2

GraphInv ==
    /\ current.phase # "idle" => ended = "no"
    /\ current.phase \in {"nodes", "merged"} => current.hard_stop = (assessed + 1 >= MaxTurns)
    /\ Escalated(current.recovery)
    /\ current.by = "recovery" => Escalated(current.decision)
    /\ current.phase = "merged" /\ current.hard_stop => ~ current.decision.continue

\* Every reminder was noted, and none came when its budget was used up.
WarnedInv ==
    /\ Over4(reminded) <= 2
    /\ \A r \in Reminder : reminded[r] <= 1 /\ reminded[r] <= noted[r]

\* While the question is open.
OpenInv ==
    ended = "no" =>
        /\ closer = "no"
        /\ assessed < MaxTurns /\ trailing < MaxConsecutive
        /\ total <= MaxConsecutive * (assessed + misread) + trailing
        /\ misread = 0 => /\ answers + reasked = assessed
                          /\ limit > 0 => assessed < limit

IInv == ConversationTypeOK /\ GraphInv /\ WarnedInv /\ OpenInv
        /\ EndsInTime /\ WarnedBeforeMovedOn /\ LimitCountsAnswers

(***************************************************************************)
(* The decisions of the graph.                                             *)
(***************************************************************************)
\* Each reminder has a move of its own, and no move is a reminder.
LEMMA MoveOnIsOneToOne ==
    ASSUME NEW r \in Reminder, NEW s \in Reminder, MoveOn[r] = MoveOn[s]
    PROVE  r = s
BY DEF MoveOn, Reminder

LEMMA MoveOnIsNoReminder ==
    ASSUME NEW r \in Reminder
    PROVE  /\ MoveOn[r] \notin Reminder
           /\ MoveOn[r] \in {"decline_move_on", "uncooperative_move_on", "offtopic_move_on",
                             "language_move_on"}
BY DEF MoveOn, Reminder

LEMMA ReasonsOfActions == Action \subseteq Reason
BY DEF Reason

LEMMA NoDecisionType == NoDecision \in Decision
BY DEF NoDecision, Stop, Decision, Reason, Action

LEMMA NoTurnType == NoTurn \in CurrentTurn
BY NoDecisionType DEF NoTurn, CurrentTurn

LEMMA ViolationsType == ConversationTypeOK => Violations \in Nat
BY DEF ConversationTypeOK, Violations, Over4, Counted, Reminder

\* _enforce_escalation keeps the budget whatever the model chose.
LEMMA EscalationType ==
    ASSUME ConversationTypeOK, NEW action \in Action
    PROVE  EnforceEscalation(action) \in Action
<1>1. CASE action \in Reminder
  BY <1>1 DEF EnforceEscalation, Action, MovesOn
<1>2. CASE action \in MovesOn /\ action \notin Reminder
  <2> DEFINE s == CHOOSE r \in Reminder : MoveOn[r] = action
  <2>1. s \in Reminder
    BY <1>2 DEF MovesOn
  <2> QED
    BY <1>2, <2>1 DEF EnforceEscalation, Action
<1>3. CASE action \notin MovesOn /\ action \notin Reminder
  BY <1>3 DEF EnforceEscalation
<1> QED
  BY <1>1, <1>2, <1>3

LEMMA EscalationHolds ==
    ASSUME ConversationTypeOK, NEW action \in Action
    PROVE  LET e == EnforceEscalation(action) IN
           /\ e \in Reminder => noted[e] = 0 /\ Violations < 2
           /\ \A r \in Reminder : e = MoveOn[r] => noted[r] >= 1 \/ Violations >= 2
<1> DEFINE due(r) == noted[r] >= 1 \/ Violations >= 2
<1>0. Violations \in Nat /\ \A r \in Reminder : noted[r] \in Nat
  BY ViolationsType DEF ConversationTypeOK, Counted
<1>1. CASE action \in Reminder /\ due(action)
  <2>1. EnforceEscalation(action) = MoveOn[action]
    BY <1>1 DEF EnforceEscalation
  <2> QED
    BY <1>1, <2>1, MoveOnIsOneToOne, MoveOnIsNoReminder
<1>2. CASE action \in Reminder /\ ~ due(action)
  <2>1. EnforceEscalation(action) = action
    BY <1>2 DEF EnforceEscalation
  <2> QED
    BY <1>0, <1>2, <2>1, MoveOnIsNoReminder
<1>3. CASE action \in MovesOn /\ action \notin Reminder
  <2> DEFINE s == CHOOSE r \in Reminder : MoveOn[r] = action
  <2>1. s \in Reminder /\ MoveOn[s] = action
    BY <1>3 DEF MovesOn
  <2>2. EnforceEscalation(action) = IF due(s) THEN action ELSE s
    BY <1>3 DEF EnforceEscalation
  <2> HIDE DEF s
  <2>3. CASE due(s)
    BY <1>3, <2>1, <2>2, <2>3, MoveOnIsOneToOne
  <2>4. CASE ~ due(s)
    BY <1>0, <2>1, <2>2, <2>4, MoveOnIsNoReminder
  <2> QED
    BY <2>3, <2>4
<1>4. CASE action \notin MovesOn /\ action \notin Reminder
  <2>1. EnforceEscalation(action) = action
    BY <1>4 DEF EnforceEscalation
  <2> QED
    BY <1>4, <2>1 DEF MovesOn
<1> QED
  BY <1>1, <1>2, <1>3, <1>4

LEMMA EdgeCaseType ==
    ASSUME ConversationTypeOK, NEW action \in Action
    PROVE  EdgeCaseDecision(action) \in Decision
BY DEF EdgeCaseDecision, Go, Stop, Decision, Reason, Clarification, Action

LEMMA EdgeCaseEscalated ==
    ASSUME ConversationTypeOK, NEW action \in Action
    PROVE  Escalated(EdgeCaseDecision(EnforceEscalation(action)))
<1> DEFINE e == EnforceEscalation(action)
<1>1. e \in Action
  BY EscalationType
<1>2. /\ e \in Reminder => noted[e] = 0 /\ Violations < 2
      /\ \A r \in Reminder : e = MoveOn[r] => noted[r] >= 1 \/ Violations >= 2
  BY EscalationHolds
<1> HIDE DEF e
<1>3. EdgeCaseDecision(e).reason \in {e, "clarification_limit_reached"}
  BY DEF EdgeCaseDecision, Go, Stop
<1>4. \A r \in Reminder : MoveOn[r] # "clarification_limit_reached"
  BY MoveOnIsNoReminder
<1>5. "clarification_limit_reached" \notin Reminder
  BY DEF Reminder
<1> QED
  BY <1>2, <1>3, <1>4, <1>5 DEF Escalated, e

LEMMA NoDecisionEscalated == Escalated(NoDecision)
<1>1. NoDecision.reason = "continue_normal_followup"
  BY DEF NoDecision, Stop
<1>2. \A r \in Reminder : MoveOn[r] # "continue_normal_followup"
  BY MoveOnIsNoReminder
<1> QED
  BY <1>1, <1>2 DEF Escalated, Reminder

LEMMA LimitedIsDecision ==
    ASSUME NEW d \in Decision, ConversationTypeOK
    PROVE  ApplyTurnLimit(d) \in Decision
BY DEF ApplyTurnLimit, Stop, Decision, Reason

(***************************************************************************)
(* The invariant.                                                          *)
(***************************************************************************)
LEMMA InitIInv == ConversationInit => IInv
<1> SUFFICES ASSUME ConversationInit PROVE IInv
  OBVIOUS
<1> USE LimitAssumption
<1>1. ConversationTypeOK
  BY NoTurnType DEF ConversationInit, ConversationTypeOK
<1>2. GraphInv
  BY NoDecisionEscalated DEF ConversationInit, GraphInv, NoTurn
<1>3. Over4(reminded) = 0
  BY DEF ConversationInit, Over4, Reminder
<1>4. \A r \in Reminder : reminded[r] = 0 /\ noted[r] = 0
  BY DEF ConversationInit, Counted
<1>5. WarnedInv
  BY <1>3, <1>4 DEF WarnedInv
<1>6. MaxConsecutive * MaxTurns \in Nat /\ MaxConsecutive * MaxTurns > 0
      /\ MaxTurns + misread = MaxTurns /\ MaxConsecutive * (assessed + misread) = 0
  BY DEF ConversationInit
<1>7. OpenInv
  BY <1>6 DEF ConversationInit, OpenInv
<1>8. EndsInTime
  BY <1>6 DEF ConversationInit, EndsInTime
<1>9. WarnedBeforeMovedOn
  BY <1>3, <1>4 DEF ConversationInit, WarnedBeforeMovedOn
<1>10. LimitCountsAnswers
  BY DEF ConversationInit, LimitCountsAnswers
<1> QED
  BY <1>1, <1>2, <1>5, <1>7, <1>8, <1>9, <1>10 DEF IInv

\* A step that only works on the turn in the graph.
LEMMA GraphStep ==
    ASSUME IInv, UNCHANGED <<limit, exhausted, turns, ended, closer>>,
           current' \in CurrentTurn, GraphInv'
    PROVE  IInv'
<1>1. UNCHANGED <<limit, exhausted, assessed, trailing, noted, repeated, total, answers,
                  reasked, reminded, misread, ended, closer>>
  BY DEF turns, history
<1>2. ConversationTypeOK'
  BY <1>1 DEF IInv, ConversationTypeOK
<1>3. Over4(reminded)' = Over4(reminded)
  BY <1>1 DEF Over4
<1>4. WarnedInv' /\ OpenInv'
  BY <1>1, <1>3 DEF IInv, WarnedInv, OpenInv
<1>5. EndsInTime' /\ WarnedBeforeMovedOn' /\ LimitCountsAnswers'
  BY <1>1, <1>3 DEF IInv, EndsInTime, WarnedBeforeMovedOn, LimitCountsAnswers
<1> QED
  BY <1>2, <1>4, <1>5 DEF IInv

LEMMA EscalatedStays ==
    ASSUME noted' = noted, NEW d, Escalated(d)
    PROVE  Escalated(d)'
<1>1. Violations' = Violations
  BY DEF Violations, Over4
<1> QED
  BY <1>1 DEF Escalated

\* A turn that comes, or that a node threw away.
LEMMA NewTurn ==
    ASSUME noted' = noted, current'.recovery = NoDecision, current'.by = "merge",
           current'.phase \in {"idle", "signals"}, ended' = "no" \/ current'.phase = "idle"
    PROVE  GraphInv'
<1>1. Escalated(NoDecision)'
  BY NoDecisionEscalated, EscalatedStays
<1> QED
  BY <1>1 DEF GraphInv

LEMMA DecideOnStep == IInv /\ DecideOn => IInv'
<1> SUFFICES ASSUME IInv, DecideOn PROVE IInv'
  OBVIOUS
<1>1. PICK speech \in {"silent", "hesitant", "speech"}, over \in BOOLEAN, last \in BOOLEAN :
        current' = [NoTurn EXCEPT !.phase = "signals", !.speech = speech, !.over = over, !.last = last]
  BY DEF DecideOn
<1>2. /\ current' \in CurrentTurn /\ current'.phase = "signals"
      /\ current'.recovery = NoDecision /\ current'.by = "merge"
  BY <1>1, NoDecisionType DEF NoTurn, CurrentTurn
<1>3. GraphInv'
  BY <1>2, NewTurn DEF DecideOn, turns
<1> QED
  BY <1>2, <1>3, GraphStep DEF DecideOn

LEMMA NodeRaisesStep == IInv /\ NodeRaises => IInv'
<1> SUFFICES ASSUME IInv, NodeRaises PROVE IInv'
  OBVIOUS
<1>1. current' \in CurrentTurn /\ current'.phase = "idle"
      /\ current'.recovery = NoDecision /\ current'.by = "merge"
  BY NoTurnType DEF NodeRaises, NoTurn
<1>2. GraphInv'
  BY <1>1, NewTurn DEF NodeRaises, turns
<1> QED
  BY <1>1, <1>2, GraphStep DEF NodeRaises

LEMMA PrepareStep == IInv /\ PrepareTurnSignals => IInv'
<1> SUFFICES ASSUME IInv, PrepareTurnSignals PROVE IInv'
  OBVIOUS
<1>1. current \in CurrentTurn /\ assessed \in Nat /\ MaxTurns \in Nat
  BY LimitAssumption DEF IInv, ConversationTypeOK
<1> DEFINE h == assessed + 1 >= MaxTurns
<1>h. h \in BOOLEAN /\ current' = [current EXCEPT !.phase = "nodes", !.hard_stop = h]
  BY DEF PrepareTurnSignals
<1> HIDE DEF h
<1>2. /\ current' \in CurrentTurn /\ current'.phase = "nodes" /\ current'.hard_stop = h
      /\ current'.recovery = current.recovery /\ current'.by = current.by
      /\ current'.decision = current.decision
  BY <1>1, <1>h DEF CurrentTurn
<1>3. Escalated(current.recovery)' /\ (current.by = "recovery" => Escalated(current.decision))'
  BY <1>2 DEF PrepareTurnSignals, turns, IInv, GraphInv, Escalated, Violations, Over4
<1>4. GraphInv'
  BY <1>2, <1>3 DEF GraphInv, PrepareTurnSignals, IInv, turns, h
<1> QED
  BY <1>2, <1>4, GraphStep DEF PrepareTurnSignals

LEMMA RecoveryStep == IInv /\ RepeatRecovery => IInv'
<1> SUFFICES ASSUME IInv, RepeatRecovery PROVE IInv'
  OBVIOUS
<1>1. PICK action \in Action :
        current' = [current EXCEPT !.recovered = TRUE,
                                   !.recovery = EdgeCaseDecision(EnforceEscalation(action))]
  BY DEF RepeatRecovery
<1> DEFINE d == EdgeCaseDecision(EnforceEscalation(action))
<1>2. d \in Decision /\ Escalated(d)
  BY EscalationType, EdgeCaseType, EdgeCaseEscalated DEF IInv
<1>3. current' = [current EXCEPT !.recovered = TRUE, !.recovery = d]
  BY <1>1
<1> HIDE DEF d
<1>4. current \in CurrentTurn
  BY DEF IInv, ConversationTypeOK
<1>5. /\ current' \in CurrentTurn /\ current'.phase = "nodes"
      /\ current'.hard_stop = current.hard_stop /\ current'.recovery = d
      /\ current'.by = current.by /\ current'.decision = current.decision
  BY <1>2, <1>3, <1>4 DEF CurrentTurn, RepeatRecovery
<1>6. Violations' = Violations /\ noted' = noted /\ assessed' = assessed
  BY DEF RepeatRecovery, turns, Violations, Over4
<1>7. Escalated(current.recovery)' /\ (current.by = "recovery" => Escalated(current.decision))'
  BY <1>2, <1>5, <1>6 DEF IInv, GraphInv, Escalated
<1>8. GraphInv'
  BY <1>5, <1>6, <1>7 DEF GraphInv, RepeatRecovery, IInv
<1> QED
  BY <1>5, <1>8, GraphStep DEF RepeatRecovery

LEMMA FollowUpStep == IInv /\ FollowUp => IInv'
<1> SUFFICES ASSUME IInv, FollowUp PROVE IInv'
  OBVIOUS
<1>1. PICK d \in {Stop("graded_budget_exhausted"), Stop("max_turns_reached"), HandledEdgeCase}
                 \cup FollowUps :
        current' = [current EXCEPT !.followed = TRUE, !.followup = d]
  BY DEF FollowUp
<1>2. d \in Decision
  <2>1. HandledEdgeCase \in Decision
    BY DEF HandledEdgeCase, Go, Decision, Reason
  <2>2. Stop("graded_budget_exhausted") \in Decision /\ Stop("max_turns_reached") \in Decision
    BY DEF Stop, Decision, Reason
  <2> QED
    BY <1>1, <2>1, <2>2 DEF FollowUps
<1>4. current \in CurrentTurn
  BY DEF IInv, ConversationTypeOK
<1>5. /\ current' \in CurrentTurn /\ current'.phase = "nodes"
      /\ current'.hard_stop = current.hard_stop /\ current'.recovery = current.recovery
      /\ current'.by = current.by /\ current'.decision = current.decision
  BY <1>1, <1>2, <1>4 DEF CurrentTurn, FollowUp
<1>6. Violations' = Violations /\ noted' = noted /\ assessed' = assessed
  BY DEF FollowUp, turns, Violations, Over4
<1>7. Escalated(current.recovery)' /\ (current.by = "recovery" => Escalated(current.decision))'
  BY <1>5, <1>6 DEF IInv, GraphInv, Escalated
<1>8. GraphInv'
  BY <1>5, <1>6, <1>7 DEF GraphInv, FollowUp, IInv
<1> QED
  BY <1>5, <1>8, GraphStep DEF FollowUp

LEMMA MergeStep == IInv /\ MergeDecision => IInv'
<1> SUFFICES ASSUME IInv, MergeDecision PROVE IInv'
  OBVIOUS
<1>1. current \in CurrentTurn /\ current.phase = "nodes"
  BY DEF IInv, ConversationTypeOK, MergeDecision
<1>2. Winner \in Decision /\ Source \in {"recovery", "followup"}
      /\ (Source = "recovery" => Escalated(Winner))
  BY <1>1 DEF IInv, GraphInv, CurrentTurn, Winner, Source
<1>3. Stop("max_turns_reached") \in Decision
  BY DEF Stop, Decision, Reason
<1>4. PICK d \in Decision, by \in {"recovery", "followup", "merge"} :
        /\ current' = [current EXCEPT !.phase = "merged", !.decision = d, !.by = by]
        /\ by = "recovery" => Escalated(d)
        /\ current.hard_stop => ~ d.continue
  <2>1. CASE ~ (current.hard_stop /\ Winner.continue)
    BY <1>2, <2>1 DEF MergeDecision
  <2>2. CASE current.hard_stop /\ Winner.continue
    <3>1. current' = [current EXCEPT !.phase = "merged", !.by = "merge",
                                     !.decision = Stop("max_turns_reached")]
      BY <2>2 DEF MergeDecision
    <3>2. ~ Stop("max_turns_reached").continue
      BY DEF Stop
    <3> QED
      BY <1>3, <3>1, <3>2
  <2> QED
    BY <2>1, <2>2
<1>6. /\ current' \in CurrentTurn /\ current'.phase = "merged"
      /\ current'.hard_stop = current.hard_stop /\ current'.decision = d
      /\ current'.recovery = current.recovery /\ current'.by = by
  BY <1>1, <1>4 DEF CurrentTurn
<1>7. Violations' = Violations /\ noted' = noted /\ assessed' = assessed
  BY DEF MergeDecision, turns, Violations, Over4
<1>8. Escalated(current.recovery)' /\ (current.by = "recovery" => Escalated(current.decision))'
  BY <1>4, <1>6, <1>7 DEF IInv, GraphInv, Escalated
<1>9. GraphInv'
  BY <1>1, <1>4, <1>6, <1>7, <1>8 DEF GraphInv, MergeDecision, IInv
<1> QED
  BY <1>6, <1>9, GraphStep DEF MergeDecision

(***************************************************************************)
(* The end of a turn.                                                      *)
(***************************************************************************)
\* What is known of the decision the student gets: it is the one of the graph,
\* or a limit closed the question.
LEMMA FinalDecision ==
    ASSUME IInv, current.phase = "merged"
    PROVE  LET g == current.decision
               d == ApplyTurnLimit(g) IN
           /\ d \in Decision /\ g \in Decision
           /\ \/ d = g
              \/ /\ g.continue /\ ~ d.continue
                 /\ d.reason \in {"client_max_turns_reached", "client_max_clarifications_reached",
                                  "client_speech_budget_exceeded"}
           /\ current.by = "recovery" => Escalated(g)
           /\ d.continue => d = g /\ assessed + 1 < MaxTurns
           /\ d.continue /\ IsClarification(d.reason) => trailing + 1 < MaxConsecutive
           /\ d.continue /\ ~ IsClarification(d.reason) /\ limit > 0 => assessed + 1 < limit
           /\ g.continue /\ ~ d.continue /\ d.reason = "client_max_turns_reached" /\ limit > 0 =>
                 ~ IsClarification(g.reason) /\ assessed + 1 >= limit
<1> DEFINE g == current.decision
           d == ApplyTurnLimit(g)
<1>0. /\ ConversationTypeOK /\ current \in CurrentTurn /\ g \in Decision /\ limit \in Nat
      /\ trailing \in Nat /\ assessed \in Nat /\ MaxTurns \in Nat /\ MaxConsecutive \in Nat
  BY LimitAssumption DEF IInv, ConversationTypeOK, CurrentTurn
<1>1. g.continue => assessed + 1 < MaxTurns
  <2>1. current.hard_stop = (assessed + 1 >= MaxTurns)
    BY Zenon DEF IInv, GraphInv
  <2>2. current.hard_stop => ~ g.continue
    BY DEF IInv, GraphInv
  <2>3. g.continue => ~ (assessed + 1 >= MaxTurns)
    BY <2>1, <2>2, Zenon
  <2> QED
    BY <1>0, <2>3
<1>2. d \in Decision
  BY <1>0, LimitedIsDecision
<1>3. \/ d = g
      \/ /\ g.continue /\ ~ d.continue
         /\ d.reason \in {"client_max_turns_reached", "client_max_clarifications_reached",
                          "client_speech_budget_exceeded"}
  BY DEF ApplyTurnLimit, Stop
<1>6. current.by = "recovery" => Escalated(g)
  BY DEF IInv, GraphInv
<1>7. d.continue /\ IsClarification(d.reason) => trailing + 1 < MaxConsecutive
  BY <1>0 DEF ApplyTurnLimit, Stop
<1>8. d.continue /\ ~ IsClarification(d.reason) /\ limit > 0 => assessed + 1 < limit
  BY <1>0 DEF ApplyTurnLimit, Stop, ClientCount
<1>9. g.continue /\ ~ d.continue /\ d.reason = "client_max_turns_reached" /\ limit > 0 =>
        ~ IsClarification(g.reason) /\ assessed + 1 >= limit
  BY DEF ApplyTurnLimit, Stop, ClientCount
<1> QED
  BY <1>0, <1>1, <1>2, <1>3, <1>6, <1>7, <1>8, <1>9

\* Only the reminder that this turn brought is counted.
LEMMA CountReminder ==
    ASSUME ConversationTypeOK, WarnedInv, NEW d \in Decision,
           CompleteTurn(d.reason), History(d),
           current.by = "recovery" /\ d.reason \in Reminder => noted[d.reason] = 0 /\ Violations < 2
    PROVE  /\ noted' \in [Counted -> Nat] /\ reminded' \in [Reminder -> Nat] /\ WarnedInv'
           /\ d.reason \notin Reminder =>
                \A r \in Reminder : noted'[r] = noted[r] /\ reminded'[r] = reminded[r]
<1>0. /\ \A r \in Counted : noted[r] \in Nat
      /\ \A r \in Reminder : r \in Counted /\ reminded[r] \in Nat
  BY DEF ConversationTypeOK, Counted
<1>1. /\ noted' = [r \in Counted |-> IF r = d.reason THEN noted[r] + 1 ELSE noted[r]]
      /\ reminded' = [r \in Reminder |-> IF current.by = "recovery" /\ d.reason = r
                                         THEN reminded[r] + 1 ELSE reminded[r]]
  BY DEF CompleteTurn, History
<1>2. noted' \in [Counted -> Nat] /\ reminded' \in [Reminder -> Nat]
  BY <1>0, <1>1
<1>3. \A r \in Reminder :
        /\ noted'[r] = (IF r = d.reason THEN noted[r] + 1 ELSE noted[r])
        /\ reminded'[r] = (IF current.by = "recovery" /\ d.reason = r THEN reminded[r] + 1
                           ELSE reminded[r])
  BY <1>0, <1>1
<1>4. \A r \in Reminder : reminded[r] <= 1 /\ reminded[r] <= noted[r]
  BY DEF WarnedInv
<1>5. /\ "decline_repair" \in Reminder /\ "remind_respectfully" \in Reminder
      /\ "redirect_offtopic" \in Reminder /\ "redirect_wrong_language" \in Reminder
  BY DEF Reminder
<1>6. CASE ~ (current.by = "recovery" /\ d.reason \in Reminder)
  <2>1. \A r \in Reminder : reminded'[r] = reminded[r] /\ noted'[r] >= noted[r]
    BY <1>0, <1>3, <1>6
  <2>2. Over4(reminded)' = Over4(reminded)
    BY <2>1, <1>5 DEF Over4
  <2>3. \A r \in Reminder : reminded'[r] <= 1 /\ reminded'[r] <= noted'[r]
    BY <1>0, <1>2, <1>4, <2>1, <1>3
  <2> QED
    BY <1>2, <1>3, <2>1, <2>2, <2>3 DEF WarnedInv
<1>7. CASE current.by = "recovery" /\ d.reason \in Reminder
  <2>0. PICK x \in Reminder : x = d.reason
    BY <1>7
  <2>1. noted[x] = 0 /\ Violations < 2 /\ reminded[x] = 0
    BY <1>0, <1>4, <1>7, <2>0
  <2>2. \A r \in Reminder :
          reminded'[r] = (IF r = x THEN 1 ELSE reminded[r])
          /\ noted'[r] = (IF r = x THEN 1 ELSE noted[r])
    BY <1>0, <1>3, <1>7, <2>0, <2>1
  <2>3. Over4(reminded) <= Violations /\ Over4(reminded) \in Nat /\ Violations \in Nat
    BY <1>0, <1>4, <1>5 DEF Over4, Violations
  <2>4. Over4(reminded)' = Over4(reminded) + 1
    BY <1>0, <1>5, <2>1, <2>2 DEF Over4, Reminder
  <2>5. Over4(reminded)' <= 2
    BY <2>1, <2>3, <2>4
  <2>6. \A r \in Reminder : reminded'[r] <= 1 /\ reminded'[r] <= noted'[r]
    BY <1>0, <1>4, <2>2
  <2> QED
    BY <1>2, <1>7, <2>5, <2>6 DEF WarnedInv
<1> QED
  BY <1>6, <1>7

\* The bound grows by MaxConsecutive with every assessment.
LEMMA BoundGrows ==
    ASSUME NEW c \in Nat, NEW n \in Nat, NEW m \in Nat, n < m
    PROVE  /\ c * n \in Nat /\ c * m \in Nat
           /\ c * (n + 1) = c * n + c /\ c * n + c <= c * m
<1>1. c * n \in Nat /\ c * m \in Nat
  OBVIOUS
<1>2. c * (n + 1) = c * n + c
  OBVIOUS
<1>3. PICK k \in Nat : m = n + 1 + k
  <2>1. m - (n + 1) \in Nat /\ m = n + 1 + (m - (n + 1))
    OBVIOUS
  <2> QED
    BY <2>1
<1>4. c * m = c * (n + 1) + c * k /\ c * k \in Nat
  BY <1>3
<1> QED
  BY <1>1, <1>2, <1>4

\* The reasons the two functions read alike.
LEMMA ReadAlike ==
    ASSUME NEW r, r \notin Odd
    PROVE  IsClarification(r) <=> IsClarificationReason(r)
BY DEF IsClarification, IsClarificationReason, Odd

LEMMA CompleteStep == IInv /\ DecideAndComplete => IInv'
<1> SUFFICES ASSUME IInv, DecideAndComplete PROVE IInv'
  OBVIOUS
<1> DEFINE g == current.decision
           d == ApplyTurnLimit(g)
<1>1. current.phase = "merged" /\ ended = "no"
  BY DEF DecideAndComplete, IInv, GraphInv
<1>2. /\ d \in Decision /\ g \in Decision
      /\ \/ d = g
         \/ /\ g.continue /\ ~ d.continue
            /\ d.reason \in {"client_max_turns_reached", "client_max_clarifications_reached",
                             "client_speech_budget_exceeded"}
      /\ current.by = "recovery" => Escalated(g)
      /\ d.continue => d = g /\ assessed + 1 < MaxTurns
      /\ d.continue /\ IsClarification(d.reason) => trailing + 1 < MaxConsecutive
      /\ d.continue /\ ~ IsClarification(d.reason) /\ limit > 0 => assessed + 1 < limit
      /\ g.continue /\ ~ d.continue /\ d.reason = "client_max_turns_reached" /\ limit > 0 =>
            ~ IsClarification(g.reason) /\ assessed + 1 >= limit
  BY <1>1, FinalDecision
<1>3. /\ CompleteTurn(d.reason) /\ History(d)
      /\ ended' = IF d.continue THEN ended ELSE d.reason
      /\ current' = NoTurn /\ limit' = limit /\ exhausted' = exhausted
  BY DEF DecideAndComplete
<1>3a. /\ answers' = IF IsClarificationReason(g.reason) \/ Reasked THEN answers ELSE answers + 1
       /\ reasked' = IF Reasked THEN reasked + 1 ELSE reasked
       /\ misread' = IF g.reason \in Odd THEN misread + 1 ELSE misread
       /\ closer' = IF d.continue THEN closer ELSE IF g.continue THEN "limits" ELSE current.by
       /\ Reasked => ~ IsClarificationReason(g.reason)
  BY <1>3 DEF History, Reasked, IsClarificationReason, Clarification
<1> HIDE DEF d, g
<1>4. d.reason \in Reason /\ d.continue \in BOOLEAN /\ g.continue \in BOOLEAN
  BY <1>2 DEF Decision
<1>5. /\ ConversationTypeOK /\ WarnedInv /\ limit \in Nat /\ assessed \in Nat /\ trailing \in Nat
      /\ total \in Nat /\ answers \in Nat /\ reasked \in Nat /\ misread \in Nat
      /\ MaxTurns \in Nat /\ MaxConsecutive \in Nat /\ MaxConsecutive > 0
      /\ current.by \in {"recovery", "followup", "merge"}
  BY LimitAssumption DEF IInv, ConversationTypeOK, CurrentTurn
<1>5a. \A x \in {"client_max_turns_reached", "client_max_clarifications_reached",
                 "client_speech_budget_exceeded"} :
         x \notin Reminder /\ \A r \in Reminder : MoveOn[r] # x
  BY MoveOnIsNoReminder DEF Reminder
<1>5b. current.by = "recovery" /\ d.reason \in Reminder => noted[d.reason] = 0 /\ Violations < 2
  BY <1>2, <1>5a DEF Escalated
<1>6. /\ noted' \in [Counted -> Nat] /\ reminded' \in [Reminder -> Nat] /\ WarnedInv'
      /\ d.reason \notin Reminder =>
           \A r \in Reminder : noted'[r] = noted[r] /\ reminded'[r] = reminded[r]
  BY <1>2, <1>3, <1>5, <1>5b, CountReminder
<1>7. /\ closer = "no" /\ assessed < MaxTurns /\ trailing < MaxConsecutive
      /\ total <= MaxConsecutive * (assessed + misread) + trailing
      /\ misread = 0 => answers + reasked = assessed
      /\ misread = 0 /\ limit > 0 => assessed < limit
  BY <1>1 DEF IInv, OpenInv
<1>8. /\ total' = total + 1
      /\ assessed' = IF IsClarificationReason(d.reason) THEN assessed ELSE assessed + 1
      /\ trailing' = IF IsClarification(d.reason) THEN trailing + 1 ELSE 0
      /\ repeated' \in BOOLEAN
  BY <1>3, <1>5 DEF CompleteTurn, ConversationTypeOK, IsClarificationReason
<1>9. /\ MaxConsecutive * (assessed + misread) \in Nat
      /\ MaxConsecutive * (MaxTurns + misread) \in Nat
      /\ MaxConsecutive * (assessed + misread + 1)
            = MaxConsecutive * (assessed + misread) + MaxConsecutive
      /\ MaxConsecutive * (assessed + misread) + MaxConsecutive
            <= MaxConsecutive * (MaxTurns + misread)
  <2> DEFINE n == assessed + misread
             m == MaxTurns + misread
  <2>1. n \in Nat /\ m \in Nat /\ n < m
    BY <1>5, <1>7
  <2> HIDE DEF n, m
  <2>2. /\ MaxConsecutive * n \in Nat /\ MaxConsecutive * m \in Nat
        /\ MaxConsecutive * (n + 1) = MaxConsecutive * n + MaxConsecutive
        /\ MaxConsecutive * n + MaxConsecutive <= MaxConsecutive * m
    BY <1>5, <2>1, BoundGrows
  <2> QED
    BY <2>2 DEF n, m
<1>9a. /\ MaxConsecutive * (MaxTurns + misread + 1)
             = MaxConsecutive * (MaxTurns + misread) + MaxConsecutive
       /\ MaxConsecutive * (assessed + misread + 2)
             = MaxConsecutive * (assessed + misread) + MaxConsecutive + MaxConsecutive
  <2>1. \A c, k \in Nat : c * (k + 1) = c * k + c /\ c * (k + 2) = c * k + c + c
    OBVIOUS
  <2> QED
    BY <1>5, <2>1
<1>10. ConversationTypeOK'
  BY <1>3, <1>3a, <1>4, <1>5, <1>6, <1>7, <1>8, NoTurnType DEF ConversationTypeOK
<1>11. GraphInv'
  <2>1. Escalated(NoDecision)'
    <3>1. NoDecision.reason = "continue_normal_followup"
      BY DEF NoDecision, Stop
    <3>2. \A r \in Reminder : MoveOn[r] # "continue_normal_followup"
      BY MoveOnIsNoReminder
    <3> QED
      BY <3>1, <3>2 DEF Escalated, Reminder
  <2> QED
    BY <1>3, <2>1 DEF GraphInv, NoTurn
<1>11a. misread' = 0 => /\ misread = 0 /\ g.reason \notin Odd
                        /\ (IsClarification(g.reason) <=> IsClarificationReason(g.reason))
                        /\ answers' + reasked' = IF IsClarification(g.reason) THEN assessed
                                                 ELSE assessed + 1
  <2> SUFFICES ASSUME misread' = 0
               PROVE  /\ misread = 0 /\ g.reason \notin Odd
                      /\ (IsClarification(g.reason) <=> IsClarificationReason(g.reason))
                      /\ answers' + reasked' = IF IsClarification(g.reason) THEN assessed
                                               ELSE assessed + 1
    OBVIOUS
  <2>1. misread = 0 /\ g.reason \notin Odd
    BY <1>3a, <1>5
  <2>2. (IsClarification(g.reason) <=> IsClarificationReason(g.reason))
    BY <2>1, ReadAlike
  <2>3. CASE IsClarificationReason(g.reason)
    BY <1>3a, <1>5, <1>7, <2>1, <2>2, <2>3
  <2>4. CASE ~ IsClarificationReason(g.reason)
    BY <1>3a, <1>5, <1>7, <2>1, <2>2, <2>4
  <2> QED
    BY <2>1, <2>2, <2>3, <2>4
<1>12. OpenInv'
  <2> SUFFICES ASSUME ended' = "no"
               PROVE  /\ closer' = "no"
                      /\ assessed' < MaxTurns /\ trailing' < MaxConsecutive
                      /\ total' <= MaxConsecutive * (assessed' + misread') + trailing'
                      /\ misread' = 0 => /\ answers' + reasked' = assessed'
                                         /\ limit > 0 => assessed' < limit
    BY <1>3 DEF OpenInv
  <2>1. d.continue /\ d = g
    BY <1>2, <1>3, <1>4 DEF Reason, Clarification, Odd, Action, Reminder, MovesOn, MoveOn
  <2>2. closer' = "no" /\ assessed' < MaxTurns /\ trailing' < MaxConsecutive
    BY <1>2, <1>3a, <1>5, <1>7, <1>8, <2>1
  <2>3. misread' = 0 => answers' + reasked' = assessed' /\ (limit > 0 => assessed' < limit)
    BY <1>2, <1>5, <1>7, <1>8, <1>11a, <2>1
  <2>4. total' <= MaxConsecutive * (assessed' + misread') + trailing'
    <3>1. CASE g.reason \notin Odd
      <4>1. (IsClarification(g.reason) <=> IsClarificationReason(g.reason)) /\ misread' = misread
        BY <3>1, <1>3a, ReadAlike
      <4>2. CASE IsClarification(g.reason)
        BY <1>5, <1>7, <1>8, <1>9, <2>1, <4>1, <4>2
      <4>3. CASE ~ IsClarification(g.reason)
        <5>1. assessed' + misread' = assessed + misread + 1 /\ trailing' = 0
          BY <1>5, <1>8, <2>1, <4>1, <4>3
        <5> QED
          BY <1>5, <1>7, <1>8, <1>9, <5>1
      <4> QED
        BY <4>2, <4>3
    <3>2. CASE g.reason = "padded_clarification"
      <4>1. /\ assessed' + misread' = assessed + misread + 1 /\ trailing' = 0
        BY <1>3a, <1>5, <1>8, <2>1, <3>2
           DEF IsClarification, IsClarificationReason, Odd, Clarification
      <4> QED
        BY <1>5, <1>7, <1>8, <1>9, <4>1
    <3>3. CASE g.reason = "capital_clarification"
      <4>1. /\ assessed' + misread' = assessed + misread + 2 /\ trailing' = trailing + 1
        BY <1>3a, <1>5, <1>8, <2>1, <3>3
           DEF IsClarification, IsClarificationReason, Odd, Clarification
      <4> QED
        BY <1>5, <1>7, <1>8, <1>9, <1>9a, <4>1
    <3> QED
      BY <3>1, <3>2, <3>3 DEF Odd
  <2> QED
    BY <2>2, <2>3, <2>4
<1>13. EndsInTime'
  <2>0. /\ misread' = misread \/ misread' = misread + 1
        /\ MaxConsecutive * (MaxTurns + misread') \in Nat
        /\ MaxConsecutive * (MaxTurns + misread) <= MaxConsecutive * (MaxTurns + misread')
    <3>1. CASE misread' = misread
      BY <1>5, <1>9, <3>1
    <3>2. CASE misread' = misread + 1
      <4>1. MaxTurns + misread' = MaxTurns + misread + 1
        BY <1>5, <3>2
      <4> QED
        BY <1>5, <1>9, <1>9a, <3>2, <4>1
    <3> QED
      BY <1>3a, <3>1, <3>2
  <2>1. total' <= MaxConsecutive * (MaxTurns + misread')
    BY <1>5, <1>7, <1>8, <1>9, <2>0
  <2>2. ASSUME ended' = "no" PROVE total' < MaxConsecutive * (MaxTurns + misread')
    <3> DEFINE n == assessed' + misread'
               m == MaxTurns + misread'
    <3>1. /\ assessed' < MaxTurns /\ trailing' < MaxConsecutive
          /\ total' <= MaxConsecutive * n + trailing'
      BY <1>12, <2>2 DEF OpenInv
    <3>2. assessed' \in Nat /\ misread' \in Nat /\ trailing' \in Nat /\ total' \in Nat
      BY <1>10 DEF ConversationTypeOK
    <3>3. n \in Nat /\ m \in Nat /\ n < m
      <4>1. MaxTurns \in Nat /\ assessed' < MaxTurns
        BY <1>5, <3>1
      <4>2. \A a, b, c \in Nat : a < c => a + b \in Nat /\ c + b \in Nat /\ a + b < c + b
        OBVIOUS
      <4> QED
        BY <3>2, <4>1, <4>2
    <3> HIDE DEF n, m
    <3>4. /\ MaxConsecutive * n \in Nat /\ MaxConsecutive * m \in Nat
          /\ MaxConsecutive * n + MaxConsecutive <= MaxConsecutive * m
      BY <1>5, <3>3, BoundGrows
    <3>5. total' < MaxConsecutive * m
      BY <1>5, <3>1, <3>2, <3>4
    <3> QED
      BY <3>5 DEF m
  <2>3. total' \in Nat
    BY <1>5, <1>8
  <2>4. total' = MaxConsecutive * (MaxTurns + misread') => ended' # "no"
    BY <2>0, <2>2, <2>3
  <2> QED
    BY <2>1, <2>4 DEF EndsInTime
<1>14. WarnedBeforeMovedOn'
  <2>1. /\ Over4(reminded)' <= 2 /\ Over4(reminded)' \in Nat
        /\ \A r \in Reminder : reminded'[r] <= 1 /\ reminded'[r] \in Nat /\ reminded'[r] <= noted'[r]
    BY <1>6 DEF WarnedInv, Over4, Reminder
  <2>2. ASSUME NEW r \in Reminder, closer' = "recovery", ended' = MoveOn[r],
               \A s \in Reminder : ~ (noted'[s] > reminded'[s])
        PROVE  reminded'[r] = 1 \/ Over4(reminded)' = 2
    <3>0. ~ d.continue
      BY <1>1, <1>3, <1>4, <2>2, MoveOnIsNoReminder
    <3>1. ~ g.continue /\ current.by = "recovery" /\ d = g
      BY <1>2, <1>3a, <1>4, <2>2, <3>0
    <3>2. d.reason = MoveOn[r] /\ d.reason \notin Reminder
      BY <1>3, <2>2, <3>0, MoveOnIsNoReminder
    <3>3. noted[r] >= 1 \/ Violations >= 2
      BY <1>2, <3>1, <3>2 DEF Escalated
    <3>4. \A s \in Reminder : noted[s] = reminded'[s] /\ noted[s] \in Nat
      <4>1. \A s \in Reminder : noted'[s] = noted[s] /\ noted[s] \in Nat
        BY <1>5, <1>6, <3>2 DEF ConversationTypeOK, Counted
      <4> QED
        BY <2>1, <2>2, <4>1
    <3>5. Violations = Over4(reminded)'
      BY <3>4 DEF Violations, Over4, Reminder
    <3> QED
      BY <2>1, <3>3, <3>4, <3>5
  <2> QED
    BY <2>1, <2>2 DEF WarnedBeforeMovedOn
<1>15. LimitCountsAnswers'
  <2> SUFFICES ASSUME limit > 0, misread' = 0
               PROVE  /\ answers' + reasked' <= limit
                      /\ closer' = "limits" /\ ended' = "client_max_turns_reached" =>
                            answers' + reasked' = limit
    BY <1>3 DEF LimitCountsAnswers
  <2>1. assessed < limit /\ answers' + reasked' <= limit
    BY <1>5, <1>7, <1>11a
  <2>2. ASSUME closer' = "limits", ended' = "client_max_turns_reached"
        PROVE  answers' + reasked' = limit
    <3>1. g.continue /\ ~ d.continue /\ d.reason = "client_max_turns_reached"
      BY <1>1, <1>3, <1>3a, <1>4, <1>5, <1>7, <2>2
    <3>2. ~ IsClarification(g.reason) /\ assessed + 1 >= limit
      BY <1>2, <3>1
    <3> QED
      BY <1>5, <1>11a, <2>1, <3>2
  <2> QED
    BY <2>1, <2>2
<1> QED
  BY <1>6, <1>10, <1>11, <1>12, <1>13, <1>14, <1>15 DEF IInv

LEMMA StutterStep == IInv /\ UNCHANGED conversationVars => IInv'
<1> SUFFICES ASSUME IInv, UNCHANGED conversationVars PROVE IInv'
  OBVIOUS
<1>1. UNCHANGED <<limit, exhausted, turns, ended, closer>> /\ current' = current
      /\ noted' = noted /\ assessed' = assessed
  BY DEF conversationVars, turns
<1>2. current' \in CurrentTurn
  BY <1>1 DEF IInv, ConversationTypeOK
<1>3. GraphInv'
  BY <1>1 DEF IInv, GraphInv, Escalated, Violations, Over4
<1> QED
  BY <1>1, <1>2, <1>3, GraphStep

THEOREM Inductive == ConversationSpec => []IInv
<1>1. IInv /\ [ConversationNext]_conversationVars => IInv'
  BY DecideOnStep, PrepareStep, RecoveryStep, FollowUpStep, NodeRaisesStep, MergeStep,
     CompleteStep, StutterStep DEF ConversationNext, QuestionOver
<1> QED
  BY InitIInv, <1>1, PTL DEF ConversationSpec

\* Every variable of the conversation keeps its type.
THEOREM FollowUpTypeCorrect == ConversationSpec => []ConversationTypeOK
<1>1. IInv => ConversationTypeOK
  BY DEF IInv
<1> QED
  BY Inductive, <1>1, PTL

\* Whatever the limits are, a question ends within MaxConsecutive turns for
\* each of its MaxTurns assessments and each reason that is read in two ways
\* (_apply_turn_limit, merge_decision_node).
THEOREM QuestionEndsInTime == ConversationSpec => []EndsInTime
<1>1. IInv => EndsInTime
  BY DEF IInv
<1> QED
  BY Inductive, <1>1, PTL

\* Repeat recovery moves nobody on for misconduct without a reminder of it, or two
\* of any kind, before (_enforce_escalation).
THEOREM NobodyMovedOnUnwarned == ConversationSpec => []WarnedBeforeMovedOn
<1>1. IInv => WarnedBeforeMovedOn
  BY DEF IInv
<1> QED
  BY Inductive, <1>1, PTL

\* A client's limit is exact: as many answers and re-asked silences as it says,
\* clarifications apart (is_clarification_reason).
THEOREM LimitIsExact == ConversationSpec => []LimitCountsAnswers
<1>1. IInv => LimitCountsAnswers
  BY DEF IInv
<1> QED
  BY Inductive, <1>1, PTL
=============================================================================
