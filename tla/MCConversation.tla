--------------------------- MODULE MCConversation ---------------------------
(***************************************************************************)
(* The words of a turn and the decision about it share no state but the    *)
(* text, of which the decision reads whether there is any: a behaviour is  *)
(* that of an accumulator, or of the conversation about one question.      *)
(***************************************************************************)
EXTENDS TranscriptAccumulator, FollowUpDecision

NoConversation ==
    /\ limit = 0 /\ exhausted = FALSE
    /\ assessed = 0 /\ trailing = 0 /\ total = 0
    /\ noted = [r \in Counted |-> 0] /\ repeated = FALSE
    /\ current = NoTurn /\ ended = "free" /\ closer = "no"
    /\ answers = 0 /\ reasked = 0 /\ misread = 0 /\ reminded = [r \in Reminder |-> 0]

VoiceInit == Init /\ (NoConversation \/ ConversationInit)
VoiceNext == \/ NoConversation /\ Next /\ UNCHANGED conversationVars
             \/ ConversationNext /\ UNCHANGED vars
VoiceSpec == VoiceInit /\ [][VoiceNext]_<<vars, conversationVars>>
=============================================================================
