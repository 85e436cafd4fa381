------------------------------ MODULE MCGraphs ------------------------------
(***************************************************************************)
(* The graphs share no state; a behaviour is one of these: an attempt to   *)
(* evaluate an answer, one language judgement, one run of the question     *)
(* pipeline, one request for questions or one request for topics.          *)
(***************************************************************************)
EXTENDS ExamEvaluation, LanguageConsensus, QuestionGeneration, TopicGeneration

\* Rules of validity: a plain rejection, one that leaves everything out, a
\* rejection of medium severity, a note that does not block, and a grave one that
\* does not block.
MCReply ==
    {[id |-> "off_topic", blocking |-> "unset", action |-> "unset", severity |-> "unset"],
     [id |-> "profanity", blocking |-> "yes", action |-> "reject_or_zero", severity |-> "medium"],
     [id |-> "off_topic", blocking |-> "no", action |-> "score_with_penalty", severity |-> "medium"],
     [id |-> "profanity", blocking |-> "no", action |-> "score_with_penalty", severity |-> "critical"]}

\* Scores at both ends of the range, in it, beside it, and none; grounded or
\* not; and a reply that is no object.
MCItem == {[score |-> 0, grounded |-> TRUE], [score |-> 9, grounded |-> TRUE],
           [score |-> 10, grounded |-> FALSE]}
MCJudgeReply ==
    {NoObject, [c \in Criterion |-> [score |-> 11, grounded |-> TRUE]]}
    \cup [Criterion -> MCItem]
    \cup {[c \in Criterion |-> IF c = d THEN Missing ELSE [score |-> 9, grounded |-> TRUE]] :
              d \in Criterion}

\* A draft that trains its criterion in general and speaks of the future, and one
\* of the past with a sub-attribute that is another criterion's: it will do where
\* the sub-attribute was asked for.
MCSubs == [k \in Construct |-> IF k = "grammar" THEN {"plural"} ELSE {}]
MCContent == {[text |-> "fit", construct |-> "vocabulary", sub |-> Open, tense |-> "future"],
              [text |-> "fit", construct |-> "vocabulary", sub |-> "plural", tense |-> "past"]}
\* The second topic resembles both others, which do not resemble each other.
MCAlike == {<<t, t>> : t \in Topic} \cup {<<1, 2>>, <<2, 1>>, <<2, 3>>, <<3, 2>>}

NoEvaluation ==
    /\ kind = "exam" /\ turns = 1 /\ payload = [framed |-> TRUE, unread |-> FALSE]
    /\ input = [t \in Turn |-> [said |-> "silent", live |-> "no", audio |-> FALSE]]
    /\ run = [t \in Turn |-> Idle]
    /\ phase = "failed" /\ whole = Idle /\ event = NoEvent /\ cause = {"archive"}

NoJudgement ==
    /\ call = [r \in Round |-> [try |-> "fallback", state |-> "failed"]]
    /\ free = Slots /\ scored = [c \in Criterion |-> << >>]
    /\ broken = TRUE /\ crashed = TRUE /\ result = [state |-> "failed"]

NoQuestions ==
    /\ fast = TRUE /\ at = "failed" /\ graph = NoGraph /\ answer = {}
    /\ request = [construct |-> "grammar", sub |-> "plural", tense |-> "past", count |-> 1]
    /\ batch = 0 /\ counted = 0 /\ zeros = << >> /\ records = {} /\ ended = << >>
    /\ disk = [b \in Batch |-> [files |-> {}, accepted |-> {}, torn |-> FALSE]]
    /\ rows = {} /\ indexed = {} /\ deaths = 0

NoTopics ==
    /\ wanted = [evidence |-> {}, search |-> FALSE, max |-> 1] /\ node = "done" /\ inactive = FALSE
    /\ proposals = << >> /\ offer = << >> /\ collisions = {} /\ round = 0
    /\ catalogue = [d \in Id |-> Unseen] /\ stood = Id /\ indexings = 0

GraphsInit == \/ Init /\ NoJudgement /\ NoQuestions /\ NoTopics
              \/ NoEvaluation /\ JudgementInit /\ NoQuestions /\ NoTopics
              \/ NoEvaluation /\ NoJudgement /\ QuestionInit /\ NoTopics
              \/ NoEvaluation /\ NoJudgement /\ NoQuestions /\ TopicInit

GraphsNext == \/ Next /\ UNCHANGED <<judgementVars, questionVars, topicVars>>
              \/ JudgementNext /\ UNCHANGED <<vars, questionVars, topicVars>>
              \/ QuestionNext /\ UNCHANGED <<vars, judgementVars, topicVars>>
              \/ TopicNext /\ UNCHANGED <<vars, judgementVars, questionVars>>

GraphsSpec == /\ GraphsInit /\ [][GraphsNext]_<<vars, judgementVars, questionVars, topicVars>>
              /\ Fairness /\ WF_questionVars(QuestionStep)
=============================================================================
