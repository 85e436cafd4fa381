-------------------------- MODULE LanguageConsensus --------------------------
(***************************************************************************)
(* The language judgement of one answer: three requests in parallel, each  *)
(* with a retry and a fallback, behind the semaphore that bounds the calls *)
(* of the whole evaluation; then, for every criterion on its own, the      *)
(* median, the spread and the confidence of the valid replies.             *)
(*                                                                         *)
(* Scores are integers and confidences are in thousandths, rounded down:   *)
(* the code computes both in floating point.                               *)
(***************************************************************************)
EXTENDS Integers, Sequences, FiniteSets

CONSTANTS Criterion,       \* grammar, vocabulary, coherence
          Low, High,       \* the score range of the rubric, the same for all
          Slots,           \* EVAL_LLM_CONCURRENCY_LIMIT
          JudgeReply,      \* what a model may answer
          Missing,         \* no such criterion in the reply, or no number
          NoObject         \* a reply of valid JSON, but a list or a scalar

Round == 1 .. 3
Item     == [score : Int, grounded : BOOLEAN]

ASSUME RangeAssumption == Low \in Int /\ High \in Int /\ Low < High
ASSUME SlotAssumption  == Slots \in Nat \ {0}
ASSUME JudgeReplyAssumption ==
    JudgeReply \subseteq {NoObject} \cup [Criterion -> Item \cup {Missing}]
\* Confidence is kept in thousandths: a spread of one point shows in it.
ASSUME PrecisionAssumption == High - Low <= 5000

VARIABLES call,    \* where each request is
          free,    \* free slots of the semaphore
          scored,  \* the valid replies of each criterion, as they arrived
          broken,  \* first_error is set
          crashed, \* the collecting loop raised
          result   \* of the judgement

judgementVars == <<call, free, scored, broken, crashed, result>>

Try  == {"primary", "retry", "fallback"}
Call == [try : Try, state : {"waiting", "calling", "sleeping", "answered", "failed"}]

(***************************************************************************)
(* The judgement of one criterion.                                         *)
(***************************************************************************)
Valid(item) == item # Missing /\ Low <= item.score /\ item.score <= High

\* The list sorted by score, equal scores in the order they arrived.
Before(s, i, j) == s[i].score < s[j].score \/ (s[i].score = s[j].score /\ i < j)
Rank(s, i)      == Cardinality({j \in DOMAIN s : Before(s, j, i)})
Sorted(s)       == [k \in DOMAIN s |-> s[CHOOSE i \in DOMAIN s : Rank(s, i) = k - 1]]

Middle(s) == Sorted(s)[Len(s) \div 2 + 1]

Lowest(s) == Sorted(s)[1].score
Highest(s) == Sorted(s)[Len(s)].score

ClipUnit(x) == IF x < 0 THEN 0 ELSE IF x > 1000 THEN 1000 ELSE x

\* The spread on a ten-point scale, halved, off one.
Spread(s) == ((Highest(s) - Lowest(s)) * 5000) \div (High - Low)
Doubted(s) == 2 * Cardinality({i \in DOMAIN s : ~ s[i].grounded}) > Len(s)

\* Mutant: a single reply counts as one that agrees.
JudgementOfOne(s) ==
    [score |-> Middle(s).score,
     confidence |-> IF Doubted(s) THEN (ClipUnit(1000 - Spread(s)) * 7) \div 10
                    ELSE ClipUnit(1000 - Spread(s))]

Judgement(s) ==
    IF Len(s) < 2 THEN [score |-> s[1].score, confidence |-> 0]
    ELSE LET steady == ClipUnit(1000 - Spread(s))
         IN  [score |-> Middle(s).score,
              confidence |-> IF Doubted(s) THEN (steady * 7) \div 10 ELSE steady]

\* One criterion without a valid reply raises for all of them.
Judgements ==
    IF \E c \in Criterion : scored[c] = << >> THEN [state |-> "failed"]
    ELSE [state |-> "judged", of |-> [c \in Criterion |-> Judgement(scored[c])]]

(***************************************************************************)
(* The three requests.                                                     *)
(***************************************************************************)
JudgementInit ==
    /\ call = [r \in Round |-> [try |-> "primary", state |-> "waiting"]]
    /\ free = Slots
    /\ scored = [c \in Criterion |-> << >>]
    /\ broken = FALSE /\ crashed = FALSE
    /\ result = [state |-> "none"]

\* llm_call_slot: a request holds a slot only while the model is asked.
AcquireSlot(r) ==
    /\ call[r].state = "waiting" /\ free > 0
    /\ free' = free - 1
    /\ call' = [call EXCEPT ![r].state = "calling"]
    /\ UNCHANGED <<scored, broken, crashed, result>>

ReleaseSlot == free' = free + 1

\* The loop takes the replies as the requests complete, and what it finds
\* valid in each; a reply that is no object raises out of the loop.
Collect(reply) ==
    IF crashed \/ reply = NoObject
    THEN crashed' = TRUE /\ UNCHANGED scored
    ELSE /\ scored' = [c \in Criterion |->
                         IF Valid(reply[c]) THEN Append(scored[c], reply[c]) ELSE scored[c]]
         /\ UNCHANGED crashed

Answer(r) ==
    /\ call[r].state = "calling"
    /\ ReleaseSlot
    /\ call' = [call EXCEPT ![r].state = "answered"]
    /\ \E reply \in JudgeReply : Collect(reply)
    /\ UNCHANGED <<broken, result>>

\* Only a rate limit of the first try is retried on the same provider.
RateLimited(r) ==
    /\ call[r] = [try |-> "primary", state |-> "calling"]
    /\ ReleaseSlot
    /\ call' = [call EXCEPT ![r] = [try |-> "retry", state |-> "sleeping"]]
    /\ UNCHANGED <<scored, broken, crashed, result>>

\* Mutant: the retry counts as a first try and is retried again.
WakesAsPrimary(r) ==
    /\ call[r].state = "sleeping"
    /\ call' = [call EXCEPT ![r] = [try |-> "primary", state |-> "waiting"]]
    /\ UNCHANGED <<free, scored, broken, crashed, result>>

WakeUp(r) ==
    /\ call[r].state = "sleeping"
    /\ call' = [call EXCEPT ![r].state = "waiting"]
    /\ UNCHANGED <<free, scored, broken, crashed, result>>

\* Any other error, text that is no JSON included.
CallFails(r) ==
    /\ call[r].state = "calling"
    /\ ReleaseSlot
    /\ IF call[r].try = "fallback"
       THEN /\ call' = [call EXCEPT ![r].state = "failed"]
            /\ broken' = TRUE
       ELSE /\ call' = [call EXCEPT ![r] = [try |-> "fallback", state |-> "waiting"]]
            /\ UNCHANGED broken
    /\ UNCHANGED <<scored, crashed, result>>

Finished == \A r \in Round : call[r].state \in {"answered", "failed"}

\* Leaving the pool waits for the three requests, also after a crash.
Judge ==
    /\ Finished /\ result.state = "none"
    /\ result' = IF crashed THEN [state |-> "failed"] ELSE Judgements
    /\ UNCHANGED <<call, free, scored, broken, crashed>>

Judged == result.state # "none" /\ UNCHANGED judgementVars

RequestStep(r) == AcquireSlot(r) \/ Answer(r) \/ RateLimited(r) \/ WakeUp(r) \/ CallFails(r)

JudgementNext == (\E r \in Round : RequestStep(r)) \/ Judge \/ Judged

\* The threads run, the semaphore does not starve a waiter that it can serve,
\* and the client of the model ends every call, by its own timeout if need be.
Fairness ==
    /\ \A r \in Round : /\ WF_judgementVars(AcquireSlot(r)) /\ WF_judgementVars(WakeUp(r))
                        /\ WF_judgementVars(Answer(r) \/ RateLimited(r) \/ CallFails(r))
    /\ WF_judgementVars(Judge)

JudgementSpec == JudgementInit /\ [][JudgementNext]_judgementVars /\ Fairness

(***************************************************************************)
(* What the judgement owes.                                                *)
(***************************************************************************)
JudgementTypeOK ==
    /\ call \in [Round -> Call]
    /\ free \in 0 .. Slots
    /\ scored \in [Criterion -> Seq(Item)]
    /\ broken \in BOOLEAN /\ crashed \in BOOLEAN
    /\ result.state \in {"none", "judged", "failed"}

Scores(c) == {scored[c][i].score : i \in DOMAIN scored[c]}
Count(c, P(_)) == Cardinality({i \in DOMAIN scored[c] : P(scored[c][i].score)})

\* Whatever order the replies arrive in, the score of a criterion is the
\* median of its valid replies (of two, the higher), and so lies in the range.
SelectedIsMedian ==
    result.state = "judged" => \A c \in Criterion :
        LET m == result.of[c].score IN
        /\ m \in Scores(c) /\ m \in Low .. High
        /\ 2 * Count(c, LAMBDA x : x > m) < Len(scored[c]) + (Len(scored[c]) % 2)
        /\ 2 * Count(c, LAMBDA x : x < m) <= Len(scored[c])

\* Confidence is only given where two replies agree to less than two points
\* of ten, and full confidence only where all agree and are not doubted.
ConfidenceIsEarned ==
    result.state = "judged" => \A c \in Criterion :
        LET n == Len(scored[c])
            far == \E x, y \in Scores(c) : 5 * (x - y) >= High - Low
        IN  /\ result.of[c].confidence > 0 => n >= 2 /\ ~ far
            /\ result.of[c].confidence = 1000 =>
                 n >= 2 /\ Cardinality(Scores(c)) = 1
                 /\ \E i \in DOMAIN scored[c] : scored[c][i].grounded

\* What a judgement says of a criterion is what its replies support.
JudgementIsSound == SelectedIsMedian /\ ConfidenceIsEarned

\* Every judgement ends, also when all requests wait for the same slot.
EveryJudgementEnds == <>(result.state # "none")

\* A broken reply, or a criterion that wavers, does not lose the reliable
\* results of the other criteria.  The code does not keep it (README, further
\* divergences), and no run checks it.
OthersSurvive ==
    result.state = "failed" => \A c \in Criterion : Len(scored[c]) < 2
=============================================================================
