------------------------- MODULE QuestionGeneration -------------------------
(***************************************************************************)
(* Practice questions from the graph drafter -> candidate filter ->        *)
(* evaluator -> editor -> refiner.  The offline pipeline runs it batch by  *)
(* batch until HARD_CAP questions are accepted; it keeps the files of each *)
(* batch, stores and indexes what it accepted, and when it died resumes    *)
(* from the files.  The online service runs it once, in fast mode, for a   *)
(* waiting student.                                                        *)
(*                                                                         *)
(* The editor's workers share nothing but the token list, so a repair is   *)
(* one step of one candidate.  A list whose order decides nothing is a     *)
(* set; where a prefix of it is taken, any subset of that size is.         *)
(***************************************************************************)
EXTENDS Naturals, Sequences, FiniteSets

CONSTANTS Draft,        \* the candidates of one draft (DRAFTER_CANDIDATES)
          Content,      \* what a draft, an edit or a polish may look like
          Construct,    \* the criteria of the framework
          Subs,         \* ALLOWED_SUB_ATTRIBUTES of each criterion
          Tenses,       \* ALLOWED_TENSES
          Open,         \* None: the request leaves it open
          HardCap, MaxBatches, MaxRounds,
          Persist,      \* the starts of the pipeline, from 0, that are given --persist
          MaxDeaths     \* bound: how often the process may die

Text   == {"fit", "LENGTH_OUT_OF_RANGE", "NOT_ENGLISH"}
Reason == {"LENGTH_OUT_OF_RANGE", "NOT_ENGLISH", "SUB_ATTRIBUTE_NOT_ALLOWED", "TENSE_MISMATCH"}
Batch  == 1 .. MaxBatches + MaxDeaths

ASSUME ContentAssumption == Content # {} /\ \A c \in Content : c.text \in Text
ASSUME BoundAssumption ==
    /\ IsFiniteSet(Draft)
    /\ HardCap \in Nat /\ MaxBatches \in Nat \ {0} /\ MaxRounds \in Nat /\ MaxDeaths \in Nat

\* An accepted question; the uuid is fresh, whatever became of an earlier try.
Record == [batch : Batch, try : 0 .. MaxDeaths, id : Draft]

VARIABLES
    fast,     \* the online service, not the pipeline
    request,  \* what the questions are asked for
    at,       \* where the run is
    graph,    \* the graph state
    batch,    \* batch_number
    counted,  \* accepted_count
    zeros,    \* zero_batch_reasons
    records,  \* accepted by the batch under way
    disk,     \* the batch directories
    rows,     \* new_practice_question
    indexed,  \* the question collection
    deaths,   \* how often the process died
    ended,    \* history: what each batch of this process came to
    answer    \* of the service

memory == <<batch, counted, zeros, records, ended>>
store  == <<disk, rows, indexed>>
questionVars == <<fast, request, at, graph, memory, store, deaths, answer>>

Graph == [draft : [Draft -> Content], survivors : SUBSET Draft, failed : SUBSET Draft,
          rounds : [Draft -> 0 .. MaxRounds], live : SUBSET Draft, reasons : SUBSET Reason]
File  == {"drafter-raw", "evaluator-raw", "editor-raw", "accepted", "tokens"}
Directory == [files : SUBSET File, accepted : SUBSET Record, torn : BOOLEAN]

Running == {"batch", "draft", "filter", "evaluate", "edit", "refine", "accept", "write",
            "tokens", "store", "index"}
Over    == {"finished", "shared", "exhausted", "broken", "answered", "failed"}

Request == [construct : Construct, sub : UNION {Subs[k] : k \in Construct} \cup {Open},
            tense : Tenses \cup {Open}, count : 1 .. Cardinality(Draft)]
\* The pipeline asks for no tense, and for all it can get; of the criterion it
\* asks for only the prompts speak.
OfflineRequest == {r \in Request : /\ r.tense = Open /\ r.count = Cardinality(Draft)
                                   /\ r.construct = CHOOSE k \in Construct : TRUE}

QuestionTypeOK ==
    /\ fast \in BOOLEAN /\ request \in Request
    /\ at \in Running \cup Over \cup {"down"}
    /\ at # "answered" => graph \in Graph   \* _salvage_one may change a sub-attribute
    /\ batch \in {0} \cup Batch /\ counted \in 0 .. HardCap
    /\ zeros \in Seq(SUBSET Reason)
    /\ records \subseteq Record
    /\ disk \in [Batch -> Directory]
    /\ rows \subseteq Record /\ indexed \subseteq Record
    /\ deaths \in 0 .. MaxDeaths
    /\ answer \in SUBSET Draft

NoGraph == [draft |-> [d \in Draft |-> CHOOSE c \in Content : TRUE], survivors |-> {}, failed |-> {},
            rounds |-> [d \in Draft |-> 0], live |-> {}, reasons |-> {}]

QuestionInit ==
    /\ \/ fast = FALSE /\ at = "down" /\ request \in OfflineRequest
       \/ fast = TRUE /\ at = "draft" /\ request \in Request
    /\ graph = NoGraph
    /\ batch = 0 /\ counted = 0 /\ zeros = << >> /\ records = {} /\ ended = << >>
    /\ disk = [b \in Batch |-> [files |-> {}, accepted |-> {}, torn |-> FALSE]]
    /\ rows = {} /\ indexed = {} /\ deaths = 0 /\ answer = {}

(***************************************************************************)
(* The rules of a candidate.                                               *)
(***************************************************************************)
\* The criterion is the candidate's own: whether it is the one that was asked
\* for is not looked at.
SubViolated(c, sub) == IF sub = Open THEN c.sub \notin Subs[c.construct] \cup {Open} ELSE c.sub # sub
TenseViolated(c, tense) == c.tense \notin Tenses \/ (tense # Open /\ c.tense # tense)

\* Mutant: a sub-attribute of the taxonomy will do, whatever was asked for.
TaxonomyViolations(c, sub, tense) ==
    {r \in Reason : \/ r = c.text
                    \/ r = "SUB_ATTRIBUTE_NOT_ALLOWED" /\ SubViolated(c, Open)
                    \/ r = "TENSE_MISMATCH" /\ TenseViolated(c, tense)}

RuleViolations(c, sub, tense) ==
    {r \in Reason : \/ r = c.text
                    \/ r = "SUB_ATTRIBUTE_NOT_ALLOWED" /\ SubViolated(c, sub)
                    \/ r = "TENSE_MISMATCH" /\ TenseViolated(c, tense)}

(***************************************************************************)
(* The graph.  In fast mode nothing is judged, repaired or polished.       *)
(***************************************************************************)
Step(from, to, g) ==
    /\ at = from /\ at' = to /\ graph' = g
    /\ UNCHANGED <<fast, request, memory, store, deaths, answer>>

DrafterNode ==
    \E draft \in [Draft -> Content] : Step("draft", "filter", [NoGraph EXCEPT !.draft = draft])

\* Likeness to the questions in store is measured and no longer filters.
CandidateFilterNode ==
    LET Violations(d) == RuleViolations(graph.draft[d], request.sub, request.tense)
    IN  Step("filter", "evaluate",
             [graph EXCEPT !.survivors = {d \in Draft : Violations(d) = {}},
                           !.reasons = UNION {Violations(d) : d \in Draft}])

\* The verdict of the separate calls; the grouped call is only compared.
EvaluatorNode ==
    \E failed \in SUBSET graph.survivors :
        /\ fast => failed = {}
        /\ Step("evaluate", "edit", [graph EXCEPT !.failed = failed])

\* Mutant: the rounds are not counted.
RepairUncounted(d) ==
    /\ d \in graph.failed /\ graph.rounds[d] < MaxRounds
    /\ \E c \in Content, accepted \in BOOLEAN :
          Step("edit", "edit",
               [graph EXCEPT !.draft[d] = c, !.failed = IF accepted THEN @ \ {d} ELSE @])

RepairOne(d) ==
    /\ d \in graph.failed /\ graph.rounds[d] < MaxRounds
    /\ \E c \in Content, accepted \in BOOLEAN :
          Step("edit", "edit",
               [graph EXCEPT !.draft = [graph.draft EXCEPT ![d] = c],
                             !.rounds = [graph.rounds EXCEPT ![d] = @ + 1],
                             !.failed = IF accepted THEN @ \ {d} ELSE @])

EditorNode ==
    /\ \A d \in graph.failed : graph.rounds[d] = MaxRounds
    /\ Step("edit", "refine",
            [graph EXCEPT !.live = @ \cup (graph.survivors \ graph.failed),
                          !.survivors = IF fast THEN @ ELSE {},
                          !.failed = {}, !.rounds = NoGraph.rounds])

\* The refiner may return other words, and fewer questions than it got; one at
\* least, its schema says.
RefinerNode ==
    \/ /\ fast \/ graph.live = {}
       /\ Step("refine", "accept", graph)
    \/ /\ ~ fast
       /\ \E refined \in SUBSET graph.live \ {{}} : \E c \in [refined -> Content] :
             Step("refine", "accept",
                  [graph EXCEPT !.live = refined,
                                !.draft = [d \in Draft |-> IF d \in refined THEN c[d]
                                                           ELSE NoGraph.draft[d]]])

(***************************************************************************)
(* The online service.                                                     *)
(***************************************************************************)
CleanFor(sub, tense) == {d \in graph.live : RuleViolations(graph.draft[d], sub, tense) = {}}

Least(a, b) == IF a < b THEN a ELSE b

\* _salvage_one: a candidate as it is, or with the sub-attribute asked for if the
\* criterion asked for has it, else with none; it does not look at the tense.
Salvaged(d) ==
    {c \in {graph.draft[d],
            [graph.draft[d] EXCEPT !.sub = IF request.sub \in Subs[request.construct]
                                           THEN request.sub ELSE Open]} :
        RuleViolations(c, request.sub, Open) = {}}

GenerateQuestions ==
    /\ fast /\ at = "accept" /\ at' = "answered"
    /\ LET clean == CleanFor(request.sub, request.tense)
           pool == {d \in graph.live \cup graph.survivors : Salvaged(d) # {}}
       IN  \/ /\ clean # {} \/ pool = {}
              /\ \E taken \in SUBSET clean :
                    /\ Cardinality(taken) = Least(Cardinality(clean), request.count)
                    /\ answer' = taken
              /\ UNCHANGED graph
           \/ /\ clean = {}
              /\ \E d \in pool : \E c \in Salvaged(d) :
                    answer' = {d} /\ graph' = [graph EXCEPT !.draft[d] = c]
    /\ UNCHANGED <<fast, request, memory, store, deaths>>

(***************************************************************************)
(* The offline pipeline.                                                   *)
(***************************************************************************)
Complete(b) == disk[b].files = File
Kept == UNION {disk[b].accepted : b \in {c \in Batch : Complete(c)}}

\* resume_existing_batches; a batch without all its files is run again.  A file
\* of tokens that was cut off cannot be parsed, now or at any later start.
ResumeExistingBatches ==
    /\ at = "down"
    /\ LET complete == {b \in Batch : Complete(b)} IN
       IF \E b \in complete : disk[b].torn
       THEN at' = "broken" /\ UNCHANGED <<batch, counted>>
       ELSE /\ batch' = CHOOSE b \in complete \cup {0} : \A c \in complete : c <= b
            /\ counted' = Cardinality(Kept)
            /\ at' = IF counted' < HardCap THEN "batch" ELSE "finished"
    /\ zeros' = << >> /\ records' = {} /\ ended' = << >>
    /\ UNCHANGED <<fast, request, graph, store, deaths, answer>>

RunBatch ==
    /\ at = "batch" /\ at' = "draft"
    /\ batch' = batch + 1
    /\ request' \in OfflineRequest
    /\ UNCHANGED <<fast, graph, counted, zeros, records, ended, store, deaths, answer>>

\* The first raw files, then _accepted_records: the rules once more, but not the
\* sub-attribute that was asked for, and no more than the cap leaves room for.
AcceptedRecords ==
    /\ ~ fast /\ at = "accept" /\ at' = "write"
    /\ LET clean == CleanFor(Open, Open)
           faults == UNION {RuleViolations(graph.draft[d], Open, Open) : d \in graph.live}
       IN  /\ \E taken \in SUBSET clean :
                 /\ Cardinality(taken) = Least(Cardinality(clean), HardCap - counted)
                 /\ records' = [batch : {batch}, try : {deaths}, id : taken]
                 /\ counted' = counted + Cardinality(taken)
           /\ graph' = [NoGraph EXCEPT !.reasons = graph.reasons \cup faults]
    /\ disk' = [disk EXCEPT ![batch].files = @ \cup {"drafter-raw", "evaluator-raw"}]
    /\ UNCHANGED <<fast, request, batch, zeros, ended, rows, indexed, deaths, answer>>

WriteAccepted ==
    /\ at = "write" /\ at' = "tokens"
    /\ disk' = [disk EXCEPT ![batch] = [files |-> @.files \cup {"editor-raw", "accepted"},
                                        accepted |-> records, torn |-> @.torn]]
    /\ UNCHANGED <<fast, request, graph, memory, rows, indexed, deaths, answer>>

\* Mutant: the tokens are only written when they are complete.
WriteTokensOnce ==
    /\ at = "tokens" /\ at' = "store"
    /\ UNCHANGED <<fast, request, graph, memory, store, deaths, answer>>

WriteTokens ==
    /\ at = "tokens" /\ at' = "store"
    /\ disk' = [disk EXCEPT ![batch].files = @ \cup {"tokens"}]
    /\ UNCHANGED <<fast, request, graph, memory, rows, indexed, deaths, answer>>

\* One transaction, if this start is to persist at all.
PersistBatch ==
    /\ at = "store" /\ at' = "index"
    /\ rows' = IF deaths \in Persist THEN rows \cup records ELSE rows
    /\ UNCHANGED <<fast, request, graph, memory, disk, indexed, deaths, answer>>

IndexQuestion ==
    /\ at = "index"
    /\ \E r \in records \ indexed : indexed' = indexed \cup {r}
    /\ UNCHANGED <<fast, request, at, graph, memory, disk, rows, deaths, answer>>

\* _check_systematic_filter_failure: the reasons of the last batches in a row
\* that gave nothing.
NextZeros ==
    IF records # {} THEN << >>
    ELSE Append(SubSeq(zeros, IF Len(zeros) > 2 THEN Len(zeros) - 1 ELSE 1, Len(zeros)),
                graph.reasons)

\* Mutant: two of them are enough.
SharedByTwo(window) ==
    Len(window) >= 2 /\ \E r \in Reason : \A i \in 1 .. Len(window) : r \in window[i]

SharedReason(window) ==
    Len(window) = 3 /\ \E r \in Reason : \A i \in 1 .. 3 : r \in window[i]

Verdict ==
    IF SharedReason(NextZeros) THEN "shared"
    ELSE IF batch >= MaxBatches /\ counted < HardCap THEN "exhausted"
    ELSE IF counted < HardCap THEN "batch" ELSE "finished"

\* The tokens again, with those of the embeddings; then run() looks at the batch.
BatchEnds ==
    /\ at = "index" /\ records \subseteq indexed
    /\ zeros' = NextZeros /\ at' = Verdict
    /\ ended' = Append(ended, [gave |-> records # {}, reasons |-> graph.reasons])
    /\ disk' = [disk EXCEPT ![batch].files = @ \cup {"tokens"}]
    /\ graph' = NoGraph /\ records' = {}
    /\ UNCHANGED <<fast, request, batch, counted, rows, indexed, deaths, answer>>

\* The process dies, or a call of the model, the database or the collection
\* raises out of it.  The tokens it was writing may be cut off.
Die ==
    /\ at \in Running /\ deaths < MaxDeaths
    /\ deaths' = deaths + 1
    /\ at' = IF fast THEN "failed" ELSE "down"
    /\ \/ disk' = disk
       \/ /\ at = "tokens" \/ (at = "index" /\ records \subseteq indexed)
          /\ disk' = [disk EXCEPT ![batch] = [files |-> @.files \cup {"tokens"},
                                              accepted |-> @.accepted, torn |-> TRUE]]
    /\ graph' = NoGraph /\ batch' = 0 /\ counted' = 0
    /\ zeros' = << >> /\ records' = {} /\ ended' = << >>
    /\ UNCHANGED <<fast, request, rows, indexed, answer>>

\* Somebody starts it again after it stopped of its own accord.
RunAgain ==
    /\ at \in {"shared", "exhausted"} /\ deaths < MaxDeaths
    /\ deaths' = deaths + 1 /\ at' = "down"
    /\ UNCHANGED <<fast, request, graph, memory, store, answer>>

GraphNode ==
    \/ DrafterNode \/ CandidateFilterNode \/ EvaluatorNode
    \/ \E d \in Draft : RepairOne(d)
    \/ EditorNode \/ RefinerNode

QuestionStep ==
    \/ GraphNode \/ GenerateQuestions
    \/ ResumeExistingBatches \/ RunBatch \/ AcceptedRecords \/ WriteAccepted
    \/ WriteTokens \/ PersistBatch \/ IndexQuestion \/ BatchEnds

QuestionNext == QuestionStep \/ Die \/ RunAgain

QuestionSpec == QuestionInit /\ [][QuestionNext]_questionVars /\ WF_questionVars(QuestionStep)

(***************************************************************************)
(* Properties.                                                             *)
(***************************************************************************)
\* What students can find and what is stored was accepted by a batch whose files
\* are all there: a start after any death neither counts a question twice nor
\* passes HARD_CAP.  What a start that persists made findable is stored, and of
\* its batches only one that was under way when the process died is not.  (A start
\* without --persist, the default, indexes questions that are in no row.)
StoresAgree ==
    LET Persisting(b) == \A r \in disk[b].accepted : r.try \in Persist
    IN  /\ {r \in indexed : r.try \in Persist} \subseteq rows
        /\ indexed \cup rows \subseteq Kept
        /\ Cardinality(Kept) <= HardCap
        /\ Cardinality({b \in Batch \ {batch} :
                         Complete(b) /\ Persisting(b) /\ ~ disk[b].accepted \subseteq rows}) <= deaths

\* The pipeline stops for a systematic failure exactly when its last three
\* batches gave nothing and one reason is among those of each.
StopsOnSharedReason ==
    LET last(i) == ended[Len(ended) - i]
    IN  at \in {"batch", "shared", "exhausted", "finished"} =>
          (at = "shared" <=> Len(ended) >= 3 /\ \E r \in Reason : \A i \in 0 .. 2 :
                                ~ last(i).gave /\ r \in last(i).reasons)

\* What a waiting student is given has the sub-attribute and the tense that were
\* asked for and is no more than was asked; it is nothing only when no draft of
\* the model would have done.  (Nothing keeps it to the criterion asked for.)
AnswersTheRequest ==
    at = "answered" =>
        /\ Cardinality(answer) <= request.count
        /\ \A d \in answer : /\ request.sub # Open => graph.draft[d].sub = request.sub
                             /\ request.tense # Open => graph.draft[d].tense = request.tense
                             /\ graph.draft[d].text = "fit"
        /\ answer = {} => \A d \in Draft :
               RuleViolations(graph.draft[d], request.sub, request.tense) # {}

\* Every run of the pipeline and every request comes to an end.
EveryRunEnds == <>[](at \in Over)
=============================================================================
