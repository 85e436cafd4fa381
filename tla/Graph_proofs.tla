---------------------------- MODULE Graph_proofs ----------------------------
(***************************************************************************)
(* The graphs under node/.  For any number of batches, candidates, rounds  *)
(* and deaths: the files, the rows and the vectors of the question         *)
(* pipeline agree, the cap holds, a run gives up for a reason and a        *)
(* request is answered with what it asked for.  For any collection,        *)
(* request and reply: no topic is offered twice.  For any number of turns  *)
(* and any rules of the validity model: what an evaluation owes.  For any  *)
(* replies of the judges: a score is their median, confidence is earned.   *)
(*                                                                         *)
(* The graphs share no state; LeastNumber is all that their proofs share.  *)
(***************************************************************************)
EXTENDS QuestionGeneration, TopicGeneration, ExamEvaluation, LanguageConsensus,
        FiniteSetTheorems, SequenceTheorems, WellFoundedInduction, TLAPS

\* The batches that a start counts, and those of them that should be stored and
\* are not.
Whole    == {b \in Batch : Complete(b)}
Unstored == {b \in Whole : /\ \A r \in disk[b].accepted : r.try \in Persist
                           /\ ~ disk[b].accepted \subseteq rows}

GraphAt == {"draft", "filter", "evaluate", "edit", "refine", "accept"}
Early   == GraphAt \cup {"write", "tokens"}
Late    == {"store", "index"}
Raw     == {"drafter-raw", "evaluator-raw", "editor-raw", "accepted"}

\* Only a batch that has everything else has its tokens; the batches that are
\* whole have a last one.
FilesInv ==
    /\ \A b \in Batch : "tokens" \in disk[b].files => Complete(b)
    /\ \E m \in Whole \cup {0} : \A b \in Whole : b <= m
    /\ at = "write" => {"drafter-raw", "evaluator-raw"} \subseteq disk[batch].files
    /\ at \in {"tokens"} \cup Late => disk[batch].accepted = records /\ Raw \subseteq disk[batch].files
    /\ at \in Late => batch \in Whole

\* A batch under way comes after every whole one, and there is room for it.
BatchInv ==
    /\ fast => Whole = {} /\ at \in GraphAt \cup {"answered", "failed"}
    /\ ~ fast => at \notin {"answered", "failed"}
    /\ at = "down" => \A b \in Whole : b < MaxBatches + deaths
    /\ at = "batch" => batch < MaxBatches + deaths
    /\ at \notin {"down", "broken"} => batch <= MaxBatches + deaths /\ \A b \in Whole : b <= batch
    /\ ~ fast /\ at \in Early \cup Late => batch \in Batch
    /\ at \in Early => batch \notin Whole

CountInv ==
    /\ IsFiniteSet(Kept) /\ IsFiniteSet(records)
    /\ Cardinality(Kept) <= HardCap
    /\ at \in {"batch"} \cup GraphAt \cup Late => Cardinality(Kept) <= counted
    /\ at \in {"write", "tokens"} => Cardinality(Kept \cup records) <= counted

\* Each death leaves at most one batch behind that is counted and not stored.
StoreInv ==
    /\ rows \subseteq Kept /\ indexed \subseteq Kept
    /\ \A r \in indexed : r.try \in Persist => r \in rows
    /\ at \in {"write", "tokens"} \cup Late => \A r \in records : r.try = deaths
    /\ at = "index" /\ deaths \in Persist => records \subseteq rows
    /\ at # "store" => Cardinality(Unstored) <= deaths
    /\ at = "store" => Cardinality(Unstored \ {batch}) <= deaths

IInv == QuestionTypeOK /\ FilesInv /\ BatchInv /\ CountInv /\ StoreInv

(***************************************************************************)
(* Facts about the definitions.                                            *)
(***************************************************************************)
LEMMA BatchFinite == IsFiniteSet(Batch) /\ Batch \subseteq Nat
BY FS_Interval, BoundAssumption DEF Batch

LEMMA UnstoredFinite == IsFiniteSet(Unstored) /\ Cardinality(Unstored) \in Nat
<1>1. Unstored \in SUBSET Batch
  BY DEF Unstored, Whole
<1> QED
  BY <1>1, BatchFinite, FS_Subset, FS_CardinalityType

LEMMA GraphType == NoGraph \in Graph
<1>1. (CHOOSE c \in Content : TRUE) \in Content
  BY ContentAssumption
<1> QED
  BY <1>1, BoundAssumption DEF NoGraph, Graph

\* Of the directories that stay as they are, the same ones are whole.
LEMMA SameDisk ==
    ASSUME disk' = disk
    PROVE  Whole' = Whole /\ Kept' = Kept
BY DEF Whole, Kept, Complete

\* What is written to the directory of a batch that is not whole, and does not
\* become so, changes nothing that counts.
LEMMA OpenDirectory ==
    ASSUME disk \in [Batch -> Directory], NEW n \in Batch, n \notin Whole,
           NEW d \in Directory, d.files # File, disk' = [disk EXCEPT ![n] = d]
    PROVE  Whole' = Whole /\ Kept' = Kept
<1>1. \A b \in Batch : Complete(b)' = Complete(b) /\ (Complete(b) => disk'[b] = disk[b])
  BY DEF Complete, Whole
<1>2. Whole' = Whole
  BY <1>1 DEF Whole
<1>3. Kept' = Kept
  BY <1>1 DEF Kept
<1> QED
  BY <1>2, <1>3

\* A batch that is whole now adds what it accepted.
LEMMA ClosedDirectory ==
    ASSUME disk \in [Batch -> Directory], NEW n \in Batch, NEW d \in Directory,
           n \notin Whole \/ d.accepted = disk[n].accepted, d.files = File, disk' = [disk EXCEPT ![n] = d]
    PROVE  Whole' = Whole \cup {n} /\ Kept' = Kept \cup d.accepted
<1>1. /\ \A b \in Batch \ {n} : Complete(b)' = Complete(b) /\ disk'[b] = disk[b]
      /\ Complete(n)' /\ disk'[n] = d
      /\ ~ Complete(n) \/ d.accepted = disk[n].accepted
  BY DEF Complete, Whole
<1>2. Whole' = Whole \cup {n}
  BY <1>1 DEF Whole
<1>3. Kept' = Kept \cup d.accepted
  <2>1. Kept' = UNION {disk'[b].accepted : b \in Whole'}
    BY DEF Kept, Whole
  <2>2. Kept = UNION {disk[b].accepted : b \in Whole}
    BY DEF Kept, Whole
  <2> QED
    BY <1>1, <1>2, <2>1, <2>2 DEF Whole
<1> QED
  BY <1>2, <1>3

LEMMA InitIInv == QuestionInit => IInv
<1> SUFFICES ASSUME QuestionInit PROVE IInv
  OBVIOUS
<1> USE DEF QuestionInit
<1>1. Whole = {} /\ Kept = {} /\ Unstored = {}
  BY DEF Whole, Kept, Unstored, Complete, File
<1>2. QuestionTypeOK
  <2>1. OfflineRequest \subseteq Request
    BY DEF OfflineRequest
  <2>2. disk \in [Batch -> Directory]
    BY DEF Directory
  <2>3. fast \in BOOLEAN
    BY Zenon
  <2>4. zeros \in Seq(SUBSET Reason)
    OBVIOUS
  <2>5. at \in Running \cup Over \cup {"down"} /\ graph \in Graph
    BY GraphType DEF Running, Over
  <2>6. 0 \in 0 .. HardCap /\ 0 \in 0 .. MaxDeaths
    BY BoundAssumption
  <2> QED
    BY <2>1, <2>2, <2>3, <2>4, <2>5, <2>6 DEF QuestionTypeOK
<1>3. FilesInv
  BY <1>1 DEF FilesInv, Late
<1>4. BatchInv
  BY <1>1, BoundAssumption DEF BatchInv, Late, Early, GraphAt
<1>5. CountInv
  BY <1>1, FS_EmptySet, BoundAssumption DEF CountInv, GraphAt, Late
<1>6. StoreInv
  BY <1>1, FS_EmptySet, BoundAssumption DEF StoreInv
<1> QED
  BY <1>2, <1>3, <1>4, <1>5, <1>6 DEF IInv

(***************************************************************************)
(* The graph.                                                              *)
(***************************************************************************)
LEMMA GraphStep ==
    ASSUME IInv, NEW from \in GraphAt, NEW to \in GraphAt, NEW g \in Graph, Step(from, to, g)
    PROVE  IInv'
<1> USE DEF Step, memory, store
<1>1. Whole' = Whole /\ Kept' = Kept /\ Unstored' = Unstored
  BY SameDisk DEF Unstored
<1>2. QuestionTypeOK'
  BY DEF IInv, QuestionTypeOK, GraphAt, Running
<1>3. FilesInv'
  BY <1>1 DEF IInv, FilesInv, Complete, GraphAt, Late
<1>4. BatchInv'
  BY <1>1 DEF IInv, BatchInv, GraphAt, Early, Late
<1>5. CountInv'
  BY <1>1 DEF IInv, CountInv, GraphAt, Late
<1>6. StoreInv'
  BY <1>1 DEF IInv, StoreInv, GraphAt, Late
<1> QED
  BY <1>2, <1>3, <1>4, <1>5, <1>6 DEF IInv

LEMMA DrafterStep == IInv /\ DrafterNode => IInv'
<1> SUFFICES ASSUME IInv, NEW draft \in [Draft -> Content],
                    Step("draft", "filter", [NoGraph EXCEPT !.draft = draft])
             PROVE  IInv'
  BY DEF DrafterNode
<1>1. [NoGraph EXCEPT !.draft = draft] \in Graph
  BY GraphType DEF Graph
<1> QED
  BY <1>1, GraphStep DEF GraphAt

LEMMA GraphTyped == IInv /\ at # "answered" => graph \in Graph
BY DEF IInv, QuestionTypeOK

LEMMA FilterStep == IInv /\ CandidateFilterNode => IInv'
<1> SUFFICES ASSUME IInv, CandidateFilterNode
             PROVE  IInv'
  OBVIOUS
<1> DEFINE V(d) == RuleViolations(graph.draft[d], request.sub, request.tense)
           g == [graph EXCEPT !.survivors = {d \in Draft : V(d) = {}},
                              !.reasons = UNION {V(d) : d \in Draft}]
<1>1. Step("filter", "evaluate", g)
  BY DEF CandidateFilterNode
<1>2. graph \in Graph
  BY <1>1, GraphTyped DEF Step
<1>3. \A d \in Draft : V(d) \subseteq Reason
  BY DEF RuleViolations
<1>4. {d \in Draft : V(d) = {}} \subseteq Draft /\ UNION {V(d) : d \in Draft} \subseteq Reason
  BY <1>3
<1> HIDE DEF V
<1>5. g \in Graph
  BY <1>2, <1>4 DEF Graph
<1> QED
  BY <1>1, <1>5, GraphStep DEF GraphAt

LEMMA EvaluatorStep == IInv /\ EvaluatorNode => IInv'
<1> SUFFICES ASSUME IInv, NEW failed \in SUBSET graph.survivors,
                    Step("evaluate", "edit", [graph EXCEPT !.failed = failed])
             PROVE  IInv'
  BY DEF EvaluatorNode
<1>1. graph \in Graph
  BY GraphTyped DEF Step
<1>2. [graph EXCEPT !.failed = failed] \in Graph
  BY <1>1 DEF Graph
<1> QED
  BY <1>2, GraphStep DEF GraphAt

LEMMA RepairStep == ASSUME NEW d \in Draft PROVE IInv /\ RepairOne(d) => IInv'
<1> DEFINE g(c, accepted) ==
             [graph EXCEPT !.draft = [graph.draft EXCEPT ![d] = c],
                           !.rounds = [graph.rounds EXCEPT ![d] = @ + 1],
                           !.failed = IF accepted THEN @ \ {d} ELSE @]
<1> SUFFICES ASSUME IInv, d \in graph.failed, graph.rounds[d] < MaxRounds,
                    NEW c \in Content, NEW accepted \in BOOLEAN,
                    Step("edit", "edit", g(c, accepted))
             PROVE  IInv'
  BY DEF RepairOne
<1>1. graph \in Graph
  BY GraphTyped DEF Step
<1>2. /\ [graph.draft EXCEPT ![d] = c] \in [Draft -> Content]
      /\ [graph.rounds EXCEPT ![d] = @ + 1] \in [Draft -> 0 .. MaxRounds]
      /\ (IF accepted THEN graph.failed \ {d} ELSE graph.failed) \in SUBSET Draft
  BY <1>1, BoundAssumption DEF Graph
<1>3. g(c, accepted) \in Graph
  BY <1>1, <1>2 DEF Graph
<1> HIDE DEF g
<1> QED
  BY <1>3, GraphStep DEF GraphAt

LEMMA EditorStep == IInv /\ EditorNode => IInv'
<1> SUFFICES ASSUME IInv, EditorNode
             PROVE  IInv'
  OBVIOUS
<1> DEFINE g == [graph EXCEPT !.live = @ \cup (graph.survivors \ graph.failed),
                              !.survivors = IF fast THEN @ ELSE {},
                              !.failed = {}, !.rounds = NoGraph.rounds]
<1>1. Step("edit", "refine", g)
  BY DEF EditorNode
<1>2. graph \in Graph
  BY <1>1, GraphTyped DEF Step
<1>3. NoGraph.rounds \in [Draft -> 0 .. MaxRounds]
  BY GraphType DEF Graph
<1>4. g \in Graph
  BY <1>2, <1>3 DEF Graph
<1> QED
  BY <1>1, <1>4, GraphStep DEF GraphAt

LEMMA RefinerStep == IInv /\ RefinerNode => IInv'
<1> SUFFICES ASSUME IInv, RefinerNode
             PROVE  IInv'
  OBVIOUS
<1>1. graph \in Graph
  BY GraphTyped DEF RefinerNode, Step
<1>2. CASE Step("refine", "accept", graph)
  BY <1>1, <1>2, GraphStep DEF GraphAt
<1>3. ASSUME NEW refined \in SUBSET graph.live, NEW c \in [refined -> Content],
             Step("refine", "accept",
                  [graph EXCEPT !.live = refined,
                                !.draft = [d \in Draft |-> IF d \in refined THEN c[d]
                                                           ELSE NoGraph.draft[d]]])
      PROVE  IInv'
  <2>1. [d \in Draft |-> IF d \in refined THEN c[d] ELSE NoGraph.draft[d]] \in [Draft -> Content]
    BY GraphType DEF Graph
  <2>2. [graph EXCEPT !.live = refined,
                      !.draft = [d \in Draft |-> IF d \in refined THEN c[d]
                                                 ELSE NoGraph.draft[d]]] \in Graph
    BY <1>1, <2>1 DEF Graph
  <2> QED
    BY <1>3, <2>2, GraphStep DEF GraphAt
<1> QED
  BY <1>2, <1>3 DEF RefinerNode

(***************************************************************************)
(* The service and the pipeline.                                           *)
(***************************************************************************)
LEMMA ServiceStep == IInv /\ GenerateQuestions => IInv'
<1> SUFFICES ASSUME IInv, GenerateQuestions
             PROVE  IInv'
  OBVIOUS
<1>1. /\ fast /\ at = "accept" /\ at' = "answered"
      /\ UNCHANGED <<fast, request, memory, store, deaths>>
  BY DEF GenerateQuestions
<1> USE <1>1 DEF memory, store
<1>2. Whole' = Whole /\ Kept' = Kept /\ Unstored' = Unstored
  BY SameDisk DEF Unstored
<1>3. answer' \in SUBSET Draft
  <2>1. graph.live \subseteq Draft /\ graph.survivors \subseteq Draft
    BY GraphTyped DEF Graph
  <2> QED
    BY <2>1 DEF GenerateQuestions, CleanFor
<1>4. QuestionTypeOK'
  BY <1>3 DEF IInv, QuestionTypeOK, Over
<1>5. FilesInv'
  BY <1>2 DEF IInv, FilesInv, Complete, Late
<1>6. BatchInv'
  BY <1>2 DEF IInv, BatchInv, GraphAt, Early, Late
<1>7. CountInv'
  BY <1>2 DEF IInv, CountInv, GraphAt, Late
<1>8. StoreInv'
  BY <1>2 DEF IInv, StoreInv, Late
<1> QED
  BY <1>4, <1>5, <1>6, <1>7, <1>8 DEF IInv

LEMMA ResumeStep == IInv /\ ResumeExistingBatches => IInv'
<1> SUFFICES ASSUME IInv, ResumeExistingBatches
             PROVE  IInv'
  OBVIOUS
<1>1. /\ at = "down" /\ records' = {} /\ zeros' = << >>
      /\ at' \in {"broken", "batch", "finished"}
      /\ UNCHANGED <<fast, request, graph, store, deaths, answer>>
      /\ \/ at' = "broken" /\ UNCHANGED <<batch, counted>>
         \/ /\ batch' = CHOOSE b \in Whole \cup {0} : \A c \in Whole : c <= b
            /\ counted' = Cardinality(Kept)
            /\ at' = "batch" \/ at' = "finished"
  BY DEF ResumeExistingBatches, Whole
<1> USE <1>1 DEF store
<1>2. Whole' = Whole /\ Kept' = Kept /\ Unstored' = Unstored
  BY SameDisk DEF Unstored
<1>3. ~ fast
  BY DEF IInv, BatchInv, GraphAt
<1>4. \/ at' = "broken" /\ batch' = batch
      \/ batch' \in Whole \cup {0} /\ \A c \in Whole : c <= batch'
  <2>1. \E b \in Whole \cup {0} : \A c \in Whole : c <= b
    BY DEF IInv, FilesInv
  <2> QED
    BY <2>1
<1>5. counted' \in 0 .. HardCap
  <2>1. Cardinality(Kept) \in 0 .. HardCap
    BY FS_CardinalityType, BoundAssumption DEF IInv, CountInv
  <2> QED
    BY <2>1 DEF IInv, QuestionTypeOK
<1>6. QuestionTypeOK'
  BY <1>4, <1>5, GraphTyped DEF IInv, QuestionTypeOK, Over, Running, Whole
<1>7. FilesInv'
  BY <1>2 DEF IInv, FilesInv, Complete, Late
<1>8. BatchInv'
  <2>1. \A c \in Whole : c \in Nat /\ c < MaxBatches + deaths
    BY BatchFinite DEF IInv, BatchInv, Whole
  <2>2. deaths \in Nat
    BY BoundAssumption DEF IInv, QuestionTypeOK
  <2>3. 0 < MaxBatches + deaths
    BY <2>2, BoundAssumption
  <2>4. at' # "broken" => /\ batch' \in Nat /\ batch' < MaxBatches + deaths
                          /\ \A c \in Whole : c <= batch'
    BY <1>4, <2>1, <2>3
  <2> QED
    BY <1>2, <1>3, <2>2, <2>4, BoundAssumption DEF BatchInv, GraphAt, Early, Late
<1>9. CountInv'
  <2>1. IsFiniteSet(Kept) /\ Cardinality(Kept) <= HardCap /\ Cardinality(Kept) \in Nat
    BY FS_CardinalityType DEF IInv, CountInv
  <2>2. at' = "batch" => counted' = Cardinality(Kept)
    OBVIOUS
  <2> QED
    BY <1>2, <2>1, <2>2, FS_EmptySet DEF CountInv, GraphAt, Late
<1>10. StoreInv'
  BY <1>2 DEF IInv, StoreInv
<1> QED
  BY <1>6, <1>7, <1>8, <1>9, <1>10 DEF IInv

LEMMA RunBatchStep == IInv /\ RunBatch => IInv'
<1> SUFFICES ASSUME IInv, RunBatch
             PROVE  IInv'
  OBVIOUS
<1> USE DEF RunBatch, store
<1>1. Whole' = Whole /\ Kept' = Kept /\ Unstored' = Unstored
  BY SameDisk DEF Unstored
<1>2. /\ batch \in Nat /\ deaths \in Nat /\ batch < MaxBatches + deaths /\ deaths <= MaxDeaths
      /\ ~ fast
  BY BatchFinite, BoundAssumption DEF IInv, QuestionTypeOK, BatchInv, GraphAt
<1>3. batch' \in Batch /\ batch' <= MaxBatches + deaths
  BY <1>2, BoundAssumption DEF Batch
<1>4. QuestionTypeOK'
  BY <1>3 DEF IInv, QuestionTypeOK, Running, OfflineRequest
<1>5. FilesInv'
  BY <1>1 DEF IInv, FilesInv, Complete, Late
<1>6. \A b \in Whole : b \in Nat /\ b <= batch
  BY BatchFinite DEF IInv, BatchInv, Whole
<1>7. (\A b \in Whole : b <= batch') /\ batch' \notin Whole
  BY <1>2, <1>6
<1>8. BatchInv'
  BY <1>1, <1>2, <1>3, <1>7 DEF BatchInv, GraphAt, Early, Late
<1>9. CountInv'
  BY <1>1 DEF IInv, CountInv, GraphAt, Late
<1>10. StoreInv'
  BY <1>1 DEF IInv, StoreInv, Late
<1> QED
  BY <1>4, <1>5, <1>8, <1>9, <1>10 DEF IInv

\* Writing some of its files leaves a directory a directory.
LEMMA WriteFiles ==
    ASSUME disk \in [Batch -> Directory], batch \in Batch, NEW F \in SUBSET File,
           disk' = [disk EXCEPT ![batch].files = @ \cup F]
    PROVE  \E d \in Directory : /\ disk' = [disk EXCEPT ![batch] = d]
                                /\ d.files = disk[batch].files \cup F
                                /\ d.accepted = disk[batch].accepted
<1> DEFINE d == [files |-> disk[batch].files \cup F, accepted |-> disk[batch].accepted,
                 torn |-> disk[batch].torn]
<1>1. disk[batch] \in Directory
  OBVIOUS
<1>2. d \in Directory
  BY <1>1 DEF Directory
<1>3. PICK fs \in SUBSET File, ac \in SUBSET Record, to \in BOOLEAN :
          disk[batch] = [files |-> fs, accepted |-> ac, torn |-> to]
  BY <1>1 DEF Directory
<1>4. [disk[batch] EXCEPT !.files = @ \cup F] = d
  BY <1>3
<1>5. disk' = [disk EXCEPT ![batch] = [disk[batch] EXCEPT !.files = @ \cup F]]
  OBVIOUS
<1>6. disk' = [disk EXCEPT ![batch] = d]
  BY <1>4, <1>5
<1> QED
  BY <1>2, <1>6

\* No more records than candidates.
LEMMA RecordsOf ==
    ASSUME NEW taken \in SUBSET Draft, batch \in Batch, deaths \in 0 .. MaxDeaths
    PROVE  LET R == [batch : {batch}, try : {deaths}, id : taken]
           IN  /\ R \subseteq Record /\ IsFiniteSet(R) /\ IsFiniteSet(taken)
               /\ Cardinality(R) \in Nat /\ Cardinality(taken) \in Nat
               /\ Cardinality(R) <= Cardinality(taken)
<1> DEFINE R == [batch : {batch}, try : {deaths}, id : taken]
           f == [d \in taken |-> [batch |-> batch, try |-> deaths, id |-> d]]
<1>1. IsFiniteSet(taken)
  BY FS_Subset, BoundAssumption
<1>2. f \in Surjection(taken, R)
  <2>1. f \in [taken -> R]
    OBVIOUS
  <2>2. ASSUME NEW r \in R PROVE \E d \in taken : f[d] = r
    <3>1. r.id \in taken /\ f[r.id] = r
      OBVIOUS
    <3> QED
      BY <3>1
  <2> QED
    BY <2>1, <2>2 DEF Surjection
<1>3. IsFiniteSet(R) /\ Cardinality(R) <= Cardinality(taken)
  BY <1>1, <1>2, FS_Surjection
<1>4. R \subseteq Record
  BY DEF Record
<1> QED
  BY <1>1, <1>3, <1>4, FS_CardinalityType

LEMMA AcceptedStep == IInv /\ AcceptedRecords => IInv'
<1> SUFFICES ASSUME IInv, AcceptedRecords
             PROVE  IInv'
  OBVIOUS
<1>1. /\ ~ fast /\ at = "accept" /\ at' = "write"
      /\ UNCHANGED <<fast, request, batch, zeros, rows, indexed, deaths, answer>>
      /\ disk' = [disk EXCEPT ![batch].files = @ \cup {"drafter-raw", "evaluator-raw"}]
  BY DEF AcceptedRecords
<1> USE <1>1
<1>2. /\ batch \in Batch /\ batch \notin Whole /\ deaths \in 0 .. MaxDeaths
      /\ disk \in [Batch -> Directory] /\ "tokens" \notin disk[batch].files
  BY DEF IInv, QuestionTypeOK, BatchInv, FilesInv, Early, GraphAt, Whole, Complete
<1>3. PICK d \in Directory : /\ disk' = [disk EXCEPT ![batch] = d]
                             /\ d.files = disk[batch].files \cup {"drafter-raw", "evaluator-raw"}
                             /\ d.accepted = disk[batch].accepted
  BY <1>2, WriteFiles DEF File
<1>4. Whole' = Whole /\ Kept' = Kept
  BY <1>2, <1>3, OpenDirectory DEF File
<1>5. Unstored' = Unstored
  BY <1>2, <1>3, <1>4 DEF Unstored
<1>6. PICK taken \in SUBSET Draft :
         /\ Cardinality(taken) <= HardCap - counted
         /\ records' = [batch : {batch}, try : {deaths}, id : taken]
         /\ counted' = counted + Cardinality(taken)
  <2>1. PICK taken \in SUBSET CleanFor(Open, Open) :
           /\ Cardinality(taken) = Least(Cardinality(CleanFor(Open, Open)), HardCap - counted)
           /\ records' = [batch : {batch}, try : {deaths}, id : taken]
           /\ counted' = counted + Cardinality(taken)
    BY DEF AcceptedRecords
  <2>2. CleanFor(Open, Open) \in SUBSET Draft
    BY GraphTyped DEF CleanFor, Graph
  <2>3. Cardinality(CleanFor(Open, Open)) \in Nat
    BY <2>2, FS_Subset, FS_CardinalityType, BoundAssumption
  <2>4. Cardinality(taken) <= HardCap - counted
    BY <2>1, <2>3, BoundAssumption DEF Least, IInv, QuestionTypeOK
  <2> QED
    BY <2>1, <2>2, <2>4
<1>7. /\ records' \subseteq Record /\ IsFiniteSet(records')
      /\ Cardinality(records') \in Nat /\ Cardinality(taken) \in Nat
      /\ Cardinality(records') <= Cardinality(taken)
  BY <1>2, <1>6, RecordsOf
<1>8. graph' \in Graph
  <2> DEFINE faults == UNION {RuleViolations(graph.draft[c], Open, Open) : c \in graph.live}
  <2>1. graph' = [NoGraph EXCEPT !.reasons = graph.reasons \cup faults]
    BY DEF AcceptedRecords
  <2>2. faults \subseteq Reason
    BY DEF RuleViolations
  <2>3. graph.reasons \subseteq Reason
    BY GraphTyped DEF Graph
  <2> HIDE DEF faults
  <2> QED
    BY <2>1, <2>2, <2>3, GraphType DEF Graph
<1>9. counted' \in 0 .. HardCap
  BY <1>6, <1>7, BoundAssumption DEF IInv, QuestionTypeOK
<1>10. QuestionTypeOK'
  BY <1>2, <1>3, <1>7, <1>8, <1>9 DEF IInv, QuestionTypeOK, Running
<1>11. FilesInv'
  <2>1. ASSUME NEW b \in Batch, "tokens" \in disk'[b].files PROVE Complete(b)'
    <3>1. b # batch
      BY <1>2, <1>3, <2>1
    <3> QED
      BY <1>2, <1>3, <2>1, <3>1 DEF IInv, FilesInv, Complete
  <2>2. {"drafter-raw", "evaluator-raw"} \subseteq disk'[batch].files
    BY <1>2, <1>3
  <2> QED
    BY <1>4, <2>1, <2>2 DEF IInv, FilesInv, Late
<1>12. BatchInv'
  BY <1>4 DEF IInv, BatchInv, GraphAt, Early, Late
<1>13. CountInv'
  <2>1. /\ IsFiniteSet(Kept) /\ Cardinality(Kept) \in Nat
        /\ Cardinality(Kept) <= HardCap /\ Cardinality(Kept) <= counted
    BY FS_CardinalityType DEF IInv, CountInv, GraphAt
  <2>2. Cardinality(Kept \cup records') <= Cardinality(Kept) + Cardinality(records')
    <3>1. IsFiniteSet(Kept \cap records')
      BY <1>7, FS_Intersection
    <3>2. Cardinality(Kept \cap records') \in Nat
      BY <3>1, FS_CardinalityType
    <3>3. Cardinality(Kept \cup records')
            = Cardinality(Kept) + Cardinality(records') - Cardinality(Kept \cap records')
      BY <1>7, <2>1, FS_Union
    <3> QED
      BY <1>7, <2>1, <3>2, <3>3
  <2>3. counted \in Nat
    BY BoundAssumption DEF IInv, QuestionTypeOK
  <2>4. Cardinality(Kept \cup records') \in Nat
    BY <1>7, <2>1, FS_Union, FS_CardinalityType
  <2>5. Cardinality(Kept \cup records') <= counted'
    BY <1>6, <1>7, <2>1, <2>2, <2>3, <2>4
  <2> QED
    BY <1>4, <1>7, <2>1, <2>5 DEF CountInv, GraphAt, Late
<1>14. StoreInv'
  <2>1. \A r \in records' : r.try = deaths
    BY <1>2, <1>6
  <2>2. Cardinality(Unstored') <= deaths
    BY <1>5 DEF IInv, StoreInv
  <2>3. /\ rows \subseteq Kept' /\ indexed \subseteq Kept'
        /\ \A r \in indexed : r.try \in Persist => r \in rows
    BY <1>4 DEF IInv, StoreInv
  <2> QED
    BY <2>1, <2>2, <2>3 DEF StoreInv
<1> QED
  BY <1>10, <1>11, <1>12, <1>13, <1>14 DEF IInv

LEMMA WriteAcceptedStep == IInv /\ WriteAccepted => IInv'
<1> SUFFICES ASSUME IInv, WriteAccepted
             PROVE  IInv'
  OBVIOUS
<1>1. /\ at = "write" /\ at' = "tokens"
      /\ UNCHANGED <<fast, request, graph, batch, counted, zeros, records, rows, indexed,
                     deaths, answer>>
      /\ disk' = [disk EXCEPT ![batch] = [files |-> @.files \cup {"editor-raw", "accepted"},
                                          accepted |-> records, torn |-> @.torn]]
  BY DEF WriteAccepted, memory
<1> USE <1>1
<1>2. ~ fast
  BY DEF IInv, BatchInv, GraphAt
<1>3. /\ batch \in Batch /\ batch \notin Whole /\ records \subseteq Record
      /\ disk \in [Batch -> Directory] /\ "tokens" \notin disk[batch].files
      /\ {"drafter-raw", "evaluator-raw"} \subseteq disk[batch].files
  BY <1>2 DEF IInv, QuestionTypeOK, BatchInv, FilesInv, Early, Whole
<1> DEFINE d == [files |-> disk[batch].files \cup {"editor-raw", "accepted"},
                 accepted |-> records, torn |-> disk[batch].torn]
<1>4. d \in Directory
  BY <1>3 DEF Directory, File
<1>5. disk' = [disk EXCEPT ![batch] = d]
  BY <1>3
<1>6. /\ d.files # File /\ d.accepted = records /\ Raw \subseteq d.files /\ "tokens" \notin d.files
  BY <1>3 DEF File, Raw
<1> HIDE DEF d
<1>7. Whole' = Whole /\ Kept' = Kept
  BY <1>3, <1>4, <1>5, <1>6, OpenDirectory
<1>8. Unstored' = Unstored
  <2>1. \A b \in Whole : disk'[b] = disk[b]
    BY <1>3, <1>5 DEF Whole
  <2> QED
    BY <1>7, <2>1 DEF Unstored
<1>9. QuestionTypeOK'
  BY <1>3, <1>4, <1>5 DEF IInv, QuestionTypeOK, Running
<1>10. FilesInv'
  <2>1. ASSUME NEW b \in Batch, "tokens" \in disk'[b].files PROVE Complete(b)'
    <3>1. b # batch
      BY <1>3, <1>5, <1>6, <2>1
    <3> QED
      BY <1>3, <1>5, <2>1, <3>1 DEF IInv, FilesInv, Complete
  <2>2. disk'[batch] = d
    BY <1>3, <1>5
  <2> QED
    BY <1>6, <1>7, <2>1, <2>2 DEF IInv, FilesInv, Late
<1>11. BatchInv'
  BY <1>7 DEF IInv, BatchInv, GraphAt, Early, Late
<1>12. CountInv'
  BY <1>7 DEF IInv, CountInv, GraphAt, Late
<1>13. StoreInv'
  BY <1>7, <1>8 DEF IInv, StoreInv
<1> QED
  BY <1>9, <1>10, <1>11, <1>12, <1>13 DEF IInv

LEMMA WriteTokensStep == IInv /\ WriteTokens => IInv'
<1> SUFFICES ASSUME IInv, WriteTokens
             PROVE  IInv'
  OBVIOUS
<1>1. /\ at = "tokens" /\ at' = "store"
      /\ UNCHANGED <<fast, request, graph, batch, counted, zeros, records, rows, indexed,
                     deaths, answer>>
      /\ disk' = [disk EXCEPT ![batch].files = @ \cup {"tokens"}]
  BY DEF WriteTokens, memory
<1> USE <1>1
<1>2. ~ fast
  BY DEF IInv, BatchInv, GraphAt
<1>3. /\ batch \in Batch /\ batch \notin Whole
      /\ disk \in [Batch -> Directory] /\ Raw \subseteq disk[batch].files
      /\ disk[batch].accepted = records
  BY <1>2 DEF IInv, QuestionTypeOK, BatchInv, FilesInv, Early
<1>4. PICK d \in Directory : /\ disk' = [disk EXCEPT ![batch] = d]
                             /\ d.files = disk[batch].files \cup {"tokens"}
                             /\ d.accepted = disk[batch].accepted
  BY <1>3, WriteFiles DEF File
<1>5. d.files = File
  BY <1>3, <1>4 DEF Raw, File, Directory
<1>6. Whole' = Whole \cup {batch} /\ Kept' = Kept \cup records
  BY <1>3, <1>4, <1>5, ClosedDirectory
<1>7. QuestionTypeOK'
  BY <1>3, <1>4 DEF IInv, QuestionTypeOK, Running
<1>8. batch \in Nat /\ (\A b \in Whole : b <= batch)
  BY <1>3, BatchFinite DEF IInv, BatchInv
<1>9. FilesInv'
  <2>1. ASSUME NEW b \in Batch, "tokens" \in disk'[b].files PROVE Complete(b)'
    <3>1. CASE b = batch
      BY <1>3, <1>4, <1>5, <3>1 DEF Complete
    <3>2. CASE b # batch
      BY <1>3, <1>4, <2>1, <3>2 DEF IInv, FilesInv, Complete
    <3> QED
      BY <3>1, <3>2
  <2>2. disk'[batch] = d
    BY <1>3, <1>4
  <2>3. batch \in Whole' /\ \A b \in Whole' : b <= batch
    BY <1>6, <1>8
  <2> QED
    BY <1>3, <1>4, <2>1, <2>2, <2>3 DEF FilesInv, Late
<1>10. BatchInv'
  BY <1>2, <1>3, <1>6, <1>8 DEF IInv, BatchInv, GraphAt, Early, Late
<1>11. CountInv'
  <2>1. /\ IsFiniteSet(Kept) /\ IsFiniteSet(records)
        /\ Cardinality(Kept \cup records) <= counted
    BY DEF IInv, CountInv
  <2>2. IsFiniteSet(Kept \cup records) /\ Cardinality(Kept \cup records) \in Nat
    BY <2>1, FS_Union, FS_CardinalityType
  <2>3. counted \in Nat /\ counted <= HardCap
    BY BoundAssumption DEF IInv, QuestionTypeOK
  <2> QED
    BY <1>6, <2>1, <2>2, <2>3, BoundAssumption DEF CountInv, GraphAt, Late
<1>12. StoreInv'
  <2>1. Unstored' \ {batch} \subseteq Unstored
    BY <1>3, <1>4, <1>6 DEF Unstored, Whole
  <2>2. Cardinality(Unstored' \ {batch}) <= Cardinality(Unstored)
    BY <2>1, UnstoredFinite, FS_Subset
  <2>3. Cardinality(Unstored) <= deaths /\ deaths \in Nat
    BY BoundAssumption DEF IInv, StoreInv, QuestionTypeOK
  <2>4. IsFiniteSet(Unstored' \ {batch})
    BY <2>1, UnstoredFinite, FS_Subset
  <2>5. Cardinality(Unstored' \ {batch}) <= deaths
    BY <2>2, <2>3, <2>4, UnstoredFinite, FS_CardinalityType
  <2> QED
    BY <1>6, <2>5 DEF IInv, StoreInv
<1> QED
  BY <1>7, <1>9, <1>10, <1>11, <1>12 DEF IInv

LEMMA PersistStep == IInv /\ PersistBatch => IInv'
<1> SUFFICES ASSUME IInv, PersistBatch
             PROVE  IInv'
  OBVIOUS
<1>1. /\ at = "store" /\ at' = "index"
      /\ rows' = IF deaths \in Persist THEN rows \cup records ELSE rows
      /\ UNCHANGED <<fast, request, graph, batch, counted, zeros, records, ended, disk, indexed,
                     deaths, answer>>
  BY DEF PersistBatch, memory
<1> USE <1>1
<1>2. Whole' = Whole /\ Kept' = Kept
  BY SameDisk
<1>3. batch \in Whole /\ disk[batch].accepted = records /\ records \subseteq Record
  BY DEF IInv, QuestionTypeOK, FilesInv, Late
<1>4. QuestionTypeOK'
  BY <1>3 DEF IInv, QuestionTypeOK, Running
<1>5. FilesInv'
  BY <1>2 DEF IInv, FilesInv, Complete, Late
<1>6. BatchInv'
  BY <1>2 DEF IInv, BatchInv, GraphAt, Early, Late
<1>7. CountInv'
  BY <1>2 DEF IInv, CountInv, GraphAt, Late
<1>8. StoreInv'
  <2>1. records \subseteq Kept
    BY <1>3 DEF Kept, Whole
  <2>2. Unstored' \subseteq Unstored \ {batch}
    <3>1. \A r \in records : r.try = deaths
      BY DEF IInv, StoreInv, Late
    <3>2. batch \notin Unstored'
      BY <1>3, <3>1 DEF Unstored
    <3> QED
      BY <1>2, <3>2 DEF Unstored
  <2>3. IsFiniteSet(Unstored \ {batch})
    BY UnstoredFinite, FS_Subset
  <2>4. /\ IsFiniteSet(Unstored') /\ Cardinality(Unstored') <= Cardinality(Unstored \ {batch})
    BY <2>2, <2>3, FS_Subset
  <2>5. Cardinality(Unstored \ {batch}) <= deaths /\ deaths \in Nat
    BY BoundAssumption DEF IInv, StoreInv, QuestionTypeOK
  <2>6. Cardinality(Unstored') <= deaths
    BY <2>3, <2>4, <2>5, FS_CardinalityType
  <2> QED
    BY <1>2, <2>1, <2>6 DEF IInv, StoreInv, Late
<1> QED
  BY <1>4, <1>5, <1>6, <1>7, <1>8 DEF IInv

LEMMA IndexStep == IInv /\ IndexQuestion => IInv'
<1> SUFFICES ASSUME IInv, NEW r \in records \ indexed, at = "index",
                    indexed' = indexed \cup {r},
                    UNCHANGED <<fast, request, at, graph, memory, disk, rows, deaths, answer>>
             PROVE  IInv'
  BY DEF IndexQuestion
<1> USE DEF memory
<1>1. Whole' = Whole /\ Kept' = Kept /\ Unstored' = Unstored
  BY SameDisk DEF Unstored
<1>2. QuestionTypeOK'
  BY DEF IInv, QuestionTypeOK
<1>3. FilesInv'
  BY <1>1 DEF IInv, FilesInv, Complete, Late
<1>4. BatchInv'
  BY <1>1 DEF IInv, BatchInv, GraphAt, Early, Late
<1>5. CountInv'
  BY <1>1 DEF IInv, CountInv, GraphAt, Late
<1>6. StoreInv'
  <2>1. records \subseteq Kept
    BY DEF IInv, FilesInv, Late, Whole, Kept
  <2>2. r.try \in Persist => r \in rows
    BY DEF IInv, StoreInv, Late
  <2> QED
    BY <1>1, <2>1, <2>2 DEF IInv, StoreInv
<1> QED
  BY <1>2, <1>3, <1>4, <1>5, <1>6 DEF IInv

\* The last three batches at most are remembered.
LEMMA NextZerosType == IInv /\ at = "index" => NextZeros \in Seq(SUBSET Reason)
<1> SUFFICES ASSUME IInv, at = "index", records = {}
             PROVE  NextZeros \in Seq(SUBSET Reason)
  BY DEF NextZeros
<1>1. zeros \in Seq(SUBSET Reason) /\ Len(zeros) \in Nat
  BY DEF IInv, QuestionTypeOK
<1> DEFINE first == IF Len(zeros) > 2 THEN Len(zeros) - 1 ELSE 1
           last == SubSeq(zeros, first, Len(zeros))
<1>2. first \in Nat /\ first >= 1
  BY <1>1
<1>3. last \in Seq(SUBSET Reason)
  <2>1. \A i \in first .. Len(zeros) : zeros[i] \in SUBSET Reason
    BY <1>1, <1>2
  <2> HIDE DEF first
  <2> QED
    BY <1>1, <1>2, <2>1, SubSeqProperties
<1>4. graph.reasons \in SUBSET Reason
  BY GraphTyped DEF Graph
<1>5. Append(last, graph.reasons) \in Seq(SUBSET Reason)
  <2> HIDE DEF last
  <2> QED
    BY <1>3, <1>4
<1> QED
  BY <1>5 DEF NextZeros

LEMMA BatchEndsStep == IInv /\ BatchEnds => IInv'
<1> SUFFICES ASSUME IInv, BatchEnds
             PROVE  IInv'
  OBVIOUS
<1>1. /\ at = "index" /\ at' = Verdict /\ zeros' = NextZeros
      /\ graph' = NoGraph /\ records' = {}
      /\ disk' = [disk EXCEPT ![batch].files = @ \cup {"tokens"}]
      /\ UNCHANGED <<fast, request, batch, counted, rows, indexed, deaths, answer>>
  BY DEF BatchEnds
<1> USE <1>1
<1>2. at' \in {"shared", "exhausted", "batch", "finished"}
  BY DEF Verdict
<1>3. at' = "batch" => ~ (batch >= MaxBatches /\ counted < HardCap) /\ counted < HardCap
  BY DEF Verdict
<1>4. /\ batch \in Whole /\ batch \in Batch /\ batch \in Nat /\ disk \in [Batch -> Directory]
      /\ disk[batch].files = File
  BY BatchFinite DEF IInv, QuestionTypeOK, FilesInv, Late, Whole, Complete
<1>5. PICK d \in Directory : /\ disk' = [disk EXCEPT ![batch] = d]
                             /\ d.files = File /\ d.accepted = disk[batch].accepted
  <2>1. disk[batch].files \cup {"tokens"} = File
    BY <1>4 DEF File
  <2> QED
    BY <1>4, <2>1, WriteFiles DEF File
<1>6. Whole' = Whole /\ Kept' = Kept
  <2>1. disk[batch].accepted \subseteq Kept
    BY <1>4 DEF Kept, Whole
  <2>2. Whole' = Whole \cup {batch} /\ Kept' = Kept \cup d.accepted
    BY <1>4, <1>5, ClosedDirectory
  <2> QED
    BY <1>4, <1>5, <2>1, <2>2
<1>7. Unstored' = Unstored
  BY <1>4, <1>5, <1>6 DEF Unstored, Whole
<1>8. zeros' \in Seq(SUBSET Reason)
  BY NextZerosType
<1>9. QuestionTypeOK'
  BY <1>2, <1>4, <1>5, <1>8, GraphType DEF IInv, QuestionTypeOK, Running, Over
<1>10. FilesInv'
  <2>1. ASSUME NEW b \in Batch, "tokens" \in disk'[b].files PROVE Complete(b)'
    <3>1. CASE b = batch
      BY <1>4, <1>5, <3>1 DEF Complete
    <3>2. CASE b # batch
      BY <1>4, <1>5, <2>1, <3>2 DEF IInv, FilesInv, Complete
    <3> QED
      BY <3>1, <3>2
  <2> QED
    BY <1>2, <1>6, <2>1 DEF IInv, FilesInv, Late
<1>11. BatchInv'
  <2>1. deaths \in Nat /\ counted \in Nat
    BY BoundAssumption DEF IInv, QuestionTypeOK
  <2>2. at' = "batch" => batch < MaxBatches + deaths
    BY <1>3, <1>4, <2>1, BoundAssumption
  <2> QED
    BY <1>2, <1>6, <2>2 DEF IInv, BatchInv, GraphAt, Early, Late
<1>12. CountInv'
  BY <1>2, <1>6, FS_EmptySet DEF IInv, CountInv, GraphAt, Late
<1>13. StoreInv'
  BY <1>2, <1>6, <1>7 DEF IInv, StoreInv
<1> QED
  BY <1>9, <1>10, <1>11, <1>12, <1>13 DEF IInv

\* What a death writes: nothing, or the last of the files, cut off.
LEMMA DeathOnDisk ==
    IInv /\ Die => /\ disk' \in [Batch -> Directory]
                   /\ \A b \in Batch : "tokens" \in disk'[b].files => Complete(b)'
                   /\ \/ Whole' = Whole /\ Kept' = Kept /\ Unstored' = Unstored
                      \/ /\ at = "tokens" /\ batch \in Batch
                         /\ Whole' = Whole \cup {batch} /\ Kept' = Kept \cup records
                         /\ Unstored' \subseteq Unstored \cup {batch}
<1> SUFFICES ASSUME IInv, Die
             PROVE  /\ disk' \in [Batch -> Directory]
                    /\ \A b \in Batch : "tokens" \in disk'[b].files => Complete(b)'
                    /\ \/ Whole' = Whole /\ Kept' = Kept /\ Unstored' = Unstored
                       \/ /\ at = "tokens" /\ batch \in Batch
                          /\ Whole' = Whole \cup {batch} /\ Kept' = Kept \cup records
                          /\ Unstored' \subseteq Unstored \cup {batch}
  OBVIOUS
<1>1. rows' = rows /\ disk \in [Batch -> Directory]
  BY DEF Die, IInv, QuestionTypeOK
<1>2. CASE disk' = disk
  <2>1. Whole' = Whole /\ Kept' = Kept /\ Unstored' = Unstored
    BY <1>1, <1>2, SameDisk DEF Unstored
  <2> QED
    BY <1>1, <1>2, <2>1 DEF IInv, FilesInv, Complete
<1>3. CASE /\ at = "tokens" \/ at = "index"
           /\ disk' = [disk EXCEPT ![batch] = [files |-> @.files \cup {"tokens"},
                                               accepted |-> @.accepted, torn |-> TRUE]]
  <2> DEFINE d == [files |-> disk[batch].files \cup {"tokens"},
                   accepted |-> disk[batch].accepted, torn |-> TRUE]
  <2>1. /\ batch \in Batch /\ Raw \subseteq disk[batch].files /\ disk[batch].accepted = records
        /\ at = "index" => batch \in Whole
        /\ at = "tokens" => batch \notin Whole
    BY <1>3 DEF IInv, FilesInv, BatchInv, Early, Late, GraphAt, Whole
  <2>2. d \in Directory
    BY <1>1, <2>1 DEF Directory, File
  <2>3. disk' = [disk EXCEPT ![batch] = d]
    BY <1>1, <1>3, <2>1
  <2>4. d.files = File /\ d.accepted = records
    BY <1>1, <2>1 DEF Raw, File, Directory
  <2> HIDE DEF d
  <2>5. Whole' = Whole \cup {batch} /\ Kept' = Kept \cup records
    BY <1>1, <2>1, <2>2, <2>3, <2>4, ClosedDirectory
  <2>6. disk' \in [Batch -> Directory]
    BY <1>1, <2>2, <2>3
  <2>7. ASSUME NEW b \in Batch, "tokens" \in disk'[b].files PROVE Complete(b)'
    <3>1. CASE b = batch
      BY <1>1, <2>1, <2>3, <2>4, <3>1 DEF Complete
    <3>2. CASE b # batch
      BY <1>1, <2>1, <2>3, <2>7, <3>2 DEF IInv, FilesInv, Complete
    <3> QED
      BY <3>1, <3>2
  <2>8. CASE at = "index"
    <3>1. batch \in Whole /\ records \subseteq Kept
      BY <2>1, <2>8 DEF Kept, Whole
    <3>2. Whole' = Whole /\ Kept' = Kept
      BY <2>5, <3>1
    <3>3. \A b \in Whole : disk'[b].accepted = disk[b].accepted
      BY <1>1, <2>1, <2>3, <2>4 DEF Whole
    <3>4. Unstored' = Unstored
      BY <1>1, <3>2, <3>3 DEF Unstored
    <3> QED
      BY <2>6, <2>7, <3>2, <3>4
  <2>9. CASE at = "tokens"
    <3>1. \A b \in Whole : disk'[b].accepted = disk[b].accepted
      BY <1>1, <2>1, <2>3, <2>4 DEF Whole
    <3>2. Unstored' \subseteq Unstored \cup {batch}
      BY <1>1, <2>5, <3>1 DEF Unstored
    <3> QED
      BY <2>1, <2>5, <2>6, <2>7, <2>9, <3>2
  <2> QED
    BY <1>3, <2>8, <2>9
<1> QED
  BY <1>2, <1>3 DEF Die

\* One batch more, at most, is counted and not stored.
LEMMA OneMoreUnstored ==
    ASSUME Cardinality(Unstored \ {batch}) <= deaths \/ Cardinality(Unstored) <= deaths,
           deaths \in Nat, deaths' = deaths + 1, Unstored' \subseteq Unstored \cup {batch}
    PROVE  Cardinality(Unstored') <= deaths'
<1>1. IsFiniteSet(Unstored) /\ IsFiniteSet(Unstored \ {batch}) /\ IsFiniteSet(Unstored \cup {batch})
  BY UnstoredFinite, FS_Subset, FS_AddElement
<1>2. Cardinality(Unstored \cup {batch}) <= deaths + 1
  <2>1. CASE Cardinality(Unstored) <= deaths
    <3>1. \/ Cardinality(Unstored \cup {batch}) = Cardinality(Unstored)
          \/ Cardinality(Unstored \cup {batch}) = Cardinality(Unstored) + 1
      BY <1>1, FS_AddElement
    <3>2. Cardinality(Unstored) \in Nat
      BY UnstoredFinite
    <3> QED
      BY <2>1, <3>1, <3>2
  <2>2. CASE Cardinality(Unstored \ {batch}) <= deaths
    <3>1. Unstored \cup {batch} = (Unstored \ {batch}) \cup {batch}
      OBVIOUS
    <3>2. Cardinality((Unstored \ {batch}) \cup {batch}) = Cardinality(Unstored \ {batch}) + 1
      BY <1>1, FS_AddElement
    <3>3. Cardinality(Unstored \ {batch}) \in Nat
      BY <1>1, FS_CardinalityType
    <3>4. Cardinality((Unstored \ {batch}) \cup {batch}) <= deaths + 1
      BY <2>2, <3>2, <3>3
    <3> QED
      BY <3>1, <3>4
  <2> QED
    BY <2>1, <2>2
<1>3. IsFiniteSet(Unstored') /\ Cardinality(Unstored') <= Cardinality(Unstored \cup {batch})
  BY <1>1, FS_Subset
<1> QED
  BY <1>1, <1>2, <1>3, FS_CardinalityType

LEMMA DieStep == IInv /\ Die => IInv'
<1> SUFFICES ASSUME IInv, Die
             PROVE  IInv'
  OBVIOUS
<1>1. /\ at \in Running /\ deaths < MaxDeaths /\ deaths' = deaths + 1
      /\ at' = IF fast THEN "failed" ELSE "down"
      /\ graph' = NoGraph /\ batch' = 0 /\ counted' = 0
      /\ zeros' = << >> /\ records' = {}
      /\ UNCHANGED <<fast, request, rows, indexed, answer>>
  BY DEF Die
<1> USE <1>1
<1>2. deaths \in Nat /\ at \notin {"down", "broken", "answered", "failed"}
  BY BoundAssumption DEF IInv, QuestionTypeOK, Running
<1>3. /\ fast => at # "tokens"
      /\ \A b \in Whole : b <= batch
      /\ batch <= MaxBatches + deaths
  BY <1>2 DEF IInv, BatchInv, GraphAt
<1>4. QuestionTypeOK'
  <2>1. 0 \in 0 .. HardCap /\ deaths + 1 \in 0 .. MaxDeaths
    BY <1>2, BoundAssumption
  <2> QED
    BY <2>1, DeathOnDisk, GraphType DEF IInv, QuestionTypeOK, Over
<1>5. \A b \in Whole' : b \in Nat /\ b <= batch
  BY <1>3, DeathOnDisk, BatchFinite DEF Whole
<1>6. FilesInv'
  <2>1. \E m \in Whole' \cup {0} : \A b \in Whole' : b <= m
    <3>1. CASE Whole' = Whole
      BY <3>1 DEF IInv, FilesInv
    <3>2. CASE Whole' = Whole \cup {batch}
      BY <1>5, <3>2
    <3> QED
      BY <3>1, <3>2, DeathOnDisk
  <2> QED
    BY <2>1, DeathOnDisk DEF FilesInv, Late
<1>7. BatchInv'
  <2>1. batch \in Nat
    BY BatchFinite DEF IInv, QuestionTypeOK
  <2>2. \A b \in Whole' : b < MaxBatches + deaths'
    BY <1>2, <1>3, <1>5, <2>1, BoundAssumption
  <2>3. fast => Whole' = {}
    BY <1>3, DeathOnDisk DEF IInv, BatchInv
  <2>4. 0 <= MaxBatches + deaths'
    BY <1>2, BoundAssumption
  <2> QED
    BY <2>2, <2>3, <2>4 DEF BatchInv, GraphAt, Early, Late
<1>8. CountInv'
  <2>1. IsFiniteSet(Kept') /\ Cardinality(Kept') <= HardCap
    <3>1. CASE Kept' = Kept
      BY <3>1 DEF IInv, CountInv
    <3>2. CASE at = "tokens" /\ Kept' = Kept \cup records
      <4>1. IsFiniteSet(Kept') /\ Cardinality(Kept') <= counted
        BY <3>2, FS_Union DEF IInv, CountInv
      <4>2. counted \in Nat /\ counted <= HardCap /\ Cardinality(Kept') \in Nat
        BY <4>1, FS_CardinalityType, BoundAssumption DEF IInv, QuestionTypeOK
      <4> QED
        BY <4>1, <4>2, BoundAssumption
    <3> QED
      BY <3>1, <3>2, DeathOnDisk
  <2> QED
    BY <2>1, FS_EmptySet DEF CountInv, GraphAt, Late
<1>9. StoreInv'
  <2>1. Cardinality(Unstored') <= deaths'
    <3>1. Unstored' \subseteq Unstored \cup {batch}
      BY DeathOnDisk
    <3> QED
      BY <1>2, <3>1, OneMoreUnstored DEF IInv, StoreInv
  <2>2. rows \subseteq Kept'
    BY DeathOnDisk DEF IInv, StoreInv
  <2>3. indexed \subseteq Kept'
    BY DeathOnDisk DEF IInv, StoreInv
  <2> QED
    BY <2>1, <2>2, <2>3 DEF IInv, StoreInv, Late
<1> QED
  BY <1>4, <1>6, <1>7, <1>8, <1>9 DEF IInv

LEMMA RunAgainStep == IInv /\ RunAgain => IInv'
<1> SUFFICES ASSUME IInv, RunAgain
             PROVE  IInv'
  OBVIOUS
<1> USE DEF RunAgain, memory, store
<1>1. Whole' = Whole /\ Kept' = Kept /\ Unstored' = Unstored
  BY SameDisk DEF Unstored
<1>2. deaths \in Nat /\ ~ fast
  BY BoundAssumption DEF IInv, QuestionTypeOK, BatchInv, GraphAt
<1>3. QuestionTypeOK'
  BY <1>2, BoundAssumption DEF IInv, QuestionTypeOK
<1>4. FilesInv'
  BY <1>1 DEF IInv, FilesInv, Complete, Late
<1>5. BatchInv'
  <2>1. \A b \in Whole : b \in Nat /\ b <= batch
    BY BatchFinite DEF IInv, BatchInv, Whole
  <2>2. batch \in Nat /\ batch <= MaxBatches + deaths
    BY BatchFinite DEF IInv, QuestionTypeOK, BatchInv
  <2>3. \A b \in Whole : b < MaxBatches + deaths'
    BY <1>2, <2>1, <2>2, BoundAssumption
  <2> QED
    BY <1>1, <1>2, <2>3 DEF BatchInv, GraphAt, Early, Late
<1>6. CountInv'
  BY <1>1 DEF IInv, CountInv, GraphAt, Late
<1>7. StoreInv'
  <2>1. Cardinality(Unstored) <= deaths'
    BY <1>2, UnstoredFinite DEF IInv, StoreInv
  <2> QED
    BY <1>1, <2>1 DEF IInv, StoreInv, Late
<1> QED
  BY <1>3, <1>4, <1>5, <1>6, <1>7 DEF IInv

LEMMA StutterStep == IInv /\ UNCHANGED questionVars => IInv'
<1> SUFFICES ASSUME IInv, UNCHANGED questionVars
             PROVE  IInv'
  OBVIOUS
<1> USE DEF questionVars, memory, store
<1>1. Whole' = Whole /\ Kept' = Kept /\ Unstored' = Unstored
  BY SameDisk DEF Unstored
<1>2. QuestionTypeOK' /\ FilesInv'
  BY <1>1 DEF IInv, QuestionTypeOK, FilesInv, Complete
<1>3. BatchInv' /\ CountInv' /\ StoreInv'
  BY <1>1 DEF IInv, BatchInv, CountInv, StoreInv
<1> QED
  BY <1>2, <1>3 DEF IInv

(***************************************************************************)
(* The theorems.                                                           *)
(***************************************************************************)
LEMMA IInvHolds == QuestionSpec => []IInv
<1>1. IInv /\ [QuestionNext]_questionVars => IInv'
  BY DrafterStep, FilterStep, EvaluatorStep, RepairStep, EditorStep, RefinerStep, ServiceStep,
     ResumeStep, RunBatchStep, AcceptedStep, WriteAcceptedStep, WriteTokensStep, PersistStep,
     IndexStep, BatchEndsStep, DieStep, RunAgainStep, StutterStep
     DEF QuestionNext, QuestionStep, GraphNode
<1> QED
  BY <1>1, InitIInv, PTL DEF QuestionSpec

\* Whatever the pipeline and the service do, and whenever they die, their state
\* is of its type; the count never passes the cap.
THEOREM QuestionTypeCorrect == QuestionSpec => []QuestionTypeOK
<1>1. IInv => QuestionTypeOK
  BY DEF IInv
<1> QED
  BY <1>1, IInvHolds, PTL

\* What is found or stored was accepted by a whole batch, the cap holds, what a
\* start that persists made findable is stored, and a death leaves at most one of
\* its batches counted and not stored.
THEOREM StoresStayInAgreement == QuestionSpec => []StoresAgree
<1>1. ASSUME IInv PROVE StoresAgree
  <2> DEFINE Persisting(b) == \A r \in disk[b].accepted : r.try \in Persist
             B == {b \in Batch \ {batch} :
                     Complete(b) /\ Persisting(b) /\ ~ disk[b].accepted \subseteq rows}
  <2>1. B = Unstored \ {batch}
    BY DEF Unstored, Whole
  <2> HIDE DEF B
  <2>2. Cardinality(Unstored \ {batch}) <= Cardinality(Unstored)
    BY UnstoredFinite, FS_Subset
  <2>3. deaths \in Nat /\ Cardinality(Unstored \ {batch}) \in Nat
    BY <1>1, UnstoredFinite, FS_Subset, FS_CardinalityType, BoundAssumption DEF IInv, QuestionTypeOK
  <2>4. Cardinality(B) <= deaths
    BY <1>1, <2>1, <2>2, <2>3, UnstoredFinite DEF IInv, StoreInv
  <2>5. /\ {r \in indexed : r.try \in Persist} \subseteq rows
        /\ indexed \cup rows \subseteq Kept /\ Cardinality(Kept) <= HardCap
    BY <1>1 DEF IInv, StoreInv, CountInv
  <2> QED
    BY <2>4, <2>5 DEF StoresAgree, B
<1>2. IInv => StoresAgree
  BY <1>1
<1> QED
  BY <1>2, IInvHolds, PTL

-----------------------------------------------------------------------------
(***************************************************************************)
(* When the pipeline stops, and what the service answers.                  *)
(***************************************************************************)
\* The window holds the reasons of the latest batches that gave nothing, three
\* at most; the batch before them, if there are fewer, gave something.
WindowInv ==
    LET n == Len(ended)  k == Len(zeros) IN
    /\ ended \in Seq([gave : BOOLEAN, reasons : SUBSET Reason])
    /\ k <= 3 /\ k <= n
    /\ \A i \in 1 .. k : ~ ended[n - k + i].gave /\ ended[n - k + i].reasons = zeros[i]
    /\ k < 3 /\ k < n => ended[n - k].gave

StopInv == at \in {"batch", "shared", "exhausted", "finished"} => (at = "shared" <=> SharedReason(zeros))

\* The drafts that break no rule of the request.
Fitting == {d \in Draft : RuleViolations(graph.draft[d], request.sub, request.tense) = {}}

\* In fast mode every fitting draft, and nothing else, lives to the end: a draft
\* need not be salvaged.
ServiceInv ==
    /\ fast /\ at \in {"draft", "filter", "evaluate", "edit"} => graph.live = {}
    /\ fast /\ at = "edit" => graph.failed = {}
    /\ fast /\ at \in {"evaluate", "edit", "refine", "accept"} => graph.survivors = Fitting
    /\ fast /\ at \in {"refine", "accept"} => graph.live = Fitting
    /\ AnswersTheRequest

EndInv == WindowInv /\ StopInv /\ ServiceInv

\* The entry of a batch that ends.
LEMMA EndedType ==
    ASSUME IInv, at = "index"
    PROVE  [gave |-> records # {}, reasons |-> graph.reasons] \in [gave : BOOLEAN, reasons : SUBSET Reason]
<1>1. graph.reasons \in SUBSET Reason
  BY GraphTyped DEF Graph
<1>2. (records # {}) \in BOOLEAN
  BY Zenon
<1> QED
  BY <1>1, <1>2

\* The latest two reasons at most, and those of this batch.
LEMMA ShiftWindow ==
    ASSUME IInv, at = "index", records = {}, NEW k \in 0 .. 3, k = Len(zeros),
           NEW m \in 0 .. 2, (k = 3 /\ m = 2) \/ (k < 3 /\ m = k)
    PROVE  /\ Len(NextZeros) = m + 1
           /\ NextZeros[m + 1] = graph.reasons
           /\ \A i \in 1 .. m : NextZeros[i] = zeros[k - m + i]
<1> DEFINE first == IF k > 2 THEN k - 1 ELSE 1
           last == SubSeq(zeros, first, k)
<1>1. zeros \in Seq(SUBSET Reason) /\ k \in Nat
  BY DEF IInv, QuestionTypeOK
<1>2. first \in 1 .. k + 1 /\ m \in Nat /\ k - first + 1 = m
  BY <1>1
<1>3. /\ last \in Seq(SUBSET Reason) /\ Len(last) = m
      /\ \A i \in 1 .. m : last[i] = zeros[k - m + i]
  <2>1. \A i \in first .. k : zeros[i] \in SUBSET Reason
    BY <1>1, <1>2
  <2>2. /\ last \in Seq(SUBSET Reason)
        /\ Len(last) = IF first <= k THEN k - first + 1 ELSE 0
        /\ \A i \in 1 .. k - first + 1 : last[i] = zeros[first + i - 1]
    <3> HIDE DEF first
    <3> QED
      BY <1>1, <1>2, <2>1, SubSeqProperties
  <2> HIDE DEF last, first
  <2>3. Len(last) = m
    BY <1>1, <1>2, <2>2
  <2>4. first = k - m + 1
    BY <1>1, <1>2
  <2>5. \A i \in 1 .. m : last[i] = zeros[k - m + i]
    <3>1. \A i \in 1 .. m : first + i - 1 = k - m + i
      BY <2>4
    <3> QED
      BY <1>2, <2>2, <3>1
  <2> QED
    BY <2>2, <2>3, <2>5
<1>4. NextZeros = Append(last, graph.reasons)
  BY DEF NextZeros
<1> HIDE DEF last, first
<1>5. graph.reasons \in SUBSET Reason
  BY GraphTyped DEF Graph
<1> QED
  BY <1>3, <1>4, <1>5, AppendProperties

LEMMA WindowStep ==
    ASSUME IInv, WindowInv, [QuestionNext]_questionVars
    PROVE  WindowInv'
<1>1. CASE ended' = ended /\ zeros' = zeros
  BY <1>1 DEF WindowInv
<1>2. CASE ended' = << >> /\ zeros' = << >>
  BY <1>2 DEF WindowInv
<1>3. CASE BatchEnds
  <2>0. PICK n \in Nat, k \in 0 .. 3 : n = Len(ended) /\ k = Len(zeros) /\ k <= n
    <3>1. Len(ended) \in Nat /\ Len(zeros) \in Nat
      BY DEF WindowInv, IInv, QuestionTypeOK
    <3>2. Len(zeros) <= 3 /\ Len(zeros) <= Len(ended)
      BY DEF WindowInv
    <3>3. PICK n \in Nat, k \in Nat : n = Len(ended) /\ k = Len(zeros)
      BY <3>1
    <3>4. k \in 0 .. 3 /\ k <= n
      BY <3>2, <3>3
    <3> QED
      BY <3>3, <3>4
  <2> DEFINE e == [gave |-> records # {}, reasons |-> graph.reasons]
  <2>1. at = "index" /\ ended' = Append(ended, e) /\ zeros' = NextZeros
    BY <1>3 DEF BatchEnds
  <2>2. e \in [gave : BOOLEAN, reasons : SUBSET Reason]
    BY <2>1, EndedType
  <2>3. /\ e.gave <=> records # {}
        /\ e.reasons = graph.reasons
    OBVIOUS
  <2> HIDE DEF e
  <2>4. /\ ended \in Seq([gave : BOOLEAN, reasons : SUBSET Reason]) 
        /\ \A i \in 1 .. k : ~ ended[n - k + i].gave /\ ended[n - k + i].reasons = zeros[i]
        /\ k < 3 /\ k < n => ended[n - k].gave
    BY <2>0 DEF WindowInv, IInv, QuestionTypeOK
  <2>5. /\ ended' \in Seq([gave : BOOLEAN, reasons : SUBSET Reason]) /\ Len(ended') = n + 1
        /\ ended'[n + 1] = e /\ \A i \in 1 .. n : ended'[i] = ended[i]
    BY <2>0, <2>0, <2>1, <2>2, <2>4, AppendProperties
  <2>6. CASE records # {}
    <3>1. zeros' = << >>
      BY <2>1, <2>6 DEF NextZeros
    <3> QED
      BY <2>0, <2>3, <2>4, <2>5, <2>6, <3>1 DEF WindowInv
  <2>7. CASE records = {}
    <3>1. PICK m \in 0 .. 2 : (k = 3 /\ m = 2) \/ (k < 3 /\ m = k)
      BY <2>0, <2>4
    <3>2. /\ Len(zeros') = m + 1 /\ zeros'[m + 1] = graph.reasons
          /\ \A i \in 1 .. m : zeros'[i] = zeros[k - m + i]
      BY <2>0, <2>1, <2>7, <3>1, ShiftWindow
    <3>3. ASSUME NEW i \in 1 .. m + 1
          PROVE  ~ ended'[n - m + i].gave /\ ended'[n - m + i].reasons = zeros'[i]
      <4>1. CASE i = m + 1
        <5>1. n - m + i = n + 1
          BY <2>0, <2>4, <4>1
        <5> QED
          BY <2>3, <2>5, <2>7, <3>2, <4>1, <5>1
      <4>2. CASE i # m + 1
        <5>1. /\ i \in 1 .. m
              /\ k - m + i \in 1 .. k /\ n - m + i \in 1 .. n
              /\ n - k + (k - m + i) = n - m + i
          BY <2>0, <2>4, <3>1, <4>2
        <5>2. ended'[n - m + i] = ended[n - m + i] /\ zeros'[i] = zeros[k - m + i]
          BY <2>5, <3>2, <5>1
        <5>3. ~ ended[n - k + (k - m + i)].gave /\ ended[n - k + (k - m + i)].reasons = zeros[k - m + i]
          BY <2>0, <2>4, <5>1
        <5> QED
          BY <5>1, <5>2, <5>3
      <4> QED
        BY <4>1, <4>2
    <3>4. m + 1 < 3 /\ m + 1 < n + 1 => ended'[n - m].gave
      <4>1. m + 1 < 3 /\ m + 1 < n + 1 => m = k /\ n - m \in 1 .. n
        BY <2>0, <2>4, <3>1
      <4> QED
        BY <2>0, <2>4, <2>5, <4>1
    <3>5. PICK n1 \in Nat, k1 \in Nat : n1 = n + 1 /\ k1 = m + 1
      BY <2>0, <2>4
    <3>6. /\ k1 <= 3 /\ k1 <= n1
          /\ \A i \in 1 .. k1 : ~ ended'[n1 - k1 + i].gave /\ ended'[n1 - k1 + i].reasons = zeros'[i]
          /\ k1 < 3 /\ k1 < n1 => ended'[n1 - k1].gave
      <4>1. n1 - k1 = n - m /\ m <= n
        BY <2>0, <2>4, <3>1, <3>5
      <4> QED
        BY <2>0, <2>4, <3>1, <3>3, <3>4, <3>5, <4>1
    <3>7. Len(ended') = n1 /\ Len(zeros') = k1
      BY <2>5, <3>2, <3>5
    <3> QED
      BY <2>5, <3>6, <3>7 DEF WindowInv
  <2> QED
    BY <2>6, <2>7
<1> QED
  BY <1>1, <1>2, <1>3 DEF QuestionNext, QuestionStep, GraphNode, questionVars, memory, DrafterNode,
     CandidateFilterNode, EvaluatorNode, RepairOne, EditorNode, RefinerNode, Step,
     GenerateQuestions, ResumeExistingBatches, RunBatch, AcceptedRecords, WriteAccepted,
     WriteTokens, PersistBatch, IndexQuestion, Die, RunAgain

LEMMA StopStep ==
    ASSUME StopInv, [QuestionNext]_questionVars
    PROVE  StopInv'
<1>1. CASE at' \notin {"batch", "shared", "exhausted", "finished"}
  BY <1>1 DEF StopInv
<1>2. CASE at' = at /\ zeros' = zeros
  BY <1>2 DEF StopInv, SharedReason
<1>3. CASE ResumeExistingBatches
  <2>1. at' \in {"broken", "batch", "finished"} /\ zeros' = << >>
    BY <1>3 DEF ResumeExistingBatches
  <2> QED
    BY <2>1 DEF StopInv, SharedReason
<1>4. CASE BatchEnds
  BY <1>4 DEF BatchEnds, Verdict, StopInv, SharedReason
<1> QED
  BY <1>1, <1>2, <1>3, <1>4 DEF QuestionNext, QuestionStep, GraphNode, questionVars, memory,
     DrafterNode, CandidateFilterNode, EvaluatorNode, RepairOne, EditorNode, RefinerNode, Step,
     GenerateQuestions, RunBatch, AcceptedRecords, WriteAccepted,
     WriteTokens, PersistBatch, IndexQuestion, Die, RunAgain

\* Three batches in a row are in the window if and only if none of them gave anything.
LEMMA WindowSays ==
    ASSUME WindowInv, StopInv, QuestionTypeOK
    PROVE  StopsOnSharedReason
<1> DEFINE n == Len(ended)
           k == Len(zeros)
<1>1. /\ n \in Nat /\ k \in Nat /\ k <= 3 /\ k <= n
      /\ \A i \in 1 .. k : ~ ended[n - k + i].gave /\ ended[n - k + i].reasons = zeros[i]
      /\ k < 3 /\ k < n => ended[n - k].gave
  BY DEF WindowInv, QuestionTypeOK
<1>2. SharedReason(zeros) <=>
        n >= 3 /\ \E r \in Reason : \A i \in 0 .. 2 : ~ ended[n - i].gave /\ r \in ended[n - i].reasons
  <2>1. CASE k = 3
    <3>1. \A i \in 0 .. 2 : ~ ended[n - i].gave /\ ended[n - i].reasons = zeros[3 - i]
      <4>1. \A i \in 0 .. 2 : 3 - i \in 1 .. 3 /\ n - 3 + (3 - i) = n - i
        BY <1>1
      <4> QED
        BY <1>1, <2>1, <4>1
    <3>2. ASSUME NEW r
          PROVE  (\A i \in 1 .. 3 : r \in zeros[i]) <=> (\A i \in 0 .. 2 : r \in ended[n - i].reasons)
      <4>1. /\ ended[n].reasons = zeros[3] /\ ended[n - 1].reasons = zeros[2]
            /\ ended[n - 2].reasons = zeros[1] /\ n - 0 = n
        BY <1>1, <3>1
      <4>2. \A i \in 0 .. 2 : i = 0 \/ i = 1 \/ i = 2
        OBVIOUS
      <4>3. \A i \in 1 .. 3 : i = 1 \/ i = 2 \/ i = 3
        OBVIOUS
      <4> QED
        BY <4>1, <4>2, <4>3
    <3> QED
      BY <1>1, <2>1, <3>1, <3>2 DEF SharedReason
  <2>2. CASE k < 3
    <3>1. ~ SharedReason(zeros)
      BY <2>2 DEF SharedReason
    <3>2. n >= 3 => k \in 0 .. 2 /\ ended[n - k].gave
      <4> HIDE DEF n, k
      <4> QED
        BY <1>1, <2>2
    <3> QED
      BY <3>1, <3>2
  <2>3. k = 3 \/ k < 3
    <3> HIDE DEF k
    <3> QED
      BY <1>1
  <2> QED
    BY <2>1, <2>2, <2>3
<1> QED
  BY <1>2 DEF StopInv, StopsOnSharedReason

\* A fitting draft is what was asked for.
LEMMA FittingFits ==
    ASSUME QuestionTypeOK, graph \in Graph, NEW d \in Fitting
    PROVE  /\ d \in Draft
           /\ request.sub # Open => graph.draft[d].sub = request.sub
           /\ request.tense # Open => graph.draft[d].tense = request.tense
           /\ graph.draft[d].text = "fit"
<1> DEFINE c == graph.draft[d]
<1>1. d \in Draft /\ RuleViolations(c, request.sub, request.tense) = {}
  BY DEF Fitting
<1>2. c \in Content /\ c.text \in Text
  BY <1>1, ContentAssumption DEF Graph
<1> HIDE DEF c
<1>3. /\ c.text \notin Reason
      /\ ~ SubViolated(c, request.sub) /\ ~ TenseViolated(c, request.tense)
  BY <1>1 DEF RuleViolations, Reason
<1>4. c.text = "fit"
  BY <1>2, <1>3 DEF Text, Reason
<1> QED
  BY <1>1, <1>3, <1>4 DEF SubViolated, TenseViolated, c

\* Of what lives nothing is dropped for the request: it fits.
LEMMA AnswerExact ==
    ASSUME IInv, ServiceInv, GenerateQuestions
    PROVE  AnswersTheRequest'
<1>1. /\ fast /\ at = "accept" /\ at' = "answered" /\ request' = request
      /\ graph \in Graph /\ graph.live = Fitting /\ graph.survivors = Fitting
      /\ request.count \in Nat /\ request.count >= 1 /\ QuestionTypeOK
  BY FS_CardinalityType, BoundAssumption, GraphTyped
     DEF GenerateQuestions, ServiceInv, IInv, QuestionTypeOK, Request
<1> DEFINE clean == CleanFor(request.sub, request.tense)
           pool == {d \in graph.live \cup graph.survivors : Salvaged(d) # {}}
<1>2. clean = Fitting /\ clean \in SUBSET Draft
  BY <1>1 DEF CleanFor, Fitting
<1>3. clean = {} => pool = {}
  BY <1>1, <1>2
<1>4. IsFiniteSet(clean) /\ Cardinality(clean) \in Nat /\ (Cardinality(clean) = 0 <=> clean = {})
  BY <1>2, FS_Subset, FS_CardinalityType, FS_EmptySet, BoundAssumption
<1>5. PICK taken \in SUBSET clean :
         /\ Cardinality(taken) = Least(Cardinality(clean), request.count)
         /\ answer' = taken /\ graph' = graph
  BY <1>3 DEF GenerateQuestions
<1>6. Cardinality(answer') <= request.count
  BY <1>1, <1>4, <1>5 DEF Least
<1>7. ASSUME NEW d \in answer'
      PROVE  /\ request.sub # Open => graph.draft[d].sub = request.sub
             /\ request.tense # Open => graph.draft[d].tense = request.tense
             /\ graph.draft[d].text = "fit"
  BY <1>1, <1>2, <1>5, <1>7, FittingFits
<1>8. answer' = {} => Fitting = {}
  BY <1>1, <1>2, <1>4, <1>5, FS_EmptySet DEF Least
<1>9. answer' = {} => \A d \in Draft : RuleViolations(graph.draft[d], request.sub, request.tense) # {}
  BY <1>8 DEF Fitting
<1> QED
  BY <1>1, <1>5, <1>6, <1>7, <1>9 DEF AnswersTheRequest, RuleViolations, SubViolated, TenseViolated

\* Where a step neither answers nor changes the graph of a service, nothing is to be shown.
LEMMA ServiceElsewhere ==
    ASSUME ServiceInv, at' # "answered", fast' = fast,
           fast => at' \notin {"draft", "filter", "evaluate", "edit", "refine", "accept"}
    PROVE  ServiceInv'
BY DEF ServiceInv, AnswersTheRequest

LEMMA ServiceInvStep ==
    ASSUME IInv, ServiceInv, [QuestionNext]_questionVars
    PROVE  ServiceInv'
<1>1. fast' = fast
  BY DEF QuestionNext, QuestionStep, GraphNode, questionVars, memory,
     DrafterNode, CandidateFilterNode, EvaluatorNode, RepairOne, EditorNode, RefinerNode, Step,
     GenerateQuestions, ResumeExistingBatches, RunBatch, AcceptedRecords, WriteAccepted,
     WriteTokens, PersistBatch, IndexQuestion, BatchEnds, Die, RunAgain
<1>2. CASE ~ fast
  <2>1. at' # "answered"
    BY <1>2 DEF IInv, BatchInv, GraphAt, QuestionNext, QuestionStep, GraphNode, questionVars, memory,
       DrafterNode, CandidateFilterNode, EvaluatorNode, RepairOne, EditorNode, RefinerNode, Step,
       GenerateQuestions, ResumeExistingBatches, RunBatch, AcceptedRecords, WriteAccepted,
       WriteTokens, PersistBatch, IndexQuestion, BatchEnds, Verdict, Die, RunAgain
  <2> QED
    BY <1>1, <1>2, <2>1, ServiceElsewhere
<1>3. ASSUME fast PROVE ServiceInv'
  <2> USE <1>1, <1>3
  <2>0. at \in GraphAt \cup {"answered", "failed"}
    BY DEF IInv, BatchInv
  <2>1. ASSUME at # "answered" PROVE graph \in Graph /\ NoGraph \in Graph /\ NoGraph.live = {}
    BY <2>1, GraphTyped, GraphType DEF NoGraph
  <2>2. CASE DrafterNode
    <3>1. PICK draft \in [Draft -> Content] :
             at' = "filter" /\ graph' = [NoGraph EXCEPT !.draft = draft]
      BY <2>2 DEF DrafterNode, Step
    <3>2. graph'.live = {}
      BY <3>1 DEF NoGraph
    <3> QED
      BY <3>1, <3>2 DEF ServiceInv, AnswersTheRequest
  <2>3. CASE CandidateFilterNode
    <3> DEFINE V(d) == RuleViolations(graph.draft[d], request.sub, request.tense)
               g == [graph EXCEPT !.survivors = {d \in Draft : V(d) = {}},
                                  !.reasons = UNION {V(d) : d \in Draft}]
    <3>1. at = "filter" /\ at' = "evaluate" /\ graph' = g /\ request' = request
      BY <2>3 DEF CandidateFilterNode, Step
    <3>2. graph \in Graph /\ graph.live = {}
      BY <2>1, <3>1 DEF ServiceInv
    <3>3. /\ graph'.live = {} /\ graph'.draft = graph.draft
          /\ graph'.survivors = {d \in Draft : V(d) = {}}
      <4> HIDE DEF V
      <4> QED
        BY <3>1, <3>2 DEF Graph
    <3>4. graph'.survivors = Fitting'
      BY <3>1, <3>3 DEF Fitting, RuleViolations, SubViolated, TenseViolated
    <3> QED
      BY <3>1, <3>3, <3>4 DEF ServiceInv, AnswersTheRequest
  <2>4. CASE EvaluatorNode
    <3>1. at = "evaluate" /\ at' = "edit" /\ graph' = [graph EXCEPT !.failed = {}] /\ request' = request
      BY <2>4 DEF EvaluatorNode, Step
    <3>2. graph \in Graph /\ graph.live = {} /\ graph.survivors = Fitting
      BY <2>1, <3>1 DEF ServiceInv
    <3>3. /\ graph'.live = {} /\ graph'.draft = graph.draft /\ graph'.failed = {}
          /\ graph'.survivors = Fitting
      BY <3>1, <3>2 DEF Graph
    <3>4. graph'.survivors = Fitting'
      BY <3>1, <3>3 DEF Fitting, RuleViolations, SubViolated, TenseViolated
    <3> QED
      BY <3>1, <3>3, <3>4 DEF ServiceInv, AnswersTheRequest
  <2>5. ASSUME NEW d \in Draft, RepairOne(d) PROVE FALSE
    BY <2>5 DEF RepairOne, Step, ServiceInv
  <2>6. CASE EditorNode
    <3>1. /\ at = "edit" /\ at' = "refine" /\ request' = request
          /\ graph' = [graph EXCEPT !.live = @ \cup (graph.survivors \ graph.failed),
                                    !.survivors = IF fast THEN @ ELSE {},
                                    !.failed = {}, !.rounds = NoGraph.rounds]
      BY <2>6 DEF EditorNode, Step
    <3>2. graph \in Graph /\ graph.live = {} /\ graph.survivors = Fitting /\ graph.failed = {}
      BY <2>1, <3>1 DEF ServiceInv
    <3>3. /\ graph'.live = graph.survivors /\ graph'.draft = graph.draft
          /\ graph'.survivors = graph.survivors
      BY <3>1, <3>2 DEF Graph
    <3>4. graph'.survivors = Fitting' /\ graph'.live = Fitting'
      BY <3>1, <3>2, <3>3 DEF Fitting, RuleViolations, SubViolated, TenseViolated
    <3> QED
      BY <3>1, <3>4 DEF ServiceInv, AnswersTheRequest
  <2>7. CASE RefinerNode
    <3>1. at = "refine" /\ at' = "accept" /\ graph' = graph /\ request' = request
      BY <2>7 DEF RefinerNode, Step
    <3>2. Fitting' = Fitting
      BY <3>1 DEF Fitting, RuleViolations, SubViolated, TenseViolated
    <3> QED
      BY <3>1, <3>2 DEF ServiceInv, AnswersTheRequest
  <2>8. CASE GenerateQuestions
    <3>1. at' = "answered"
      BY <2>8 DEF GenerateQuestions
    <3> QED
      BY <2>8, <3>1, AnswerExact DEF ServiceInv
  <2>9. CASE Die
    <3>1. at' = "failed"
      BY <2>9 DEF Die
    <3> QED
      BY <3>1, ServiceElsewhere
  <2>10. CASE UNCHANGED questionVars
    <3>1. UNCHANGED <<at, graph, request, answer>> /\ Fitting' = Fitting
      BY <2>10 DEF questionVars, Fitting, RuleViolations, SubViolated, TenseViolated
    <3>2. AnswersTheRequest'
      BY <3>1 DEF ServiceInv, AnswersTheRequest, RuleViolations, SubViolated, TenseViolated
    <3> QED
      BY <3>1, <3>2 DEF ServiceInv
  <2>11. ASSUME \/ ResumeExistingBatches \/ RunBatch \/ AcceptedRecords \/ WriteAccepted
                \/ WriteTokens \/ PersistBatch \/ IndexQuestion \/ BatchEnds \/ RunAgain
         PROVE  FALSE
    BY <2>0, <2>11 DEF GraphAt, ResumeExistingBatches, RunBatch, AcceptedRecords, WriteAccepted,
       WriteTokens, PersistBatch, IndexQuestion, BatchEnds, RunAgain
  <2> QED
    BY <2>2, <2>3, <2>4, <2>5, <2>6, <2>7, <2>8, <2>9, <2>10, <2>11
       DEF QuestionNext, QuestionStep, GraphNode
<1> QED
  BY <1>2, <1>3

LEMMA EndInvHolds == QuestionSpec => []EndInv
<1>1. QuestionInit => EndInv
  <2> SUFFICES ASSUME QuestionInit PROVE EndInv
    OBVIOUS
  <2>1. WindowInv /\ StopInv
    BY DEF QuestionInit, WindowInv, StopInv
  <2>2. ServiceInv
    BY DEF QuestionInit, ServiceInv, AnswersTheRequest, NoGraph
  <2> QED
    BY <2>1, <2>2 DEF EndInv
<1>2. IInv /\ EndInv /\ [QuestionNext]_questionVars => EndInv'
  BY WindowStep, StopStep, ServiceInvStep DEF EndInv
<1> QED
  BY <1>1, <1>2, IInvHolds, PTL DEF QuestionSpec

\* The pipeline gives up exactly when three batches in a row gave nothing for a
\* reason they share, whatever was refused before and however often it was
\* started again.
THEOREM GivesUpForAReason == QuestionSpec => []StopsOnSharedReason
<1>1. IInv /\ EndInv => StopsOnSharedReason
  BY WindowSays DEF IInv, EndInv
<1> QED
  BY <1>1, IInvHolds, EndInvHolds, PTL

\* A waiting student is given what was asked for, and nothing only when no draft
\* would have done.
THEOREM AnswersAsAsked == QuestionSpec => []AnswersTheRequest
<1>1. EndInv => AnswersTheRequest
  BY DEF EndInv, ServiceInv
<1> QED
  BY <1>1, EndInvHolds, PTL

-----------------------------------------------------------------------------
(***************************************************************************)
(* Induction, with sets where the library has predicates: S[n] is what is  *)
(* possible after n steps.                                                 *)
(***************************************************************************)
LEMMA LeastNumber ==
    ASSUME NEW T \in SUBSET Nat, T # {}
    PROVE  \E n \in T : \A m \in T : n <= m
<1>1. PICK n \in T : \A m \in T : ~ (<<m, n>> \in OpToRel(<, Nat))
  BY NatLessThanWellFounded, WFMin
<1>2. \A m \in T : ~ (m < n)
  BY <1>1 DEF OpToRel
<1> QED
  BY <1>2

\* What holds of the first value and is handed on holds of every one.
LEMMA Along ==
    ASSUME NEW N \in Nat, NEW S, NEW f, f[0] \in S[0],
           \A n \in 1 .. N : f[n - 1] \in S[n - 1] => f[n] \in S[n]
    PROVE  \A n \in 0 .. N : f[n] \in S[n]
<1> DEFINE T == {n \in 0 .. N : f[n] \notin S[n]}
<1> SUFFICES ASSUME T # {} PROVE FALSE
  OBVIOUS
<1>0. T \in SUBSET Nat
  OBVIOUS
<1>1. PICK n \in T : \A m \in T : n <= m
  <2> HIDE DEF T
  <2> QED
    BY <1>0, LeastNumber
<1>2. n \in 1 .. N
  BY <1>1
<1>3. n - 1 \in 0 .. N /\ n - 1 \notin T
  BY <1>1, <1>2
<1> QED
  BY <1>1, <1>2, <1>3

\* f goes from start by the steps, as far as n.
Follows(f, n, start, step) == /\ f[0] = start
                              /\ \A i \in 1 .. n : f[i] = step[i][f[i - 1]]

\* A step leads from what is possible to what is possible.
Leads(n, S, step) == \A i \in 1 .. n : \A t \in S[i - 1] : step[i][t] \in S[i]

\* A function defined by recursion exists.
LEMMA Iterates ==
    ASSUME NEW N \in Nat, NEW V, NEW S \in [0 .. N -> SUBSET V], NEW start \in V, NEW step,
           start \in S[0], Leads(N, S, step)
    PROVE  \E f \in [0 .. N -> V] : Follows(f, N, start, step) /\ \A n \in 0 .. N : f[n] \in S[n]
<1> USE DEF Follows, Leads
<1> DEFINE Until(n, f) == Follows(f, n, start, step) /\ \A i \in 0 .. n : f[i] \in S[i]
           T == {n \in 0 .. N : ~ \E f \in [0 .. n -> V] : Until(n, f)}
<1> SUFFICES ASSUME T # {} PROVE FALSE
  <2>1. N \in 0 .. N
    OBVIOUS
  <2> QED
    BY <2>1
<1>0. T \in SUBSET Nat
  OBVIOUS
<1>1. PICK n \in T : \A m \in T : n <= m
  <2> HIDE DEF T
  <2> QED
    BY <1>0, LeastNumber
<1>2. n # 0
  <2> DEFINE f == [i \in 0 .. 0 |-> start]
  <2>1. \A i \in 0 .. 0 : i = 0
    OBVIOUS
  <2>2. f \in [0 .. 0 -> V] /\ Until(0, f)
    BY <2>1
  <2>3. 0 \notin T
    <3> HIDE DEF f, Until
    <3> QED
      BY <2>2
  <2> QED
    BY <1>1, <2>3
<1>3. n \in 1 .. N /\ n - 1 \in 0 .. N /\ n - 1 \notin T
  <2>1. n \in 0 .. N
    OBVIOUS
  <2>2. n \in 1 .. N /\ n - 1 \in 0 .. N /\ ~ (n <= n - 1)
    BY <1>2, <2>1
  <2> HIDE DEF T
  <2> QED
    BY <1>1, <2>2
<1>4. PICK f \in [0 .. n - 1 -> V] : Until(n - 1, f)
  BY <1>3
<1> DEFINE g == [i \in 0 .. n |-> IF i = n THEN step[n][f[n - 1]] ELSE f[i]]
<1>5. f[n - 1] \in S[n - 1] /\ step[n][f[n - 1]] \in S[n]
  BY <1>3, <1>4
<1>6. ASSUME NEW i \in 0 .. n
      PROVE  /\ i = 0 => g[i] = start
             /\ i # 0 => g[i] = step[i][g[i - 1]]
             /\ g[i] \in S[i] /\ S[i] \subseteq V
  <2>1. CASE i = n
    <3>1. g[i] = step[n][f[n - 1]] /\ i # 0 /\ g[i - 1] = f[n - 1]
      BY <1>3, <2>1
    <3> QED
      BY <1>3, <1>5, <2>1, <3>1
  <2>2. CASE i # n
    <3>1. i \in 0 .. n - 1 /\ g[i] = f[i]
      BY <1>3, <2>2
    <3>2. i # 0 => i \in 1 .. n - 1 /\ g[i - 1] = f[i - 1]
      BY <1>3, <3>1
    <3> HIDE DEF g
    <3> QED
      BY <1>3, <1>4, <3>1, <3>2
  <2> QED
    BY <2>1, <2>2
<1>7. g \in [0 .. n -> V]
  BY <1>6
<1>8. Until(n, g)
  <2>1. 0 \in 0 .. n /\ \A i \in 1 .. n : i \in 0 .. n /\ i # 0
    BY <1>3
  <2> HIDE DEF g
  <2> QED
    BY <1>6, <2>1
<1> QED
  <2> HIDE DEF g, Until
  <2> QED
    BY <1>1, <1>7, <1>8

(***************************************************************************)
(* What is left of a reply.                                                *)
(***************************************************************************)
\* The claims of different proposals have no word in common.
Apart(s) == \A i \in 1 .. Len(s) : \A j \in 1 .. i - 1 :
                Claims(s[i]) /\ Claims(s[j]) => s[i].words \cap s[j].words = {}

\* n of the proposals, or fewer.
AtMost(n) == {s \in Seq(Proposal) : Len(s) <= n}

LEMMA AppendKeeps ==
    ASSUME NEW n \in Nat \ {0}, NEW t \in AtMost(n - 1), NEW p \in Proposal
    PROVE  t \in AtMost(n) /\ Append(t, p) \in AtMost(n)
BY AppendProperties DEF AtMost

\* The function by which Keep goes through a sequence.
LEMMA CapsFunction ==
    ASSUME NEW s \in Seq(Proposal)
    PROVE  \E f : f = [n \in 0 .. Len(s) |->
                          IF n = 0 THEN << >>
                          ELSE IF Allowed(s, n) THEN Append(f[n - 1], s[n]) ELSE f[n - 1]]
<1> DEFINE N == Len(s)
           S == [n \in 0 .. N |-> AtMost(n)]
           step == [n \in 1 .. N |-> [t \in Seq(Proposal) |->
                       IF Allowed(s, n) THEN Append(t, s[n]) ELSE t]]
<1>1. N \in Nat /\ \A n \in 1 .. N : s[n] \in Proposal
  OBVIOUS
<1>2. << >> \in S[0]
  BY <1>1 DEF AtMost
<1>3. ASSUME NEW n \in 1 .. N, NEW t \in S[n - 1]
      PROVE  t \in AtMost(n - 1) /\ step[n][t] \in S[n]
  <2>1. n \in Nat \ {0} /\ n - 1 \in 0 .. N /\ n \in 0 .. N /\ t \in AtMost(n - 1)
    BY <1>1
  <2>2. t \in AtMost(n) /\ Append(t, s[n]) \in AtMost(n)
    BY <1>1, <2>1, AppendKeeps
  <2> QED
    BY <2>1, <2>2 DEF AtMost
<1>0. S \in [0 .. N -> SUBSET Seq(Proposal)] /\ step \in [1 .. N -> [Seq(Proposal) -> Seq(Proposal)]]
  <2>1. \A n \in 1 .. N, t \in Seq(Proposal) : Append(t, s[n]) \in Seq(Proposal)
    BY <1>1, AppendProperties
  <2> QED
    BY <2>1 DEF AtMost
<1> HIDE DEF N, S, step
<1>4. PICK f \in [0 .. N -> Seq(Proposal)] :
          Follows(f, N, << >>, step) /\ \A n \in 0 .. N : f[n] \in S[n]
  <2>1. Leads(N, S, step) /\ << >> \in Seq(Proposal)
    BY <1>3 DEF Leads
  <2> QED
    BY <1>0, <1>1, <1>2, <2>1, Iterates
<1>5. ASSUME NEW n \in 0 .. N, n # 0
      PROVE  f[n] = IF Allowed(s, n) THEN Append(f[n - 1], s[n]) ELSE f[n - 1]
  <2>1. n \in 1 .. N /\ n - 1 \in 0 .. N
    BY <1>1, <1>5
  <2>2. f[n - 1] \in AtMost(n - 1)
    BY <1>3, <1>4, <2>1
  <2> QED
    BY <1>4, <2>1, <2>2 DEF step, AtMost, Follows
<1>6. f = [n \in 0 .. N |-> IF n = 0 THEN << >>
                            ELSE IF Allowed(s, n) THEN Append(f[n - 1], s[n]) ELSE f[n - 1]]
  BY <1>4, <1>5 DEF Follows
<1> QED
  BY <1>6 DEF N

LEMMA CapsType ==
    ASSUME NEW s \in Seq(Proposal)
    PROVE  EnforceEvidenceCaps(s) \in AtMost(Len(s))
<1> DEFINE Eq(f) == f = [n \in 0 .. Len(s) |->
                          IF n = 0 THEN << >>
                          ELSE IF Allowed(s, n) THEN Append(f[n - 1], s[n]) ELSE f[n - 1]]
           kept == CHOOSE f : Eq(f)
<1>1. Eq(kept)
  <2>1. \E f : Eq(f)
    BY CapsFunction
  <2> HIDE DEF Eq
  <2> QED
    BY <2>1
<1>2. EnforceEvidenceCaps(s) = kept[Len(s)]
  BY DEF EnforceEvidenceCaps, Keep
<1> HIDE DEF kept
<1> DEFINE N == Len(s)
           S == [n \in 0 .. N |-> AtMost(n)]
<1>3. N \in Nat /\ \A n \in 1 .. N : s[n] \in Proposal
  OBVIOUS
<1>4. kept[0] \in S[0]
  BY <1>1, <1>3 DEF AtMost
<1>5. ASSUME NEW n \in 1 .. N, kept[n - 1] \in S[n - 1]
      PROVE  kept[n] \in S[n]
  <2>1. n \in Nat \ {0} /\ n - 1 \in 0 .. N /\ n \in 0 .. N /\ kept[n - 1] \in AtMost(n - 1)
    BY <1>3, <1>5
  <2>2. kept[n] = IF Allowed(s, n) THEN Append(kept[n - 1], s[n]) ELSE kept[n - 1]
    BY <1>1, <2>1
  <2>3. kept[n - 1] \in AtMost(n) /\ Append(kept[n - 1], s[n]) \in AtMost(n)
    BY <1>3, <2>1, AppendKeeps
  <2> QED
    BY <2>1, <2>2, <2>3
<1>6. \A n \in 0 .. N : kept[n] \in S[n]
  <2> HIDE DEF N, S
  <2> QED
    BY <1>3, <1>4, <1>5, Along
<1>7. kept[N] \in AtMost(N)
  BY <1>3, <1>6
<1> QED
  BY <1>2, <1>7

\* The words claimed by t.
Used(t) == UNION {t[i].words : i \in {j \in 1 .. Len(t) : Claims(t[j])}}

LEMMA AppendApart ==
    ASSUME NEW t \in Seq(Proposal), Apart(t), NEW p \in Proposal,
           ~ (Claims(p) /\ p.words \cap Used(t) # {})
    PROVE  Apart(Append(t, p))
<1> DEFINE r == Append(t, p)
<1>1. /\ Len(r) = Len(t) + 1 /\ r[Len(t) + 1] = p /\ Len(t) \in Nat
      /\ \A i \in 1 .. Len(t) : r[i] = t[i]
  BY AppendProperties
<1>2. ASSUME NEW j \in 1 .. Len(t), Claims(t[j]) PROVE t[j].words \subseteq Used(t)
  BY <1>2 DEF Used
<1>3. ASSUME NEW i \in 1 .. Len(r), NEW j \in 1 .. i - 1, Claims(r[i]), Claims(r[j])
      PROVE  r[i].words \cap r[j].words = {}
  <2>1. j \in 1 .. Len(t) /\ r[j] = t[j]
    BY <1>1
  <2>2. CASE i = Len(t) + 1
    <3>1. r[i] = p /\ Claims(p) /\ Claims(t[j])
      BY <1>1, <1>3, <2>1, <2>2
    <3> QED
      BY <1>2, <2>1, <3>1
  <2>3. CASE i # Len(t) + 1
    <3>1. i \in 1 .. Len(t) /\ r[i] = t[i]
      BY <1>1, <2>3
    <3> QED
      BY <1>3, <2>1, <3>1 DEF Apart
  <2> QED
    BY <2>2, <2>3
<1> QED
  BY <1>3 DEF Apart

\* How DeduplicateEvidenceClusters goes through a sequence.
Clusters(f, s) ==
    f = [n \in 0 .. Len(s) |->
           IF n = 0 THEN << >>
           ELSE IF Claims(s[n]) /\ s[n].words \cap Used(f[n - 1]) # {} THEN f[n - 1]
                ELSE Append(f[n - 1], s[n])]

LEMMA ClustersFunction ==
    ASSUME NEW s \in Seq(Proposal)
    PROVE  \E f : Clusters(f, s)
<1> DEFINE N == Len(s)
           S == [n \in 0 .. N |-> AtMost(n)]
           step == [n \in 1 .. N |-> [t \in Seq(Proposal) |->
                       IF Claims(s[n]) /\ s[n].words \cap Used(t) # {} THEN t ELSE Append(t, s[n])]]
<1>1. N \in Nat /\ \A n \in 1 .. N : s[n] \in Proposal
  OBVIOUS
<1>2. << >> \in S[0] /\ << >> \in Seq(Proposal) /\ S \in [0 .. N -> SUBSET Seq(Proposal)]
  BY <1>1 DEF AtMost
<1>3. ASSUME NEW n \in 1 .. N, NEW t \in S[n - 1]
      PROVE  t \in Seq(Proposal) /\ step[n][t] \in S[n]
  <2>1. n \in Nat \ {0} /\ n - 1 \in 0 .. N /\ n \in 0 .. N /\ t \in AtMost(n - 1)
    BY <1>1
  <2>2. t \in AtMost(n) /\ Append(t, s[n]) \in AtMost(n)
    BY <1>1, <2>1, AppendKeeps
  <2> QED
    BY <2>1, <2>2 DEF AtMost
<1> HIDE DEF N, S, step
<1>4. PICK f \in [0 .. N -> Seq(Proposal)] :
          Follows(f, N, << >>, step) /\ \A n \in 0 .. N : f[n] \in S[n]
  <2>1. Leads(N, S, step)
    BY <1>3 DEF Leads
  <2> QED
    BY <1>1, <1>2, <2>1, Iterates
<1>5. ASSUME NEW n \in 0 .. N, n # 0
      PROVE  f[n] = IF Claims(s[n]) /\ s[n].words \cap Used(f[n - 1]) # {} THEN f[n - 1]
                    ELSE Append(f[n - 1], s[n])
  <2>1. n \in 1 .. N /\ n - 1 \in 0 .. N
    BY <1>1, <1>5
  <2>2. f[n - 1] \in Seq(Proposal)
    BY <2>1
  <2> QED
    BY <1>4, <2>1, <2>2 DEF step, Follows
<1> QED
  BY <1>4, <1>5 DEF Clusters, N, Follows

LEMMA ClustersApart ==
    ASSUME NEW s \in Seq(Proposal)
    PROVE  DeduplicateEvidenceClusters(s) \in AtMost(Len(s)) /\ Apart(DeduplicateEvidenceClusters(s))
<1> DEFINE kept == CHOOSE f : Clusters(f, s)
<1>1. Clusters(kept, s)
  BY ClustersFunction
<1>2. DeduplicateEvidenceClusters(s) = kept[Len(s)]
  BY DEF DeduplicateEvidenceClusters, Clusters, Used
<1> HIDE DEF kept
<1> DEFINE N == Len(s)
           S == [n \in 0 .. N |-> {t \in AtMost(n) : Apart(t)}]
<1>3. N \in Nat /\ \A n \in 1 .. N : s[n] \in Proposal
  OBVIOUS
<1>4. kept[0] \in S[0]
  BY <1>1, <1>3 DEF AtMost, Apart, Clusters
<1>5. ASSUME NEW n \in 1 .. N, kept[n - 1] \in S[n - 1]
      PROVE  kept[n] \in S[n]
  <2>1. /\ n \in Nat \ {0} /\ n - 1 \in 0 .. N /\ n \in 0 .. N
        /\ kept[n - 1] \in AtMost(n - 1) /\ Apart(kept[n - 1]) /\ kept[n - 1] \in Seq(Proposal)
    BY <1>3, <1>5 DEF AtMost
  <2>2. kept[n] = IF Claims(s[n]) /\ s[n].words \cap Used(kept[n - 1]) # {} THEN kept[n - 1]
                  ELSE Append(kept[n - 1], s[n])
    BY <1>1, <2>1 DEF Clusters
  <2>3. kept[n - 1] \in AtMost(n) /\ Append(kept[n - 1], s[n]) \in AtMost(n)
    BY <1>3, <2>1, AppendKeeps
  <2>4. Apart(kept[n])
    BY <1>3, <2>1, <2>2, AppendApart
  <2> QED
    BY <2>1, <2>2, <2>3, <2>4
<1>6. \A n \in 0 .. N : kept[n] \in S[n]
  <2> HIDE DEF N, S
  <2> QED
    BY <1>3, <1>4, <1>5, Along
<1>7. kept[N] \in AtMost(N) /\ Apart(kept[N])
  BY <1>3, <1>6
<1> QED
  BY <1>2, <1>7

LEMMA FirstOfType ==
    ASSUME NEW s \in Seq(Proposal), NEW n \in Nat
    PROVE  FirstOf(s, n) \in AtMost(n)
<1> DEFINE m == IF Len(s) < n THEN Len(s) ELSE n
<1>1. Len(s) \in Nat /\ m \in Nat /\ m <= Len(s) /\ m <= n
  OBVIOUS
<1>2. \A i \in 1 .. m : s[i] \in Proposal
  BY <1>1
<1>3. SubSeq(s, 1, m) \in Seq(Proposal) /\ Len(SubSeq(s, 1, m)) = m
  <2> HIDE DEF m
  <2> QED
    BY <1>1, <1>2, SubSeqProperties
<1> QED
  BY <1>1, <1>3 DEF FirstOf, AtMost

(***************************************************************************)
(* The offer.                                                              *)
(***************************************************************************)
\* No topic that has been active since the request resembles p.
NotActive(p) == \A d \in stood : catalogue[d].status = "active" => <<p.topic, catalogue[d].about>> \notin Alike

\* One round: no name of a collision reaches the graph.  What is proposed and
\* not yet compared fits in the offer and claims words of its own.
RoundInv ==
    /\ collisions = {}
    /\ node \in {"keyword_extraction", "topic_proposal"} => offer = << >> /\ round = 0
    /\ node = "topic_dedupe" =>
          /\ Len(offer) + Len(proposals) <= wanted.max
          /\ Apart(proposals)
          /\ \A i \in 1 .. Len(offer), j \in 1 .. Len(proposals) :
                Claims(offer[i]) /\ Claims(proposals[j]) => offer[i].words \cap proposals[j].words = {}
    /\ inactive => node = "topic_dedupe" /\ proposals # << >> /\ NotActive(Head(proposals))

TopicInv == TopicTypeOK /\ RoundInv /\ OffersAreNew

LEMMA TopicInitInv == TopicInit => TopicInv
<1> SUFFICES ASSUME TopicInit PROVE TopicInv
  OBVIOUS
<1>1. wanted.max \in Nat /\ << >> \in Seq(Proposal)
  BY TopicAssumption DEF TopicInit, Wanted
<1>2. TopicTypeOK
  <2>1. inactive \in BOOLEAN
    BY Zenon DEF TopicInit
  <2> QED
    BY <1>1, <2>1, TopicAssumption DEF TopicInit, TopicTypeOK
<1>3. RoundInv
  BY DEF TopicInit, RoundInv
<1>4. OffersAreNew
  BY <1>1 DEF TopicInit, OffersAreNew, Wanted
<1> QED
  BY <1>2, <1>3, <1>4 DEF TopicInv

LEMMA ProposalStep == TopicInv /\ TopicProposal => TopicInv'
<1> SUFFICES ASSUME TopicInv, TopicProposal PROVE TopicInv'
  OBVIOUS
<1>1. /\ node = "topic_proposal" /\ node' = "topic_dedupe" /\ round' = round + 1
      /\ UNCHANGED <<wanted, inactive, offer, catalogue, indexings, stood>>
      /\ offer = << >> /\ round = 0 /\ collisions = {} /\ collisions' = {} /\ ~ inactive
      /\ wanted.max \in Nat /\ wanted.max >= 1
  BY TopicAssumption DEF TopicProposal, TopicInv, RoundInv, TopicTypeOK, Wanted
<1>2. PICK n \in 0 .. MaxProposals : \E reply \in [1 .. n -> Proposal] :
          proposals' = DeduplicateEvidenceClusters(FirstOf(EnforceEvidenceCaps(reply), Remaining))
  BY DEF TopicProposal
<1>3. PICK reply \in [1 .. n -> Proposal] :
          proposals' = DeduplicateEvidenceClusters(FirstOf(EnforceEvidenceCaps(reply), Remaining))
  BY <1>2
<1>4. reply \in Seq(Proposal)
  BY <1>2, <1>3, IsASeq
<1>5. Remaining = wanted.max
  BY <1>1 DEF Remaining
<1> DEFINE first == FirstOf(EnforceEvidenceCaps(reply), Remaining)
<1>6. first \in AtMost(wanted.max)
  <2>1. EnforceEvidenceCaps(reply) \in Seq(Proposal)
    BY <1>4, CapsType DEF AtMost
  <2> QED
    BY <1>1, <1>5, <2>1, FirstOfType
<1>7. proposals' \in AtMost(Len(first)) /\ Apart(proposals')
  BY <1>3, <1>6, ClustersApart DEF AtMost
<1>8. proposals' \in Seq(Proposal) /\ Len(proposals') <= wanted.max
  <2> HIDE DEF first
  <2>1. Len(first) \in Nat /\ Len(proposals') \in Nat
    BY <1>6, <1>7 DEF AtMost
  <2> QED
    BY <1>1, <1>6, <1>7, <2>1 DEF AtMost
<1>9. TopicTypeOK'
  BY <1>1, <1>8, TopicAssumption DEF TopicInv, TopicTypeOK
<1>10. RoundInv'
  <2>1. Len(offer) + Len(proposals') <= wanted.max
    BY <1>1, <1>8
  <2>2. Apart(proposals)'
    BY <1>7 DEF Apart, Claims
  <2> QED
    BY <1>1, <2>1, <2>2 DEF TopicInv, RoundInv
<1>11. OffersAreNew'
  BY <1>1 DEF TopicInv, OffersAreNew, Claims
<1> QED
  BY <1>9, <1>10, <1>11 DEF TopicInv

\* A proposal was compared, and joins the offer or is left out.
LEMMA Compared ==
    ASSUME TopicInv, node = "topic_dedupe", proposals # << >>,
           UNCHANGED <<wanted, node, round, catalogue, indexings, stood>>,
           NEW hits, Drop(hits), NEW drop \in BOOLEAN, NEW p, p = Head(proposals),
           offer' = IF drop THEN offer ELSE Append(offer, p),
           ~ drop => /\ \A d \in stood : catalogue[d] # Unseen =>
                                           <<p.topic, catalogue[d].about>> \notin Alike
                     /\ ~ Resembles(p)
    PROVE  TopicInv'
<1>1. /\ collisions' = collisions \cup CollidedName(hits) /\ inactive' = FALSE
      /\ proposals' = Tail(proposals)
  BY DEF Drop
<1>2. collisions' = {}
  BY <1>1 DEF CollidedName, Metadata, TopicInv, RoundInv
<1>3. PICK k \in Nat, n \in Nat :
         /\ proposals \in Seq(Proposal) /\ offer \in Seq(Proposal)
         /\ Len(proposals) = n + 1 /\ Len(offer) = k /\ wanted.max \in Nat
  <2>1. proposals \in Seq(Proposal) /\ offer \in Seq(Proposal) /\ wanted.max \in Nat
    BY TopicAssumption DEF TopicInv, TopicTypeOK, Wanted
  <2>2. Len(proposals) \in Nat /\ Len(proposals) # 0 /\ Len(offer) \in Nat
    BY <1>1, <2>1, EmptySeq
  <2>3. Len(proposals) - 1 \in Nat /\ Len(proposals) = (Len(proposals) - 1) + 1
    BY <2>2
  <2> QED
    BY <2>1, <2>2, <2>3
<1>4. /\ p \in Proposal /\ p = proposals[1]
      /\ proposals' \in Seq(Proposal) /\ Len(proposals') = n
      /\ \A j \in 1 .. n : j + 1 \in 1 .. Len(proposals) /\ proposals'[j] = proposals[j + 1]
  BY <1>1, <1>3, HeadTailProperties
<1>6. ~ drop => /\ \A d \in stood : catalogue[d] # Unseen =>
                                      <<p.topic, catalogue[d].about>> \notin Alike
                /\ \A i \in 1 .. k : <<p.topic, offer[i].topic>> \notin Alike
  BY <1>3 DEF Resembles
<1>7. ASSUME NEW i \in 1 .. k, NEW j \in 1 .. n + 1, Claims(offer[i]), Claims(proposals[j])
      PROVE  offer[i].words \cap proposals[j].words = {}
  BY <1>1, <1>3, <1>7 DEF TopicInv, RoundInv
<1>8. ASSUME NEW i \in 1 .. n + 1, NEW j \in 1 .. i - 1, Claims(proposals[i]), Claims(proposals[j])
      PROVE  proposals[i].words \cap proposals[j].words = {}
  BY <1>1, <1>3, <1>8 DEF TopicInv, RoundInv, Apart
<1>9. Apart(proposals)'
  <2>1. ASSUME NEW i \in 1 .. n, NEW j \in 1 .. i - 1, Claims(proposals'[i]), Claims(proposals'[j])
        PROVE  proposals'[i].words \cap proposals'[j].words = {}
    <3>1. i + 1 \in 1 .. n + 1 /\ j + 1 \in 1 .. (i + 1) - 1 /\ j \in 1 .. n
      BY <1>3
    <3>2. proposals'[i] = proposals[i + 1] /\ proposals'[j] = proposals[j + 1]
      BY <1>4, <3>1
    <3> QED
      BY <1>8, <2>1, <3>1, <3>2
  <2> QED
    BY <1>4, <2>1 DEF Apart, Claims
<1>10. k + n + 1 <= wanted.max
  BY <1>1, <1>3 DEF TopicInv, RoundInv
<1>11. CASE drop
  <2>1. offer' = offer
    BY <1>1, <1>11
  <2>2. OffersAreNew'
    BY <1>1, <2>1 DEF TopicInv, OffersAreNew, Claims
  <2>3. ASSUME NEW i \in 1 .. k, NEW j \in 1 .. n, Claims(offer[i]), Claims(proposals'[j])
        PROVE  offer[i].words \cap proposals'[j].words = {}
    <3>1. j + 1 \in 1 .. n + 1 /\ proposals'[j] = proposals[j + 1]
      BY <1>3, <1>4
    <3> QED
      BY <1>7, <2>3, <3>1
  <2>4. k + n <= wanted.max
    BY <1>3, <1>10
  <2>5. RoundInv'
    <3>1. ~ inactive'
      BY <1>1, Zenon
    <3> QED
      BY <1>2, <1>3, <1>4, <1>9, <2>1, <2>3, <2>4, <3>1 DEF RoundInv, Claims
  <2>6. TopicTypeOK'
    BY <1>1, <1>2, <1>4, <2>1 DEF TopicInv, TopicTypeOK
  <2> QED
    BY <2>2, <2>5, <2>6 DEF TopicInv
<1>12. CASE ~ drop
  <2>1. /\ offer' = Append(offer, p) /\ offer' \in Seq(Proposal) /\ Len(offer') = k + 1
        /\ offer'[k + 1] = p /\ \A i \in 1 .. k : offer'[i] = offer[i]
    BY <1>1, <1>3, <1>4, <1>12, AppendProperties
  <2>2. \A i \in 1 .. k + 1 : i \in 1 .. k \/ i = k + 1
    OBVIOUS
  <2>3. ASSUME NEW i \in 1 .. k + 1
        PROVE  /\ \A d \in stood : catalogue[d] # Unseen =>
                                     <<offer'[i].topic, catalogue[d].about>> \notin Alike
               /\ \A j \in 1 .. i - 1 :
                     /\ <<offer'[i].topic, offer'[j].topic>> \notin Alike
                     /\ Claims(offer'[i]) /\ Claims(offer'[j]) =>
                           offer'[i].words \cap offer'[j].words = {}
    <3>1. CASE i = k + 1
      <4>1. \A j \in 1 .. i - 1 : j \in 1 .. k /\ offer'[j] = offer[j]
        BY <2>1, <3>1
      <4>2. offer'[i] = p
        BY <2>1, <3>1
      <4>3. ASSUME NEW j \in 1 .. k, Claims(p), Claims(offer[j])
            PROVE  p.words \cap offer[j].words = {}
        <5>1. 1 \in 1 .. n + 1 /\ p = proposals[1]
          BY <1>4
        <5> QED
          BY <1>7, <4>3, <5>1
      <4> QED
        BY <1>6, <1>12, <4>1, <4>2, <4>3
    <3>2. CASE i \in 1 .. k
      <4>1. offer'[i] = offer[i] /\ \A j \in 1 .. i - 1 : offer'[j] = offer[j]
        BY <2>1, <3>2
      <4>2. /\ \A d \in stood : catalogue[d] # Unseen =>
                                  <<offer[i].topic, catalogue[d].about>> \notin Alike
            /\ \A j \in 1 .. i - 1 :
                  /\ <<offer[i].topic, offer[j].topic>> \notin Alike
                  /\ Claims(offer[i]) /\ Claims(offer[j]) =>
                        offer[i].words \cap offer[j].words = {}
        BY <1>3, <3>2 DEF TopicInv, OffersAreNew
      <4> QED
        BY <4>1, <4>2
    <3> QED
      BY <2>2, <3>1, <3>2
  <2>4. OffersAreNew'
    <3>1. k + 1 <= wanted.max
      BY <1>3, <1>10
    <3> QED
      BY <1>1, <2>1, <2>3, <3>1 DEF OffersAreNew, Claims
  <2>5. ASSUME NEW i \in 1 .. k + 1, NEW j \in 1 .. n, Claims(offer'[i]), Claims(proposals'[j])
        PROVE  offer'[i].words \cap proposals'[j].words = {}
    <3>1. j + 1 \in 1 .. n + 1 /\ proposals'[j] = proposals[j + 1] /\ 1 \in 1 .. (j + 1) - 1
      BY <1>3, <1>4
    <3>2. CASE i \in 1 .. k
      BY <1>7, <2>1, <2>5, <3>1, <3>2
    <3>3. CASE i = k + 1
      <4>1. offer'[i] = proposals[1]
        BY <1>4, <2>1, <3>3
      <4> QED
        BY <1>8, <2>5, <3>1, <4>1
    <3> QED
      BY <2>2, <3>2, <3>3
  <2>6. RoundInv'
    <3>1. (k + 1) + n <= wanted.max
      BY <1>3, <1>10
    <3> QED
      BY <1>1, <1>2, <1>4, <1>9, <2>1, <2>5, <3>1 DEF RoundInv, Claims
  <2>7. TopicTypeOK'
    BY <1>1, <1>2, <1>4, <2>1 DEF TopicInv, TopicTypeOK
  <2> QED
    BY <2>4, <2>6, <2>7 DEF TopicInv
<1> QED
  BY <1>11, <1>12

\* The query for active topics: the proposal is left out, or goes on to the next.
LEMMA DedupeStep == TopicInv /\ TopicDedupe => TopicInv'
<1> SUFFICES ASSUME TopicInv, TopicDedupe PROVE TopicInv'
  OBVIOUS
<1> DEFINE hits == Like(Head(proposals), "active")
<1>1. /\ node = "topic_dedupe" /\ proposals # << >>
      /\ UNCHANGED <<wanted, node, offer, round, catalogue, indexings, stood>>
  BY DEF TopicDedupe
<1>2. CASE hits # {}
  <2>1. Drop(hits)
    BY <1>2 DEF TopicDedupe
  <2> QED
    BY <1>1, <2>1, Compared
<1>3. CASE hits = {}
  <2>1. inactive' = TRUE /\ UNCHANGED <<proposals, collisions>>
    BY <1>3 DEF TopicDedupe
  <2>2. NotActive(Head(proposals))
    BY <1>3 DEF NotActive, Like, TopicInv, TopicTypeOK
  <2>3. NotActive(Head(proposals))'
    BY <1>1, <2>1, <2>2 DEF NotActive
  <2>4. TopicTypeOK'
    BY <1>1, <2>1 DEF TopicInv, TopicTypeOK
  <2>5. RoundInv'
    BY <1>1, <2>1, <2>3 DEF TopicInv, RoundInv, Apart, Claims
  <2>6. OffersAreNew'
    BY <1>1 DEF TopicInv, OffersAreNew, Claims
  <2> QED
    BY <2>4, <2>5, <2>6 DEF TopicInv
<1> QED
  BY <1>2, <1>3

\* The query for rejected topics: a topic that was there all the while was active
\* at the first query or is rejected at this one.
LEMMA RejectedStep == TopicInv /\ TopicDedupeRejected => TopicInv'
<1> SUFFICES ASSUME TopicInv, TopicDedupeRejected PROVE TopicInv'
  OBVIOUS
<1>1. PICK p : p = Head(proposals)
  OBVIOUS
<1>2. PICK hits : hits = Like(p, "mine")
  OBVIOUS
<1>3. PICK drop \in BOOLEAN : drop <=> (hits # {} \/ Resembles(p))
  OBVIOUS
<1>4. /\ node = "topic_dedupe" /\ proposals # << >> /\ inactive
      /\ UNCHANGED <<wanted, node, round, catalogue, indexings, stood>>
      /\ offer' = IF drop THEN offer ELSE Append(offer, p)
      /\ Drop(hits)
  BY <1>1, <1>2, <1>3 DEF TopicDedupeRejected
<1>5. NotActive(p)
  BY <1>1, <1>4 DEF TopicInv, RoundInv
<1>6. ASSUME ~ drop, NEW d \in stood, catalogue[d] # Unseen
      PROVE  <<p.topic, catalogue[d].about>> \notin Alike
  <2>1. d \in Id /\ catalogue[d].status \in {"active", "mine"}
    BY <1>6 DEF TopicInv, TopicTypeOK, Entry
  <2>2. hits = {}
    BY <1>3, <1>6
  <2> QED
    BY <1>2, <1>5, <2>1, <2>2 DEF NotActive, Like
<1> QED
  BY <1>1, <1>3, <1>4, <1>6, Compared

\* Java's changes: what was changed does not stand any more.
LEMMA IndexTopicStep == TopicInv /\ IndexTopic => TopicInv'
<1> SUFFICES ASSUME TopicInv, IndexTopic PROVE TopicInv'
  OBVIOUS
<1>1. /\ UNCHANGED <<wanted, node, inactive, proposals, offer, collisions, round>>
      /\ indexings' = indexings + 1 /\ indexings < MaxIndexed
  BY DEF IndexTopic
<1>2. PICK c \in Id, e \in Entry \cup {Unseen} :
        catalogue' = [catalogue EXCEPT ![c] = e] /\ stood' = stood \ {c}
  BY DEF IndexTopic
<1>3. /\ catalogue' \in [Id -> Entry \cup {Unseen}]
      /\ stood' \subseteq stood /\ \A d \in stood' : catalogue'[d] = catalogue[d]
  BY <1>2 DEF TopicInv, TopicTypeOK
<1>4. TopicTypeOK'
  BY <1>1, <1>3, TopicAssumption DEF TopicInv, TopicTypeOK
<1>5. ASSUME inactive PROVE NotActive(Head(proposals))'
  <2>1. NotActive(Head(proposals))
    BY <1>5 DEF TopicInv, RoundInv
  <2> QED
    BY <1>1, <1>3, <2>1 DEF NotActive
<1>6. RoundInv'
  BY <1>1, <1>5 DEF TopicInv, RoundInv, Apart, Claims
<1>7. OffersAreNew'
  BY <1>1, <1>3 DEF TopicInv, OffersAreNew, Claims
<1> QED
  BY <1>4, <1>6, <1>7 DEF TopicInv

LEMMA OtherTopicSteps ==
    TopicInv /\ (KeywordExtraction \/ TopicDedupeEnds \/ UNCHANGED topicVars) => TopicInv'
<1> SUFFICES ASSUME TopicInv, KeywordExtraction \/ TopicDedupeEnds \/ UNCHANGED topicVars
             PROVE  TopicInv'
  OBVIOUS
<1>1. UNCHANGED <<wanted, inactive, proposals, offer, collisions, round, catalogue, indexings, stood>>
  BY DEF KeywordExtraction, TopicDedupeEnds, topicVars
<1>2. \/ node' = node
      \/ node = "keyword_extraction" /\ node' = "topic_proposal"
      \/ node' = "done" /\ proposals = << >>
  BY DEF KeywordExtraction, TopicDedupeEnds, topicVars, ShouldRetry, TopicInv, RoundInv
<1>3. TopicTypeOK'
  BY <1>1, <1>2 DEF TopicInv, TopicTypeOK
<1>4. ASSUME inactive PROVE (node = "topic_dedupe" /\ proposals # << >> /\ NotActive(Head(proposals)))'
  <2>1. node = "topic_dedupe" /\ proposals # << >> /\ NotActive(Head(proposals))
    BY <1>4 DEF TopicInv, RoundInv
  <2>2. node' = node
    BY <1>2, <2>1
  <2> QED
    BY <1>1, <2>1, <2>2 DEF NotActive
<1>5. RoundInv'
  BY <1>1, <1>2, <1>4 DEF TopicInv, RoundInv, Apart, Claims
<1>6. OffersAreNew'
  BY <1>1 DEF TopicInv, OffersAreNew, Claims
<1> QED
  BY <1>3, <1>5, <1>6 DEF TopicInv

LEMMA TopicInvHolds == TopicSpec => []TopicInv
<1>1. TopicInv /\ [TopicNext]_topicVars => TopicInv'
  BY ProposalStep, DedupeStep, RejectedStep, IndexTopicStep, OtherTopicSteps DEF TopicNext
<1> QED
  BY <1>1, TopicInitInv, PTL DEF TopicSpec

\* A student is offered what was asked for, and no more; nothing twice, nothing
\* that was there all the while, whatever Java changes meanwhile and whatever the
\* model replies.
THEOREM OffersStayNew == TopicSpec => []OffersAreNew
<1>1. TopicInv => OffersAreNew
  BY DEF TopicInv
<1> QED
  BY <1>1, TopicInvHolds, PTL

\* The graph never goes round again: its state is of its type, whatever the bound
\* on the rounds, and no name of a collision is ever there to be avoided.
THEOREM NoSecondRound == TopicSpec => [](TopicTypeOK /\ collisions = {} /\ ~ ShouldRetry)
<1>1. TopicInv => TopicTypeOK /\ collisions = {} /\ ~ ShouldRetry
  BY DEF TopicInv, RoundInv, ShouldRetry
<1> QED
  BY <1>1, TopicInvHolds, PTL

-----------------------------------------------------------------------------
(***************************************************************************)
(* The evaluation of an answer.  A graph is at one of its supersteps: what *)
(* is scheduled belongs to the next one.                                   *)
(***************************************************************************)
Stage(k) ==
    CASE k = 1 -> {"start"}
      [] k = 2 -> {"validity"}
      [] k = 3 -> {"pronunciation", "length"}
      [] k = 4 -> IF kind = "practice" THEN {"merge", "language"} ELSE {"scale", "language"}
      [] k = 5 -> {"merge"}
      [] OTHER -> {}

Broke == cause # {}

\* What a result of the Azure assessment is at last.
Scaled == IF kind = "exam" /\ payload.framed THEN "rubric" ELSE "azure"

\* The graph of a turn that came in as i is in superstep k.
InSuperstep(r, i, k) ==
    /\ r.at # {} /\ r.at \subseteq Stage(k) /\ r.next \subseteq Stage(k + 1)
    /\ r.status # "idle" /\ r.audio = i.audio
    /\ k <= 2 => r.status = "processing" /\ r.next = {} /\ r.pron = "none" /\ r.errors = {}
    /\ k >= 2 => r.text = Transcript(i)
    /\ k >= 3 => ~ Rejects(r.rules)
    /\ k = 3 /\ "pronunciation" \in r.at => r.pron = "none"
    /\ k >= 3 => (k = 3 /\ "pronunciation" \in r.at) \/ r.pron # "none" \/ "pronunciation" \in r.errors
    /\ r.pron \in {"none", "azure", Scaled}
    /\ r.pron # "none" => r.audio
    /\ r.pron = "azure" /\ Scaled = "rubric" => "scale" \in r.at \cup r.next
    /\ r.errors # {} => Broke \/ (~ r.audio /\ "language" \notin r.errors)

\* It ended: something broke, it was rejected, or there is a result.
Ended(r, i) ==
    /\ r.at = {} /\ r.status # "idle"
    /\ r.status = "error" => kind = "practice" \/ Broke
    /\ r.status # "error" =>
         /\ r.text = Transcript(i)
         /\ r.pron \in {"none", "blank", Scaled}
         /\ (r.pron = Scaled) <=> (~ Rejects(r.rules) /\ i.audio)

TurnInv == \A t \in Turn : \/ run[t] = Idle
                           \/ Ended(run[t], input[t])
                           \/ \E k \in 1 .. 5 : InSuperstep(run[t], input[t], k)

AllEnded == \A t \in Asked : Ended(run[t], input[t]) /\ run[t].status # "error"

\* The answer was zeroed for a reason that is not one turn's.
Excused == \/ \A t \in Asked : Heard(t) = "silent"
           \/ \E r \in whole.rules : r.id \in {"profanity", "off_topic"}

WholeInv ==
    /\ phase \in {"validity", "length", "language", "merge"} =>
         /\ AllEnded
         /\ whole.pron # "none" /\ whole.errors \subseteq {"language"}
         /\ whole.errors # {} => Broke
    /\ phase = "validity" => whole.text = Combined
    /\ phase \in {"length", "language", "merge"} /\ Zeroed(whole) => Excused
    /\ event.sent => phase = "completed"

EvaluationInv == /\ TypeOK /\ TurnInv /\ WholeInv
                 /\ OnlyABreakFails /\ ScoreIsOfARecording /\ OneTurnDoesNotZero

\* Two states of a graph with the same results.
SameResults(q, r) ==
    /\ q.status = r.status /\ q.audio = r.audio /\ q.text = r.text /\ q.judged = r.judged
    /\ q.rules = r.rules /\ q.pron = r.pron /\ q.measured = r.measured
    /\ q.language = r.language /\ q.attached = r.attached /\ q.errors = r.errors

\* Leaving a node changes where the graph is, and nothing else.
LEMMA Leaves ==
    ASSUME NEW r \in GraphState, NEW n \in Node, NEW s, s \subseteq Node, NEW q, q = Leave(r, n, s)
    PROVE  /\ q \in GraphState
           /\ r.at \ {n} = {} => q.at = r.next \cup s /\ q.next = {}
           /\ r.at \ {n} # {} => q.at = r.at \ {n} /\ q.next = r.next \cup s
           /\ SameResults(q, r)
<1> DEFINE here == IF r.at \ {n} = {} THEN r.next \cup s ELSE r.at \ {n}
           after == IF r.at \ {n} = {} THEN {} ELSE r.next \cup s
<1>1. r.at \in SUBSET Node /\ r.next \in SUBSET Node
  BY DEF GraphState
<1>2. here \in SUBSET Node /\ after \in SUBSET Node
  BY <1>1
<1>3. q = [r EXCEPT !.at = here, !.next = after]
  BY DEF Leave
<1> HIDE DEF here, after
<1>4. /\ q \in GraphState /\ q.at = here /\ q.next = after
      /\ SameResults(q, r)
  BY <1>2, <1>3 DEF GraphState, SameResults
<1> QED
  BY <1>4 DEF here, after

\* A node that schedules something leaves the graph in its superstep or the next.
LEMMA Advances ==
    ASSUME NEW r \in GraphState, NEW k \in 1 .. 4, NEW n \in r.at, NEW s, s # {},
           s \subseteq Stage(k + 1), r.at \subseteq Stage(k), r.next \subseteq Stage(k + 1),
           NEW q, q = Leave(r, n, s)
    PROVE  /\ q \in GraphState
           /\ SameResults(q, r)
           /\ q.at \cup q.next = (r.at \ {n}) \cup r.next \cup s
           /\ q.at # {}
           /\ \/ q.at = r.at \ {n} /\ q.at \subseteq Stage(k) /\ q.next \subseteq Stage(k + 1)
              \/ /\ r.at = {n} /\ q.at = r.next \cup s /\ q.next = {}
                 /\ q.at \subseteq Stage(k + 1) /\ q.next \subseteq Stage(k + 2)
<1>1. n \in Node /\ Stage(k + 1) \subseteq Node
  BY DEF GraphState, Stage, Node
<1>2. s \subseteq Node
  BY <1>1
<1>3. /\ q \in GraphState
      /\ r.at \ {n} = {} => q.at = r.next \cup s /\ q.next = {}
      /\ r.at \ {n} # {} => q.at = r.at \ {n} /\ q.next = r.next \cup s
      /\ SameResults(q, r)
  <2>1. n \in Node
    BY <1>1
  <2>2. q \in GraphState
    BY <1>2, <2>1, Leaves
  <2>3. r.at \ {n} = {} => q.at = r.next \cup s /\ q.next = {}
    BY <1>2, <2>1, Leaves
  <2>4. r.at \ {n} # {} => q.at = r.at \ {n} /\ q.next = r.next \cup s
    BY <1>2, <2>1, Leaves
  <2>5. SameResults(q, r)
    BY <1>2, <2>1, Leaves
  <2> QED
    BY <2>2, <2>3, <2>4, <2>5
<1>4. CASE r.at \ {n} = {}
  <2>1. r.at = {n} /\ q.at = r.next \cup s /\ q.next = {}
    BY <1>3, <1>4
  <2> QED
    BY <1>3, <2>1
<1>5. CASE r.at \ {n} # {}
  <2>1. q.at = r.at \ {n} /\ q.next = r.next \cup s
    BY <1>3, <1>5
  <2> QED
    BY <1>3, <1>5, <2>1
<1> QED
  BY <1>4, <1>5

\* Where a node is found tells the superstep.
LEMMA StageOf ==
    ASSUME kind \in {"exam", "practice"}, NEW k \in 1 .. 5, NEW n \in Stage(k)
    PROVE  /\ n = "start" => k = 1
           /\ n = "validity" => k = 2
           /\ n \in {"pronunciation", "length"} => k = 3
           /\ n = "scale" => k = 4 /\ kind = "exam"
           /\ n = "language" => k = 4
           /\ n = "merge" => k = 5 \/ (k = 4 /\ kind = "practice")
  BY DEF Stage

\* The constants.
LEMMA Given ==
    ASSUME TypeOK
    PROVE  /\ kind \in {"exam", "practice"} /\ turns \in Turn /\ Asked \subseteq Turn
           /\ input \in [Turn -> Input] /\ run \in [Turn -> GraphState]
  BY KindAssumption DEF TypeOK, Turn, Asked

\* What a turn's step does to the invariant: the graph of one turn moves.
LEMMA OneTurn ==
    ASSUME EvaluationInv, NEW t \in Asked, phase = "turns",
           UNCHANGED <<kind, turns, payload, input, phase, whole, event>>,
           cause \subseteq cause', cause' \subseteq Cause,
           NEW q \in GraphState, run' = [run EXCEPT ![t] = q],
           Ended(q, input[t])' \/ \E k \in 1 .. 5 : InSuperstep(q, input[t], k)'
    PROVE  EvaluationInv'
<1>1. /\ kind \in {"exam", "practice"} /\ Asked \subseteq Turn /\ t \in Turn
      /\ run \in [Turn -> GraphState]
  BY Given DEF EvaluationInv
<1>2. TypeOK'
  BY <1>1 DEF EvaluationInv, TypeOK
<1>3. TurnInv'
  <2> SUFFICES ASSUME NEW u \in Turn
               PROVE  (\/ run[u] = Idle \/ Ended(run[u], input[u])
                       \/ \E k \in 1 .. 5 : InSuperstep(run[u], input[u], k))'
    BY DEF TurnInv
  <2>1. CASE u = t
    <3>1. run'[u] = q /\ input' = input
      BY <1>1, <2>1
    <3> QED
      BY <2>1, <3>1
  <2>2. CASE u # t
    <3>1. run'[u] = run[u] /\ input' = input /\ kind' = kind /\ (Broke => Broke')
      BY <1>1, <2>2 DEF Broke
    <3>2. \/ run[u] = Idle \/ Ended(run[u], input[u])
          \/ \E k \in 1 .. 5 : InSuperstep(run[u], input[u], k)
      BY DEF EvaluationInv, TurnInv
    <3>3. Ended(run[u], input[u]) => Ended(run[u], input[u])'
      BY <3>1 DEF Ended, Scaled, Transcript, HasLive
    <3>4. ASSUME NEW k \in 1 .. 5, InSuperstep(run[u], input[u], k)
          PROVE  InSuperstep(run[u], input[u], k)'
      <4>1. Stage(k)' = Stage(k) /\ Stage(k + 1)' = Stage(k + 1)
        BY <3>1 DEF Stage
      <4>2. Transcript(input[u])' = Transcript(input[u]) /\ Scaled' = Scaled
        BY <3>1 DEF Transcript, HasLive, Scaled
      <4> HIDE DEF Stage, Transcript, Scaled, Broke
      <4> QED
        BY <3>1, <3>4, <4>1, <4>2 DEF InSuperstep
    <3> QED
      BY <3>1, <3>2, <3>3, <3>4
  <2> QED
    BY <2>1, <2>2
<1>4. WholeInv' /\ OnlyABreakFails' /\ ScoreIsOfARecording' /\ OneTurnDoesNotZero'
  BY DEF EvaluationInv, WholeInv, OnlyABreakFails, ScoreIsOfARecording, OneTurnDoesNotZero
<1> QED
  BY <1>2, <1>3, <1>4 DEF EvaluationInv

\* The graph of a turn that runs a node is in the superstep of the node.
LEMMA RunsIn ==
    ASSUME EvaluationInv, NEW t, NEW n, Runs(t, n)
    PROVE  /\ phase = "turns" /\ t \in Asked /\ t \in Turn /\ run[t] \in GraphState
           /\ input[t] \in Input /\ kind \in {"exam", "practice"} /\ n \in run[t].at
           /\ \E k \in 1 .. 5 : InSuperstep(run[t], input[t], k) /\ n \in Stage(k)
<1>1. phase = "turns" /\ t \in Asked /\ n \in run[t].at
  BY DEF Runs
<1>2. t \in Turn /\ run[t] \in GraphState /\ input[t] \in Input /\ kind \in {"exam", "practice"}
  BY <1>1, Given DEF EvaluationInv
<1>3. run[t] # Idle /\ ~ Ended(run[t], input[t])
  BY <1>1 DEF Idle, Ended
<1>4. \E k \in 1 .. 5 : InSuperstep(run[t], input[t], k)
  BY <1>2, <1>3 DEF EvaluationInv, TurnInv
<1>5. ASSUME NEW k \in 1 .. 5, InSuperstep(run[t], input[t], k) PROVE n \in Stage(k)
  BY <1>1, <1>5 DEF InSuperstep
<1> QED
  BY <1>1, <1>2, <1>4, <1>5

\* A request begins, or its recording cannot be fetched.
LEMMA BeginTurnStep ==
    ASSUME EvaluationInv, NEW t \in Turn, BeginTurn(t)
    PROVE  EvaluationInv'
<1>1. /\ phase = "turns" /\ t \in Asked
      /\ UNCHANGED <<kind, turns, payload, input, phase, whole, event>>
  BY DEF BeginTurn
<1>2. kind \in {"exam", "practice"} /\ input[t] \in Input /\ cause \subseteq Cause
  BY Given DEF EvaluationInv, TypeOK
<1>3. run[t] = Idle
  <2>1. run[t].status = "idle"
    BY DEF BeginTurn
  <2> QED
    BY <2>1 DEF EvaluationInv, TurnInv, Ended, InSuperstep
<1>4. Idle \in GraphState
  BY DEF Idle, GraphState, TextClass, Said
<1>5. CASE run' = [run EXCEPT ![t] = [Idle EXCEPT !.status = "processing", !.audio = input[t].audio,
                                                !.at = {"start"}]] /\ UNCHANGED cause
  <2>1. input[t].audio \in BOOLEAN
    BY <1>2 DEF Input
  <2>2. PICK q \in GraphState :
          q = [Idle EXCEPT !.status = "processing", !.audio = input[t].audio, !.at = {"start"}]
    BY <2>1 DEF Idle, GraphState, Node, TextClass, Said
  <2>3. q.at = {"start"} /\ q.next = {} /\ q.status = "processing"
        /\ q.audio = input[t].audio /\ q.pron = "none" /\ q.errors = {}
    BY <2>1, <2>2 DEF Idle
  <2>4. run' = [run EXCEPT ![t] = q]
    BY <1>5, <2>2
  <2>5. InSuperstep(q, input[t], 1)'
    <3>1. Stage(1)' = {"start"}
      BY DEF Stage
    <3> QED
      BY <1>1, <2>3, <3>1 DEF InSuperstep
  <2>6. (\E k \in 1 .. 5 : InSuperstep(q, input[t], k))'
    BY <2>5
  <2> QED
    BY <1>1, <1>2, <1>5, <2>4, <2>6, OneTurn
<1>6. CASE run' = [run EXCEPT ![t].status = "error"] /\ (\E c \in Cause : cause' = cause \cup {c})
  <2>1. PICK q \in GraphState : q = [Idle EXCEPT !.status = "error"]
    BY DEF Idle, GraphState, TextClass, Said
  <2>2. q.at = {} /\ q.status = "error"
    BY <2>1 DEF Idle
  <2>3. run' = [run EXCEPT ![t] = q]
    BY <1>3, <1>6, <2>1
  <2>4. Ended(q, input[t])'
    BY <1>6, <2>2 DEF Ended, Broke
  <2> QED
    BY <1>1, <1>2, <1>6, <2>3, <2>4, OneTurn
<1> QED
  BY <1>5, <1>6 DEF BeginTurn, Cause

\* What the rules of a text are.
LEMMA RulesOf ==
    ASSUME NEW text \in TextClass, NEW fragment \in BOOLEAN, NEW rules \in ValidityOf(text, fragment)
    PROVE  /\ rules \in SUBSET Rule
           /\ \A r \in rules \ Gates(text) : r = TooShort \/ r.id \in {"profanity", "off_topic"}
           /\ Gates(text) \subseteq rules
<1>1. \A r \in Reply : Normalized(r) \in Rule /\ Normalized(r).id \in {"profanity", "off_topic"}
  <2> TAKE r \in Reply
  <2>1. /\ r.id \in {"profanity", "off_topic"} /\ r.action \in {"reject_or_zero", "score_with_penalty", "unset"}
    BY ReplyAssumption
  <2>2. (r.blocking # "no") \in BOOLEAN
    OBVIOUS
  <2> QED
    BY <2>1, <2>2 DEF Normalized, Rule, Critical
<1>2. PICK s \in SUBSET {TooShort}, m \in SUBSET {Normalized(r) : r \in Reply} :
        rules = Gates(text) \cup s \cup m
  BY DEF ValidityOf
<1>3. NoSpeech \in Rule /\ WrongLanguage \in Rule /\ TooShort \in Rule
  <2>1. TooShort \in Rule
    BY DEF TooShort, Rule
  <2>2. NoSpeech \in Rule
    BY DEF NoSpeech, Rule, Critical
  <2>3. WrongLanguage \in Rule
    BY <2>2 DEF WrongLanguage, Rule
  <2> QED
    BY <2>1, <2>2, <2>3
<1>4. \A r \in m : r \in Rule /\ r.id \in {"profanity", "off_topic"}
  BY <1>1, <1>2
<1>5. rules \in SUBSET Rule
  BY <1>2, <1>3, <1>4 DEF Gates
<1> QED
  BY <1>2, <1>4, <1>5

\* A node of the third or fourth superstep is done: its results are there, what
\* was there stays.
LEMMA Proceeds ==
    ASSUME kind \in {"exam", "practice"}, UNCHANGED <<kind, payload>>, Broke => Broke',
           NEW r \in GraphState, NEW i, NEW k \in 3 .. 4, InSuperstep(r, i, k),
           NEW n \in r.at, NEW s, s # {}, s \subseteq Stage(k + 1),
           NEW p, p = Leave(r, n, s), NEW q,
           q.at = p.at, q.next = p.next, q.status # "idle", q.audio = p.audio, q.text = p.text,
           q.rules = p.rules, r.errors \subseteq q.errors,
           q.pron \in {"none", "azure", Scaled}, q.pron # "none" => r.audio,
           r.pron # "none" => q.pron # "none", n # "scale" /\ n # "pronunciation" => q.pron = r.pron,
           n = "pronunciation" => q.pron # "none" \/ "pronunciation" \in q.errors,
           q.pron = "azure" /\ Scaled = "rubric" => n # "scale" /\ (r.pron = "azure" \/ "scale" \in s),
           (q.errors # {} => Broke \/ (~ r.audio /\ "language" \notin q.errors))'
    PROVE  \E j \in 1 .. 5 : InSuperstep(q, i, j)'
<1>1. /\ SameResults(p, r)
      /\ p.at \cup p.next = (r.at \ {n}) \cup r.next \cup s
      /\ p.at # {}
      /\ \/ p.at = r.at \ {n} /\ p.at \subseteq Stage(k) /\ p.next \subseteq Stage(k + 1)
         \/ /\ r.at = {n} /\ p.at = r.next \cup s /\ p.next = {}
            /\ p.at \subseteq Stage(k + 1) /\ p.next \subseteq Stage(k + 2)
  <2>1. k \in 1 .. 4 /\ r.at \subseteq Stage(k) /\ r.next \subseteq Stage(k + 1)
    BY DEF InSuperstep
  <2> QED
    BY <2>1, Advances
<1>2. n \in Stage(k) /\ k \in 1 .. 5
  BY DEF InSuperstep
<1>3. /\ n \in {"pronunciation", "length"} => k = 3
      /\ n \in {"scale", "language"} => k = 4
  BY <1>2, StageOf
<1>4. Transcript(i)' = Transcript(i) /\ Scaled' = Scaled
      /\ \A j \in 1 .. 6 : Stage(j)' = Stage(j)
  BY DEF Transcript, HasLive, Scaled, Stage
<1>5. /\ q.at # {} /\ q.status # "idle" /\ q.audio = i.audio
      /\ q.text = Transcript(i) /\ ~ Rejects(q.rules)
      /\ q.pron \in {"none", "azure", Scaled}
      /\ q.pron # "none" => q.audio
  BY <1>1 DEF InSuperstep, SameResults
<1>6. q.pron = "azure" /\ Scaled = "rubric" => "scale" \in q.at \cup q.next
  BY <1>1 DEF InSuperstep
<1>7. (q.errors # {} => Broke \/ (~ q.audio /\ "language" \notin q.errors))'
  BY <1>1 DEF SameResults
<1>8. "pronunciation" \in r.at \/ r.pron # "none" \/ "pronunciation" \in r.errors
  BY DEF InSuperstep
<1>9. q.pron # "none" \/ "pronunciation" \in q.errors \/ (n # "pronunciation" /\ "pronunciation" \in r.at)
  BY <1>8
<1>10. "pronunciation" \in r.at => k = 3
  <2>1. "pronunciation" \in r.at => "pronunciation" \in Stage(k)
    BY DEF InSuperstep
  <2> QED
    BY <1>2, <2>1, StageOf
<1>11. CASE p.at = r.at \ {n} /\ p.at \subseteq Stage(k) /\ p.next \subseteq Stage(k + 1)
  <2>1. k = 3 /\ "pronunciation" \in q.at => q.pron = "none"
    BY <1>3, <1>11 DEF InSuperstep
  <2>2. (k = 3 /\ "pronunciation" \in q.at) \/ q.pron # "none" \/ "pronunciation" \in q.errors
    BY <1>9, <1>10, <1>11
  <2>3. Stage(k)' = Stage(k) /\ Stage(k + 1)' = Stage(k + 1)
    BY <1>4
  <2>4. InSuperstep(q, i, k)'
    BY <1>4, <1>5, <1>6, <1>7, <1>11, <2>1, <2>2, <2>3 DEF InSuperstep
  <2> QED
    BY <2>4
<1>12. CASE /\ r.at = {n} /\ p.at = r.next \cup s /\ p.next = {}
            /\ p.at \subseteq Stage(k + 1) /\ p.next \subseteq Stage(k + 2)
  <2>1. q.pron # "none" \/ "pronunciation" \in q.errors
    BY <1>9, <1>12
  <2>2. PICK j \in 4 .. 5 : j = k + 1
    OBVIOUS
  <2>3. Stage(j)' = Stage(j) /\ Stage(j + 1)' = Stage(j + 1)
    BY <1>4
  <2>4. InSuperstep(q, i, j)'
    BY <1>4, <1>5, <1>6, <1>7, <1>12, <2>1, <2>2, <2>3 DEF InSuperstep
  <2> QED
    BY <2>4
<1> QED
  BY <1>1, <1>11, <1>12

\* The text of the turn is known, or its transcription broke.
LEMMA StartStep ==
    ASSUME EvaluationInv, NEW t \in Turn, Start(t)
    PROVE  EvaluationInv'
<1>1. Runs(t, "start") /\ UNCHANGED <<kind, turns, payload, input, phase, whole, event>>
  BY DEF Start
<1>2. PICK k \in 1 .. 5 : InSuperstep(run[t], input[t], k) /\ "start" \in Stage(k)
  BY <1>1, RunsIn
<1>3. /\ phase = "turns" /\ t \in Asked /\ run[t] \in GraphState /\ input[t] \in Input
      /\ kind \in {"exam", "practice"} /\ "start" \in run[t].at
      /\ cause \subseteq Cause
  BY <1>1, RunsIn DEF EvaluationInv, TypeOK
<1>4. k = 1
  BY <1>2, <1>3, StageOf
<1>5a. PICK i \in Input : i = input[t]
  BY <1>3
<1>5b. PICK r \in GraphState : r = run[t]
  BY <1>3
<1>5. i = input[t] /\ r = run[t]
  BY <1>5a, <1>5b
<1>6. /\ r.at = {"start"} /\ r.status # "idle" /\ r.audio = i.audio
      /\ r.pron = "none" /\ r.errors = {} /\ r.next = {}
      /\ r.status = "processing"
  BY <1>2, <1>4, <1>5 DEF InSuperstep, Stage
<1>7. Transcript(i) \in TextClass
  BY <1>3, <1>5 DEF Transcript, Input, TextClass, Said
<1>8. CASE /\ run' = [run EXCEPT ![t] = [Leave(run[t], "start", Successors("start"))
                                           EXCEPT !.text = Transcript(input[t])]]
           /\ UNCHANGED cause
  <2>1. Successors("start") = {"validity"}
    BY DEF Successors, PracticeEdges, Edges
  <2>2. PICK p : p = Leave(r, "start", {"validity"})
    OBVIOUS
  <2>3. p \in GraphState /\ p.at = {"validity"} /\ p.next = {} /\ SameResults(p, r)
    <3>1. "start" \in Node /\ {"validity"} \subseteq Node /\ r.at \ {"start"} = {}
      BY <1>6 DEF Node
    <3> QED
      BY <1>6, <2>2, <3>1, Leaves
  <2>4. PICK q : q = [p EXCEPT !.text = Transcript(i)]
    OBVIOUS
  <2>5. /\ q \in GraphState /\ q.at = {"validity"} /\ q.next = {} /\ q.text = Transcript(i)
        /\ q.status = p.status /\ q.audio = p.audio /\ q.pron = p.pron /\ q.errors = p.errors
    BY <1>7, <2>3, <2>4 DEF GraphState
  <2>6. run' = [run EXCEPT ![t] = q]
    BY <1>5, <1>8, <2>1, <2>2, <2>4
  <2>7. InSuperstep(q, i, 2)'
    <3>1. Stage(2)' = {"validity"} /\ Transcript(i)' = Transcript(i)
      BY <1>1 DEF Stage, Transcript, HasLive
    <3> QED
      BY <1>6, <2>3, <2>5, <3>1 DEF InSuperstep, SameResults
  <2>8. (\E j \in 1 .. 5 : InSuperstep(q, input[t], j))'
    BY <1>1, <1>5, <2>7
  <2> QED
    BY <1>1, <1>3, <1>8, <2>5, <2>6, <2>8, OneTurn
<1>9. CASE /\ run' = [run EXCEPT ![t] = [Leave(run[t], "start", {}) EXCEPT !.status = "error"]]
           /\ cause' = cause \cup {"recording"}
  <2>0. PICK s : s = {}
    OBVIOUS
  <2>1. PICK p : p = Leave(r, "start", s)
    OBVIOUS
  <2>2. p \in GraphState /\ p.at = {}
    <3>1. "start" \in Node /\ s \subseteq Node /\ r.at \ {"start"} = {}
      BY <1>6, <2>0 DEF Node
    <3>2. p.at = r.next \cup s
      BY <2>1, <3>1, Leaves
    <3>3. p \in GraphState
      BY <2>1, <3>1, Leaves
    <3> QED
      BY <1>6, <2>0, <3>2, <3>3
  <2>3. PICK q : q = [p EXCEPT !.status = "error"]
    OBVIOUS
  <2>4. q \in GraphState /\ q.at = {} /\ q.status = "error"
    BY <2>2, <2>3 DEF GraphState
  <2>5. run' = [run EXCEPT ![t] = q]
    BY <1>5, <1>9, <2>0, <2>1, <2>3
  <2>6. Ended(q, input[t])'
    BY <1>9, <2>4 DEF Ended, Broke
  <2> QED
    BY <1>1, <1>3, <1>9, <2>4, <2>5, <2>6, OneTurn DEF Cause
<1> QED
  BY <1>8, <1>9 DEF Start

\* The graph of a turn that was rejected ends, another one goes on.
LEMMA ValidityStep ==
    ASSUME EvaluationInv, NEW t \in Turn, Validity(t)
    PROVE  EvaluationInv'
<1>1. Runs(t, "validity") /\ UNCHANGED <<kind, turns, payload, input, phase, whole, event, cause>>
  BY DEF Validity
<1>2. PICK k \in 1 .. 5 : InSuperstep(run[t], input[t], k) /\ "validity" \in Stage(k)
  BY <1>1, RunsIn
<1>3. /\ phase = "turns" /\ t \in Asked /\ run[t] \in GraphState /\ input[t] \in Input
      /\ kind \in {"exam", "practice"} /\ "validity" \in run[t].at
      /\ cause \subseteq Cause
  BY <1>1, RunsIn DEF EvaluationInv, TypeOK
<1>4. k = 2
  BY <1>2, <1>3, StageOf
<1>5. PICK i \in Input : i = input[t]
  BY <1>3
<1>6. PICK r \in GraphState : r = run[t]
  BY <1>3
<1>7. /\ r.at = {"validity"} /\ r.status # "idle" /\ r.audio = i.audio
      /\ r.text = Transcript(i) /\ r.pron = "none" /\ r.errors = {} /\ r.next = {}
      /\ r.status = "processing"
  BY <1>2, <1>4, <1>5, <1>6 DEF InSuperstep, Stage
<1>8. PICK rules \in ValidityOf(r.text, Fragment) :
        run' = [run EXCEPT ![t] = [Leave(r, "validity", AfterValidity(rules))
                                     EXCEPT !.judged = TRUE, !.rules = rules]]
  BY <1>6 DEF Validity
<1>9. rules \in SUBSET Rule
  <2>1. r.text \in TextClass
    BY DEF GraphState
  <2>2. Fragment \in BOOLEAN
    BY DEF Fragment
  <2> QED
    BY <1>8, <2>1, <2>2, RulesOf
<1>10. PICK s : s = AfterValidity(rules)
  OBVIOUS
<1>11. PICK p : p = Leave(r, "validity", s)
  OBVIOUS
<1>12. s \subseteq {"pronunciation", "length"} /\ (s = {} <=> Rejects(rules))
       /\ (s # {} => "pronunciation" \in s)
  BY <1>10 DEF AfterValidity
<1>13. p \in GraphState /\ p.at = s /\ p.next = {} /\ SameResults(p, r)
  <2>1. "validity" \in Node /\ s \subseteq Node /\ r.at \ {"validity"} = {}
    BY <1>7, <1>12 DEF Node
  <2>2. p.at = r.next \cup s /\ p.next = {}
    BY <1>11, <2>1, Leaves
  <2>3. p \in GraphState
    BY <1>11, <2>1, Leaves
  <2>4. SameResults(p, r)
    BY <1>11, <2>1, Leaves
  <2> QED
    BY <1>7, <2>2, <2>3, <2>4
<1>14. PICK q : q = [p EXCEPT !.judged = TRUE, !.rules = rules]
  OBVIOUS
<1>15. /\ q \in GraphState /\ q.at = s /\ q.next = {} /\ q.rules = rules
       /\ q.status = r.status /\ q.audio = r.audio /\ q.text = r.text
       /\ q.pron = r.pron /\ q.errors = r.errors
  BY <1>9, <1>13, <1>14 DEF GraphState, SameResults
<1>16. run' = [run EXCEPT ![t] = q]
  BY <1>8, <1>10, <1>11, <1>14
<1>17. Transcript(i)' = Transcript(i) /\ input'[t] = i /\ kind' = kind
  BY <1>1, <1>5 DEF Transcript, HasLive
<1>18. CASE s = {}
  <2>1. Rejects(q.rules) /\ q.at = {} /\ q.status # "idle" /\ q.text = Transcript(i) /\ q.pron = "none"
    BY <1>7, <1>12, <1>15, <1>18
  <2>3. q.status # "error"
    BY <1>7, <1>15
  <2>4. Scaled' \in {"azure", "rubric"}
    BY DEF Scaled
  <2>5. Ended(q, input[t])'
    BY <1>17, <2>1, <2>3, <2>4 DEF Ended
  <2> QED
    BY <1>1, <1>3, <1>15, <1>16, <2>5, OneTurn
<1>19. CASE s # {}
  <2>1. Stage(3)' = {"pronunciation", "length"}
    BY DEF Stage
  <2>2. "pronunciation" \in q.at /\ ~ Rejects(q.rules) /\ q.at \subseteq {"pronunciation", "length"}
    BY <1>12, <1>15, <1>19
  <2>3. InSuperstep(q, i, 3)'
    BY <1>7, <1>15, <1>17, <2>1, <2>2 DEF InSuperstep
  <2>4. (\E j \in 1 .. 5 : InSuperstep(q, input[t], j))'
    BY <1>17, <2>3
  <2> QED
    BY <1>1, <1>3, <1>15, <1>16, <2>4, OneTurn
<1> QED
  BY <1>18, <1>19

\* What scheduling does in the third and fourth supersteps.
LEMMA Schedules ==
    ASSUME EvaluationInv, NEW t, NEW n, n \in {"pronunciation", "length", "scale", "language"}, Runs(t, n)
    PROVE  \E k \in 3 .. 4 :
              /\ InSuperstep(run[t], input[t], k)
              /\ Successors(n) # {} /\ Successors(n) \subseteq Stage(k + 1)
              /\ n = "pronunciation" => k = 3 /\ run[t].pron = "none"
              /\ n = "pronunciation" /\ kind = "exam" => "scale" \in Successors(n)
              /\ n = "scale" => kind = "exam" /\ (run[t].pron # "none" \/ run[t].errors # {})
<1>1. PICK k \in 1 .. 5 : InSuperstep(run[t], input[t], k) /\ n \in Stage(k)
  BY RunsIn
<1>2. kind \in {"exam", "practice"} /\ n \in run[t].at
  BY RunsIn
<1>3. /\ n = "pronunciation" \/ n = "length" => k = 3
      /\ n = "scale" => k = 4 /\ kind = "exam"
      /\ n = "language" => k = 4
  BY <1>1, <1>2, StageOf
<1>4. k \in 3 .. 4
  BY <1>3
<1>5. Stage(4) = (IF kind = "practice" THEN {"merge", "language"} ELSE {"scale", "language"})
      /\ Stage(5) = {"merge"}
  BY DEF Stage
<1>6. Successors(n) # {} /\ Successors(n) \subseteq Stage(k + 1)
  <2>1. CASE k = 3
    BY <1>2, <1>3, <1>5, <2>1 DEF Successors, PracticeEdges, Edges
  <2>2. CASE k = 4
    BY <1>2, <1>3, <1>5, <2>2 DEF Successors, PracticeEdges, Edges
  <2> QED
    BY <1>4, <2>1, <2>2
<1>7. n = "pronunciation" => k = 3 /\ run[t].pron = "none"
  BY <1>1, <1>2, <1>3 DEF InSuperstep
<1>8. n = "pronunciation" /\ kind = "exam" => "scale" \in Successors(n)
  BY DEF Successors, Edges
<1>9. n = "scale" => kind = "exam" /\ (run[t].pron # "none" \/ run[t].errors # {})
  BY <1>1, <1>3 DEF InSuperstep
<1> QED
  BY <1>1, <1>4, <1>6, <1>7, <1>8, <1>9

\* A graph in the same place and with the same transcript and rules.
SameGraph(q, p) ==
    /\ q.at = p.at /\ q.next = p.next /\ q.status = p.status
    /\ q.audio = p.audio /\ q.text = p.text /\ q.rules = p.rules

\* What node n, which schedules s, may have made of r's results.
Outcome(r, n, s, q) ==
    /\ r.errors \subseteq q.errors
    /\ q.pron \in {"none", "azure", Scaled} /\ (q.pron # "none" => r.audio)
    /\ r.pron # "none" => q.pron # "none"
    /\ n # "scale" /\ n # "pronunciation" => q.pron = r.pron
    /\ n = "pronunciation" => q.pron # "none" \/ "pronunciation" \in q.errors
    /\ q.pron = "azure" /\ Scaled = "rubric" => n # "scale" /\ (r.pron = "azure" \/ "scale" \in s)

\* Something broke, or there was nothing to assess.
Explained(q, r) == q.errors # {} => Broke \/ (~ r.audio /\ "language" \notin q.errors)

\* Such a node keeps the invariant.
LEMMA NodeEnds ==
    ASSUME EvaluationInv, NEW t, NEW n, Runs(t, n),
           UNCHANGED <<kind, turns, payload, input, phase, whole, event>>,
           cause \subseteq cause', cause' \subseteq Cause,
           NEW r \in GraphState, r = run[t], NEW i, i = input[t],
           NEW k \in 3 .. 4, InSuperstep(r, i, k), NEW s, s # {}, s \subseteq Stage(k + 1),
           NEW p, p = Leave(r, n, s), SameResults(p, r),
           NEW q \in GraphState, run' = [run EXCEPT ![t] = q],
           SameGraph(q, p), Outcome(r, n, s, q), Explained(q, r)'
    PROVE  EvaluationInv'
<1>1. t \in Asked /\ phase = "turns" /\ kind \in {"exam", "practice"} /\ n \in r.at
  BY RunsIn
<1>2. Broke => Broke'
  BY DEF Broke
<1>3. q.status # "idle"
  BY DEF InSuperstep, SameGraph, SameResults
<1>4. \E j \in 1 .. 5 : InSuperstep(q, i, j)'
  <2>1. r.errors \subseteq q.errors /\ q.pron \in {"none", "azure", Scaled}
        /\ (q.pron # "none" => r.audio) /\ (r.pron # "none" => q.pron # "none")
        /\ (n # "scale" /\ n # "pronunciation" => q.pron = r.pron)
        /\ (n = "pronunciation" => q.pron # "none" \/ "pronunciation" \in q.errors)
        /\ (q.pron = "azure" /\ Scaled = "rubric" => n # "scale" /\ (r.pron = "azure" \/ "scale" \in s))
    BY DEF Outcome
  <2>2. (q.errors # {} => Broke \/ (~ r.audio /\ "language" \notin q.errors))'
    BY DEF Explained
  <2>3. q.at = p.at /\ q.next = p.next /\ q.audio = p.audio /\ q.text = p.text /\ q.rules = p.rules
    BY DEF SameGraph
  <2>4. UNCHANGED <<kind, payload>>
    OBVIOUS
  <2> QED
    BY <1>1, <1>2, <1>3, <2>1, <2>2, <2>3, <2>4, Proceeds
<1>5. (\E j \in 1 .. 5 : InSuperstep(q, input[t], j))'
  BY <1>4
<1> QED
  BY <1>1, <1>5, OneTurn

\* The recording is assessed, or cannot be.
LEMMA PronunciationStep ==
    ASSUME EvaluationInv, NEW t \in Turn, Pronunciation(t)
    PROVE  EvaluationInv'
<1>1. Runs(t, "pronunciation") /\ UNCHANGED <<kind, turns, payload, input, phase, whole, event>>
  BY DEF Pronunciation
<1>2. /\ run[t] \in GraphState /\ kind \in {"exam", "practice"}
      /\ cause \subseteq Cause
  BY <1>1, RunsIn DEF EvaluationInv, TypeOK
<1>3. PICK n : n = "pronunciation"
  OBVIOUS
<1>4. PICK k \in 3 .. 4 :
        /\ InSuperstep(run[t], input[t], k)
        /\ Successors(n) # {} /\ Successors(n) \subseteq Stage(k + 1)
        /\ n = "pronunciation" => k = 3 /\ run[t].pron = "none"
        /\ n = "pronunciation" /\ kind = "exam" => "scale" \in Successors(n)
        /\ n = "scale" => kind = "exam" /\ (run[t].pron # "none" \/ run[t].errors # {})
  BY <1>1, <1>3, Schedules
<1>5. PICK r \in GraphState : r = run[t]
  BY <1>2
<1>6. PICK i : i = input[t]
  OBVIOUS
<1>7. PICK s : s = Successors(n)
  OBVIOUS
<1>8. PICK p : p = Leave(r, n, s)
  OBVIOUS
<1>9. p \in GraphState /\ SameResults(p, r)
  <2>1. k \in 1 .. 4 /\ n \in r.at /\ r.at \subseteq Stage(k) /\ r.next \subseteq Stage(k + 1)
    BY <1>1, <1>3, <1>4, <1>5 DEF InSuperstep, Runs
  <2> QED
    BY <1>4, <1>7, <1>8, <2>1, Advances
<1>10. /\ r.pron \in {"none", "azure", Scaled} /\ (r.pron # "none" => r.audio)
       /\ r.errors # {} => Broke \/ (~ r.audio /\ "language" \notin r.errors)
       /\ r.pron = "azure" /\ Scaled = "rubric" => "scale" \in r.at \cup r.next
  BY <1>4, <1>5 DEF InSuperstep
<1>12. CASE /\ run[t].audio /\ UNCHANGED cause
           /\ run' = [run EXCEPT ![t] = [Leave(run[t], "pronunciation", Successors("pronunciation")) EXCEPT !.pron = "azure"]]
  <2>1. PICK q : q = [p EXCEPT !.pron = "azure"]
    OBVIOUS
  <2>2. /\ q \in GraphState /\ SameGraph(q, p)
        /\ q.pron = "azure" /\ q.errors = r.errors
    BY <1>9, <2>1 DEF GraphState, SameResults, SameGraph
  <2>3. run' = [run EXCEPT ![t] = q]
    BY <1>3, <1>5, <1>7, <1>8, <1>12, <2>1
  <2>4. cause \subseteq cause' /\ cause' \subseteq Cause
        /\ (Broke => Broke')
    BY <1>1, <1>2, <1>12 DEF Broke
  <2>5. Explained(q, r)'
    BY <1>1, <1>10, <1>12, <2>2, <2>4 DEF Explained, Broke
  <2>6. Outcome(r, n, s, q)
    BY <1>2, <1>3, <1>4, <1>5, <1>7, <1>10, <1>12, <2>2 DEF Outcome, Scaled
  <2> QED
    BY <1>1, <1>3, <1>4, <1>5, <1>6, <1>7, <1>8, <1>9, <2>2, <2>3, <2>4, <2>5, <2>6,
       NodeEnds
<1>13. CASE /\ run' = [run EXCEPT ![t] = [Leave(run[t], "pronunciation", Successors("pronunciation"))
                                           EXCEPT !.errors = @ \cup {"pronunciation"}]]
           /\ cause' = cause \cup (IF ~ run[t].audio THEN {}
                                  ELSE IF payload.unread THEN {"reference"} ELSE {"recording"})
  <2>1. PICK q : q = [p EXCEPT !.errors = p.errors \cup {"pronunciation"}]
    OBVIOUS
  <2>2. /\ q \in GraphState /\ SameGraph(q, p)
        /\ q.pron = r.pron /\ q.errors = r.errors \cup {"pronunciation"}
    BY <1>9, <2>1 DEF GraphState, SameResults, SameGraph, Error
  <2>3. run' = [run EXCEPT ![t] = q]
    BY <1>3, <1>5, <1>7, <1>8, <1>13, <2>1
  <2>4. cause \subseteq cause' /\ cause' \subseteq Cause
        /\ (Broke \/ run[t].audio => Broke')
    <3>1. PICK c \in SUBSET Cause : cause' = cause \cup c /\ (run[t].audio => c # {})
      BY <1>13 DEF Cause
    <3> QED
      BY <1>2, <3>1 DEF Broke
  <2>5. Explained(q, r)'
    BY <1>5, <1>10, <1>13, <2>2, <2>4 DEF Explained, Broke
  <2>6. Outcome(r, n, s, q)
    BY <1>2, <1>3, <1>4, <1>5, <1>7, <1>10, <1>13, <2>2 DEF Outcome, Scaled
  <2> QED
    BY <1>1, <1>3, <1>4, <1>5, <1>6, <1>7, <1>8, <1>9, <2>2, <2>3, <2>4, <2>5, <2>6,
       NodeEnds
<1> QED
  BY <1>1, <1>12, <1>13 DEF Pronunciation

\* The lengths are measured, or not.
LEMMA LengthStep ==
    ASSUME EvaluationInv, NEW t \in Turn, AnswerLength(t)
    PROVE  EvaluationInv'
<1>1. Runs(t, "length") /\ UNCHANGED <<kind, turns, payload, input, phase, whole, event, cause>>
  BY DEF AnswerLength
<1>2. /\ run[t] \in GraphState /\ kind \in {"exam", "practice"}
      /\ cause \subseteq Cause
  BY <1>1, RunsIn DEF EvaluationInv, TypeOK
<1>3. PICK n : n = "length"
  OBVIOUS
<1>4. PICK k \in 3 .. 4 :
        /\ InSuperstep(run[t], input[t], k)
        /\ Successors(n) # {} /\ Successors(n) \subseteq Stage(k + 1)
        /\ n = "pronunciation" => k = 3 /\ run[t].pron = "none"
        /\ n = "pronunciation" /\ kind = "exam" => "scale" \in Successors(n)
        /\ n = "scale" => kind = "exam" /\ (run[t].pron # "none" \/ run[t].errors # {})
  BY <1>1, <1>3, Schedules
<1>5. PICK r \in GraphState : r = run[t]
  BY <1>2
<1>6. PICK i : i = input[t]
  OBVIOUS
<1>7. PICK s : s = Successors(n)
  OBVIOUS
<1>8. PICK p : p = Leave(r, n, s)
  OBVIOUS
<1>9. p \in GraphState /\ SameResults(p, r)
  <2>1. k \in 1 .. 4 /\ n \in r.at /\ r.at \subseteq Stage(k) /\ r.next \subseteq Stage(k + 1)
    BY <1>1, <1>3, <1>4, <1>5 DEF InSuperstep, Runs
  <2> QED
    BY <1>4, <1>7, <1>8, <2>1, Advances
<1>10. /\ r.pron \in {"none", "azure", Scaled} /\ (r.pron # "none" => r.audio)
       /\ r.errors # {} => Broke \/ (~ r.audio /\ "language" \notin r.errors)
       /\ r.pron = "azure" /\ Scaled = "rubric" => "scale" \in r.at \cup r.next
  BY <1>4, <1>5 DEF InSuperstep
<1>12. CASE run' = [run EXCEPT ![t] = [Leave(run[t], "length", Successors("length")) EXCEPT !.measured = TRUE]]
  <2>1. PICK q : q = [p EXCEPT !.measured = TRUE]
    OBVIOUS
  <2>2. /\ q \in GraphState /\ SameGraph(q, p)
        /\ q.pron = r.pron /\ q.errors = r.errors
    BY <1>9, <2>1 DEF GraphState, SameResults, SameGraph
  <2>3. run' = [run EXCEPT ![t] = q]
    BY <1>3, <1>5, <1>7, <1>8, <1>12, <2>1
  <2>4. cause \subseteq cause' /\ cause' \subseteq Cause
        /\ (Broke => Broke')
    BY <1>1, <1>2, <1>12 DEF Broke
  <2>5. Explained(q, r)'
    BY <1>1, <1>10, <1>12, <2>2, <2>4 DEF Explained, Broke
  <2>6. Outcome(r, n, s, q)
    BY <1>2, <1>3, <1>4, <1>5, <1>7, <1>10, <1>12, <2>2 DEF Outcome, Scaled
  <2> QED
    BY <1>1, <1>3, <1>4, <1>5, <1>6, <1>7, <1>8, <1>9, <2>2, <2>3, <2>4, <2>5, <2>6,
       NodeEnds
<1> QED
  BY <1>1, <1>12 DEF AnswerLength

\* The language is judged, or its node fails.
LEMMA LanguageStep ==
    ASSUME EvaluationInv, NEW t \in Turn, LanguageQuality(t)
    PROVE  EvaluationInv'
<1>1. Runs(t, "language") /\ UNCHANGED <<kind, turns, payload, input, phase, whole, event>>
  BY DEF LanguageQuality
<1>2. /\ run[t] \in GraphState /\ kind \in {"exam", "practice"}
      /\ cause \subseteq Cause
  BY <1>1, RunsIn DEF EvaluationInv, TypeOK
<1>3. PICK n : n = "language"
  OBVIOUS
<1>4. PICK k \in 3 .. 4 :
        /\ InSuperstep(run[t], input[t], k)
        /\ Successors(n) # {} /\ Successors(n) \subseteq Stage(k + 1)
        /\ n = "pronunciation" => k = 3 /\ run[t].pron = "none"
        /\ n = "pronunciation" /\ kind = "exam" => "scale" \in Successors(n)
        /\ n = "scale" => kind = "exam" /\ (run[t].pron # "none" \/ run[t].errors # {})
  BY <1>1, <1>3, Schedules
<1>5. PICK r \in GraphState : r = run[t]
  BY <1>2
<1>6. PICK i : i = input[t]
  OBVIOUS
<1>7. PICK s : s = Successors(n)
  OBVIOUS
<1>8. PICK p : p = Leave(r, n, s)
  OBVIOUS
<1>9. p \in GraphState /\ SameResults(p, r)
  <2>1. k \in 1 .. 4 /\ n \in r.at /\ r.at \subseteq Stage(k) /\ r.next \subseteq Stage(k + 1)
    BY <1>1, <1>3, <1>4, <1>5 DEF InSuperstep, Runs
  <2> QED
    BY <1>4, <1>7, <1>8, <2>1, Advances
<1>10. /\ r.pron \in {"none", "azure", Scaled} /\ (r.pron # "none" => r.audio)
       /\ r.errors # {} => Broke \/ (~ r.audio /\ "language" \notin r.errors)
       /\ r.pron = "azure" /\ Scaled = "rubric" => "scale" \in r.at \cup r.next
  BY <1>4, <1>5 DEF InSuperstep
<1>12. CASE /\ UNCHANGED cause
           /\ run' = [run EXCEPT ![t] = [Leave(run[t], "language", Successors("language")) EXCEPT !.language = TRUE]]
  <2>1. PICK q : q = [p EXCEPT !.language = TRUE]
    OBVIOUS
  <2>2. /\ q \in GraphState /\ SameGraph(q, p)
        /\ q.pron = r.pron /\ q.errors = r.errors
    BY <1>9, <2>1 DEF GraphState, SameResults, SameGraph
  <2>3. run' = [run EXCEPT ![t] = q]
    BY <1>3, <1>5, <1>7, <1>8, <1>12, <2>1
  <2>4. cause \subseteq cause' /\ cause' \subseteq Cause
        /\ (Broke => Broke')
    BY <1>1, <1>2, <1>12 DEF Broke
  <2>5. Explained(q, r)'
    BY <1>1, <1>10, <1>12, <2>2, <2>4 DEF Explained, Broke
  <2>6. Outcome(r, n, s, q)
    BY <1>2, <1>3, <1>4, <1>5, <1>7, <1>10, <1>12, <2>2 DEF Outcome, Scaled
  <2> QED
    BY <1>1, <1>3, <1>4, <1>5, <1>6, <1>7, <1>8, <1>9, <2>2, <2>3, <2>4, <2>5, <2>6,
       NodeEnds
<1>13. CASE /\ cause' = cause \cup {"language"}
           /\ run' = [run EXCEPT ![t] = [Leave(run[t], "language", Successors("language"))
                                           EXCEPT !.errors = @ \cup {"language"}]]
  <2>1. PICK q : q = [p EXCEPT !.errors = p.errors \cup {"language"}]
    OBVIOUS
  <2>2. /\ q \in GraphState /\ SameGraph(q, p)
        /\ q.pron = r.pron /\ q.errors = r.errors \cup {"language"}
    BY <1>9, <2>1 DEF GraphState, SameResults, SameGraph, Error
  <2>3. run' = [run EXCEPT ![t] = q]
    BY <1>3, <1>5, <1>7, <1>8, <1>13, <2>1
  <2>4. cause \subseteq cause' /\ cause' \subseteq Cause
        /\ (Broke => Broke')
    BY <1>1, <1>2, <1>13 DEF Broke, Cause
  <2>5. Explained(q, r)'
    BY <1>1, <1>10, <1>13, <2>2, <2>4 DEF Explained, Broke
  <2>6. Outcome(r, n, s, q)
    BY <1>2, <1>3, <1>4, <1>5, <1>7, <1>10, <1>13, <2>2 DEF Outcome, Scaled
  <2> QED
    BY <1>1, <1>3, <1>4, <1>5, <1>6, <1>7, <1>8, <1>9, <2>2, <2>3, <2>4, <2>5, <2>6,
       NodeEnds
<1> QED
  BY <1>1, <1>12, <1>13 DEF LanguageQuality

\* The scores of a result are scaled; without one, the assessment had failed.
LEMMA ScaleStep ==
    ASSUME EvaluationInv, NEW t \in Turn, AzureScoreScale(t)
    PROVE  EvaluationInv'
<1>1. Runs(t, "scale") /\ UNCHANGED <<kind, turns, payload, input, phase, whole, event, cause>>
  BY DEF AzureScoreScale
<1>2. /\ run[t] \in GraphState /\ kind \in {"exam", "practice"}
      /\ cause \subseteq Cause
  BY <1>1, RunsIn DEF EvaluationInv, TypeOK
<1>3. PICK n : n = "scale"
  OBVIOUS
<1>4. PICK k \in 3 .. 4 :
        /\ InSuperstep(run[t], input[t], k)
        /\ Successors(n) # {} /\ Successors(n) \subseteq Stage(k + 1)
        /\ n = "pronunciation" => k = 3 /\ run[t].pron = "none"
        /\ n = "pronunciation" /\ kind = "exam" => "scale" \in Successors(n)
        /\ n = "scale" => kind = "exam" /\ (run[t].pron # "none" \/ run[t].errors # {})
  BY <1>1, <1>3, Schedules
<1>5. PICK r \in GraphState : r = run[t]
  BY <1>2
<1>6. PICK i : i = input[t]
  OBVIOUS
<1>7. PICK s : s = Successors(n)
  OBVIOUS
<1>8. PICK p : p = Leave(r, n, s)
  OBVIOUS
<1>9. p \in GraphState /\ SameResults(p, r)
  <2>1. k \in 1 .. 4 /\ n \in r.at /\ r.at \subseteq Stage(k) /\ r.next \subseteq Stage(k + 1)
    BY <1>1, <1>3, <1>4, <1>5 DEF InSuperstep, Runs
  <2> QED
    BY <1>4, <1>7, <1>8, <2>1, Advances
<1>10. /\ r.pron \in {"none", "azure", Scaled} /\ (r.pron # "none" => r.audio)
       /\ r.errors # {} => Broke \/ (~ r.audio /\ "language" \notin r.errors)
       /\ r.pron = "azure" /\ Scaled = "rubric" => "scale" \in r.at \cup r.next
  BY <1>4, <1>5 DEF InSuperstep
<1>12. CASE /\ run[t].pron = "none"
           /\ run' = [run EXCEPT ![t] = [Leave(run[t], "scale", Successors("scale"))
                                           EXCEPT !.errors = @ \cup {"scale"}]]
  <2>1. PICK q : q = [p EXCEPT !.errors = p.errors \cup {"scale"}]
    OBVIOUS
  <2>2. /\ q \in GraphState /\ SameGraph(q, p)
        /\ q.pron = r.pron /\ q.errors = r.errors \cup {"scale"}
    BY <1>9, <2>1 DEF GraphState, SameResults, SameGraph, Error
  <2>3. run' = [run EXCEPT ![t] = q]
    BY <1>3, <1>5, <1>7, <1>8, <1>12, <2>1
  <2>4. cause \subseteq cause' /\ cause' \subseteq Cause
        /\ (Broke => Broke')
    BY <1>1, <1>2, <1>12 DEF Broke
  <2>5. Explained(q, r)'
    BY <1>1, <1>3, <1>4, <1>5, <1>10, <1>12, <2>2, <2>4 DEF Explained, Broke
  <2>6. Outcome(r, n, s, q)
    BY <1>2, <1>3, <1>4, <1>5, <1>7, <1>10, <1>12, <2>2 DEF Outcome, Scaled
  <2> QED
    BY <1>1, <1>3, <1>4, <1>5, <1>6, <1>7, <1>8, <1>9, <2>2, <2>3, <2>4, <2>5, <2>6,
       NodeEnds
<1>13. CASE /\ run[t].pron # "none"
           /\ run' = [run EXCEPT ![t] = IF payload.framed THEN [p EXCEPT !.pron = "rubric"] ELSE p]
  <2>1. PICK q : q = IF payload.framed THEN [p EXCEPT !.pron = "rubric"] ELSE p
    OBVIOUS
  <2>2. /\ q \in GraphState /\ SameGraph(q, p)
        /\ (payload.framed => q.pron = "rubric") /\ (~ payload.framed => q.pron = r.pron)
        /\ q.errors = r.errors
    <3>1. CASE payload.framed
      BY <1>9, <2>1, <3>1 DEF GraphState, SameResults, SameGraph
    <3>2. CASE ~ payload.framed
      BY <1>9, <2>1, <3>2 DEF SameResults, SameGraph
    <3> QED
      BY <3>1, <3>2
  <2>3. run' = [run EXCEPT ![t] = q]
    BY <1>13, <2>1
  <2>4. cause \subseteq cause' /\ cause' \subseteq Cause
        /\ (Broke => Broke')
    BY <1>1, <1>2, <1>13 DEF Broke
  <2>5. Explained(q, r)'
    BY <1>1, <1>10, <1>13, <2>2, <2>4 DEF Explained, Broke
  <2>6. Outcome(r, n, s, q)
    BY <1>2, <1>3, <1>4, <1>5, <1>7, <1>10, <1>13, <2>2 DEF Outcome, Scaled
  <2> QED
    BY <1>1, <1>3, <1>4, <1>5, <1>6, <1>7, <1>8, <1>9, <2>2, <2>3, <2>4, <2>5, <2>6,
       NodeEnds
<1> QED
  <2>1. p.pron = run[t].pron
    BY <1>5, <1>9 DEF SameResults
  <2>2. p = Leave(run[t], "scale", Successors("scale"))
    BY <1>3, <1>5, <1>7, <1>8
  <2> QED
    BY <1>12, <1>13, <2>1, <2>2 DEF AzureScoreScale

\* What the merge makes of a state that may have errors.
LEMMA Merges ==
    ASSUME NEW p \in GraphState, NEW q, q = ExamMerged(p) \/ q = PracticeMerged(p)
    PROVE  /\ q \in GraphState /\ q.at = p.at /\ q.next = p.next /\ q.audio = p.audio
           /\ q.text = p.text /\ q.rules = p.rules /\ q.errors = p.errors /\ q.judged = p.judged
           /\ q.status \in {"completed", "error"}
<1>1. p.language \in BOOLEAN /\ p.pron \in {"none", "blank", "azure", "rubric"}
  BY DEF GraphState
<1>2. q = [p EXCEPT !.status = "error"]
      \/ q = [p EXCEPT !.status = "completed", !.attached = p.language,
                       !.pron = IF p.pron = "none" THEN "blank" ELSE p.pron]
      \/ q = [p EXCEPT !.status = "completed", !.attached = p.language]
  BY DEF ExamMerged, PracticeMerged
<1>3. CASE q = [p EXCEPT !.status = "error"]
  BY <1>3 DEF GraphState
<1>4. CASE q = [p EXCEPT !.status = "completed", !.attached = p.language]
  BY <1>1, <1>4 DEF GraphState
<1>5. CASE q = [p EXCEPT !.status = "completed", !.attached = p.language,
                         !.pron = IF p.pron = "none" THEN "blank" ELSE p.pron]
  <2>1. PICK x \in {"none", "blank", "azure", "rubric"} : x = IF p.pron = "none" THEN "blank" ELSE p.pron
    BY <1>1
  <2>2. q = [p EXCEPT !.status = "completed", !.attached = p.language, !.pron = x]
    BY <1>5, <2>1
  <2> QED
    BY <1>1, <2>2 DEF GraphState
<1> QED
  BY <1>2, <1>3, <1>4, <1>5

LEMMA ExamOutcome ==
    ASSUME NEW p \in GraphState, NEW q, q = ExamMerged(p)
    PROVE  /\ q.status = "error" =>
                \/ p.audio /\ (p.errors # {} \/ p.pron = "none")
                \/ ~ p.audio /\ ~ (p.errors \subseteq {"pronunciation", "scale"})
           /\ q.status # "error" =>
                /\ q.pron = IF p.pron = "none" THEN "blank" ELSE p.pron
                /\ p.audio => p.pron # "none"
<1> DEFINE errors == IF p.audio THEN p.errors \cup (IF p.pron = "none" THEN {"pronunciation"} ELSE {})
                     ELSE p.errors \ {"pronunciation", "scale"}
<1>1. CASE errors # {}
  <2>1. q = [p EXCEPT !.status = "error"]
    BY <1>1 DEF ExamMerged
  <2>2. q.status = "error"
    BY <2>1 DEF GraphState
  <2> QED
    BY <1>1, <2>2
<1>2. CASE errors = {}
  <2>1. q = [p EXCEPT !.status = "completed", !.attached = p.language,
                      !.pron = IF p.pron = "none" THEN "blank" ELSE p.pron]
    BY <1>2 DEF ExamMerged
  <2>2. q.status = "completed" /\ q.pron = IF p.pron = "none" THEN "blank" ELSE p.pron
    BY <2>1 DEF GraphState
  <2>3. p.audio => p.pron # "none"
    BY <1>2
  <2> QED
    BY <2>2, <2>3
<1> QED
  BY <1>1, <1>2

LEMMA PracticeOutcome ==
    ASSUME NEW p \in GraphState, NEW q, q = PracticeMerged(p)
    PROVE  q.pron = p.pron /\ (q.status # "error" => p.pron # "none")
<1>1. CASE p.errors # {} \/ p.pron = "none"
  BY <1>1 DEF PracticeMerged, GraphState
<1>2. CASE ~ (p.errors # {} \/ p.pron = "none")
  BY <1>2 DEF PracticeMerged, GraphState
<1> QED
  BY <1>1, <1>2

\* The first merge of practice goes on to the language node, the last one ends the
\* graph: with a result, or because something broke.
LEMMA MergeStep ==
    ASSUME EvaluationInv, NEW t \in Turn, Merge(t)
    PROVE  EvaluationInv'
<1>1. Runs(t, "merge") /\ UNCHANGED <<kind, turns, payload, input, phase, whole, event, cause>>
  BY DEF Merge
<1>2. PICK k \in 1 .. 5 : InSuperstep(run[t], input[t], k) /\ "merge" \in Stage(k)
  BY <1>1, RunsIn
<1>3. /\ phase = "turns" /\ t \in Asked /\ run[t] \in GraphState /\ input[t] \in Input
      /\ kind \in {"exam", "practice"} /\ "merge" \in run[t].at
      /\ cause \subseteq Cause
  BY <1>1, RunsIn DEF EvaluationInv, TypeOK
<1>4. k = 5 \/ (k = 4 /\ kind = "practice")
  BY <1>2, <1>3, StageOf
<1>5. PICK i \in Input : i = input[t]
  BY <1>3
<1>6. PICK r \in GraphState : r = run[t]
  BY <1>3
<1>7. PICK s : s = {}
  OBVIOUS
<1>8. PICK p : p = Leave(r, "merge", s)
  OBVIOUS
<1>9. /\ p \in GraphState /\ SameResults(p, r)
      /\ r.at \ {"merge"} = {} => p.at = r.next /\ p.next = {}
      /\ r.at \ {"merge"} # {} => p.at = r.at \ {"merge"} /\ p.next = r.next
  <2>1. "merge" \in Node /\ s \subseteq Node
    BY <1>7 DEF Node
  <2>2. p \in GraphState
    BY <1>8, <2>1, Leaves
  <2>3. SameResults(p, r)
    BY <1>8, <2>1, Leaves
  <2>4. r.at \ {"merge"} = {} => p.at = r.next \cup s /\ p.next = {}
    BY <1>8, <2>1, Leaves
  <2>5. r.at \ {"merge"} # {} => p.at = r.at \ {"merge"} /\ p.next = r.next \cup s
    BY <1>8, <2>1, Leaves
  <2> QED
    BY <1>7, <2>2, <2>3, <2>4, <2>5
<1>10. PICK q : q = IF kind = "practice" THEN PracticeMerged(p) ELSE ExamMerged(p)
  OBVIOUS
<1>11. run' = [run EXCEPT ![t] = q]
  BY <1>6, <1>7, <1>8, <1>10 DEF Merge
<1>12. /\ q \in GraphState /\ q.at = p.at /\ q.next = p.next /\ q.audio = p.audio
       /\ q.text = p.text /\ q.rules = p.rules /\ q.errors = p.errors
       /\ q.status \in {"completed", "error"}
  BY <1>9, <1>10, Merges
<1>13. /\ r.audio = i.audio /\ r.text = Transcript(i) /\ ~ Rejects(r.rules)
       /\ r.pron \in {"none", "azure", Scaled} /\ (r.pron # "none" => r.audio)
       /\ r.errors # {} => Broke \/ (~ r.audio /\ "language" \notin r.errors)
       /\ r.pron # "none" \/ "pronunciation" \in r.errors
       /\ r.pron = "azure" /\ Scaled = "rubric" => "scale" \in r.at \cup r.next
       /\ r.at \subseteq Stage(k) /\ r.next \subseteq Stage(k + 1)
  BY <1>2, <1>4, <1>5, <1>6 DEF InSuperstep
<1>14. /\ kind = "practice" => q.pron = r.pron /\ (q.status # "error" => r.pron # "none")
  BY <1>9, <1>10, PracticeOutcome DEF SameResults
<1>15. /\ Stage(4) = (IF kind = "practice" THEN {"merge", "language"} ELSE {"scale", "language"})
       /\ Stage(5) = {"merge"} /\ Stage(6) = {}
       /\ \A j \in 1 .. 6 : Stage(j)' = Stage(j)
  BY <1>1 DEF Stage
<1>16. Transcript(i)' = Transcript(i) /\ input'[t] = i /\ kind' = kind /\ Scaled' = Scaled
       /\ Broke' = Broke
  BY <1>1, <1>5 DEF Transcript, HasLive, Scaled, Broke
<1>17. ASSUME p.at = {} PROVE EvaluationInv'
  <2>1. CASE kind = "practice"
    <3>1. q.pron = r.pron /\ (q.status # "error" => r.pron # "none") /\ Scaled = "azure"
      BY <1>14, <2>1 DEF Scaled
    <3>2. Ended(q, input[t])'
      BY <1>9, <1>12, <1>13, <1>16, <1>17, <2>1, <3>1 DEF Ended, SameResults
    <3> QED
      BY <1>1, <1>3, <1>11, <1>12, <3>2, OneTurn
  <2>2. CASE kind = "exam"
    <3>1. r.pron \in {"none", Scaled} /\ Scaled # "none"
      BY <1>4, <1>13, <1>15, <2>2 DEF Scaled
    <3>2. q = ExamMerged(p)
      BY <1>10, <2>2
    <3>3. /\ q.status = "error" =>
                \/ p.audio /\ (p.errors # {} \/ p.pron = "none")
                \/ ~ p.audio /\ ~ (p.errors \subseteq {"pronunciation", "scale"})
          /\ q.status # "error" =>
                /\ q.pron = IF p.pron = "none" THEN "blank" ELSE p.pron
                /\ p.audio => p.pron # "none"
      BY <1>9, <3>2, ExamOutcome
    <3>4. q.status = "error" => Broke
      <4>1. r.errors \subseteq {"pronunciation", "scale", "language"}
        BY DEF GraphState, Error
      <4> QED
        BY <1>9, <1>13, <3>3, <4>1 DEF SameResults
    <3>5. Ended(q, input[t])'
      <4>1. p.pron = r.pron /\ p.audio = i.audio /\ q.text = Transcript(i) /\ ~ Rejects(q.rules)
            /\ q.at = {} /\ q.status # "idle"
        BY <1>9, <1>12, <1>13, <1>17 DEF SameResults
      <4>2. q.status # "error" => /\ q.pron \in {"none", "blank", Scaled}
                                  /\ (q.pron = Scaled) <=> i.audio
        <5>1. Scaled # "blank"
          BY DEF Scaled
        <5> QED
          BY <1>13, <3>1, <3>3, <4>1, <5>1
      <4> QED
        BY <1>16, <2>2, <3>4, <4>1, <4>2 DEF Ended
    <3> QED
      BY <1>1, <1>3, <1>11, <1>12, <3>5, OneTurn
  <2> QED
    BY <1>3, <2>1, <2>2
<1>18. ASSUME p.at # {} PROVE EvaluationInv'
  <2>1. k = 4 /\ kind = "practice"
    BY <1>4, <1>9, <1>13, <1>15, <1>18
  <2>2. q.pron = r.pron
    BY <1>14, <2>1
  <2>3. PICK j \in 4 .. 5 : q.at \subseteq Stage(j) /\ q.next \subseteq Stage(j + 1)
    <3>1. CASE r.at \ {"merge"} = {}
      <4>1. q.at \subseteq Stage(5) /\ q.next \subseteq Stage(5 + 1)
        BY <1>9, <1>12, <1>13, <2>1, <3>1
      <4> QED
        BY <4>1
    <3>2. CASE r.at \ {"merge"} # {}
      <4>1. q.at \subseteq Stage(4) /\ q.next \subseteq Stage(4 + 1)
        BY <1>9, <1>12, <1>13, <2>1, <3>2
      <4> QED
        BY <4>1
    <3> QED
      BY <3>1, <3>2
  <2>4. Stage(j)' = Stage(j) /\ Stage(j + 1)' = Stage(j + 1)
    BY <1>15
  <2>5. InSuperstep(q, i, j)'
    BY <1>9, <1>12, <1>13, <1>16, <1>18, <2>1, <2>2, <2>3, <2>4 DEF InSuperstep, SameResults
  <2>6. (\E m \in 1 .. 5 : InSuperstep(q, input[t], m))'
    BY <1>16, <2>5
  <2> QED
    BY <1>1, <1>3, <1>11, <1>12, <2>6, OneTurn
<1> QED
  BY <1>17, <1>18

-----------------------------------------------------------------------------
(* The whole answer *)

\* The graphs of the turns stay as they are.
LEMMA RunsKept ==
    ASSUME TurnInv, UNCHANGED <<kind, turns, payload, input, run>>, cause \subseteq cause'
    PROVE  TurnInv' /\ (AllEnded => AllEnded')
<1>1. /\ Scaled' = Scaled /\ (Broke => Broke')
      /\ \A i : Transcript(i)' = Transcript(i)
      /\ \A k \in 1 .. 6 : Stage(k)' = Stage(k)
  BY DEF Scaled, Broke, Transcript, HasLive, Stage
<1>2. ASSUME NEW t \in Turn, Ended(run[t], input[t]) PROVE Ended(run[t], input[t])'
  BY <1>1, <1>2 DEF Ended
<1>3. ASSUME NEW t \in Turn, NEW k \in 1 .. 5, InSuperstep(run[t], input[t], k)
      PROVE  InSuperstep(run[t], input[t], k)'
  <2>1. Stage(k)' = Stage(k) /\ Stage(k + 1)' = Stage(k + 1)
    BY <1>1
  <2>2. Transcript(input[t])' = Transcript(input[t])
    BY <1>1
  <2> QED
    BY <1>1, <1>3, <2>1, <2>2 DEF InSuperstep
<1>4. TurnInv'
  <2> SUFFICES ASSUME NEW t \in Turn
               PROVE  (\/ run[t] = Idle \/ Ended(run[t], input[t])
                       \/ \E k \in 1 .. 5 : InSuperstep(run[t], input[t], k))'
    BY DEF TurnInv
  <2>1. \/ run[t] = Idle \/ Ended(run[t], input[t])
        \/ \E k \in 1 .. 5 : InSuperstep(run[t], input[t], k)
    BY DEF TurnInv
  <2> QED
    BY <1>2, <1>3, <2>1
<1>5. ASSUME AllEnded PROVE AllEnded'
  <2> SUFFICES ASSUME NEW t \in Asked PROVE Ended(run[t], input[t])' /\ run[t].status # "error"
    BY DEF AllEnded, Asked
  <2>1. Ended(run[t], input[t]) /\ run[t].status # "error"
    BY <1>5 DEF AllEnded
  <2> QED
    BY <1>1, <2>1 DEF Ended
<1> QED
  BY <1>4, <1>5

LEMMA InitEvaluation == Init => EvaluationInv
<1> SUFFICES ASSUME Init PROVE EvaluationInv
  OBVIOUS
<1>1. Idle \in GraphState
  BY DEF Idle, GraphState, TextClass, Said
<1>2. TypeOK
  BY <1>1 DEF Init, TypeOK
<1>3. TurnInv
  BY DEF Init, TurnInv
<1>4. ~ event.sent /\ phase = "turns"
  BY DEF Init, NoEvent
<1> QED
  BY <1>2, <1>3, <1>4 DEF EvaluationInv, WholeInv, OnlyABreakFails, ScoreIsOfARecording,
                          OneTurnDoesNotZero

\* The result that the whole answer starts from is one.
LEMMA BaseIs ==
    ASSUME TypeOK
    PROVE  Base \in {"blank", "azure", "rubric"}
<1> DEFINE with == {t \in Asked : run[t].pron # "none"}
<1>1. Asked \subseteq Turn /\ Asked \subseteq Nat /\ run \in [Turn -> GraphState]
  <2>1. turns \in Turn /\ run \in [Turn -> GraphState] /\ Asked \subseteq Turn
    BY Given
  <2> QED
    BY <2>1 DEF Turn
<1>2. \A t \in with : run[t].pron \in {"blank", "azure", "rubric"}
  BY <1>1 DEF GraphState
<1>3. CASE with = {}
  BY <1>3 DEF Base
<1>4. CASE with # {}
  <2> HIDE DEF with
  <2>1. with \subseteq Nat
    BY <1>1 DEF with
  <2>2. \E t \in with : \A u \in with : t <= u
    BY <1>4, <2>1, LeastNumber
  <2>3. (CHOOSE t \in with : \A u \in with : t <= u) \in with
    BY <2>2
  <2>4. Base = run[CHOOSE t \in with : \A u \in with : t <= u].pron
    BY <1>4 DEF Base, with
  <2> QED
    BY <1>2, <2>3, <2>4
<1> QED
  BY <1>3, <1>4

\* All turns settled: each ended, and none that failed is left out.
LEMMA EndTurnsStep ==
    ASSUME EvaluationInv, EndTurns
    PROVE  EvaluationInv'
<1>1. /\ phase = "turns" /\ (\A t \in Asked : Settled(t))
      /\ UNCHANGED <<kind, turns, payload, input, run, event, cause>>
  BY DEF EndTurns
<1>2. /\ TurnInv' /\ (AllEnded => AllEnded')
      /\ kind \in {"exam", "practice"} /\ Asked \subseteq Turn /\ 1 \in Asked
      /\ run \in [Turn -> GraphState]
  <2>1. turns \in Turn /\ Asked \subseteq Turn
    BY Given DEF EvaluationInv
  <2>2. 1 \in Asked
    BY <2>1 DEF Asked, Turn
  <2> QED
    BY <1>1, <2>1, <2>2, RunsKept, Given DEF EvaluationInv
<1>3. \A t \in Asked : Ended(run[t], input[t])
  <2> SUFFICES ASSUME NEW t \in Asked PROVE Ended(run[t], input[t])
    OBVIOUS
  <2>1. run[t].status # "idle" /\ run[t].at = {}
    BY <1>1 DEF Settled
  <2> QED
    BY <1>2, <2>1 DEF EvaluationInv, TurnInv, Idle, InSuperstep
<1>4. ~ event.sent
  BY <1>1 DEF EvaluationInv, WholeInv
<1>5. CASE \E t \in Asked : run[t].status = "error"
  <2>1. phase' = "failed" /\ whole' = whole
    BY <1>5 DEF EndTurns
  <2>2. kind = "practice" \/ Broke
    BY <1>3, <1>5 DEF Ended
  <2>3. TypeOK'
    BY <1>1, <2>1 DEF EvaluationInv, TypeOK
  <2> QED
    BY <1>1, <1>2, <1>4, <2>1, <2>2, <2>3
       DEF EvaluationInv, WholeInv, OnlyABreakFails, ScoreIsOfARecording, OneTurnDoesNotZero, Broke
<1>6. CASE ~ \E t \in Asked : run[t].status = "error"
  <2>1. PICK audio \in BOOLEAN : audio = run[1].audio
    BY <1>2 DEF GraphState
  <2>2. PICK base \in {"blank", "azure", "rubric"} : base = Base
    BY BaseIs DEF EvaluationInv
  <2>3. PICK text \in {"english", "foreign", "silent"} : text = Combined
    BY DEF Combined
  <2>4. /\ phase' = "validity"
        /\ whole' = [Idle EXCEPT !.status = "processing", !.audio = audio, !.text = text,
                                 !.pron = base]
    BY <1>6, <2>1, <2>2, <2>3 DEF EndTurns
  <2>5. whole' \in GraphState /\ whole'.pron = base /\ whole'.text = text /\ whole'.errors = {}
    BY <2>4 DEF Idle, GraphState, TextClass, Said
  <2>6. AllEnded'
    BY <1>2, <1>3, <1>6 DEF AllEnded
  <2>7. TypeOK'
    BY <1>1, <2>4, <2>5 DEF EvaluationInv, TypeOK
  <2>8. Combined' = Combined
    BY <1>1 DEF Combined, SaidText, Asked
  <2>9. WholeInv'
    BY <1>1, <1>4, <2>3, <2>4, <2>5, <2>6, <2>8 DEF WholeInv
  <2> QED
    BY <1>1, <1>2, <1>4, <2>4, <2>7, <2>9
       DEF EvaluationInv, OnlyABreakFails, ScoreIsOfARecording, OneTurnDoesNotZero
<1> QED
  BY <1>5, <1>6

\* A model's rule has an id and a blocking severity of its own; the gates and the length
\* rule never reject an answer that has words.
LEMMA WordsReject ==
    ASSUME NEW text \in {"english", "foreign"}, NEW rules \in ValidityOf(text, FALSE), NEW r \in rules,
           r.blocking \/ r.severity = Critical
    PROVE  r.id \in {"profanity", "off_topic"}
<1>1. text \in TextClass /\ FALSE \in BOOLEAN /\ Gates(text) = {}
  BY DEF Gates, Words, MostlyForeign, TextClass, Said
<1>2. r = TooShort \/ r.id \in {"profanity", "off_topic"}
  BY <1>1, RulesOf
<1>3. ~ TooShort.blocking /\ TooShort.severity # Critical
  BY DEF TooShort, Critical
<1> QED
  BY <1>2, <1>3

\* A rule of the merge comes from the aggregate or is a turn's profanity, and
\* every rule of the aggregate has one of its kind in it.
LEMMA MergedFrom ==
    ASSUME NEW rules, NEW merged \in MergedRules(rules)
    PROVE  /\ \A r \in merged : r \in rules \/ (r.id = "profanity" /\ \E t \in Asked : r \in run[t].rules)
           /\ \A r \in rules : \E v \in merged : v.id = r.id
<1> DEFINE safety == {x \in UNION {run[t].rules : t \in Asked} : x.id = "profanity"}
<1>1. merged \subseteq rules \cup safety /\ \A r \in rules \cup safety : \E v \in merged : v.id = r.id
  BY DEF MergedRules
<1> QED
  BY <1>1

\* Without a word in the whole answer nothing was heard in any turn.
LEMMA SilentIsHeardSilent ==
    ASSUME TypeOK, AllEnded, Combined = "silent", NEW t \in Asked
    PROVE  Heard(t) = "silent"
<1>1. run \in [Turn -> GraphState] /\ Asked \subseteq Turn /\ input \in [Turn -> Input]
  BY Given DEF TypeOK
<1>2. PICK i \in Input : i = input[t]
  BY <1>1
<1>3. PICK x \in TextClass : x = run[t].text
  BY <1>1 DEF GraphState
<1>4. Unwrap(x) \in SaidText
  BY <1>3 DEF SaidText
<1>5. "english" \notin SaidText /\ "foreign" \notin SaidText
  BY DEF Combined
<1>6. x = "silent"
  BY <1>4, <1>5 DEF Unwrap, TextClass, Said
<1>7. Transcript(i) = "silent"
  BY <1>2, <1>3, <1>6 DEF AllEnded, Ended
<1>8. i.said \in Said
  BY DEF Input
<1> QED
  BY <1>2, <1>7, <1>8 DEF Transcript, Heard, Said

\* An answer that the validity of the whole zeroes is excused.
LEMMA ZeroExcused ==
    ASSUME TypeOK, AllEnded, NEW rules \in ValidityOf(Combined, FALSE),
           NEW merged \in MergedRules(rules),
           Rejects(rules) \/ Rejects(merged) \/ \E r \in merged : r.severity = Critical
    PROVE  \/ \A t \in Asked : Heard(t) = "silent"
           \/ \E r \in merged : r.id \in {"profanity", "off_topic"}
<1>1. CASE Combined = "silent"
  BY <1>1, SilentIsHeardSilent
<1>2. CASE Combined # "silent"
  <2>1. PICK text \in {"english", "foreign"} : text = Combined
    BY <1>2 DEF Combined
  <2>2. rules \in ValidityOf(text, FALSE)
    BY <2>1
  <2>3. rules \in SUBSET Rule
    <3>1. text \in TextClass /\ FALSE \in BOOLEAN
      BY DEF TextClass, Said
    <3> QED
      BY <2>2, <3>1, RulesOf
  <2>4. \A r \in rules : r.blocking \/ r.severity = Critical => r.id \in {"profanity", "off_topic"}
    BY <2>2, WordsReject
  <2>5. CASE Rejects(rules)
    <3>1. PICK r \in rules : r.blocking
      BY <2>5 DEF Rejects
    <3>2. r.id \in {"profanity", "off_topic"}
      BY <2>4, <3>1
    <3>3. \E v \in merged : v.id = r.id
      BY MergedFrom
    <3> QED
      BY <3>2, <3>3
  <2>6. CASE \E r \in merged : r.blocking \/ r.severity = Critical
    <3>1. PICK r \in merged : r.blocking \/ r.severity = Critical
      BY <2>6
    <3>2. r \in rules \/ r.id = "profanity"
      BY MergedFrom
    <3> QED
      BY <2>4, <3>1, <3>2
  <2> QED
    BY <2>5, <2>6 DEF Rejects
<1> QED
  BY <1>1, <1>2

LEMMA WholeValidityStep ==
    ASSUME EvaluationInv, WholeValidity
    PROVE  EvaluationInv'
<1>1. phase = "validity" /\ UNCHANGED <<kind, turns, payload, input, run, event, cause>>
  BY DEF WholeValidity
<1>2. /\ TurnInv' /\ AllEnded /\ AllEnded' /\ TypeOK /\ ~ event.sent
      /\ whole \in GraphState /\ whole.text = Combined /\ whole.pron # "none"
      /\ whole.errors \subseteq {"language"} /\ (whole.errors # {} => Broke) /\ (Broke => Broke')
  BY <1>1, RunsKept DEF EvaluationInv, WholeInv, TypeOK, Broke
<1>3. PICK w \in GraphState : w = whole
  BY <1>2
<1>4. PICK rules \in ValidityOf(Combined, FALSE) : \E merged \in MergedRules(rules) :
        LET valid == ~ Rejects(rules) /\ ~ Rejects(merged)
        IN  /\ whole' = [whole EXCEPT !.rules = merged, !.judged = valid]
            /\ phase' = IF valid THEN "length" ELSE "merge"
  BY <1>2 DEF WholeValidity
<1>5. PICK merged \in MergedRules(rules) :
        LET valid == ~ Rejects(rules) /\ ~ Rejects(merged)
        IN  /\ whole' = [whole EXCEPT !.rules = merged, !.judged = valid]
            /\ phase' = IF valid THEN "length" ELSE "merge"
  BY <1>4
<1>6. PICK valid \in BOOLEAN : valid <=> (~ Rejects(rules) /\ ~ Rejects(merged))
  OBVIOUS
<1>7. whole' = [w EXCEPT !.rules = merged, !.judged = valid] /\ phase' \in {"length", "merge"}
  BY <1>3, <1>5, <1>6
<1>8. merged \in SUBSET Rule
  <2>1. rules \in SUBSET Rule
    <3>1. Combined \in TextClass /\ FALSE \in BOOLEAN
      BY DEF Combined, TextClass, Said
    <3> QED
      BY <3>1, RulesOf
  <2>2. run \in [Turn -> GraphState] /\ Asked \subseteq Turn
    BY <1>2, Given
  <2>3. \A r \in merged : r \in Rule
    BY <1>5, <2>1, <2>2, MergedFrom DEF GraphState
  <2> QED
    BY <2>3
<1>9. /\ whole' \in GraphState /\ whole'.rules = merged /\ whole'.judged = valid
      /\ whole'.pron = w.pron /\ whole'.errors = w.errors
  BY <1>7, <1>8 DEF GraphState
<1>10. ASSUME Zeroed(whole)' PROVE Excused'
  <2>1. Rejects(rules) \/ Rejects(merged) \/ \E r \in merged : r.severity = Critical
    BY <1>6, <1>9, <1>10 DEF Zeroed
  <2>2. \/ \A t \in Asked : Heard(t) = "silent"
        \/ \E r \in merged : r.id \in {"profanity", "off_topic"}
    BY <1>2, <1>5, <2>1, ZeroExcused
  <2>3. Asked' = Asked /\ \A t \in Asked : Heard(t)' = Heard(t)
    BY <1>1 DEF Asked, Heard, HasLive
  <2> QED
    BY <1>9, <2>2, <2>3 DEF Excused
<1>11. TypeOK'
  BY <1>1, <1>2, <1>7, <1>9 DEF TypeOK
<1>12. WholeInv'
  BY <1>1, <1>2, <1>3, <1>7, <1>9, <1>10 DEF WholeInv
<1> QED
  BY <1>1, <1>2, <1>7, <1>11, <1>12
     DEF EvaluationInv, OnlyABreakFails, ScoreIsOfARecording, OneTurnDoesNotZero

\* Between its validity and the merge nothing about a zero changes.
LEMMA WholeMoves ==
    ASSUME EvaluationInv, UNCHANGED <<kind, turns, payload, input, run, event>>, cause \subseteq cause',
           cause' \subseteq Cause,
           phase \in {"length", "language"}, phase' \in {"language", "merge"},
           whole' \in GraphState, whole'.rules = whole.rules, whole'.judged = whole.judged,
           whole'.pron = whole.pron, whole'.errors \subseteq {"language"},
           whole'.errors # {} => Broke'
    PROVE  EvaluationInv'
<1>1. /\ TurnInv' /\ AllEnded' /\ ~ event.sent
      /\ whole.pron # "none" /\ (Zeroed(whole) => Excused)
  BY RunsKept DEF EvaluationInv, WholeInv
<1>2. Zeroed(whole)' => Excused'
  <2>1. Asked' = Asked /\ \A t \in Asked : Heard(t)' = Heard(t)
    BY DEF Asked, Heard, HasLive
  <2>2. Excused => Excused'
    BY <2>1 DEF Excused
  <2> QED
    BY <1>1, <2>2 DEF Zeroed
<1>3. TypeOK'
  BY DEF EvaluationInv, TypeOK
<1>4. WholeInv'
  BY <1>1, <1>2 DEF WholeInv
<1> QED
  BY <1>1, <1>3, <1>4
     DEF EvaluationInv, OnlyABreakFails, ScoreIsOfARecording, OneTurnDoesNotZero

LEMMA WholeLengthStep ==
    ASSUME EvaluationInv, WholeLength
    PROVE  EvaluationInv'
<1>1. /\ phase = "length" /\ phase' = "language" /\ whole' = [whole EXCEPT !.measured = TRUE]
      /\ UNCHANGED <<kind, turns, payload, input, run, event, cause>>
  BY DEF WholeLength
<1>2. /\ whole \in GraphState /\ whole.errors \subseteq {"language"} /\ (whole.errors # {} => Broke)
      /\ cause \subseteq Cause
  BY <1>1 DEF EvaluationInv, WholeInv, TypeOK
<1>3. /\ whole' \in GraphState /\ whole'.rules = whole.rules /\ whole'.judged = whole.judged
      /\ whole'.pron = whole.pron /\ whole'.errors = whole.errors
  BY <1>1, <1>2 DEF GraphState
<1>4. Broke => Broke'
  BY <1>1 DEF Broke
<1> QED
  BY <1>1, <1>2, <1>3, <1>4, WholeMoves

LEMMA WholeLanguageStep ==
    ASSUME EvaluationInv, WholeLanguage
    PROVE  EvaluationInv'
<1>1. /\ phase = "language" /\ phase' = "merge"
      /\ UNCHANGED <<kind, turns, payload, input, run, event>>
  BY DEF WholeLanguage
<1>2. /\ whole \in GraphState /\ whole.errors \subseteq {"language"} /\ (whole.errors # {} => Broke)
      /\ cause \subseteq Cause
  BY <1>1 DEF EvaluationInv, WholeInv, TypeOK
<1>3. CASE whole' = [whole EXCEPT !.language = TRUE] /\ cause' = cause
  <2>1. /\ whole' \in GraphState /\ whole'.rules = whole.rules /\ whole'.judged = whole.judged
        /\ whole'.pron = whole.pron /\ whole'.errors = whole.errors
    BY <1>2, <1>3 DEF GraphState
  <2>2. Broke => Broke'
    BY <1>3 DEF Broke
  <2> QED
    BY <1>1, <1>2, <1>3, <2>1, <2>2, WholeMoves
<1>4. CASE whole' = [whole EXCEPT !.errors = {"language"}] /\ cause' = cause \cup {"language"}
  <2>1. /\ whole' \in GraphState /\ whole'.rules = whole.rules /\ whole'.judged = whole.judged
        /\ whole'.pron = whole.pron /\ whole'.errors = {"language"}
    BY <1>2, <1>4 DEF GraphState, Error
  <2>2. Broke' /\ cause \subseteq cause' /\ cause' \subseteq Cause
    BY <1>2, <1>4 DEF Broke, Cause
  <2> QED
    BY <1>1, <2>1, <2>2, WholeMoves
<1> QED
  BY <1>3, <1>4 DEF WholeLanguage

\* What the event says of the criteria.
LEMMA CriteriaAre ==
    ASSUME TypeOK, AllEnded, NEW w \in GraphState
    PROVE  /\ Zeroed(w) => Criteria(w).pronunciation = "zero" /\ Criteria(w).language = "zero"
           /\ ~ Zeroed(w) =>
                /\ Criteria(w).language \in {"model", "none"}
                /\ Criteria(w).pronunciation =
                     IF \A t \in Asked : Rejects(run[t].rules) \/ ~ input[t].audio THEN "none"
                     ELSE IF kind = "exam" /\ payload.framed THEN "rubric" ELSE "azure"
<1>1. CASE Zeroed(w)
  BY <1>1 DEF Criteria
<1>2. CASE ~ Zeroed(w)
  <2>1. /\ Criteria(w).language = IF w.attached THEN "model" ELSE "none"
        /\ Criteria(w).pronunciation = IF \E t \in Asked : Assessed(t)
                                       THEN run[CHOOSE t \in Asked : Assessed(t)].pron ELSE "none"
    BY <1>2 DEF Criteria
  <2>2. \A t \in Asked : /\ Assessed(t) <=> (~ Rejects(run[t].rules) /\ input[t].audio)
                         /\ Assessed(t) => run[t].pron = Scaled
    BY DEF AllEnded, Ended, Assessed, Scaled
  <2>3. CASE \E t \in Asked : Assessed(t)
    <3>1. /\ (CHOOSE t \in Asked : Assessed(t)) \in Asked
          /\ Assessed(CHOOSE t \in Asked : Assessed(t))
      BY <2>3
    <3>2. Criteria(w).pronunciation = Scaled
      BY <2>1, <2>2, <2>3, <3>1
    <3> QED
      BY <1>2, <2>1, <2>2, <2>3, <3>2 DEF Scaled
  <2>4. CASE ~ \E t \in Asked : Assessed(t)
    BY <1>2, <2>1, <2>2, <2>4
  <2> QED
    BY <2>3, <2>4
<1> QED
  BY <1>1, <1>2

LEMMA CompletedIs ==
    ASSUME TypeOK, AllEnded, NEW w \in GraphState, NEW e, e = Completed(w)
    PROVE  /\ e \in Events /\ e.sent
           /\ e.pronunciation = Criteria(w).pronunciation
           /\ e.language = Criteria(w).language
<1>1. PICK p : p = Criteria(w).pronunciation
  OBVIOUS
<1>2. PICK l : l = Criteria(w).language
  OBVIOUS
<1>3. p \in Score /\ l \in Score
  BY <1>1, <1>2, CriteriaAre DEF Score
<1>4. PICK a \in {"reject_or_zero", "score_with_penalty", "score"} :
        a = IF ~ w.judged THEN "reject_or_zero"
            ELSE IF \E r \in w.rules : r.action = "score_with_penalty"
            THEN "score_with_penalty" ELSE "score"
  OBVIOUS
<1>5. PICK g \in BOOLEAN : g = Gate
  BY DEF Gate
<1>6. PICK v \in BOOLEAN : v = w.judged
  BY DEF GraphState
<1>7. e = [sent |-> TRUE, valid |-> v, action |-> a, pronunciation |-> p, language |-> l, gate |-> g]
  BY <1>1, <1>2, <1>4, <1>5, <1>6 DEF Completed
<1> QED
  BY <1>1, <1>2, <1>3, <1>7 DEF Events

LEMMA WholeMergeStep ==
    ASSUME EvaluationInv, WholeMerge
    PROVE  EvaluationInv'
<1>1. phase = "merge" /\ UNCHANGED <<kind, turns, payload, input, run, cause>>
  BY DEF WholeMerge
<1>2. /\ TurnInv' /\ AllEnded /\ AllEnded' /\ TypeOK /\ ~ event.sent
      /\ whole \in GraphState /\ whole.pron # "none"
      /\ whole.errors \subseteq {"language"} /\ (whole.errors # {} => Broke) /\ (Broke => Broke')
      /\ (Zeroed(whole) => Excused)
  BY <1>1, RunsKept DEF EvaluationInv, WholeInv, TypeOK, Broke
<1>3. PICK p \in GraphState : p = whole
  BY <1>2
<1>4. PICK w : w = ExamMerged(p)
  OBVIOUS
<1>5. /\ w \in GraphState /\ w.rules = p.rules /\ w.judged = p.judged
  BY <1>4, Merges
<1>6. w.status = "error" =>
        \/ p.audio /\ (p.errors # {} \/ p.pron = "none")
        \/ ~ p.audio /\ ~ (p.errors \subseteq {"pronunciation", "scale"})
  BY <1>4, ExamOutcome
<1>7. /\ whole' = w
      /\ IF w.judged /\ w.status = "error"
         THEN phase' = "failed" /\ UNCHANGED event
         ELSE phase' = "completed" /\ event' = Completed(w)
  BY <1>3, <1>4 DEF WholeMerge
<1>8. CASE w.judged /\ w.status = "error"
  <2>1. phase' = "failed" /\ event' = event
    BY <1>7, <1>8
  <2>2. Broke'
    BY <1>2, <1>3, <1>6, <1>8
  <2>3. TypeOK'
    BY <1>1, <1>2, <1>5, <1>7, <2>1 DEF TypeOK
  <2> QED
    BY <1>2, <2>1, <2>2, <2>3
       DEF EvaluationInv, WholeInv, OnlyABreakFails, ScoreIsOfARecording, OneTurnDoesNotZero, Broke
<1>9. CASE ~ (w.judged /\ w.status = "error")
  <2>1. PICK e : e = Completed(w)
    OBVIOUS
  <2>2. phase' = "completed" /\ event' = e
    BY <1>7, <1>9, <2>1
  <2>3. /\ e \in Events /\ e.sent /\ e.pronunciation = Criteria(w).pronunciation
        /\ e.language = Criteria(w).language
    BY <1>2, <1>5, <2>1, CompletedIs
  <2>4. TypeOK'
    BY <1>1, <1>2, <1>5, <1>7, <2>2, <2>3 DEF TypeOK
  <2>5. WholeInv'
    BY <1>2, <2>2, <2>3 DEF WholeInv
  <2>6. OnlyABreakFails'
    BY <2>2 DEF OnlyABreakFails
  <2>7. ScoreIsOfARecording'
    <3>1. e.pronunciation # "zero" =>
            e.pronunciation =
              IF \A t \in Asked : Rejects(run[t].rules) \/ ~ input[t].audio THEN "none"
              ELSE IF kind = "exam" /\ payload.framed THEN "rubric" ELSE "azure"
      BY <1>2, <1>5, <2>3, CriteriaAre
    <3>2. Asked' = Asked
      BY <1>1 DEF Asked
    <3> QED
      BY <1>1, <2>2, <3>1, <3>2 DEF ScoreIsOfARecording
  <2>8. OneTurnDoesNotZero'
    <3>1. ASSUME "zero" \in {e.pronunciation, e.language} PROVE Excused
      <4>1. Zeroed(w)
        <5>1. SUFFICES ASSUME ~ Zeroed(w) PROVE FALSE
          OBVIOUS
        <5>2. /\ Criteria(w).language \in {"model", "none"}
              /\ Criteria(w).pronunciation =
                   IF \A t \in Asked : Rejects(run[t].rules) \/ ~ input[t].audio THEN "none"
                   ELSE IF kind = "exam" /\ payload.framed THEN "rubric" ELSE "azure"
          BY <1>2, <1>5, <5>1, CriteriaAre
        <5> QED
          BY <2>3, <3>1, <5>2
      <4>2. Zeroed(whole)
        BY <1>3, <1>5, <4>1 DEF Zeroed
      <4> QED
        BY <1>2, <4>2
    <3>2. Asked' = Asked /\ (\A t \in Asked : Heard(t)' = Heard(t)) /\ whole'.rules = whole.rules
      BY <1>1, <1>3, <1>5, <1>7 DEF Asked, Heard, HasLive
    <3>3. "zero" \in {e.pronunciation, e.language} =>
            \/ \A t \in Asked' : Heard(t)' = "silent"
            \/ \E r \in whole'.rules : r.id \in {"profanity", "off_topic"}
      BY <3>1, <3>2 DEF Excused
    <3> QED
      BY <2>2, <3>3 DEF OneTurnDoesNotZero
  <2> QED
    BY <1>2, <2>4, <2>5, <2>6, <2>7, <2>8 DEF EvaluationInv
<1> QED
  BY <1>8, <1>9

LEMMA EvaluationStutters ==
    ASSUME EvaluationInv, UNCHANGED vars
    PROVE  EvaluationInv'
<1>1. /\ UNCHANGED <<kind, turns, payload, input, run, phase, whole, event, cause>>
  BY DEF vars
<1>2. TurnInv' /\ (AllEnded => AllEnded')
  BY <1>1, RunsKept DEF EvaluationInv
<1>3. Combined' = Combined /\ (Excused => Excused') /\ (Zeroed(whole)' => Zeroed(whole))
  BY <1>1 DEF Combined, SaidText, Asked, Excused, Heard, HasLive, Zeroed
<1>4. TypeOK'
  BY <1>1 DEF EvaluationInv, TypeOK
<1>5. WholeInv'
  BY <1>1, <1>2, <1>3 DEF EvaluationInv, WholeInv, Broke
<1>6. OnlyABreakFails' /\ ScoreIsOfARecording'
  BY <1>1 DEF EvaluationInv, OnlyABreakFails, ScoreIsOfARecording, Asked
<1>7. OneTurnDoesNotZero'
  BY <1>1 DEF EvaluationInv, OneTurnDoesNotZero, Asked, Heard, HasLive
<1> QED
  BY <1>2, <1>4, <1>5, <1>6, <1>7 DEF EvaluationInv

LEMMA EvaluationStep ==
    ASSUME EvaluationInv, [Next]_vars
    PROVE  EvaluationInv'
<1>1. ASSUME NEW t \in Turn, TurnStep(t) PROVE EvaluationInv'
  <2>1. CASE BeginTurn(t)
    BY <2>1, BeginTurnStep
  <2>2. CASE Start(t)
    BY <2>2, StartStep
  <2>3. CASE Validity(t)
    BY <2>3, ValidityStep
  <2>4. CASE Pronunciation(t)
    BY <2>4, PronunciationStep
  <2>5. CASE AzureScoreScale(t)
    BY <2>5, ScaleStep
  <2>6. CASE AnswerLength(t)
    BY <2>6, LengthStep
  <2>7. CASE LanguageQuality(t)
    BY <2>7, LanguageStep
  <2>8. CASE Merge(t)
    BY <2>8, MergeStep
  <2> QED
    BY <1>1, <2>1, <2>2, <2>3, <2>4, <2>5, <2>6, <2>7, <2>8
       DEF TurnStep, ExamStep, PracticeStep, PracticeValidity, PracticePronunciation,
           PracticeAnswerLength, PracticeLanguageQuality
<1>2. CASE EndTurns
  BY <1>2, EndTurnsStep
<1>3. CASE WholeValidity
  BY <1>3, WholeValidityStep
<1>4. CASE WholeLength
  BY <1>4, WholeLengthStep
<1>5. CASE WholeLanguage
  BY <1>5, WholeLanguageStep
<1>6. CASE WholeMerge
  BY <1>6, WholeMergeStep
<1>7. CASE UNCHANGED vars
  BY <1>7, EvaluationStutters
<1> QED
  BY <1>1, <1>2, <1>3, <1>4, <1>5, <1>6, <1>7 DEF Next, Done

\* Every evaluation keeps the invariant.
LEMMA EvaluationKeeps == Spec => []EvaluationInv
<1>1. Init => EvaluationInv
  BY InitEvaluation
<1>2. EvaluationInv /\ [Next]_vars => EvaluationInv'
  BY EvaluationStep
<1> QED
  BY <1>1, <1>2, PTL DEF Spec

\* A graph is always at one of its supersteps, has ended or has not begun, for any
\* number of turns (TurnInv); the whole answer starts only from turns that all
\* ended with a result (evaluate_question, _evaluate_turn).
THEOREM GraphsAreStaged == Spec => [](TypeOK /\ TurnInv)
<1>1. EvaluationInv => TypeOK /\ TurnInv
  BY DEF EvaluationInv
<1> QED
  BY <1>1, EvaluationKeeps, PTL

\* An exam attempt fails only when a recording, the archive, the language model or
\* the reference of a script broke, for any number of turns and any set of rules that
\* the validity model reports (merge_scores_node, start_node, _evaluate_turn).
THEOREM FailsOnlyByABreak == Spec => []OnlyABreakFails
<1>1. EvaluationInv => OnlyABreakFails
  BY DEF EvaluationInv
<1> QED
  BY <1>1, EvaluationKeeps, PTL

\* The pronunciation score of the event is there exactly when some turn that was not
\* rejected has a recording, and on the rubric's scale exactly in an exam with a
\* framework of pronunciation (azure_score_scale_node, _average_pronunciation_score).
THEOREM ScoresAreRecorded == Spec => []ScoreIsOfARecording
<1>1. EvaluationInv => ScoreIsOfARecording
  BY DEF EvaluationInv
<1> QED
  BY <1>1, EvaluationKeeps, PTL

\* What the gates find in single turns never zeroes an answer in which something was
\* heard: only a rule of the model does, about the complete answer or about profanity
\* (_merge_turn_validity).  That an answer foreign in every turn is not zeroed either
\* is what the code does, against its comment (ForeignIsNotPassed).
THEOREM TurnsDoNotZero == Spec => []OneTurnDoesNotZero
<1>1. EvaluationInv => OneTurnDoesNotZero
  BY DEF EvaluationInv
<1> QED
  BY <1>1, EvaluationKeeps, PTL

-----------------------------------------------------------------------------
(***************************************************************************)
(* The judgement of a criterion, for replies of any number: sorted by      *)
(* score, each reply has a rank of its own.                                *)
(***************************************************************************)
\* s is a list of n replies.
Lists(s, n) == n \in Nat /\ DOMAIN s = 1 .. n /\ Len(s) = n /\ \A i \in 1 .. n : s[i].score \in Int

Others(s, i) == {j \in DOMAIN s : Before(s, j, i)}

LEMMA UpTo ==
    ASSUME NEW n \in Nat
    PROVE  IsFiniteSet(1 .. n) /\ Cardinality(1 .. n) = n
<1>1. 1 \in Int /\ n \in Int /\ (IF 1 > n THEN 0 ELSE n - 1 + 1) = n
  OBVIOUS
<1>2. IsFiniteSet(1 .. n) /\ Cardinality(1 .. n) = IF 1 > n THEN 0 ELSE n - 1 + 1
  BY <1>1, FS_Interval
<1> QED
  BY <1>1, <1>2

LEMMA RankIs ==
    ASSUME NEW s, NEW n, Lists(s, n), NEW i \in 1 .. n
    PROVE  /\ DOMAIN s = 1 .. n /\ s[i].score \in Int
           /\ IsFiniteSet(Others(s, i)) /\ Others(s, i) \subseteq (1 .. n) \ {i} /\ i \notin Others(s, i)
           /\ Rank(s, i) = Cardinality(Others(s, i)) /\ Rank(s, i) \in 0 .. n - 1
           /\ IsFiniteSet((1 .. n) \ {i}) /\ Cardinality((1 .. n) \ {i}) = n - 1
<1>1. n \in Nat /\ DOMAIN s = 1 .. n /\ \A j \in 1 .. n : s[j].score \in Int
  BY DEF Lists
<1>2. IsFiniteSet(1 .. n) /\ Cardinality(1 .. n) = n
  BY <1>1, UpTo
<1>3. IsFiniteSet((1 .. n) \ {i}) /\ Cardinality((1 .. n) \ {i}) = n - 1
  BY <1>2, FS_RemoveElement
<1>4. Others(s, i) \in SUBSET ((1 .. n) \ {i})
  BY <1>1 DEF Others, Before
<1>5. IsFiniteSet(Others(s, i)) /\ Cardinality(Others(s, i)) <= n - 1
  BY <1>3, <1>4, FS_Subset
<1>6. Cardinality(Others(s, i)) \in Nat
  BY <1>5, FS_CardinalityType
<1>7. Rank(s, i) = Cardinality(Others(s, i))
  BY DEF Rank, Others
<1> QED
  BY <1>1, <1>3, <1>4, <1>5, <1>6, <1>7

\* A reply that comes before another one has the smaller rank.
LEMMA RankGrows ==
    ASSUME NEW s, NEW n, Lists(s, n), NEW i \in 1 .. n, NEW j \in 1 .. n,
           Before(s, i, j)
    PROVE  Rank(s, i) < Rank(s, j)
<1>1. n \in Nat /\ DOMAIN s = 1 .. n /\ \A k \in 1 .. n : s[k].score \in Int
  BY DEF Lists
<1>2. /\ IsFiniteSet(Others(s, i)) /\ Rank(s, i) = Cardinality(Others(s, i)) /\ Rank(s, i) \in 0 .. n - 1
      /\ IsFiniteSet(Others(s, j)) /\ Rank(s, j) = Cardinality(Others(s, j)) /\ Rank(s, j) \in 0 .. n - 1
      /\ i \notin Others(s, i)
  BY RankIs
<1>3. Others(s, i) \cup {i} \in SUBSET Others(s, j)
  <2>1. i \in Others(s, j)
    BY <1>1 DEF Others
  <2>2. ASSUME NEW k \in Others(s, i) PROVE k \in Others(s, j)
    BY <1>1 DEF Others, Before
  <2> QED
    BY <2>1, <2>2
<1>4. Cardinality(Others(s, i) \cup {i}) = Cardinality(Others(s, i)) + 1
  BY <1>2, FS_AddElement
<1>5. Cardinality(Others(s, i) \cup {i}) <= Cardinality(Others(s, j))
  BY <1>2, <1>3, FS_Subset
<1> QED
  BY <1>2, <1>4, <1>5

\* Every place of the sorted list is taken.
LEMMA RankOnto ==
    ASSUME NEW s, NEW n, Lists(s, n), NEW k \in 0 .. n - 1
    PROVE  \E i \in 1 .. n : Rank(s, i) = k
<1> DEFINE f == [i \in 1 .. n |-> Rank(s, i)]
<1>1. f \in [1 .. n -> 0 .. n - 1]
  BY RankIs
<1>2. ASSUME NEW i \in 1 .. n, NEW j \in 1 .. n, i # j PROVE f[i] # f[j]
  <2>1. s[i].score \in Int /\ s[j].score \in Int
    BY DEF Lists
  <2>2. Before(s, i, j) \/ Before(s, j, i)
    BY <1>2, <2>1 DEF Before
  <2>3. Rank(s, i) \in 0 .. n - 1 /\ Rank(s, j) \in 0 .. n - 1
    BY RankIs
  <2>4. Rank(s, i) < Rank(s, j) \/ Rank(s, j) < Rank(s, i)
    BY <2>2, RankGrows
  <2> QED
    BY <2>3, <2>4
<1> HIDE DEF f
<1>3. f \in Injection(1 .. n, 0 .. n - 1)
  BY <1>1, <1>2 DEF Injection, IsInjective
<1>4. /\ IsFiniteSet(1 .. n) /\ Cardinality(1 .. n) = n
      /\ IsFiniteSet(0 .. n - 1) /\ Cardinality(0 .. n - 1) = n
  <2>1. 0 \in Int /\ n - 1 \in Int /\ n \in Nat /\ (IF 0 > n - 1 THEN 0 ELSE (n - 1) - 0 + 1) = n
    BY DEF Lists
  <2>2. IsFiniteSet(1 .. n) /\ Cardinality(1 .. n) = n
    BY <2>1, UpTo
  <2>3. IsFiniteSet(0 .. n - 1) /\ Cardinality(0 .. n - 1) = IF 0 > n - 1 THEN 0 ELSE (n - 1) - 0 + 1
    BY <2>1, FS_Interval
  <2> QED
    BY <2>1, <2>2, <2>3
<1>5. f \in Surjection(1 .. n, 0 .. n - 1)
  BY <1>3, <1>4, FS_Injection
<1>6. PICK i \in 1 .. n : f[i] = k
  BY <1>5 DEF Surjection
<1> QED
  BY <1>6 DEF f

LEMMA SortedIs ==
    ASSUME NEW s, NEW n, Lists(s, n), NEW k \in 1 .. n
    PROVE  \E i \in 1 .. n : Rank(s, i) = k - 1 /\ Sorted(s)[k] = s[i]
<1>1. DOMAIN s = 1 .. n
  BY DEF Lists
<1>2. \E i \in 1 .. n : Rank(s, i) = k - 1
  <2>1. k - 1 \in 0 .. n - 1
    BY DEF Lists
  <2> QED
    BY <2>1, RankOnto
<1>3. PICK i : i = CHOOSE j \in 1 .. n : Rank(s, j) = k - 1
  OBVIOUS
<1>4. i \in 1 .. n /\ Rank(s, i) = k - 1
  BY <1>2, <1>3
<1>5. Sorted(s)[k] = s[i]
  BY <1>1, <1>3 DEF Sorted
<1> QED
  BY <1>4, <1>5

\* The middle reply is the median, of two the higher.
LEMMA MiddleIsMedian ==
    ASSUME NEW s, NEW n \in Nat \ {0}, Lists(s, n), NEW m, m = Middle(s).score
    PROVE  /\ m \in {s[i].score : i \in 1 .. n}
           /\ 2 * Cardinality({i \in DOMAIN s : s[i].score > m}) < n + (n % 2)
           /\ 2 * Cardinality({i \in DOMAIN s : s[i].score < m}) <= n
<1>1. n \div 2 + 1 \in 1 .. n
  OBVIOUS
<1>2. PICK i \in 1 .. n : Rank(s, i) = n \div 2 /\ Sorted(s)[n \div 2 + 1] = s[i]
  BY <1>1, SortedIs
<1>3. m = s[i].score
  BY <1>2 DEF Middle, Lists
<1>4. /\ DOMAIN s = 1 .. n /\ (\A k \in 1 .. n : s[k].score \in Int)
  BY DEF Lists
<1>5. /\ IsFiniteSet(Others(s, i)) /\ Others(s, i) \subseteq (1 .. n) \ {i}
      /\ Cardinality(Others(s, i)) = n \div 2
      /\ IsFiniteSet((1 .. n) \ {i}) /\ Cardinality((1 .. n) \ {i}) = n - 1
  BY <1>2, RankIs
<1> DEFINE above == {j \in DOMAIN s : s[j].score > m}
           below == {j \in DOMAIN s : s[j].score < m}
           after == ((1 .. n) \ {i}) \ Others(s, i)
<1>6. below \in SUBSET Others(s, i)
  BY <1>3, <1>4 DEF Others, Before
<1>7. above \in SUBSET after
  BY <1>3, <1>4, <1>5 DEF Others, Before
<1> HIDE DEF above, below
<1>8. Cardinality(below) <= n \div 2
  BY <1>5, <1>6, FS_Subset
<1>9. IsFiniteSet(below) /\ IsFiniteSet(after) /\ IsFiniteSet(above)
  <2>1. IsFiniteSet(below)
    BY <1>5, <1>6, FS_Subset
  <2>2. IsFiniteSet(after)
    BY <1>5, FS_Difference
  <2> QED
    BY <1>7, <2>1, <2>2, FS_Subset
<1>10. Cardinality(after) = (n - 1) - n \div 2
  <2>1. ((1 .. n) \ {i}) \cap Others(s, i) = Others(s, i)
    BY <1>5
  <2>2. Cardinality(after) = Cardinality((1 .. n) \ {i}) - Cardinality(((1 .. n) \ {i}) \cap Others(s, i))
    BY <1>5, FS_Difference
  <2> QED
    BY <1>5, <2>1, <2>2
<1>11. Cardinality(above) <= Cardinality(after)
  BY <1>7, <1>9, FS_Subset
<1>12. Cardinality(above) \in Nat /\ Cardinality(below) \in Nat
  BY <1>9, FS_CardinalityType
<1>13. 2 * Cardinality(above) < n + (n % 2) /\ 2 * Cardinality(below) <= n
  BY <1>8, <1>10, <1>11, <1>12
<1> QED
  BY <1>3, <1>4, <1>13 DEF above, below

\* The ends of the sorted list bound all scores.
LEMMA EndsBound ==
    ASSUME NEW s, NEW n \in Nat \ {0}, Lists(s, n)
    PROVE  /\ Lowest(s) \in Int /\ Highest(s) \in Int /\ Lowest(s) <= Highest(s)
           /\ \A j \in 1 .. n : Lowest(s) <= s[j].score /\ s[j].score <= Highest(s)
<1>1. n \in Nat /\ DOMAIN s = 1 .. n /\ \A k \in 1 .. n : s[k].score \in Int
  BY DEF Lists
<1>2. PICK i \in 1 .. n : Rank(s, i) = 1 - 1 /\ Sorted(s)[1] = s[i]
  <2>1. 1 \in 1 .. n
    OBVIOUS
  <2> QED
    BY <2>1, SortedIs
<1>3. PICK h \in 1 .. n : Rank(s, h) = n - 1 /\ Sorted(s)[n] = s[h]
  <2>1. n \in 1 .. n
    OBVIOUS
  <2> QED
    BY <2>1, SortedIs
<1>4. \A j \in 1 .. n : s[i].score <= s[j].score
  <2> SUFFICES ASSUME NEW j \in 1 .. n, ~ (s[i].score <= s[j].score) PROVE FALSE
    OBVIOUS
  <2>1. Before(s, j, i)
    BY <1>1 DEF Before
  <2>2. Rank(s, j) < Rank(s, i) /\ Rank(s, j) \in 0 .. n - 1
    BY <2>1, RankGrows, RankIs
  <2> QED
    BY <1>2, <2>2
<1>5. \A j \in 1 .. n : s[j].score <= s[h].score
  <2> SUFFICES ASSUME NEW j \in 1 .. n, ~ (s[j].score <= s[h].score) PROVE FALSE
    OBVIOUS
  <2>1. Before(s, h, j)
    BY <1>1 DEF Before
  <2>2. Rank(s, h) < Rank(s, j) /\ Rank(s, j) \in 0 .. n - 1
    BY <2>1, RankGrows, RankIs
  <2> QED
    BY <1>3, <2>2
<1>6. Lowest(s) = s[i].score /\ Highest(s) = s[h].score
  BY <1>2, <1>3 DEF Lowest, Highest, Lists
<1> QED
  BY <1>1, <1>4, <1>5, <1>6

\* The quotient of integers, rounded down.
LEMMA Divided ==
    ASSUME NEW a \in Nat, NEW d \in Nat \ {0}, NEW q, q = a \div d
    PROVE  q \in Nat /\ d * q <= a /\ a < d * q + d
OBVIOUS

\* Without a spread all scores are equal; with one below a thousand they are less
\* than two points of ten apart.
LEMMA SpreadIs ==
    ASSUME NEW s, NEW n \in Nat \ {0}, Lists(s, n), NEW q, q = Spread(s)
    PROVE  /\ q \in Nat
           /\ q < 1000 => 5 * (Highest(s) - Lowest(s)) < High - Low
           /\ q = 0 => Highest(s) = Lowest(s)
<1>1. Lowest(s) \in Int /\ Highest(s) \in Int /\ Lowest(s) <= Highest(s)
  BY EndsBound
<1>2. PICK w \in Nat : w = Highest(s) - Lowest(s)
  BY <1>1
<1>3. PICK d \in Nat \ {0} : d = High - Low /\ d <= 5000
  BY RangeAssumption, PrecisionAssumption
<1>4. PICK a \in Nat : a = w * 5000
  OBVIOUS
<1>5. q \in Nat /\ w * 5000 < d * q + d
  <2>1. q = a \div d
    BY <1>2, <1>3, <1>4 DEF Spread
  <2>2. q \in Nat /\ a < d * q + d
    BY <2>1, Divided
  <2> QED
    BY <1>4, <2>2
<1>6. q < 1000 => 5 * w < d
  <2> SUFFICES ASSUME q <= 999 PROVE 5 * w < d
    BY <1>5
  <2>1. d * q <= d * 999
    BY <1>5
  <2> QED
    BY <1>5, <2>1
<1>7. q = 0 => w = 0
  BY <1>3, <1>5
<1>8. q = 0 => Highest(s) = Lowest(s)
  BY <1>1, <1>2, <1>7
<1> QED
  BY <1>2, <1>3, <1>5, <1>6, <1>8

\* Not all the replies are ungrounded when they are not doubted.
LEMMA NotDoubted ==
    ASSUME NEW s, NEW n \in Nat \ {0}, Lists(s, n), ~ Doubted(s)
    PROVE  \E i \in 1 .. n : s[i].grounded
<1> SUFFICES ASSUME \A i \in 1 .. n : ~ s[i].grounded PROVE FALSE
  OBVIOUS
<1>1. DOMAIN s = 1 .. n /\ Len(s) = n
  BY DEF Lists
<1>2. {i \in DOMAIN s : ~ s[i].grounded} = 1 .. n
  BY <1>1
<1>3. Cardinality(1 .. n) = n
  BY UpTo
<1>4. ~ (2 * n > n)
  BY <1>1, <1>2, <1>3 DEF Doubted
<1> QED
  BY <1>4

\* What the judgement of a criterion says.
LEMMA JudgementOf ==
    ASSUME NEW s, NEW n \in Nat \ {0}, Lists(s, n), NEW j, j = Judgement(s)
    PROVE  /\ j.score = Middle(s).score
           /\ j.confidence > 0 =>
                n >= 2 /\ \A x \in 1 .. n, y \in 1 .. n : 5 * (s[x].score - s[y].score) < High - Low
           /\ j.confidence = 1000 =>
                /\ n >= 2 /\ \A x \in 1 .. n, y \in 1 .. n : s[x].score = s[y].score
                /\ \E i \in 1 .. n : s[i].grounded
<1>1. Len(s) = n /\ DOMAIN s = 1 .. n /\ \A i \in 1 .. n : s[i].score \in Int
  BY DEF Lists
<1>2. CASE n = 1
  <2>1. j = [score |-> s[1].score, confidence |-> 0]
    BY <1>1, <1>2 DEF Judgement
  <2>2. 1 \in 1 .. n
    OBVIOUS
  <2>3. PICK i \in 1 .. n : Sorted(s)[1] = s[i]
    BY <2>2, SortedIs
  <2>4. Middle(s) = Sorted(s)[1]
    BY <1>1, <1>2 DEF Middle
  <2>5. Middle(s) = s[1]
    BY <1>2, <2>3, <2>4
  <2> QED
    BY <2>1, <2>5
<1>3. CASE n >= 2
  <2>1. PICK q : q = Spread(s)
    OBVIOUS
  <2>2. /\ q \in Nat
        /\ q < 1000 => 5 * (Highest(s) - Lowest(s)) < High - Low
        /\ q = 0 => Highest(s) = Lowest(s)
    BY <2>1, SpreadIs
  <2>3. PICK steady : steady = ClipUnit(1000 - q)
    OBVIOUS
  <2>4. steady \in 0 .. 1000 /\ (steady > 0 => q < 1000) /\ (steady = 1000 => q = 0)
    BY <2>2, <2>3 DEF ClipUnit
  <2>5. j = [score |-> Middle(s).score,
             confidence |-> IF Doubted(s) THEN (steady * 7) \div 10 ELSE steady]
    BY <1>1, <1>3, <2>1, <2>3 DEF Judgement
  <2>6. /\ Lowest(s) \in Int /\ Highest(s) \in Int
        /\ \A i \in 1 .. n : Lowest(s) <= s[i].score /\ s[i].score <= Highest(s)
    BY EndsBound
  <2>7. ASSUME j.confidence > 0 PROVE steady > 0
    <3>1. CASE Doubted(s)
      BY <2>4, <2>5, <2>7, <3>1
    <3>2. CASE ~ Doubted(s)
      BY <2>5, <2>7, <3>2
    <3> QED
      BY <3>1, <3>2
  <2>8. ASSUME j.confidence = 1000 PROVE steady = 1000 /\ ~ Doubted(s)
    <3>1. CASE Doubted(s)
      BY <2>4, <2>5, <2>8, <3>1
    <3>2. CASE ~ Doubted(s)
      BY <2>5, <2>8, <3>2
    <3> QED
      BY <3>1, <3>2
  <2>9. ASSUME j.confidence > 0, NEW x \in 1 .. n, NEW y \in 1 .. n
        PROVE  5 * (s[x].score - s[y].score) < High - Low
    BY <1>1, <2>2, <2>4, <2>6, <2>7, <2>9, RangeAssumption
  <2>10. ASSUME j.confidence = 1000, NEW x \in 1 .. n, NEW y \in 1 .. n
         PROVE  s[x].score = s[y].score
    BY <1>1, <2>2, <2>4, <2>6, <2>8, <2>10
  <2>11. ASSUME j.confidence = 1000 PROVE \E i \in 1 .. n : s[i].grounded
    BY <2>8, <2>11, NotDoubted
  <2>12. j.score = Middle(s).score
    BY <2>5
  <2> QED
    BY <1>3, <2>9, <2>10, <2>11, <2>12
<1> QED
  BY <1>2, <1>3

(***************************************************************************)
(* The requests.  Each slot is free or a request holds it; what is judged  *)
(* is the replies of the requests, which are then all over.                *)
(***************************************************************************)
Calling == {r \in Round : call[r].state = "calling"}

JudgementInv ==
    /\ JudgementTypeOK
    /\ \A c \in Criterion : \A i \in DOMAIN scored[c] : scored[c][i].score \in Low .. High
    /\ free + Cardinality(Calling) = Slots
    /\ result.state = "judged" =>
         Finished /\ \A c \in Criterion : scored[c] # << >> /\ result.of[c] = Judgement(scored[c])

LEMMA CallingFinite == IsFiniteSet(Calling) /\ Cardinality(Calling) \in Nat
<1>1. IsFiniteSet(Round)
  <2>1. 3 \in Nat
    OBVIOUS
  <2> QED
    BY <2>1, UpTo DEF Round
<1>2. Calling \in SUBSET Round
  BY DEF Calling
<1>3. IsFiniteSet(Calling)
  BY <1>1, <1>2, FS_Subset
<1> QED
  BY <1>3, FS_CardinalityType

LEMMA JudgementInitInv == JudgementInit => JudgementInv
<1> SUFFICES ASSUME JudgementInit PROVE JudgementInv
  OBVIOUS
<1>1. JudgementTypeOK
  <2>1. << >> \in Seq(Item) /\ [try |-> "primary", state |-> "waiting"] \in Call
    BY DEF Call, Try
  <2>2. call \in [Round -> Call] /\ scored \in [Criterion -> Seq(Item)]
    BY <2>1 DEF JudgementInit
  <2>3. free \in 0 .. Slots
    BY SlotAssumption DEF JudgementInit
  <2> QED
    BY <2>2, <2>3 DEF JudgementInit, JudgementTypeOK
<1>2. Calling = {}
  BY DEF JudgementInit, Calling
<1>3. free + Cardinality(Calling) = Slots
  BY <1>2, FS_EmptySet, SlotAssumption DEF JudgementInit
<1> QED
  BY <1>1, <1>3 DEF JudgementInit, JudgementInv

\* A request that is not over keeps the judgement waiting.
LEMMA NotFinished ==
    ASSUME JudgementInv, NEW r \in Round, call[r].state \in {"waiting", "calling", "sleeping"}
    PROVE  result.state # "judged"
BY DEF JudgementInv, Finished

\* A request gets a slot, gives one back, or goes on without.
LEMMA SlotsMove ==
    ASSUME JudgementInv, NEW r \in Round, NEW k \in Call, call' = [call EXCEPT ![r] = k],
           \/ call[r].state # "calling" /\ k.state = "calling" /\ free > 0 /\ free' = free - 1
           \/ call[r].state = "calling" /\ k.state # "calling" /\ free' = free + 1
           \/ call[r].state # "calling" /\ k.state # "calling" /\ free' = free
    PROVE  /\ call' \in [Round -> Call] /\ free' \in 0 .. Slots
           /\ free' + Cardinality(Calling') = Slots
<1>1. /\ call \in [Round -> Call] /\ free \in 0 .. Slots /\ Slots \in Nat
      /\ free + Cardinality(Calling) = Slots
  BY SlotAssumption DEF JudgementInv, JudgementTypeOK
<1>2. call' \in [Round -> Call]
  BY <1>1
<1>3. IsFiniteSet(Calling) /\ Cardinality(Calling) \in Nat
  BY CallingFinite
<1>4. CASE call[r].state # "calling" /\ k.state = "calling" /\ free > 0 /\ free' = free - 1
  <2>1. Calling' = Calling \cup {r} /\ r \notin Calling
    BY <1>1, <1>4 DEF Calling
  <2>2. Cardinality(Calling \cup {r}) = Cardinality(Calling) + 1
    BY <1>3, <2>1, FS_AddElement
  <2> QED
    BY <1>1, <1>2, <1>3, <1>4, <2>1, <2>2
<1>5. CASE call[r].state = "calling" /\ k.state # "calling" /\ free' = free + 1
  <2>1. Calling' = Calling \ {r} /\ r \in Calling
    BY <1>1, <1>5 DEF Calling
  <2>2. Cardinality(Calling \ {r}) = Cardinality(Calling) - 1 /\ IsFiniteSet(Calling \ {r})
    BY <1>3, <2>1, FS_RemoveElement
  <2>3. Cardinality(Calling \ {r}) \in Nat
    BY <2>2, FS_CardinalityType
  <2> QED
    BY <1>1, <1>2, <1>3, <1>5, <2>1, <2>2, <2>3
<1>6. CASE call[r].state # "calling" /\ k.state # "calling" /\ free' = free
  <2>1. Calling' = Calling
    BY <1>1, <1>6 DEF Calling
  <2> QED
    BY <1>1, <1>2, <1>6, <2>1
<1> QED
  BY <1>4, <1>5, <1>6

\* What the loop takes from a reply is in the range.
LEMMA Collects ==
    ASSUME JudgementInv, NEW reply \in JudgeReply, Collect(reply)
    PROVE  /\ scored' \in [Criterion -> Seq(Item)] /\ crashed' \in BOOLEAN
           /\ \A c \in Criterion : \A i \in DOMAIN scored'[c] : scored'[c][i].score \in Low .. High
<1>1. /\ scored \in [Criterion -> Seq(Item)] /\ crashed \in BOOLEAN
      /\ \A c \in Criterion : \A i \in DOMAIN scored[c] : scored[c][i].score \in Low .. High
  BY DEF JudgementInv, JudgementTypeOK
<1>2. CASE crashed \/ reply = NoObject
  BY <1>1, <1>2 DEF Collect
<1>3. CASE ~ (crashed \/ reply = NoObject)
  <2>1. /\ scored' = [c \in Criterion |->
                        IF Valid(reply[c]) THEN Append(scored[c], reply[c]) ELSE scored[c]]
        /\ crashed' = crashed
    BY <1>3 DEF Collect
  <2>2. ASSUME NEW c \in Criterion
        PROVE  /\ scored'[c] \in Seq(Item)
               /\ \A i \in DOMAIN scored'[c] : scored'[c][i].score \in Low .. High
    <3>1. PICK s \in Seq(Item) : s = scored[c]
      BY <1>1
    <3>2. CASE Valid(reply[c])
      <4>1. PICK x \in Item : x = reply[c] /\ Low <= x.score /\ x.score <= High
        BY <1>3, <3>2, JudgeReplyAssumption DEF Valid
      <4>2. scored'[c] = Append(s, x)
        BY <2>1, <3>1, <3>2, <4>1
      <4>3. /\ Append(s, x) \in Seq(Item) /\ DOMAIN Append(s, x) = 1 .. Len(s) + 1
            /\ Len(s) \in Nat /\ DOMAIN s = 1 .. Len(s)
            /\ \A i \in 1 .. Len(s) : Append(s, x)[i] = s[i]
            /\ Append(s, x)[Len(s) + 1] = x
        BY AppendProperties
      <4>4. x.score \in Low .. High
        BY <4>1, RangeAssumption DEF Item
      <4>5. ASSUME NEW i \in DOMAIN Append(s, x) PROVE Append(s, x)[i].score \in Low .. High
        <5>1. i \in 1 .. Len(s) \/ i = Len(s) + 1
          BY <4>3, <4>5
        <5> QED
          BY <1>1, <3>1, <4>3, <4>4, <5>1
      <4> QED
        BY <4>2, <4>3, <4>5
    <3>3. CASE ~ Valid(reply[c])
      BY <1>1, <2>1, <3>3
    <3> QED
      BY <3>2, <3>3
  <2>3. scored' \in [Criterion -> Seq(Item)]
    <3>1. \A c \in Criterion : (IF Valid(reply[c]) THEN Append(scored[c], reply[c]) ELSE scored[c]) \in Seq(Item)
      BY <2>1, <2>2
    <3> QED
      BY <2>1, <3>1
  <2> QED
    BY <1>1, <2>1, <2>2, <2>3
<1> QED
  BY <1>2, <1>3

LEMMA RequestKeeps ==
    ASSUME JudgementInv, NEW r \in Round, RequestStep(r)
    PROVE  JudgementInv'
<1>1. /\ call \in [Round -> Call] /\ call[r] \in Call /\ result' = result
      /\ broken \in BOOLEAN /\ crashed \in BOOLEAN
      /\ result.state \in {"none", "judged", "failed"}
      /\ scored \in [Criterion -> Seq(Item)]
      /\ \A c \in Criterion : \A i \in DOMAIN scored[c] : scored[c][i].score \in Low .. High
  BY DEF JudgementInv, JudgementTypeOK, RequestStep, AcquireSlot, Answer, RateLimited, WakeUp, CallFails
<1>2. call[r].state \in {"waiting", "calling", "sleeping"}
  BY DEF RequestStep, AcquireSlot, Answer, RateLimited, WakeUp, CallFails
<1>3. result'.state # "judged"
  BY <1>1, <1>2, NotFinished
<1>4. PICK k \in Call :
        /\ call' = [call EXCEPT ![r] = k]
        /\ \/ call[r].state # "calling" /\ k.state = "calling" /\ free > 0 /\ free' = free - 1
           \/ call[r].state = "calling" /\ k.state # "calling" /\ free' = free + 1
           \/ call[r].state # "calling" /\ k.state # "calling" /\ free' = free
  <2>1. PICK c \in Call : c = call[r]
    BY <1>1
  <2>2. c.try \in Try /\ \A x \in {"waiting", "calling", "answered", "failed"} : [c EXCEPT !.state = x] \in Call
    BY DEF Call
  <2>3. [try |-> "retry", state |-> "sleeping"] \in Call /\ [try |-> "fallback", state |-> "waiting"] \in Call
    BY DEF Call, Try
  <2>4. [try |-> "retry", state |-> "sleeping"].state # "calling"
    OBVIOUS
  <2>5. CASE AcquireSlot(r)
    <3>1. [c EXCEPT !.state = "calling"] \in Call /\ [c EXCEPT !.state = "calling"].state = "calling"
      BY <2>2 DEF Call
    <3> QED
      BY <1>1, <2>1, <2>5, <3>1 DEF AcquireSlot
  <2>6. CASE Answer(r)
    <3>1. [c EXCEPT !.state = "answered"] \in Call /\ [c EXCEPT !.state = "answered"].state # "calling"
      BY <2>2 DEF Call
    <3> QED
      BY <1>1, <2>1, <2>6, <3>1 DEF Answer, ReleaseSlot
  <2>7. CASE RateLimited(r)
    <3>1. /\ call[r].state = "calling" /\ free' = free + 1
          /\ call' = [call EXCEPT ![r] = [try |-> "retry", state |-> "sleeping"]]
      BY <2>7 DEF RateLimited, ReleaseSlot
    <3> QED
      BY <2>4, <2>3, <3>1
  <2>8. CASE WakeUp(r)
    <3>1. [c EXCEPT !.state = "waiting"] \in Call /\ [c EXCEPT !.state = "waiting"].state # "calling"
      BY <2>2 DEF Call
    <3> QED
      BY <1>1, <2>1, <2>8, <3>1 DEF WakeUp
  <2>9. CASE CallFails(r)
    <3>1. [c EXCEPT !.state = "failed"] \in Call /\ [c EXCEPT !.state = "failed"].state # "calling"
      BY <2>2 DEF Call
    <3> QED
      BY <1>1, <2>1, <2>3, <2>9, <3>1 DEF CallFails, ReleaseSlot
  <2> QED
    BY <2>5, <2>6, <2>7, <2>8, <2>9 DEF RequestStep
<1>5. call' \in [Round -> Call] /\ free' \in 0 .. Slots /\ free' + Cardinality(Calling') = Slots
  BY <1>4, SlotsMove
<1>6. /\ scored' \in [Criterion -> Seq(Item)] /\ crashed' \in BOOLEAN /\ broken' \in BOOLEAN
      /\ \A c \in Criterion : \A i \in DOMAIN scored'[c] : scored'[c][i].score \in Low .. High
  <2>1. CASE Answer(r)
    <3>1. PICK reply \in JudgeReply : Collect(reply)
      BY <2>1 DEF Answer
    <3> QED
      BY <1>1, <2>1, <3>1, Collects DEF Answer
  <2>2. CASE ~ Answer(r)
    <3>1. scored' = scored /\ crashed' = crashed /\ broken' \in BOOLEAN
      BY <1>1, <2>2 DEF RequestStep, AcquireSlot, RateLimited, WakeUp, CallFails
    <3> QED
      BY <1>1, <3>1
  <2> QED
    BY <2>1, <2>2
<1>7. JudgementTypeOK'
  BY <1>1, <1>5, <1>6 DEF JudgementTypeOK
<1> QED
  BY <1>3, <1>5, <1>6, <1>7 DEF JudgementInv

LEMMA JudgeKeeps ==
    ASSUME JudgementInv, Judge
    PROVE  JudgementInv'
<1>1. Finished /\ UNCHANGED <<call, free, scored, broken, crashed>>
  BY DEF Judge
<1>2. Calling' = Calling /\ Finished' = Finished
  BY <1>1 DEF Calling, Finished
<1>3. /\ result'.state \in {"judged", "failed"}
      /\ result'.state = "judged" =>
           \A c \in Criterion : scored[c] # << >> /\ result'.of[c] = Judgement(scored[c])
  <2>1. CASE crashed \/ \E c \in Criterion : scored[c] = << >>
    BY <2>1 DEF Judge, Judgements
  <2>2. CASE ~ (crashed \/ \E c \in Criterion : scored[c] = << >>)
    <3>1. result' = [state |-> "judged", of |-> [c \in Criterion |-> Judgement(scored[c])]]
      BY <2>2 DEF Judge, Judgements
    <3> QED
      BY <2>2, <3>1
  <2> QED
    BY <2>1, <2>2
<1>4. JudgementTypeOK'
  BY <1>1, <1>3 DEF JudgementInv, JudgementTypeOK
<1>5. \A c \in Criterion : Judgement(scored[c])' = Judgement(scored[c])
  BY <1>1
<1> QED
  BY <1>1, <1>2, <1>3, <1>4, <1>5 DEF JudgementInv

LEMMA JudgementInvHolds == JudgementSpec => []JudgementInv
<1>1. JudgementInit => JudgementInv
  BY JudgementInitInv
<1>2. JudgementInv /\ [JudgementNext]_judgementVars => JudgementInv'
  <2> SUFFICES ASSUME JudgementInv, [JudgementNext]_judgementVars PROVE JudgementInv'
    OBVIOUS
  <2>1. CASE \E r \in Round : RequestStep(r)
    BY <2>1, RequestKeeps
  <2>2. CASE Judge
    BY <2>2, JudgeKeeps
  <2>3. CASE UNCHANGED judgementVars
    BY <2>3 DEF JudgementInv, JudgementTypeOK, Calling, Finished, judgementVars
  <2> QED
    BY <2>1, <2>2, <2>3 DEF JudgementNext, Judged
<1> QED
  BY <1>1, <1>2, PTL DEF JudgementSpec

\* The replies to a criterion that is judged.
LEMMA JudgedList ==
    ASSUME JudgementInv, result.state = "judged", NEW c \in Criterion
    PROVE  \E n \in Nat \ {0} :
              /\ Lists(scored[c], n) /\ result.of[c] = Judgement(scored[c])
              /\ \A i \in 1 .. n : scored[c][i].score \in Low .. High
<1>1. PICK s \in Seq(Item) : s = scored[c]
  BY DEF JudgementInv, JudgementTypeOK
<1>2. s # << >> /\ \A i \in DOMAIN s : s[i].score \in Low .. High
  BY <1>1 DEF JudgementInv
<1>3. Len(s) \in Nat \ {0} /\ DOMAIN s = 1 .. Len(s)
  BY <1>2, EmptySeq
<1>4. \A i \in 1 .. Len(s) : s[i].score \in Int
  BY <1>2, <1>3, RangeAssumption
<1>5. Lists(s, Len(s))
  BY <1>3, <1>4 DEF Lists
<1> QED
  BY <1>1, <1>2, <1>3, <1>5 DEF JudgementInv

LEMMA MedianFollows ==
    ASSUME JudgementInv, result.state = "judged", NEW c \in Criterion,
           NEW m, m = result.of[c].score
    PROVE  /\ m \in Scores(c) /\ m \in Low .. High
           /\ 2 * Cardinality({i \in DOMAIN scored[c] : scored[c][i].score > m})
                < Len(scored[c]) + (Len(scored[c]) % 2)
           /\ 2 * Cardinality({i \in DOMAIN scored[c] : scored[c][i].score < m}) <= Len(scored[c])
<1>1. PICK n \in Nat \ {0} :
        /\ Lists(scored[c], n) /\ result.of[c] = Judgement(scored[c])
        /\ \A i \in 1 .. n : scored[c][i].score \in Low .. High
  BY JudgedList
<1>2. PICK s : s = scored[c]
  OBVIOUS
<1>3. m = Middle(s).score
  <2>1. PICK j : j = Judgement(s)
    OBVIOUS
  <2>2. j.score = Middle(s).score
    BY <1>1, <1>2, <2>1, JudgementOf
  <2> QED
    BY <1>1, <1>2, <2>1, <2>2
<1>4. /\ m \in {s[i].score : i \in 1 .. n}
      /\ 2 * Cardinality({i \in DOMAIN s : s[i].score > m}) < n + (n % 2)
      /\ 2 * Cardinality({i \in DOMAIN s : s[i].score < m}) <= n
  <2>1. Lists(s, n)
    BY <1>1, <1>2
  <2>2. m \in {s[i].score : i \in 1 .. n}
    BY <1>3, <2>1, MiddleIsMedian
  <2>3. 2 * Cardinality({i \in DOMAIN s : s[i].score > m}) < n + (n % 2)
    BY <1>3, <2>1, MiddleIsMedian
  <2>4. 2 * Cardinality({i \in DOMAIN s : s[i].score < m}) <= n
    BY <1>3, <2>1, MiddleIsMedian
  <2> QED
    BY <2>2, <2>3, <2>4
<1>5. Len(s) = n /\ DOMAIN s = 1 .. n
  BY <1>1, <1>2 DEF Lists
<1>6. m \in Scores(c) /\ m \in Low .. High
  BY <1>1, <1>2, <1>4, <1>5 DEF Scores
<1> QED
  BY <1>2, <1>4, <1>5, <1>6

LEMMA ConfidenceFollows ==
    ASSUME JudgementInv, result.state = "judged", NEW c \in Criterion
    PROVE  /\ result.of[c].confidence > 0 =>
                /\ Len(scored[c]) >= 2
                /\ ~ \E x, y \in Scores(c) : 5 * (x - y) >= High - Low
           /\ result.of[c].confidence = 1000 =>
                /\ Len(scored[c]) >= 2 /\ Cardinality(Scores(c)) = 1
                /\ \E i \in DOMAIN scored[c] : scored[c][i].grounded
<1>1. PICK n \in Nat \ {0} :
        /\ Lists(scored[c], n) /\ result.of[c] = Judgement(scored[c])
        /\ \A i \in 1 .. n : scored[c][i].score \in Low .. High
  BY JudgedList
<1>2. PICK s : s = scored[c]
  OBVIOUS
<1>3. PICK j : j = result.of[c]
  OBVIOUS
<1>4. Len(s) = n /\ DOMAIN s = 1 .. n /\ \A i \in 1 .. n : s[i].score \in Int
  BY <1>1, <1>2 DEF Lists
<1>5. /\ j.confidence > 0 =>
           n >= 2 /\ \A x \in 1 .. n, y \in 1 .. n : 5 * (s[x].score - s[y].score) < High - Low
      /\ j.confidence = 1000 =>
           /\ n >= 2 /\ \A x \in 1 .. n, y \in 1 .. n : s[x].score = s[y].score
           /\ \E i \in 1 .. n : s[i].grounded
  BY <1>1, <1>2, <1>3, JudgementOf
<1>6. Scores(c) = {s[i].score : i \in 1 .. n}
  BY <1>2, <1>4 DEF Scores
<1>7. ASSUME j.confidence > 0, NEW x \in Scores(c), NEW y \in Scores(c)
      PROVE  ~ (5 * (x - y) >= High - Low)
  <2>1. PICK i \in 1 .. n, k \in 1 .. n : x = s[i].score /\ y = s[k].score
    BY <1>6
  <2>2. 5 * (x - y) < High - Low /\ x \in Int /\ y \in Int
    BY <1>4, <1>5, <1>7, <2>1
  <2> QED
    BY <2>2, RangeAssumption
<1>8. ASSUME j.confidence = 1000 PROVE Cardinality(Scores(c)) = 1
  <2>1. Scores(c) = {s[1].score}
    BY <1>5, <1>6, <1>8
  <2> QED
    BY <2>1, FS_Singleton
<1> QED
  BY <1>2, <1>3, <1>4, <1>5, <1>7, <1>8

\* A request holds a slot while the model is asked and at no other time, and the
\* slots are never more than the limit, for any limit (llm_call_slot).
THEOREM SlotsAreReturned ==
    JudgementSpec => [](JudgementTypeOK /\ free + Cardinality(Calling) = Slots)
<1>1. JudgementInv => JudgementTypeOK /\ free + Cardinality(Calling) = Slots
  BY DEF JudgementInv
<1> QED
  BY <1>1, JudgementInvHolds, PTL

\* A score is the median of the valid replies to its criterion and confidence is
\* earned by agreement, for any rubric and any order of the replies
\* (run_multi_criterion_consensus_judgment).
THEOREM JudgementsAreSound == JudgementSpec => []JudgementIsSound
<1>1. ASSUME JudgementInv PROVE SelectedIsMedian
  <2> SUFFICES ASSUME result.state = "judged", NEW c \in Criterion
               PROVE  LET m == result.of[c].score IN
                      /\ m \in Scores(c) /\ m \in Low .. High
                      /\ 2 * Count(c, LAMBDA x : x > m) < Len(scored[c]) + (Len(scored[c]) % 2)
                      /\ 2 * Count(c, LAMBDA x : x < m) <= Len(scored[c])
    BY DEF SelectedIsMedian
  <2>1. PICK m : m = result.of[c].score
    OBVIOUS
  <2>2. m \in Scores(c) /\ m \in Low .. High
    BY <1>1, <2>1, MedianFollows
  <2>3. 2 * Count(c, LAMBDA x : x > m) < Len(scored[c]) + (Len(scored[c]) % 2)
    <3>1. 2 * Cardinality({i \in DOMAIN scored[c] : scored[c][i].score > m})
            < Len(scored[c]) + (Len(scored[c]) % 2)
      BY <1>1, <2>1, MedianFollows
    <3> QED
      BY <3>1 DEF Count
  <2>4. 2 * Count(c, LAMBDA x : x < m) <= Len(scored[c])
    <3>1. 2 * Cardinality({i \in DOMAIN scored[c] : scored[c][i].score < m}) <= Len(scored[c])
      BY <1>1, <2>1, MedianFollows
    <3> QED
      BY <3>1 DEF Count
  <2> QED
    BY <2>1, <2>2, <2>3, <2>4 DEF Count
<1>2. ASSUME JudgementInv PROVE ConfidenceIsEarned
  <2> SUFFICES ASSUME result.state = "judged", NEW c \in Criterion
               PROVE  LET n == Len(scored[c])
                          far == \E x, y \in Scores(c) : 5 * (x - y) >= High - Low
                      IN  /\ result.of[c].confidence > 0 => n >= 2 /\ ~ far
                          /\ result.of[c].confidence = 1000 =>
                               n >= 2 /\ Cardinality(Scores(c)) = 1
                               /\ \E i \in DOMAIN scored[c] : scored[c][i].grounded
    BY DEF ConfidenceIsEarned
  <2> QED
    BY <1>2, ConfidenceFollows
<1>3. JudgementInv => JudgementIsSound
  BY <1>1, <1>2 DEF JudgementIsSound
<1> QED
  BY <1>3, JudgementInvHolds, PTL
=============================================================================
