# Voxenta agentic AI: TLA+ verification

This directory verifies the speaking-exam service of this repository: the part of
it where several things happen at once and a student's answer can get lost,
doubled or credited with the wrong words. It is written from the source under
`src/src`; paths below are relative to that directory unless they start with
`src/`.

## 1. The system

A student takes a speaking exam over one WebSocket per attempt. The service
listens with Azure Voice Live, decides with an LLM whether to follow up, speaks
the next prompt, archives the recording of every turn in a LangGraph checkpoint
(`thread_id = answer_id`), publishes every turn to Kafka for the Java side, and
grades finished answers that come back over Kafka. Next to it there is a
practice mode, proctoring over WebRTC, and generators of questions and topics.

| component | code | state it keeps | operations |
|---|---|---|---|
| answer thread | `infra/database/archive_store.py`, `node/followUpDecisionGraph` | the checkpoint of one answer: five list channels joined with `add`, the question's snapshot | persist a snapshot, transcript, decision, publish mark; run the archive graph; read the resume state |
| turn processing | `realtime/turn/processor.py`, `realtime/question/session.py` | the question session: turn order, history, clock | end a turn, recover a pending turn, apply the turn limit |
| turn publishing | `infra/message_broker/publishers/turn_publisher.py` | none but the marks in the thread | publish preliminary, wait for the archive, publish full, mark |
| attempt connection | `realtime/attempt/connection.py`, `controller/realtime_controller.py`, `realtime/attempt/registry.py` | one registry entry per attempt; per connection its session, audio buffer, utterance counter, last delivered prompt, pending archives | connect and evict, frames (question_start, present_question, turn_end, resume, exam_end, alerts), speak, force_end |
| transcript accumulator | `realtime/turn/transcript_accumulator.py`, `infra/voice_live_client.py` | final segments, a partial, the confidence, whether a final is awaited | speech start, partial, speech end, final, consume a turn, reset |
| grading consumer | `infra/message_broker/external_events_handlers/exam_consumer.py` | offset, retry counter, AI-usage buffer | evaluate turns with retries, aggregate, publish completed or failed, commit |
| practice connection | `realtime/practice_attempt` | session, prefetched question, evaluation tasks | start, turn, submit, end |
| follow-up decision | `node/followUpDecisionGraph`, `realtime/turn/processor.py` | the turns of one question with the reason of each decision | signals, repeat recovery, follow-up, merge, the client's limits |
| proctoring | `infra/webrtc`, `controller/webrtc.py` | the registry of peers, streaks, cooldowns and active alerts, the event log | offer and evict, clean up, frame, alert, stream events |
| evaluation graphs | `node/evalGraph`, `node/practiceEvalGraph`, `exam_consumer.py` | the state of one evaluation | route between nodes, merge the scores and the turns, build the event |
| language consensus | `utils/confidence_utils.py`, the language nodes | the slots of the language model, the replies of three judges | ask, retry, fail over, judge |
| question generation | `node/questionGenerationGraph` | the files of each batch, rows, vectors, the counts of the run | draft, filter, evaluate, edit, refine, accept, store, index, resume |
| topic generation | `node/topicGenerationGraph` | a request's offer; the collection of topics | propose, enforce the caps, de-duplicate, retry, index |
| background tasks, shutdown | `realtime/background.py`, `app.py` | the set of spawned tasks | spawn with a time-out, drain, cancel |

How they interact: the connection's frame loop calls the turn processor and
spawns two background tasks per turn, the publisher and the archive run; both
write the answer thread, which a resume on a later connection reads. The registry
is shared by the WebSocket handler, `pending-archives`, and the Kafka consumer
that forces an attempt to end. The grading consumer meets the rest only through
Kafka.

What is hard, and what correctness means, per component:

- **Answer thread.** `update_state` is a short read-modify-write, but the archive
  graph loads the checkpoint, transcribes for seconds and writes all of its
  channels back. Correct: nothing stored is lost, a turn is appended once.
- **Publishing.** Several callers publish one turn (the connection that decided
  it, and the one that recovered it). Send and mark are different awaits; tasks
  are cancelled and processes die between them. Correct: a turn that is marked
  was sent, a turn that was heard is sent whether or not its recording comes, a row has
  the words of its own turn, and a full record a recording in the archive.
- **Connection.** A new connection evicts one that is still in the middle of
  handling frames; registration waits for Azure. Correct: the registry names the
  live connection, one at a time; a resume repeats what was not heard and
  nothing else; utterance numbers grow.
- **Accumulator.** Vendor events race with the end of the turn; a turn waits at
  most three seconds for its final text. Correct: a turn is given its own words,
  once, with its own confidence.
- **Grading.** Messages are delivered at least once, turns are retried while
  others run, a commit may fail after a publish. Correct: every answer gets an
  outcome, and never the outcome of another.
- **Follow-up decision.** Two model nodes run side by side, and four places keep
  limits that see different counts. Correct: a question ends in time, nobody is moved
  on without a reminder of it or two of any kind, a client's limit is exact.
- **Practice.** Prefetches, submits and next-question calls race with the next turn,
  time-outs and a resume. Correct: every turn is recorded once before the session
  goes on, every question is asked, and asked once.
- **Proctoring.** Offer and clean-up suspend between their steps on one registry.
  Correct: a reconnect is whole, an alert follows what is seen, a monitor misses
  nothing.
- **Evaluation.** Nodes that failed, were skipped or never ran reach the merge, and
  the verdicts of turns meet that of the whole answer. Correct: only a break fails an
  answer, a score comes from a recording, one turn does not zero the others.
- **Language consensus.** Three judges retry behind a few process-wide slots. Correct:
  the median of what was valid, confidence only where they agree, no slot lost.
- **Generation.** Nested loops with caps; files, rows and vectors are written one after
  the other by a process that may die. Correct: the three agree, the cap holds, a run
  ends, a student gets what was asked for and nothing twice.

## 2. Modules

| module | models |
|---|---|
| `AnswerThread` | the checkpoint of one answer: channels, `add`, the archive graph's nodes, the next turn order |
| `TurnPublisher` | turn_end, decision, recovery, `publish_turn_if_new`, archive runs, cancellation, crash, over one answer thread |
| `TurnLedger` | the abstract specification: what publishing promises the marking side |
| `TurnPublisher_proofs` | theorems about `TurnPublisher` |
| `AttemptConnection` | connecting, evicting, frames, speaking, resuming, over the registry of one attempt |
| `AttemptConnection_proofs` | theorems about `AttemptConnection` |
| `GradingConsumer` | the consumers of one partition of the request topic: evaluate, retry, publish, commit |
| `GradingLedger` | the abstract specification: verdicts only grow, the offset passes answered messages only |
| `GradingConsumer_proofs` | theorems about `GradingConsumer`, the refinement of `GradingLedger` among them |
| `TranscriptAccumulator` | voice events against the end of a turn |
| `TranscriptAccumulator_proofs` | theorems about `TranscriptAccumulator` |
| `PracticeConnection` | a practice session: turns, submits, next questions, prefetch, resumes |
| `PracticeConnection_proofs` | theorems about `PracticeConnection` |
| `FollowUpDecision` | the conversation about one question: decision graph, limits, `complete_turn` |
| `FollowUpDecision_proofs` | theorems about `FollowUpDecision` |
| `Proctoring` | the peers of one proctored session, alerts, the event stream |
| `Proctoring_proofs` | theorems about `Proctoring` |
| `ExamEvaluation` | the evaluation of one answer: graph of each turn, aggregate, event; exam and practice |
| `LanguageConsensus` | three judgements of the language behind the slots of the model |
| `QuestionGeneration` | the graph of question generation, the offline pipeline around it, the online service |
| `TopicGeneration` | a request for topics against a changing collection |
| `Graph_proofs` | theorems about the graphs under `node/`: `QuestionGeneration`, `TopicGeneration`, `ExamEvaluation`, `LanguageConsensus` |
| `MCAttemptConnection`, `MCProctoring` | symmetry sets and definitions for TLC |
| `MCConversation` | `TranscriptAccumulator` and `FollowUpDecision` in one run; they share no state |
| `MCGraphs` | the four graphs under `node/` in one run; they share no state, and a behaviour is one of one graph |

### AnswerThread and TurnPublisher

A list channel is read only for "is there an entry of turn n" and "the first entry of
turn n". The two marks are therefore sets of turn orders, the transcripts are the first
one of each turn, and `turns`, whose entries must not be doubled, have a count too. That
a node of the archive graph appends a channel to itself (every node returns the whole
state, `_state_without_turns` holds back `turns` only) leaves all of that as it is. The
`decision_reasons` only fill the history that a resumed session shows the model; they are
left out, and with them `persist_decision`. `AddTranscript`, `AppendTurn` and
`TranscriptOf` are `persist_realtime_transcript`, `append_turn_node` and
`transcribe_turn_node`: the transcript heard live is preferred, and the recording is
transcribed when there is none *or it is blank*.

A *take* is a `turn_end` with the tasks it spawns; a recovery and a retried
`POST /turns/archive` use one up as well. Its task's `pc` walks through the awaits of
`TurnProcessor.process` and `publish_turn_if_new` in the code's order:

| actions | code |
|---|---|
| `TurnEnd`, `Decide` | `process`, `_decide_and_complete`, the rest of `_handle_turn_end` |
| `Resume`, `RecoverPending`, `QuestionStart` | `create_from_archive`, `recover_pending`, `hydrate_from_archive` |
| `CheckBefore` ... `MarkFull` | the awaits of `publish_turn_if_new`, one action each |
| `WaitExpires`, `Abort` | `wait_for_turn` giving up, `spawn`'s time-out, `drain`'s cancel, an exception |
| `Lands` | what the cancelled task was awaiting goes through after all: the thread of a `to_thread` goes on with its write, the producer with its message |
| `ArchiveLoad`, `ArchiveTranscribe`, `ArchiveAppend` | `_archive_turn` and the two nodes; the run works on the copy `snap` it loaded and writes it back (`Overwrite`) |
| `ArchiveAbort` | an error of the run, or a cancel before the graph was started; afterwards cancelling the task does not stop the run, which therefore is no action |
| `PostArchive` | `POST /turns/archive`, first call or retry |
| `Drop`, `Crash` | eviction or close; the process dies, thread and Kafka stay |

Kafka is the state `row` (what an upsert by turn leaves behind) and `sent` (how many
events of each phase). History variables: `archived`; `spoken`, the turn each take
answered; `missed`, the turns of which a transcript was not stored (`_checkpoint_transcript`
swallows the error) or was erased by an archive run; `cut`, those of which a call ended by
an error, a cancel or a crash. Nothing keeps the takes of a turn, its publishers and its
archive runs apart: they overlap in every order.

`TurnLedger` is what the marking side may rely on, one row per turn with its phase and its
words: the words were said in that very turn (or there are none), and a row is full
only if a recording of the turn was archived. It may not rely on more: two callers may
each send every record, and a late preliminary record may replace a full one. The map is
`row <- row`, `said <- spoken`, `recorded <- archived`.

### AttemptConnection

Each connection is a record: its `pc` (new, starting, live, evicted, gone), the
frame it is handling and the await that handler is at, whether it has a session,
its utterance counter, the prompt it counts as delivered, its `_send_speak` tasks
in order, and its pending archives. `Connect` is everything
`realtime_attempt_socket` does before it awaits the new connection's `start()`;
`Started`/`StartFails` what follows. An evicted connection still handles what it
was handling. `client` is the socket the student really listens to; `heard`
is the last utterance that reached the student; `skipped` records a prompt a
resume decided not to repeat. What may go wrong is the constant `Trouble`.

### GradingConsumer

A message is one answer, of one of four kinds: nothing to grade (no turn, or
clarifications only), spoken, `invalid` (a JSON object that is no request), or `garbled`
(no JSON object at all). A consumer is a record: where it is in
`start_exam_attempt_consumer`, the offset of its message, its failures so far, the state
of the batch (per turn running, ok, transient or broken) with its own retry counter,
whether `publish_failed` was ever bound, and `named`, the message that
`normalized_payload` is of: the handler's variables outlive a message, so the failure of
a garbled one carries the ids of the last message that could be parsed.

| actions | code |
|---|---|
| `Receive`, `Read`, `ReadInvalid` | the `async for`, parsing and validating, the branches on `turns` |
| `TurnSettles`, `BatchRetries`, `BatchFails`, `BatchDone` | `_evaluate_turn`, the loop of `_evaluate_turn_batch` |
| `Aggregate`, `Publish`, `Flush`, `Commit` | the aggregate, the completed event, `_flush_ai_usage`, `commit()` |
| `Failing` (in several actions) | `except Exception`: count, retry, or give up |
| `PublishFailed`, `Unbound`, `CommitFailed` | the except block; what it raises ends the task |
| `Rebalance`, `Crash` | the group moves the partition; the process restarts |

Kafka is modelled from its use: the partition has one owner, which reads from
`position`; a new owner starts at the committed offset; `commit()` commits the
position of what one is assigned and nothing, or an exception, otherwise. A
consumer that lost the partition goes on with its message. `outcome`
is the set of events published per message, each with the message it is `about`; `usage`
the answers in `_usage_buffer`, `charged` those whose usage was published.

`GradingLedger`: verdicts are added and never taken back, the offset moves over one
message at a time and only when that one has a verdict, and a verdict is about its own
message - except that what is published for an unreadable message may be the failure of
another one, which is what the code does.

### TranscriptAccumulator

A text is a sequence of pieces: the whole text of one utterance, or the words the
live partial held. The model has the accumulator's fields as they are, but for
`_final_event`, which is set exactly when no final is awaited (a waiter it
woke is `pc = "woken"`), and for the confidence sums, of which it keeps the
utterances they count. Speech start, delta, end and final are actions of the
vendor in any order the SDK allows: one utterance is spoken at a time, its texts
may come late, out of order, empty, or never. `turn_end`, a typed turn, a new question
and an eviction are the client's. `final` (which turn was open when a text came)
and `smooth` (nothing out of order so far) are history variables.

### PracticeConnection

A connection has a frame loop (`pc`), an active question and a session object per
question; `tasks` are the `_after_turn` tasks under way, each at one of its awaits.
The app is the record `client`: it is answering, was told to go on, waits, or is
over. Java is what its two calls do: record a turn, and give the newest question
of the paper as long as no turn of it was recorded, or else a new one.

| actions | code |
|---|---|
| `TurnEnd`, `Decide` | `process_turn`, then the rest of `_handle_turn_end` with its `spawn` |
| `Corrected` | `_run_correction` and `_upload_turn_audio`, up to the payload of `_submit_turn` |
| `Submitted`, `QuotaExceeded`, `SubmitFails` | the attempts of `_submit_turn` and what `_after_turn` does with the outcome |
| `Resolved`, `ResolveFails`, `Push` | `resolve_and_push_next_question`, `_resolve_and_push_next_question` |
| `Prefetched` | `_prefetch_next_question`'s call |
| `TaskTimesOut` | `spawn`'s time-out, wherever the task is; a request under way may have reached Java |
| `Disconnect`, `Close`, `Crash`, `Resume` | losing the app, the end of the frame loop, a restart, `resume` with `recover_pending` |

Nothing evicts an old practice connection: it goes on with its tasks until its frame
loop ends. Nobody archives practice turns, so a session restored from the archive
has none and is at turn 1. `pushed` and `hit` (the kinds of trouble met, and whether the app
came back in a question before one it was shown) are history variables.

### FollowUpDecision

One question from its first turn to the reason that closes it. The list of turns is
kept as what the code reads of it: assessments, trailing clarifications, how often each
reason of repeat recovery occurred, whether a prompt was repeated. `DecideOn` is a turn
of the student; `PrepareTurnSignals`, `RepeatRecovery`, `FollowUp` and `MergeDecision` are
the graph's nodes (the middle two in either order), `NodeRaises` a reply that is JSON but
no object, which raises out of the graph and leaves the turn undone; `DecideAndComplete`
is `_apply_turn_limit` and `complete_turn`. Both models may answer anything or fail, and
the reason of a follow-up is copied from the model's reply unchecked: it may be any
reason of the code's own, those of repeat recovery and of the limits among them, or a
clarification in an odd spelling, with blanks or capitals, which one of the two
`is_clarification_reason` takes for a clarification and the other does not. `misread`
counts the turns with such a spelling (bounded by `MaxMisread` for TLC), `reminded` the
reminders that repeat recovery itself gave, `reasked` the assessments that only asked a
silent or hesitant student again, `answers` the others; `closer` says who closed the
question.

### Proctoring

The peers offered under one session id follow each other. `Offer`/`Evicted`/`Answered`
and `StartCleanup`/`CleanedUp` are the two sides of the awaits of `offer` and
`cleanup_session`; everything else of the code runs without a suspension. A frame waits
for the GPU lock between `Receive` and `Analyse`. `scenes` is a second account of the
conditions, kept from what the frames showed, against which the policy's maps are
checked; `amiss` records that a handler met a suspended one, or that `close()` raised.

### ExamEvaluation and LanguageConsensus

A graph runs in supersteps, as in LangGraph: `at` holds the nodes of this step, `next`
those of the following one. A text is silent, English, foreign, or foreign inside the
marks that the transcription of a recording adds. The model of validity may report any set
of rules out of `Reply`, with any field left out. Before the graph of a turn runs,
fetching its recording or reading the archive may raise (`BeginTurn`). `payload` is what
the request says besides its turns: `framed`, one of its frameworks is pronunciation's
(without it `azure_score_scale_node` leaves Azure's own score), and `unread`, a scripted
mode without a reference text (which fails the pronunciation of a turn that has a
recording). `cause` records what really broke. The practice graph is the same module with its own edges and its own
merge; its node files are copies, mapped by operators of their own. The attempt is one of
those `GradingConsumer` retries.

`LanguageConsensus` is what the language node does inside: three requests, each with a
retry after a rate limit and a fallback, behind a semaphore; then median, spread and
confidence per criterion, in thousandths instead of floating point.

### QuestionGeneration and TopicGeneration

A candidate is a record of a text (fit, too long, not English), its own criterion
(`target_construct`), a sub-attribute and a tense; the filter's other rules are of one of
these kinds. `Subs` are the sub-attributes each criterion allows; the filter judges a
candidate by its own criterion, and nothing compares that with the one asked for. Lists
whose order decides nothing are sets, and where a prefix is taken any subset of that size
is. A repair of the editor is one step of one candidate. The five files of a batch are one
set, since only a batch that has all of them counts; `torn` says that `tokens.json` was cut
off. Each start of the pipeline either is given `--persist` or, by default, is not
(`Persist`: which ones are); without it a batch is indexed and `PersistBatch` stores no row.
A record knows the start that accepted it (`try`). Any step may be the last one of the
process (`Die`), and `RunAgain` starts a run that stopped of its own accord. `fast` is the
online service.

`TopicGeneration` takes proposals one at a time, each with its two queries (`TopicDedupe`,
`TopicDedupeRejected`); Java's `index_topic` may between any two steps put any topic, active
or rejected by this student or out of sight, under any id, whatever was there
(`IndexTopic`). `stood` are the ids that were left alone since the request came. Likeness is
a relation that is not transitive.

## 3. Runs

| run | shows | bounds |
|---|---|---|
| `publisher` | with publishers, archive runs, connections, resumes and retried archives overlapping in any order: marks are true, one entry per turn, the recording does not decide, a row has its turn's words, `TurnLedger` is implemented, every stored transcript reaches Kafka | 2 turns, 2 takes, 1 fault |
| `publisher_once` | violation: two callers both pass the re-check, and the full record goes out twice | 1 turn, 2 takes, no fault |
| `publisher_recovery` | violation: an archive run erases the transcript that the next `turn_end` stored | 2 turns, 2 takes, no fault |
| `socket` | the registry names a live connection or none, whatever goes wrong; exactly the registered one is live until two connects overlap; numbers grow, and a resume swallows nothing that was not heard, while nothing but a handler went wrong | 3 connections, 3 frames, 1 kind of trouble |
| `grading` | a result covers every turn; a failed answer is not charged; `GradingLedger` is implemented; every answer gets an outcome | 2 consumers, 2 messages of 4 kinds, 2 turns, 1 retry, 1 fault |
| `conversation` | a final text is given once and to the turn open when it came; a confidence stays with its words; an undisturbed turn gets exactly its words. A question ends in time; nobody is moved on without reminders; a client's limit is exact | 2 utterances, 3 turns; 3 assessments, 2 clarifications of a prompt, 2 in a row (the code's 10, 5 and 3), client limits none and 2, one odd spelling |
| `conversation_reminders` | violation: a third kind of misconduct moves the student on without a reminder of its own | 4 assessments, 3 clarifications, 3 in a row, no client limit |
| `practice` | no question is pushed before the turns of the earlier ones are recorded, while the connection lives; none is left out, and none comes twice unless the app came back in an earlier one; only a failed submit or a resume repeats a submit; every turn goes on | 3 questions, 2 turns, 2 connections, 2 faults |
| `practice_unpaced` | violation: a turn ended before the correction of the one before came takes its place in both submits | 2 questions, 2 turns, 1 connection |
| `proctoring` | a reconnect is neither refused nor half registered; an alert is reported exactly when its condition held for the streak, once per cooldown; a monitor misses no event | 3 peers, 4 frames, 3 instants, limit of one peer |
| `graphs` | evaluation: only a break fails an exam answer; a pronunciation score comes from a recording, on the scale of its request; no single turn zeroes the others. Judges: a score is the median of the valid replies, confidence is earned by agreement; every judgement ends. Questions: files, rows and vectors agree and the cap holds; the pipeline stops exactly for a systematic failure; a student gets what was asked for; every run ends. Topics: what is offered is new | 2 turns, exam and practice; 3 judges, 2 criteria, 2 slots; 2 candidates, 4 batches (5 with the one that a death or a new start adds), cap 2, 1 repair round, 1 death, the first start with `--persist` and the second without; 3 topics, 1 id, 2 proposals, 3 rounds, 1 change by Java |
| `evaluation_foreign` | violation: an answer that was foreign in every turn passes | as `graphs` |

Bounds. Two takes are the smallest number in which two publishers or two archive
runs meet, and the marks, entries and counters only distinguish 0, 1 and "more"
(`MaxEntry = 2`). Two turns let an archive run of one turn overlap with the next
turn. One fault is placed anywhere, which includes every pair of adjacent steps; for any
number of takes, turns and faults there are the proofs. Three connections let a connection
be evicted that evicted another; three frames are a start, a turn and a resume. In
`socket`, `MaxKinds` is one: a behaviour meets one kind of trouble, as often as it likes;
every property speaks of one kind or of none. In `grading`, one retry (instead of three)
separates the first attempt, the last and what comes after; two messages show an offset
that moves or stays and a garbled message after one that was parsed; two turns are a batch
of which a part fails. In `conversation`, two utterances overlap, and three turns let a text
come into the turn after its own and into one of another question; the limits of the
conversation are smaller than the code's, so that each can be the first one reached, and
a client's limit of two is reached before the code's of three; a question ends of itself, and one odd spelling suffices to see its cost. In `practice`, three
questions let one be left out, two turns let a prefetch run while the next turn
is answered, and two connections are an old one and the one that resumes (the last one
is not lost); only a third one can be taken back to a question by what a late task of the first
stored while the second went on, and for any number of connections there are the proofs; the
attempts of one submit count as one fault, so that a submit may fail for good and something
else besides. In `proctoring`, three peers let one that is being closed meet two that replace
it, streak and cooldown are two, and the clock has an instant before, at and after the
cooldown. In `graphs`, one turn and two are the two shapes of an evaluation (a fragment is
a turn of several); the three judges are the code's, with one slot too few for them; two
candidates fill the cap in one batch or in two, and four batches hold the window of three
and one that moves it; one draft will do, and one is of the other criterion, with a
sub-attribute that will do only where it was asked for (the reason
`LENGTH_OUT_OF_RANGE` is left to the proofs); one id of the collection that may change under
two proposals between their queries is enough for a topic to be missed or met.

The constants `MaxTurn`, `MaxEntry`, `MaxFaults`, `MaxFrames`, `MaxOffset`, `MaxRetry`
(the code's own), `MaxUtterance`, `MaxMisread`, `MaxQuestion`, `MaxConn`, `MaxKinds`, `MaxTime`,
`MaxDeaths`, `MaxIndexed` and `MaxProposals` (the length of a reply) bound what is unbounded;
`MaxTurns`, `HardCap`, `MaxBatches`, `MaxRounds`, `MaxTopicRounds`, `Streak`, `Cooldown`,
`MaxConnections` and `Slots` are the code's own limits, made small. `Conn` and `Peer` are sets of model
values with symmetry; takes are numbers, used in their order.

Two runs assume something of the client: `practice`, that the student does not end a turn before
the correction of the one before came (`"unpaced"` is not among its troubles; what happens
then is `practice_unpaced`), and those properties of `socket` that speak of behaviours
without overlapping connects. `CHECK_DEADLOCK FALSE`: an answer whose takes, frames or
connections are used up is finished, and so is a run of the pipeline or a request that ended.
`FollowUpDecision` and `ExamEvaluation` have a step for having ended.

Fairness. `publisher`: weak fairness of every task's next step. The event loop runs
each ready task, the LLM call is under a time-out, and `WaitExpires` shares the fairness of the
step it competes with; archive runs, what cancelled tasks left under way, the client and
faults have none, so nothing forces a recording to arrive. `grading`: every consumer that is
not dead does its next step, an evaluation settles one way or the other (the clients have
time-outs), and the group takes the partition from a member that stopped polling
(`max.poll.interval`). There are more consumers than faults, because nothing restarts one that
died. `practice`: decisions and background tasks come to their next step, because their calls
return or time out. `graphs`: a request of a judge that sleeps or waits for a free slot goes on,
and a call ends; the process of the pipeline takes its next step as long as it lives. A death is
not fair, and neither is a new start, so a process that died is started again by the fairness
of `ResumeExistingBatches`, which stands for the operator's next run. No fairness is assumed of
the student, a vendor, the client, Java or faults. `conversation` states no liveness: a time-out
is always possible while a turn is being consumed, so that it ends is fairness and nothing else.

## 4. Findings

Each of these is a run that TLC finds violated, and quotes what the code says of itself.

- `practice_unpaced`: the order of `_after_turn` is to prevent that the session
  "silently advance past a turn that was never recorded"
  (`practice_attempt/connection.py:283`). `_submit_turn` reads `session.turns[-1]`
  after its awaits (`:466`), so a turn that was ended meanwhile is submitted in place
  of the one that was corrected, and again by its own task.
- `publisher_once`: "publish it to Kafka exactly once, durably. Safe to call multiple times"
  (`turn_publisher.py:160-161`). `publish_turn_if_new`'s re-check, send and mark are three
  awaits, and a turn that was decided again after a resume has two callers: both pass the
  re-check. (An archive run may also undo the mark.)
- `publisher_recovery`: "reconnect recovery can always see a turn_end that reached the
  server" (`infra/database/archive_store.py:219-220`). A transcript stored while an archive
  run of another turn is transcribing is gone: the run writes back the channels it loaded.
- `evaluation_foreign`: the deterministic language gate "removes the single-LLM-call as the
  ONLY thing standing between an unambiguously non-English answer and a passing grade"
  (`ValidityNode/validity_node_config.py:53-59`). The merge drops the rejections of the turns,
  and the aggregate judges the text without its language marks (`exam_consumer.py:269`): an
  answer whose every turn the gate rejected passes if the model lets it.
- `conversation_reminders`: "each of the 4 reasons has its own independent 1-occurrence
  budget, not a shared pool" (`RepeatRecoveryNode/repeat_recovery_node_helper.py:78-80`).
  `_enforce_escalation` also has a budget of two for all kinds together, as the comment beside
  it says: a third kind of misconduct moves the student on without a reminder of its own.

Further divergences met while modelling, which have no run of their own. Those with a
definition in a module can be seen by naming it in a cfg.

Answer, connection and grading:

- Overlapping connects leave two live connections, although one attempt may have only one
  (`realtime_controller.py:217`); `AttemptConnection!OneLive`.
- Every resume of a practice session after a first `turn_end` of the question recovers
  turn 1, which may be recorded already; the comment says that nothing of it "happened for
  that turn" (`practice_attempt/connection.py:593`).
- A prompt sent into a dead socket counts as delivered, because `send_json` swallows
  the failure that `attempt/connection.py:575` relies on.
- A final text that comes when its turn was consumed goes, with its confidence, into
  the next turn; the docstring says "so later turns cannot inherit the previous
  turn's ASR reliability" (`transcript_accumulator.py:5-6`).
- `_after_turn` has 30 s (`spawn`'s default), but its three submits may take 28 and
  the next-question call 60: a task that is cut leaves the app waiting, with no
  message at all.
- `current-answer` names the question that a practice session "was last on"
  (`practice_realtime_controller.py:26`). Tasks outlive a lost connection, and
  `resolve_and_push_next_question` stores its question (`practice_attempt/coordinator.py:281`)
  without asking whether a later one was shown meanwhile; `CurrentIsLastOn`. An app that
  resumes there is taken back and asked the later questions again, which is why
  `AskedOnceInOrder` makes an exception of such a return.
- A resumed practice session has forgotten `last_question` and every turn.
- Every archive run submits four `add` channels again, twice, so they grow by a
  factor of four per turn; the docstring of `_state_without_turns`
  (`graphConfig.py:40`) names this hazard and handles `turns` only. Nothing that is read
  of them changes, so the model does not count their entries.
- A decision persisted while an archive run transcribes is overwritten
  (`turn_publisher.py:173`), and so is a publish mark.
- A turn answered again after a reconnect is published with its first answer
  (`_find_realtime_entry` takes the first entry of the turn order), and the recording of
  the second is archived with the words of the first.
- A publisher that was slow to send its preliminary record may send it after
  another one sent the full record; the row loses its recording. `TurnLedger` allows it.
- `pending-archives` counts the archives of the registered connection only, so it
  answers 0 after an eviction while the old connection still archives.
- If the server notices a disconnect before the client is back, no delivery state
  is carried over: the resume repeats the prompt and counts from 0. The same
  happens when the replacing connection's `start()` fails.
- The publisher is spawned with the default 30 s although it polls for 90 s for
  an archive that may take 120 s.
- A commit that fails after the Completed event was published grades the answer
  again, and a Failed event may follow the Completed one.
- A message that is not valid while a consumer has not yet seen a valid one ends
  its task with an unbound `publish_failed` (`exam_consumer.py:930`, `:1048`);
  the message is delivered again and ends the next one.
- A message that is no JSON object is reported as the failure of the last message that
  was parsed, whose `normalized_payload` is still there (`exam_consumer.py:1050`): a
  finished answer gets a second, wrong verdict. If no message was valid before, it ends the
  consumer's task.
- The usage of an answer that failed stays in the buffer and is charged when the
  same answer is graded again; the comment at `exam_consumer.py:1043` takes it for
  lost.
- With two utterances pending, the first text ends the wait of `consume_turn`
  although the second is on its way.

Follow-up decision:

- The alert of `uncooperative_move_on` is never sent: its scheduling asks for a running
  event loop, and the thread in which the node runs has none; the prompt promises it
  (`repeat_recovery_node_prompt.py:21`).
- Turns of silence or hesitation that were only asked again count as assessments, because
  their reasons are no clarifications, although the comment in `processor.py:265-279` says that
  re-asked turns are excluded; neither does the limit of clarifications in a row apply to them.
  `LimitCountsAnswers` counts them separately (`reasked`): they use up the client's limit.
- The two `is_clarification_reason` differ: the graph's strips blanks, the session's ignores
  capitals. A reason that the follow-up model words with either is an assessment for one and a
  clarification for the other; each such turn may cost a question `MaxConsecutive` more turns
  (`EndsInTime`), or the client its exact limit.
- The reason of a follow-up is not checked: one that names a reminder counts against the
  budget of reminders although the student was not reminded (the last disjunct of
  `WarnedBeforeMovedOn`).
- A reply of either model that is JSON but no object raises out of the graph
  (`NodeRaises`); the turn is lost and the student has to end it again.
- An exhausted graded budget stops the follow-up node only; a decision of repeat recovery
  goes on (`merge_decision_node`).
- A filler becomes `current_prompt_text` (`complete_turn` takes `active_prompt_text`
  first), and turns restored without a decision's mark count as assessments.

Proctoring:

- `cleanup_session` clears identity, events and policy by session id after its await, also
  those of a peer that registered meanwhile; when `close()` raises it clears nothing and
  the peer stays counted. An offer that waits in an eviction may leave another peer
  connected, counted and registered nowhere.
- A frame of a replaced peer that was waiting for the lock builds streaks for its
  successor, or for nobody.
- An event that comes while a stream replays the log is shown twice.

Evaluation:

- Without a framework of pronunciation an exam's score stays on Azure's scale of a hundred
  (`azure_score_scale_node_config.py:46-48`).
- A scripted answer without a reference text fails the whole attempt as soon as a turn has a
  recording (`pronunciation_eval_node_config.py:175-178`), at every retry.
- In practice a turn without a recording fails the answer; `ExamEvaluation!NoRecordingIsNoBreak`.
- The practice graph merges twice when the language node ran, the first time without it.
- The acoustic gate of the confidence is missing for answers of several turns, because
  the fragments are not measured; the code-switching ratio of the aggregate is always 0.
- An answer whose first turn has no audio keeps its blank result, and a pronunciation score
  of 0 is taken for missing and replaced by the accuracy.
- When no reply is valid for one criterion, or one reply is no object, the whole judgement
  raises and the other criteria are lost (`confidence_utils.py:456`);
  `LanguageConsensus!OthersSurvive`.

Generation:

- `_salvage_one` finds nothing in fast mode that the check before it did not find, because
  nothing was filtered out of the survivors except by the rules it applies again; the docstring
  (`service.py:91`) says it saves a question. It does not look at the tense.
- A batch whose files are complete but which was not stored when the process died is
  counted and never stored. A `tokens.json` that was cut off makes every later start
  raise.
- A question that was edited or refined is indexed with the embedding of its first text.
- A verdict of the evaluator that carries another candidate's id raises a `KeyError`.
- Editor and refiner may change the sub-attribute; the check afterwards is not told
  which one was asked for. Each start after "125 batches" runs one batch more.
- The docstring of `_fast_evaluator` mentions a duplicate check that is no longer there;
  `onlineQuestionGenerationGraph` is used by nothing.
- Without `--persist`, which is off by default, vectors are indexed and no rows are stored
  (`pipeline.py:114`): students may be given questions that are in no table.
- A candidate of another criterion than the one asked for passes every filter: its
  sub-attribute is judged by its own `target_construct`
  (`candidate_filter_node_config.py:57`).
- The window of three empty batches is lost when the process dies, so that a systematic failure
  is only seen in three more.
- The metadata of an indexed topic never holds its name (`topicGenerationGraph/service.py:29`),
  so `collisions` is always empty, `_should_retry` never retries and the rounds that
  `MAX_PROPOSAL_ROUNDS` allows are never used. `CollidedName` models it. The part of
  `OffersAreNew` about earlier rounds is therefore never needed (`NoSecondRound`).
- A topic that is restored, or rejected, between the two queries about a proposal is missed
  by both; `OffersAreNew` speaks of those left alone meanwhile.
- A round without proposals leaves the collisions of the round before; duplicates within a
  batch are no collisions; the caps on evidence hold for each round by itself.

## 5. Proofs

`TurnPublisher_proofs` proves, for every number of turns, takes and faults and every overlap
of publishers, archive runs, connections and crashes: `TypeCorrect`, `MarksAreTrue`,
`FullIsRecorded`, `TurnsAppendedOnce`, `NoWaitUnpublished`, `RowsMatch` and the refinement
`LedgerIsKept` (every step is a step of `TurnLedger` or changes nothing of it). Nothing is
assumed of how callers are paced. The properties are not inductive: an archive run writes
back what it loaded, so whatever is said of the thread must hold of every loaded copy
(`ThreadJustified` of `th` and of each `snap`); a publisher between two awaits, and a request
that a cancelled one left under way, must have a reason for where it is (`TaskJustified`: what
it will send fits the turn, what it will mark was sent, the turn it completes is archived), and
so must an archive run (`JobJustified`); the words of a take were said in one turn
(`SpokenJustified`), and a row has words that fit its turn (`RowJustified`). `Fits` is the
heart of it: words of turn n that are those of the thread's transcript, unless there is none with
words, or the turn is one of `missed`. That exception is what an archive run that erases a
transcript and a write that fails leave behind; `missed` only grows, so whatever fitted before
still does. The facts that only grow (`sent`, `archived`, `missed`) carry the invariant over
all other steps.

`AttemptConnection_proofs` proves `TypeCorrect` and `RegistryIsSound` without any
assumption on what goes wrong and `OneLiveConnection` under the assumption that connects do not
overlap; without that assumption it does not hold. Its invariant says that while a
connection is starting nobody is registered and no other one is starting.
`UnsaidWasHeard` and `NumbersGrow` are proved for any number of connections and frames. Both speak of
behaviours in which nothing but a handler went wrong (`Calm`): the connection that the client
listens to is then the one registered or starting (`ClientInv`), it knows what was heard last,
and its numbers are in order and after the last one heard (`Numbered`), also when it took them
over from the connection before (`HeardInv`).

`GradingConsumer_proofs` proves `NoTurnIsLeftOut`, `ChargeFollowsResult` and
`LedgerIsKept`, for any number of consumers, messages, turns, retries and faults.
That an event is about its own message is `NamesInv`: whoever has parsed the message in hand
holds its ids, whoever has not holds those of a message that could be parsed, or none and then
cannot publish. The rest of the invariant has two parts that speak of one message each. `PositionIsNext`: the
owner's position is next to the committed offset, or one further, and then the
owner has the message in between in hand or died with it. `WorkIsSound`: what each
consumer, owner or not, has done so far with its message (graded all turns,
published an event) is really so. A commit by the owner then passes exactly the
message whose event it published, and a commit by anybody else passes nothing; a step of
`GradingLedger` follows from each step of the code.

`TranscriptAccumulator_proofs` proves `GivenOnce` and `ConfidenceStaysWithWords`
for any number of utterances and turns. The invariant says of the accumulator what the
properties say of the turns: it holds the texts that came in the turn that
is open, once each, and no other (`HeldOnce`). Lemmas say what `Append` does to
"once" and "never" in a sequence. `NothingLost` proves `Exact`: as long as nothing goes wrong,
whatever is not transcribed yet belongs to the open turn and comes after all that is
(`WellTimed`), so the accumulator lists the texts heard so far and nothing else, in the order
of speech (`Lists`, `GivenExactly`), which a text that comes extends at its end
(`ListsOneMore`).

`FollowUpDecision_proofs` proves `QuestionEndsInTime`, `NobodyMovedOnUnwarned` and `LimitIsExact`
for any limits of the code and of the client, any student and any reply of both models, odd
spellings as often as they like. The invariant says that what a node has decided but the merge
has not yet used is already escalated with the counts as they stand (`GraphInv`), that repeat
recovery's reminders are among those the turns record and at most two (`WarnedInv`), and, while the
question is open (`OpenInv`), that the turns are bounded by the assessments and the misread
reasons (each preceded by fewer than `MaxConsecutive` clarifications) and that answers and
re-asked turns are exactly the assessments as long as no reason was misread.

`Graph_proofs` is about four components that share no state; their proofs are independent.

*Question generation.* `StoresStayInAgreement` holds for any number of candidates,
batches, rounds and deaths, and whichever starts are given `--persist`: what it says of the rows
it says of those starts. `StoresAgree` speaks of the files, the rows and the vectors
between any two of their writes, so the invariant says where each batch stands: only a batch
that has everything else has its tokens (`FilesInv`), the batch under way comes after every
whole one (`BatchInv`), the count covers what is kept and what is about to be (`CountInv`), and
only the batch under way and one for each death are whole and not stored (`StoreInv`). Four
lemmas say what writing to a directory that stays open, closes or was closed does to what
counts. `GivesUpForAReason` relates the window of three to the history of all batches: the
window is the end of the history, and the batch before a window that is not full gave
something (`WindowInv`). `AnswersAsAsked` follows from what lives through the online service:
every draft that breaks no rule of the request, and no other (`ServiceInv`).

*Topic generation.* `OffersStayNew` holds for any collection, request, reply and whatever is
put under any id meanwhile: between its two queries a proposal resembles no active topic that
has been left alone (`RoundInv`). `NoSecondRound` says that the retry of a round is never taken, for any bound
on the rounds. The caps on evidence and the clusters are recursive functions over a reply of any length.
The induction theorems of the library take a predicate and cannot be used; `Along` and
`Iterates` do the same with a set for each length instead of a predicate, from the
well-foundedness of the naturals (`LeastNumber`). They give that the functions exist, that their
values have a type and that no keyword is claimed twice in what they return.

*Evaluation.* `FailsOnlyByABreak`, `ScoresAreRecorded` and `TurnsDoNotZero` hold for any number of
turns and any set of rules that the model of validity may report, exam and practice, with the
recording, the archive, the language model or the reference of a script failing where they may.
`TurnsDoNotZero` is about what the gates find in single turns; that they zero nothing even when
they reject every turn is the finding `evaluation_foreign`.
The invariant follows a graph by its supersteps (`Stage`): what is scheduled belongs to
the next one, and what each superstep already knows of the text, the rules, the pronunciation
and the errors is `InSuperstep`; a graph that ended has a result of the right scale exactly when
it was not rejected and has a recording, or it failed because something broke (`Ended`).
The whole answer starts from turns that all ended with a result (`AllEnded`). That a zero is
excused (`Excused`) is established by its validity: without a word in the combined text no
turn was heard (`SilentIsHeardSilent`), with one the gates and the length rule never reject
(`WordsReject`), and of the model's rules the merge only drops a profanity for a graver one
(`MergeKeeps`).

*Language consensus.* `JudgementsAreSound` holds for any criteria, range and replies. Its lemmas
are about lists of any length: a reply that comes before another in the sorted order has the
smaller rank (`RankGrows`), so every place of the sorted list is taken (`RankOnto`), the middle
one is the median (`MiddleIsMedian`) and the first and last bound the scores (`EndsBound`).
`SpreadIs` needs `PrecisionAssumption`: in thousandths, a spread of one point is seen only
in a range of 5000 points or less (the code's default is 100; its spread is a float).
`SlotsAreReturned`: the free slots and the calls add up to the limit.

`Proctoring_proofs` proves `ReconnectsAreWhole`, `AlertsAreTrue` and `MonitorSeesAll` for any
number of peers, frames and monitors' reads and any limit, streak and cooldown. As long as
nothing is amiss, one peer at a time is suspended, nobody is registered meanwhile, and the
registered peer is all that is counted (`RegistryInv`); the policy's maps say of each condition
what an observer of the frames knows (`AlertInv`). Of the stream, each event of the log was
shown, is in the queue or will be replayed, unless the end of the stream is in the queue
(`StreamInv`).

`PracticeConnection_proofs` proves `QuestionsComeOnce`, `TurnsAreSavedFirst` and
`TurnsAreChargedOnce` for any number of questions, turns, connections and faults. No connection
has two tasks that go on to the next question, nor one while it decides (`HandlerInv`,
`TaskInv`); each question before the newest has a recorded turn (`PaperInv`), so the task of the
app's own connection brings a question after the one shown (`AppInv`). While the student is
paced and the connection lasts (`Calm`), there is one thing under way (`OneThing`), and only the
turn that it is about may be not recorded (`AllSaved`, `Once`); most steps of a task are
shown to be `QuietStep`, which keeps all of it.

Assumptions: those named in the modules (`MaxTurn` positive, `MaxEntry` at least
2, null values outside their sets, `Trouble` a set of known troubles, the shape of the replies,
likeness reflexive and symmetric). `QuestionsComeOnce`, `TurnsAreSavedFirst` and the connection's
theorems speak, as their properties do, of behaviours without certain troubles; those of
`TurnPublisher` of any.

Model-checked only: the liveness properties (`EveryTurnReachesKafka`, `EveryAnswerGetsAnOutcome`,
`EveryTurnGoesOn`, `EveryJudgementEnds`, `EveryRunEnds`), which need fairness and
`ENABLED`; and the violations of section 4. Every safety and action property of a passing
run is a theorem. `AnswerThread` is operators only: what is proved of them is proved with the
publisher that uses them.

## 6. Plan

What is left, in order of importance:

1. `Shutdown`: drain against tasks still being spawned.
2. The realtime correction graph, the interest quiz, the question asset consumer.
3. Refinements of more abstract specifications: what an evaluation promises the consumer that
   retries it, and what a practice session promises the student.

## 7. Not modelled

Prompts, parsing of LLM answers, scoring formulas over real numbers, vendor SDKs,
the vector store, HTTP authentication, the generated gRPC stubs, the legacy
avatar code and the spikes. An LLM's decision is any decision; a vendor's event
is any event in the order the SDK allows.
