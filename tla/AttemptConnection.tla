------------------------- MODULE AttemptConnection --------------------------
(***************************************************************************)
(* The realtime connections of one exam attempt: who is registered, who is *)
(* evicted, what is said to the student and what a resume leaves unsaid.   *)
(*                                                                         *)
(* realtime_attempt_socket evicts the registered connection and hands its  *)
(* DeliveryState to the new one before that one awaits its own start();    *)
(* AttemptConnection speaks through background tasks that run after the    *)
(* handler that spawned them and send one at a time.  An evicted           *)
(* connection keeps its frame loop: it handles what the client had already *)
(* sent, and finishes the turn it was deciding.                            *)
(*                                                                         *)
(* What a turn decides and where its recording goes is TurnPublisher's     *)
(* subject; here a decision is any next prompt, and an archive run is a    *)
(* task that is pending on the connection that spawned it.                 *)
(***************************************************************************)
EXTENDS Integers, Sequences, FiniteSets

CONSTANTS Conn, NoConn,      \* the connections of the attempt, in any order
          Prompt, NoPrompt,  \* texts that are spoken; NoPrompt: none, or ""
          MaxFrames,         \* bound on the frames the client sends
          Trouble,           \* what may go wrong, see Troubles
          MaxKinds           \* bound on the kinds of trouble of one behaviour

\* blackout: the client may be gone before the server knows; overlap: it may
\* connect while an earlier connect has not started; startFails: Voice Live may
\* refuse a connection; handlerFails: a handler may raise after an await.
Troubles == {"blackout", "overlap", "startFails", "handlerFails"}

ASSUME NoConnAssumption   == NoConn \notin Conn
ASSUME NoPromptAssumption == NoPrompt \notin Prompt
ASSUME FramesAssumption   == MaxFrames \in Nat
ASSUME TroubleAssumption  == Trouble \subseteq Troubles /\ MaxKinds \in Nat

VARIABLES
    registry,  \* _active_connections[exam_attempt_id], or NoConn
    conn,      \* the connections
    client,    \* the connection whose socket the client listens to, or NoConn
    heard,     \* the last utterance the student heard (and the last number)
    skipped,   \* history: the prompt that a resume of this client did not repeat
    frames,    \* frames sent so far
    ended,     \* the client was told to end the attempt
    met        \* history: the troubles that have happened so far

vars == <<registry, conn, client, heard, skipped, frames, ended, met>>

Frame == {"none", "question_start", "present_question", "turn_end", "resume"}
Text  == Prompt \cup {NoPrompt}
Utterance == [seq : Nat, text : Text, resumed : BOOLEAN]
Connection ==
    [pc      : {"new", "starting", "live", "evicted", "gone"},
     inbox   : Frame,                     \* the frame to handle, or being handled
     busy    : {"no", "start", "turn", "restore", "recover"},  \* what its handler awaits
     session : BOOLEAN,                   \* questions.active_session is set
     seq     : Nat,                       \* _utterance_sequence
     last    : Text,                      \* _last_delivered_prompt
     outbox  : Seq(Utterance),            \* spawned _send_speak tasks
     pending : Nat]                       \* len(_pending_archives)

TypeOK ==
    /\ registry \in Conn \cup {NoConn}
    /\ conn \in [Conn -> Connection]
    /\ client \in Conn \cup {NoConn}
    /\ heard \in Utterance
    /\ skipped \in Text
    /\ frames \in 0 .. MaxFrames
    /\ ended \in BOOLEAN
    /\ met \subseteq Troubles

Unopened == [pc |-> "new", inbox |-> "none", busy |-> "no", session |-> FALSE,
             seq |-> 0, last |-> NoPrompt, outbox |-> <<>>, pending |-> 0]

Init ==
    /\ registry = NoConn
    /\ conn = [c \in Conn |-> Unopened]
    /\ client = NoConn
    /\ heard = [seq |-> 0, text |-> NoPrompt, resumed |-> FALSE]
    /\ skipped = NoPrompt
    /\ frames = 0
    /\ ended = FALSE
    /\ met = {}

Looping(c) == conn[c].pc \in {"live", "evicted"}
Idle(c)    == Looping(c) /\ conn[c].busy = "no"

-----------------------------------------------------------------------------
(* Opening, evicting and closing *)

\* Mutated form of Opened: the new connection counts from 0 again.
OpenedForgets(c) == [conn[c] EXCEPT !.pc = "starting"]

\* A new connection takes over the registered one's delivery state.
Opened(c) ==
    IF registry = NoConn
    THEN [conn[c] EXCEPT !.pc = "starting"]
    ELSE [conn[c] EXCEPT !.pc = "starting", !.seq = conn[registry].seq,
                                            !.last = conn[registry].last]

\* The new connection c, and the registered one without its session.
Replaced(c) ==
    [d \in Conn |-> IF d = c THEN Opened(c)
                    ELSE IF d = registry
                    THEN [conn[d] EXCEPT !.pc = "evicted", !.session = FALSE]
                    ELSE conn[d]]

\* A trouble happens, while the bound on their kinds allows it.
Meets(t) ==
    /\ t \in Trouble /\ Cardinality(met \cup {t}) <= MaxKinds
    /\ met' = met \cup {t}

\* A client that was told to end does not come back; it overlaps if an earlier
\* connect has not started yet.
MayConnect(c) ==
    /\ conn[c].pc = "new" /\ ~ended
    /\ IF \E d \in Conn : conn[d].pc = "starting" THEN Meets("overlap") ELSE UNCHANGED met

\* Mutated form of Connect: the evicted connection is not unregistered.
ConnectKeepsRegistered(c) ==
    /\ MayConnect(c)
    /\ client' = c
    /\ conn' = Replaced(c)
    /\ UNCHANGED <<registry, heard, skipped, frames, ended>>

\* accept; export the registered connection's delivery state, unregister it and
\* begin to close it (clear() runs before close()'s first await); then await.
Connect(c) ==
    /\ MayConnect(c)
    /\ client' = c
    /\ registry' = NoConn
    /\ conn' = Replaced(c)
    /\ UNCHANGED <<heard, skipped, frames, ended>>

\* start() returned: only now is the connection registered.
Started(c) ==
    /\ conn[c].pc = "starting"
    /\ conn' = [conn EXCEPT ![c].pc = "live"]
    /\ registry' = c
    /\ UNCHANGED <<client, heard, skipped, frames, ended, met>>

\* start() raised: the error is sent, the socket closed, nothing registered.
StartFails(c) ==
    /\ conn[c].pc = "starting"
    /\ conn' = [conn EXCEPT ![c].pc = "gone"]
    /\ client' = IF client = c THEN NoConn ELSE client
    /\ Meets("startFails")
    /\ UNCHANGED <<registry, heard, skipped, frames, ended>>

\* The client is gone; the server does not know yet.
Lose ==
    /\ client # NoConn
    /\ client' = NoConn
    /\ Meets("blackout")
    /\ UNCHANGED <<registry, conn, heard, skipped, frames, ended>>

\* Mutated form of Disconnected: the registry entry is popped whoever holds it.
DisconnectedPops(c) ==
    /\ Idle(c) /\ conn[c].inbox = "none" /\ client # c
    /\ conn' = [conn EXCEPT ![c].pc = "gone", ![c].session = FALSE]
    /\ registry' = NoConn
    /\ UNCHANGED <<client, heard, skipped, frames, ended, met>>

\* iter_frames raises WebSocketDisconnect: unregister (identity-checked), close.
Disconnected(c) ==
    /\ Idle(c) /\ conn[c].inbox = "none" /\ client # c
    /\ conn' = [conn EXCEPT ![c].pc = "gone", ![c].session = FALSE]
    /\ registry' = IF registry = c THEN NoConn ELSE registry
    /\ UNCHANGED <<client, heard, skipped, frames, ended, met>>

\* Kafka asks for the end of the attempt: whoever is registered is told, and its
\* socket is closed.
ForceEnd ==
    /\ registry # NoConn /\ client = registry
    /\ client' = NoConn /\ ended' = TRUE
    /\ UNCHANGED <<registry, conn, heard, skipped, frames, met>>

-----------------------------------------------------------------------------
(* The frame loop *)

\* Mutated form of Spoken: the prompt counts as delivered when it is spoken, not
\* when it was sent.
SpokenDelivered(c, text, resumed) ==
    [conn EXCEPT ![c].busy = "no", ![c].inbox = "none",
                 ![c].seq = @ + 1,
                 ![c].last = text,
                 ![c].outbox = Append(@, [seq |-> conn[c].seq + 1, text |-> text,
                                          resumed |-> resumed])]

\* _speak, at the end of a handler: the sequence number is taken at once, the
\* sending is a task of its own.
Spoken(c, text, resumed) ==
    [conn EXCEPT ![c].busy = "no", ![c].inbox = "none",
                 ![c].seq = @ + 1,
                 ![c].outbox = Append(@, [seq |-> conn[c].seq + 1, text |-> text,
                                          resumed |-> resumed])]

\* The client waits for an acknowledgement before the next frame, resumes on a
\* connection that has no question yet and presents one it has started.
Send(m) ==
    /\ client # NoConn /\ frames < MaxFrames
    /\ conn[client].pc = "live" /\ conn[client].inbox = "none"
    /\ m = "resume" => ~conn[client].session
    /\ m = "present_question" => conn[client].session
    /\ conn' = [conn EXCEPT ![client].inbox = m]
    /\ frames' = frames + 1
    /\ UNCHANGED <<registry, client, heard, skipped, ended, met>>

\* question_start: the session exists before its snapshot is stored ...
QuestionStart(c) ==
    /\ Idle(c) /\ conn[c].inbox = "question_start"
    /\ conn' = [conn EXCEPT ![c].busy = "start", ![c].session = TRUE]
    /\ UNCHANGED <<registry, client, heard, skipped, frames, ended, met>>

\* ... and the section's instruction, if any, is spoken when it is.
QuestionStarted(c, p) ==
    /\ conn[c].busy = "start"
    /\ conn' = Spoken(c, p, FALSE)
    /\ UNCHANGED <<registry, client, heard, skipped, frames, ended, met>>

PresentQuestion(c, p) ==
    /\ Idle(c) /\ conn[c].inbox = "present_question"
    /\ conn' = Spoken(c, p, FALSE)
    /\ UNCHANGED <<registry, client, heard, skipped, frames, ended, met>>

\* turn_end: ignored without an active session, else the LLM is awaited.
TurnEnd(c) ==
    /\ Idle(c) /\ conn[c].inbox = "turn_end"
    /\ conn' = IF conn[c].session THEN [conn EXCEPT ![c].busy = "turn"]
               ELSE [conn EXCEPT ![c].inbox = "none"]
    /\ UNCHANGED <<registry, client, heard, skipped, frames, ended, met>>

\* The decision is there: archive the turn if the session is still there, and
\* speak the next prompt in any case.
TurnDecided(c, p) ==
    /\ conn[c].busy = "turn"
    /\ conn' = [Spoken(c, p, FALSE) EXCEPT
                  ![c].pending = IF conn[c].session THEN @ + 1 ELSE @]
    /\ UNCHANGED <<registry, client, heard, skipped, frames, ended, met>>

\* resume: the session is rebuilt from the archive; it becomes the active one
\* when it has been read, evicted meanwhile or not ...
Resume(c) ==
    /\ Idle(c) /\ conn[c].inbox = "resume"
    /\ conn' = [conn EXCEPT ![c].busy = "restore"]
    /\ UNCHANGED <<registry, client, heard, skipped, frames, ended, met>>

ResumeRestored(c) ==
    /\ conn[c].busy = "restore"
    /\ conn' = [conn EXCEPT ![c].busy = "recover", ![c].session = TRUE]
    /\ UNCHANGED <<registry, client, heard, skipped, frames, ended, met>>

\* ... or nothing was archived: an empty text is spoken.
NothingToResume(c) ==
    /\ conn[c].busy = "restore"
    /\ conn' = Spoken(c, NoPrompt, TRUE)
    /\ UNCHANGED <<registry, client, heard, skipped, frames, ended, met>>

\* ... and the pending prompt, or the one of a decision just recovered, is
\* spoken unless it is the last one delivered.
ResumeEnds(c, p) ==
    /\ conn[c].busy = "recover"
    /\ IF p # NoPrompt /\ p = conn[c].last
       THEN /\ conn' = [conn EXCEPT ![c].busy = "no", ![c].inbox = "none"]
            /\ skipped' = IF client = c THEN p ELSE skipped
       ELSE /\ conn' = Spoken(c, p, TRUE)
            /\ UNCHANGED skipped
    /\ UNCHANGED <<registry, client, heard, frames, ended, met>>

\* An exception after an await: logged by the frame loop, nothing is said.
HandlerFails(c) ==
    /\ conn[c].busy # "no"
    /\ conn' = [conn EXCEPT ![c].busy = "no", ![c].inbox = "none"]
    /\ Meets("handlerFails")
    /\ UNCHANGED <<registry, client, heard, skipped, frames, ended>>

-----------------------------------------------------------------------------
(* Background tasks *)

\* What the student has heard last when u arrives; an empty text is no prompt.
Hearing(u) ==
    IF u.text = NoPrompt THEN [heard EXCEPT !.seq = u.seq, !.resumed = FALSE] ELSE u

\* _send_speak: send_json swallows the failure of a dead socket, and the prompt
\* counts as delivered either way.
SendSpeak(c) ==
    /\ conn[c].outbox # <<>>
    /\ LET u == Head(conn[c].outbox) IN
          /\ conn' = [conn EXCEPT ![c].outbox = Tail(@),
                                  ![c].last = IF u.text = NoPrompt THEN @ ELSE u.text]
          /\ heard' = IF client = c THEN Hearing(u) ELSE heard
          /\ skipped' = IF client = c /\ u.text # NoPrompt THEN NoPrompt ELSE skipped
    /\ UNCHANGED <<registry, client, frames, ended, met>>

\* _archive_turn returned: its task leaves _pending_archives.
ArchiveDone(c) ==
    /\ conn[c].pending > 0
    /\ conn' = [conn EXCEPT ![c].pending = @ - 1]
    /\ UNCHANGED <<registry, client, heard, skipped, frames, ended, met>>

Handle(c) ==
    \/ QuestionStart(c) \/ TurnEnd(c) \/ Resume(c) \/ ResumeRestored(c)
    \/ NothingToResume(c) \/ HandlerFails(c)
    \/ \E p \in Text : \/ QuestionStarted(c, p) \/ PresentQuestion(c, p)
                       \/ TurnDecided(c, p) \/ ResumeEnds(c, p)

Next ==
    \/ \E c \in Conn : \/ Connect(c) \/ Started(c) \/ StartFails(c) \/ Disconnected(c)
                       \/ Handle(c) \/ SendSpeak(c) \/ ArchiveDone(c)
    \/ \E m \in Frame \ {"none"} : Send(m)
    \/ Lose \/ ForceEnd

Spec == Init /\ [][Next]_vars
-----------------------------------------------------------------------------
(* Properties *)

\* The registry never names a connection that was evicted or has ended: a late
\* clean-up, a failed start or a second eviction does not leave one behind.
RegisteredIsLive == registry # NoConn => conn[registry].pc = "live"

\* "one attempt may have only ONE live connection" (realtime_controller.py:217),
\* and it is the one that force_end, pending-archives and the next eviction find,
\* whatever else goes wrong, as long as no two connects overlapped.
OnlyRegistered == {c \in Conn : conn[c].pc = "live"} = {registry} \ {NoConn}
LiveIsRegistered == "overlap" \notin met => OnlyRegistered

\* The comment's promise itself.  The code does not keep it (README, further
\* divergences), and no run checks it.
OneLive == \A c, d \in Conn : conn[c].pc = "live" /\ conn[d].pc = "live" => c = d

\* Utterance numbers only grow from one heard utterance to the next, across
\* connections and failing handlers: the client can tell a repeated utterance
\* from a new one.
SequenceGrows ==
    [][met' \subseteq {"handlerFails"} => heard'.seq > heard.seq]_heard

\* A resume leaves unsaid only what the student heard: a prompt that never
\* arrived is sent again (connection.py:575-577).
SkippedWasHeard ==
    met \subseteq {"handlerFails"} /\ skipped # NoPrompt => heard.text = skipped
=============================================================================
