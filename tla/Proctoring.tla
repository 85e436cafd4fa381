----------------------------- MODULE Proctoring -----------------------------
(***************************************************************************)
(* The proctoring of one exam attempt: the WebRTC peers that follow each   *)
(* other under one session id, the registry that says which is current,    *)
(* the frames they send, the alerts a scene raises and the event stream    *)
(* that a monitor reads.                                                   *)
(*                                                                         *)
(* offer suspends while it evicts the previous peer, and again while it    *)
(* negotiates; cleanup_session suspends while it closes the peer, between  *)
(* taking it off the registry and clearing what the session recorded.  A   *)
(* frame waits for the GPU lock between its reception and its analysis.    *)
(* Everything else runs without a suspension: Queue.put on an unbounded    *)
(* queue never waits.                                                      *)
(***************************************************************************)
EXTENDS Integers, Sequences, FiniteSets

CONSTANTS Peer, NoPeer,      \* the peer connections offered under this session id
          Scene, NoScene,    \* what the detector may see in a frame
          MaxConnections,    \* WEBRTC_MAX_CONNECTIONS
          Streak, Cooldown,  \* ALERT_STREAK_FRAMES, ALERT_COOLDOWN_SECONDS
          MaxFrames, MaxTime \* bounds on the frames analysed and on the clock

Benign == {"keyboard", "mouse"}
Phone  == {"cell phone"}
Label  == Benign \cup Phone \cup {"book", "laptop"}
Alert  == {"PHONE_DETECTED", "PROHIBITED_OBJECT", "PERSON_MISSING", "MULTIPLE_PERSONS"}

ASSUME SceneAssumption ==
    Scene \subseteq [labels : SUBSET Label, persons : 0 .. 2] /\ NoScene \notin Scene
ASSUME PeerAssumption  == NoPeer \notin Peer
ASSUME LimitAssumption ==
    /\ MaxConnections \in Nat \ {0} /\ Streak \in Nat \ {0} /\ Cooldown \in Nat
    /\ MaxFrames \in Nat /\ MaxTime \in Nat

VARIABLES
    registered, \* session_map[session_id], or NoPeer
    pcs,        \* the peer connections that count against the limit
    peer,       \* offer handler, connection and received frame of each peer
    identity,   \* session_identity has the session
    events,     \* session_events[session_id]
    policy,     \* what the alert policy holds of the session
    monitor,    \* the event stream of one subscriber
    now,        \* time.monotonic()
    analysed,   \* frames analysed so far
    scenes,     \* history: how long each alert's condition has held, see Watch
    amiss       \* history: steps of two handlers were mixed, or a close failed

vars == <<registered, pcs, peer, identity, events, policy, monitor, now,
          analysed, scenes, amiss>>

Never == -1
Time  == 0 .. MaxTime
Ended == 0
PeerState ==
    [offer  : {"none", "evicting", "negotiating", "answered", "refused"},
     link   : {"none", "open", "lost", "gone"},     \* connectionState; gone: handled
     waits  : Peer \cup {NoPeer},                   \* the peer its offer is closing
     cleans : BOOLEAN,                              \* cleanup_session awaits its close()
     frame  : Scene \cup {NoScene}]                 \* received, not yet analysed
PolicyState ==
    [active : SUBSET Alert, emitted : [Alert -> Time \cup {Never}],
     streak : [Alert -> Nat]]
\* Events are known by their place in the log; read: how many were replayed.
MonitorState ==
    [state : {"off", "replay", "live", "told"}, subscribed : BOOLEAN,
     read : Nat, queue : Seq(Nat), got : SUBSET Nat]
\* held: frames in a row, in this session, in which the condition held;
\* since: when it was last reported in that row; seen: when it last held.
Watch == [held : Nat, since : Time \cup {Never}, seen : Time \cup {Never}]

TypeOK ==
    /\ registered \in Peer \cup {NoPeer}
    /\ pcs \subseteq Peer
    /\ peer \in [Peer -> PeerState]
    /\ identity \in BOOLEAN
    /\ events \in Seq(Alert)
    /\ policy \in PolicyState
    /\ monitor \in MonitorState
    /\ now \in Time
    /\ analysed \in 0 .. MaxFrames
    /\ scenes \in [Alert -> Watch]
    /\ amiss \in BOOLEAN

NoPolicy  == [active |-> {}, emitted |-> [a \in Alert |-> Never],
              streak |-> [a \in Alert |-> 0]]
Unwatched == [a \in Alert |-> [held |-> 0, since |-> Never, seen |-> Never]]

Init ==
    /\ registered = NoPeer
    /\ pcs = {}
    /\ peer = [p \in Peer |-> [offer |-> "none", link |-> "none", waits |-> NoPeer,
                               cleans |-> FALSE, frame |-> NoScene]]
    /\ identity = FALSE
    /\ events = <<>>
    /\ policy = NoPolicy
    /\ monitor = [state |-> "off", subscribed |-> FALSE, read |-> 0, queue |-> <<>>,
                  got |-> {}]
    /\ now = 0
    /\ analysed = 0
    /\ scenes = Unwatched
    /\ amiss = FALSE

\* A handler is suspended between two steps on the registry.
Suspended == \E p \in Peer : peer[p].offer = "evicting" \/ peer[p].cleans

-----------------------------------------------------------------------------
(* offer *)

\* The peers are counted after the eviction; the new one is added and
\* registered, with its identity, without a suspension in between.
Register(p, before) ==
    IF Cardinality(pcs) >= MaxConnections
    THEN /\ peer' = [before EXCEPT ![p].offer = "refused", ![p].waits = NoPeer]
         /\ UNCHANGED <<registered, pcs, identity>>
    ELSE /\ peer' = [before EXCEPT ![p].offer = "negotiating", ![p].waits = NoPeer,
                                   ![p].link = "open"]
         /\ pcs' = pcs \cup {p}
         /\ registered' = p
         /\ identity' = TRUE

\* Mutant: the evicted peer is counted until it is closed for good.
OfferKeepsCounting(p) ==
    /\ peer[p].offer = "none"
    /\ amiss' = (amiss \/ Suspended)
    /\ IF registered = NoPeer
       THEN Register(p, peer) /\ scenes' = Unwatched
       ELSE /\ peer' = [peer EXCEPT ![p].offer = "evicting", ![p].waits = registered]
            /\ registered' = NoPeer
            /\ UNCHANGED <<pcs, identity, scenes>>
    /\ UNCHANGED <<events, policy, monitor, now, analysed>>

\* evict_previous_connection takes the registered peer off the registry and
\* off pcs, and then awaits its close; with none registered it returns at
\* once, and the session is a fresh one.
Offer(p) ==
    /\ peer[p].offer = "none"
    /\ amiss' = (amiss \/ Suspended)
    /\ IF registered = NoPeer
       THEN /\ Register(p, peer)
            /\ scenes' = Unwatched
       ELSE /\ peer' = [peer EXCEPT ![p].offer = "evicting", ![p].waits = registered]
            /\ registered' = NoPeer
            /\ pcs' = pcs \ {registered}
            /\ UNCHANGED <<identity, scenes>>
    /\ UNCHANGED <<events, policy, monitor, now, analysed>>

\* previous.close() returns, or raises and is logged.
Evicted(p) ==
    /\ peer[p].offer = "evicting"
    /\ Register(p, [peer EXCEPT ![peer[p].waits].link = "gone"])
    /\ UNCHANGED <<events, policy, monitor, now, analysed, scenes, amiss>>

\* The answer is sent; a description that raises fails the request and leaves
\* the peer where it is.
Answered(p) ==
    /\ peer[p].offer = "negotiating"
    /\ peer' = [peer EXCEPT ![p].offer = "answered"]
    /\ UNCHANGED <<registered, pcs, identity, events, policy, monitor, now,
                   analysed, scenes, amiss>>

-----------------------------------------------------------------------------
(* The end of a peer and of a session *)

Lose(p) ==
    /\ peer[p].link = "open"
    /\ peer' = [peer EXCEPT ![p].link = "lost"]
    /\ UNCHANGED <<registered, pcs, identity, events, policy, monitor, now,
                   analysed, scenes, amiss>>

\* cleanup_session up to its await: it takes whichever peer is registered.
StartCleanup(before) ==
    /\ registered' = NoPeer
    /\ peer' = [before EXCEPT ![registered].cleans = TRUE, ![registered].link = "gone"]

\* connectionstatechange of a lost peer: only the current one may clean up.
OnConnectionStateChange(p) ==
    /\ peer[p].link = "lost"
    /\ IF registered = p
       THEN StartCleanup(peer)
       ELSE /\ peer' = [peer EXCEPT ![p].link = "gone"]
            /\ UNCHANGED registered
    /\ UNCHANGED <<pcs, identity, events, policy, monitor, now, analysed, scenes, amiss>>

\* DELETE /connections/{session_id}, and the shutdown of the process.
Disconnect ==
    /\ registered # NoPeer
    /\ StartCleanup(peer)
    /\ UNCHANGED <<pcs, identity, events, policy, monitor, now, analysed, scenes, amiss>>

\* cleanup_session after its await: whatever was registered meanwhile.
CleanedUp(p) ==
    /\ peer[p].cleans
    /\ peer' = [peer EXCEPT ![p].cleans = FALSE]
    /\ pcs' = pcs \ {p}
    /\ monitor' = [monitor EXCEPT !.queue = IF monitor.subscribed THEN Append(@, Ended) ELSE @,
                                  !.subscribed = FALSE]
    /\ events' = <<>>
    /\ identity' = FALSE
    /\ policy' = NoPolicy
    /\ scenes' = Unwatched
    /\ UNCHANGED <<registered, now, analysed, amiss>>

\* pc.close() raises: nothing of the session is cleared and the peer stays
\* counted.
CleanupRaises(p) ==
    /\ peer[p].cleans
    /\ peer' = [peer EXCEPT ![p].cleans = FALSE]
    /\ amiss' = TRUE
    /\ UNCHANGED <<registered, pcs, identity, events, policy, monitor, now,
                   analysed, scenes>>

-----------------------------------------------------------------------------
(* process_video_track *)

ObjectAlertType(label) ==
    IF label \in Phone THEN "PHONE_DETECTED" ELSE "PROHIBITED_OBJECT"

\* The conditions that hold in a scene.
Conditions(s) ==
    {ObjectAlertType(l) : l \in s.labels \ Benign}
    \cup (IF s.persons = 0 THEN {"PERSON_MISSING"} ELSE {})
    \cup (IF s.persons > 1 THEN {"MULTIPLE_PERSONS"} ELSE {})

\* Every FRAME_SKIP-th frame; a peer that was closed sends no more.
Receive(p) ==
    /\ peer[p].link \in {"open", "lost"} /\ peer[p].offer = "answered"
    /\ ~ peer[p].cleans /\ peer[p].frame = NoScene
    /\ \E s \in Scene : peer' = [peer EXCEPT ![p].frame = s]
    /\ UNCHANGED <<registered, pcs, identity, events, policy, monitor, now,
                   analysed, scenes, amiss>>

\* The detector raises: the frame counts for nothing.
YoloError(p) ==
    /\ peer[p].frame # NoScene
    /\ peer' = [peer EXCEPT ![p].frame = NoScene]
    /\ UNCHANGED <<registered, pcs, identity, events, policy, monitor, now,
                   analysed, scenes, amiss>>

\* Mutant: a frame without the condition does not reset the streak.
StreakIsKept(a, holds) == IF holds THEN policy.streak[a] + 1 ELSE policy.streak[a]

\* condition_confirmed for a condition that holds, reset_streak otherwise.
NextStreak(a, holds) == IF holds THEN policy.streak[a] + 1 ELSE 0

\* should_emit_alert: a new condition, or one whose cooldown has elapsed.
ShouldEmit(a) ==
    \/ a \notin policy.active
    \/ policy.emitted[a] = Never
    \/ now - policy.emitted[a] >= Cooldown

\* The conditions that are confirmed, and of these the ones that are reported.
Emitted(held) ==
    {a \in held : NextStreak(a, TRUE) >= Streak /\ ShouldEmit(a)}

NextPolicy(held) ==
    [active  |-> (policy.active \cap held) \cup Emitted(held),
     emitted |-> [a \in Alert |-> IF a \in Emitted(held) THEN now ELSE policy.emitted[a]],
     streak  |-> [a \in Alert |-> NextStreak(a, a \in held)]]

\* broadcast_event for each event of the frame, and schedule_alert.
Broadcast(new) ==
    \E order \in {o \in [1 .. Cardinality(new) -> new] : \A a \in new : \E i \in DOMAIN o : o[i] = a} :
        /\ events' = events \o order
        /\ monitor' = [monitor EXCEPT !.queue =
               IF monitor.subscribed
               THEN @ \o [i \in DOMAIN order |-> Len(events) + i] ELSE @]

Watched(a, held) ==
    IF a \notin held THEN Unwatched[a]
    ELSE [held  |-> scenes[a].held + 1,
          since |-> IF a \in Emitted(held) THEN now ELSE scenes[a].since,
          seen  |-> now]

Analyse(p) ==
    /\ peer[p].frame # NoScene
    /\ analysed < MaxFrames
    /\ LET held == Conditions(peer[p].frame) IN
       /\ policy' = NextPolicy(held)
       /\ Broadcast(Emitted(held))
       /\ scenes' = [a \in Alert |-> Watched(a, held)]
    /\ peer' = [peer EXCEPT ![p].frame = NoScene]
    /\ analysed' = analysed + 1
    /\ amiss' = (amiss \/ registered = NoPeer)
    /\ UNCHANGED <<registered, pcs, identity, now>>

Tick ==
    /\ now < MaxTime
    /\ now' = now + 1
    /\ UNCHANGED <<registered, pcs, peer, identity, events, policy, monitor,
                   analysed, scenes, amiss>>

-----------------------------------------------------------------------------
(* stream_session_events *)

\* Mutant: the stream replays the log and subscribes to nothing.
ReplayOnly ==
    /\ monitor.state = "off"
    /\ registered # NoPeer \/ events # <<>>
    /\ monitor' = [monitor EXCEPT !.state = "replay"]
    /\ UNCHANGED <<registered, pcs, peer, identity, events, policy, now,
                   analysed, scenes, amiss>>

\* The request subscribes at once; the log is replayed afterwards.
Subscribe ==
    /\ monitor.state = "off"
    /\ registered # NoPeer \/ events # <<>>
    /\ monitor' = [monitor EXCEPT !.state = "replay", !.subscribed = TRUE]
    /\ UNCHANGED <<registered, pcs, peer, identity, events, policy, now,
                   analysed, scenes, amiss>>

Replay ==
    /\ monitor.state = "replay"
    /\ monitor' = IF monitor.read < Len(events)
                  THEN [monitor EXCEPT !.read = @ + 1, !.got = @ \cup {monitor.read + 1}]
                  ELSE [monitor EXCEPT !.state = "live"]
    /\ UNCHANGED <<registered, pcs, peer, identity, events, policy, now,
                   analysed, scenes, amiss>>

Stream ==
    /\ monitor.state = "live" /\ monitor.queue # <<>>
    /\ monitor' = [monitor EXCEPT !.queue = Tail(@),
                                  !.got = @ \cup {Head(monitor.queue)},
                                  !.state = IF Head(monitor.queue) = Ended THEN "told" ELSE @]
    /\ UNCHANGED <<registered, pcs, peer, identity, events, policy, now,
                   analysed, scenes, amiss>>

-----------------------------------------------------------------------------
Next ==
    \/ \E p \in Peer : \/ Offer(p) \/ Evicted(p) \/ Answered(p) \/ Lose(p)
                       \/ OnConnectionStateChange(p) \/ CleanedUp(p) \/ CleanupRaises(p)
                       \/ Receive(p) \/ YoloError(p) \/ Analyse(p)
    \/ Disconnect \/ Tick \/ Subscribe \/ Replay \/ Stream

Spec == Init /\ [][Next]_vars

-----------------------------------------------------------------------------
(* Properties *)

\* A reconnect is whole: the student is not refused because of the peer that
\* the reconnect replaces, and the registered peer counts against the limit
\* and has an identity for its alerts.
ReconnectIsWhole ==
    amiss \/ /\ \A p \in Peer : peer[p].offer # "refused"
             /\ registered # NoPeer => registered \in pcs /\ identity

\* A condition is reported exactly when it has held for ALERT_STREAK_FRAMES
\* analysed frames, and was last reported less than a cooldown before it was
\* last seen, whatever peers sent the frames.
AlertsFollowTheScene ==
    amiss \/ \A a \in Alert : LET w == scenes[a] IN
        /\ w.held >= Streak <=> w.since # Never
        /\ w.since # Never /\ Cooldown > 0 => w.seen - w.since < Cooldown

\* A monitor that was not told that the session ended, and has read all it
\* was sent, has been shown the whole log.
MonitorMissesNothing ==
    monitor.state = "live" /\ monitor.queue = <<>>
        => 1 .. Len(events) \subseteq monitor.got
=============================================================================
