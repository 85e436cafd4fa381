--------------------------- MODULE Proctoring_proofs ---------------------------
(***************************************************************************)
(* For any number of peers and any limits: reconnects are whole, alerts    *)
(* follow the scene and a monitor misses no event.                         *)
(***************************************************************************)
EXTENDS Proctoring, FiniteSetTheorems, SequenceTheorems, TLAPS

Busy(p) == peer[p].offer = "evicting" \/ peer[p].cleans

\* One peer at a time is suspended, and while one is nobody is registered; the
\* registered peer is all that is counted.
RegistryInv ==
    /\ \A p \in Peer : /\ peer[p].offer # "refused"
                       /\ peer[p].cleans => peer[p].offer # "evicting" /\ pcs = {p}
                       /\ peer[p].offer = "evicting" => pcs = {}
    /\ \A p, q \in Peer : Busy(p) /\ Busy(q) => p = q
    /\ registered # NoPeer =>
          /\ pcs = {registered} /\ identity /\ ~ Suspended
          /\ peer[registered].offer \in {"negotiating", "answered"}
    /\ registered = NoPeer /\ ~ Suspended =>
          pcs = {} /\ policy = NoPolicy /\ scenes = Unwatched

\* The policy knows of the scene what an observer of the frames knows.
AlertIsTrue(a) ==
    LET w == scenes[a] IN
    /\ policy.streak[a] = w.held
    /\ w.held >= Streak <=> w.since # Never
    /\ a \in policy.active <=> w.since # Never
    /\ w.since # Never => policy.emitted[a] = w.since
    /\ w.since # Never /\ Cooldown > 0 => w.seen - w.since < Cooldown

AlertInv == \A a \in Alert : AlertIsTrue(a)

Seen(s) == {s[i] : i \in DOMAIN s}

\* Each event was shown, is in the queue or will be replayed; a stream whose
\* session was cleared has the end in its queue.
StreamInv ==
    /\ monitor.state = "off" => ~ monitor.subscribed /\ monitor.read = 0
    /\ monitor.state \in {"replay", "live"} =>
          \/ Ended \in Seen(monitor.queue)
          \/ /\ monitor.subscribed
             /\ \A n \in 1 .. Len(events) : \/ n \in monitor.got \cup Seen(monitor.queue)
                                            \/ monitor.state = "replay" /\ n > monitor.read

IInv ==
    /\ TypeOK /\ StreamInv
    /\ amiss \/ (RegistryInv /\ AlertInv)

(***************************************************************************)
(* Types.                                                                  *)
(***************************************************************************)
LEMMA AlertFinite == IsFiniteSet(Alert)
<1>1. Alert = {"PHONE_DETECTED"} \cup {"PROHIBITED_OBJECT"} \cup {"PERSON_MISSING"}
              \cup {"MULTIPLE_PERSONS"}
  BY DEF Alert
<1> QED
  BY <1>1, FS_Singleton, FS_Union

LEMMA AlertsOf == \A s \in Scene : Conditions(s) \subseteq Alert
BY DEF Conditions, ObjectAlertType, Alert

\* What is reported of a frame is logged in some order.
LEMMA LoggedInOrder ==
    ASSUME NEW new \in SUBSET Alert, NEW o \in [1 .. Cardinality(new) -> new]
    PROVE  o \in Seq(Alert) /\ Len(o) = Cardinality(new) /\ DOMAIN o = 1 .. Cardinality(new)
<1>1. Cardinality(new) \in Nat
  BY AlertFinite, FS_Subset, FS_CardinalityType
<1>2. o \in [1 .. Cardinality(new) -> Alert]
  OBVIOUS
<1> QED
  BY <1>1, <1>2, SeqDef

LEMMA InitType == Init => TypeOK
<1> SUFFICES ASSUME Init PROVE TypeOK
  OBVIOUS
<1> USE DEF Init
<1>1. peer \in [Peer -> PeerState]
  BY DEF PeerState
<1>2. policy \in PolicyState /\ scenes \in [Alert -> Watch]
  BY DEF PolicyState, NoPolicy, Unwatched, Watch, Time, Never
<1>3. monitor \in MonitorState
  BY DEF MonitorState
<1>4. now \in Time /\ analysed \in 0 .. MaxFrames
  BY LimitAssumption DEF Time
<1>5. identity \in BOOLEAN /\ amiss \in BOOLEAN
  BY Zenon
<1>6. registered \in Peer \cup {NoPeer} /\ pcs \subseteq Peer /\ events \in Seq(Alert)
  OBVIOUS
<1> HIDE DEF Init
<1> QED
  BY <1>1, <1>2, <1>3, <1>4, <1>5, <1>6 DEF TypeOK

LEMMA ClearedType == NoPolicy \in PolicyState /\ Unwatched \in [Alert -> Watch]
BY DEF PolicyState, NoPolicy, Unwatched, Watch, Time, Never

LEMMA BooleanOr == \A a, b \in BOOLEAN : (a \/ b) \in BOOLEAN
BY Zenon

LEMMA RegisterType ==
    ASSUME TypeOK, NEW p \in Peer, NEW before \in [Peer -> PeerState], Register(p, before)
    PROVE  /\ peer' \in [Peer -> PeerState] /\ pcs' \subseteq Peer
           /\ registered' \in Peer \cup {NoPeer} /\ identity' \in BOOLEAN
<1>1. CASE Cardinality(pcs) >= MaxConnections
  BY <1>1 DEF TypeOK, Register, PeerState
<1>2. CASE ~ Cardinality(pcs) >= MaxConnections
  <2>1. identity' \in BOOLEAN
    BY <1>2, Zenon DEF Register
  <2>2. peer' \in [Peer -> PeerState]
    BY <1>2 DEF Register, PeerState
  <2> QED
    BY <1>2, <2>1, <2>2 DEF TypeOK, Register
<1> QED
  BY <1>1, <1>2

LEMMA OfferType == ASSUME TypeOK, NEW p \in Peer, Offer(p) PROVE TypeOK'
<1>1. /\ peer' \in [Peer -> PeerState] /\ pcs' \subseteq Peer
      /\ registered' \in Peer \cup {NoPeer} /\ identity' \in BOOLEAN
  <2>1. CASE registered = NoPeer
    BY <2>1, RegisterType DEF Offer, TypeOK
  <2>2. CASE registered # NoPeer
    BY <2>2 DEF Offer, TypeOK, PeerState
  <2> QED
    BY <2>1, <2>2
<1>2. scenes' \in [Alert -> Watch]
  BY ClearedType DEF Offer, TypeOK
<1>3. amiss' \in BOOLEAN
  BY BooleanOr, Zenon DEF Offer, TypeOK, Suspended
<1> QED
  BY <1>1, <1>2, <1>3 DEF Offer, TypeOK

LEMMA PeerType ==
    ASSUME TypeOK, NEW p \in Peer,
           Evicted(p) \/ Answered(p) \/ Lose(p) \/ OnConnectionStateChange(p) \/ CleanedUp(p)
             \/ CleanupRaises(p) \/ Receive(p) \/ YoloError(p)
    PROVE  TypeOK'
<1>1. CASE Evicted(p)
  <2>1. [peer EXCEPT ![peer[p].waits].link = "gone"] \in [Peer -> PeerState]
    BY DEF TypeOK, PeerState
  <2> QED
    BY <1>1, <2>1, RegisterType DEF Evicted, TypeOK
<1>2. CASE Answered(p) \/ Lose(p)
  <2>1. peer' \in [Peer -> PeerState]
    BY <1>2 DEF Answered, Lose, TypeOK, PeerState
  <2> QED
    BY <1>2, <2>1 DEF Answered, Lose, TypeOK
<1>3. CASE OnConnectionStateChange(p)
  <2>1. peer' \in [Peer -> PeerState] /\ registered' \in Peer \cup {NoPeer}
    BY <1>3 DEF OnConnectionStateChange, StartCleanup, TypeOK, PeerState
  <2> QED
    BY <1>3, <2>1 DEF OnConnectionStateChange, TypeOK
<1>4. CASE CleanedUp(p)
  <2>1. peer' \in [Peer -> PeerState]
    BY <1>4 DEF CleanedUp, TypeOK, PeerState
  <2>2. monitor' \in MonitorState
    <3>1. /\ monitor.queue \in Seq(Nat) /\ Append(monitor.queue, Ended) \in Seq(Nat)
          /\ FALSE \in BOOLEAN
      BY DEF TypeOK, MonitorState, Ended
    <3>2. (IF monitor.subscribed THEN Append(monitor.queue, Ended) ELSE monitor.queue) \in Seq(Nat)
      BY <3>1
    <3>3. monitor \in MonitorState
      BY DEF TypeOK
    <3> QED
      BY <1>4, <3>1, <3>2, <3>3 DEF CleanedUp, MonitorState
  <2>3. identity' \in BOOLEAN
    BY <1>4, Zenon DEF CleanedUp
  <2>4. pcs' \subseteq Peer /\ events' \in Seq(Alert)
    BY <1>4 DEF CleanedUp, TypeOK
  <2> QED
    BY <1>4, <2>1, <2>2, <2>3, <2>4, ClearedType DEF CleanedUp, TypeOK
<1>5. CASE CleanupRaises(p)
  <2>1. peer' \in [Peer -> PeerState]
    BY <1>5 DEF CleanupRaises, TypeOK, PeerState
  <2> QED
    BY <1>5, <2>1 DEF CleanupRaises, TypeOK
<1>6. CASE Receive(p) \/ YoloError(p)
  <2>1. peer' \in [Peer -> PeerState]
    BY <1>6 DEF Receive, YoloError, TypeOK, PeerState
  <2> QED
    BY <1>6, <2>1 DEF Receive, YoloError, TypeOK
<1> QED
  BY <1>1, <1>2, <1>3, <1>4, <1>5, <1>6

LEMMA DisconnectType == ASSUME TypeOK, Disconnect PROVE TypeOK'
<1>1. peer' \in [Peer -> PeerState]
  BY DEF Disconnect, StartCleanup, TypeOK, PeerState
<1> QED
  BY <1>1 DEF Disconnect, StartCleanup, TypeOK

\* What the analysis of a frame logs, and sends to the monitor.
LEMMA BroadcastAdds ==
    ASSUME TypeOK, NEW new \in SUBSET Alert, Broadcast(new)
    PROVE  /\ events' \in Seq(Alert) /\ Len(events') \in Nat /\ Len(events) \in Nat
           /\ monitor' \in MonitorState
           /\ monitor' = [monitor EXCEPT !.queue = monitor'.queue]
           /\ Seen(monitor.queue) \subseteq Seen(monitor'.queue)
           /\ monitor.subscribed =>
                 Seen(monitor.queue) \cup (Len(events) + 1 .. Len(events')) \subseteq Seen(monitor'.queue)
<1>1. PICK o \in [1 .. Cardinality(new) -> new] :
         /\ events' = events \o o
         /\ monitor' = [monitor EXCEPT !.queue =
               IF monitor.subscribed
               THEN @ \o [i \in DOMAIN o |-> Len(events) + i] ELSE @]
  BY DEF Broadcast
<1> DEFINE n == Cardinality(new)
           l == Len(events)
           q == [i \in DOMAIN o |-> l + i]
<1>2. /\ o \in Seq(Alert) /\ Len(o) = n /\ DOMAIN o = 1 .. n /\ events \in Seq(Alert)
      /\ monitor \in MonitorState /\ monitor.queue \in Seq(Nat) /\ monitor.subscribed \in BOOLEAN
  BY LoggedInOrder DEF TypeOK, MonitorState
<1>3. n \in Nat /\ l \in Nat
  BY AlertFinite, FS_Subset, FS_CardinalityType, <1>2
<1>4. q \in [1 .. n -> Nat]
  BY <1>2, <1>3
<1>5. q \in Seq(Nat) /\ Len(q) = n
  BY <1>3, <1>4, SeqDef
<1>6. events' \in Seq(Alert) /\ Len(events') = l + n
  BY <1>1, <1>2, ConcatProperties
<1> DEFINE Q == monitor.queue
           k == Len(Q)
<1>7. k \in Nat /\ DOMAIN Q = 1 .. k
  BY <1>2
<1>8. /\ Q \o q \in Seq(Nat) /\ Len(Q \o q) = k + n
      /\ \A i \in 1 .. k + n : (Q \o q)[i] = IF i <= k THEN Q[i] ELSE q[i - k]
  BY <1>2, <1>5, ConcatProperties
<1>9. DOMAIN (Q \o q) = 1 .. k + n
  <2> DEFINE both == Q \o q
  <2>1. both \in Seq(Nat) /\ Len(both) = k + n
    BY <1>8
  <2> HIDE DEF both
  <2>2. DOMAIN both = 1 .. k + n
    BY <2>1
  <2> QED
    BY <2>2 DEF both
<1>10. ASSUME monitor.subscribed PROVE monitor'.queue = Q \o q
  BY <1>1, <1>2, <1>10 DEF MonitorState
<1>11. ASSUME ~ monitor.subscribed PROVE monitor'.queue = Q
  BY <1>1, <1>2, <1>11 DEF MonitorState
<1>12. monitor' = [monitor EXCEPT !.queue = monitor'.queue]
  <2>1. CASE monitor.subscribed
    BY <1>1, <1>10, <2>1
  <2>2. CASE ~ monitor.subscribed
    BY <1>1, <1>11, <2>2
  <2> QED
    BY <2>1, <2>2
<1>13. monitor'.queue \in Seq(Nat)
  BY <1>2, <1>8, <1>10, <1>11
<1>14. monitor' \in MonitorState
  BY <1>2, <1>12, <1>13 DEF MonitorState
<1> HIDE DEF q, Q, k, n, l
<1>15. ASSUME NEW x \in Seen(Q) PROVE x \in Seen(Q \o q)
  <2>1. PICK i \in 1 .. k : x = Q[i]
    BY <1>7, <1>15 DEF Seen
  <2>2. i \in 1 .. k + n /\ (Q \o q)[i] = x
    BY <1>3, <1>7, <1>8, <2>1
  <2> QED
    BY <1>9, <2>2 DEF Seen
<1>16. ASSUME NEW x \in l + 1 .. l + n PROVE x \in Seen(Q \o q)
  <2>1. x - l \in 1 .. n /\ k + (x - l) \in 1 .. k + n /\ ~ k + (x - l) <= k
    BY <1>3, <1>7
  <2>2. q[x - l] = x
    BY <1>2, <1>3, <2>1 DEF q
  <2>3. (Q \o q)[k + (x - l)] = x
    <3>1. (k + (x - l)) - k = x - l
      BY <1>3, <1>7
    <3> QED
      BY <1>8, <2>1, <2>2, <3>1
  <2> QED
    BY <1>9, <2>1, <2>3 DEF Seen
<1>17. Seen(monitor.queue) \subseteq Seen(monitor'.queue)
  BY <1>10, <1>11, <1>15 DEF Q
<1>18. monitor.subscribed =>
          Seen(monitor.queue) \cup (Len(events) + 1 .. Len(events')) \subseteq Seen(monitor'.queue)
  BY <1>6, <1>10, <1>15, <1>16 DEF Q, l
<1>19. Len(events') \in Nat /\ Len(events) \in Nat
  BY <1>3, <1>6 DEF l
<1> QED
  BY <1>6, <1>12, <1>14, <1>17, <1>18, <1>19

LEMMA EmittedAre == ASSUME NEW held \in SUBSET Alert PROVE Emitted(held) \in SUBSET held
BY DEF Emitted

LEMMA AnalyseType == ASSUME TypeOK, NEW p \in Peer, Analyse(p) PROVE TypeOK'
<1> DEFINE held == Conditions(peer[p].frame)
<1>1. peer[p].frame \in Scene
  BY DEF Analyse, TypeOK, PeerState
<1>2. held \in SUBSET Alert
  BY <1>1, AlertsOf
<1>3. /\ policy' = NextPolicy(held) /\ Broadcast(Emitted(held))
      /\ scenes' = [a \in Alert |-> Watched(a, held)]
      /\ peer' = [peer EXCEPT ![p].frame = NoScene]
      /\ analysed' = analysed + 1 /\ analysed < MaxFrames
      /\ amiss' = (amiss \/ registered = NoPeer)
      /\ UNCHANGED <<registered, pcs, identity, now>>
  BY DEF Analyse
<1> HIDE DEF held
<1>4. events' \in Seq(Alert) /\ monitor' \in MonitorState
  BY <1>2, <1>3, EmittedAre, BroadcastAdds
<1>5. peer' \in [Peer -> PeerState]
  BY <1>3 DEF TypeOK, PeerState
<1>6. policy' \in PolicyState
  <2>1. policy \in PolicyState /\ now \in Time
    BY DEF TypeOK
  <2>2. (policy.active \cap held) \cup Emitted(held) \in SUBSET Alert
    BY <1>2, EmittedAre
  <2>3. [a \in Alert |-> IF a \in Emitted(held) THEN now ELSE policy.emitted[a]]
           \in [Alert -> Time \cup {Never}]
    BY <2>1 DEF PolicyState
  <2>4. \A a \in Alert : NextStreak(a, a \in held) \in Nat
    BY <2>1 DEF PolicyState, NextStreak
  <2> QED
    BY <1>3, <2>2, <2>3, <2>4 DEF PolicyState, NextPolicy
<1>7. scenes' \in [Alert -> Watch]
  <2>1. ASSUME NEW a \in Alert PROVE Watched(a, held) \in Watch
    <3>1. scenes[a] \in Watch /\ now \in Time
      BY DEF TypeOK
    <3>2. Unwatched[a] \in Watch
      BY ClearedType
    <3> QED
      BY <3>1, <3>2 DEF Watched, Watch
  <2> QED
    BY <1>3, <2>1
<1>8. amiss' \in BOOLEAN
  BY <1>3, BooleanOr, Zenon DEF TypeOK
<1>9. analysed' \in 0 .. MaxFrames
  BY <1>3, LimitAssumption DEF TypeOK
<1> QED
  BY <1>3, <1>4, <1>5, <1>6, <1>7, <1>8, <1>9 DEF TypeOK

LEMMA MonitorType ==
    ASSUME TypeOK, Tick \/ Subscribe \/ Replay \/ Stream
    PROVE  TypeOK'
<1>1. CASE Tick
  <2>1. now' \in Time
    BY <1>1, LimitAssumption DEF Tick, TypeOK, Time
  <2> QED
    BY <1>1, <2>1 DEF Tick, TypeOK
<1>2. CASE Subscribe
  <2>1. monitor' \in MonitorState
    BY <1>2 DEF Subscribe, TypeOK, MonitorState
  <2> QED
    BY <1>2, <2>1 DEF Subscribe, TypeOK
<1>3. CASE Replay
  <2>1. monitor' \in MonitorState
    <3>1. monitor \in MonitorState /\ monitor.read + 1 \in Nat
      BY DEF TypeOK, MonitorState
    <3>2. monitor.got \cup {monitor.read + 1} \in SUBSET Nat
      BY <3>1 DEF MonitorState
    <3>3. CASE monitor.read < Len(events)
      BY <1>3, <3>1, <3>2, <3>3 DEF Replay, MonitorState
    <3>4. CASE ~ monitor.read < Len(events)
      BY <1>3, <3>1, <3>4 DEF Replay, MonitorState
    <3> QED
      BY <3>3, <3>4
  <2> QED
    BY <1>3, <2>1 DEF Replay, TypeOK
<1>4. CASE Stream
  <2>1. monitor.queue \in Seq(Nat)
    BY DEF TypeOK, MonitorState
  <2>2. Tail(monitor.queue) \in Seq(Nat) /\ Head(monitor.queue) \in Nat
    BY <1>4, <2>1, HeadTailProperties DEF Stream
  <2>3. monitor' \in MonitorState
    BY <1>4, <2>2 DEF Stream, TypeOK, MonitorState
  <2> QED
    BY <1>4, <2>3 DEF Stream, TypeOK
<1> QED
  BY <1>1, <1>2, <1>3, <1>4

LEMMA TypeStep == TypeOK /\ [Next]_vars => TypeOK'
<1>1. TypeOK /\ UNCHANGED vars => TypeOK'
  BY DEF TypeOK, vars
<1> QED
  BY <1>1, OfferType, PeerType, DisconnectType, AnalyseType, MonitorType DEF Next

(***************************************************************************)
(* The stream.                                                             *)
(***************************************************************************)
LEMMA StreamSame == StreamInv /\ UNCHANGED <<monitor, events>> => StreamInv'
BY DEF StreamInv, Seen

LEMMA StreamAnalyse ==
    ASSUME TypeOK, StreamInv, NEW p \in Peer, Analyse(p)
    PROVE  StreamInv'
<1> DEFINE new == Emitted(Conditions(peer[p].frame))
<1>1. new \in SUBSET Alert /\ Broadcast(new)
  BY AlertsOf, EmittedAre DEF Analyse, TypeOK, PeerState
<1> HIDE DEF new
<1>2. /\ Len(events') \in Nat /\ Len(events) \in Nat
      /\ monitor' = [monitor EXCEPT !.queue = monitor'.queue]
      /\ Seen(monitor.queue) \subseteq Seen(monitor'.queue)
      /\ monitor.subscribed =>
            Seen(monitor.queue) \cup (Len(events) + 1 .. Len(events')) \subseteq Seen(monitor'.queue)
  BY <1>1, BroadcastAdds
<1>3. /\ monitor'.state = monitor.state /\ monitor'.subscribed = monitor.subscribed
      /\ monitor'.read = monitor.read /\ monitor'.got = monitor.got
  BY <1>2 DEF TypeOK, MonitorState
<1>4. ASSUME monitor.state \in {"replay", "live"}, Ended \notin Seen(monitor.queue),
             NEW n \in 1 .. Len(events')
      PROVE  \/ n \in monitor.got \cup Seen(monitor'.queue)
             \/ monitor.state = "replay" /\ n > monitor.read
  <2>1. n \in 1 .. Len(events) \/ n \in Len(events) + 1 .. Len(events')
    BY <1>2
  <2> QED
    BY <1>2, <1>4, <2>1 DEF StreamInv
<1>5. ASSUME monitor'.state \in {"replay", "live"}, Ended \notin Seen(monitor'.queue)
      PROVE  /\ monitor'.subscribed
             /\ \A n \in 1 .. Len(events') : \/ n \in monitor'.got \cup Seen(monitor'.queue)
                                             \/ monitor'.state = "replay" /\ n > monitor'.read
  BY <1>2, <1>3, <1>4, <1>5 DEF StreamInv
<1> QED
  BY <1>3, <1>5 DEF StreamInv, Seen, Ended

LEMMA StreamCleanedUp ==
    ASSUME TypeOK, StreamInv, NEW p \in Peer, CleanedUp(p)
    PROVE  StreamInv'
<1>1. /\ events' = << >> /\ monitor \in MonitorState /\ monitor.queue \in Seq(Nat)
      /\ monitor' = [monitor EXCEPT !.queue = IF monitor.subscribed THEN Append(@, Ended) ELSE @,
                                    !.subscribed = FALSE]
  BY DEF CleanedUp, TypeOK, MonitorState
<1>2. /\ monitor'.state = monitor.state /\ monitor'.subscribed = FALSE
      /\ monitor'.read = monitor.read
      /\ monitor.subscribed => monitor'.queue = Append(monitor.queue, Ended)
      /\ ~ monitor.subscribed => monitor'.queue = monitor.queue
  BY <1>1 DEF MonitorState
<1>3. Ended \in Seen(Append(monitor.queue, Ended))
  <2> DEFINE q == Append(monitor.queue, Ended)
             l == Len(monitor.queue) + 1
  <2>1. l \in DOMAIN q /\ q[l] = Ended
    BY <1>1
  <2> HIDE DEF q, l
  <2> QED
    BY <2>1 DEF Seen, q
<1>4. monitor.state \in {"replay", "live"} => Ended \in Seen(monitor'.queue)
  <2>1. CASE monitor.subscribed
    BY <1>2, <1>3, <2>1
  <2>2. CASE ~ monitor.subscribed
    BY <1>2, <2>2 DEF StreamInv
  <2> QED
    BY <2>1, <2>2
<1>5. monitor.state = "off" => ~ monitor'.subscribed /\ monitor'.read = 0
  BY <1>2 DEF StreamInv
<1> QED
  BY <1>2, <1>4, <1>5 DEF StreamInv, Seen, Ended

LEMMA StreamSubscribe == ASSUME TypeOK, StreamInv, Subscribe PROVE StreamInv'
<1>1. /\ monitor.state = "off" /\ monitor \in MonitorState /\ events \in Seq(Alert)
      /\ monitor' = [monitor EXCEPT !.state = "replay", !.subscribed = TRUE]
      /\ events' = events
  BY DEF Subscribe, TypeOK
<1>2. /\ monitor'.state = "replay" /\ monitor'.subscribed /\ monitor'.read = 0
  BY <1>1 DEF MonitorState, StreamInv
<1>3. \A n \in 1 .. Len(events) : n > monitor'.read
  BY <1>1, <1>2
<1> QED
  BY <1>1, <1>2, <1>3 DEF StreamInv

LEMMA StreamReplay == ASSUME TypeOK, StreamInv, Replay PROVE StreamInv'
<1>1. /\ monitor.state = "replay" /\ monitor \in MonitorState /\ monitor.read \in Nat
      /\ events \in Seq(Alert) /\ Len(events) \in Nat /\ events' = events
  BY DEF Replay, TypeOK, MonitorState
<1>2. CASE monitor.read < Len(events)
  <2>1. monitor' = [monitor EXCEPT !.read = @ + 1, !.got = @ \cup {monitor.read + 1}]
    BY <1>1, <1>2 DEF Replay
  <2>2. /\ monitor'.state = "replay" /\ monitor'.subscribed = monitor.subscribed
        /\ monitor'.read = monitor.read + 1 /\ monitor'.got = monitor.got \cup {monitor.read + 1}
        /\ monitor'.queue = monitor.queue
    BY <1>1, <2>1 DEF MonitorState
  <2>3. \A n \in 1 .. Len(events) : n > monitor.read => n > monitor.read + 1 \/ n = monitor.read + 1
    BY <1>1
  <2> QED
    BY <1>1, <2>2, <2>3 DEF StreamInv, Seen
<1>3. CASE ~ monitor.read < Len(events)
  <2>1. monitor' = [monitor EXCEPT !.state = "live"]
    BY <1>1, <1>3 DEF Replay
  <2>2. /\ monitor'.state = "live" /\ monitor'.subscribed = monitor.subscribed
        /\ monitor'.read = monitor.read /\ monitor'.got = monitor.got
        /\ monitor'.queue = monitor.queue
    BY <1>1, <2>1 DEF MonitorState
  <2>3. \A n \in 1 .. Len(events) : ~ n > monitor.read
    BY <1>1, <1>3
  <2> QED
    BY <1>1, <2>2, <2>3 DEF StreamInv, Seen
<1> QED
  BY <1>2, <1>3

LEMMA StreamStream == ASSUME TypeOK, StreamInv, Stream PROVE StreamInv'
<1> DEFINE q == monitor.queue
<1>1. /\ monitor.state = "live" /\ monitor \in MonitorState /\ q \in Seq(Nat) /\ q # << >>
      /\ events' = events
      /\ monitor' = [monitor EXCEPT !.queue = Tail(@),
                                    !.got = @ \cup {Head(monitor.queue)},
                                    !.state = IF Head(monitor.queue) = Ended THEN "told" ELSE @]
  BY DEF Stream, TypeOK, MonitorState
<1>2. /\ monitor'.state = IF Head(q) = Ended THEN "told" ELSE "live"
      /\ monitor'.subscribed = monitor.subscribed
      /\ monitor'.got = monitor.got \cup {Head(q)} /\ monitor'.queue = Tail(q)
  BY <1>1 DEF MonitorState
<1>3. ASSUME NEW x \in Seen(q) PROVE x = Head(q) \/ x \in Seen(Tail(q))
  <2>1. PICK i \in 1 .. Len(q) : x = q[i]
    BY <1>1, <1>3 DEF Seen
  <2>2. CASE i = 1
    BY <1>1, <2>1, <2>2
  <2>3. CASE i # 1
    <3>1. Tail(q) \in Seq(Nat) /\ Len(Tail(q)) = Len(q) - 1
      BY <1>1, HeadTailProperties
    <3>2. i - 1 \in 1 .. Len(Tail(q)) /\ Tail(q)[i - 1] = q[i]
      BY <1>1, <2>3, <3>1
    <3>3. i - 1 \in DOMAIN Tail(q)
      <4> DEFINE t == Tail(q)
      <4> HIDE DEF t
      <4>1. t \in Seq(Nat) /\ i - 1 \in 1 .. Len(t)
        BY <3>1, <3>2 DEF t
      <4>2. i - 1 \in DOMAIN t
        BY <4>1
      <4> QED
        BY <4>2 DEF t
    <3> QED
      BY <2>1, <3>2, <3>3 DEF Seen
  <2> QED
    BY <2>2, <2>3
<1>4. CASE Head(q) = Ended
  BY <1>2, <1>4 DEF StreamInv, Seen
<1>5. CASE Head(q) # Ended
  BY <1>1, <1>2, <1>3, <1>5 DEF StreamInv
<1> QED
  BY <1>4, <1>5

LEMMA StreamStep == TypeOK /\ StreamInv /\ [Next]_vars => StreamInv'
<1> SUFFICES ASSUME TypeOK, StreamInv, [Next]_vars
             PROVE  StreamInv'
  OBVIOUS
<1>1. CASE UNCHANGED <<monitor, events>>
  BY <1>1, StreamSame
<1>2. CASE \E p \in Peer : Analyse(p) \/ CleanedUp(p)
  BY <1>2, StreamAnalyse, StreamCleanedUp
<1>3. CASE Subscribe \/ Replay \/ Stream
  BY <1>3, StreamSubscribe, StreamReplay, StreamStream
<1>4. \/ UNCHANGED <<monitor, events>> \/ Subscribe \/ Replay \/ Stream
      \/ \E p \in Peer : Analyse(p) \/ CleanedUp(p)
  BY DEF Next, vars, Offer, Evicted, Answered, Lose, OnConnectionStateChange, CleanupRaises,
         Receive, YoloError, Disconnect, Tick
<1> QED
  BY <1>1, <1>2, <1>3, <1>4

(***************************************************************************)
(* The alerts.                                                             *)
(***************************************************************************)
LEMMA AlertFresh ==
    ASSUME policy' = NoPolicy, scenes' = Unwatched
    PROVE  AlertInv'
BY LimitAssumption DEF AlertInv, AlertIsTrue, NoPolicy, Unwatched, Never

LEMMA AlertSame == AlertInv /\ UNCHANGED <<policy, scenes>> => AlertInv'
BY DEF AlertInv, AlertIsTrue

LEMMA AlertAnalyse ==
    ASSUME TypeOK, AlertInv, NEW p \in Peer, Analyse(p)
    PROVE  AlertInv'
<1> DEFINE held == Conditions(peer[p].frame)
<1>1. held \in SUBSET Alert
  BY AlertsOf DEF Analyse, TypeOK, PeerState
<1>2. /\ policy' = NextPolicy(held)
      /\ scenes' = [a \in Alert |-> Watched(a, held)]
  BY DEF Analyse
<1> HIDE DEF held
<1> SUFFICES ASSUME NEW a \in Alert
             PROVE  AlertIsTrue(a)'
  BY DEF AlertInv
<1> DEFINE w == scenes[a]
<1>3. /\ policy \in PolicyState /\ w \in Watch /\ now \in Nat /\ now # Never
      /\ w.held \in Nat /\ policy.streak[a] \in Nat /\ Streak \in Nat \ {0} /\ Cooldown \in Nat
      /\ policy.emitted[a] \in Nat \cup {Never} /\ w.since \in Nat \cup {Never}
  BY LimitAssumption DEF TypeOK, PolicyState, Watch, Time, Never
<1>4. AlertIsTrue(a)
  BY DEF AlertInv
<1>5. /\ policy'.streak[a] = NextStreak(a, a \in held)
      /\ a \in policy'.active <=> (a \in policy.active /\ a \in held) \/ a \in Emitted(held)
      /\ policy'.emitted[a] = IF a \in Emitted(held) THEN now ELSE policy.emitted[a]
      /\ scenes'[a] = Watched(a, held)
  BY <1>2 DEF NextPolicy
<1>6. CASE a \notin held
  BY <1>3, <1>5, <1>6 DEF AlertIsTrue, NextStreak, Watched, Unwatched, Emitted, Never
<1>7. CASE a \in held
  <2>1. /\ policy'.streak[a] = w.held + 1 /\ scenes'[a].held = w.held + 1
        /\ scenes'[a].since = IF a \in Emitted(held) THEN now ELSE w.since
        /\ scenes'[a].seen = now
        /\ a \in Emitted(held) <=> w.held + 1 >= Streak /\ ShouldEmit(a)
    BY <1>4, <1>5, <1>7 DEF NextStreak, Watched, Emitted, AlertIsTrue
  <2>2. CASE a \in Emitted(held)
    <3>1. now - now = 0 /\ w.held + 1 >= Streak
      BY <1>3, <2>1, <2>2
    <3> QED
      BY <1>3, <1>5, <2>1, <2>2, <3>1 DEF AlertIsTrue
  <2>3. CASE a \notin Emitted(held) /\ w.held + 1 < Streak
    <3>1. w.since = Never /\ a \notin policy.active
      BY <1>3, <1>4, <2>3 DEF AlertIsTrue
    <3> QED
      BY <1>3, <1>5, <2>1, <2>3, <3>1 DEF AlertIsTrue
  <2>4. CASE a \notin Emitted(held) /\ w.held + 1 >= Streak
    <3>1. a \in policy.active /\ policy.emitted[a] # Never /\ now - policy.emitted[a] < Cooldown
      BY <1>3, <2>1, <2>4 DEF ShouldEmit, Never
    <3>2. w.since # Never /\ policy.emitted[a] = w.since
      BY <1>4, <3>1 DEF AlertIsTrue
    <3> QED
      BY <1>3, <1>5, <1>7, <2>1, <2>4, <3>1, <3>2 DEF AlertIsTrue
  <2> QED
    BY <1>3, <2>2, <2>3, <2>4
<1> QED
  BY <1>6, <1>7

LEMMA AlertStep ==
    TypeOK /\ RegistryInv /\ AlertInv /\ [Next]_vars => amiss' \/ AlertInv'
<1> SUFFICES ASSUME TypeOK, RegistryInv, AlertInv, [Next]_vars, ~ amiss'
             PROVE  AlertInv'
  OBVIOUS
<1>1. CASE UNCHANGED <<policy, scenes>>
  BY <1>1, AlertSame
<1>2. CASE \E p \in Peer : Analyse(p)
  BY <1>2, AlertAnalyse
<1>3. CASE \E p \in Peer : CleanedUp(p)
  BY <1>3, AlertFresh DEF CleanedUp
<1>4. CASE \E p \in Peer : Offer(p) /\ registered = NoPeer
  BY <1>4, AlertFresh DEF Offer, RegistryInv
<1>5. \/ UNCHANGED <<policy, scenes>>
      \/ \E p \in Peer : Analyse(p) \/ CleanedUp(p) \/ (Offer(p) /\ registered = NoPeer)
  BY DEF Next, vars, Offer, Evicted, Answered, Lose, OnConnectionStateChange, CleanupRaises,
         Receive, YoloError, Disconnect, Tick, Subscribe, Replay, Stream
<1> QED
  BY <1>1, <1>2, <1>3, <1>4, <1>5

(***************************************************************************)
(* The registry.                                                           *)
(***************************************************************************)
LEMMA NowRegistered ==
    ASSUME NEW p \in Peer, pcs' = {p}, registered' = p, identity' = TRUE,
           peer'[p].offer = "negotiating",
           \A q \in Peer : ~ Busy(q)' /\ peer'[q].offer # "refused"
    PROVE  RegistryInv'
<1>1. ~ Suspended' /\ registered' # NoPeer
  BY PeerAssumption DEF Suspended, Busy
<1>2. \A q \in Peer : ~ peer'[q].cleans /\ peer'[q].offer # "evicting"
  BY DEF Busy
<1>3. pcs' = {registered'} /\ peer'[registered'].offer \in {"negotiating", "answered"}
  OBVIOUS
<1> QED
  BY <1>1, <1>2, <1>3, Zenon DEF RegistryInv

LEMMA RegistryOffer ==
    ASSUME TypeOK, RegistryInv, NEW p \in Peer, Offer(p), ~ amiss'
    PROVE  RegistryInv'
<1>1. ~ Suspended /\ peer[p].offer = "none" /\ peer \in [Peer -> PeerState] /\ policy' = policy
  BY DEF Offer, TypeOK
<1>2. \A q \in Peer : ~ Busy(q)
  BY <1>1 DEF Suspended, Busy
<1>3. CASE registered = NoPeer
  <2>1. pcs = {}
    BY <1>1, <1>3 DEF RegistryInv
  <2>2. ~ Cardinality(pcs) >= MaxConnections
    BY <2>1, FS_EmptySet, LimitAssumption
  <2>3. /\ peer' = [peer EXCEPT ![p].offer = "negotiating", ![p].waits = NoPeer,
                                ![p].link = "open"]
        /\ pcs' = {p} /\ registered' = p /\ identity' = TRUE
    BY <1>3, <2>1, <2>2 DEF Offer, Register
  <2>4. \A q \in Peer : /\ peer'[q].offer = IF q = p THEN "negotiating" ELSE peer[q].offer
                        /\ peer'[q].cleans = peer[q].cleans
    BY <1>1, <2>3 DEF PeerState
  <2>5. \A q \in Peer : ~ Busy(q)' /\ peer'[q].offer # "refused"
    BY <1>2, <2>4 DEF Busy, RegistryInv
  <2> QED
    BY <2>3, <2>4, <2>5, NowRegistered
<1>4. CASE registered # NoPeer
  <2>1. registered \in Peer /\ pcs = {registered}
    BY <1>4 DEF TypeOK, RegistryInv
  <2>2. /\ peer' = [peer EXCEPT ![p].offer = "evicting", ![p].waits = registered]
        /\ registered' = NoPeer /\ pcs' = {}
    BY <1>4, <2>1 DEF Offer
  <2>3. \A q \in Peer : /\ peer'[q].offer = IF q = p THEN "evicting" ELSE peer[q].offer
                        /\ peer'[q].cleans = peer[q].cleans
    BY <1>1, <2>2 DEF PeerState
  <2>4. \A q \in Peer : Busy(q)' <=> q = p
    BY <1>2, <2>3 DEF Busy
  <2>5. Suspended'
    BY <2>3 DEF Suspended
  <2>6. \A q \in Peer : ~ peer'[q].cleans
    BY <1>2, <2>3 DEF Busy
  <2>7. \A q \in Peer : peer'[q].offer # "refused"
    BY <2>3 DEF RegistryInv
  <2>8. \A q, r \in Peer : Busy(q)' /\ Busy(r)' => q = r
    BY <2>4
  <2> QED
    BY <2>2, <2>5, <2>6, <2>7, <2>8 DEF RegistryInv
<1> QED
  BY <1>3, <1>4

LEMMA RegistryEvicted ==
    ASSUME TypeOK, RegistryInv, NEW p \in Peer, Evicted(p)
    PROVE  RegistryInv'
<1> DEFINE before == [peer EXCEPT ![peer[p].waits].link = "gone"]
<1>1. /\ peer[p].offer = "evicting" /\ peer \in [Peer -> PeerState] /\ Register(p, before)
  BY DEF Evicted, TypeOK
<1>2. /\ before \in [Peer -> PeerState]
      /\ \A q \in Peer : before[q].offer = peer[q].offer /\ before[q].cleans = peer[q].cleans
  BY <1>1 DEF PeerState
<1> HIDE DEF before
<1>3. /\ pcs = {} /\ ~ Cardinality(pcs) >= MaxConnections
      /\ \A q \in Peer \ {p} : ~ Busy(q)
      /\ ~ peer[p].cleans
  BY <1>1, FS_EmptySet, LimitAssumption DEF RegistryInv, Busy
<1>4. /\ peer' = [before EXCEPT ![p].offer = "negotiating", ![p].waits = NoPeer,
                                ![p].link = "open"]
      /\ pcs' = {p} /\ registered' = p /\ identity' = TRUE
  BY <1>1, <1>3 DEF Register
<1>5. \A q \in Peer : /\ peer'[q].offer = IF q = p THEN "negotiating" ELSE peer[q].offer
                      /\ peer'[q].cleans = peer[q].cleans
  BY <1>2, <1>4 DEF PeerState
<1>6. \A q \in Peer : ~ Busy(q)' /\ peer'[q].offer # "refused"
  BY <1>3, <1>5 DEF Busy, RegistryInv
<1> QED
  BY <1>4, <1>5, <1>6, NowRegistered

\* A step that leaves offers and clean-ups alone.
LEMMA RegistryKept ==
    ASSUME TypeOK, RegistryInv,
           \A p \in Peer : peer'[p].offer = peer[p].offer /\ peer'[p].cleans = peer[p].cleans,
           UNCHANGED <<registered, pcs, identity>>,
           registered # NoPeer \/ UNCHANGED <<policy, scenes>>
    PROVE  RegistryInv'
BY DEF RegistryInv, Suspended, Busy, TypeOK

LEMMA RegistryAnswered ==
    ASSUME TypeOK, RegistryInv, NEW p \in Peer, Answered(p)
    PROVE  RegistryInv'
<1>1. /\ peer[p].offer = "negotiating" /\ peer \in [Peer -> PeerState]
      /\ UNCHANGED <<registered, pcs, identity, policy, scenes>>
  BY DEF Answered, TypeOK
<1>2. \A q \in Peer : /\ peer'[q].offer = IF q = p THEN "answered" ELSE peer[q].offer
                      /\ peer'[q].cleans = peer[q].cleans
  BY <1>1 DEF Answered, PeerState
<1>3. \A q \in Peer : Busy(q)' <=> Busy(q)
  BY <1>1, <1>2 DEF Busy
<1>4. Suspended' <=> Suspended
  BY <1>3 DEF Suspended, Busy
<1> QED
  BY <1>1, <1>2, <1>3, <1>4 DEF RegistryInv, TypeOK

\* The registered peer is taken off to be cleaned up.
LEMMA RegistryCleanup ==
    ASSUME TypeOK, RegistryInv, registered # NoPeer, StartCleanup(peer),
           UNCHANGED <<pcs, identity, policy, scenes>>
    PROVE  RegistryInv'
<1>1. /\ registered \in Peer /\ peer \in [Peer -> PeerState] /\ pcs = {registered}
      /\ ~ Suspended /\ peer[registered].offer \in {"negotiating", "answered"}
  BY DEF TypeOK, RegistryInv
<1>2. /\ registered' = NoPeer
      /\ \A q \in Peer : /\ peer'[q].offer = peer[q].offer
                         /\ peer'[q].cleans = IF q = registered THEN TRUE ELSE peer[q].cleans
  BY <1>1 DEF StartCleanup, PeerState
<1>3. \A q \in Peer : ~ peer[q].cleans /\ peer[q].offer # "evicting"
  BY <1>1 DEF Suspended
<1>4. \A q \in Peer : Busy(q)' <=> q = registered
  BY <1>2, <1>3 DEF Busy
<1>5. Suspended'
  BY <1>1, <1>2 DEF Suspended
<1> QED
  BY <1>1, <1>2, <1>3, <1>4, <1>5 DEF RegistryInv

LEMMA RegistryCleanedUp ==
    ASSUME TypeOK, RegistryInv, NEW p \in Peer, CleanedUp(p)
    PROVE  RegistryInv'
<1>1. /\ peer[p].cleans /\ peer \in [Peer -> PeerState] /\ registered' = registered
      /\ pcs' = pcs \ {p} /\ policy' = NoPolicy /\ scenes' = Unwatched
  BY DEF CleanedUp, TypeOK
<1>2. pcs' = {} /\ registered = NoPeer /\ \A q \in Peer \ {p} : ~ Busy(q)
  BY <1>1 DEF RegistryInv, Suspended, Busy
<1>3. \A q \in Peer : /\ peer'[q].offer = peer[q].offer
                      /\ peer'[q].cleans = IF q = p THEN FALSE ELSE peer[q].cleans
  BY <1>1 DEF CleanedUp, PeerState
<1>4. \A q \in Peer : ~ Busy(q)'
  BY <1>1, <1>2, <1>3 DEF Busy, RegistryInv
<1> QED
  BY <1>1, <1>2, <1>3, <1>4 DEF RegistryInv, Busy

LEMMA RegistryStep == TypeOK /\ RegistryInv /\ [Next]_vars => amiss' \/ RegistryInv'
<1> SUFFICES ASSUME TypeOK, RegistryInv, [Next]_vars, ~ amiss'
             PROVE  RegistryInv'
  OBVIOUS
<1>1. CASE \E p \in Peer : Offer(p) \/ Evicted(p) \/ Answered(p) \/ CleanedUp(p)
  BY <1>1, RegistryOffer, RegistryEvicted, RegistryAnswered, RegistryCleanedUp
<1>2. ASSUME NEW p \in Peer, Lose(p) \/ Receive(p) \/ YoloError(p) \/ Analyse(p)
      PROVE  RegistryInv'
  <2>1. \A q \in Peer : peer'[q].offer = peer[q].offer /\ peer'[q].cleans = peer[q].cleans
    BY <1>2 DEF Lose, Receive, YoloError, Analyse, TypeOK, PeerState
  <2>2. UNCHANGED <<registered, pcs, identity>>
    BY <1>2 DEF Lose, Receive, YoloError, Analyse
  <2>3. registered # NoPeer \/ UNCHANGED <<policy, scenes>>
    BY <1>2 DEF Lose, Receive, YoloError, Analyse
  <2> QED
    BY <2>1, <2>2, <2>3, RegistryKept
<1>3. ASSUME NEW p \in Peer, OnConnectionStateChange(p)
      PROVE  RegistryInv'
  <2>1. CASE registered = p
    <3>1. registered # NoPeer
      BY <2>1, PeerAssumption
    <3> QED
      BY <1>3, <2>1, <3>1, RegistryCleanup DEF OnConnectionStateChange
  <2>2. CASE registered # p
    <3>1. \A q \in Peer : peer'[q].offer = peer[q].offer /\ peer'[q].cleans = peer[q].cleans
      BY <1>3, <2>2 DEF OnConnectionStateChange, TypeOK, PeerState
    <3> QED
      BY <1>3, <2>2, <3>1, RegistryKept DEF OnConnectionStateChange
  <2> QED
    BY <2>1, <2>2
<1>4. CASE Disconnect
  BY <1>4, RegistryCleanup DEF Disconnect
<1>5. CASE Tick \/ Subscribe \/ Replay \/ Stream \/ UNCHANGED vars
  <2>1. UNCHANGED <<peer, registered, pcs, identity, policy, scenes>>
    BY <1>5 DEF Tick, Subscribe, Replay, Stream, vars
  <2> QED
    BY <2>1, RegistryKept
<1>6. CASE \E p \in Peer : CleanupRaises(p)
  BY <1>6 DEF CleanupRaises
<1> QED
  BY <1>1, <1>2, <1>3, <1>4, <1>5, <1>6 DEF Next

(***************************************************************************)
(* The theorems.                                                           *)
(***************************************************************************)
LEMMA InitIInv == Init => IInv
<1> SUFFICES ASSUME Init PROVE IInv
  OBVIOUS
<1>1. TypeOK
  BY InitType
<1>2. StreamInv
  BY DEF Init, StreamInv
<1>3. RegistryInv
  BY DEF Init, RegistryInv, Busy
<1>4. AlertInv
  BY LimitAssumption DEF Init, AlertInv, AlertIsTrue, NoPolicy, Unwatched, Never
<1> QED
  BY <1>1, <1>2, <1>3, <1>4 DEF IInv

LEMMA AmissStays == [Next]_vars /\ amiss => amiss'
BY DEF Next, vars, Offer, Evicted, Answered, Lose, OnConnectionStateChange, CleanedUp,
       CleanupRaises, Receive, YoloError, Analyse, Disconnect, Tick, Subscribe, Replay, Stream

LEMMA IInvHolds == Spec => []IInv
<1>1. IInv /\ [Next]_vars => IInv'
  BY TypeStep, StreamStep, RegistryStep, AlertStep, AmissStays DEF IInv
<1> QED
  BY <1>1, InitIInv, PTL DEF Spec

\* Whatever the handlers of the peers do to each other, the state is typed.
THEOREM TypeCorrect == Spec => []TypeOK
<1>1. IInv => TypeOK
  BY DEF IInv
<1> QED
  BY <1>1, IInvHolds, PTL

\* For any limit of connections, a student who reconnects is not refused because
\* of the peer that the reconnect replaces, and is registered with all that goes
\* with it.
THEOREM ReconnectsAreWhole == Spec => []ReconnectIsWhole
<1>1. IInv => ReconnectIsWhole
  BY DEF IInv, RegistryInv, ReconnectIsWhole
<1> QED
  BY <1>1, IInvHolds, PTL

\* For any streak and any cooldown, a condition is reported exactly when it has
\* held for the streak, and again once per cooldown.
THEOREM AlertsAreTrue == Spec => []AlertsFollowTheScene
<1>1. IInv => AlertsFollowTheScene
  BY DEF IInv, AlertInv, AlertIsTrue, AlertsFollowTheScene
<1> QED
  BY <1>1, IInvHolds, PTL

\* However replay and live events interleave, a monitor that has read all it was
\* sent has seen the whole log.
THEOREM MonitorSeesAll == Spec => []MonitorMissesNothing
<1>1. IInv => MonitorMissesNothing
  BY DEF IInv, StreamInv, Seen, MonitorMissesNothing
<1> QED
  BY <1>1, IInvHolds, PTL
=============================================================================
