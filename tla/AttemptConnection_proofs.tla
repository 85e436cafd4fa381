---------------------- MODULE AttemptConnection_proofs ----------------------
(***************************************************************************)
(* Proofs about AttemptConnection, for every set of connections and        *)
(* prompts and every kind of trouble: who is registered, and what the      *)
(* student hears.                                                          *)
(***************************************************************************)
EXTENDS AttemptConnection, TLAPS

\* While connections are opened one after the other, nobody is registered while
\* one is starting, and whoever is live is registered.
OneAfterTheOther ==
    /\ OnlyRegistered
    /\ \A c, d \in Conn : conn[c].pc = "starting" =>
                             /\ registry = NoConn
                             /\ conn[d].pc = "starting" => c = d

\* The inductive invariant.
IInv ==
    /\ TypeOK
    /\ RegisteredIsLive
    /\ "overlap" \notin met => OneAfterTheOther

-----------------------------------------------------------------------------
(* Speaking keeps the table of connections, and who is live *)

\* _speak leaves every connection of the table as it is but for the speaker's
\* handler, sequence number and outbox.
LEMMA SpokenLemma ==
    ASSUME conn \in [Conn -> Connection], NEW c \in Conn, NEW p \in Text, NEW r \in BOOLEAN
    PROVE  /\ Spoken(c, p, r) \in [Conn -> Connection]
           /\ \A d \in Conn : Spoken(c, p, r)[d].pc = conn[d].pc
<1> DEFINE u == [seq |-> conn[c].seq + 1, text |-> p, resumed |-> r]
<1>1. conn[c] \in Connection
  OBVIOUS
<1>2. /\ conn[c].seq + 1 \in Nat
      /\ u \in Utterance
      /\ Append(conn[c].outbox, u) \in Seq(Utterance)
  BY <1>1 DEF Connection, Utterance
<1> HIDE DEF u
<1>3. [conn[c] EXCEPT !.busy = "no", !.inbox = "none", !.seq = conn[c].seq + 1,
                      !.outbox = Append(conn[c].outbox, u)] \in Connection
  BY <1>1, <1>2 DEF Connection, Frame
<1>4. Spoken(c, p, r) = [conn EXCEPT ![c] =
          [conn[c] EXCEPT !.busy = "no", !.inbox = "none", !.seq = conn[c].seq + 1,
                          !.outbox = Append(conn[c].outbox, u)]]
  BY DEF Spoken, u
<1>5. [conn[c] EXCEPT !.busy = "no", !.inbox = "none", !.seq = conn[c].seq + 1,
                      !.outbox = Append(conn[c].outbox, u)].pc = conn[c].pc
  BY <1>1 DEF Connection
<1>6. QED
  BY <1>3, <1>4, <1>5

\* Before the first connection the invariant holds.
LEMMA InitIInv == Init => IInv
<1> SUFFICES ASSUME Init PROVE IInv
  OBVIOUS
<1>1. Unopened \in Connection
  BY DEF Unopened, Connection, Frame, Text
<1>2. TypeOK
  <2>1. conn \in [Conn -> Connection]
    BY <1>1 DEF Init
  <2>2. heard \in Utterance
    BY DEF Init, Utterance, Text
  <2>3. 0 \in 0 .. MaxFrames
    BY FramesAssumption
  <2>4. QED
    BY <2>1, <2>2, <2>3 DEF Init, TypeOK, Text
<1>3. \A c \in Conn : conn[c].pc = "new"
  BY DEF Init, Unopened
<1>4. QED
  BY <1>2, <1>3 DEF Init, IInv, RegisteredIsLive, OneAfterTheOther, OnlyRegistered

-----------------------------------------------------------------------------
(* The invariant is kept *)

\* Every action keeps the invariant, one step of the proof per action.
LEMMA InvariantStep == IInv /\ [Next]_vars => IInv'
<1> SUFFICES ASSUME IInv, [Next]_vars PROVE IInv'
  OBVIOUS
<1>1. /\ registry \in Conn \cup {NoConn} /\ client \in Conn \cup {NoConn}
      /\ conn \in [Conn -> Connection] /\ heard \in Utterance
      /\ skipped \in Text /\ frames \in 0 .. MaxFrames /\ ended \in BOOLEAN
      /\ met \subseteq Troubles /\ Trouble \subseteq Troubles
      /\ NoConn \notin Conn
  BY NoConnAssumption, TroubleAssumption DEF IInv, TypeOK
\* Most steps touch neither the registry nor the life of a connection.
<1>2. ASSUME TypeOK', registry' = registry, met \subseteq met',
             \A d \in Conn : conn'[d].pc = conn[d].pc
      PROVE  IInv'
  BY <1>1, <1>2 DEF IInv, RegisteredIsLive, OneAfterTheOther, OnlyRegistered
<1>3. registry # NoConn => conn[registry].pc = "live"
  BY DEF IInv, RegisteredIsLive
<1>4. ASSUME NEW c \in Conn, Connect(c) PROVE IInv'
  <2>1. \A x, y \in Connection :
           /\ [x EXCEPT !.pc = "starting"] \in Connection
           /\ [x EXCEPT !.pc = "starting"].pc = "starting"
           /\ [x EXCEPT !.pc = "starting", !.seq = y.seq, !.last = y.last] \in Connection
           /\ [x EXCEPT !.pc = "starting", !.seq = y.seq, !.last = y.last].pc = "starting"
           /\ [x EXCEPT !.pc = "evicted", !.session = FALSE] \in Connection
           /\ [x EXCEPT !.pc = "evicted", !.session = FALSE].pc = "evicted"
    BY DEF Connection
  <2>2. \A d \in Conn : /\ d = c => conn'[d].pc = "starting"
                        /\ d # c /\ d = registry => conn'[d].pc = "evicted"
                        /\ d # c /\ d # registry => conn'[d] = conn[d]
    <3>1. conn' = Replaced(c)
      BY <1>4 DEF Connect
    <3>2. conn'[c] = Opened(c)
      BY <3>1 DEF Replaced
    <3>3. Opened(c).pc = "starting"
      <4>1. CASE registry = NoConn
        BY <1>1, <2>1, <4>1 DEF Opened
      <4>2. CASE registry \in Conn
        BY <1>1, <2>1, <4>2 DEF Opened
      <4>3. QED
        BY <1>1, <4>1, <4>2
    <3>4. \A d \in Conn : d # c /\ d = registry =>
             conn'[d] = [conn[d] EXCEPT !.pc = "evicted", !.session = FALSE]
      BY <3>1 DEF Replaced
    <3>5. \A d \in Conn : d # c /\ d # registry => conn'[d] = conn[d]
      BY <3>1 DEF Replaced
    <3>6. \A d \in Conn : [conn[d] EXCEPT !.pc = "evicted", !.session = FALSE].pc = "evicted"
      BY <1>1 DEF Connection
    <3>7. \A d \in Conn : d # c /\ d = registry => conn'[d].pc = "evicted"
      BY <3>4, <3>6
    <3>8. QED
      BY <3>2, <3>3, <3>5, <3>7
  <2>3. conn' \in [Conn -> Connection]
    <3>1. Opened(c) \in Connection
      <4>1. CASE registry = NoConn
        BY <1>1, <2>1, <4>1 DEF Opened
      <4>2. CASE registry \in Conn
        BY <1>1, <2>1, <4>2 DEF Opened
      <4>3. QED
        BY <1>1, <4>1, <4>2
    <3>2. Replaced(c) \in [Conn -> Connection]
      BY <1>1, <2>1, <3>1 DEF Replaced
    <3>3. QED
      BY <1>4, <3>2 DEF Connect
  <2>4. TypeOK'
    BY <1>4, <1>1, <2>3 DEF TypeOK, Connect, MayConnect, Meets
  <2>5. registry' = NoConn
    BY <1>4 DEF Connect
  <2>6. ASSUME "overlap" \notin met' PROVE OneAfterTheOther'
    <3>1. (\A d \in Conn : conn[d].pc # "starting") /\ met' = met
      BY <1>4, <2>6 DEF Connect, MayConnect, Meets
    <3>2. \A d \in Conn : conn[d].pc = "live" => d = registry
      BY <1>1, <2>6, <3>1 DEF IInv, OneAfterTheOther, OnlyRegistered
    <3>3. ASSUME NEW d \in Conn
          PROVE  conn'[d].pc # "live" /\ (conn'[d].pc = "starting" => d = c)
      <4>1. CASE d = c
        BY <2>2, <4>1
      <4>2. CASE d # c /\ d = registry
        BY <2>2, <4>2
      <4>3. CASE d # c /\ d # registry
        <5>1. conn'[d] = conn[d]
          BY <2>2, <4>3
        <5>2. conn[d].pc # "starting" /\ conn[d].pc # "live"
          BY <3>1, <3>2, <4>3
        <5>3. QED
          BY <5>1, <5>2
      <4>4. QED
        BY <4>1, <4>2, <4>3
    <3>4. QED
      BY <2>5, <3>3 DEF OneAfterTheOther, OnlyRegistered
  <2>7. QED
    BY <2>4, <2>5, <2>6 DEF IInv, RegisteredIsLive
<1>5. ASSUME NEW c \in Conn, Started(c) PROVE IInv'
  <2>1. /\ conn' \in [Conn -> Connection]
        /\ \A d \in Conn : conn'[d].pc = IF d = c THEN "live" ELSE conn[d].pc
    BY <1>5, <1>1 DEF Started, Connection, Frame
  <2>2. TypeOK'
    BY <1>5, <1>1, <2>1 DEF TypeOK, Started
  <2>3. registry' = c /\ conn[c].pc = "starting" /\ met' = met
    BY <1>5 DEF Started
  <2>4. ASSUME "overlap" \notin met' PROVE OneAfterTheOther'
    BY <1>5, <1>1, <2>1, <2>3, <2>4 DEF IInv, OneAfterTheOther, OnlyRegistered
  <2>5. QED
    BY <2>1, <2>2, <2>3, <2>4 DEF IInv, RegisteredIsLive
<1>6. ASSUME NEW c \in Conn, StartFails(c) PROVE IInv'
  <2>1. /\ conn' \in [Conn -> Connection]
        /\ \A d \in Conn : conn'[d].pc = IF d = c THEN "gone" ELSE conn[d].pc
    BY <1>6, <1>1 DEF StartFails, Connection, Frame
  <2>2. TypeOK'
    BY <1>6, <1>1, <2>1 DEF TypeOK, StartFails, Meets
  <2>3. registry' = registry /\ conn[c].pc = "starting" /\ met \subseteq met'
    BY <1>6 DEF StartFails, Meets
  <2>4. RegisteredIsLive'
    BY <1>1, <1>3, <2>1, <2>3 DEF RegisteredIsLive
  <2>5. ASSUME "overlap" \notin met' PROVE OneAfterTheOther'
    BY <1>1, <2>1, <2>3, <2>5 DEF IInv, OneAfterTheOther, OnlyRegistered
  <2>6. QED
    BY <2>2, <2>4, <2>5 DEF IInv
<1>7. ASSUME NEW c \in Conn, Disconnected(c) PROVE IInv'
  <2>1. /\ conn' \in [Conn -> Connection]
        /\ \A d \in Conn : conn'[d].pc = IF d = c THEN "gone" ELSE conn[d].pc
    <3>1. conn[c] \in Connection
      BY <1>1
    <3>2. /\ [conn[c] EXCEPT !.pc = "gone", !.session = FALSE] \in Connection
          /\ [conn[c] EXCEPT !.pc = "gone", !.session = FALSE].pc = "gone"
      BY <3>1 DEF Connection
    <3>3. conn' = [conn EXCEPT ![c] = [conn[c] EXCEPT !.pc = "gone", !.session = FALSE]]
      BY <1>7 DEF Disconnected
    <3>4. QED
      BY <1>1, <3>2, <3>3
  <2>2. TypeOK'
    BY <1>7, <1>1, <2>1 DEF TypeOK, Disconnected
  <2>3. /\ registry' = IF registry = c THEN NoConn ELSE registry
        /\ conn[c].pc \in {"live", "evicted"} /\ met' = met
    BY <1>7 DEF Disconnected, Idle, Looping
  <2>4. RegisteredIsLive'
    BY <1>1, <1>3, <2>1, <2>3 DEF RegisteredIsLive
  <2>5. ASSUME "overlap" \notin met' PROVE OneAfterTheOther'
    BY <1>1, <2>1, <2>3, <2>5 DEF IInv, OneAfterTheOther, OnlyRegistered
  <2>6. QED
    BY <2>2, <2>4, <2>5 DEF IInv
<1>8. ASSUME NEW c \in Conn, QuestionStart(c) PROVE IInv'
  <2>1. conn[c] \in Connection
    BY <1>1
  <2>2. /\ [conn[c] EXCEPT !.busy = "start", !.session = TRUE] \in Connection
        /\ [conn[c] EXCEPT !.busy = "start", !.session = TRUE].pc = conn[c].pc
    BY <1>8, <2>1 DEF Connection, Frame
  <2>3. conn' = [conn EXCEPT ![c] = [conn[c] EXCEPT !.busy = "start", !.session = TRUE]]
    BY <1>8 DEF QuestionStart
  <2>4. conn' \in [Conn -> Connection] /\ \A d \in Conn : conn'[d].pc = conn[d].pc
    BY <1>1, <2>2, <2>3
  <2>5. TypeOK'
    BY <1>8, <1>1, <2>4 DEF TypeOK, QuestionStart
  <2>6. QED
    BY <1>8, <1>2, <2>4, <2>5 DEF QuestionStart
<1>9. ASSUME NEW c \in Conn, TurnEnd(c) PROVE IInv'
  <2>1. conn[c] \in Connection
    BY <1>1
  <2>2. /\ [conn[c] EXCEPT !.busy = "turn"] \in Connection
        /\ [conn[c] EXCEPT !.busy = "turn"].pc = conn[c].pc
        /\ [conn[c] EXCEPT !.inbox = "none"] \in Connection
        /\ [conn[c] EXCEPT !.inbox = "none"].pc = conn[c].pc
    BY <2>1 DEF Connection, Frame
  <2>3. \/ conn' = [conn EXCEPT ![c] = [conn[c] EXCEPT !.busy = "turn"]]
        \/ conn' = [conn EXCEPT ![c] = [conn[c] EXCEPT !.inbox = "none"]]
    BY <1>9 DEF TurnEnd
  <2>4. conn' \in [Conn -> Connection] /\ \A d \in Conn : conn'[d].pc = conn[d].pc
    BY <1>1, <2>2, <2>3
  <2>5. TypeOK'
    BY <1>9, <1>1, <2>4 DEF TypeOK, TurnEnd
  <2>6. QED
    BY <1>9, <1>2, <2>4, <2>5 DEF TurnEnd
<1>10. ASSUME NEW c \in Conn, Resume(c) PROVE IInv'
  <2>1. conn[c] \in Connection
    BY <1>1
  <2>2. /\ [conn[c] EXCEPT !.busy = "restore"] \in Connection
        /\ [conn[c] EXCEPT !.busy = "restore"].pc = conn[c].pc
    BY <2>1 DEF Connection
  <2>3. conn' = [conn EXCEPT ![c] = [conn[c] EXCEPT !.busy = "restore"]]
    BY <1>10 DEF Resume
  <2>4. conn' \in [Conn -> Connection] /\ \A d \in Conn : conn'[d].pc = conn[d].pc
    BY <1>1, <2>2, <2>3
  <2>5. TypeOK'
    BY <1>10, <1>1, <2>4 DEF TypeOK, Resume
  <2>6. QED
    BY <1>10, <1>2, <2>4, <2>5 DEF Resume
<1>11. ASSUME NEW c \in Conn, ResumeRestored(c) PROVE IInv'
  <2>1. conn[c] \in Connection
    BY <1>1
  <2>2. /\ [conn[c] EXCEPT !.busy = "recover", !.session = TRUE] \in Connection
        /\ [conn[c] EXCEPT !.busy = "recover", !.session = TRUE].pc = conn[c].pc
    BY <1>11, <2>1 DEF Connection, Frame
  <2>3. conn' = [conn EXCEPT ![c] = [conn[c] EXCEPT !.busy = "recover", !.session = TRUE]]
    BY <1>11 DEF ResumeRestored
  <2>4. conn' \in [Conn -> Connection] /\ \A d \in Conn : conn'[d].pc = conn[d].pc
    BY <1>1, <2>2, <2>3
  <2>5. TypeOK'
    BY <1>11, <1>1, <2>4 DEF TypeOK, ResumeRestored
  <2>6. QED
    BY <1>11, <1>2, <2>4, <2>5 DEF ResumeRestored
<1>12. ASSUME NEW c \in Conn, SendSpeak(c) PROVE IInv'
  <2> DEFINE u == Head(conn[c].outbox)
             last == IF u.text = NoPrompt THEN conn[c].last ELSE u.text
  <2>1. conn[c] \in Connection /\ conn[c].outbox \in Seq(Utterance)
    BY <1>1 DEF Connection
  <2>2. u \in Utterance /\ Tail(conn[c].outbox) \in Seq(Utterance)
    BY <1>12, <2>1 DEF SendSpeak
  <2>3. last \in Text
    BY <2>1, <2>2 DEF Utterance, Connection
  <2>4. conn' = [conn EXCEPT ![c] = [conn[c] EXCEPT !.outbox = Tail(conn[c].outbox),
                                                     !.last = last]]
    BY <1>12 DEF SendSpeak
  <2>5. heard' = heard \/ heard' = Hearing(u)
    BY <1>12 DEF SendSpeak
  <2>6. skipped' \in Text
    BY <1>12, <1>1 DEF SendSpeak, Text
  <2> HIDE DEF u, last
  <2>7. heard' \in Utterance
    <3>1. u.seq \in Nat
      BY <2>2 DEF Utterance
    <3>2. [heard EXCEPT !.seq = u.seq, !.resumed = FALSE] \in Utterance
      BY <1>1, <3>1 DEF Utterance
    <3>3. Hearing(u) \in Utterance
      BY <2>2, <3>2 DEF Hearing
    <3>4. QED
      BY <1>1, <2>5, <3>3
  <2>8. /\ [conn[c] EXCEPT !.outbox = Tail(conn[c].outbox), !.last = last] \in Connection
        /\ [conn[c] EXCEPT !.outbox = Tail(conn[c].outbox), !.last = last].pc = conn[c].pc
    BY <2>1, <2>2, <2>3 DEF Connection
  <2>9. conn' \in [Conn -> Connection] /\ \A d \in Conn : conn'[d].pc = conn[d].pc
    BY <1>1, <2>4, <2>8
  <2>10. TypeOK'
    BY <1>12, <1>1, <2>6, <2>7, <2>9 DEF TypeOK, SendSpeak
  <2>11. QED
    BY <1>12, <1>2, <2>9, <2>10 DEF SendSpeak
<1>13. ASSUME NEW c \in Conn, ArchiveDone(c) PROVE IInv'
  <2>1. conn[c] \in Connection
    BY <1>1
  <2>2. /\ [conn[c] EXCEPT !.pending = conn[c].pending - 1] \in Connection
        /\ [conn[c] EXCEPT !.pending = conn[c].pending - 1].pc = conn[c].pc
    BY <1>13, <2>1 DEF Connection, Frame, ArchiveDone
  <2>3. conn' = [conn EXCEPT ![c] = [conn[c] EXCEPT !.pending = conn[c].pending - 1]]
    BY <1>13 DEF ArchiveDone
  <2>4. conn' \in [Conn -> Connection] /\ \A d \in Conn : conn'[d].pc = conn[d].pc
    BY <1>1, <2>2, <2>3
  <2>5. TypeOK'
    BY <1>13, <1>1, <2>4 DEF TypeOK, ArchiveDone
  <2>6. QED
    BY <1>13, <1>2, <2>4, <2>5 DEF ArchiveDone
<1>14. ASSUME NEW c \in Conn, NEW p \in Text, QuestionStarted(c, p) PROVE IInv'
  <2>1. /\ Spoken(c, p, FALSE) \in [Conn -> Connection]
        /\ \A d \in Conn : Spoken(c, p, FALSE)[d].pc = conn[d].pc
    BY <1>1, SpokenLemma
  <2>2. conn' = Spoken(c, p, FALSE)
    BY <1>14 DEF QuestionStarted
  <2>3. TypeOK'
    BY <1>14, <1>1, <2>1, <2>2 DEF TypeOK, QuestionStarted
  <2>4. registry' = registry /\ met' = met
    BY <1>14 DEF QuestionStarted
  <2>5. QED
    BY <1>2, <2>1, <2>2, <2>3, <2>4
<1>15. ASSUME NEW c \in Conn, NEW p \in Text, TurnDecided(c, p) PROVE IInv'
  <2>1. /\ Spoken(c, p, FALSE) \in [Conn -> Connection]
        /\ \A d \in Conn : Spoken(c, p, FALSE)[d].pc = conn[d].pc
    BY <1>1, SpokenLemma
  <2>2. Spoken(c, p, FALSE)[c] \in Connection
    BY <2>1
  <2>3. \A k \in Nat : /\ [Spoken(c, p, FALSE)[c] EXCEPT !.pending = k] \in Connection
                      /\ [Spoken(c, p, FALSE)[c] EXCEPT !.pending = k].pc = conn[c].pc
    BY <2>1, <2>2 DEF Connection
  <2>4. Spoken(c, p, FALSE)[c].pending \in Nat /\ Spoken(c, p, FALSE)[c].pending + 1 \in Nat
    <3>1. \A x \in Connection : x.pending \in Nat
      BY DEF Connection
    <3>2. \A k \in Nat : k + 1 \in Nat
      OBVIOUS
    <3>3. QED
      BY <2>2, <3>1, <3>2
  <2>5. \E k \in Nat : conn' = [Spoken(c, p, FALSE) EXCEPT
                         ![c] = [Spoken(c, p, FALSE)[c] EXCEPT !.pending = k]]
    BY <1>15, <2>4 DEF TurnDecided
  <2>6. conn' \in [Conn -> Connection] /\ \A d \in Conn : conn'[d].pc = conn[d].pc
    BY <2>1, <2>3, <2>5
  <2>7. TypeOK'
    BY <1>15, <1>1, <2>6 DEF TypeOK, TurnDecided
  <2>8. QED
    BY <1>15, <1>2, <2>6, <2>7 DEF TurnDecided
<1>16. ASSUME NEW c \in Conn, NEW p \in Text, ResumeEnds(c, p) PROVE IInv'
  <2>1. conn[c] \in Connection
    BY <1>1
  <2>2. /\ [conn[c] EXCEPT !.busy = "no", !.inbox = "none"] \in Connection
        /\ [conn[c] EXCEPT !.busy = "no", !.inbox = "none"].pc = conn[c].pc
    BY <2>1 DEF Connection, Frame
  <2>3. \/ conn' = Spoken(c, p, TRUE)
        \/ conn' = [conn EXCEPT ![c] = [conn[c] EXCEPT !.busy = "no", !.inbox = "none"]]
    BY <1>16 DEF ResumeEnds
  <2>4. conn' \in [Conn -> Connection] /\ \A d \in Conn : conn'[d].pc = conn[d].pc
    <3>1. /\ Spoken(c, p, TRUE) \in [Conn -> Connection]
          /\ \A d \in Conn : Spoken(c, p, TRUE)[d].pc = conn[d].pc
      BY <1>1, SpokenLemma
    <3>2. CASE conn' = Spoken(c, p, TRUE)
      BY <3>1, <3>2
    <3>3. CASE conn' = [conn EXCEPT ![c] = [conn[c] EXCEPT !.busy = "no", !.inbox = "none"]]
      BY <1>1, <2>2, <3>3
    <3>4. QED
      BY <2>3, <3>2, <3>3
  <2>5. TypeOK'
    BY <1>16, <1>1, <2>4 DEF TypeOK, ResumeEnds, Text
  <2>6. QED
    BY <1>16, <1>2, <2>4, <2>5 DEF ResumeEnds
<1>17. ASSUME NEW m \in Frame \ {"none"}, Send(m) PROVE IInv'
  <2>1. conn' \in [Conn -> Connection] /\ \A d \in Conn : conn'[d].pc = conn[d].pc
    BY <1>17, <1>1 DEF Send, Connection
  <2>2. frames' \in 0 .. MaxFrames
    BY <1>17, <1>1, FramesAssumption DEF Send
  <2>3. TypeOK'
    BY <1>17, <1>1, <2>1, <2>2 DEF TypeOK, Send
  <2>4. QED
    BY <1>17, <1>2, <2>1, <2>3 DEF Send
<1>18. ASSUME Lose PROVE IInv'
  <2>1. TypeOK'
    BY <1>18, <1>1 DEF TypeOK, Lose, Meets
  <2>2. QED
    BY <1>18, <1>2, <2>1 DEF Lose, Meets
<1>19. ASSUME ForceEnd PROVE IInv'
  <2>1. TypeOK'
    BY <1>19, <1>1 DEF TypeOK, ForceEnd
  <2>2. QED
    BY <1>19, <1>2, <2>1 DEF ForceEnd
<1>20. ASSUME UNCHANGED vars PROVE IInv'
  <2>1. TypeOK'
    BY <1>20, <1>1 DEF TypeOK, vars
  <2>2. QED
    BY <1>20, <1>2, <2>1 DEF vars
<1>21. ASSUME NEW c \in Conn, NEW p \in Text, PresentQuestion(c, p) PROVE IInv'
  <2>1. /\ Spoken(c, p, FALSE) \in [Conn -> Connection]
        /\ \A d \in Conn : Spoken(c, p, FALSE)[d].pc = conn[d].pc
    BY <1>1, SpokenLemma
  <2>2. conn' = Spoken(c, p, FALSE)
    BY <1>21 DEF PresentQuestion
  <2>3. TypeOK'
    BY <1>21, <1>1, <2>1, <2>2 DEF TypeOK, PresentQuestion
  <2>4. registry' = registry /\ met' = met
    BY <1>21 DEF PresentQuestion
  <2>5. QED
    BY <1>2, <2>1, <2>2, <2>3, <2>4
<1>22. ASSUME NEW c \in Conn, NothingToResume(c) PROVE IInv'
  <2>1. /\ Spoken(c, NoPrompt, TRUE) \in [Conn -> Connection]
        /\ \A d \in Conn : Spoken(c, NoPrompt, TRUE)[d].pc = conn[d].pc
    BY <1>1, SpokenLemma DEF Text
  <2>2. conn' = Spoken(c, NoPrompt, TRUE)
    BY <1>22 DEF NothingToResume
  <2>3. TypeOK'
    BY <1>22, <1>1, <2>1, <2>2 DEF TypeOK, NothingToResume
  <2>4. registry' = registry /\ met' = met
    BY <1>22 DEF NothingToResume
  <2>5. QED
    BY <1>2, <2>1, <2>2, <2>3, <2>4
<1>23. ASSUME NEW c \in Conn, HandlerFails(c) PROVE IInv'
  <2>1. conn[c] \in Connection
    BY <1>1
  <2>2. /\ [conn[c] EXCEPT !.busy = "no", !.inbox = "none"] \in Connection
        /\ [conn[c] EXCEPT !.busy = "no", !.inbox = "none"].pc = conn[c].pc
    BY <2>1 DEF Connection, Frame
  <2>3. conn' = [conn EXCEPT ![c] = [conn[c] EXCEPT !.busy = "no", !.inbox = "none"]]
    BY <1>23 DEF HandlerFails
  <2>4. conn' \in [Conn -> Connection] /\ \A d \in Conn : conn'[d].pc = conn[d].pc
    BY <1>1, <2>2, <2>3
  <2>5. TypeOK'
    BY <1>23, <1>1, <2>4 DEF TypeOK, HandlerFails, Meets
  <2>6. QED
    BY <1>23, <1>2, <2>4, <2>5 DEF HandlerFails, Meets
<1>24. QED
  BY <1>4, <1>5, <1>6, <1>7, <1>8, <1>9, <1>10, <1>11, <1>12, <1>13, <1>14, <1>15,
     <1>16, <1>17, <1>18, <1>19, <1>20, <1>21, <1>22, <1>23
     DEF Next, Handle

-----------------------------------------------------------------------------
(* The theorems *)

\* The invariant holds in every state, whatever the trouble.
THEOREM Invariant == Spec => []IInv
<1>1. Init => IInv
  BY InitIInv
<1>2. IInv /\ [Next]_vars => IInv'
  BY InvariantStep
<1>3. QED
  BY <1>1, <1>2, PTL DEF Spec

\* The connections, their tasks, frames and held texts and the registry keep their
\* types, whatever is lost, repeated or raised.
THEOREM TypeCorrect == Spec => []TypeOK
<1>1. IInv => TypeOK
  BY DEF IInv
<1>2. QED
  BY <1>1, Invariant, PTL

\* Whatever goes wrong, the registry names a live connection or none: force_end
\* and pending-archives never act on one that was evicted or has ended.
THEOREM RegistryIsSound == Spec => []RegisteredIsLive
<1>1. IInv => RegisteredIsLive
  BY DEF IInv
<1>2. QED
  BY <1>1, Invariant, PTL

\* Until two connects overlap there is exactly one live connection, the
\* registered one, with blackouts, failed starts and raising handlers as well.
THEOREM OneLiveConnection == Spec => []LiveIsRegistered
<1>1. IInv => LiveIsRegistered
  BY DEF IInv, OneAfterTheOther, LiveIsRegistered
<1>2. QED
  BY <1>1, Invariant, PTL

-----------------------------------------------------------------------------
(***************************************************************************)
(* What the student hears.  As long as no connection is lost, refused or   *)
(* overtaken by another one, the connection that the client listens to     *)
(* knows what was heard, and has numbered all that is still to be heard.   *)
(***************************************************************************)
Calm == met \subseteq {"handlerFails"}

\* The tasks of c speak in the order of their numbers, all after the last one heard.
Numbered(c) ==
    LET out == conn[c].outbox IN
    /\ conn[c].seq >= heard.seq
    /\ \A i \in 1 .. Len(out) : out[i].seq > heard.seq /\ out[i].seq <= conn[c].seq
    /\ \A i, j \in 1 .. Len(out) : i < j => out[i].seq < out[j].seq

\* A connection nobody opened is as it was; the client listens to the one that is
\* starting or registered, and to none only before the first and after the last.
ClientInv ==
    /\ \A c \in Conn : conn[c].pc = "starting" => client = c
    /\ client # NoConn => registry = client \/ conn[client].pc = "starting"
    /\ client = NoConn => ended \/ (registry = NoConn /\ heard.seq = 0 /\ heard.text = NoPrompt)

HeardInv ==
    /\ \A c \in Conn : conn[c].pc = "new" => conn[c] = Unopened
    /\ Calm => /\ ClientInv
               /\ client # NoConn => Numbered(client) /\ conn[client].last = heard.text
               /\ SkippedWasHeard

\* Speaking takes the next number and adds one task at the end.
LEMMA SpokenNumbers ==
    ASSUME IInv, NEW c \in Conn, NEW p \in Text, NEW r \in BOOLEAN
    PROVE  \E u : /\ u.seq = conn[c].seq + 1
                  /\ Spoken(c, p, r)[c].seq = conn[c].seq + 1
                  /\ Spoken(c, p, r)[c].outbox = Append(conn[c].outbox, u)
                  /\ Spoken(c, p, r)[c].last = conn[c].last
                  /\ \A d \in Conn : d # c => Spoken(c, p, r)[d] = conn[d]
<1> DEFINE u == [seq |-> conn[c].seq + 1, text |-> p, resumed |-> r]
           x == [conn[c] EXCEPT !.busy = "no", !.inbox = "none", !.seq = conn[c].seq + 1,
                                !.outbox = Append(conn[c].outbox, u)]
<1>1. conn \in [Conn -> Connection] /\ conn[c] \in Connection
  BY DEF IInv, TypeOK
<1>2. u.seq = conn[c].seq + 1
  OBVIOUS
<1>3. Spoken(c, p, r) = [conn EXCEPT ![c] = x]
  BY DEF Spoken
<1> HIDE DEF u
<1>4. /\ x.seq = conn[c].seq + 1 /\ x.outbox = Append(conn[c].outbox, u)
      /\ x.last = conn[c].last
  BY <1>1 DEF Connection
<1> HIDE DEF x
<1>5. Spoken(c, p, r)[c] = x /\ \A d \in Conn : d # c => Spoken(c, p, r)[d] = conn[d]
  BY <1>1, <1>3
<1> QED
  BY <1>2, <1>4, <1>5

\* One more task, with the next number, is in order.
LEMMA NumberedAppend ==
    ASSUME NEW out \in Seq(Utterance), NEW n \in Nat, NEW h \in Nat, NEW u, u.seq = n + 1, n >= h,
           \A i \in 1 .. Len(out) : out[i].seq > h /\ out[i].seq <= n,
           \A i, j \in 1 .. Len(out) : i < j => out[i].seq < out[j].seq
    PROVE  LET more == Append(out, u) IN
           /\ \A i \in 1 .. Len(more) : more[i].seq > h /\ more[i].seq <= n + 1
           /\ \A i, j \in 1 .. Len(more) : i < j => more[i].seq < more[j].seq
<1> DEFINE more == Append(out, u)  k == Len(out)
<1>1. /\ k \in Nat /\ Len(more) = k + 1 /\ more[k + 1] = u
      /\ \A i \in 1 .. k : more[i] = out[i] /\ out[i].seq \in Nat
  <2>1. \A i \in 1 .. k : out[i] \in Utterance
    OBVIOUS
  <2>2. \A v \in Utterance : v.seq \in Nat
    BY DEF Utterance
  <2> QED
    BY <2>1, <2>2
<1> HIDE DEF more, k
<1>2. \A i \in 1 .. k + 1 : i = k + 1 \/ i \in 1 .. k
  BY <1>1
<1>3. \A i \in 1 .. k : more[i].seq > h /\ more[i].seq <= n
  BY <1>1 DEF k
<1>4. more[k + 1].seq = n + 1
  BY <1>1
<1>5. \A i \in 1 .. k + 1 : more[i].seq > h /\ more[i].seq <= n + 1
  BY <1>1, <1>2, <1>3, <1>4
<1>6. ASSUME NEW i \in 1 .. k + 1, NEW j \in 1 .. k + 1, i < j
      PROVE  more[i].seq < more[j].seq
  <2>1. i \in 1 .. k
    BY <1>1, <1>6
  <2>2. CASE j = k + 1
    BY <1>1, <1>3, <1>4, <2>1, <2>2
  <2>3. CASE j \in 1 .. k
    BY <1>1, <1>6, <2>1, <2>3 DEF k
  <2> QED
    BY <1>2, <2>2, <2>3
<1> QED
  BY <1>1, <1>5, <1>6 DEF more

\* A step of one connection that somebody opened, and that neither closes it nor
\* counts another prompt as delivered, keeps the invariant.
LEMMA OneMoves ==
    ASSUME IInv, HeardInv, NEW c \in Conn, conn[c].pc # "new", met \subseteq met',
           UNCHANGED <<registry, client, heard, ended>>,
           skipped' = skipped \/ (skipped' = conn[c].last /\ client = c),
           \A d \in Conn : d # c => conn'[d] = conn[d],
           conn'[c].pc = conn[c].pc, conn'[c].last = conn[c].last,
           Numbered(c) => Numbered(c)'
    PROVE  HeardInv'
<1>1. NoConn \notin Conn /\ client \in Conn \cup {NoConn}
  BY NoConnAssumption DEF IInv, TypeOK
<1>2. \A d \in Conn : conn'[d].pc = conn[d].pc /\ conn'[d].last = conn[d].last
  OBVIOUS
<1>3. \A d \in Conn : conn'[d].pc = "new" => conn'[d] = Unopened
  BY DEF HeardInv
<1>4. ASSUME Calm' PROVE ClientInv' /\ SkippedWasHeard'
                         /\ (client # NoConn => Numbered(client) /\ conn[client].last = heard.text)'
  <2>1. Calm /\ ClientInv /\ SkippedWasHeard
        /\ (client # NoConn => Numbered(client) /\ conn[client].last = heard.text)
    BY <1>4 DEF Calm, HeardInv
  <2>2. ClientInv'
    BY <1>1, <1>2, <2>1 DEF ClientInv
  <2>3. ASSUME NEW d \in Conn, d = client PROVE Numbered(d)' /\ conn'[d].last = heard'.text
    <3>1. CASE d = c
      BY <1>1, <2>1, <2>3, <3>1
    <3>2. CASE d # c
      BY <1>1, <2>1, <2>3, <3>2 DEF Numbered
    <3> QED
      BY <3>1, <3>2
  <2>4. SkippedWasHeard'
    BY <1>1, <2>1 DEF SkippedWasHeard, Calm
  <2> QED
    BY <1>1, <2>2, <2>3, <2>4
<1> QED
  BY <1>3, <1>4 DEF HeardInv

\* The same for a step that leaves numbers and tasks alone.
LEMMA OneWaits ==
    ASSUME IInv, HeardInv, NEW c \in Conn, conn[c].pc # "new", met \subseteq met',
           UNCHANGED <<registry, client, heard, ended>>,
           skipped' = skipped \/ (skipped' = conn[c].last /\ client = c),
           \A d \in Conn : d # c => conn'[d] = conn[d],
           conn'[c].pc = conn[c].pc, conn'[c].last = conn[c].last,
           conn'[c].seq = conn[c].seq, conn'[c].outbox = conn[c].outbox
    PROVE  HeardInv'
<1>1. Numbered(c) => Numbered(c)'
  BY DEF Numbered
<1> QED
  BY <1>1, OneMoves

\* And for one that speaks.
LEMMA OneSpeaks ==
    ASSUME IInv, HeardInv, NEW c \in Conn, conn[c].pc # "new", met \subseteq met',
           UNCHANGED <<registry, client, heard, ended, skipped>>,
           NEW p \in Text, NEW r \in BOOLEAN,
           \A d \in Conn : /\ conn'[d].pc = Spoken(c, p, r)[d].pc
                           /\ conn'[d].last = Spoken(c, p, r)[d].last
                           /\ conn'[d].seq = Spoken(c, p, r)[d].seq
                           /\ conn'[d].outbox = Spoken(c, p, r)[d].outbox
                           /\ d # c => conn'[d] = Spoken(c, p, r)[d]
    PROVE  HeardInv'
<1>1. PICK u : /\ u.seq = conn[c].seq + 1
               /\ Spoken(c, p, r)[c].seq = conn[c].seq + 1
               /\ Spoken(c, p, r)[c].outbox = Append(conn[c].outbox, u)
               /\ Spoken(c, p, r)[c].last = conn[c].last
               /\ \A d \in Conn : d # c => Spoken(c, p, r)[d] = conn[d]
  BY SpokenNumbers
<1>2. Spoken(c, p, r)[c].pc = conn[c].pc
  BY SpokenLemma DEF IInv, TypeOK
<1>3. /\ conn[c].outbox \in Seq(Utterance) /\ conn[c].seq \in Nat /\ heard.seq \in Nat
  BY DEF IInv, TypeOK, Connection, Utterance
<1>4. ASSUME Numbered(c) PROVE Numbered(c)'
  <2>1. LET more == Append(conn[c].outbox, u) IN
        /\ \A i \in 1 .. Len(more) : more[i].seq > heard.seq /\ more[i].seq <= conn[c].seq + 1
        /\ \A i, j \in 1 .. Len(more) : i < j => more[i].seq < more[j].seq
    <3>1. /\ u.seq = conn[c].seq + 1 /\ conn[c].seq >= heard.seq
          /\ \A i \in 1 .. Len(conn[c].outbox) :
                conn[c].outbox[i].seq > heard.seq /\ conn[c].outbox[i].seq <= conn[c].seq
          /\ \A i, j \in 1 .. Len(conn[c].outbox) :
                i < j => conn[c].outbox[i].seq < conn[c].outbox[j].seq
      BY <1>1, <1>4 DEF Numbered
    <3> QED
      BY <1>3, <3>1, NumberedAppend
  <2>2. conn[c].seq + 1 >= heard.seq
    BY <1>3, <1>4 DEF Numbered
  <2>3. conn'[c].seq = conn[c].seq + 1 /\ conn'[c].outbox = Append(conn[c].outbox, u)
        /\ heard' = heard
    BY <1>1
  <2> QED
    BY <2>1, <2>2, <2>3 DEF Numbered
<1> QED
  BY <1>1, <1>2, <1>4, OneMoves

LEMMA InitHeard == Init => HeardInv
<1> SUFFICES ASSUME Init PROVE HeardInv
  OBVIOUS
<1>1. \A c \in Conn : conn[c] = Unopened /\ conn[c].pc = "new"
  BY DEF Init, Unopened
<1>2. client = NoConn /\ registry = NoConn /\ skipped = NoPrompt
      /\ heard.seq = 0 /\ heard.text = NoPrompt
  BY DEF Init
<1> QED
  BY <1>1, <1>2 DEF HeardInv, ClientInv, SkippedWasHeard

\* A handler or a task belongs to a connection that somebody opened.
LEMMA Opens ==
    ASSUME HeardInv, NEW c \in Conn,
           \/ conn[c].busy # "no" \/ conn[c].inbox # "none" \/ conn[c].outbox # << >>
           \/ conn[c].pending > 0
    PROVE  conn[c].pc # "new"
<1>1. conn[c].pc = "new" => conn[c] = Unopened
  BY DEF HeardInv
<1>2. Unopened.busy = "no" /\ Unopened.inbox = "none" /\ Unopened.outbox = << >> /\ ~ (Unopened.pending > 0)
  BY DEF Unopened
<1> QED
  BY <1>1, <1>2

\* The new connection is given what the registered one, to which the client
\* listened, knows.
LEMMA ConnectHeard ==
    ASSUME IInv, HeardInv, NEW c \in Conn, Connect(c)
    PROVE  HeardInv'
<1>1. NoConn \notin Conn /\ client \in Conn \cup {NoConn} /\ registry \in Conn \cup {NoConn}
      /\ conn \in [Conn -> Connection] /\ heard \in Utterance
  BY NoConnAssumption DEF IInv, TypeOK
<1>2. conn[c] = Unopened /\ ~ ended /\ met \subseteq met'
  BY DEF Connect, MayConnect, HeardInv, Meets
<1>3. /\ conn' = Replaced(c) /\ client' = c /\ registry' = NoConn
      /\ UNCHANGED <<heard, skipped, ended>>
  BY DEF Connect
<1>4. \A d \in Conn : d # c /\ d # registry => conn'[d] = conn[d]
  BY <1>3 DEF Replaced
<1>5. conn'[c] = Opened(c)
  BY <1>3 DEF Replaced
<1>6. \A d \in Conn : d # c /\ d = registry => conn'[d].pc = "evicted"
  <2> SUFFICES ASSUME NEW d \in Conn, d # c, d = registry
               PROVE  conn'[d].pc = "evicted"
    OBVIOUS
  <2>1. conn'[d] = [conn[d] EXCEPT !.pc = "evicted", !.session = FALSE]
    BY <1>3 DEF Replaced
  <2>2. conn[d] \in Connection
    BY <1>1
  <2> QED
    BY <2>1, <2>2 DEF Connection
<1>7. /\ conn'[c].pc = "starting" /\ conn'[c].outbox = << >>
      /\ registry = NoConn => conn'[c].seq = 0 /\ conn'[c].last = NoPrompt
      /\ registry # NoConn => conn'[c].seq = conn[registry].seq /\ conn'[c].last = conn[registry].last
  BY <1>2, <1>5 DEF Opened, Unopened
<1>8. \A d \in Conn : conn'[d].pc = "new" => conn'[d] = Unopened
  <2> TAKE d \in Conn
  <2>1. CASE d = c
    BY <1>7, <2>1
  <2>2. CASE d # c /\ d = registry
    BY <1>6, <2>2
  <2>3. CASE d # c /\ d # registry
    BY <1>4, <2>3 DEF HeardInv
  <2> QED
    BY <2>1, <2>2, <2>3
<1>9. ASSUME Calm'
      PROVE  ClientInv' /\ (client # NoConn => Numbered(client) /\ conn[client].last = heard.text)'
             /\ SkippedWasHeard'
  <2>1. Calm /\ ClientInv /\ SkippedWasHeard
        /\ (client # NoConn => Numbered(client) /\ conn[client].last = heard.text)
    BY <1>2, <1>9 DEF Calm, HeardInv
  <2>2. \A d \in Conn : conn[d].pc # "starting"
    BY <1>9 DEF Connect, MayConnect, Meets, Calm
  <2>3. client # NoConn => registry = client
    BY <1>1, <2>1, <2>2 DEF ClientInv
  <2>4. client = NoConn => registry = NoConn /\ heard.seq = 0 /\ heard.text = NoPrompt
    BY <1>2, <2>1 DEF ClientInv
  <2>5. client # NoConn => conn[client].seq >= heard.seq
    BY <2>1 DEF Numbered
  <2>6. conn'[c].seq >= heard.seq /\ conn'[c].last = heard.text
    <3>0. client # NoConn \/ client = NoConn
      OBVIOUS
    <3>1. CASE client # NoConn
      BY <1>7, <2>1, <2>3, <2>5, <3>1
    <3>2. CASE client = NoConn
      BY <1>7, <2>4, <3>2
    <3> QED
      BY <3>1, <3>2
  <2>7. \A d \in Conn : conn'[d].pc = "starting" => d = c
    BY <1>4, <1>6, <2>2
  <2>8. ClientInv'
    BY <1>1, <1>3, <1>7, <2>7 DEF ClientInv
  <2>9. Numbered(c)'
    <3>1. Len(conn'[c].outbox) = 0
      BY <1>7
    <3> QED
      BY <1>3, <2>6, <3>1 DEF Numbered
  <2>10. SkippedWasHeard'
    BY <1>3, <2>1 DEF SkippedWasHeard, Calm
  <2>11. PICK k \in Conn : k = c
    OBVIOUS
  <2> QED
    BY <1>3, <2>6, <2>8, <2>9, <2>10, <2>11
<1> QED
  BY <1>8, <1>9 DEF HeardInv

\* Who is live or gone does not change what was said.
LEMMA LifeHeard ==
    ASSUME IInv, IInv', HeardInv, NEW c \in Conn, Started(c) \/ StartFails(c) \/ Disconnected(c)
    PROVE  HeardInv'
<1>1. NoConn \notin Conn /\ client \in Conn \cup {NoConn} /\ registry \in Conn \cup {NoConn}
      /\ conn \in [Conn -> Connection]
  BY NoConnAssumption DEF IInv, TypeOK
<1>2. conn[c].pc # "new" /\ conn'[c].pc \in {"live", "gone"}
      /\ conn'[c].seq = conn[c].seq /\ conn'[c].last = conn[c].last
      /\ conn'[c].outbox = conn[c].outbox
      /\ \A d \in Conn : d # c => conn'[d] = conn[d]
  BY <1>1 DEF Started, StartFails, Disconnected, Idle, Looping, Connection
<1>3. UNCHANGED <<heard, skipped, ended>> /\ met \subseteq met'
  BY DEF Started, StartFails, Disconnected, Meets
<1>4. \A d \in Conn : conn'[d].pc = "new" => conn'[d] = Unopened
  BY <1>2 DEF HeardInv
<1>5. \A d \in Conn : conn'[d].seq = conn[d].seq /\ conn'[d].last = conn[d].last
                      /\ conn'[d].outbox = conn[d].outbox
  BY <1>2
<1>6. ASSUME Calm'
      PROVE  ClientInv' /\ (client # NoConn => Numbered(client) /\ conn[client].last = heard.text)'
             /\ SkippedWasHeard'
  <2>1. Calm /\ ClientInv /\ SkippedWasHeard
        /\ (client # NoConn => Numbered(client) /\ conn[client].last = heard.text)
    BY <1>3, <1>6 DEF Calm, HeardInv
  <2>2. client' = client /\ ~ StartFails(c)
    BY <1>6 DEF Started, StartFails, Disconnected, Calm, Meets
  <2>3. ClientInv'
    <3>1. CASE Started(c)
      <4>1. registry' = c /\ conn'[c].pc = "live" /\ client = c
        BY <1>1, <2>1, <3>1 DEF Started, ClientInv, Connection
      <4> QED
        BY <1>1, <1>2, <2>1, <2>2, <4>1 DEF ClientInv
    <3>2. CASE Disconnected(c)
      <4>1. registry' = (IF registry = c THEN NoConn ELSE registry) /\ client # c
        BY <3>2 DEF Disconnected
      <4> QED
        BY <1>1, <1>2, <1>3, <2>1, <2>2, <4>1 DEF ClientInv
    <3> QED
      BY <2>2, <3>1, <3>2
  <2>4. ASSUME NEW d \in Conn, d = client PROVE Numbered(d)' /\ conn'[d].last = heard'.text
    BY <1>1, <1>3, <1>5, <2>1, <2>4 DEF Numbered
  <2>5. SkippedWasHeard'
    BY <1>3, <2>1 DEF SkippedWasHeard, Calm
  <2> QED
    BY <1>1, <2>2, <2>3, <2>4, <2>5
<1> QED
  BY <1>4, <1>6 DEF HeardInv

\* The client hears the first of the numbered tasks; the others come after it.
LEMMA SendHeard ==
    ASSUME IInv, HeardInv, NEW c \in Conn, SendSpeak(c)
    PROVE  /\ HeardInv'
           /\ Calm /\ heard' # heard => heard'.seq > heard.seq
<1> DEFINE out == conn[c].outbox
           u == Head(out)
<1>1. NoConn \notin Conn /\ client \in Conn \cup {NoConn} /\ conn \in [Conn -> Connection]
      /\ heard \in Utterance /\ skipped \in Text
  BY NoConnAssumption DEF IInv, TypeOK
<1>2. out \in Seq(Utterance) /\ out # << >>
  BY <1>1 DEF SendSpeak, Connection
<1>3. u = out[1] /\ u \in Utterance /\ 1 \in 1 .. Len(out)
      /\ Len(Tail(out)) = Len(out) - 1 /\ \A i \in 1 .. Len(out) - 1 : Tail(out)[i] = out[i + 1]
  BY <1>2
<1>4. /\ conn' = [conn EXCEPT ![c].outbox = Tail(out),
                              ![c].last = IF u.text = NoPrompt THEN @ ELSE u.text]
      /\ heard' = IF client = c THEN Hearing(u) ELSE heard
      /\ skipped' = IF client = c /\ u.text # NoPrompt THEN NoPrompt ELSE skipped
      /\ UNCHANGED <<registry, client, frames, ended, met>>
  BY DEF SendSpeak
<1>5. /\ conn'[c].pc = conn[c].pc /\ conn'[c].seq = conn[c].seq
      /\ conn'[c].outbox = Tail(out)
      /\ conn'[c].last = IF u.text = NoPrompt THEN conn[c].last ELSE u.text
      /\ \A d \in Conn : d # c => conn'[d] = conn[d]
  <2> HIDE DEF u, out
  <2> QED
    BY <1>1, <1>4 DEF Connection
<1>6. conn[c].pc # "new"
  BY <1>2, Opens
<1>7. Hearing(u).seq = u.seq
      /\ Hearing(u).text = IF u.text = NoPrompt THEN heard.text ELSE u.text
  BY <1>1, <1>3 DEF Hearing, Utterance
<1> HIDE DEF u
<1>8. \A d \in Conn : conn'[d].pc = "new" => conn'[d] = Unopened
  BY <1>5, <1>6 DEF HeardInv
<1>9. ASSUME Calm
      PROVE  ClientInv' /\ (client # NoConn => Numbered(client) /\ conn[client].last = heard.text)'
             /\ SkippedWasHeard' /\ (heard' # heard => heard'.seq > heard.seq)
  <2>1. ClientInv /\ SkippedWasHeard
        /\ (client # NoConn => Numbered(client) /\ conn[client].last = heard.text)
    BY <1>9 DEF HeardInv
  <2>2. CASE client = c
    <3>1. Numbered(c) /\ conn[c].last = heard.text
      BY <1>1, <2>1, <2>2
    <3>2. /\ conn[c].seq >= heard.seq
          /\ \A i \in 1 .. Len(out) : out[i].seq > heard.seq /\ out[i].seq <= conn[c].seq
          /\ \A i, j \in 1 .. Len(out) : i < j => out[i].seq < out[j].seq
      BY <3>1 DEF Numbered
    <3>3. heard'.seq = u.seq /\ u.seq > heard.seq /\ u.seq <= conn[c].seq
      BY <1>3, <1>4, <1>7, <2>2, <3>2
    <3>4. heard'.text = conn'[c].last
      BY <1>4, <1>5, <1>7, <2>2, <3>1
    <3>5. Numbered(c)'
      <4>0. Len(out) \in Nat /\ Len(out) >= 1 /\ u.seq \in Nat /\ conn[c].seq \in Nat
        BY <1>1, <1>2, <1>3 DEF Connection, Utterance
      <4>1. ASSUME NEW i \in 1 .. Len(out) - 1
            PROVE  Tail(out)[i].seq > u.seq /\ Tail(out)[i].seq <= conn[c].seq
        <5>1. i + 1 \in 1 .. Len(out) /\ 1 < i + 1
          BY <4>0
        <5>2. out[1].seq < out[i + 1].seq /\ out[i + 1].seq <= conn[c].seq
          BY <1>3, <3>2, <5>1
        <5>3. out[i + 1].seq \in Nat
          <6>1. out[i + 1] \in Utterance
            BY <1>2, <5>1
          <6> QED
            BY <6>1 DEF Utterance
        <5> QED
          BY <1>3, <4>0, <5>2, <5>3
      <4>2. ASSUME NEW i \in 1 .. Len(out) - 1, NEW j \in 1 .. Len(out) - 1, i < j
            PROVE  Tail(out)[i].seq < Tail(out)[j].seq
        <5>1. i + 1 \in 1 .. Len(out) /\ j + 1 \in 1 .. Len(out) /\ i + 1 < j + 1
          BY <4>0, <4>2
        <5> QED
          BY <1>3, <3>2, <5>1
      <4>3. conn'[c].seq >= heard'.seq
        BY <1>5, <3>3, <4>0
      <4> HIDE DEF out
      <4> QED
        BY <1>3, <1>5, <3>3, <4>1, <4>2, <4>3 DEF Numbered
    <3>6. SkippedWasHeard'
      <4>1. CASE u.text = NoPrompt
        BY <1>4, <1>7, <1>9, <2>1, <2>2, <4>1 DEF SkippedWasHeard, Calm
      <4>2. CASE u.text # NoPrompt
        BY <1>4, <2>2, <4>2 DEF SkippedWasHeard
      <4> QED
        BY <4>1, <4>2
    <3>7. ClientInv'
      BY <1>1, <1>4, <1>5, <2>1, <2>2 DEF ClientInv
    <3> QED
      BY <1>4, <2>2, <3>3, <3>4, <3>5, <3>6, <3>7
  <2>3. CASE client # c
    <3>1. heard' = heard /\ skipped' = skipped
      BY <1>4, <2>3
    <3>2. ClientInv'
      BY <1>1, <1>4, <1>5, <2>1, <2>3, <3>1 DEF ClientInv
    <3>3. ASSUME NEW d \in Conn, d = client PROVE Numbered(d)' /\ conn'[d].last = heard'.text
      <4>1. conn'[d] = conn[d]
        BY <1>5, <2>3, <3>3
      <4> QED
        BY <1>1, <2>1, <3>1, <3>3, <4>1 DEF Numbered
    <3>4. SkippedWasHeard'
      BY <1>4, <2>1, <3>1 DEF SkippedWasHeard, Calm
    <3> QED
      BY <1>1, <1>4, <3>1, <3>2, <3>3, <3>4
  <2> QED
    BY <2>2, <2>3
<1>10. Calm' <=> Calm
  BY <1>4 DEF Calm
<1> QED
  BY <1>8, <1>9, <1>10 DEF HeardInv

\* A handler that starts, waits or ends without a word.
LEMMA HandlerHeard ==
    ASSUME IInv, HeardInv, NEW c \in Conn,
           \/ QuestionStart(c) \/ TurnEnd(c) \/ Resume(c) \/ ResumeRestored(c)
           \/ HandlerFails(c) \/ ArchiveDone(c)
    PROVE  HeardInv'
<1>1. conn \in [Conn -> Connection] /\ conn[c] \in Connection
  BY DEF IInv, TypeOK
<1>2. conn[c].pc # "new"
  BY Opens DEF QuestionStart, TurnEnd, Resume, ResumeRestored, HandlerFails, ArchiveDone
<1>3. \E x : /\ conn' = [conn EXCEPT ![c] = x]
             /\ x.pc = conn[c].pc /\ x.last = conn[c].last /\ x.seq = conn[c].seq
             /\ x.outbox = conn[c].outbox
  <2>1. CASE QuestionStart(c)
    <3> DEFINE x == [conn[c] EXCEPT !.busy = "start", !.session = TRUE]
    <3>1. conn' = [conn EXCEPT ![c] = x]
      BY <2>1 DEF QuestionStart
    <3>2. /\ x.pc = conn[c].pc /\ x.last = conn[c].last /\ x.seq = conn[c].seq
          /\ x.outbox = conn[c].outbox
      BY <1>1 DEF Connection
    <3> HIDE DEF x
    <3> QED
      BY <3>1, <3>2
  <2>2. CASE TurnEnd(c)
    <3> DEFINE x == IF conn[c].session THEN [conn[c] EXCEPT !.busy = "turn"]
                    ELSE [conn[c] EXCEPT !.inbox = "none"]
    <3>1. conn' = [conn EXCEPT ![c] = x]
      BY <2>2 DEF TurnEnd
    <3>2. /\ x.pc = conn[c].pc /\ x.last = conn[c].last /\ x.seq = conn[c].seq
          /\ x.outbox = conn[c].outbox
      BY <1>1 DEF Connection
    <3> HIDE DEF x
    <3> QED
      BY <3>1, <3>2
  <2>3. CASE Resume(c)
    <3> DEFINE x == [conn[c] EXCEPT !.busy = "restore"]
    <3>1. conn' = [conn EXCEPT ![c] = x]
      BY <2>3 DEF Resume
    <3>2. /\ x.pc = conn[c].pc /\ x.last = conn[c].last /\ x.seq = conn[c].seq
          /\ x.outbox = conn[c].outbox
      BY <1>1 DEF Connection
    <3> HIDE DEF x
    <3> QED
      BY <3>1, <3>2
  <2>4. CASE ResumeRestored(c)
    <3> DEFINE x == [conn[c] EXCEPT !.busy = "recover", !.session = TRUE]
    <3>1. conn' = [conn EXCEPT ![c] = x]
      BY <2>4 DEF ResumeRestored
    <3>2. /\ x.pc = conn[c].pc /\ x.last = conn[c].last /\ x.seq = conn[c].seq
          /\ x.outbox = conn[c].outbox
      BY <1>1 DEF Connection
    <3> HIDE DEF x
    <3> QED
      BY <3>1, <3>2
  <2>5. CASE HandlerFails(c)
    <3> DEFINE x == [conn[c] EXCEPT !.busy = "no", !.inbox = "none"]
    <3>1. conn' = [conn EXCEPT ![c] = x]
      BY <2>5 DEF HandlerFails
    <3>2. /\ x.pc = conn[c].pc /\ x.last = conn[c].last /\ x.seq = conn[c].seq
          /\ x.outbox = conn[c].outbox
      BY <1>1 DEF Connection
    <3> HIDE DEF x
    <3> QED
      BY <3>1, <3>2
  <2>6. CASE ArchiveDone(c)
    <3> DEFINE x == [conn[c] EXCEPT !.pending = conn[c].pending - 1]
    <3>1. conn' = [conn EXCEPT ![c] = x]
      BY <2>6 DEF ArchiveDone
    <3>2. /\ x.pc = conn[c].pc /\ x.last = conn[c].last /\ x.seq = conn[c].seq
          /\ x.outbox = conn[c].outbox
      BY <1>1 DEF Connection
    <3> HIDE DEF x
    <3> QED
      BY <3>1, <3>2
  <2> QED
    BY <2>1, <2>2, <2>3, <2>4, <2>5, <2>6
<1>4. /\ conn'[c].pc = conn[c].pc /\ conn'[c].last = conn[c].last
      /\ conn'[c].seq = conn[c].seq /\ conn'[c].outbox = conn[c].outbox
      /\ \A d \in Conn : d # c => conn'[d] = conn[d]
  BY <1>1, <1>3
<1>5. UNCHANGED <<registry, client, heard, ended, skipped>> /\ met \subseteq met'
  BY DEF QuestionStart, TurnEnd, Resume, ResumeRestored, HandlerFails, ArchiveDone, Meets
<1> QED
  BY <1>2, <1>4, <1>5, OneWaits

\* A handler that ends with a prompt.
LEMMA PromptHeard ==
    ASSUME IInv, HeardInv, NEW c \in Conn, NEW p \in Text,
           \/ QuestionStarted(c, p) \/ PresentQuestion(c, p) \/ TurnDecided(c, p)
           \/ NothingToResume(c)
    PROVE  HeardInv'
<1>1. UNCHANGED <<registry, client, heard, ended, skipped>> /\ met \subseteq met'
  BY DEF QuestionStarted, PresentQuestion, TurnDecided, NothingToResume
<1>2. conn[c].pc # "new"
  BY Opens DEF QuestionStarted, PresentQuestion, TurnDecided, NothingToResume
<1>3. CASE conn' = Spoken(c, p, FALSE)
  BY <1>1, <1>2, <1>3, OneSpeaks
<1>4. CASE conn' = Spoken(c, NoPrompt, TRUE)
  BY <1>1, <1>2, <1>4, OneSpeaks DEF Text
<1>5. CASE TurnDecided(c, p)
  <2> DEFINE s == Spoken(c, p, FALSE)
  <2>1. conn \in [Conn -> Connection]
    BY DEF IInv, TypeOK
  <2>2. s \in [Conn -> Connection] /\ s[c] \in Connection
    BY <2>1, SpokenLemma
  <2>3. PICK k : conn' = [s EXCEPT ![c] = [s[c] EXCEPT !.pending = k]]
    BY <1>5 DEF TurnDecided
  <2> HIDE DEF s
  <2>4. \A d \in Conn : /\ conn'[d].pc = s[d].pc /\ conn'[d].last = s[d].last
                        /\ conn'[d].seq = s[d].seq /\ conn'[d].outbox = s[d].outbox
                        /\ d # c => conn'[d] = s[d]
    BY <2>2, <2>3 DEF Connection
  <2> QED
    BY <1>1, <1>2, <2>4, OneSpeaks DEF s
<1> QED
  BY <1>3, <1>4, <1>5 DEF QuestionStarted, PresentQuestion, NothingToResume

\* What a resume does not repeat is the last prompt that was delivered.
LEMMA ResumeHeard ==
    ASSUME IInv, HeardInv, NEW c \in Conn, NEW p \in Text, ResumeEnds(c, p)
    PROVE  HeardInv'
<1>1. conn \in [Conn -> Connection] /\ conn[c] \in Connection
  BY DEF IInv, TypeOK
<1>2. conn[c].pc # "new"
  BY Opens DEF ResumeEnds
<1>3. UNCHANGED <<registry, client, heard, ended>> /\ met \subseteq met'
  BY DEF ResumeEnds
<1>4. CASE p # NoPrompt /\ p = conn[c].last
  <2> DEFINE x == [conn[c] EXCEPT !.busy = "no", !.inbox = "none"]
  <2>1. /\ conn' = [conn EXCEPT ![c] = x]
        /\ skipped' = skipped \/ (skipped' = conn[c].last /\ client = c)
    BY <1>4 DEF ResumeEnds
  <2>2. /\ x.pc = conn[c].pc /\ x.last = conn[c].last /\ x.seq = conn[c].seq
        /\ x.outbox = conn[c].outbox
    BY <1>1 DEF Connection
  <2> HIDE DEF x
  <2>3. /\ conn'[c].pc = conn[c].pc /\ conn'[c].last = conn[c].last
        /\ conn'[c].seq = conn[c].seq /\ conn'[c].outbox = conn[c].outbox
        /\ \A d \in Conn : d # c => conn'[d] = conn[d]
    BY <1>1, <2>1, <2>2
  <2> QED
    BY <1>2, <1>3, <2>1, <2>3, OneWaits
<1>5. CASE ~ (p # NoPrompt /\ p = conn[c].last)
  <2>1. conn' = Spoken(c, p, TRUE) /\ skipped' = skipped
    BY <1>5 DEF ResumeEnds
  <2> QED
    BY <1>2, <1>3, <2>1, OneSpeaks
<1> QED
  BY <1>4, <1>5

\* The client sends a frame, is lost, or is told to end.
LEMMA OtherHeard ==
    ASSUME IInv, HeardInv,
           (\E m \in Frame \ {"none"} : Send(m)) \/ Lose \/ ForceEnd \/ UNCHANGED vars
    PROVE  HeardInv'
<1>1. NoConn \notin Conn /\ client \in Conn \cup {NoConn} /\ registry \in Conn \cup {NoConn}
      /\ conn \in [Conn -> Connection]
  BY NoConnAssumption DEF IInv, TypeOK
<1>2. CASE \E m \in Frame \ {"none"} : Send(m)
  <2>1. PICK m \in Frame \ {"none"} : Send(m)
    BY <1>2
  <2>2. client \in Conn /\ conn[client].pc # "new"
    BY <1>1, <2>1 DEF Send
  <2>3. PICK c \in Conn : c = client /\ conn[c].pc # "new"
    BY <2>2
  <2>4. conn' = [conn EXCEPT ![c] = [conn[c] EXCEPT !.inbox = m]]
    BY <2>1, <2>3 DEF Send
  <2>5. conn[c] \in Connection
    BY <1>1
  <2>6. /\ conn'[c].pc = conn[c].pc /\ conn'[c].last = conn[c].last
        /\ conn'[c].seq = conn[c].seq /\ conn'[c].outbox = conn[c].outbox
        /\ \A d \in Conn : d # c => conn'[d] = conn[d]
    BY <1>1, <2>4, <2>5 DEF Connection
  <2>7. UNCHANGED <<registry, client, heard, ended, skipped>> /\ met \subseteq met'
    BY <2>1 DEF Send
  <2> QED
    BY <2>3, <2>6, <2>7, OneWaits
<1>3. CASE Lose
  <2>1. ~ Calm' /\ conn' = conn
    BY <1>3 DEF Lose, Meets, Calm
  <2> QED
    BY <2>1 DEF HeardInv
<1>4. CASE ForceEnd
  <2>1. /\ registry # NoConn /\ client = registry /\ client' = NoConn /\ ended'
        /\ UNCHANGED <<registry, conn, heard, skipped, met>>
    BY <1>4 DEF ForceEnd
  <2>2. Calm => OneAfterTheOther
    BY DEF IInv, Calm
  <2>3. Calm => \A c \in Conn : conn[c].pc # "starting"
    BY <2>1, <2>2 DEF OneAfterTheOther
  <2>4. Calm' => ClientInv' /\ SkippedWasHeard'
    BY <1>1, <2>1, <2>3 DEF HeardInv, ClientInv, SkippedWasHeard, Calm
  <2> QED
    BY <2>1, <2>4 DEF HeardInv
<1>5. CASE UNCHANGED vars
  <2>1. Calm' = Calm /\ ClientInv' = ClientInv /\ SkippedWasHeard' = SkippedWasHeard
    BY <1>5 DEF vars, Calm, ClientInv, SkippedWasHeard
  <2>2. ASSUME NEW d \in Conn, d = client, Calm PROVE Numbered(d)' /\ conn'[d].last = heard'.text
    BY <1>1, <1>5, <2>2 DEF vars, Numbered, HeardInv
  <2>3. conn' = conn /\ client' = client
    BY <1>5 DEF vars
  <2> QED
    BY <1>1, <2>1, <2>2, <2>3 DEF HeardInv
<1> QED
  BY <1>2, <1>3, <1>4, <1>5

\* Every step keeps the invariant, and what is heard gets a greater number.
LEMMA HeardStep ==
    ASSUME IInv, IInv', HeardInv, [Next]_vars
    PROVE  HeardInv' /\ (Calm' /\ heard' # heard => heard'.seq > heard.seq)
<1>1. ASSUME NEW c \in Conn, SendSpeak(c)
      PROVE  HeardInv' /\ (Calm' /\ heard' # heard => heard'.seq > heard.seq)
  <2>1. Calm' = Calm
    BY <1>1 DEF SendSpeak, Calm
  <2> QED
    BY <1>1, <2>1, SendHeard
<1>2. ASSUME NEW c \in Conn, Connect(c) \/ Started(c) \/ StartFails(c) \/ Disconnected(c)
                             \/ ArchiveDone(c) \/ Handle(c)
      PROVE  HeardInv' /\ heard' = heard
  <2>1. heard' = heard
    BY <1>2 DEF Connect, Started, StartFails, Disconnected, ArchiveDone, Handle, QuestionStart,
                TurnEnd, Resume, ResumeRestored, NothingToResume, HandlerFails, QuestionStarted,
                PresentQuestion, TurnDecided, ResumeEnds
  <2>2. CASE Connect(c)
    BY <2>1, <2>2, ConnectHeard
  <2>3. CASE Started(c) \/ StartFails(c) \/ Disconnected(c)
    BY <2>1, <2>3, LifeHeard
  <2>4. CASE \/ QuestionStart(c) \/ TurnEnd(c) \/ Resume(c) \/ ResumeRestored(c)
             \/ HandlerFails(c) \/ ArchiveDone(c)
    BY <2>1, <2>4, HandlerHeard
  <2>5. CASE \/ NothingToResume(c)
             \/ \E p \in Text : QuestionStarted(c, p) \/ PresentQuestion(c, p) \/ TurnDecided(c, p)
    BY <2>1, <2>5, PromptHeard DEF Text
  <2>6. CASE \E p \in Text : ResumeEnds(c, p)
    BY <2>1, <2>6, ResumeHeard
  <2> QED
    BY <1>2, <2>1, <2>2, <2>3, <2>4, <2>5, <2>6 DEF Handle
<1>3. ASSUME (\E m \in Frame \ {"none"} : Send(m)) \/ Lose \/ ForceEnd \/ UNCHANGED vars
      PROVE  HeardInv' /\ heard' = heard
  <2>1. heard' = heard
    BY <1>3 DEF Send, Lose, ForceEnd, vars
  <2> QED
    BY <1>3, <2>1, OtherHeard
<1> QED
  BY <1>1, <1>2, <1>3 DEF Next

LEMMA HeardInvariant == Spec => [](IInv /\ HeardInv)
<1>1. Init => IInv /\ HeardInv
  BY InitIInv, InitHeard
<1>2. IInv /\ HeardInv /\ [Next]_vars => (IInv /\ HeardInv)'
  BY InvariantStep, HeardStep
<1> QED
  BY <1>1, <1>2, PTL DEF Spec

\* However often the client reconnects and handlers raise, a resume leaves unsaid
\* only the prompt that the student heard last.
THEOREM UnsaidWasHeard == Spec => []SkippedWasHeard
<1>1. HeardInv => SkippedWasHeard
  BY DEF HeardInv, SkippedWasHeard, Calm
<1> QED
  BY <1>1, HeardInvariant, PTL

\* The numbers that the student hears grow, from one connection to the next as well.
THEOREM NumbersGrow == Spec => SequenceGrows
<1>1. IInv /\ IInv' /\ HeardInv /\ [Next]_vars
      => [met' \subseteq {"handlerFails"} => heard'.seq > heard.seq]_heard
  BY HeardStep DEF Calm
<1> QED
  BY <1>1, HeardInvariant, PTL DEF Spec, SequenceGrows
=============================================================================
