-------------------- MODULE TranscriptAccumulator_proofs --------------------
(***************************************************************************)
(* Proofs about TranscriptAccumulator: types, WholeOnce,                   *)
(* ConfidenceIsOfItsWords and Exact for every number of utterances and     *)
(* turns.                                                                  *)
(***************************************************************************)
EXTENDS TranscriptAccumulator, FiniteSetTheorems, TLAPS

-----------------------------------------------------------------------------
(* Pieces and sequences of them *)

\* The text of an utterance is a piece of its own, no part is one.
LEMMA PieceFacts ==
    /\ \A u \in Utterance : Whole(u) \in Piece /\ u \in Whole(u).of
    /\ \A u, v \in Utterance : Whole(u) = Whole(v) => u = v
    /\ \A p \in SUBSET Utterance : p # {} => Part(p) \in Piece
    /\ \A u \in Utterance, p \in SUBSET Utterance : Part(p) # Whole(u)
<1>1. \A u \in Utterance : Whole(u) \in Piece /\ u \in Whole(u).of
  BY DEF Whole, Piece
<1>2. ASSUME NEW u \in Utterance, NEW v \in Utterance, Whole(u) = Whole(v)
      PROVE  u = v
  <2>1. Whole(u).of = {u} /\ Whole(v).of = {v}
    BY DEF Whole
  <2> QED BY <1>2, <2>1
<1>3. \A p \in SUBSET Utterance : p # {} => Part(p) \in Piece
  BY DEF Part, Piece
<1>4. ASSUME NEW u \in Utterance, NEW p \in SUBSET Utterance
      PROVE  Part(p) # Whole(u)
  <2>1. Part(p).whole = FALSE /\ Whole(u).whole = TRUE
    BY DEF Part, Whole
  <2> QED BY <2>1
<1> QED BY <1>1, <1>2, <1>3, <1>4

\* What was not in the text is in it once after it was appended.
LEMMA AppendNew ==
    ASSUME NEW s \in Seq(Piece), NEW p \in Piece, Never(s, p)
    PROVE  Once(Append(s, p), p)
<1>1. /\ Len(s) + 1 \in DOMAIN Append(s, p)
      /\ Append(s, p)[Len(s) + 1] = p
  OBVIOUS
<1>2. \A j \in DOMAIN Append(s, p) : j # Len(s) + 1 =>
          j \in DOMAIN s /\ Append(s, p)[j] = s[j]
  OBVIOUS
<1> QED BY <1>1, <1>2 DEF Once, Never

\* Another piece changes nothing for this one.
LEMMA AppendOther ==
    ASSUME NEW s \in Seq(Piece), NEW p \in Piece, NEW q, p # q
    PROVE  /\ Once(s, q) => Once(Append(s, p), q)
           /\ Never(s, q) => Never(Append(s, p), q)
<1>1. /\ Append(s, p)[Len(s) + 1] = p
      /\ \A j \in DOMAIN s : j \in DOMAIN Append(s, p) /\ Append(s, p)[j] = s[j]
      /\ \A j \in DOMAIN Append(s, p) : j # Len(s) + 1 => j \in DOMAIN s
  OBVIOUS
<1>2. ASSUME Once(s, q) PROVE Once(Append(s, p), q)
  <2>1. PICK i \in DOMAIN s : \A j \in DOMAIN s : s[j] = q <=> j = i
    BY <1>2 DEF Once
  <2>2. i # Len(s) + 1
    OBVIOUS
  <2>3. \A j \in DOMAIN Append(s, p) : Append(s, p)[j] = q <=> j = i
    BY <1>1, <2>1, <2>2
  <2> QED BY <1>1, <2>3 DEF Once
<1>3. ASSUME Never(s, q) PROVE Never(Append(s, p), q)
  BY <1>1, <1>3 DEF Never
<1> QED BY <1>2, <1>3

\* The words of a text grow by those of the piece.
LEMMA AppendWords ==
    ASSUME NEW s \in Seq(Piece), NEW p \in Piece
    PROVE  TextOf(s) \cup p.of \subseteq TextOf(Append(s, p))
<1>1. /\ Len(s) + 1 \in DOMAIN Append(s, p)
      /\ Append(s, p)[Len(s) + 1] = p
      /\ \A j \in DOMAIN s : j \in DOMAIN Append(s, p) /\ Append(s, p)[j] = s[j]
  OBVIOUS
<1> QED BY <1>1 DEF TextOf

LEMMA EmptyText ==
    /\ <<>> \in Seq(Piece)
    /\ TextOf(<<>>) = {}
    /\ \A p : Never(<<>>, p)
BY DEF TextOf, Never

\* A fresh accumulator and a turn without a snapshot.
LEMMA FreshType ==
    /\ Fresh \in Accumulator /\ Fresh.text = <<>> /\ Fresh.confident = {}
    /\ Nothing \in Snapshot /\ Nothing.text = <<>> /\ Nothing.confident = {}
    /\ Nothing.kind = "none"
BY EmptyText DEF Fresh, Nothing, Accumulator, Snapshot
-----------------------------------------------------------------------------
(* The invariant *)

LEMMA InitIInv == Init => IInv
<1> SUFFICES ASSUME Init PROVE IInv
  OBVIOUS
<1>1. TypeOK
  BY FreshType, UtteranceAssumption, TurnAssumption DEF Init, TypeOK, Spoken
<1>2. /\ acc.text = <<>> /\ acc.confident = {}
      /\ \A t \in Turn : given[t] = Nothing
      /\ \A u \in Utterance : spoken[u].final = 0
      /\ turn = 1 /\ pc = "idle"
  BY FreshType DEF Init
<1>3. HeldOnce /\ WholeOnce
  <2>1. \A t \in Turn : t # 0
    BY DEF Turn
  <2> QED BY <1>2, <2>1, EmptyText, FreshType DEF HeldOnce, WholeOnce
<1>4. acc.confident \subseteq TextOf(acc.text) /\ ConfidenceIsOfItsWords
  BY <1>2, FreshType DEF ConfidenceIsOfItsWords
<1>5. FinalsAreDone
  BY <1>2 DEF FinalsAreDone
<1> QED BY <1>1, <1>2, <1>3, <1>4, <1>5 DEF IInv

\* An event that brings no final text keeps the invariant: turns, snapshots and
\* final texts stay, and the text held keeps its whole pieces.
LEMMA EventKeeps ==
    ASSUME IInv, TypeOK',
           turn' = turn, given' = given, pc' # "idle" => turn \in Turn,
           \A u \in Utterance : /\ spoken'[u].final = spoken[u].final
                                /\ spoken[u].pc = "done" => spoken'[u].pc = "done",
           \A u \in Utterance :
               /\ Once(acc.text, Whole(u))  => Once(acc'.text, Whole(u))
               /\ Never(acc.text, Whole(u)) => Never(acc'.text, Whole(u)),
           acc'.confident \subseteq TextOf(acc'.text)
    PROVE  IInv'
<1>1. HeldOnce'
  BY DEF IInv, HeldOnce, Whole
<1>2. WholeOnce'
  BY DEF IInv, WholeOnce
<1>3. FinalsAreDone'
  BY DEF IInv, FinalsAreDone
<1>4. ConfidenceIsOfItsWords'
  BY DEF IInv, ConfidenceIsOfItsWords
<1>5. (\A t \in Turn : t >= turn => given[t] = Nothing)'
  BY DEF IInv
<1> QED BY <1>1, <1>2, <1>3, <1>4, <1>5 DEF IInv

\* What an event does to the accumulator, where there is one to route it to.
LEMMA RouteKeeps ==
    ASSUME TypeOK, NEW new \in Accumulator, Route(new)
    PROVE  acc' \in Accumulator
BY DEF TypeOK, Route

LEMMA SpeechStartStep ==
    ASSUME IInv, NEW u \in Utterance, SpeechStart(u)
    PROVE  IInv'
<1> DEFINE new == [acc EXCEPT !.partial = {}]
<1>1. TypeOK
  BY DEF IInv
<1>2. /\ new \in Accumulator /\ new.text = acc.text
      /\ new.confident = acc.confident
  BY <1>1 DEF TypeOK, Accumulator
<1>3. Route(new)
  BY DEF SpeechStart
<1>4. acc' \in Accumulator /\ acc'.text = acc.text /\ acc'.confident = acc.confident
  BY <1>1, <1>2, <1>3, RouteKeeps DEF Route
<1>5. TypeOK'
  <2>1. turn \in 0 .. MaxTurn + 1
    BY <1>1, TurnAssumption DEF TypeOK
  <2>2. [spoken[u] EXCEPT !.pc = "speaking", !.turn = turn] \in Spoken
    BY <1>1, <2>1 DEF TypeOK, Spoken
  <2>3. spoken' \in [Utterance -> Spoken]
    BY <1>1, <2>2 DEF SpeechStart, TypeOK
  <2>4. smooth' \in BOOLEAN
    BY DEF SpeechStart
  <2> QED BY <1>1, <1>4, <2>3, <2>4 DEF SpeechStart, TypeOK
<1>6. \A v \in Utterance : /\ spoken'[v].final = spoken[v].final
                           /\ spoken[v].pc = "done" => spoken'[v].pc = "done"
  BY <1>1 DEF SpeechStart, TypeOK, Spoken
<1> HIDE DEF new
<1>7. /\ turn' = turn /\ given' = given /\ pc' = pc
      /\ pc # "idle" => turn \in Turn
      /\ acc'.confident \subseteq TextOf(acc'.text)
  BY <1>4 DEF SpeechStart, IInv
<1> QED BY <1>4, <1>5, <1>6, <1>7, EventKeeps

LEMMA DeltaStep ==
    ASSUME IInv, NEW u \in Utterance, Delta(u)
    PROVE  IInv'
<1> DEFINE new == [acc EXCEPT !.partial = @ \cup {u}]
<1>1. TypeOK
  BY DEF IInv
<1>2. /\ new \in Accumulator /\ new.text = acc.text
      /\ new.confident = acc.confident
  BY <1>1 DEF TypeOK, Accumulator
<1>3. Route(new)
  BY DEF Delta
<1>4. acc' \in Accumulator /\ acc'.text = acc.text /\ acc'.confident = acc.confident
  BY <1>1, <1>2, <1>3, RouteKeeps DEF Route
<1>5. TypeOK'
  BY <1>1, <1>4 DEF Delta, TypeOK
<1> HIDE DEF new
<1>6. /\ turn' = turn /\ given' = given /\ pc' = pc /\ spoken' = spoken
      /\ pc # "idle" => turn \in Turn
      /\ acc'.confident \subseteq TextOf(acc'.text)
  BY <1>4 DEF Delta, IInv
<1> QED BY <1>4, <1>5, <1>6, EventKeeps

LEMMA SpeechEndStep ==
    ASSUME IInv, NEW u \in Utterance, SpeechEnd(u)
    PROVE  IInv'
<1> DEFINE new == [acc EXCEPT !.awaiting = TRUE]
<1>1. TypeOK
  BY DEF IInv
<1>2. /\ new \in Accumulator /\ new.text = acc.text
      /\ new.confident = acc.confident
  BY <1>1 DEF TypeOK, Accumulator
<1>3. Route(new)
  BY DEF SpeechEnd
<1>4. acc' \in Accumulator /\ acc'.text = acc.text /\ acc'.confident = acc.confident
  BY <1>1, <1>2, <1>3, RouteKeeps DEF Route
<1>5. TypeOK'
  <2>1. spoken' \in [Utterance -> Spoken]
    BY <1>1 DEF SpeechEnd, TypeOK, Spoken
  <2>2. smooth' \in BOOLEAN
    BY DEF SpeechEnd
  <2> QED BY <1>1, <1>4, <2>1, <2>2 DEF SpeechEnd, TypeOK
<1>6. \A v \in Utterance : /\ spoken'[v].final = spoken[v].final
                           /\ spoken[v].pc = "done" => spoken'[v].pc = "done"
  BY <1>1 DEF SpeechEnd, TypeOK, Spoken
<1> HIDE DEF new
<1>7. /\ turn' = turn /\ given' = given /\ pc' = pc
      /\ pc # "idle" => turn \in Turn
      /\ acc'.confident \subseteq TextOf(acc'.text)
  BY <1>4 DEF SpeechEnd, IInv
<1> QED BY <1>4, <1>5, <1>6, <1>7, EventKeeps

LEMMA FinalEmptyStep ==
    ASSUME IInv, NEW u \in Utterance, FinalEmpty(u)
    PROVE  IInv'
<1> DEFINE text == IF acc.partial = {} THEN acc.text
                   ELSE Append(acc.text, Part(acc.partial))
           new  == [acc EXCEPT !.text = text, !.partial = {}, !.awaiting = FALSE]
<1>1. TypeOK /\ acc \in Accumulator /\ acc.text \in Seq(Piece)
  BY DEF IInv, TypeOK, Accumulator
<1>2. acc.partial # {} => Part(acc.partial) \in Piece
  BY <1>1, PieceFacts DEF Accumulator
<1>3. /\ text \in Seq(Piece)
      /\ acc.confident \subseteq TextOf(text)
      /\ \A v \in Utterance : /\ Once(acc.text, Whole(v))  => Once(text, Whole(v))
                              /\ Never(acc.text, Whole(v)) => Never(text, Whole(v))
  <2>1. CASE acc.partial = {}
    BY <1>1, <2>1 DEF IInv
  <2>2. CASE acc.partial # {}
    <3>1. text = Append(acc.text, Part(acc.partial))
      BY <2>2
    <3>2. \A v \in Utterance : Part(acc.partial) # Whole(v)
      BY <1>1, PieceFacts DEF Accumulator
    <3>3. acc.confident \subseteq TextOf(acc.text)
      BY DEF IInv
    <3> HIDE DEF text
    <3> QED BY <1>1, <1>2, <2>2, <3>1, <3>2, <3>3, AppendOther, AppendWords
  <2> QED BY <2>1, <2>2
<1> HIDE DEF text
<1>4. new \in Accumulator /\ new.text = text /\ new.confident = acc.confident
  BY <1>1, <1>3 DEF Accumulator
<1>5. Route(new)
  BY DEF FinalEmpty, text
<1> HIDE DEF new
<1>6. /\ acc' \in Accumulator
      /\ acc'.confident \subseteq TextOf(acc'.text)
      /\ \A v \in Utterance : /\ Once(acc.text, Whole(v))  => Once(acc'.text, Whole(v))
                              /\ Never(acc.text, Whole(v)) => Never(acc'.text, Whole(v))
  <2>1. acc.confident \subseteq TextOf(acc.text)
    BY DEF IInv
  <2> QED BY <1>1, <1>3, <1>4, <1>5, <2>1 DEF Route
<1>7. pc' \in {"idle", "waiting", "woken"} /\ (pc' # "idle" => pc # "idle")
  BY <1>1 DEF FinalEmpty, Woken, TypeOK
<1>8. spoken' \in [Utterance -> Spoken]
  BY <1>1 DEF FinalEmpty, TypeOK, Spoken
<1>9. TypeOK'
  BY <1>1, <1>6, <1>7, <1>8 DEF FinalEmpty, TypeOK
<1>10. \A v \in Utterance : /\ spoken'[v].final = spoken[v].final
                            /\ spoken[v].pc = "done" => spoken'[v].pc = "done"
  BY <1>1 DEF FinalEmpty, TypeOK, Spoken
<1>11. turn' = turn /\ given' = given /\ (pc' # "idle" => turn \in Turn)
  BY <1>7 DEF FinalEmpty, IInv
<1> QED BY <1>6, <1>9, <1>10, <1>11, EventKeeps

LEMMA TranscriptionFailsStep ==
    ASSUME IInv, NEW u \in Utterance, TranscriptionFails(u)
    PROVE  IInv'
<1>1. TypeOK
  BY DEF IInv
<1>2. spoken' \in [Utterance -> Spoken]
  BY <1>1 DEF TranscriptionFails, TypeOK, Spoken
<1>3. TypeOK'
  BY <1>1, <1>2 DEF TranscriptionFails, TypeOK
<1>4. \A v \in Utterance : /\ spoken'[v].final = spoken[v].final
                           /\ spoken[v].pc = "done" => spoken'[v].pc = "done"
  BY <1>1 DEF TranscriptionFails, TypeOK, Spoken
<1>5. /\ turn' = turn /\ given' = given /\ pc' = pc /\ acc' = acc
      /\ pc # "idle" => turn \in Turn
      /\ acc.confident \subseteq TextOf(acc.text)
  BY DEF TranscriptionFails, IInv
<1> QED BY <1>3, <1>4, <1>5, EventKeeps

LEMMA ClearStep ==
    ASSUME IInv, Clear
    PROVE  IInv'
<1>1. TypeOK'
  BY DEF Clear, IInv, TypeOK
<1>2. /\ turn' = turn /\ given' = given /\ pc' = pc /\ acc' = acc /\ spoken' = spoken
      /\ pc # "idle" => turn \in Turn
      /\ acc.confident \subseteq TextOf(acc.text)
  BY DEF Clear, IInv
<1> QED BY <1>1, <1>2, EventKeeps

\* A final text is added to a text that did not have it: its utterance was
\* pending, so it had none before.
LEMMA FinalStep ==
    ASSUME IInv, NEW u \in Utterance, NEW sure \in BOOLEAN, Final(u, sure)
    PROVE  IInv'
<1> DEFINE text == Append(acc.text, Whole(u))
           conf == IF sure THEN acc.confident \cup {u} ELSE acc.confident
           new  == [text |-> text, partial |-> {}, awaiting |-> FALSE,
                    confident |-> conf]
<1>1. /\ TypeOK /\ acc \in Accumulator /\ acc.text \in Seq(Piece)
      /\ acc.confident \subseteq Utterance
  BY DEF IInv, TypeOK, Accumulator
<1>2. Whole(u) \in Piece /\ u \in Whole(u).of
  BY PieceFacts
<1>3. spoken[u].final = 0 /\ turn # 0
  BY <1>1 DEF Final, IInv, FinalsAreDone, TypeOK
<1>4. Never(acc.text, Whole(u))
  BY <1>3 DEF IInv, HeldOnce
<1>5. Once(text, Whole(u))
  BY <1>1, <1>2, <1>4, AppendNew
<1>6. \A v \in Utterance \ {u} :
         /\ Once(acc.text, Whole(v))  => Once(text, Whole(v))
         /\ Never(acc.text, Whole(v)) => Never(text, Whole(v))
  BY <1>1, <1>2, PieceFacts, AppendOther
<1>7. text \in Seq(Piece) /\ conf \in SUBSET Utterance /\ conf \subseteq TextOf(text)
  <2>1. acc.confident \subseteq TextOf(acc.text)
    BY DEF IInv
  <2>2. TextOf(acc.text) \cup Whole(u).of \subseteq TextOf(text)
    BY <1>1, <1>2, AppendWords
  <2>3. text \in Seq(Piece)
    BY <1>1, <1>2
  <2> HIDE DEF text
  <2> QED BY <1>1, <1>2, <2>1, <2>2, <2>3
<1> HIDE DEF text, conf
<1>8. new \in Accumulator /\ new.text = text /\ new.confident = conf
  BY <1>7 DEF Accumulator
<1>9. Route(new)
  BY DEF Final, text, conf
<1> HIDE DEF new
<1>10. pc' \in {"idle", "waiting", "woken"} /\ (pc' # "idle" => turn \in Turn)
  BY <1>1 DEF Final, Woken, TypeOK, IInv
<1>11. spoken' \in [Utterance -> Spoken]
  <2>1. turn \in 0 .. MaxTurn + 1 /\ 0 \in 0 .. MaxTurn + 1
    BY <1>1, TurnAssumption DEF TypeOK
  <2> DEFINE k == [spoken[u] EXCEPT !.pc = "done", !.sure = sure,
                                    !.final = IF routed THEN turn ELSE 0]
  <2>2. k \in Spoken
    BY <1>1, <2>1 DEF TypeOK, Spoken
  <2>3. spoken' = [spoken EXCEPT ![u] = k]
    BY DEF Final
  <2> HIDE DEF k
  <2> QED BY <1>1, <2>2, <2>3 DEF TypeOK
<1>12. TypeOK'
  BY <1>1, <1>8, <1>9, <1>10, <1>11, RouteKeeps DEF Final, TypeOK
<1>13. /\ spoken'[u].final = IF routed THEN turn ELSE 0
       /\ spoken'[u].pc = "done"
       /\ \A v \in Utterance \ {u} : spoken'[v] = spoken[v]
  BY <1>1 DEF Final, TypeOK, Spoken
<1>14. turn' = turn /\ given' = given
  BY DEF Final
<1>15. CASE ~routed
  <2>1. acc' = acc
    BY <1>9, <1>15 DEF Route
  <2>2. \A v \in Utterance : /\ spoken'[v].final = spoken[v].final
                             /\ spoken[v].pc = "done" => spoken'[v].pc = "done"
    BY <1>3, <1>13, <1>15
  <2>3. acc.confident \subseteq TextOf(acc.text)
    BY DEF IInv
  <2> QED BY <1>10, <1>12, <1>14, <2>1, <2>2, <2>3, EventKeeps
<1>16. CASE routed
  <2>1. acc'.text = text /\ acc'.confident = conf
    BY <1>8, <1>9, <1>16 DEF Route
  <2>2. HeldOnce'
    BY <1>5, <1>6, <1>13, <1>14, <1>16, <2>1 DEF IInv, HeldOnce, Whole
  <2>3. FinalsAreDone'
    <3>1. turn <= turn
      BY <1>1, TurnAssumption DEF TypeOK
    <3> QED BY <1>13, <1>14, <1>16, <3>1 DEF IInv, FinalsAreDone
  <2>4. WholeOnce'
    <3>1. \A t \in Turn : t = turn => given[t].kind = "none" /\ given[t].text = <<>>
      <4>1. \A t \in Turn : t = turn => t >= turn
        BY TurnAssumption DEF Turn
      <4> QED BY <4>1, FreshType DEF IInv
    <3>2. \A t \in Turn : Never(given[t].text, Whole(u))
      <4>1. \A t \in Turn : t # 0
        BY DEF Turn
      <4> QED BY <1>3, <4>1 DEF IInv, WholeOnce
    <3>3. \A t \in Turn : spoken'[u].final = t => given[t].kind # "spoken"
      BY <1>13, <1>16, <3>1
    <3> QED BY <1>13, <1>14, <3>2, <3>3 DEF IInv, WholeOnce, Whole
  <2>5. ConfidenceIsOfItsWords'
    BY <1>14 DEF IInv, ConfidenceIsOfItsWords
  <2>6. (\A t \in Turn : t >= turn => given[t] = Nothing)'
    BY <1>14 DEF IInv
  <2> QED BY <1>7, <1>10, <1>12, <1>14, <2>1, <2>2, <2>3, <2>4, <2>5, <2>6 DEF IInv
<1> QED BY <1>15, <1>16

-----------------------------------------------------------------------------
(* Turns *)

\* A turn that takes a text with the whole pieces held, or a typed one without
\* any, keeps the invariant; nothing is held afterwards.
LEMMA TakeKeeps ==
    ASSUME IInv, NEW kind \in {"spoken", "typed"}, NEW text \in Seq(Piece),
           turn \in Turn, Take(kind, text),
           routed' = routed, spoken' = spoken, smooth' \in BOOLEAN,
           kind = "typed" => text = <<>>,
           kind = "spoken" => acc.confident \subseteq TextOf(text),
           kind = "spoken" =>
               \A u \in Utterance :
                   /\ Once(acc.text, Whole(u))  => Once(text, Whole(u))
                   /\ Never(acc.text, Whole(u)) => Never(text, Whole(u))
    PROVE  IInv'
<1> DEFINE conf == IF kind = "typed" THEN {} ELSE acc.confident
           k == [kind |-> kind, text |-> text, confident |-> conf]
<1>1. TypeOK
  BY DEF IInv
<1>2. conf \subseteq Utterance /\ conf \subseteq TextOf(text)
  BY <1>1 DEF TypeOK, Accumulator
<1> HIDE DEF conf
<1>3. k \in Snapshot /\ k.kind = kind /\ k.text = text /\ k.confident = conf
  BY <1>2 DEF Snapshot
<1>4. given' = [given EXCEPT ![turn] = k] /\ acc' = Fresh /\ pc' = "idle" /\ turn' = turn + 1
  BY DEF Take, conf
<1> HIDE DEF k
<1>5. given'[turn] = k /\ \A t \in Turn \ {turn} : given'[t] = given[t]
  BY <1>1, <1>4 DEF TypeOK
<1>6. TypeOK'
  <2>1. turn + 1 \in 1 .. MaxTurn + 1
    BY TurnAssumption DEF Turn
  <2>2. given' \in [Turn -> Snapshot]
    BY <1>1, <1>3, <1>4 DEF TypeOK
  <2> QED BY <1>1, <1>4, <2>1, <2>2, FreshType DEF TypeOK
<1>7. \A t \in Turn : t >= turn + 1 => given'[t] = Nothing
  <2>1. \A t \in Turn : t >= turn + 1 => t >= turn /\ t # turn
    BY TurnAssumption DEF Turn
  <2> QED BY <1>5, <2>1 DEF IInv
<1>8. \A u \in Utterance : spoken[u].final # turn + 1
  <2>1. \A u \in Utterance : spoken[u].final \in 0 .. MaxTurn + 1
    BY <1>1 DEF TypeOK, Spoken
  <2>2. turn \in Int /\ \A u \in Utterance : spoken[u].final <= turn
    BY TurnAssumption DEF IInv, FinalsAreDone, Turn
  <2> QED BY <2>1, <2>2, TurnAssumption
<1>9. HeldOnce'
  BY <1>4, <1>8, EmptyText, FreshType DEF HeldOnce
<1>10. FinalsAreDone'
  <2>1. \A u \in Utterance : spoken[u].final \in Int
    BY <1>1, TurnAssumption DEF TypeOK, Spoken
  <2>2. \A u \in Utterance : spoken[u].final <= turn + 1
    BY <2>1, TurnAssumption DEF IInv, FinalsAreDone, Turn
  <2> QED BY <1>4, <2>2 DEF IInv, FinalsAreDone
<1>11. WholeOnce'
  <2>1. ASSUME NEW u \in Utterance
        PROVE  IF spoken[u].final = turn /\ kind = "spoken" THEN Once(text, Whole(u))
               ELSE Never(text, Whole(u))
    BY EmptyText DEF IInv, HeldOnce
  <2>2. ASSUME NEW u \in Utterance, NEW t \in Turn
        PROVE  IF spoken[u].final = t /\ given'[t].kind = "spoken"
               THEN Once(given'[t].text, Whole(u))
               ELSE Never(given'[t].text, Whole(u))
    <3>1. CASE t = turn
      BY <1>3, <1>5, <2>1, <3>1
    <3>2. CASE t # turn
      BY <1>5, <3>2 DEF IInv, WholeOnce
    <3> QED BY <3>1, <3>2
  <2> QED BY <2>2 DEF WholeOnce, Whole
<1>12. ConfidenceIsOfItsWords'
  BY <1>2, <1>3, <1>5 DEF IInv, ConfidenceIsOfItsWords
<1> QED BY <1>4, <1>6, <1>7, <1>9, <1>10, <1>11, <1>12, FreshType DEF IInv

\* The text as it is held has the pieces held.
LEMMA TakeHeld ==
    ASSUME IInv, turn \in Turn, Take("spoken", acc.text),
           routed' = routed, spoken' = spoken, smooth' \in BOOLEAN
    PROVE  IInv'
<1>1. acc.text \in Seq(Piece) /\ acc.confident \subseteq TextOf(acc.text)
  BY DEF IInv, TypeOK, Accumulator
<1> QED BY <1>1, TakeKeeps

LEMMA TurnEndStep ==
    ASSUME IInv, TurnEnd
    PROVE  IInv'
<1>1. /\ turn \in Turn /\ routed' = routed /\ spoken' = spoken
      /\ smooth' \in BOOLEAN
  BY DEF TurnEnd, MayAct
<1>2. CASE ~acc.awaiting /\ Take("spoken", acc.text)
  BY <1>1, <1>2, TakeHeld
<1>3. CASE pc' = "waiting" /\ UNCHANGED <<acc, turn, given>>
  <2>1. TypeOK'
    BY <1>1, <1>3 DEF IInv, TypeOK
  <2>2. acc.confident \subseteq TextOf(acc.text)
    BY DEF IInv
  <2> QED BY <1>1, <1>3, <2>1, <2>2, EventKeeps
<1> QED BY <1>2, <1>3 DEF TurnEnd

LEMMA WakeStep ==
    ASSUME IInv, Wake
    PROVE  IInv'
<1>1. turn \in Turn /\ smooth' \in BOOLEAN
  BY DEF Wake, IInv, TypeOK
<1> QED BY <1>1, TakeHeld DEF Wake

LEMMA TimesOutStep ==
    ASSUME IInv, TimesOut
    PROVE  IInv'
<1>1. /\ turn \in Turn /\ smooth' = FALSE /\ routed' = routed /\ spoken' = spoken
  BY DEF TimesOut, IInv
<1>2. CASE acc.partial = {}
  BY <1>1, <1>2, TakeHeld DEF TimesOut
<1>3. CASE acc.partial # {}
  <2> DEFINE text == Append(acc.text, Part(acc.partial))
  <2>1. acc.text \in Seq(Piece) /\ acc.partial \in SUBSET Utterance
    BY DEF IInv, TypeOK, Accumulator
  <2>2. /\ Part(acc.partial) \in Piece
        /\ \A u \in Utterance : Part(acc.partial) # Whole(u)
    BY <1>3, <2>1, PieceFacts
  <2>3. text \in Seq(Piece)
    BY <2>1, <2>2
  <2>4. acc.confident \subseteq TextOf(text)
    BY <2>1, <2>2, AppendWords DEF IInv
  <2>5. \A u \in Utterance : /\ Once(acc.text, Whole(u))  => Once(text, Whole(u))
                             /\ Never(acc.text, Whole(u)) => Never(text, Whole(u))
    BY <2>1, <2>2, AppendOther
  <2>6. Take("spoken", text)
    BY <1>3 DEF TimesOut
  <2> HIDE DEF text
  <2> QED BY <1>1, <2>3, <2>4, <2>5, <2>6, TakeKeeps
<1> QED BY <1>2, <1>3

LEMMA TypedTurnEndStep ==
    ASSUME IInv, TypedTurnEnd
    PROVE  IInv'
<1>1. /\ turn \in Turn /\ routed' = routed /\ spoken' = spoken
      /\ smooth' \in BOOLEAN /\ Take("typed", <<>>)
  BY DEF TypedTurnEnd, MayAct
<1> QED BY <1>1, EmptyText, TakeKeeps

\* A question given up leaves its turn without a snapshot.
LEMMA QuestionStartStep ==
    ASSUME IInv, QuestionStart
    PROVE  IInv'
<1>1. /\ turn \in Turn /\ turn' = turn + 1 /\ acc' = Fresh /\ smooth' \in BOOLEAN
      /\ UNCHANGED <<pc, routed, given, spoken>>
      /\ pc = "idle"
  BY DEF QuestionStart, MayAct
<1>2. TypeOK
  BY DEF IInv
<1>3. TypeOK'
  <2>1. turn + 1 \in 1 .. MaxTurn + 1
    BY <1>1, TurnAssumption DEF Turn
  <2> QED BY <1>1, <1>2, <2>1, FreshType DEF TypeOK
<1>4. \A t \in Turn : t >= turn + 1 => given[t] = Nothing
  <2>1. \A t \in Turn : t >= turn + 1 => t >= turn
    BY <1>1, TurnAssumption DEF Turn
  <2> QED BY <2>1 DEF IInv
<1>5. /\ \A u \in Utterance : spoken[u].final # turn + 1
      /\ \A u \in Utterance : spoken[u].final <= turn + 1
  <2>1. \A u \in Utterance : spoken[u].final \in Int
    BY <1>2, TurnAssumption DEF TypeOK, Spoken
  <2>2. turn \in Int /\ \A u \in Utterance : spoken[u].final <= turn
    BY <1>1, TurnAssumption DEF IInv, FinalsAreDone, Turn
  <2> QED BY <2>1, <2>2
<1>6. HeldOnce'
  BY <1>1, <1>5, EmptyText, FreshType DEF HeldOnce
<1>7. FinalsAreDone'
  BY <1>1, <1>5 DEF IInv, FinalsAreDone
<1>8. WholeOnce' /\ ConfidenceIsOfItsWords'
  BY <1>1 DEF IInv, WholeOnce, ConfidenceIsOfItsWords
<1> QED BY <1>1, <1>3, <1>4, <1>6, <1>7, <1>8, FreshType DEF IInv

LEMMA StutterStep ==
    ASSUME IInv, UNCHANGED vars
    PROVE  IInv'
BY DEF vars, IInv, TypeOK, FinalsAreDone, HeldOnce, WholeOnce, ConfidenceIsOfItsWords

\* What an accumulator holds goes to the next turn and to no other, whatever the
\* vendor sends when and however the turns end.
THEOREM Invariant == Spec => []IInv
<1>1. ASSUME IInv, [Next]_vars
      PROVE  IInv'
  <2>1. ASSUME NEW u \in Utterance,
               \/ SpeechStart(u) \/ Delta(u) \/ SpeechEnd(u)
               \/ FinalEmpty(u) \/ TranscriptionFails(u)
        PROVE  IInv'
    BY <1>1, <2>1, SpeechStartStep, DeltaStep, SpeechEndStep, FinalEmptyStep,
       TranscriptionFailsStep
  <2>2. ASSUME NEW u \in Utterance, NEW sure \in BOOLEAN, Final(u, sure)
        PROVE  IInv'
    BY <1>1, <2>2, FinalStep
  <2>3. ASSUME TurnEnd \/ Wake \/ TimesOut \/ TypedTurnEnd \/ QuestionStart \/ Clear
        PROVE  IInv'
    BY <1>1, <2>3, TurnEndStep, WakeStep, TimesOutStep, TypedTurnEndStep,
       QuestionStartStep, ClearStep
  <2>4. CASE UNCHANGED vars
    BY <1>1, <2>4, StutterStep
  <2> QED BY <1>1, <2>1, <2>2, <2>3, <2>4 DEF Next
<1> QED BY <1>1, InitIInv, PTL DEF Spec

\* Every reachable state is typed; no text holds an empty piece.
THEOREM TypeCorrect == Spec => []TypeOK
<1>1. IInv => TypeOK
  BY DEF IInv
<1> QED BY <1>1, Invariant, PTL

\* A final text is given once, to the turn that was open when it came.
THEOREM GivenOnce == Spec => []WholeOnce
<1>1. IInv => WholeOnce
  BY DEF IInv
<1> QED BY <1>1, Invariant, PTL

\* The confidence of a turn comes from words it holds.
THEOREM ConfidenceStaysWithWords == Spec => []ConfidenceIsOfItsWords
<1>1. IInv => ConfidenceIsOfItsWords
  BY DEF IInv
<1> QED BY <1>1, Invariant, PTL

-----------------------------------------------------------------------------
(* Exact: what holds as long as nothing goes wrong *)

\* Server VAD: one utterance at a time, in order, in a turn no later than this one.
InTurn ==
    \A u \in Utterance :
        /\ spoken[u].turn <= turn
        /\ spoken[u].pc = "unsaid" => spoken[u].turn = 0
        /\ spoken[u].pc \in {"unsaid", "speaking"} =>
              \A v \in Utterance : v > u => spoken[v].pc = "unsaid"

\* s holds the texts of the utterances S and nothing else, in the order of speech.
Lists(s, S) ==
    /\ Len(s) = Cardinality(S)
    /\ \A i \in DOMAIN s : \E u \in S : /\ s[i] = Whole(u)
                                        /\ Cardinality({v \in S : v < u}) = i - 1

\* What was said in this turn and is transcribed.
Heard == {u \in SpokenIn(turn) : spoken[u].pc = "done"}

\* As long as all goes well: whatever is not transcribed yet belongs to this turn
\* and comes after all that is; a wait is for the one text that is under way.
WellTimed ==
    /\ routed
    /\ acc.awaiting <=> Pending # {}
    /\ pc # "idle" => ~ Speaking
    /\ pc = "woken" => Pending = {}
    /\ \A u \in Utterance : spoken[u].pc \in {"speaking", "stopped"} => spoken[u].turn = turn
    /\ \A u, v \in Utterance :
          spoken[u].pc = "stopped" /\ v > u => spoken[v].pc \in {"unsaid", "speaking"}
    /\ Lists(acc.text, Heard)
    /\ acc.confident = {u \in Heard : spoken[u].sure}

GivenExactly ==
    \A t \in Turn : given[t].kind = "spoken" =>
        /\ Lists(given[t].text, SpokenIn(t))
        /\ given[t].confident = {u \in SpokenIn(t) : spoken[u].sure}

ExactInv == InTurn /\ (smooth => WellTimed /\ GivenExactly)

\* The utterances are few; the empty text lists none of them.
LEMMA Finite == ASSUME NEW S \in SUBSET Utterance PROVE IsFiniteSet(S) /\ Cardinality(S) \in Nat
<1>1. IsFiniteSet(Utterance)
  BY FS_Interval, UtteranceAssumption DEF Utterance
<1> QED BY <1>1, FS_Subset, FS_CardinalityType

LEMMA ListsNothing == Lists(<<>>, {})
BY FS_EmptySet DEF Lists

\* The text of the latest utterance goes to the end of the list.
LEMMA ListsOneMore ==
    ASSUME NEW s \in Seq(Piece), NEW S \in SUBSET Utterance, NEW u \in Utterance,
           Lists(s, S), \A v \in S : v < u
    PROVE  Lists(Append(s, Whole(u)), S \cup {u})
<1> DEFINE r == Append(s, Whole(u))
           T == S \cup {u}
<1>1. u \notin S /\ Utterance \subseteq Int
  BY DEF Utterance
<1>2. Cardinality(T) = Cardinality(S) + 1 /\ Len(s) = Cardinality(S) /\ Cardinality(S) \in Nat
  BY <1>1, Finite, FS_AddElement DEF Lists
<1>3. /\ Len(r) = Len(s) + 1 /\ r[Len(s) + 1] = Whole(u) /\ Len(s) \in Nat
      /\ DOMAIN r = 1 .. Len(s) + 1 /\ DOMAIN s = 1 .. Len(s)
      /\ \A i \in DOMAIN s : r[i] = s[i]
  BY PieceFacts
<1>4. Cardinality({v \in T : v < u}) = Cardinality(S)
  <2>1. \A v \in T : v < u <=> v \in S
    BY <1>1
  <2>2. {v \in T : v < u} = S
    BY <2>1
  <2> QED BY <2>2
<1>5. ASSUME NEW i \in DOMAIN r
      PROVE  \E w \in T : r[i] = Whole(w) /\ Cardinality({v \in T : v < w}) = i - 1
  <2>1. CASE i = Len(s) + 1
    <3>1. r[i] = Whole(u) /\ Cardinality({v \in T : v < u}) = i - 1
      BY <2>1, <1>2, <1>3, <1>4
    <3> QED BY <3>1
  <2>2. CASE i # Len(s) + 1
    <3>1. i \in DOMAIN s /\ r[i] = s[i]
      BY <2>2, <1>3
    <3>2. PICK w \in S : s[i] = Whole(w) /\ Cardinality({v \in S : v < w}) = i - 1
      BY <3>1 DEF Lists
    <3>3. {v \in T : v < w} = {v \in S : v < w}
      BY <1>1
    <3> QED BY <3>1, <3>2, <3>3
  <2> QED BY <2>1, <2>2
<1> QED BY <1>2, <1>3, <1>5 DEF Lists

\* Server VAD, whatever else happens.
LEMMA InTurnStep == ASSUME IInv, InTurn, [Next]_vars PROVE InTurn'
<1>1. /\ spoken \in [Utterance -> Spoken] /\ turn \in 1 .. MaxTurn + 1
      /\ \A u \in Utterance : spoken[u].turn \in 0 .. MaxTurn + 1 /\ spoken[u] \in Spoken
      /\ Utterance \subseteq Int
  BY DEF IInv, TypeOK, Spoken, Utterance
<1>2. turn' = turn \/ turn' = turn + 1
  BY DEF Next, vars, SpeechStart, Delta, SpeechEnd, FinalEmpty, TranscriptionFails, Final,
         TurnEnd, Wake, TimesOut, TypedTurnEnd, QuestionStart, Clear, Take
<1>3. \A u \in Utterance : spoken[u].turn <= turn'
  BY <1>1, <1>2, TurnAssumption DEF InTurn
<1>4. CASE spoken' = spoken
  BY <1>3, <1>4 DEF InTurn
<1>5. ASSUME NEW u \in Utterance, SpeechStart(u) PROVE InTurn'
  <2>1. /\ spoken[u].pc = "unsaid" /\ ~ Speaking /\ turn' = turn
        /\ \A v \in 1 .. u - 1 : spoken[v].pc # "unsaid"
        /\ spoken' = [spoken EXCEPT ![u] = [spoken[u] EXCEPT !.pc = "speaking", !.turn = turn]]
    BY <1>5 DEF SpeechStart
  <2>2. /\ spoken'[u].pc = "speaking" /\ spoken'[u].turn = turn
        /\ \A v \in Utterance \ {u} : spoken'[v] = spoken[v]
    BY <1>1, <2>1 DEF Spoken
  <2>3. \A v \in Utterance : v < u => spoken[v].pc # "unsaid" /\ spoken[v].pc # "speaking"
    BY <1>1, <2>1 DEF Speaking, Utterance
  <2> QED BY <1>1, <2>1, <2>2, <2>3, TurnAssumption DEF InTurn
<1>6. ASSUME NEW u \in Utterance, spoken[u].pc \in {"speaking", "stopped"},
             spoken'[u].pc \in {"stopped", "done"}, spoken'[u].turn = spoken[u].turn,
             \A v \in Utterance \ {u} : spoken'[v] = spoken[v]
      PROVE  InTurn'
  BY <1>1, <1>3, <1>6 DEF InTurn
<1>7. ASSUME NEW u \in Utterance, SpeechEnd(u) PROVE InTurn'
  BY <1>1, <1>6, <1>7 DEF SpeechEnd, Spoken
<1>8. ASSUME NEW u \in Utterance, FinalEmpty(u) \/ TranscriptionFails(u) PROVE InTurn'
  BY <1>1, <1>6, <1>8 DEF FinalEmpty, TranscriptionFails, Spoken
<1>9. ASSUME NEW u \in Utterance, NEW sure \in BOOLEAN, Final(u, sure) PROVE InTurn'
  <2>1. /\ spoken[u].pc = "stopped"
        /\ \E f : spoken' = [spoken EXCEPT ![u] = [spoken[u] EXCEPT !.pc = "done", !.sure = sure,
                                                                    !.final = f]]
    BY <1>9 DEF Final
  <2>2. /\ spoken'[u].pc = "done" /\ spoken'[u].turn = spoken[u].turn
        /\ \A v \in Utterance \ {u} : spoken'[v] = spoken[v]
    BY <1>1, <2>1 DEF Spoken
  <2> QED BY <1>6, <2>1, <2>2
<1> QED
  BY <1>4, <1>5, <1>7, <1>8, <1>9
     DEF Next, vars, Delta, TurnEnd, Wake, TimesOut, TypedTurnEnd, QuestionStart, Clear

\* A past turn stays as it was given, and so do the utterances said in it.
LEMMA GivenKept ==
    ASSUME GivenExactly, given' = given,
           \A t \in Turn : given[t].kind = "spoken" =>
              /\ SpokenIn(t)' = SpokenIn(t)
              /\ \A u \in SpokenIn(t) : spoken'[u].sure = spoken[u].sure
    PROVE  GivenExactly'
<1>1. ASSUME NEW t \in Turn, given'[t].kind = "spoken"
      PROVE  /\ Lists(given'[t].text, SpokenIn(t)')
             /\ given'[t].confident = {u \in SpokenIn(t)' : spoken'[u].sure}
  <2>1. SpokenIn(t)' = SpokenIn(t) /\ \A u \in SpokenIn(t) : spoken'[u].sure = spoken[u].sure
    BY <1>1
  <2> QED BY <1>1, <2>1 DEF GivenExactly
<1> QED BY <1>1 DEF GivenExactly, Lists

\* Of the utterances only those of the turn to come are still to be heard.
LEMMA PastTurns ==
    ASSUME IInv, InTurn, WellTimed, NEW t \in Turn, given[t].kind = "spoken"
    PROVE  /\ t # turn
           /\ \A u \in SpokenIn(t) : spoken[u].pc = "done"
<1>1. t < turn
  BY FreshType DEF IInv, TypeOK, Turn
<1>2. t # turn /\ t # 0
  BY <1>1 DEF IInv, TypeOK, Turn
<1> QED BY <1>2 DEF SpokenIn, InTurn, WellTimed, IInv, TypeOK, Spoken

\* Once all is transcribed, what is heard is what was said in the turn.
LEMMA AllHeard ==
    ASSUME IInv, InTurn, ~ Speaking, Pending = {}
    PROVE  SpokenIn(turn) = Heard
BY DEF InTurn, SpokenIn, Heard, Speaking, Pending, IInv, TypeOK, Spoken

\* A turn over, the next one begins with nothing said and nothing held.
LEMMA TurnOver ==
    ASSUME IInv, InTurn, WellTimed, ~ Speaking, Pending = {},
           turn' = turn + 1, acc' = Fresh, pc' = "idle", routed' = routed, spoken' = spoken
    PROVE  WellTimed'
<1>1. /\ turn \in Int /\ \A u \in Utterance : spoken[u].turn # turn + 1
  BY TurnAssumption DEF IInv, TypeOK, Spoken, InTurn
<1>2. Heard' = {}
  BY <1>1 DEF Heard, SpokenIn
<1>3. Lists(acc'.text, Heard')
  BY <1>2, ListsNothing DEF Fresh
<1>4. Lists(acc.text, Heard)'
  BY <1>3 DEF Lists
<1>5. Pending' = {} /\ acc'.awaiting = FALSE /\ acc'.confident = {}
  BY DEF Pending, Fresh
<1>6. \A u \in Utterance : spoken[u].pc \notin {"speaking", "stopped"}
  BY DEF Speaking, Pending
<1> QED BY <1>2, <1>4, <1>5, <1>6 DEF WellTimed

\* The snapshot of a turn whose words are all transcribed, and those before it.
LEMMA TakenExactly ==
    ASSUME IInv, InTurn, WellTimed, GivenExactly, ~ Speaking, Pending = {},
           turn \in Turn, Take("spoken", acc.text), spoken' = spoken
    PROVE  GivenExactly'
<1> DEFINE k == [kind |-> "spoken", text |-> acc.text, confident |-> acc.confident]
<1>1. given' = [given EXCEPT ![turn] = k]
  BY DEF Take
<1>2. /\ given'[turn].text = acc.text /\ given'[turn].confident = acc.confident
      /\ \A t \in Turn \ {turn} : given'[t] = given[t]
  BY <1>1 DEF IInv, TypeOK
<1>3. Lists(acc.text, SpokenIn(turn)) /\ acc.confident = {u \in SpokenIn(turn) : spoken[u].sure}
  BY AllHeard DEF WellTimed
<1>4. \A t \in Turn : SpokenIn(t)' = SpokenIn(t)
  BY DEF SpokenIn
<1>5. ASSUME NEW t \in Turn, given'[t].kind = "spoken"
      PROVE  /\ Lists(given'[t].text, SpokenIn(t)')
             /\ given'[t].confident = {u \in SpokenIn(t)' : spoken'[u].sure}
  BY <1>2, <1>3, <1>4, <1>5 DEF GivenExactly
<1> QED BY <1>5 DEF GivenExactly, Lists

\* What is heard stays when nothing new is transcribed.
LEMMA HeardStays ==
    ASSUME Lists(acc.text, Heard), acc.confident = {u \in Heard : spoken[u].sure},
           Heard' = Heard, \A u \in Heard : spoken'[u].sure = spoken[u].sure,
           acc'.text = acc.text, acc'.confident = acc.confident
    PROVE  Lists(acc.text, Heard)' /\ acc'.confident = {u \in Heard' : spoken'[u].sure}
<1>1. Lists(acc'.text, Heard')
  OBVIOUS
<1>2. Lists(acc.text, Heard)'
  BY <1>1 DEF Lists
<1> QED BY <1>2

LEMMA SpeechStartExact ==
    ASSUME IInv, InTurn, WellTimed, GivenExactly, NEW u \in Utterance, SpeechStart(u), smooth'
    PROVE  WellTimed' /\ GivenExactly'
<1>1. /\ spoken \in [Utterance -> Spoken] /\ spoken[u] \in Spoken /\ acc \in Accumulator
      /\ spoken[u].pc = "unsaid" /\ ~ Speaking /\ pc = "idle" /\ routed
      /\ pc' = pc /\ routed' = routed /\ turn' = turn /\ given' = given
      /\ spoken[u].turn = 0
  BY DEF SpeechStart, IInv, TypeOK, WellTimed, InTurn
<1>2. /\ acc'.text = acc.text /\ acc'.confident = acc.confident /\ acc'.awaiting = acc.awaiting
  BY <1>1 DEF SpeechStart, Route, Accumulator
<1>3. /\ spoken'[u].pc = "speaking" /\ spoken'[u].turn = turn
      /\ \A v \in Utterance \ {u} : spoken'[v] = spoken[v]
  BY <1>1 DEF SpeechStart, Spoken
<1>4. Heard' = Heard /\ Pending' = Pending
  BY <1>1, <1>3 DEF Heard, SpokenIn, Pending
<1>5. Lists(acc.text, Heard)' /\ acc'.confident = {v \in Heard' : spoken'[v].sure}
  <2>1. \A v \in Heard : spoken'[v].sure = spoken[v].sure
    BY <1>1, <1>3 DEF Heard, SpokenIn
  <2> QED BY <1>2, <1>4, <2>1, HeardStays DEF WellTimed
<1>6. WellTimed'
  BY <1>1, <1>2, <1>3, <1>4, <1>5 DEF WellTimed
<1>7. ASSUME NEW t \in Turn, given[t].kind = "spoken"
      PROVE  /\ SpokenIn(t)' = SpokenIn(t)
             /\ \A v \in SpokenIn(t) : spoken'[v].sure = spoken[v].sure
  <2>1. t # turn /\ t # 0
    BY <1>7, PastTurns DEF Turn
  <2> QED BY <1>1, <1>3, <2>1 DEF SpokenIn
<1> QED BY <1>1, <1>6, <1>7, GivenKept

LEMMA DeltaExact ==
    ASSUME IInv, WellTimed, GivenExactly, NEW u \in Utterance, Delta(u)
    PROVE  WellTimed' /\ GivenExactly'
<1>1. /\ UNCHANGED <<pc, routed, turn, given, spoken>> /\ acc \in Accumulator
  BY DEF Delta, IInv, TypeOK
<1>2. /\ acc'.text = acc.text /\ acc'.confident = acc.confident /\ acc'.awaiting = acc.awaiting
  BY <1>1 DEF Delta, Route, Accumulator
<1>3. Heard' = Heard /\ Pending' = Pending /\ Speaking' = Speaking
  BY <1>1 DEF Heard, SpokenIn, Pending, Speaking
<1>4. Lists(acc.text, Heard)' /\ acc'.confident = {v \in Heard' : spoken'[v].sure}
  BY <1>1, <1>2, <1>3, HeardStays DEF WellTimed
<1>5. WellTimed'
  BY <1>1, <1>2, <1>3, <1>4 DEF WellTimed
<1> QED BY <1>1, <1>5, GivenKept DEF SpokenIn

LEMMA SpeechEndExact ==
    ASSUME IInv, InTurn, WellTimed, GivenExactly, NEW u \in Utterance, SpeechEnd(u), smooth'
    PROVE  WellTimed' /\ GivenExactly'
<1>1. /\ spoken \in [Utterance -> Spoken] /\ spoken[u] \in Spoken /\ acc \in Accumulator
      /\ spoken[u].pc = "speaking" /\ Pending = {} /\ pc = "idle" /\ routed
      /\ pc' = pc /\ routed' = routed /\ turn' = turn /\ given' = given
      /\ spoken[u].turn = turn
  BY DEF SpeechEnd, IInv, TypeOK, WellTimed, Speaking
<1>2. /\ acc'.text = acc.text /\ acc'.confident = acc.confident /\ acc'.awaiting = TRUE
  BY <1>1 DEF SpeechEnd, Route, Accumulator
<1>3. /\ spoken'[u].pc = "stopped" /\ spoken'[u].turn = turn
      /\ \A v \in Utterance \ {u} : spoken'[v] = spoken[v]
      /\ \A v \in Utterance : spoken'[v].sure = spoken[v].sure
                              /\ spoken'[v].turn = spoken[v].turn
  BY <1>1 DEF SpeechEnd, Spoken
<1>4. Heard' = Heard /\ Pending' = {u} /\ \A t \in Turn : SpokenIn(t)' = SpokenIn(t)
  BY <1>1, <1>3 DEF Heard, SpokenIn, Pending
<1>5. Lists(acc.text, Heard)' /\ acc'.confident = {v \in Heard' : spoken'[v].sure}
  <2>1. \A v \in Heard : spoken'[v].sure = spoken[v].sure
    BY <1>3 DEF Heard, SpokenIn
  <2> QED BY <1>2, <1>4, <2>1, HeardStays DEF WellTimed
<1>6. \A v, w \in Utterance :
         spoken'[v].pc = "stopped" /\ w > v => spoken'[w].pc \in {"unsaid", "speaking"}
  <2>1. \A v \in Utterance : spoken'[v].pc = "stopped" => v = u
    BY <1>4 DEF Pending
  <2>2. \A w \in Utterance : w > u => w # u /\ spoken[w].pc = "unsaid"
    BY <1>1 DEF InTurn, Utterance
  <2> QED BY <1>3, <2>1, <2>2
<1>7. WellTimed'
  BY <1>1, <1>2, <1>3, <1>4, <1>5, <1>6 DEF WellTimed
<1> QED BY <1>1, <1>3, <1>4, <1>7, GivenKept DEF SpokenIn

LEMMA FinalExact ==
    ASSUME IInv, InTurn, WellTimed, GivenExactly,
           NEW u \in Utterance, NEW sure \in BOOLEAN, Final(u, sure)
    PROVE  WellTimed' /\ GivenExactly'
<1> DEFINE more == acc.confident \cup (IF sure THEN {u} ELSE {})
<1>1. /\ spoken \in [Utterance -> Spoken] /\ spoken[u] \in Spoken /\ acc.text \in Seq(Piece)
      /\ spoken[u].pc = "stopped" /\ spoken[u].turn = turn /\ routed
      /\ routed' = routed /\ turn' = turn /\ given' = given
      /\ Utterance \subseteq Int /\ turn \in 1 .. MaxTurn + 1
  BY DEF Final, IInv, TypeOK, WellTimed, Accumulator, Utterance
<1>2. acc'.text = Append(acc.text, Whole(u)) /\ acc'.confident = more /\ acc'.awaiting = FALSE
  BY <1>1 DEF Final, Route
<1>3. /\ spoken'[u].pc = "done" /\ spoken'[u].turn = turn /\ spoken'[u].sure = sure
      /\ \A v \in Utterance \ {u} : spoken'[v] = spoken[v]
  <2>1. PICK f : spoken' = [spoken EXCEPT ![u] = [spoken[u] EXCEPT !.pc = "done", !.sure = sure,
                                                                  !.final = f]]
    BY DEF Final
  <2> QED BY <1>1, <2>1 DEF Spoken
<1>4. \A v \in Utterance : v > u => spoken[v].pc \in {"unsaid", "speaking"}
  BY <1>1 DEF WellTimed
<1>5. Pending = {u}
  <2>1. ASSUME NEW v \in Utterance, spoken[v].pc = "stopped"
        PROVE  v = u
    BY <1>1, <1>4, <2>1 DEF WellTimed
  <2> QED BY <1>1, <2>1 DEF Pending
<1>6. Pending' = {} /\ Heard' = Heard \cup {u} /\ u \notin Heard
  BY <1>1, <1>3, <1>5 DEF Pending, Heard, SpokenIn
<1>7. /\ \A v \in Heard : v < u
      /\ Heard \in SUBSET Utterance
  BY <1>1, <1>4, <1>6 DEF Heard, SpokenIn
<1>8. Lists(acc'.text, Heard')
  BY <1>1, <1>2, <1>6, <1>7, ListsOneMore DEF WellTimed
<1>9. Lists(acc.text, Heard)'
  BY <1>8 DEF Lists
<1>10. acc'.confident = {v \in Heard' : spoken'[v].sure}
  <2>1. \A v \in Heard : spoken'[v] = spoken[v]
    BY <1>3, <1>6, <1>7
  <2>2. {v \in Heard' : spoken'[v].sure} = {v \in Heard : spoken[v].sure} \cup (IF sure THEN {u} ELSE {})
    BY <1>3, <1>6, <2>1
  <2> QED BY <1>2, <2>2 DEF WellTimed
<1>11. /\ pc' # "idle" => ~ Speaking'
       /\ \A v \in Utterance : spoken'[v].pc \in {"speaking", "stopped"} => spoken'[v].turn = turn
  BY <1>1, <1>3 DEF Final, Woken, WellTimed, Speaking
<1>12. WellTimed'
  <2>1. \A v \in Utterance : spoken'[v].pc # "stopped"
    BY <1>6 DEF Pending
  <2> QED BY <1>1, <1>2, <1>6, <1>9, <1>10, <1>11, <2>1 DEF WellTimed
<1>13. ASSUME NEW t \in Turn, given[t].kind = "spoken"
       PROVE  /\ SpokenIn(t)' = SpokenIn(t)
              /\ \A v \in SpokenIn(t) : spoken'[v].sure = spoken[v].sure
  <2>1. t # turn
    BY <1>13, PastTurns
  <2> QED BY <1>1, <1>3, <2>1 DEF SpokenIn
<1> QED BY <1>1, <1>12, <1>13, GivenKept

\* Typed turns and given-up questions are given nothing that was spoken.
LEMMA OtherTurnExact ==
    ASSUME IInv, InTurn, WellTimed, GivenExactly, smooth', TypedTurnEnd \/ QuestionStart
    PROVE  WellTimed' /\ GivenExactly'
<1>1. /\ ~ Speaking /\ Pending = {} /\ turn \in Turn /\ pc = "idle"
      /\ turn' = turn + 1 /\ acc' = Fresh /\ pc' = "idle" /\ routed' = routed /\ spoken' = spoken
  BY DEF TypedTurnEnd, QuestionStart, MayAct, Take
<1>2. WellTimed'
  BY <1>1, TurnOver
<1>3. \A t \in Turn : given'[t].kind = "spoken" => given'[t] = given[t]
  <2>1. CASE QuestionStart
    BY <2>1 DEF QuestionStart
  <2>2. CASE TypedTurnEnd
    <3>1. PICK k \in {[kind |-> "typed", text |-> <<>>, confident |-> {}]} :
             given' = [given EXCEPT ![turn] = k]
      BY <2>2 DEF TypedTurnEnd, Take
    <3>2. k.kind = "typed"
      OBVIOUS
    <3> QED BY <3>1, <3>2 DEF IInv, TypeOK
  <2> QED BY <2>1, <2>2
<1>4. \A t \in Turn : SpokenIn(t)' = SpokenIn(t)
  BY <1>1 DEF SpokenIn
<1>5. ASSUME NEW t \in Turn, given'[t].kind = "spoken"
      PROVE  /\ Lists(given'[t].text, SpokenIn(t)')
             /\ given'[t].confident = {u \in SpokenIn(t)' : spoken'[u].sure}
  BY <1>1, <1>3, <1>4, <1>5 DEF GivenExactly
<1> QED BY <1>2, <1>5 DEF GivenExactly, Lists

LEMMA TurnEndExact ==
    ASSUME IInv, InTurn, WellTimed, GivenExactly, smooth', TurnEnd
    PROVE  WellTimed' /\ GivenExactly'
<1>1. /\ ~ Speaking /\ turn \in Turn /\ routed' = routed /\ spoken' = spoken
  BY DEF TurnEnd, MayAct
<1>2. CASE ~ acc.awaiting /\ Take("spoken", acc.text)
  <2>1. Pending = {}
    BY <1>2 DEF WellTimed
  <2>2. turn' = turn + 1 /\ acc' = Fresh /\ pc' = "idle"
    BY <1>2 DEF Take
  <2> QED BY <1>1, <1>2, <2>1, <2>2, TurnOver, TakenExactly
<1>3. CASE pc' = "waiting" /\ UNCHANGED <<acc, turn, given>>
  <2>1. Heard' = Heard /\ Pending' = Pending /\ ~ Speaking'
        /\ \A t \in Turn : SpokenIn(t)' = SpokenIn(t)
    BY <1>1, <1>3 DEF Heard, SpokenIn, Pending, Speaking
  <2>2. Lists(acc.text, Heard)' /\ acc'.confident = {v \in Heard' : spoken'[v].sure}
    BY <1>1, <1>3, <2>1, HeardStays DEF WellTimed
  <2>3. WellTimed'
    BY <1>1, <1>3, <2>1, <2>2 DEF WellTimed
  <2> QED BY <1>1, <1>3, <2>1, <2>3, GivenKept
<1> QED BY <1>2, <1>3 DEF TurnEnd

LEMMA WakeExact ==
    ASSUME IInv, InTurn, WellTimed, GivenExactly, Wake
    PROVE  WellTimed' /\ GivenExactly'
<1>1. /\ ~ Speaking /\ Pending = {} /\ turn \in Turn /\ Take("spoken", acc.text)
      /\ routed' = routed /\ spoken' = spoken
      /\ turn' = turn + 1 /\ acc' = Fresh /\ pc' = "idle"
  BY DEF Wake, Take, WellTimed, IInv
<1> QED BY <1>1, TurnOver, TakenExactly

LEMMA InitExact == Init => ExactInv
<1> SUFFICES ASSUME Init PROVE ExactInv
  OBVIOUS
<1>1. /\ turn = 1 /\ routed /\ pc = "idle" /\ acc = Fresh
      /\ \A u \in Utterance : spoken[u].pc = "unsaid" /\ spoken[u].turn = 0
      /\ \A t \in Turn : given[t].kind = "none"
  BY DEF Init, Nothing
<1>2. Heard = {} /\ Pending = {}
  BY <1>1 DEF Heard, SpokenIn, Pending
<1>3. Lists(acc.text, Heard)
  BY <1>1, <1>2, ListsNothing DEF Fresh
<1>4. WellTimed
  BY <1>1, <1>2, <1>3 DEF WellTimed, Fresh
<1> QED BY <1>1, <1>4 DEF ExactInv, InTurn, GivenExactly

LEMMA ExactStep ==
    ASSUME IInv, ExactInv, [Next]_vars
    PROVE  ExactInv'
<1>1. InTurn'
  BY InTurnStep DEF ExactInv
<1>2. ASSUME smooth' PROVE WellTimed' /\ GivenExactly'
  <2>1. smooth /\ InTurn /\ WellTimed /\ GivenExactly
    <3>1. smooth
      BY <1>2 DEF Next, vars, SpeechStart, Delta, SpeechEnd, FinalEmpty, TranscriptionFails,
             Final, TurnEnd, Wake, TimesOut, TypedTurnEnd, QuestionStart, Clear
    <3> QED BY <3>1 DEF ExactInv
  <2>2. ASSUME NEW u \in Utterance, SpeechStart(u) \/ Delta(u) \/ SpeechEnd(u)
        PROVE  WellTimed' /\ GivenExactly'
    BY <1>2, <2>1, <2>2, SpeechStartExact, DeltaExact, SpeechEndExact
  <2>3. ASSUME NEW u \in Utterance, FinalEmpty(u) \/ TranscriptionFails(u)
        PROVE  FALSE
    BY <1>2, <2>3 DEF FinalEmpty, TranscriptionFails
  <2>4. ASSUME NEW u \in Utterance, NEW sure \in BOOLEAN, Final(u, sure)
        PROVE  WellTimed' /\ GivenExactly'
    BY <2>1, <2>4, FinalExact
  <2>5. CASE TurnEnd
    BY <1>2, <2>1, <2>5, TurnEndExact
  <2>6. CASE Wake
    BY <2>1, <2>6, WakeExact
  <2>7. CASE TypedTurnEnd \/ QuestionStart
    BY <1>2, <2>1, <2>7, OtherTurnExact
  <2>8. CASE TimesOut \/ Clear
    BY <1>2, <2>8 DEF TimesOut, Clear
  <2>9. CASE UNCHANGED vars
    <3>1. /\ UNCHANGED <<acc, pc, routed, turn, given, spoken>>
          /\ Heard' = Heard /\ Pending' = Pending /\ Speaking' = Speaking
          /\ \A t \in Turn : SpokenIn(t)' = SpokenIn(t)
      BY <2>9 DEF vars, Heard, SpokenIn, Pending, Speaking
    <3>2. Lists(acc.text, Heard)' /\ acc'.confident = {v \in Heard' : spoken'[v].sure}
      BY <2>1, <3>1, HeardStays DEF WellTimed
    <3>3. WellTimed'
      BY <2>1, <3>1, <3>2 DEF WellTimed
    <3> QED BY <2>1, <3>1, <3>3, GivenKept
  <2> QED BY <2>2, <2>3, <2>4, <2>5, <2>6, <2>7, <2>8, <2>9 DEF Next
<1> QED BY <1>1, <1>2 DEF ExactInv

\* As long as nothing goes wrong, a spoken turn is given what was said in it, all
\* of it and in order, with the confidence of exactly those words.
THEOREM NothingLost == Spec => []Exact
<1>1. Spec => []ExactInv
  BY Invariant, InitExact, ExactStep, PTL DEF Spec
<1>2. ExactInv => Exact
  BY DEF ExactInv, GivenExactly, Lists, Exact
<1> QED BY <1>1, <1>2, PTL
=============================================================================
