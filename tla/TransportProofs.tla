-------------------------- MODULE TransportProofs --------------------------
(* Proofs about the transports that keep state of their own: the voice session  *)
(* (VoiceTurns), the way in of a Telegram update (TelegramInbound), what is     *)
(* done with it before it is a turn (TelegramDialog) and the way out of a text  *)
(* (TelegramDelivery), for every value of their constants.                      *)
EXTENDS VoiceTurns, TelegramInbound, TelegramDialog, TelegramDelivery, TallyProofs, FiniteSetTheorems

-----------------------------------------------------------------------------
(* The component VoiceTurns                                                   *)

Utterances == Nat \ {0}
VoiceFrame == [type : FrameTypes, utt : Utterances]
Turn == [utt : Utterances, state : {"running", "cancelled", "ended"}]
Hearing == [handle : Nat \ {0}, utt : Utterances, audio : BOOLEAN]
Verdict == [handle : Nat \ {0}, utt : Utterances, class : {"interrupt", "backchannel"}]

VoiceTypeOK ==
    /\ vtMode \in {"barge", "legacy"}
    /\ vtConn \in {"new", "refused", "open", "over"}
    /\ vtReading \in BOOLEAN
    /\ vtSent \in Nat
    /\ vtFrames \in Seq(VoiceFrame)
    /\ vtActive \in Nat
    /\ vtPending \in Nat
    /\ vtTurns \in Seq(Turn)
    /\ vtHeard \in SUBSET Hearing
    /\ vtVerdicts \in Seq(Verdict)
    /\ vtDone \in Seq(Nat)

\* With barge-in the turn that has not unwound is the one in the slot, and the
\* slot is full until the actor has read its report.
SlotOK ==
    vtMode = "barge" =>
      /\ vtActive # 0 => vtActive \in DOMAIN vtTurns
      /\ \A h \in DOMAIN vtTurns : Alive(h) => h = vtActive
      /\ vtDone # <<>> => vtDone = <<vtActive>> /\ vtActive # 0 /\ ~ Alive(vtActive)
      /\ vtConn # "over" /\ vtActive # 0 => Alive(vtActive) \/ vtDone # <<>>
      /\ vtPending # 0 => vtActive # 0

\* Without it the actor does not exist, and a frame waits only between turns.
LegacyOK ==
    vtMode = "legacy" =>
      /\ vtActive = 0 /\ vtPending = 0 /\ vtHeard = {} /\ vtVerdicts = <<>> /\ vtDone = <<>>
      /\ Len(vtFrames) <= 1
      /\ vtFrames # <<>> => \A h \in DOMAIN vtTurns : ~ Alive(h)
      /\ SerialTurns

\* The utterances of each place.
FrameUtts == {vtFrames[i].utt : i \in DOMAIN vtFrames}
HeardUtts == {j.utt : j \in vtHeard}
VerdictUtts == {vtVerdicts[i].utt : i \in DOMAIN vtVerdicts}
PendingUtts == {vtPending} \ {0}
TurnUtts == {vtTurns[h].utt : h \in DOMAIN vtTurns}

\* Every utterance was sent, is in one place, and there once.
Sent == \A u \in FrameUtts \cup HeardUtts \cup VerdictUtts \cup PendingUtts \cup TurnUtts : u <= vtSent
OnePlace ==
    /\ FrameUtts \cap (HeardUtts \cup VerdictUtts \cup PendingUtts \cup TurnUtts) = {}
    /\ HeardUtts \cap (VerdictUtts \cup PendingUtts \cup TurnUtts) = {}
    /\ VerdictUtts \cap (PendingUtts \cup TurnUtts) = {}
    /\ PendingUtts \cap TurnUtts = {}
Once ==
    /\ \A i, j \in DOMAIN vtFrames : vtFrames[i].utt = vtFrames[j].utt => i = j
    /\ \A i, j \in vtHeard : i.utt = j.utt => i = j
    /\ \A i, j \in DOMAIN vtVerdicts : vtVerdicts[i].utt = vtVerdicts[j].utt => i = j
TurnAccounted == Sent /\ OnePlace /\ Once /\ AnsweredOnce

VoiceIInv == VoiceTypeOK /\ SlotOK /\ LegacyOK /\ TurnAccounted /\ NothingLeftRunning

-----------------------------------------------------------------------------
(* Sequences                                                                  *)

\* The front of a sequence and what is left of it.
LEMMA TailFacts ==
  ASSUME NEW S, NEW s \in Seq(S), s # <<>>
  PROVE  /\ Len(s) \in Nat \ {0} /\ Head(s) = s[1] /\ s[1] \in S
         /\ Tail(s) \in Seq(S) /\ Len(Tail(s)) = Len(s) - 1
         /\ \A i \in 1 .. Len(s) - 1 : Tail(s)[i] = s[i + 1]
  OBVIOUS

\* A sequence with one more element.
LEMMA AppendFacts ==
  ASSUME NEW S, NEW s \in Seq(S), NEW e \in S
  PROVE  /\ Append(s, e) \in Seq(S) /\ Len(Append(s, e)) = Len(s) + 1 /\ Len(s) \in Nat
         /\ DOMAIN Append(s, e) = 1 .. Len(s) + 1 /\ DOMAIN s = 1 .. Len(s)
         /\ Append(s, e)[Len(s) + 1] = e /\ \A i \in DOMAIN s : Append(s, e)[i] = s[i]
  OBVIOUS

\* The elements of a sequence.
LEMMA SeqFacts ==
  ASSUME NEW S, NEW s \in Seq(S)
  PROVE  Len(s) \in Nat /\ DOMAIN s = 1 .. Len(s) /\ \A i \in DOMAIN s : s[i] \in S
  OBVIOUS

\* A function on an initial segment of the numbers is a sequence.
LEMMA MakeSeq ==
  ASSUME NEW S, NEW s, NEW n \in Nat, s = [i \in DOMAIN s |-> s[i]],
         DOMAIN s = 1 .. n, \A i \in DOMAIN s : s[i] \in S
  PROVE  s \in Seq(S)
  OBVIOUS

\* Taking the first of records whose utterances differ takes its utterance.
LEMMA TakeFirst ==
  ASSUME NEW S, NEW s \in Seq(S), s # <<>>,
         \A i, j \in DOMAIN s : s[i].utt = s[j].utt => i = j
  PROVE  /\ Head(s) \in S /\ Tail(s) \in Seq(S) /\ Len(Tail(s)) = Len(s) - 1
         /\ Head(s).utt \in {s[i].utt : i \in DOMAIN s}
         /\ {Tail(s)[i].utt : i \in DOMAIN Tail(s)} \subseteq {s[i].utt : i \in DOMAIN s} \ {Head(s).utt}
         /\ \A i, j \in DOMAIN Tail(s) : Tail(s)[i].utt = Tail(s)[j].utt => i = j
<1>1. /\ Len(s) \in Nat \ {0} /\ Head(s) = s[1] /\ s[1] \in S
      /\ Tail(s) \in Seq(S) /\ Len(Tail(s)) = Len(s) - 1
      /\ \A i \in 1 .. Len(s) - 1 : Tail(s)[i] = s[i + 1]
  BY TailFacts
<1>2. DOMAIN s = 1 .. Len(s) /\ DOMAIN Tail(s) = 1 .. Len(s) - 1 BY <1>1, SeqFacts
<1>3. 1 \in DOMAIN s BY <1>1, <1>2
<1>4. Head(s).utt \in {s[i].utt : i \in DOMAIN s} BY <1>1, <1>3
<1>5. \A i \in DOMAIN Tail(s) : Tail(s)[i] = s[i + 1] /\ i + 1 \in DOMAIN s /\ i + 1 # 1 BY <1>1, <1>2
<1>6. {Tail(s)[i].utt : i \in DOMAIN Tail(s)} \subseteq {s[i].utt : i \in DOMAIN s} \ {Head(s).utt}
  BY <1>1, <1>3, <1>5
<1>7. \A i, j \in DOMAIN Tail(s) : Tail(s)[i].utt = Tail(s)[j].utt => i = j
  <2> SUFFICES ASSUME NEW i \in DOMAIN Tail(s), NEW j \in DOMAIN Tail(s), Tail(s)[i].utt = Tail(s)[j].utt
               PROVE  i = j
    OBVIOUS
  <2>1. i + 1 = j + 1 BY <1>5
  <2> QED BY <2>1, <1>2, <1>1
<1> QED BY <1>1, <1>4, <1>6, <1>7

-----------------------------------------------------------------------------
(* What the steps have in common                                              *)

\* A new turn, for an utterance that has none.
LEMMA NewTurn ==
  ASSUME VoiceIInv, NEW u \in Utterances, u \notin TurnUtts,
         vtTurns' = Append(vtTurns, [utt |-> u, state |-> "running"])
  PROVE  /\ vtTurns' \in Seq(Turn) /\ TurnUtts' = TurnUtts \cup {u} /\ AnsweredOnce'
         /\ Len(vtTurns) \in Nat /\ Len(vtTurns) + 1 \in DOMAIN vtTurns'
         /\ vtTurns'[Len(vtTurns) + 1].state = "running"
         /\ DOMAIN vtTurns' = DOMAIN vtTurns \cup {Len(vtTurns) + 1}
         /\ Len(vtTurns) + 1 \notin DOMAIN vtTurns
         /\ \A h \in DOMAIN vtTurns : vtTurns'[h] = vtTurns[h]
<1>1. vtTurns \in Seq(Turn) /\ AnsweredOnce BY DEF VoiceIInv, VoiceTypeOK, TurnAccounted
<1> DEFINE new == [utt |-> u, state |-> "running"]
<1>2. new \in Turn BY DEF Turn, Utterances
<1>3. /\ vtTurns' \in Seq(Turn) /\ Len(vtTurns') = Len(vtTurns) + 1 /\ Len(vtTurns) \in Nat
      /\ DOMAIN vtTurns' = 1 .. Len(vtTurns) + 1 /\ DOMAIN vtTurns = 1 .. Len(vtTurns)
      /\ vtTurns'[Len(vtTurns) + 1] = new /\ \A h \in DOMAIN vtTurns : vtTurns'[h] = vtTurns[h]
  BY <1>1, <1>2, AppendFacts
<1>4. DOMAIN vtTurns' = DOMAIN vtTurns \cup {Len(vtTurns) + 1} /\ Len(vtTurns) + 1 \notin DOMAIN vtTurns
  BY <1>3
<1> HIDE DEF new
<1>5. new.utt = u /\ new.state = "running" BY DEF new
<1>6. TurnUtts' = TurnUtts \cup {u} BY <1>3, <1>4, <1>5 DEF TurnUtts
<1>7. AnsweredOnce'
  BY <1>1, <1>3, <1>4, <1>5 DEF AnsweredOnce, TurnUtts
<1> QED BY <1>3, <1>4, <1>5, <1>6, <1>7

\* Cancelling the turn in the slot changes its state and nothing else.
LEMMA Cancelled ==
  ASSUME VoiceIInv,
         vtTurns' = [h \in DOMAIN vtTurns |-> IF h = vtActive /\ vtTurns[h].state = "running"
                                              THEN [vtTurns[h] EXCEPT !.state = "cancelled"] ELSE vtTurns[h]]
  PROVE  /\ vtTurns' \in Seq(Turn) /\ DOMAIN vtTurns' = DOMAIN vtTurns
         /\ TurnUtts' = TurnUtts /\ AnsweredOnce'
         /\ \A h \in DOMAIN vtTurns : vtTurns'[h].state \in {"running", "cancelled"} <=> Alive(h)
         /\ vtActive \in DOMAIN vtTurns => vtTurns'[vtActive].state # "running"
<1>1. vtTurns \in Seq(Turn) /\ AnsweredOnce BY DEF VoiceIInv, VoiceTypeOK, TurnAccounted
<1>2. /\ DOMAIN vtTurns = 1 .. Len(vtTurns) /\ Len(vtTurns) \in Nat
      /\ \A h \in DOMAIN vtTurns : vtTurns[h] \in Turn
  BY <1>1, SeqFacts
<1>3. DOMAIN vtTurns' = DOMAIN vtTurns OBVIOUS
<1>4. \A h \in DOMAIN vtTurns : /\ vtTurns'[h] \in Turn /\ vtTurns'[h].utt = vtTurns[h].utt
                                /\ vtTurns'[h].state \in {"running", "cancelled"} <=> Alive(h)
                                /\ h = vtActive => vtTurns'[h].state # "running"
  BY <1>2 DEF Alive, Turn
<1>5. vtTurns' \in Seq(Turn) BY <1>2, <1>3, <1>4, MakeSeq
<1>6. TurnUtts' = TurnUtts BY <1>3, <1>4 DEF TurnUtts
<1>7. AnsweredOnce' BY <1>1, <1>3, <1>4 DEF AnsweredOnce
<1> QED BY <1>3, <1>4, <1>5, <1>6, <1>7

\* What a step leaves alone keeps its utterances.
LEMMA Places ==
  /\ vtFrames' = vtFrames => FrameUtts' = FrameUtts
  /\ vtHeard' = vtHeard => HeardUtts' = HeardUtts
  /\ vtVerdicts' = vtVerdicts => VerdictUtts' = VerdictUtts
  /\ vtPending' = vtPending => PendingUtts' = PendingUtts
  /\ vtTurns' = vtTurns => TurnUtts' = TurnUtts /\ (AnsweredOnce => AnsweredOnce')
  BY DEF FrameUtts, HeardUtts, VerdictUtts, PendingUtts, TurnUtts, AnsweredOnce

-----------------------------------------------------------------------------
(* One lemma per step                                                         *)

LEMMA InitInv == VoiceInit => VoiceIInv
<1> SUFFICES ASSUME VoiceInit PROVE VoiceIInv OBVIOUS
<1>1. VoiceTypeOK BY DEF VoiceInit, VoiceTypeOK
<1>2. DOMAIN vtTurns = {} /\ DOMAIN vtFrames = {} /\ DOMAIN vtVerdicts = {} /\ Len(vtFrames) = 0
  BY DEF VoiceInit
<1>3. SlotOK /\ LegacyOK /\ NothingLeftRunning
  BY <1>2 DEF VoiceInit, SlotOK, LegacyOK, NothingLeftRunning, SerialTurns
<1>4. TurnAccounted
  BY <1>2 DEF VoiceInit, TurnAccounted, Sent, OnePlace, Once, AnsweredOnce, FrameUtts, HeardUtts,
              VerdictUtts, PendingUtts, TurnUtts
<1> QED BY <1>1, <1>3, <1>4 DEF VoiceIInv

LEMMA StutterInv == VoiceIInv /\ UNCHANGED voiceVars => VoiceIInv'
<1> SUFFICES ASSUME VoiceIInv, UNCHANGED voiceVars PROVE VoiceIInv' OBVIOUS
<1>1. VoiceTypeOK' BY DEF VoiceIInv, VoiceTypeOK, voiceVars
<1>2. SlotOK' BY DEF VoiceIInv, SlotOK, voiceVars, Alive
<1>3. LegacyOK' BY DEF VoiceIInv, LegacyOK, SerialTurns, voiceVars, Alive
<1>4. TurnAccounted' BY Places DEF VoiceIInv, TurnAccounted, Sent, OnePlace, Once, voiceVars
<1>5. NothingLeftRunning' BY DEF VoiceIInv, NothingLeftRunning, voiceVars
<1> QED BY <1>1, <1>2, <1>3, <1>4, <1>5 DEF VoiceIInv

LEMMA HandleWSInv == VoiceIInv /\ HandleWS => VoiceIInv'
<1> SUFFICES ASSUME VoiceIInv, HandleWS PROVE VoiceIInv' OBVIOUS
<1>1. VoiceTypeOK' BY DEF VoiceIInv, VoiceTypeOK, HandleWS
<1>2. SlotOK' 
  <2>1. \A h \in DOMAIN vtTurns : Alive(h)' <=> Alive(h) BY DEF Alive, HandleWS
  <2> QED BY <2>1 DEF VoiceIInv, SlotOK, HandleWS, Alive, VoiceTypeOK
<1>3. LegacyOK' BY DEF VoiceIInv, LegacyOK, SerialTurns, HandleWS, Alive
<1>4. TurnAccounted' BY Places DEF VoiceIInv, TurnAccounted, Sent, OnePlace, Once, HandleWS
<1>5. NothingLeftRunning' BY DEF VoiceIInv, NothingLeftRunning, HandleWS
<1> QED BY <1>1, <1>2, <1>3, <1>4, <1>5 DEF VoiceIInv

LEMMA ReadFrameInv == VoiceIInv /\ ReadFrame => VoiceIInv'
<1> SUFFICES ASSUME VoiceIInv, ReadFrame PROVE VoiceIInv' OBVIOUS
<1>1. PICK type \in FrameTypes : vtFrames' = Append(vtFrames, [type |-> type, utt |-> vtSent + 1])
  BY DEF ReadFrame
<1> DEFINE new == [type |-> type, utt |-> vtSent + 1]
<1>2. new \in VoiceFrame /\ new.utt = vtSent + 1 /\ vtSent \in Nat /\ vtFrames \in Seq(VoiceFrame)
  BY DEF VoiceFrame, Utterances, VoiceIInv, VoiceTypeOK
<1>3. vtFrames' = Append(vtFrames, new) BY <1>1
<1> HIDE DEF new
<1>4. /\ vtFrames' \in Seq(VoiceFrame) /\ Len(vtFrames') = Len(vtFrames) + 1 /\ Len(vtFrames) \in Nat
      /\ DOMAIN vtFrames' = 1 .. Len(vtFrames) + 1 /\ DOMAIN vtFrames = 1 .. Len(vtFrames)
      /\ vtFrames'[Len(vtFrames) + 1] = new /\ \A i \in DOMAIN vtFrames : vtFrames'[i] = vtFrames[i]
  BY <1>2, <1>3, AppendFacts
<1>5. \A i \in DOMAIN vtFrames' : i = Len(vtFrames) + 1 \/ i \in DOMAIN vtFrames BY <1>4
<1>6. FrameUtts' \subseteq FrameUtts \cup {vtSent + 1} BY <1>2, <1>4, <1>5 DEF FrameUtts
<1>7. \A i \in DOMAIN vtFrames : vtFrames[i].utt # vtSent + 1
  <2>1. \A u \in FrameUtts : u <= vtSent BY DEF VoiceIInv, TurnAccounted, Sent
  <2>2. vtSent + 1 \notin FrameUtts BY <2>1, <1>2
  <2> QED BY <2>2 DEF FrameUtts
<1>8. \A i, j \in DOMAIN vtFrames' : vtFrames'[i].utt = vtFrames'[j].utt => i = j
  BY <1>2, <1>4, <1>5, <1>7 DEF VoiceIInv, TurnAccounted, Once
<1>9. /\ HeardUtts' = HeardUtts /\ VerdictUtts' = VerdictUtts /\ PendingUtts' = PendingUtts
      /\ TurnUtts' = TurnUtts /\ AnsweredOnce'
  BY Places DEF ReadFrame, VoiceIInv, TurnAccounted
<1>10. VoiceTypeOK' BY <1>2, <1>4 DEF VoiceIInv, VoiceTypeOK, ReadFrame
<1>11. SlotOK' BY DEF VoiceIInv, SlotOK, ReadFrame, Alive
<1>12. LegacyOK'
  <2>1. vtMode = "legacy" => Len(vtFrames) = 0 BY DEF ReadFrame
  <2> QED BY <2>1, <1>4 DEF VoiceIInv, LegacyOK, SerialTurns, ReadFrame, Alive
<1>13. Sent'
  <2>1. Sent /\ vtSent' = vtSent + 1 BY DEF VoiceIInv, TurnAccounted, ReadFrame
  <2>2. \A u \in FrameUtts' \cup HeardUtts \cup VerdictUtts \cup PendingUtts \cup TurnUtts :
           u = vtSent + 1 \/ (u \in FrameUtts \cup HeardUtts \cup VerdictUtts \cup PendingUtts \cup TurnUtts)
    BY <1>6
  <2>3. \A u \in FrameUtts \cup HeardUtts \cup VerdictUtts \cup PendingUtts \cup TurnUtts : u \in Nat
    <3>1. /\ \A i \in DOMAIN vtFrames : vtFrames[i] \in VoiceFrame
          /\ \A i \in DOMAIN vtVerdicts : vtVerdicts[i] \in Verdict
          /\ \A i \in DOMAIN vtTurns : vtTurns[i] \in Turn
      BY SeqFacts DEF VoiceIInv, VoiceTypeOK
    <3>2. FrameUtts \subseteq Nat BY <3>1 DEF FrameUtts, VoiceFrame, Utterances
    <3>3. VerdictUtts \subseteq Nat BY <3>1 DEF VerdictUtts, Verdict, Utterances
    <3>4. TurnUtts \subseteq Nat BY <3>1 DEF TurnUtts, Turn, Utterances
    <3>5. HeardUtts \subseteq Nat BY DEF HeardUtts, Hearing, Utterances, VoiceIInv, VoiceTypeOK
    <3>6. PendingUtts \subseteq Nat BY DEF PendingUtts, VoiceIInv, VoiceTypeOK
    <3> QED BY <3>2, <3>3, <3>4, <3>5, <3>6
  <2> QED BY <2>1, <2>2, <2>3, <1>2, <1>9 DEF Sent
<1>14. OnePlace'
  <2>1. vtSent + 1 \notin HeardUtts \cup VerdictUtts \cup PendingUtts \cup TurnUtts
    BY <1>2 DEF VoiceIInv, TurnAccounted, Sent
  <2> QED BY <2>1, <1>6, <1>9 DEF VoiceIInv, TurnAccounted, OnePlace
<1>15. Once' BY <1>8 DEF VoiceIInv, TurnAccounted, Once, ReadFrame
<1>16. NothingLeftRunning' BY DEF VoiceIInv, NothingLeftRunning, ReadFrame
<1> QED BY <1>9, <1>10, <1>11, <1>12, <1>13, <1>14, <1>15, <1>16 DEF VoiceIInv, TurnAccounted

LEMMA ClientLeavesInv == VoiceIInv /\ ClientLeaves => VoiceIInv'
<1> SUFFICES ASSUME VoiceIInv, ClientLeaves PROVE VoiceIInv' OBVIOUS
<1>1. VoiceTypeOK' BY DEF VoiceIInv, VoiceTypeOK, ClientLeaves
<1>2. SlotOK' BY DEF VoiceIInv, SlotOK, ClientLeaves, Alive
<1>3. LegacyOK' BY DEF VoiceIInv, LegacyOK, SerialTurns, ClientLeaves, Alive
<1>4. TurnAccounted' BY Places DEF VoiceIInv, TurnAccounted, Sent, OnePlace, Once, ClientLeaves
<1>5. NothingLeftRunning' BY DEF VoiceIInv, NothingLeftRunning, ClientLeaves
<1> QED BY <1>1, <1>2, <1>3, <1>4, <1>5 DEF VoiceIInv

LEMMA LegacyEndsInv == VoiceIInv /\ LegacyEnds => VoiceIInv'
<1> SUFFICES ASSUME VoiceIInv, LegacyEnds PROVE VoiceIInv' OBVIOUS
<1>1. VoiceTypeOK' BY DEF VoiceIInv, VoiceTypeOK, LegacyEnds
<1>2. SlotOK' BY DEF VoiceIInv, SlotOK, LegacyEnds, Alive
<1>3. LegacyOK' BY DEF VoiceIInv, LegacyOK, SerialTurns, LegacyEnds, Alive
<1>4. TurnAccounted' BY Places DEF VoiceIInv, TurnAccounted, Sent, OnePlace, Once, LegacyEnds
<1>5. NothingLeftRunning' BY DEF NothingLeftRunning, LegacyEnds, Alive
<1> QED BY <1>1, <1>2, <1>3, <1>4, <1>5 DEF VoiceIInv

\* The front frame leaves the channel with its utterance.
LEMMA TakeFrame ==
  ASSUME VoiceIInv, vtFrames # <<>>, vtFrames' = Tail(vtFrames)
  PROVE  /\ Head(vtFrames).utt \in Utterances /\ vtFrames' \in Seq(VoiceFrame)
         /\ Len(vtFrames') = Len(vtFrames) - 1 /\ Len(vtFrames) \in Nat
         /\ Head(vtFrames).utt \in FrameUtts /\ FrameUtts' \subseteq FrameUtts \ {Head(vtFrames).utt}
         /\ \A i, j \in DOMAIN vtFrames' : vtFrames'[i].utt = vtFrames'[j].utt => i = j
<1>1. vtFrames \in Seq(VoiceFrame) /\ \A i, j \in DOMAIN vtFrames : vtFrames[i].utt = vtFrames[j].utt => i = j
  BY DEF VoiceIInv, VoiceTypeOK, TurnAccounted, Once
<1>2. /\ Head(vtFrames) \in VoiceFrame /\ Tail(vtFrames) \in Seq(VoiceFrame) /\ Len(Tail(vtFrames)) = Len(vtFrames) - 1
      /\ Head(vtFrames).utt \in {vtFrames[i].utt : i \in DOMAIN vtFrames}
      /\ {Tail(vtFrames)[i].utt : i \in DOMAIN Tail(vtFrames)}
            \subseteq {vtFrames[i].utt : i \in DOMAIN vtFrames} \ {Head(vtFrames).utt}
      /\ \A i, j \in DOMAIN Tail(vtFrames) : Tail(vtFrames)[i].utt = Tail(vtFrames)[j].utt => i = j
  BY <1>1, TakeFirst
<1>3. Head(vtFrames).utt \in Utterances BY <1>2 DEF VoiceFrame
<1>4. Len(vtFrames) \in Nat BY <1>1, SeqFacts
<1> QED BY <1>2, <1>3, <1>4 DEF FrameUtts

\* The same for the front verdict.
LEMMA TakeVerdict ==
  ASSUME VoiceIInv, vtVerdicts # <<>>, vtVerdicts' = Tail(vtVerdicts)
  PROVE  /\ Head(vtVerdicts).utt \in Utterances /\ vtVerdicts' \in Seq(Verdict)
         /\ Head(vtVerdicts).utt \in VerdictUtts
         /\ VerdictUtts' \subseteq VerdictUtts \ {Head(vtVerdicts).utt}
         /\ \A i, j \in DOMAIN vtVerdicts' : vtVerdicts'[i].utt = vtVerdicts'[j].utt => i = j
<1>1. /\ vtVerdicts \in Seq(Verdict)
      /\ \A i, j \in DOMAIN vtVerdicts : vtVerdicts[i].utt = vtVerdicts[j].utt => i = j
  BY DEF VoiceIInv, VoiceTypeOK, TurnAccounted, Once
<1>2. /\ Head(vtVerdicts) \in Verdict /\ Tail(vtVerdicts) \in Seq(Verdict)
      /\ Head(vtVerdicts).utt \in {vtVerdicts[i].utt : i \in DOMAIN vtVerdicts}
      /\ {Tail(vtVerdicts)[i].utt : i \in DOMAIN Tail(vtVerdicts)}
            \subseteq {vtVerdicts[i].utt : i \in DOMAIN vtVerdicts} \ {Head(vtVerdicts).utt}
      /\ \A i, j \in DOMAIN Tail(vtVerdicts) : Tail(vtVerdicts)[i].utt = Tail(vtVerdicts)[j].utt => i = j
  BY <1>1, TakeFirst
<1>3. Head(vtVerdicts).utt \in Utterances BY <1>2 DEF Verdict
<1> QED BY <1>2, <1>3 DEF VerdictUtts

LEMMA LegacyFrameInv == VoiceIInv /\ LegacyFrame => VoiceIInv'
<1> SUFFICES ASSUME VoiceIInv, LegacyFrame PROVE VoiceIInv' OBVIOUS
<1> DEFINE u == Head(vtFrames).utt
<1>1. /\ vtMode = "legacy" /\ vtConn = "open" /\ vtFrames # <<>> /\ vtFrames' = Tail(vtFrames)
      /\ UNCHANGED <<vtMode, vtConn, vtReading, vtSent, vtActive, vtPending, vtHeard, vtVerdicts, vtDone>>
  BY DEF LegacyFrame
<1>2. /\ u \in Utterances /\ vtFrames' \in Seq(VoiceFrame) /\ Len(vtFrames') = Len(vtFrames) - 1
      /\ Len(vtFrames) \in Nat
      /\ u \in FrameUtts /\ FrameUtts' \subseteq FrameUtts \ {u}
      /\ \A i, j \in DOMAIN vtFrames' : vtFrames'[i].utt = vtFrames'[j].utt => i = j
  BY <1>1, TakeFrame
<1>3. HeardUtts' = HeardUtts /\ VerdictUtts' = VerdictUtts /\ PendingUtts' = PendingUtts
  BY <1>1, Places
<1>4. vtTurns' = Append(vtTurns, [utt |-> u, state |-> "running"]) \/ vtTurns' = vtTurns
  BY DEF LegacyFrame
<1>5. u \notin TurnUtts BY <1>2 DEF VoiceIInv, TurnAccounted, OnePlace
<1>6. /\ vtMode = "legacy" => /\ vtActive = 0 /\ vtPending = 0 /\ vtHeard = {} /\ vtVerdicts = <<>>
                              /\ vtDone = <<>> /\ Len(vtFrames) <= 1
      /\ \A h \in DOMAIN vtTurns : ~ Alive(h)
  BY <1>1 DEF VoiceIInv, LegacyOK
<1> HIDE DEF u
<1>7. Len(vtFrames') = 0 /\ vtFrames' = <<>> 
  <2>1. Len(vtFrames') = 0
    <3>1. Len(vtFrames) # 0 BY <1>1 DEF VoiceIInv, VoiceTypeOK
    <3> QED BY <3>1, <1>1, <1>2, <1>6
  <2> QED BY <2>1, <1>2
<1>8. CASE vtTurns' = Append(vtTurns, [utt |-> u, state |-> "running"])
  <2>1. /\ vtTurns' \in Seq(Turn) /\ TurnUtts' = TurnUtts \cup {u} /\ AnsweredOnce'
        /\ DOMAIN vtTurns' = DOMAIN vtTurns \cup {Len(vtTurns) + 1}
        /\ \A h \in DOMAIN vtTurns : vtTurns'[h] = vtTurns[h]
    BY <1>2, <1>5, <1>8, NewTurn
  <2>2. VoiceTypeOK' BY <1>1, <1>2, <2>1 DEF VoiceIInv, VoiceTypeOK
  <2>3. SlotOK' /\ NothingLeftRunning' BY <1>1 DEF SlotOK, NothingLeftRunning
  <2>4. LegacyOK' BY <1>1, <1>6, <1>7, <2>1 DEF LegacyOK, SerialTurns, Alive
  <2>5. Sent' BY <1>1, <1>2, <1>3, <2>1 DEF VoiceIInv, TurnAccounted, Sent
  <2>6. OnePlace' BY <1>2, <1>3, <2>1 DEF VoiceIInv, TurnAccounted, OnePlace
  <2>7. Once' BY <1>1, <1>2 DEF VoiceIInv, TurnAccounted, Once
  <2> QED BY <2>1, <2>2, <2>3, <2>4, <2>5, <2>6, <2>7 DEF VoiceIInv, TurnAccounted
<1>9. CASE vtTurns' = vtTurns
  <2>1. TurnUtts' = TurnUtts /\ AnsweredOnce' BY <1>9, Places DEF VoiceIInv, TurnAccounted
  <2>2. VoiceTypeOK' BY <1>1, <1>2, <1>9 DEF VoiceIInv, VoiceTypeOK
  <2>3. SlotOK' /\ NothingLeftRunning' BY <1>1 DEF SlotOK, NothingLeftRunning
  <2>4. LegacyOK' BY <1>1, <1>6, <1>7, <1>9 DEF LegacyOK, SerialTurns, Alive
  <2>5. Sent' BY <1>1, <1>2, <1>3, <2>1 DEF VoiceIInv, TurnAccounted, Sent
  <2>6. OnePlace' BY <1>2, <1>3, <2>1 DEF VoiceIInv, TurnAccounted, OnePlace
  <2>7. Once' BY <1>1, <1>2 DEF VoiceIInv, TurnAccounted, Once
  <2> QED BY <2>1, <2>2, <2>3, <2>4, <2>5, <2>6, <2>7 DEF VoiceIInv, TurnAccounted
<1> QED BY <1>4, <1>8, <1>9

LEMMA DispatchFrameInv == VoiceIInv /\ DispatchFrame => VoiceIInv'
<1> SUFFICES ASSUME VoiceIInv, DispatchFrame PROVE VoiceIInv' OBVIOUS
<1> DEFINE f == Head(vtFrames)
           u == Head(vtFrames).utt
           new == [handle |-> vtActive, utt |-> u, audio |-> f.type = "audio"]
<1>1. /\ vtMode = "barge" /\ vtConn = "open" /\ vtFrames # <<>> /\ vtFrames' = Tail(vtFrames)
      /\ UNCHANGED <<vtMode, vtConn, vtReading, vtSent, vtPending, vtVerdicts, vtDone>>
  BY DEF DispatchFrame
<1>2. /\ u \in Utterances /\ vtFrames' \in Seq(VoiceFrame)
      /\ u \in FrameUtts /\ FrameUtts' \subseteq FrameUtts \ {u}
      /\ \A i, j \in DOMAIN vtFrames' : vtFrames'[i].utt = vtFrames'[j].utt => i = j
  BY <1>1, TakeFrame
<1>3. VerdictUtts' = VerdictUtts /\ PendingUtts' = PendingUtts BY <1>1, Places
<1>4. \/ CancelActive /\ vtHeard' = vtHeard
      \/ vtActive = 0 /\ StartTurn(u) /\ vtHeard' = vtHeard
      \/ vtActive # 0 /\ vtHeard' = vtHeard \cup {new} /\ vtTurns' = vtTurns /\ vtActive' = vtActive
      \/ vtHeard' = vtHeard /\ vtTurns' = vtTurns /\ vtActive' = vtActive
  BY DEF DispatchFrame
<1>5. /\ u \notin TurnUtts /\ u \notin HeardUtts /\ u \notin VerdictUtts /\ u \notin PendingUtts /\ u <= vtSent
  BY <1>2 DEF VoiceIInv, TurnAccounted, OnePlace, Sent
<1>6. LegacyOK' /\ NothingLeftRunning' BY <1>1 DEF LegacyOK, NothingLeftRunning
<1>7. SlotOK /\ VoiceTypeOK BY DEF VoiceIInv
<1>8. (vtActive # 0 => new \in Hearing) /\ new.utt = u BY <1>2, <1>7 DEF Hearing, VoiceTypeOK
<1> HIDE DEF u, f, new
<1>9. CASE CancelActive /\ vtHeard' = vtHeard
  <2>1. /\ vtTurns' \in Seq(Turn) /\ DOMAIN vtTurns' = DOMAIN vtTurns
        /\ TurnUtts' = TurnUtts /\ AnsweredOnce'
        /\ \A h \in DOMAIN vtTurns : vtTurns'[h].state \in {"running", "cancelled"} <=> Alive(h)
    BY <1>9, Cancelled DEF CancelActive
  <2>2. HeardUtts' = HeardUtts /\ vtActive' = vtActive BY <1>9, Places DEF CancelActive
  <2>3. VoiceTypeOK' BY <1>1, <1>2, <1>7, <1>9, <2>1, <2>2 DEF VoiceTypeOK
  <2>4. \A h \in DOMAIN vtTurns : Alive(h)' <=> Alive(h) BY <2>1 DEF Alive
  <2>5. vtActive # 0 => vtActive \in DOMAIN vtTurns BY <1>1, <1>7 DEF SlotOK
  <2>6. SlotOK'
    <3>1. vtActive # 0 => (Alive(vtActive)' <=> Alive(vtActive)) BY <2>1, <2>2, <2>5 DEF Alive
    <3> QED BY <1>1, <1>7, <2>1, <2>2, <2>4, <3>1 DEF SlotOK
  <2>7. TurnAccounted'
    BY <1>1, <1>2, <1>3, <1>5, <1>9, <2>1, <2>2 DEF VoiceIInv, TurnAccounted, Sent, OnePlace, Once
  <2> QED BY <1>6, <2>3, <2>6, <2>7 DEF VoiceIInv
<1>10. CASE vtActive = 0 /\ StartTurn(u) /\ vtHeard' = vtHeard
  <2>1. /\ vtTurns' \in Seq(Turn) /\ TurnUtts' = TurnUtts \cup {u} /\ AnsweredOnce'
        /\ Len(vtTurns) \in Nat /\ Len(vtTurns) + 1 \in DOMAIN vtTurns'
        /\ vtTurns'[Len(vtTurns) + 1].state = "running"
        /\ DOMAIN vtTurns' = DOMAIN vtTurns \cup {Len(vtTurns) + 1}
        /\ \A h \in DOMAIN vtTurns : vtTurns'[h] = vtTurns[h]
    BY <1>2, <1>5, <1>10, NewTurn DEF StartTurn
  <2>2. HeardUtts' = HeardUtts /\ vtActive' = Len(vtTurns) + 1 BY <1>10, Places DEF StartTurn
  <2>3. VoiceTypeOK' BY <1>1, <1>2, <1>7, <1>10, <2>1, <2>2 DEF VoiceTypeOK
  <2>4. vtDone = <<>> /\ \A h \in DOMAIN vtTurns : ~ Alive(h)
    <3>1. 0 \notin DOMAIN vtTurns BY <1>7, SeqFacts DEF VoiceTypeOK
    <3> QED BY <3>1, <1>1, <1>7, <1>10 DEF SlotOK
  <2>5. SlotOK' BY <1>1, <1>7, <2>1, <2>2, <2>4 DEF SlotOK, Alive
  <2>6. TurnAccounted'
    BY <1>1, <1>2, <1>3, <1>5, <1>10, <2>1, <2>2 DEF VoiceIInv, TurnAccounted, Sent, OnePlace, Once
  <2> QED BY <1>6, <2>3, <2>5, <2>6 DEF VoiceIInv
<1>11. CASE vtActive # 0 /\ vtHeard' = vtHeard \cup {new} /\ vtTurns' = vtTurns /\ vtActive' = vtActive
  <2>1. HeardUtts' = HeardUtts \cup {u} BY <1>8, <1>11 DEF HeardUtts
  <2>2. TurnUtts' = TurnUtts /\ AnsweredOnce' BY <1>11, Places DEF VoiceIInv, TurnAccounted
  <2>3. VoiceTypeOK' BY <1>1, <1>2, <1>7, <1>8, <1>11 DEF VoiceTypeOK
  <2>4. SlotOK' BY <1>1, <1>7, <1>11 DEF SlotOK, Alive
  <2>5. Sent' /\ OnePlace' BY <1>1, <1>2, <1>3, <1>5, <2>1, <2>2 DEF VoiceIInv, TurnAccounted, Sent, OnePlace
  <2>6. \A j \in vtHeard : j.utt # u BY <1>5 DEF HeardUtts
  <2>7. Once' BY <1>1, <1>2, <1>8, <1>11, <2>6 DEF VoiceIInv, TurnAccounted, Once
  <2> QED BY <1>6, <2>2, <2>3, <2>4, <2>5, <2>7 DEF VoiceIInv, TurnAccounted
<1>12. CASE vtHeard' = vtHeard /\ vtTurns' = vtTurns /\ vtActive' = vtActive
  <2>1. HeardUtts' = HeardUtts /\ TurnUtts' = TurnUtts /\ AnsweredOnce'
    BY <1>12, Places DEF VoiceIInv, TurnAccounted
  <2>2. VoiceTypeOK' BY <1>1, <1>2, <1>7, <1>12 DEF VoiceTypeOK
  <2>3. SlotOK' BY <1>1, <1>7, <1>12 DEF SlotOK, Alive
  <2>4. TurnAccounted' BY <1>1, <1>2, <1>3, <1>12, <2>1 DEF VoiceIInv, TurnAccounted, Sent, OnePlace, Once
  <2> QED BY <1>6, <2>2, <2>3, <2>4 DEF VoiceIInv
<1> QED BY <1>4, <1>9, <1>10, <1>11, <1>12

LEMMA OnInterjectionInv == VoiceIInv /\ OnInterjection => VoiceIInv'
<1> SUFFICES ASSUME VoiceIInv, OnInterjection PROVE VoiceIInv' OBVIOUS
<1> DEFINE v == Head(vtVerdicts)
           u == Head(vtVerdicts).utt
<1>1. /\ vtConn = "open" /\ vtVerdicts # <<>> /\ vtVerdicts' = Tail(vtVerdicts)
      /\ UNCHANGED <<vtMode, vtConn, vtReading, vtSent, vtFrames, vtHeard, vtDone>>
  BY DEF OnInterjection
<1>2. SlotOK /\ VoiceTypeOK BY DEF VoiceIInv
<1>3. vtMode = "barge" BY <1>1, <1>2 DEF VoiceIInv, LegacyOK, VoiceTypeOK
<1>4. /\ u \in Utterances /\ vtVerdicts' \in Seq(Verdict)
      /\ u \in VerdictUtts /\ VerdictUtts' \subseteq VerdictUtts \ {u}
      /\ \A i, j \in DOMAIN vtVerdicts' : vtVerdicts'[i].utt = vtVerdicts'[j].utt => i = j
  BY <1>1, TakeVerdict
<1>5. FrameUtts' = FrameUtts /\ HeardUtts' = HeardUtts BY <1>1, Places
<1>6. \/ vtActive = 0 /\ StartTurn(u) /\ vtPending' = vtPending
      \/ vtActive # 0 /\ vtPending' = u /\ vtTurns' = vtTurns /\ vtActive' = vtActive
      \/ vtActive = v.handle /\ CancelActive /\ vtPending' = u
      \/ vtPending' = vtPending /\ vtTurns' = vtTurns /\ vtActive' = vtActive
  BY DEF OnInterjection
<1>7. u \notin TurnUtts /\ u \notin HeardUtts /\ u \notin FrameUtts /\ u \notin PendingUtts /\ u <= vtSent
  BY <1>4 DEF VoiceIInv, TurnAccounted, OnePlace, Sent
<1>13. v.handle \in Nat \ {0}
  <2>1. vtVerdicts \in Seq(Verdict) BY <1>2 DEF VoiceTypeOK
  <2>2. v \in Verdict BY <1>1, <2>1, TailFacts
  <2> QED BY <2>2 DEF Verdict
<1>8. LegacyOK' /\ NothingLeftRunning' BY <1>1, <1>3 DEF LegacyOK, NothingLeftRunning
<1> HIDE DEF u, v
<1>9. CASE vtActive = 0 /\ StartTurn(u) /\ vtPending' = vtPending
  <2>1. /\ vtTurns' \in Seq(Turn) /\ TurnUtts' = TurnUtts \cup {u} /\ AnsweredOnce'
        /\ Len(vtTurns) \in Nat /\ Len(vtTurns) + 1 \in DOMAIN vtTurns'
        /\ vtTurns'[Len(vtTurns) + 1].state = "running"
        /\ DOMAIN vtTurns' = DOMAIN vtTurns \cup {Len(vtTurns) + 1}
        /\ \A h \in DOMAIN vtTurns : vtTurns'[h] = vtTurns[h]
    BY <1>4, <1>7, <1>9, NewTurn DEF StartTurn
  <2>2. PendingUtts' = PendingUtts /\ vtActive' = Len(vtTurns) + 1 BY <1>9, Places DEF StartTurn
  <2>3. VoiceTypeOK' BY <1>1, <1>2, <1>4, <1>9, <2>1, <2>2 DEF VoiceTypeOK
  <2>4. vtDone = <<>> /\ \A h \in DOMAIN vtTurns : ~ Alive(h)
    <3>1. 0 \notin DOMAIN vtTurns BY <1>2, SeqFacts DEF VoiceTypeOK
    <3> QED BY <3>1, <1>3, <1>2, <1>9 DEF SlotOK
  <2>5. SlotOK' BY <1>1, <1>2, <1>3, <1>9, <2>1, <2>2, <2>4 DEF SlotOK, Alive
  <2>6. TurnAccounted'
    BY <1>1, <1>4, <1>5, <1>7, <2>1, <2>2 DEF VoiceIInv, TurnAccounted, Sent, OnePlace, Once
  <2> QED BY <1>8, <2>3, <2>5, <2>6 DEF VoiceIInv
<1>10. CASE vtActive # 0 /\ vtPending' = u /\ vtTurns' = vtTurns /\ vtActive' = vtActive
  <2>1. PendingUtts' = {u} BY <1>4, <1>10 DEF PendingUtts, Utterances
  <2>2. TurnUtts' = TurnUtts /\ AnsweredOnce' BY <1>10, Places DEF VoiceIInv, TurnAccounted
  <2>3. VoiceTypeOK' BY <1>1, <1>2, <1>4, <1>10 DEF VoiceTypeOK, Utterances
  <2>4. SlotOK' BY <1>1, <1>2, <1>3, <1>10 DEF SlotOK, Alive
  <2>5. TurnAccounted'
    BY <1>1, <1>4, <1>5, <1>7, <2>1, <2>2 DEF VoiceIInv, TurnAccounted, Sent, OnePlace, Once
  <2> QED BY <1>8, <2>3, <2>4, <2>5 DEF VoiceIInv
<1>11. CASE vtActive = v.handle /\ CancelActive /\ vtPending' = u
  <2>1. /\ vtTurns' \in Seq(Turn) /\ DOMAIN vtTurns' = DOMAIN vtTurns
        /\ TurnUtts' = TurnUtts /\ AnsweredOnce'
        /\ \A h \in DOMAIN vtTurns : vtTurns'[h].state \in {"running", "cancelled"} <=> Alive(h)
    BY <1>11, Cancelled DEF CancelActive
  <2>2. PendingUtts' = {u} BY <1>4, <1>11 DEF PendingUtts, Utterances
  <2>3. vtActive' = vtActive BY <1>11 DEF CancelActive
  <2>4. VoiceTypeOK' BY <1>1, <1>2, <1>4, <1>11, <2>1, <2>3 DEF VoiceTypeOK, Utterances
  <2>5. \A h \in DOMAIN vtTurns : Alive(h)' <=> Alive(h) BY <2>1 DEF Alive
  <2>6. vtActive # 0 => vtActive \in DOMAIN vtTurns BY <1>3, <1>2 DEF SlotOK
  <2>7. vtActive # 0 BY <1>11, <1>13
  <2>8. SlotOK'
    <3>1. vtActive # 0 => (Alive(vtActive)' <=> Alive(vtActive)) BY <2>1, <2>3, <2>6 DEF Alive
    <3> QED BY <1>1, <1>2, <1>3, <2>1, <2>3, <2>5, <2>7, <3>1 DEF SlotOK
  <2>9. TurnAccounted'
    BY <1>1, <1>4, <1>5, <1>7, <2>1, <2>2 DEF VoiceIInv, TurnAccounted, Sent, OnePlace, Once
  <2> QED BY <1>8, <2>4, <2>8, <2>9 DEF VoiceIInv
<1>12. CASE vtPending' = vtPending /\ vtTurns' = vtTurns /\ vtActive' = vtActive
  <2>1. PendingUtts' = PendingUtts /\ TurnUtts' = TurnUtts /\ AnsweredOnce'
    BY <1>12, Places DEF VoiceIInv, TurnAccounted
  <2>2. VoiceTypeOK' BY <1>1, <1>2, <1>4, <1>12 DEF VoiceTypeOK
  <2>3. SlotOK' BY <1>1, <1>2, <1>3, <1>12 DEF SlotOK, Alive
  <2>4. TurnAccounted' BY <1>1, <1>4, <1>5, <2>1 DEF VoiceIInv, TurnAccounted, Sent, OnePlace, Once
  <2> QED BY <1>8, <2>2, <2>3, <2>4 DEF VoiceIInv
<1> QED BY <1>6, <1>9, <1>10, <1>11, <1>12

LEMMA OnTurnDoneInv == VoiceIInv /\ OnTurnDone => VoiceIInv'
<1> SUFFICES ASSUME VoiceIInv, OnTurnDone PROVE VoiceIInv' OBVIOUS
<1>1. /\ vtConn = "open" /\ vtDone # <<>> /\ vtDone' = Tail(vtDone)
      /\ UNCHANGED <<vtMode, vtConn, vtReading, vtSent, vtFrames, vtHeard, vtVerdicts>>
  BY DEF OnTurnDone
<1>2. SlotOK /\ VoiceTypeOK BY DEF VoiceIInv
<1>3. vtMode = "barge" BY <1>1, <1>2 DEF VoiceIInv, LegacyOK, VoiceTypeOK
<1>4. vtDone = <<vtActive>> /\ vtActive # 0 /\ ~ Alive(vtActive) BY <1>1, <1>2, <1>3 DEF SlotOK
<1>5. Head(vtDone) = vtActive /\ vtDone' = <<>> BY <1>1, <1>4
<1>6. \/ vtPending # 0 /\ StartTurn(vtPending) /\ vtPending' = 0
      \/ vtPending = 0 /\ vtActive' = 0 /\ vtPending' = vtPending /\ vtTurns' = vtTurns
  BY <1>5 DEF OnTurnDone
<1>7. \A h \in DOMAIN vtTurns : ~ Alive(h) BY <1>2, <1>3, <1>4 DEF SlotOK
<1>8. LegacyOK' /\ NothingLeftRunning' BY <1>1, <1>3 DEF LegacyOK, NothingLeftRunning
<1>9. FrameUtts' = FrameUtts /\ HeardUtts' = HeardUtts /\ VerdictUtts' = VerdictUtts BY <1>1, Places
<1>10. CASE vtPending # 0 /\ StartTurn(vtPending) /\ vtPending' = 0
  <2>1. vtPending \in Utterances /\ vtPending \in PendingUtts /\ PendingUtts' = {}
    BY <1>2, <1>10 DEF VoiceTypeOK, Utterances, PendingUtts
  <2>2. vtPending \notin TurnUtts /\ vtPending \notin FrameUtts \cup HeardUtts \cup VerdictUtts /\ vtPending <= vtSent
    BY <2>1 DEF VoiceIInv, TurnAccounted, OnePlace, Sent
  <2>3. /\ vtTurns' \in Seq(Turn) /\ TurnUtts' = TurnUtts \cup {vtPending} /\ AnsweredOnce'
        /\ Len(vtTurns) \in Nat /\ Len(vtTurns) + 1 \in DOMAIN vtTurns'
        /\ vtTurns'[Len(vtTurns) + 1].state = "running"
        /\ DOMAIN vtTurns' = DOMAIN vtTurns \cup {Len(vtTurns) + 1}
        /\ \A h \in DOMAIN vtTurns : vtTurns'[h] = vtTurns[h]
    BY <1>10, <2>1, <2>2, NewTurn DEF StartTurn
  <2>4. vtActive' = Len(vtTurns) + 1 BY <1>10 DEF StartTurn
  <2>5. VoiceTypeOK' BY <1>1, <1>2, <1>5, <1>10, <2>3, <2>4 DEF VoiceTypeOK
  <2>6. SlotOK' BY <1>1, <1>3, <1>5, <1>7, <1>10, <2>3, <2>4 DEF SlotOK, Alive
  <2>7. TurnAccounted'
    BY <1>1, <1>9, <2>1, <2>2, <2>3 DEF VoiceIInv, TurnAccounted, Sent, OnePlace, Once
  <2> QED BY <1>8, <2>5, <2>6, <2>7 DEF VoiceIInv
<1>11. CASE vtPending = 0 /\ vtActive' = 0 /\ vtPending' = vtPending /\ vtTurns' = vtTurns
  <2>1. PendingUtts' = PendingUtts /\ TurnUtts' = TurnUtts /\ AnsweredOnce'
    BY <1>11, Places DEF VoiceIInv, TurnAccounted
  <2>2. VoiceTypeOK' BY <1>1, <1>2, <1>5, <1>11 DEF VoiceTypeOK
  <2>3. SlotOK' BY <1>1, <1>5, <1>7, <1>11 DEF SlotOK, Alive
  <2>4. TurnAccounted' BY <1>1, <1>9, <2>1 DEF VoiceIInv, TurnAccounted, Sent, OnePlace, Once
  <2> QED BY <1>8, <2>2, <2>3, <2>4 DEF VoiceIInv
<1> QED BY <1>6, <1>10, <1>11

LEMMA RunReturnsInv == VoiceIInv /\ RunReturns => VoiceIInv'
<1> SUFFICES ASSUME VoiceIInv, RunReturns PROVE VoiceIInv' OBVIOUS
<1>1. /\ vtMode = "barge" /\ vtConn' = "over"
      /\ UNCHANGED <<vtMode, vtReading, vtSent, vtFrames, vtActive, vtPending, vtHeard, vtVerdicts, vtDone>>
  BY DEF RunReturns
<1>2. SlotOK /\ VoiceTypeOK BY DEF VoiceIInv
<1>3. /\ vtTurns' \in Seq(Turn) /\ DOMAIN vtTurns' = DOMAIN vtTurns
      /\ TurnUtts' = TurnUtts /\ AnsweredOnce'
      /\ \A h \in DOMAIN vtTurns : vtTurns'[h].state \in {"running", "cancelled"} <=> Alive(h)
      /\ vtActive \in DOMAIN vtTurns => vtTurns'[vtActive].state # "running"
  BY Cancelled DEF RunReturns, StopsTurn
<1>4. VoiceTypeOK' BY <1>1, <1>2, <1>3 DEF VoiceTypeOK
<1>5. \A h \in DOMAIN vtTurns : Alive(h)' <=> Alive(h) BY <1>3 DEF Alive
<1>6. vtActive # 0 => (Alive(vtActive)' <=> Alive(vtActive)) BY <1>1, <1>2, <1>3 DEF Alive, SlotOK
<1>7. SlotOK' BY <1>1, <1>2, <1>3, <1>5, <1>6 DEF SlotOK
<1>8. LegacyOK' BY <1>1 DEF LegacyOK
<1>9. NothingLeftRunning'
  <2> SUFFICES ASSUME NEW h \in DOMAIN vtTurns, vtTurns'[h].state = "running" PROVE FALSE
    BY <1>3 DEF NothingLeftRunning
  <2>1. Alive(h) BY <1>3
  <2>2. h = vtActive BY <1>1, <1>2, <2>1 DEF SlotOK
  <2> QED BY <2>2, <1>3
<1>10. TurnAccounted' BY <1>1, <1>3, Places DEF VoiceIInv, TurnAccounted, Sent, OnePlace, Once
<1> QED BY <1>4, <1>7, <1>8, <1>9, <1>10 DEF VoiceIInv

LEMMA ClassifyAsyncInv == ASSUME VoiceIInv, NEW job \in vtHeard, ClassifyAsync(job) PROVE VoiceIInv'
<1>1. /\ vtHeard' = vtHeard \ {job}
      /\ UNCHANGED <<vtMode, vtConn, vtReading, vtSent, vtFrames, vtActive, vtPending, vtTurns, vtDone>>
  BY DEF ClassifyAsync
<1>2. VoiceTypeOK /\ SlotOK /\ vtMode = "barge" BY DEF VoiceIInv, LegacyOK, VoiceTypeOK
<1>3. job \in Hearing BY <1>2 DEF VoiceTypeOK
<1>4. job.handle \in Nat \ {0} /\ job.utt \in Utterances BY <1>3 DEF Hearing
<1>5. \A i, j \in vtHeard : i.utt = j.utt => i = j BY DEF VoiceIInv, TurnAccounted, Once
<1>6. job.utt \in HeardUtts /\ HeardUtts' \subseteq HeardUtts \ {job.utt} BY <1>1, <1>5 DEF HeardUtts
<1>7. job.utt \notin FrameUtts \cup VerdictUtts \cup PendingUtts \cup TurnUtts /\ job.utt <= vtSent
  BY <1>6 DEF VoiceIInv, TurnAccounted, OnePlace, Sent
<1>8. /\ FrameUtts' = FrameUtts /\ PendingUtts' = PendingUtts /\ TurnUtts' = TurnUtts /\ AnsweredOnce'
  BY <1>1, Places DEF VoiceIInv, TurnAccounted
<1>9. SlotOK' BY <1>1, <1>2 DEF SlotOK, Alive
<1>10. LegacyOK' BY <1>1, <1>2 DEF LegacyOK
<1>11. NothingLeftRunning' BY <1>1 DEF VoiceIInv, NothingLeftRunning
<1>12. vtVerdicts' = vtVerdicts \/ \E class \in {"interrupt", "backchannel"} :
             vtVerdicts' = Append(vtVerdicts, [handle |-> job.handle, utt |-> job.utt, class |-> class])
  BY DEF ClassifyAsync
<1>13. CASE vtVerdicts' = vtVerdicts
  <2>1. VerdictUtts' = VerdictUtts BY <1>13, Places
  <2>2. VoiceTypeOK' BY <1>1, <1>2, <1>13 DEF VoiceTypeOK
  <2>3. Once' BY <1>1, <1>5, <1>13 DEF VoiceIInv, TurnAccounted, Once
  <2>4. TurnAccounted' BY <1>1, <1>6, <1>8, <2>1, <2>3 DEF VoiceIInv, TurnAccounted, Sent, OnePlace
  <2> QED BY <1>9, <1>10, <1>11, <2>2, <2>4 DEF VoiceIInv
<1>14. ASSUME NEW class \in {"interrupt", "backchannel"},
              vtVerdicts' = Append(vtVerdicts, [handle |-> job.handle, utt |-> job.utt, class |-> class])
       PROVE  VoiceIInv'
  <2> DEFINE new == [handle |-> job.handle, utt |-> job.utt, class |-> class]
  <2>1. new \in Verdict /\ new.utt = job.utt BY <1>4 DEF Verdict
  <2>2. vtVerdicts' = Append(vtVerdicts, new) /\ vtVerdicts \in Seq(Verdict) BY <1>2, <1>14 DEF VoiceTypeOK
  <2> HIDE DEF new
  <2>3. /\ vtVerdicts' \in Seq(Verdict) /\ Len(vtVerdicts) \in Nat
        /\ DOMAIN vtVerdicts' = 1 .. Len(vtVerdicts) + 1 /\ DOMAIN vtVerdicts = 1 .. Len(vtVerdicts)
        /\ vtVerdicts'[Len(vtVerdicts) + 1] = new
        /\ \A i \in DOMAIN vtVerdicts : vtVerdicts'[i] = vtVerdicts[i]
    BY <2>1, <2>2, AppendFacts
  <2>4. \A i \in DOMAIN vtVerdicts' : i = Len(vtVerdicts) + 1 \/ i \in DOMAIN vtVerdicts BY <2>3
  <2>5. VerdictUtts' \subseteq VerdictUtts \cup {job.utt} BY <2>1, <2>3, <2>4 DEF VerdictUtts
  <2>6. \A i \in DOMAIN vtVerdicts : vtVerdicts[i].utt # job.utt BY <1>7 DEF VerdictUtts
  <2>7. \A i, j \in DOMAIN vtVerdicts' : vtVerdicts'[i].utt = vtVerdicts'[j].utt => i = j
    BY <2>1, <2>3, <2>4, <2>6 DEF VoiceIInv, TurnAccounted, Once
  <2>8. VoiceTypeOK' BY <1>1, <1>2, <2>3 DEF VoiceTypeOK
  <2>9. Once' BY <1>1, <1>5, <2>7 DEF VoiceIInv, TurnAccounted, Once
  <2>10. TurnAccounted' BY <1>1, <1>6, <1>7, <1>8, <2>5, <2>9 DEF VoiceIInv, TurnAccounted, Sent, OnePlace
  <2> QED BY <1>9, <1>10, <1>11, <2>8, <2>10 DEF VoiceIInv
<1> QED BY <1>12, <1>13, <1>14

LEMMA TurnUnwindsInv == ASSUME VoiceIInv, NEW h \in DOMAIN vtTurns, TurnUnwinds(h) PROVE VoiceIInv'
<1>1. /\ Alive(h) /\ vtTurns' = [vtTurns EXCEPT ![h].state = "ended"]
      /\ UNCHANGED <<vtMode, vtConn, vtReading, vtSent, vtFrames, vtActive, vtPending, vtHeard, vtVerdicts>>
  BY DEF TurnUnwinds
<1>2. VoiceTypeOK /\ SlotOK /\ LegacyOK /\ AnsweredOnce BY DEF VoiceIInv, TurnAccounted
<1>3. /\ DOMAIN vtTurns = 1 .. Len(vtTurns) /\ Len(vtTurns) \in Nat
      /\ \A g \in DOMAIN vtTurns : vtTurns[g] \in Turn
  BY <1>2, SeqFacts DEF VoiceTypeOK
<1>4. /\ DOMAIN vtTurns' = DOMAIN vtTurns
      /\ \A g \in DOMAIN vtTurns : /\ vtTurns'[g] \in Turn /\ vtTurns'[g].utt = vtTurns[g].utt
                                   /\ g # h => vtTurns'[g] = vtTurns[g]
      /\ vtTurns'[h].state = "ended"
  BY <1>1, <1>3 DEF Turn
<1>5. vtTurns' = [g \in DOMAIN vtTurns' |-> vtTurns'[g]] BY <1>1
<1>6. vtTurns' \in Seq(Turn) BY <1>3, <1>4, <1>5, MakeSeq
<1>7. TurnUtts' = TurnUtts /\ AnsweredOnce' BY <1>2, <1>4 DEF TurnUtts, AnsweredOnce
<1>8. TurnAccounted' BY <1>1, <1>7, Places DEF VoiceIInv, TurnAccounted, Sent, OnePlace, Once
<1>9. NothingLeftRunning' BY <1>1, <1>4 DEF VoiceIInv, NothingLeftRunning
<1>10. \A g \in DOMAIN vtTurns : Alive(g)' <=> Alive(g) /\ g # h BY <1>4 DEF Alive
<1>11. \/ vtMode = "barge" /\ vtConn = "open" /\ vtDone' = Append(vtDone, h)
       \/ (vtMode = "legacy" \/ vtConn = "over") /\ vtDone' = vtDone
  BY DEF TurnUnwinds
<1>12. vtMode = "barge" => h = vtActive /\ vtDone = <<>> BY <1>1, <1>2 DEF SlotOK
<1>13. vtDone' \in Seq(Nat)
  <2>1. h \in Nat /\ vtDone \in Seq(Nat) BY <1>2, <1>3 DEF VoiceTypeOK
  <2>2. Append(vtDone, h) \in Seq(Nat) BY <2>1, AppendFacts
  <2> QED BY <1>11, <2>1, <2>2
<1>14. VoiceTypeOK' BY <1>1, <1>2, <1>6, <1>13 DEF VoiceTypeOK
<1>15. SlotOK'
  <2>1. vtMode = "barge" /\ vtConn = "open" => vtDone' = <<vtActive>> BY <1>11, <1>12, <1>2 DEF VoiceTypeOK
  <2>2. vtMode = "barge" => ~ Alive(vtActive)' BY <1>1, <1>12, <1>4 DEF Alive
  <2>3. vtMode = "barge" => vtActive \in DOMAIN vtTurns /\ vtActive # 0 BY <1>12, <1>3
  <2>4. vtMode = "barge" /\ vtConn # "open" => vtDone' = <<>> /\ vtConn = "over" BY <1>11, <1>12
  <2>5. vtMode = "barge" => \A g \in DOMAIN vtTurns' : Alive(g)' => g = vtActive BY <1>2, <1>4, <1>10 DEF SlotOK
  <2> QED BY <1>1, <1>4, <2>1, <2>2, <2>3, <2>4, <2>5 DEF SlotOK, Alive
<1>16. LegacyOK' BY <1>1, <1>2, <1>4, <1>10, <1>11 DEF LegacyOK, SerialTurns, Alive
<1> QED BY <1>8, <1>9, <1>14, <1>15, <1>16 DEF VoiceIInv

-----------------------------------------------------------------------------
(* The theorem                                                                *)

\* The strengthening is inductive.
LEMMA VoiceInductive == VoiceIInv /\ [VoiceNext]_voiceVars => VoiceIInv'
<1> SUFFICES ASSUME VoiceIInv, [VoiceNext]_voiceVars PROVE VoiceIInv' OBVIOUS
<1> QED BY StutterInv, HandleWSInv, ReadFrameInv, ClientLeavesInv, LegacyFrameInv, LegacyEndsInv,
           DispatchFrameInv, OnInterjectionInv, OnTurnDoneInv, RunReturnsInv, ClassifyAsyncInv,
           TurnUnwindsInv DEF VoiceNext

\* What the slot and the accounting of utterances give.
LEMMA VoiceImplies == VoiceIInv => VoiceSound
<1> SUFFICES ASSUME VoiceIInv PROVE VoiceSound OBVIOUS
<1>1. SerialTurns
  <2>1. vtMode = "barge" => SerialTurns BY DEF VoiceIInv, SlotOK, SerialTurns
  <2> QED BY <2>1 DEF VoiceIInv, LegacyOK, VoiceTypeOK
<1>2. PendingWillStart
  <2> SUFFICES ASSUME vtPending # 0, vtConn = "open"
               PROVE  vtActive # 0 /\ (Alive(vtActive) \/ vtActive \in {vtDone[i] : i \in DOMAIN vtDone})
    BY DEF PendingWillStart
  <2>1. vtMode = "barge" BY DEF VoiceIInv, LegacyOK, VoiceTypeOK
  <2>2. vtActive # 0 BY <2>1 DEF VoiceIInv, SlotOK
  <2>3. Alive(vtActive) \/ vtDone = <<vtActive>> BY <2>1, <2>2 DEF VoiceIInv, SlotOK
  <2>4. vtDone = <<vtActive>> => 1 \in DOMAIN vtDone /\ vtDone[1] = vtActive OBVIOUS
  <2> QED BY <2>2, <2>3, <2>4
<1>3. AnsweredOnce /\ NothingLeftRunning BY DEF VoiceIInv, TurnAccounted
<1> QED BY <1>1, <1>2, <1>3 DEF VoiceSound

\* Whatever the client sends and however the reports interleave, at most one
\* turn of a voice connection is running, an utterance that is queued will
\* start, none is answered twice, and a closed connection leaves nothing running
\* (turn_manager.go: the active slot is freed by onTurnDone and nowhere else).
THEOREM VoiceIsSound == VoiceSpec => []VoiceSound
<1>1. VoiceSpec => []VoiceIInv BY InitInv, VoiceInductive, PTL DEF VoiceSpec
<1> QED BY <1>1, VoiceImplies, PTL

-----------------------------------------------------------------------------
(* The component TelegramInbound                                              *)

Pipe == [row : BotRows, live : BOOLEAN, offset : Nat, batch : Seq(Nat), ch : Seq(Nat)]
Tagged == [row : BotRows, id : Nat]

\* The ids of tagged updates, in order.
IdsOf(q) == [k \in 1..Len(q) |-> q[k].id]

InboundTypeOK ==
    /\ ibArrived \in Seq(InboundKinds) /\ Len(ibArrived) <= MaxUpdates
    /\ ibAcked \in Nat /\ ibAcked >= 1 /\ ibAcked <= Len(ibArrived) + 1
    /\ ibDesired \in BotRows \cup {NoBot}
    /\ ibPipes \in Seq(Pipe) /\ ibShared \in Seq(Tagged) /\ ibCalls \in [Ids -> Nat]
    /\ DOMAIN ibProc = {"up", "stop", "restarts"} /\ ibProc.restarts \in Nat
    /\ ibProc.up # "up" => ibProc.stop

\* Only updates that arrived are on their way, and a cursor is at most one past them.
PipeKnows(pipe, n) ==
    /\ pipe.offset <= n + 1
    /\ InOf(pipe.batch) \subseteq 1..n /\ InOf(pipe.ch) \subseteq 1..n
KnownIds ==
    /\ \A p \in 1..Len(ibPipes) : PipeKnows(ibPipes[p], Len(ibArrived))
    /\ InOf(IdsOf(ibShared)) \subseteq 1..Len(ibArrived)

\* The registered bot has the newest poller, the only live one.
Registry ==
    /\ ibReg = NoBot => \A p \in 1..Len(ibPipes) : ~ibPipes[p].live
    /\ ibReg # NoBot =>
        /\ Len(ibPipes) >= 1 /\ ibPipes[Len(ibPipes)].live /\ ibPipes[Len(ibPipes)].row = ibReg
        /\ \A p \in 1..Len(ibPipes) : p # Len(ibPipes) => ~ibPipes[p].live

\* Every tag is the row of some poller.
TagsKnown == \A k \in 1..Len(ibShared) : \E p \in 1..Len(ibPipes) : ibPipes[p].row = ibShared[k].row

\* Dispatched, in a channel, or given up; all that Telegram confirmed or a poller
\* passed is.
Held(i, pipes, shared) ==
    \/ \E p \in 1..Len(pipes) : i \in InOf(pipes[p].batch) \cup InOf(pipes[p].ch)
    \/ i \in InOf(IdsOf(shared))
Accounted(i, calls, pipes, shared, lost) == calls[i] > 0 \/ Held(i, pipes, shared) \/ i \in lost
Passed(i) == i < ibAcked \/ \E p \in 1..Len(ibPipes) : i < ibPipes[p].offset
PassedIsAccounted == \A i \in Ids : Passed(i) => Accounted(i, ibCalls, ibPipes, ibShared, ibLost)

\* What was given up had a poller, in this process or an earlier one.
LossHadAPoller == ibLost # {} => Len(ibPipes) >= 1 \/ ibProc.stop \/ ibProc.restarts > 0

\* Behind one poller the updates keep Telegram's order, each in one place.
Increasing(q) == \A j, k \in 1..Len(q) : j < k => q[j] < q[k]
Below(S, T) == \A x \in S : \A y \in T : x < y
KeepsOrder(batch, ch, ids, offset, calls) ==
    /\ Increasing(batch) /\ Increasing(ch) /\ Increasing(ids)
    /\ Below(InOf(ids), InOf(ch)) /\ Below(InOf(ids), InOf(batch)) /\ Below(InOf(ch), InOf(batch))
    /\ Below(InOf(ids) \cup InOf(ch) \cup InOf(batch), {offset})
    /\ \A i \in Ids : /\ calls[i] <= 1
                      /\ calls[i] > 0 => Below({i}, InOf(ids) \cup InOf(ch) \cup InOf(batch) \cup {offset})
FirstProcess == ibProc.restarts = 0 /\ ibProc.up # "down"
OnePoller ==
    FirstProcess =>
        /\ Len(ibPipes) = 0 => ibShared = <<>> /\ \A i \in Ids : ibCalls[i] = 0
        /\ Len(ibPipes) = 1 => KeepsOrder(ibPipes[1].batch, ibPipes[1].ch, IdsOf(ibShared), ibPipes[1].offset, ibCalls)

\* The update in hand arrived; so did the ones that ended in silence.
HandKnown ==
    /\ DOMAIN ibHand = {"id", "pc"} /\ (ibHand.pc # "" => ibHand.id \in 1..Len(ibArrived))
    /\ ibSilent \subseteq 1..Len(ibArrived)

InboundIInv ==
    /\ InboundTypeOK /\ KnownIds /\ Registry /\ TagsKnown /\ PassedIsAccounted
    /\ LossHadAPoller /\ LossNeedsARemoval /\ OnePoller /\ HandKnown /\ AdmittedIsHeard

-----------------------------------------------------------------------------
(* Queues of ids                                                              *)

LEMMA QueueAppend ==
  ASSUME NEW q \in Seq(Nat), NEW x \in Nat
  PROVE  /\ Append(q, x) \in Seq(Nat) /\ InOf(Append(q, x)) = InOf(q) \cup {x}
         /\ Increasing(q) /\ Below(InOf(q), {x}) => Increasing(Append(q, x))
<1> DEFINE a == Append(q, x)
<1>1. a \in Seq(Nat) /\ Len(a) = Len(q) + 1 /\ Len(q) \in Nat OBVIOUS
<1>2. \A k \in 1..Len(q) : a[k] = q[k] /\ q[k] \in Nat OBVIOUS
<1>3. a[Len(q) + 1] = x OBVIOUS
<1> HIDE DEF a
<1>4. InOf(a) = InOf(q) \cup {x}
  <2>1. 1..Len(a) = 1..Len(q) \cup {Len(q) + 1} BY <1>1
  <2> QED BY <1>2, <1>3, <2>1, SMTT(30) DEF InOf
<1>5. ASSUME Increasing(q), Below(InOf(q), {x}) PROVE Increasing(a)
  <2> SUFFICES ASSUME NEW j \in 1..Len(a), NEW k \in 1..Len(a), j < k PROVE a[j] < a[k] BY DEF Increasing
  <2>1. j \in 1..Len(q) /\ (k \in 1..Len(q) \/ k = Len(q) + 1)
    <3>1. j \in Nat /\ k \in Nat /\ 1 <= j /\ 1 <= k /\ k <= Len(q) + 1 BY <1>1
    <3> QED BY <1>1, <3>1
  <2>2. CASE k \in 1..Len(q) BY <1>2, <1>5, <2>1, <2>2 DEF Increasing
  <2>3. CASE k = Len(q) + 1
    <3>1. a[j] \in InOf(q) BY <1>2, <2>1 DEF InOf
    <3> QED BY <1>3, <1>5, <2>3, <3>1 DEF Below
  <2> QED BY <2>1, <2>2, <2>3
<1> QED BY <1>1, <1>4, <1>5 DEF a

LEMMA QueueHead ==
  ASSUME NEW q \in Seq(Nat), q # <<>>
  PROVE  /\ Tail(q) \in Seq(Nat) /\ Head(q) \in Nat /\ InOf(q) = {Head(q)} \cup InOf(Tail(q))
         /\ Increasing(q) => Increasing(Tail(q)) /\ Below({Head(q)}, InOf(Tail(q)))
<1> DEFINE t == Tail(q)
<1>1. t \in Seq(Nat) /\ Len(t) = Len(q) - 1 /\ Len(q) \in Nat /\ Len(q) >= 1 OBVIOUS
<1>2. \A k \in 1..Len(t) : t[k] = q[k + 1] BY <1>1
<1>3. Head(q) = q[1] /\ q[1] \in Nat OBVIOUS
<1> HIDE DEF t
<1>4. InOf(q) = {q[1]} \cup InOf(t)
  <2>1. \A k \in 1..Len(q) : q[k] \in {q[1]} \cup InOf(t)
    <3> TAKE k \in 1..Len(q)
    <3>1. CASE k = 1 BY <3>1
    <3>2. CASE k # 1
      <4>1. k - 1 \in 1..Len(t) /\ (k - 1) + 1 = k BY <1>1, <3>2
      <4>2. t[k - 1] = q[k] BY <1>2, <4>1
      <4> QED BY <4>1, <4>2 DEF InOf
    <3> QED BY <3>1, <3>2
  <2>2. \A k \in 1..Len(t) : t[k] \in InOf(q)
    <3> TAKE k \in 1..Len(t)
    <3>1. k + 1 \in 1..Len(q) BY <1>1
    <3> QED BY <1>2, <3>1 DEF InOf
  <2>3. q[1] \in InOf(q) BY <1>1 DEF InOf
  <2>4. InOf(q) \subseteq {q[1]} \cup InOf(t) BY <2>1 DEF InOf
  <2>5. InOf(t) \subseteq InOf(q) BY <2>2 DEF InOf
  <2> QED BY <2>3, <2>4, <2>5
<1>5. ASSUME Increasing(q) PROVE Increasing(t) /\ Below({q[1]}, InOf(t))
  <2>1. \A k \in 1..Len(t) : k + 1 \in 1..Len(q) /\ 1 < k + 1 /\ 1 \in 1..Len(q) BY <1>1
  <2>2. \A j, k \in 1..Len(t) : j < k => t[j] < t[k]
    <3> TAKE j, k \in 1..Len(t)
    <3>1. j < k => j + 1 < k + 1 BY <1>1
    <3> QED BY <1>2, <1>5, <2>1, <3>1 DEF Increasing
  <2>3. \A k \in 1..Len(t) : q[1] < t[k] BY <1>2, <1>5, <2>1 DEF Increasing
  <2> QED BY <2>2, <2>3 DEF Increasing, Below, InOf
<1> QED BY <1>1, <1>3, <1>4, <1>5 DEF t

LEMMA EmptyQueue == <<>> \in Seq(Nat) /\ InOf(<<>>) = {} /\ Increasing(<<>>)
BY DEF InOf, Increasing

\* Tagging keeps the order of the ids.
LEMMA TagType == ASSUME NEW q \in Seq(Tagged) PROVE IdsOf(q) \in Seq(Nat) /\ Len(IdsOf(q)) = Len(q)
<1>1. \A k \in 1..Len(q) : q[k] \in Tagged OBVIOUS
<1>2. \A m \in Tagged : m.id \in Nat BY DEF Tagged
<1> QED BY <1>1, <1>2 DEF IdsOf

LEMMA TagAppend ==
  ASSUME NEW q \in Seq(Tagged), NEW m \in Tagged
  PROVE  Append(q, m) \in Seq(Tagged) /\ IdsOf(Append(q, m)) = Append(IdsOf(q), m.id)
<1> DEFINE a == Append(q, m)
           l == IdsOf(a)
           s == Append(IdsOf(q), m.id)
<1>1. a \in Seq(Tagged) /\ Len(a) = Len(q) + 1 /\ Len(q) \in Nat OBVIOUS
<1>2. IdsOf(q) \in Seq(Nat) /\ Len(IdsOf(q)) = Len(q) BY TagType
<1>3. m.id \in Nat BY DEF Tagged
<1>4. l \in Seq(Nat) /\ Len(l) = Len(q) + 1 BY <1>1, TagType
<1>5. s \in Seq(Nat) /\ Len(s) = Len(q) + 1 BY <1>2, <1>3
<1>6. \A k \in 1..Len(q) + 1 : l[k] = s[k]
  <2> TAKE k \in 1..Len(q) + 1
  <2>1. l[k] = a[k].id BY <1>1 DEF IdsOf
  <2>2. CASE k = Len(q) + 1 BY <1>2, <1>3, <2>1, <2>2
  <2>3. CASE k # Len(q) + 1
    <3>1. k \in 1..Len(q) BY <1>1, <2>3
    <3>2. a[k] = q[k] BY <3>1
    <3>3. s[k] = IdsOf(q)[k] BY <1>2, <1>3, <3>1
    <3>4. IdsOf(q)[k] = q[k].id BY <3>1 DEF IdsOf
    <3> QED BY <2>1, <3>2, <3>3, <3>4
  <2> QED BY <2>2, <2>3
<1> HIDE DEF l, s
<1>7. l = s BY <1>4, <1>5, <1>6
<1> QED BY <1>1, <1>7 DEF l, s

LEMMA TagHead ==
  ASSUME NEW q \in Seq(Tagged), q # <<>>
  PROVE  /\ Tail(q) \in Seq(Tagged) /\ Head(q) \in Tagged /\ IdsOf(q) # <<>>
         /\ IdsOf(Tail(q)) = Tail(IdsOf(q)) /\ Head(IdsOf(q)) = Head(q).id
<1> DEFINE a == Tail(q)
           l == IdsOf(a)
           s == Tail(IdsOf(q))
<1>1. a \in Seq(Tagged) /\ Len(a) = Len(q) - 1 /\ Len(q) \in Nat /\ Len(q) >= 1 /\ Head(q) = q[1] /\ q[1] \in Tagged OBVIOUS
<1>2. IdsOf(q) \in Seq(Nat) /\ Len(IdsOf(q)) = Len(q) BY TagType
<1>3. l \in Seq(Nat) /\ Len(l) = Len(q) - 1 BY <1>1, TagType
<1>4. IdsOf(q) # <<>> BY <1>1, <1>2
<1>5. s \in Seq(Nat) /\ Len(s) = Len(q) - 1 BY <1>2, <1>4
<1>6. \A k \in 1..Len(q) - 1 : l[k] = s[k]
  <2> TAKE k \in 1..Len(q) - 1
  <2>1. l[k] = a[k].id BY <1>1 DEF IdsOf
  <2>2. a[k] = q[k + 1] BY <1>1
  <2>3. k + 1 \in 1..Len(q) BY <1>1
  <2>4. IdsOf(q)[k + 1] = q[k + 1].id BY <2>3 DEF IdsOf
  <2>5. s[k] = IdsOf(q)[k + 1] BY <1>2, <1>4
  <2> QED BY <2>1, <2>2, <2>4, <2>5
<1>7. IdsOf(q)[1] = q[1].id BY <1>1 DEF IdsOf
<1>8. Head(IdsOf(q)) = IdsOf(q)[1] BY <1>2, <1>4
<1>9. l = s
  <2> DEFINE n == Len(q) - 1
  <2>1. n \in Nat BY <1>1
  <2>2. Len(l) = n /\ Len(s) = n /\ \A k \in 1..n : l[k] = s[k] BY <1>3, <1>5, <1>6
  <2> HIDE DEF l, s, n
  <2> QED BY <1>3, <1>5, <2>1, <2>2
<1> QED BY <1>1, <1>4, <1>7, <1>8, <1>9 DEF l, s

\* getUpdates returns the updates from the cursor on, in order.
LEMMA Fetched ==
  ASSUME InboundTypeOK, NEW cursor \in Nat, cursor >= 1, cursor <= Len(ibArrived) + 1
  PROVE  LET b == FetchedFrom(cursor)
         IN  /\ b \in Seq(Nat) /\ InOf(b) = cursor..Len(ibArrived) /\ Increasing(b)
             /\ b # <<>> => b[Len(b)] = Len(ibArrived)
             /\ b = <<>> => cursor = Len(ibArrived) + 1
<1> DEFINE n == Len(ibArrived)
           b == FetchedFrom(cursor)
<1>1. n \in Nat BY DEF InboundTypeOK
<1> HIDE DEF n
<1>2. b = [k \in 1..(n - cursor + 1) |-> cursor + k - 1] BY DEF FetchedFrom, n
<1>3. n - cursor + 1 \in Nat BY <1>1 DEF n
<1>4. \A k \in 1..(n - cursor + 1) : cursor + k - 1 \in Nat BY <1>1, <1>3
<1>5. b \in Seq(Nat) /\ Len(b) = n - cursor + 1 BY <1>2, <1>3, <1>4
<1>6. \A k \in 1..Len(b) : b[k] = cursor + k - 1 BY <1>2, <1>5
<1> HIDE DEF b
<1>7. InOf(b) = cursor..n
  <2>1. \A k \in 1..Len(b) : b[k] \in cursor..n BY <1>1, <1>5, <1>6
  <2>2. \A i \in cursor..n : \E k \in 1..Len(b) : i = b[k]
    <3> TAKE i \in cursor..n
    <3>1. i - cursor + 1 \in 1..Len(b) BY <1>1, <1>5
    <3>2. b[i - cursor + 1] = i BY <1>1, <1>6, <3>1
    <3> QED BY <3>1, <3>2
  <2> QED BY <2>1, <2>2 DEF InOf
<1>8. Increasing(b) BY <1>1, <1>5, <1>6 DEF Increasing
<1>9. b # <<>> => b[Len(b)] = n
  <2> SUFFICES ASSUME b # <<>> PROVE b[Len(b)] = n OBVIOUS
  <2>1. Len(b) \in 1..Len(b) BY <1>5
  <2> QED BY <1>1, <1>5, <1>6, <2>1
<1>10. b = <<>> => cursor = n + 1 BY <1>1, <1>5
<1> QED BY <1>5, <1>7, <1>8, <1>9, <1>10 DEF b, n

\* One poller changes.
LEMMA PipeChanges ==
  ASSUME NEW pipes \in Seq(Pipe), NEW p \in 1..Len(pipes), NEW pipe \in Pipe
  PROVE  LET new == [pipes EXCEPT ![p] = pipe]
         IN  /\ new \in Seq(Pipe) /\ Len(new) = Len(pipes) /\ new[p] = pipe
             /\ \A q \in 1..Len(pipes) : q # p => new[q] = pipes[q]
OBVIOUS

LEMMA PipeType ==
  ASSUME InboundTypeOK, NEW p \in 1..Len(ibPipes)
  PROVE  /\ ibPipes[p] \in Pipe /\ ibPipes[p].offset \in Nat /\ ibPipes[p].batch \in Seq(Nat) /\ ibPipes[p].ch \in Seq(Nat)
         /\ ibPipes[p].row \in BotRows /\ ibPipes[p].live \in BOOLEAN
<1>1. ibPipes[p] \in Pipe BY DEF InboundTypeOK
<1>2. \A x \in Pipe : /\ x.offset \in Nat /\ x.batch \in Seq(Nat) /\ x.ch \in Seq(Nat)
                      /\ x.row \in BotRows /\ x.live \in BOOLEAN
  BY DEF Pipe
<1> QED BY <1>1, <1>2

-----------------------------------------------------------------------------
(* Steps away from the channels                                               *)

\* What Telegram and the channels hold stays; the process may be told to stop.
OffTheWay ==
    /\ UNCHANGED <<ibArrived, ibAcked, ibReg, ibPipes, ibShared, ibCalls, ibLost>>
    /\ ibDesired' \in BotRows \cup {NoBot}
    /\ DOMAIN ibProc' = {"up", "stop", "restarts"} /\ ibProc'.restarts = ibProc.restarts
    /\ (ibProc.stop => ibProc'.stop) /\ (ibProc'.up # "up" => ibProc'.stop)
    /\ (ibProc'.up # "down" => ibProc.up # "down")

LEMMA OffTheWayInv ==
  ASSUME InboundIInv, OffTheWay, HandKnown', AdmittedIsHeard'
  PROVE  InboundIInv'
<1> USE DEF OffTheWay
<1>1. InboundTypeOK' BY DEF InboundIInv, InboundTypeOK
<1>2. KnownIds' BY DEF InboundIInv, KnownIds
<1>3. Registry' BY DEF InboundIInv, Registry
<1>4. TagsKnown' BY DEF InboundIInv, TagsKnown
<1>5. PassedIsAccounted' BY DEF InboundIInv, PassedIsAccounted, Passed
<1>6. LossHadAPoller' /\ LossNeedsARemoval' BY DEF InboundIInv, LossHadAPoller, LossNeedsARemoval
<1>7. OnePoller'
  <2>1. FirstProcess' => FirstProcess BY DEF FirstProcess
  <2> QED BY <2>1 DEF InboundIInv, OnePoller
<1> QED BY <1>1, <1>2, <1>3, <1>4, <1>5, <1>6, <1>7 DEF InboundIInv

LEMMA SettledHand ==
  ASSUME InboundIInv, UNCHANGED ibArrived, UNCHANGED ibSilent,
         ibHand' = ibHand \/ ibHand' = Idle \/ (ibHand' = [ibHand EXCEPT !.pc = "admitted"] /\ ibHand.pc = "routing")
  PROVE  HandKnown' /\ AdmittedIsHeard'
<1>1. AdmittedIsHeard' BY DEF InboundIInv, AdmittedIsHeard
<1>2. CASE ibHand' = ibHand BY <1>1, <1>2 DEF InboundIInv, HandKnown
<1>3. CASE ibHand' = Idle BY <1>1, <1>3 DEF InboundIInv, HandKnown, Idle
<1>4. CASE ibHand' = [ibHand EXCEPT !.pc = "admitted"] /\ ibHand.pc = "routing"
  <2>1. DOMAIN ibHand = {"id", "pc"} /\ ibHand.id \in 1..Len(ibArrived) /\ ibSilent \subseteq 1..Len(ibArrived)
    BY <1>4 DEF InboundIInv, HandKnown
  <2>2. DOMAIN ibHand' = {"id", "pc"} /\ ibHand'.id = ibHand.id BY <1>4, <2>1
  <2> QED BY <1>1, <2>1, <2>2 DEF HandKnown
<1> QED BY <1>2, <1>3, <1>4

LEMMA SameHand ==
  ASSUME InboundIInv, UNCHANGED <<ibArrived, ibSilent, ibHand>> PROVE HandKnown' /\ AdmittedIsHeard'
BY DEF InboundIInv, AdmittedIsHeard, HandKnown

LEMMA FreedHand ==
  ASSUME InboundIInv, UNCHANGED <<ibArrived, ibSilent>>, ibHand' = Idle PROVE HandKnown' /\ AdmittedIsHeard'
BY SettledHand

LEMMA SameProcess == ASSUME InboundIInv, UNCHANGED <<ibProc, ibDesired>>, UNCHANGED <<ibArrived, ibAcked, ibReg, ibPipes, ibShared, ibCalls, ibLost>>
  PROVE OffTheWay
BY DEF OffTheWay, InboundIInv, InboundTypeOK

LEMMA AwaySteps ==
  ASSUME InboundIInv,
         \/ Rotate \/ handlePayment \/ handleGuestMessage \/ prepareTelegramInbound
         \/ begin \/ TurnEnds \/ Cancel \/ StopTakingTurns \/ UNCHANGED inboundVars
  PROVE  InboundIInv'
<1>1. CASE Rotate
  <2>1. OffTheWay BY <1>1 DEF Rotate, OffTheWay, InboundIInv, InboundTypeOK
  <2>2. HandKnown' /\ AdmittedIsHeard' BY <1>1, SameHand DEF Rotate
  <2> QED BY <2>1, <2>2, OffTheWayInv
<1>2. CASE handlePayment
  <2>1. OffTheWay BY <1>2, SameProcess DEF handlePayment, Frame
  <2> QED BY <1>2, <2>1, OffTheWayInv, SettledHand DEF handlePayment, Frame
<1>3. CASE handleGuestMessage
  <2>1. OffTheWay BY <1>3, SameProcess DEF handleGuestMessage, Frame
  <2> QED BY <1>3, <2>1, OffTheWayInv, SettledHand DEF handleGuestMessage, Frame
<1>4. CASE prepareTelegramInbound
  <2>1. OffTheWay BY <1>4, SameProcess DEF prepareTelegramInbound, Frame
  <2>2. ibHand' = Idle \/ ibHand' = [ibHand EXCEPT !.pc = "admitted"] BY <1>4 DEF prepareTelegramInbound
  <2> QED BY <1>4, <2>1, <2>2, OffTheWayInv, SettledHand DEF prepareTelegramInbound, Frame
<1>5. CASE begin
  <2>1. OffTheWay BY <1>5, SameProcess DEF begin, Frame
  <2>2. HandKnown' /\ AdmittedIsHeard' BY <1>5, SameHand DEF begin, Frame
  <2> QED BY <2>1, <2>2, OffTheWayInv
<1>6. CASE TurnEnds
  <2>1. OffTheWay BY <1>6, SameProcess DEF TurnEnds, Frame
  <2>2. HandKnown' /\ AdmittedIsHeard' BY <1>6, SameHand DEF TurnEnds, Frame
  <2> QED BY <2>1, <2>2, OffTheWayInv
<1>7. CASE Cancel
  <2>1. OffTheWay BY <1>7 DEF Cancel, OffTheWay, InboundIInv, InboundTypeOK
  <2>2. HandKnown' /\ AdmittedIsHeard' BY <1>7, SameHand DEF Cancel
  <2> QED BY <2>1, <2>2, OffTheWayInv
<1>8. CASE StopTakingTurns
  <2>1. OffTheWay BY <1>8 DEF StopTakingTurns, OffTheWay, InboundIInv, InboundTypeOK
  <2>2. HandKnown' /\ AdmittedIsHeard' BY <1>8, SameHand DEF StopTakingTurns
  <2> QED BY <2>1, <2>2, OffTheWayInv
<1>9. CASE UNCHANGED inboundVars
  <2>1. OffTheWay BY <1>9, SameProcess DEF inboundVars
  <2>2. HandKnown' /\ AdmittedIsHeard' BY <1>9, SameHand DEF inboundVars
  <2> QED BY <2>1, <2>2, OffTheWayInv
<1> QED BY <1>1, <1>2, <1>3, <1>4, <1>5, <1>6, <1>7, <1>8, <1>9

\* Reading nothing out of a file happens to documents and photos only.
LEMMA NothingRead == FALSE \in Readings => Kind \in {"document", "photo"}
BY DEF Readings, readVoiceIntoTurn, readVideoIntoTurn

LEMMA ReadInv == ASSUME InboundIInv, ReadAndHandOff PROVE InboundIInv'
<1>0. ibHand.pc = "admitted" /\ ibHand' = Idle /\ UNCHANGED ibArrived BY DEF ReadAndHandOff, Frame
<1>1. OffTheWay BY SameProcess DEF ReadAndHandOff, Frame
<1>a. UNCHANGED ibSilent => HandKnown' /\ AdmittedIsHeard' BY <1>0, FreedHand
<1>2. PICK some \in Readings :
        IF some THEN ibWaiting' = ibWaiting \cup {ibHand.id} /\ UNCHANGED ibSilent
                ELSE ibSilent' = ibSilent \cup {ibHand.id} /\ UNCHANGED ibWaiting
  BY DEF ReadAndHandOff
<1>3. CASE some
  <2>1. UNCHANGED ibSilent BY <1>2, <1>3
  <2>2. HandKnown' /\ AdmittedIsHeard' BY <1>a, <2>1
  <2> QED BY <1>1, <2>2, OffTheWayInv
<1>4. CASE ~some
  <2>1. \A r \in Readings : r \in BOOLEAN
    BY DEF Readings, readVoiceIntoTurn, readVideoIntoTurn, readDocument, readPhoto, DownloadFile, readExtractedDocument, readImageDocument
  <2>2. some = FALSE BY <1>4, <2>1
  <2>3. Kind \in {"document", "photo"} BY <2>2, NothingRead
  <2>4. {ibHand.id} \subseteq 1..Len(ibArrived) /\ ibSilent \subseteq 1..Len(ibArrived) BY <1>0 DEF InboundIInv, HandKnown
  <2>5. ibSilent' = ibSilent \cup {ibHand.id} /\ UNCHANGED ibArrived /\ ibHand' = Idle BY <1>0, <1>2, <1>4
  <2>6. HandKnown'
    <3>1. ibSilent' \subseteq 1..Len(ibArrived') BY <2>4, <2>5
    <3>2. DOMAIN ibHand' = {"id", "pc"} /\ ibHand'.pc = "" BY <2>5 DEF Idle
    <3> QED BY <3>1, <3>2 DEF HandKnown
  <2>7. AdmittedIsHeard' BY <2>3, <2>5 DEF Kind, AdmittedIsHeard, InboundIInv
  <2> QED BY <1>1, <2>6, <2>7, OffTheWayInv
<1> QED BY <1>3, <1>4

\* Telegram takes one more update.
LEMMA SendInv == ASSUME InboundIInv, Send PROVE InboundIInv'
<1> USE DEF Send
<1>1. PICK k \in InboundKinds : ibArrived' = Append(ibArrived, k) OBVIOUS
<1>2. ibArrived \in Seq(InboundKinds) /\ Len(ibArrived) \in Nat BY DEF InboundIInv, InboundTypeOK
<1>3. ibArrived' \in Seq(InboundKinds) /\ Len(ibArrived') = Len(ibArrived) + 1 BY <1>1, <1>2
<1>4. \A i \in 1..Len(ibArrived) : ibArrived'[i] = ibArrived[i] BY <1>1, <1>2
<1>5. 1..Len(ibArrived) \subseteq 1..Len(ibArrived') BY <1>2, <1>3
<1>6. InboundTypeOK'
  <2>1. Len(ibArrived') <= MaxUpdates BY <1>2, <1>3, InboundConstants
  <2>2. ibAcked' \in Nat /\ ibAcked' >= 1 /\ ibAcked' <= Len(ibArrived') + 1 BY <1>2, <1>3 DEF InboundIInv, InboundTypeOK
  <2> QED BY <1>3, <2>1, <2>2 DEF InboundIInv, InboundTypeOK
<1>7. KnownIds'
  <2>1. ASSUME NEW p \in 1..Len(ibPipes) PROVE PipeKnows(ibPipes[p], Len(ibArrived'))
    <3>1. PipeKnows(ibPipes[p], Len(ibArrived)) BY DEF InboundIInv, KnownIds
    <3>2. ibPipes[p].offset \in Nat BY PipeType DEF InboundIInv
    <3>3. ibPipes[p].offset <= Len(ibArrived') + 1 BY <1>2, <1>3, <3>1, <3>2 DEF PipeKnows
    <3> QED BY <1>5, <3>1, <3>3 DEF PipeKnows
  <2> QED BY <1>5, <2>1 DEF InboundIInv, KnownIds
<1>8. Registry' BY DEF InboundIInv, Registry
<1>9. TagsKnown' BY DEF InboundIInv, TagsKnown
<1>10. PassedIsAccounted' BY DEF InboundIInv, PassedIsAccounted, Passed
<1>11. LossHadAPoller' /\ LossNeedsARemoval' BY DEF InboundIInv, LossHadAPoller, LossNeedsARemoval
<1>12. OnePoller' BY DEF InboundIInv, OnePoller, FirstProcess
<1>13. HandKnown' BY <1>5 DEF InboundIInv, HandKnown
<1>14. AdmittedIsHeard' BY <1>4 DEF InboundIInv, HandKnown, AdmittedIsHeard
<1> QED BY <1>6, <1>7, <1>8, <1>9, <1>10, <1>11, <1>12, <1>13, <1>14 DEF InboundIInv

-----------------------------------------------------------------------------
(* The order behind one poller                                                *)

LEMMA OrderFetched ==
  ASSUME NEW batch \in Seq(Nat), NEW ch \in Seq(Nat), NEW ids \in Seq(Nat), NEW offset \in Nat, NEW calls \in [Ids -> Nat],
         KeepsOrder(<<>>, ch, ids, offset, calls), Increasing(batch),
         NEW cursor \in Nat, NEW after \in Nat, offset <= cursor, offset <= after,
         \A x \in InOf(batch) : x \in Nat /\ cursor <= x /\ x < after
  PROVE  KeepsOrder(batch, ch, ids, after, calls)
<1>1. \A x \in InOf(ids) : x \in Nat BY DEF InOf
<1>2. \A x \in InOf(ch) : x \in Nat BY DEF InOf
<1>3. Increasing(ch) /\ Increasing(ids) /\ Below(InOf(ids), InOf(ch)) BY DEF KeepsOrder
<1>4. \A x \in InOf(ids) \cup InOf(ch) : x < offset BY DEF KeepsOrder, Below
<1>5. Below(InOf(ids), InOf(batch)) BY <1>1, <1>4 DEF Below
<1>6. Below(InOf(ch), InOf(batch)) BY <1>2, <1>4 DEF Below
<1>7. Below(InOf(ids) \cup InOf(ch) \cup InOf(batch), {after}) BY <1>1, <1>2, <1>4 DEF Below
<1>8. ASSUME NEW i \in Ids
      PROVE  calls[i] <= 1 /\ (calls[i] > 0 => Below({i}, InOf(ids) \cup InOf(ch) \cup InOf(batch) \cup {after}))
  <2>1. calls[i] <= 1 BY DEF KeepsOrder
  <2>2. SUFFICES ASSUME calls[i] > 0 PROVE Below({i}, InOf(ids) \cup InOf(ch) \cup InOf(batch) \cup {after}) BY <2>1
  <2>3. i \in Nat BY InboundConstants DEF Ids
  <2>4. Below({i}, InOf(ids) \cup InOf(ch) \cup InOf(<<>>) \cup {offset}) BY <2>2 DEF KeepsOrder
  <2>5. i < offset BY <2>4 DEF Below
  <2>6. \A x \in InOf(batch) : i < x BY <2>3, <2>5
  <2>7. i < after BY <2>3, <2>5
  <2> QED BY <2>4, <2>6, <2>7 DEF Below
<1> QED BY <1>3, <1>5, <1>6, <1>7, <1>8 DEF KeepsOrder

LEMMA OrderDelivered ==
  ASSUME NEW batch \in Seq(Nat), NEW ch \in Seq(Nat), NEW ids \in Seq(Nat), NEW offset \in Nat, NEW calls \in [Ids -> Nat],
         KeepsOrder(batch, ch, ids, offset, calls), batch # <<>>
  PROVE  KeepsOrder(Tail(batch), Append(ch, Head(batch)), ids, offset, calls)
<1> DEFINE h == Head(batch)
           t == Tail(batch)
           c == Append(ch, h)
<1>1. t \in Seq(Nat) /\ h \in Nat /\ InOf(batch) = {h} \cup InOf(t) BY QueueHead
<1>2. Increasing(t) /\ Below({h}, InOf(t)) BY QueueHead DEF KeepsOrder
<1> HIDE DEF h, t
<1>3. InOf(c) = InOf(ch) \cup {h} BY <1>1, QueueAppend
<1>4. Increasing(c)
  <2>1. Below(InOf(ch), {h}) BY <1>1 DEF KeepsOrder, Below
  <2>2. Increasing(ch) BY DEF KeepsOrder
  <2> QED BY <1>1, <2>1, <2>2, QueueAppend
<1> HIDE DEF c
<1>5. InOf(ids) \cup InOf(c) \cup InOf(t) = InOf(ids) \cup InOf(ch) \cup InOf(batch) BY <1>1, <1>3
<1>6. Below(InOf(ids), InOf(c)) /\ Below(InOf(ids), InOf(t)) /\ Below(InOf(c), InOf(t))
  BY <1>1, <1>2, <1>3 DEF KeepsOrder, Below
<1>7. KeepsOrder(t, c, ids, offset, calls)
  <2>1. Below(InOf(ids) \cup InOf(c) \cup InOf(t), {offset}) BY <1>5 DEF KeepsOrder
  <2>2. \A i \in Ids : /\ calls[i] <= 1
                       /\ calls[i] > 0 => Below({i}, InOf(ids) \cup InOf(c) \cup InOf(t) \cup {offset})
    BY <1>5 DEF KeepsOrder
  <2>3. Increasing(ids) BY DEF KeepsOrder
  <2> QED BY <1>2, <1>4, <1>6, <2>1, <2>2, <2>3 DEF KeepsOrder
<1> QED BY <1>7 DEF c, h, t

LEMMA OrderForwarded ==
  ASSUME NEW batch \in Seq(Nat), NEW ch \in Seq(Nat), NEW ids \in Seq(Nat), NEW offset \in Nat, NEW calls \in [Ids -> Nat],
         KeepsOrder(batch, ch, ids, offset, calls), ch # <<>>
  PROVE  KeepsOrder(batch, Tail(ch), Append(ids, Head(ch)), offset, calls)
<1> DEFINE h == Head(ch)
           t == Tail(ch)
           c == Append(ids, h)
<1>1. t \in Seq(Nat) /\ h \in Nat /\ InOf(ch) = {h} \cup InOf(t) BY QueueHead
<1>2. Increasing(t) /\ Below({h}, InOf(t)) BY QueueHead DEF KeepsOrder
<1> HIDE DEF h, t
<1>3. InOf(c) = InOf(ids) \cup {h} BY <1>1, QueueAppend
<1>4. Increasing(c)
  <2>1. Below(InOf(ids), {h}) BY <1>1 DEF KeepsOrder, Below
  <2>2. Increasing(ids) BY DEF KeepsOrder
  <2> QED BY <1>1, <2>1, <2>2, QueueAppend
<1> HIDE DEF c
<1>5. InOf(c) \cup InOf(t) \cup InOf(batch) = InOf(ids) \cup InOf(ch) \cup InOf(batch) BY <1>1, <1>3
<1>6. Below(InOf(c), InOf(t)) /\ Below(InOf(c), InOf(batch)) /\ Below(InOf(t), InOf(batch))
  BY <1>1, <1>2, <1>3 DEF KeepsOrder, Below
<1>7. KeepsOrder(batch, t, c, offset, calls)
  <2>1. Below(InOf(c) \cup InOf(t) \cup InOf(batch), {offset}) BY <1>5 DEF KeepsOrder
  <2>2. \A i \in Ids : /\ calls[i] <= 1
                       /\ calls[i] > 0 => Below({i}, InOf(c) \cup InOf(t) \cup InOf(batch) \cup {offset})
    BY <1>5 DEF KeepsOrder
  <2>3. Increasing(batch) BY DEF KeepsOrder
  <2> QED BY <1>2, <1>4, <1>6, <2>1, <2>2, <2>3 DEF KeepsOrder
<1> QED BY <1>7 DEF c, h, t

LEMMA OrderDropped ==
  ASSUME NEW batch \in Seq(Nat), NEW ch \in Seq(Nat), NEW ids \in Seq(Nat), NEW offset \in Nat, NEW calls \in [Ids -> Nat],
         KeepsOrder(batch, ch, ids, offset, calls)
  PROVE  KeepsOrder(<<>>, <<>>, ids, offset, calls)
BY EmptyQueue DEF KeepsOrder, Below

\* The loop takes the first update: it is dispatched for the first time, or dropped.
LEMMA OrderTaken ==
  ASSUME NEW batch \in Seq(Nat), NEW ch \in Seq(Nat), NEW ids \in Seq(Nat), NEW offset \in Nat, NEW calls \in [Ids -> Nat],
         KeepsOrder(batch, ch, ids, offset, calls), ids # <<>>
  PROVE  /\ KeepsOrder(batch, ch, Tail(ids), offset, calls)
         /\ KeepsOrder(batch, ch, Tail(ids), offset, [calls EXCEPT ![Head(ids)] = @ + 1])
<1> DEFINE h == Head(ids)
           t == Tail(ids)
           new == [calls EXCEPT ![h] = @ + 1]
           rest == InOf(t) \cup InOf(ch) \cup InOf(batch)
           all == InOf(ids) \cup InOf(ch) \cup InOf(batch)
<1>1. t \in Seq(Nat) /\ h \in Nat /\ InOf(ids) = {h} \cup InOf(t) BY QueueHead
<1>2. Increasing(t) /\ Below({h}, InOf(t)) BY QueueHead DEF KeepsOrder
<1> HIDE DEF h, t
<1>3. rest \subseteq all BY <1>1
<1>4. Below(InOf(t), InOf(ch)) /\ Below(InOf(t), InOf(batch)) /\ Below(InOf(ch), InOf(batch)) /\ Below(rest, {offset})
  BY <1>1 DEF KeepsOrder, Below
<1>5. \A i \in Ids : calls[i] <= 1 /\ (calls[i] > 0 => Below({i}, all \cup {offset})) BY DEF KeepsOrder
<1>6. \A i \in Ids : calls[i] > 0 => Below({i}, rest \cup {offset}) BY <1>3, <1>5 DEF Below
<1>7. KeepsOrder(batch, ch, t, offset, calls) BY <1>2, <1>4, <1>5, <1>6 DEF KeepsOrder
<1>8. ASSUME NEW i \in Ids PROVE new[i] <= 1 /\ (new[i] > 0 => Below({i}, rest \cup {offset}))
  <2>1. calls[i] \in Nat OBVIOUS
  <2>2. CASE i = h
    <3>1. ~(calls[i] > 0)
      <4>1. SUFFICES ASSUME calls[i] > 0 PROVE FALSE OBVIOUS
      <4>2. i < i BY <1>1, <1>5, <2>2, <4>1 DEF Below
      <4> QED BY <1>1, <2>2, <4>2
    <3>2. new[i] = 1 BY <2>1, <2>2, <3>1
    <3>3. Below({h}, rest \cup {offset}) BY <1>1, <1>2 DEF KeepsOrder, Below
    <3> QED BY <2>2, <3>2, <3>3
  <2>3. CASE i # h
    <3>1. new[i] = calls[i] BY <2>3
    <3> QED BY <1>5, <1>6, <3>1
  <2> QED BY <2>2, <2>3
<1> HIDE DEF new
<1>9. KeepsOrder(batch, ch, t, offset, new) BY <1>2, <1>4, <1>8 DEF KeepsOrder
<1> QED BY <1>7, <1>9 DEF h, t, new

-----------------------------------------------------------------------------
(* Steps of one poller                                                        *)

\* A step that changes one poller's queues and cursor, and perhaps what is shared,
\* confirmed or given up.
PipeStep(p, pipe) ==
    /\ ibPipes' = [ibPipes EXCEPT ![p] = pipe]
    /\ pipe.row = ibPipes[p].row /\ pipe.live = ibPipes[p].live
    /\ PipeKnows(pipe, Len(ibArrived))
    /\ UNCHANGED <<ibArrived, ibReg, ibDesired, ibHand, ibSilent, ibProc, ibCalls>>

\* Whatever the poller held is still held, or given up.
PipeHands(p, pipe) ==
    \A i \in Ids : i \in InOf(ibPipes[p].batch) \cup InOf(ibPipes[p].ch) =>
        i \in InOf(pipe.batch) \cup InOf(pipe.ch) \cup InOf(IdsOf(ibShared')) \cup ibLost'

LEMMA PipeStepInv ==
  ASSUME InboundIInv, NEW p \in 1..Len(ibPipes), NEW pipe \in Pipe, PipeStep(p, pipe), PipeHands(p, pipe),
         ibAcked' \in Nat, ibAcked' >= 1, ibAcked' <= Len(ibArrived) + 1,
         ibShared' \in Seq(Tagged), InOf(IdsOf(ibShared)) \subseteq InOf(IdsOf(ibShared')),
         InOf(IdsOf(ibShared')) \subseteq 1..Len(ibArrived),
         \A k \in 1..Len(ibShared') : \E q \in 1..Len(ibPipes) : ibPipes[q].row = ibShared'[k].row,
         ibLost \subseteq ibLost',
         ibLost' = ibLost \/ ~ibPipes[p].live \/ ibProc.stop,
         \A i \in Ids : i < ibAcked' \/ i < pipe.offset => Passed(i) \/ i \in InOf(pipe.batch),
         KeepsOrder(ibPipes[p].batch, ibPipes[p].ch, IdsOf(ibShared), ibPipes[p].offset, ibCalls) =>
             KeepsOrder(pipe.batch, pipe.ch, IdsOf(ibShared'), pipe.offset, ibCalls)
  PROVE  InboundIInv'
<1>1. /\ ibPipes' \in Seq(Pipe) /\ Len(ibPipes') = Len(ibPipes) /\ ibPipes'[p] = pipe
      /\ \A q \in 1..Len(ibPipes) : q # p => ibPipes'[q] = ibPipes[q]
  BY PipeChanges DEF PipeStep, InboundIInv, InboundTypeOK
<1>2. UNCHANGED <<ibArrived, ibReg, ibDesired, ibHand, ibSilent, ibProc, ibCalls>> BY DEF PipeStep
<1>3. \A q \in 1..Len(ibPipes) : ibPipes'[q].row = ibPipes[q].row /\ ibPipes'[q].live = ibPipes[q].live
  BY <1>1 DEF PipeStep
<1>4. InboundTypeOK' BY <1>1, <1>2 DEF InboundIInv, InboundTypeOK
<1>5. KnownIds'
  <2>1. \A q \in 1..Len(ibPipes) : PipeKnows(ibPipes'[q], Len(ibArrived)) BY <1>1 DEF PipeStep, InboundIInv, KnownIds
  <2> QED BY <1>1, <1>2, <2>1 DEF KnownIds
<1>6. Registry'
  <2>1. Len(ibPipes) \in Nat BY DEF InboundIInv, InboundTypeOK
  <2>2. Len(ibPipes) >= 1 => Len(ibPipes) \in 1..Len(ibPipes) BY <2>1
  <2> QED BY <1>1, <1>2, <1>3, <2>2 DEF InboundIInv, Registry
<1>7. TagsKnown' BY <1>1, <1>3, SMTT(30) DEF TagsKnown
<1>8. PassedIsAccounted'
  <2> SUFFICES ASSUME NEW i \in Ids, Passed(i)'
               PROVE  Accounted(i, ibCalls, ibPipes', ibShared', ibLost')
    BY <1>2 DEF PassedIsAccounted
  <2>1. Passed(i) \/ i \in InOf(pipe.batch)
    <3>1. i < ibAcked' \/ \E q \in 1..Len(ibPipes) : i < ibPipes'[q].offset BY <1>1 DEF Passed
    <3>2. CASE i < ibAcked' BY <3>2
    <3>3. ASSUME NEW q \in 1..Len(ibPipes), i < ibPipes'[q].offset PROVE Passed(i) \/ i \in InOf(pipe.batch)
      <4>1. CASE q = p BY <1>1, <3>3, <4>1
      <4>2. CASE q # p BY <1>1, <3>3, <4>2 DEF Passed
      <4> QED BY <4>1, <4>2
    <3> QED BY <3>1, <3>2, <3>3
  <2>2. ASSUME NEW q \in 1..Len(ibPipes), i \in InOf(ibPipes'[q].batch) \cup InOf(ibPipes'[q].ch)
        PROVE  Held(i, ibPipes', ibShared')
    BY <1>1, <2>2 DEF Held
  <2>3. CASE i \in InOf(pipe.batch) BY <1>1, <2>2, <2>3 DEF Accounted
  <2>4. CASE Passed(i)
    <3>1. Accounted(i, ibCalls, ibPipes, ibShared, ibLost) BY <2>4 DEF InboundIInv, PassedIsAccounted
    <3>2. CASE ibCalls[i] > 0 \/ i \in ibLost BY <3>2 DEF Accounted
    <3>3. CASE i \in InOf(IdsOf(ibShared)) BY <3>3 DEF Accounted, Held
    <3>4. ASSUME NEW q \in 1..Len(ibPipes), i \in InOf(ibPipes[q].batch) \cup InOf(ibPipes[q].ch)
          PROVE  Accounted(i, ibCalls, ibPipes', ibShared', ibLost')
      <4>1. CASE q # p BY <1>1, <2>2, <3>4, <4>1 DEF Accounted
      <4>2. CASE q = p
        <5>1. i \in InOf(pipe.batch) \cup InOf(pipe.ch) \cup InOf(IdsOf(ibShared')) \cup ibLost'
          BY <3>4, <4>2 DEF PipeHands
        <5>2. CASE i \in InOf(pipe.batch) \cup InOf(pipe.ch) BY <1>1, <2>2, <5>2 DEF Accounted
        <5>3. CASE i \in InOf(IdsOf(ibShared')) BY <5>3 DEF Accounted, Held
        <5>4. CASE i \in ibLost' BY <5>4 DEF Accounted
        <5> QED BY <5>1, <5>2, <5>3, <5>4
      <4> QED BY <4>1, <4>2
    <3> QED BY <3>1, <3>2, <3>3, <3>4 DEF Accounted, Held
  <2> QED BY <2>1, <2>3, <2>4
<1>9. LossHadAPoller'
  <2>1. Len(ibPipes) \in Nat BY DEF InboundIInv, InboundTypeOK
  <2>2. Len(ibPipes') >= 1 BY <1>1, <2>1
  <2> QED BY <2>2 DEF LossHadAPoller
<1>10. LossNeedsARemoval'
  <2>1. CASE ibLost' = ibLost BY <1>1, <1>2, <2>1 DEF InboundIInv, LossNeedsARemoval
  <2>2. CASE ibProc.stop BY <1>2, <2>2 DEF LossNeedsARemoval
  <2>3. CASE ~ibPipes[p].live
    <3>1. CASE ibReg = NoBot BY <1>2, <3>1 DEF LossNeedsARemoval
    <3>2. CASE ibReg # NoBot
      <4>1. p # Len(ibPipes) BY <2>3, <3>2 DEF InboundIInv, Registry
      <4>2. Len(ibPipes) \in Nat BY DEF InboundIInv, InboundTypeOK
      <4>3. Len(ibPipes) > 1 BY <4>1, <4>2
      <4> QED BY <1>1, <4>3 DEF LossNeedsARemoval
    <3> QED BY <3>1, <3>2
  <2> QED BY <2>1, <2>2, <2>3
<1>11. OnePoller'
  <2>1. SUFFICES ASSUME FirstProcess
                 PROVE  /\ Len(ibPipes) # 0
                        /\ Len(ibPipes) = 1 =>
                            KeepsOrder(ibPipes'[1].batch, ibPipes'[1].ch, IdsOf(ibShared'), ibPipes'[1].offset, ibCalls)
    BY <1>1, <1>2 DEF OnePoller, FirstProcess
  <2>2. Len(ibPipes) # 0 BY DEF InboundIInv, InboundTypeOK
  <2>3. ASSUME Len(ibPipes) = 1
        PROVE  KeepsOrder(ibPipes'[1].batch, ibPipes'[1].ch, IdsOf(ibShared'), ibPipes'[1].offset, ibCalls)
    <3>1. p = 1 BY <2>3
    <3>2. KeepsOrder(ibPipes[1].batch, ibPipes[1].ch, IdsOf(ibShared), ibPipes[1].offset, ibCalls)
      BY <2>1, <2>3 DEF InboundIInv, OnePoller
    <3> QED BY <1>1, <3>1, <3>2
  <2> QED BY <2>2, <2>3
<1>12. HandKnown' /\ AdmittedIsHeard' BY <1>2, SameHand
<1> QED BY <1>4, <1>5, <1>6, <1>7, <1>8, <1>9, <1>10, <1>11, <1>12 DEF InboundIInv

\* A cancelled poller keeps its queues and its cursor.
LEMMA PipeStops ==
  ASSUME NEW pipe \in Pipe
  PROVE  LET new == [pipe EXCEPT !.live = FALSE]
         IN  new \in Pipe /\ new.batch = pipe.batch /\ new.offset = pipe.offset /\ new.ch = pipe.ch /\ new.row = pipe.row /\ ~new.live
BY DEF Pipe

LEMMA PollInv == ASSUME InboundIInv, NEW p \in 1..Len(ibPipes), Poll(p) PROVE InboundIInv'
<1> DEFINE old == ibPipes[p]
           n == Len(ibArrived)
           cursor == Larger(ibAcked, old.offset)
<1>1. InboundTypeOK /\ KnownIds BY DEF InboundIInv
<1>2. old \in Pipe /\ old.offset \in Nat /\ old.ch \in Seq(Nat) /\ old.batch = <<>> BY <1>1, PipeType DEF Poll
<1>3. n \in Nat /\ ibAcked \in Nat /\ ibAcked >= 1 /\ ibAcked <= n + 1 BY <1>1 DEF InboundTypeOK
<1>4. PipeKnows(old, n) BY <1>1 DEF KnownIds
<1>5. old.offset <= n + 1 BY <1>4 DEF PipeKnows
<1> HIDE DEF n, old
<1>6. cursor \in Nat /\ cursor >= 1 /\ cursor <= n + 1 /\ ibAcked <= cursor /\ old.offset <= cursor
      /\ (cursor = ibAcked \/ cursor = old.offset)
  BY <1>2, <1>3, <1>5 DEF Larger
<1>7. ibAcked' = cursor /\ UNCHANGED <<ibArrived, ibReg, ibDesired, ibHand, ibSilent, ibProc, ibCalls, ibShared, ibLost>>
  BY DEF Poll, old
<1>8. PICK got \in {FetchedFrom(cursor), <<>>} : ibPipes' = [ibPipes EXCEPT ![p] = Polled(old, got)]
  BY DEF Poll, old
<1> HIDE DEF cursor
<1> DEFINE after == IF got = <<>> THEN old.offset ELSE n + 1
<1>9. /\ got \in Seq(Nat) /\ Increasing(got) /\ InOf(got) \subseteq cursor..n
      /\ after \in Nat /\ old.offset <= after /\ after <= n + 1
      /\ \A i \in Nat : i >= 1 /\ i < after => i < cursor \/ i \in InOf(got)
      /\ (got # <<>> => got[Len(got)] + 1 = n + 1)
      /\ (got = <<>> => InOf(got) = {})
  <2>1. CASE got = <<>> BY <1>2, <1>5, <1>6, <2>1, EmptyQueue
  <2>2. CASE got # <<>>
    <3>1. got = FetchedFrom(cursor) BY <2>2
    <3>2. got \in Seq(Nat) /\ InOf(got) = cursor..n /\ Increasing(got) /\ got[Len(got)] = n
      BY <1>1, <1>6, <2>2, <3>1, Fetched DEF n
    <3>3. after = n + 1 BY <2>2
    <3> QED BY <1>3, <1>5, <1>2, <1>6, <2>2, <3>2, <3>3
  <2> QED BY <2>1, <2>2
<1>10. Polled(old, got) = [old EXCEPT !.batch = got, !.offset = after]
  BY <1>2, <1>9 DEF Polled, Pipe
<1> DEFINE pipe == [old EXCEPT !.batch = got, !.offset = after]
<1>11. pipe \in Pipe /\ pipe.batch = got /\ pipe.offset = after /\ pipe.ch = old.ch /\ pipe.row = old.row /\ pipe.live = old.live
  BY <1>2, <1>9 DEF Pipe
<1>12. ibPipes' = [ibPipes EXCEPT ![p] = pipe] BY <1>8, <1>10
<1> HIDE DEF pipe, after
<1>13. PipeKnows(pipe, n)
  <2>1. InOf(got) \subseteq 1..n BY <1>3, <1>6, <1>9
  <2> QED BY <1>4, <1>9, <1>11, <2>1 DEF PipeKnows
<1>14. PipeStep(p, pipe) BY <1>7, <1>11, <1>12, <1>13 DEF PipeStep, old, n
<1>15. PipeHands(p, pipe) BY <1>2, <1>11, EmptyQueue DEF PipeHands, old
<1>16. \A i \in Ids : i < ibAcked' \/ i < pipe.offset => Passed(i) \/ i \in InOf(pipe.batch)
  <2> TAKE i \in Ids
  <2>1. i \in Nat /\ i >= 1 BY InboundConstants DEF Ids
  <2>2. i < cursor => Passed(i) BY <1>6 DEF Passed, old
  <2> QED BY <1>7, <1>9, <1>11, <2>1, <2>2
<1>17. IdsOf(ibShared) \in Seq(Nat) /\ ibCalls \in [Ids -> Nat] /\ ibShared \in Seq(Tagged) BY <1>1, TagType DEF InboundTypeOK
<1>18. KeepsOrder(old.batch, old.ch, IdsOf(ibShared), old.offset, ibCalls) =>
         KeepsOrder(pipe.batch, pipe.ch, IdsOf(ibShared), pipe.offset, ibCalls)
  <2>1. \A x \in InOf(got) : x \in Nat /\ cursor <= x /\ x < after
    <3> TAKE x \in InOf(got)
    <3>1. got # <<>> BY <1>9
    <3>2. after = n + 1 BY <3>1 DEF after
    <3> QED BY <1>3, <1>6, <1>9, <3>2
  <2> QED BY <1>2, <1>6, <1>9, <1>11, <1>17, <2>1, OrderFetched
<1>19. InOf(IdsOf(ibShared)) \subseteq 1..Len(ibArrived) BY <1>1 DEF KnownIds
<1>20. \A k \in 1..Len(ibShared) : \E q \in 1..Len(ibPipes) : ibPipes[q].row = ibShared[k].row BY DEF InboundIInv, TagsKnown
<1>21. ibAcked' \in Nat /\ ibAcked' >= 1 /\ ibAcked' <= Len(ibArrived) + 1 BY <1>6, <1>7 DEF n
<1>22. ibShared' = ibShared /\ ibLost' = ibLost BY <1>7
<1> QED BY <1>11, <1>14, <1>15, <1>16, <1>17, <1>18, <1>19, <1>20, <1>21, <1>22, PipeStepInv DEF old

LEMMA DeliverInv == ASSUME InboundIInv, NEW p \in 1..Len(ibPipes), Deliver(p) PROVE InboundIInv'
<1> DEFINE old == ibPipes[p]
           pipe == [old EXCEPT !.batch = Tail(old.batch), !.ch = Append(old.ch, Head(old.batch))]
<1>1. InboundTypeOK /\ KnownIds BY DEF InboundIInv
<1>2. old \in Pipe /\ old.offset \in Nat /\ old.ch \in Seq(Nat) /\ old.batch \in Seq(Nat) /\ old.batch # <<>>
  BY <1>1, PipeType DEF Deliver
<1>3. ibPipes' = [ibPipes EXCEPT ![p] = [old EXCEPT !.ch = Append(@, Head(old.batch)), !.batch = Tail(@)]]
      /\ UNCHANGED <<ibArrived, ibAcked, ibReg, ibDesired, ibHand, ibSilent, ibProc, ibCalls, ibShared, ibLost>>
  BY DEF Deliver
<1>4. PipeKnows(old, Len(ibArrived)) BY <1>1 DEF KnownIds
<1> HIDE DEF old
<1>5. [old EXCEPT !.ch = Append(@, Head(old.batch)), !.batch = Tail(@)] = pipe BY <1>2 DEF Pipe
<1>6. Tail(old.batch) \in Seq(Nat) /\ Head(old.batch) \in Nat /\ InOf(old.batch) = {Head(old.batch)} \cup InOf(Tail(old.batch))
  BY <1>2, QueueHead
<1>7. Append(old.ch, Head(old.batch)) \in Seq(Nat)
      /\ InOf(Append(old.ch, Head(old.batch))) = InOf(old.ch) \cup {Head(old.batch)}
  BY <1>2, <1>6, QueueAppend
<1>8. /\ pipe \in Pipe /\ pipe.batch = Tail(old.batch) /\ pipe.offset = old.offset /\ pipe.ch = Append(old.ch, Head(old.batch))
      /\ pipe.row = old.row /\ pipe.live = old.live
  BY <1>2, <1>6, <1>7 DEF Pipe
<1>9. ibPipes' = [ibPipes EXCEPT ![p] = pipe] BY <1>3, <1>5
<1> HIDE DEF pipe
<1>10. PipeKnows(pipe, Len(ibArrived)) BY <1>4, <1>6, <1>7, <1>8 DEF PipeKnows
<1>11. PipeStep(p, pipe) BY <1>3, <1>8, <1>9, <1>10 DEF PipeStep, old
<1>12. PipeHands(p, pipe) BY <1>6, <1>7, <1>8 DEF PipeHands, old
<1>13. IdsOf(ibShared) \in Seq(Nat) /\ ibCalls \in [Ids -> Nat] /\ ibShared \in Seq(Tagged) BY <1>1, TagType DEF InboundTypeOK
<1>14. KeepsOrder(old.batch, old.ch, IdsOf(ibShared), old.offset, ibCalls) =>
         KeepsOrder(pipe.batch, pipe.ch, IdsOf(ibShared), pipe.offset, ibCalls)
  BY <1>2, <1>8, <1>13, OrderDelivered
<1>15. \A i \in Ids : i < ibAcked' \/ i < pipe.offset => Passed(i) \/ i \in InOf(pipe.batch)
  BY <1>3, <1>8 DEF Passed, old
<1>16. InOf(IdsOf(ibShared)) \subseteq 1..Len(ibArrived) BY <1>1 DEF KnownIds
<1>17. \A k \in 1..Len(ibShared) : \E q \in 1..Len(ibPipes) : ibPipes[q].row = ibShared[k].row BY DEF InboundIInv, TagsKnown
<1>18. ibAcked' \in Nat /\ ibAcked' >= 1 /\ ibAcked' <= Len(ibArrived) + 1 BY <1>1, <1>3 DEF InboundTypeOK
<1>19. ibShared' = ibShared /\ ibLost' = ibLost BY <1>3
<1> QED BY <1>8, <1>11, <1>12, <1>13, <1>14, <1>15, <1>16, <1>17, <1>18, <1>19, PipeStepInv DEF old

LEMMA ForwardInv == ASSUME InboundIInv, NEW p \in 1..Len(ibPipes), runBotPoller(p) PROVE InboundIInv'
<1> DEFINE old == ibPipes[p]
           pipe == [old EXCEPT !.ch = Tail(old.ch)]
           m == [row |-> old.row, id |-> Head(old.ch)]
<1>1. InboundTypeOK /\ KnownIds BY DEF InboundIInv
<1>2. /\ old \in Pipe /\ old.offset \in Nat /\ old.ch \in Seq(Nat) /\ old.batch \in Seq(Nat) /\ old.ch # <<>>
      /\ old.row \in BotRows
  BY <1>1, PipeType DEF runBotPoller
<1>3. /\ ibPipes' = [ibPipes EXCEPT ![p] = [old EXCEPT !.ch = Tail(@)]] /\ ibShared' = Append(ibShared, m)
      /\ UNCHANGED <<ibArrived, ibAcked, ibReg, ibDesired, ibHand, ibSilent, ibProc, ibCalls, ibLost>>
  BY DEF runBotPoller
<1>4. PipeKnows(old, Len(ibArrived)) BY <1>1 DEF KnownIds
<1> HIDE DEF old
<1>5. [old EXCEPT !.ch = Tail(@)] = pipe BY <1>2 DEF Pipe
<1>6. Tail(old.ch) \in Seq(Nat) /\ Head(old.ch) \in Nat /\ InOf(old.ch) = {Head(old.ch)} \cup InOf(Tail(old.ch))
  BY <1>2, QueueHead
<1>7. m \in Tagged /\ m.id = Head(old.ch) /\ m.row = old.row BY <1>2, <1>6 DEF Tagged
<1> HIDE DEF m
<1>8. /\ pipe \in Pipe /\ pipe.batch = old.batch /\ pipe.offset = old.offset /\ pipe.ch = Tail(old.ch)
      /\ pipe.row = old.row /\ pipe.live = old.live
  BY <1>2, <1>6 DEF Pipe
<1>9. ibPipes' = [ibPipes EXCEPT ![p] = pipe] BY <1>3, <1>5
<1> HIDE DEF pipe
<1>10. PipeKnows(pipe, Len(ibArrived)) BY <1>4, <1>6, <1>8 DEF PipeKnows
<1>11. PipeStep(p, pipe) BY <1>3, <1>8, <1>9, <1>10 DEF PipeStep, old
<1>12. IdsOf(ibShared) \in Seq(Nat) /\ ibCalls \in [Ids -> Nat] /\ ibShared \in Seq(Tagged) BY <1>1, TagType DEF InboundTypeOK
<1>13. ibShared' \in Seq(Tagged) /\ IdsOf(ibShared') = Append(IdsOf(ibShared), Head(old.ch))
  BY <1>3, <1>7, <1>12, TagAppend
<1>14. InOf(IdsOf(ibShared')) = InOf(IdsOf(ibShared)) \cup {Head(old.ch)} BY <1>6, <1>12, <1>13, QueueAppend
<1>15. PipeHands(p, pipe) BY <1>6, <1>8, <1>14 DEF PipeHands, old
<1>16. KeepsOrder(old.batch, old.ch, IdsOf(ibShared), old.offset, ibCalls) =>
         KeepsOrder(pipe.batch, pipe.ch, IdsOf(ibShared'), pipe.offset, ibCalls)
  BY <1>2, <1>8, <1>12, <1>13, OrderForwarded
<1>17. \A i \in Ids : i < ibAcked' \/ i < pipe.offset => Passed(i) \/ i \in InOf(pipe.batch)
  BY <1>3, <1>8 DEF Passed, old
<1>18. InOf(IdsOf(ibShared')) \subseteq 1..Len(ibArrived) BY <1>1, <1>4, <1>6, <1>14 DEF KnownIds, PipeKnows
<1>19. \A k \in 1..Len(ibShared') : \E q \in 1..Len(ibPipes) : ibPipes[q].row = ibShared'[k].row
  <2> TAKE k \in 1..Len(ibShared')
  <2>1. Len(ibShared') = Len(ibShared) + 1 /\ Len(ibShared) \in Nat BY <1>3, <1>12
  <2>2. CASE k \in 1..Len(ibShared)
    <3>1. ibShared'[k] = ibShared[k] BY <1>3, <1>12, <2>2
    <3> QED BY <2>2, <3>1 DEF InboundIInv, TagsKnown
  <2>3. CASE k = Len(ibShared) + 1
    <3>1. ibShared'[k] = m BY <1>3, <1>12, <2>3
    <3> QED BY <1>7, <3>1 DEF old
  <2> QED BY <2>1, <2>2, <2>3
<1>20. ibAcked' \in Nat /\ ibAcked' >= 1 /\ ibAcked' <= Len(ibArrived) + 1 BY <1>1, <1>3 DEF InboundTypeOK
<1>21. ibLost' = ibLost BY <1>3
<1>22. InOf(IdsOf(ibShared)) \subseteq InOf(IdsOf(ibShared')) BY <1>14
<1> QED BY <1>8, <1>11, <1>13, <1>15, <1>16, <1>17, <1>18, <1>19, <1>20, <1>21, <1>22, PipeStepInv DEF old

LEMMA ReturnsInv == ASSUME InboundIInv, NEW p \in 1..Len(ibPipes), PollerReturns(p) PROVE InboundIInv'
<1> DEFINE old == ibPipes[p]
           pipe == [old EXCEPT !.batch = <<>>, !.ch = <<>>]
<1>1. InboundTypeOK /\ KnownIds BY DEF InboundIInv
<1>2. old \in Pipe /\ old.offset \in Nat /\ old.ch \in Seq(Nat) /\ old.batch \in Seq(Nat) BY <1>1, PipeType
<1>3. /\ ibPipes' = [ibPipes EXCEPT ![p] = pipe] /\ ibLost' = ibLost \cup (InOf(old.batch) \cup InOf(old.ch))
      /\ (~old.live \/ ibProc.stop)
      /\ UNCHANGED <<ibArrived, ibAcked, ibReg, ibDesired, ibHand, ibSilent, ibProc, ibCalls, ibShared>>
  BY DEF PollerReturns, InPipe
<1>4. PipeKnows(old, Len(ibArrived)) BY <1>1 DEF KnownIds
<1> HIDE DEF old
<1>5. /\ pipe \in Pipe /\ pipe.batch = <<>> /\ pipe.offset = old.offset /\ pipe.ch = <<>>
      /\ pipe.row = old.row /\ pipe.live = old.live
  BY <1>2, EmptyQueue DEF Pipe
<1> HIDE DEF pipe
<1>6. PipeKnows(pipe, Len(ibArrived)) BY <1>4, <1>5, EmptyQueue DEF PipeKnows
<1>7. PipeStep(p, pipe) BY <1>3, <1>5, <1>6 DEF PipeStep, old
<1>8. PipeHands(p, pipe) BY <1>3 DEF PipeHands, old
<1>9. IdsOf(ibShared) \in Seq(Nat) /\ ibCalls \in [Ids -> Nat] /\ ibShared \in Seq(Tagged) BY <1>1, TagType DEF InboundTypeOK
<1>10. KeepsOrder(old.batch, old.ch, IdsOf(ibShared), old.offset, ibCalls) =>
         KeepsOrder(pipe.batch, pipe.ch, IdsOf(ibShared), pipe.offset, ibCalls)
  BY <1>2, <1>5, <1>9, OrderDropped
<1>11. \A i \in Ids : i < ibAcked' \/ i < pipe.offset => Passed(i) \/ i \in InOf(pipe.batch)
  BY <1>3, <1>5 DEF Passed, old
<1>12. InOf(IdsOf(ibShared)) \subseteq 1..Len(ibArrived) BY <1>1 DEF KnownIds
<1>13. \A k \in 1..Len(ibShared) : \E q \in 1..Len(ibPipes) : ibPipes[q].row = ibShared[k].row BY DEF InboundIInv, TagsKnown
<1>14. ibAcked' \in Nat /\ ibAcked' >= 1 /\ ibAcked' <= Len(ibArrived) + 1 BY <1>1, <1>3 DEF InboundTypeOK
<1>15. ibShared' = ibShared /\ ibLost \subseteq ibLost' /\ (~ibPipes[p].live \/ ibProc.stop) BY <1>3 DEF old
<1> QED BY <1>5, <1>7, <1>8, <1>9, <1>10, <1>11, <1>12, <1>13, <1>14, <1>15, PipeStepInv DEF old

-----------------------------------------------------------------------------
(* The registry, the loop and the process                                     *)

LEMMA UnregisterInv == ASSUME InboundIInv, unregisterBotLocked PROVE InboundIInv'
<1> DEFINE stopped(q) == IF ibPipes[q].row = ibReg THEN [ibPipes[q] EXCEPT !.live = FALSE] ELSE ibPipes[q]
<1>1. InboundTypeOK BY DEF InboundIInv
<1>2. /\ ibProc.up = "up" /\ ibReg # NoBot /\ ibReg' = NoBot /\ ibPipes' = [q \in 1..Len(ibPipes) |-> stopped(q)]
      /\ UNCHANGED <<ibArrived, ibAcked, ibDesired, ibShared, ibHand, ibWaiting, ibTurns, ibCalls, ibSilent, ibLost, ibProc>>
  BY DEF unregisterBotLocked
<1>3. ASSUME NEW q \in 1..Len(ibPipes)
      PROVE  /\ stopped(q) \in Pipe /\ stopped(q).batch = ibPipes[q].batch /\ stopped(q).ch = ibPipes[q].ch
             /\ stopped(q).offset = ibPipes[q].offset /\ stopped(q).row = ibPipes[q].row /\ ~stopped(q).live
  <2>1. ibPipes[q] \in Pipe BY <1>1, PipeType
  <2>2. CASE ibPipes[q].row = ibReg BY <2>1, <2>2, PipeStops
  <2>3. CASE ibPipes[q].row # ibReg
    <3>1. q # Len(ibPipes) BY <1>2, <2>3 DEF InboundIInv, Registry
    <3>2. ~ibPipes[q].live BY <1>2, <3>1 DEF InboundIInv, Registry
    <3> QED BY <2>1, <2>3, <3>2
  <2> QED BY <2>2, <2>3
<1>4. Len(ibPipes) \in Nat BY <1>1 DEF InboundTypeOK
<1>5. /\ ibPipes' \in Seq(Pipe) /\ Len(ibPipes') = Len(ibPipes)
      /\ \A q \in 1..Len(ibPipes) :
           /\ ibPipes'[q].batch = ibPipes[q].batch /\ ibPipes'[q].ch = ibPipes[q].ch
           /\ ibPipes'[q].offset = ibPipes[q].offset /\ ibPipes'[q].row = ibPipes[q].row /\ ~ibPipes'[q].live
  <2> HIDE DEF stopped
  <2>1. ibPipes' \in Seq(Pipe) /\ Len(ibPipes') = Len(ibPipes) BY <1>2, <1>3, <1>4
  <2>2. \A q \in 1..Len(ibPipes) : ibPipes'[q] = stopped(q) BY <1>2
  <2> QED BY <1>3, <2>1, <2>2
<1> HIDE DEF stopped
<1>6. InboundTypeOK' BY <1>1, <1>2, <1>5 DEF InboundTypeOK
<1>7. KnownIds' BY <1>2, <1>5 DEF InboundIInv, KnownIds, PipeKnows
<1>8. Registry' BY <1>2, <1>5 DEF Registry
<1>9. TagsKnown'
  <2>1. \A k \in 1..Len(ibShared) : \E q \in 1..Len(ibPipes) : ibPipes[q].row = ibShared[k].row BY DEF InboundIInv, TagsKnown
  <2>2. \A k \in 1..Len(ibShared) : \E q \in 1..Len(ibPipes) : ibPipes'[q].row = ibShared[k].row BY <1>5, <2>1
  <2> QED BY <1>2, <1>5, <2>2 DEF TagsKnown
<1>10. PassedIsAccounted'
  <2>1. \A i \in Ids : Passed(i)' => Passed(i) BY <1>2, <1>5 DEF Passed
  <2>2. \A i \in Ids : Held(i, ibPipes, ibShared) => Held(i, ibPipes', ibShared) BY <1>5 DEF Held
  <2> QED BY <1>2, <2>1, <2>2 DEF InboundIInv, PassedIsAccounted, Accounted
<1>11. LossHadAPoller' BY <1>2, <1>5 DEF InboundIInv, LossHadAPoller
<1>12. LossNeedsARemoval' BY <1>2 DEF LossNeedsARemoval
<1>13. OnePoller'
  <2>1. Len(ibPipes) = 1 => 1 \in 1..Len(ibPipes) OBVIOUS
  <2>2. FirstProcess' = FirstProcess BY <1>2 DEF FirstProcess
  <2> QED BY <1>2, <1>5, <2>1, <2>2 DEF InboundIInv, OnePoller
<1>14. HandKnown' /\ AdmittedIsHeard' BY <1>2, SameHand
<1> QED BY <1>6, <1>7, <1>8, <1>9, <1>10, <1>11, <1>12, <1>13, <1>14 DEF InboundIInv

LEMMA RegisterInv == ASSUME InboundIInv, registerBot PROVE InboundIInv'
<1> DEFINE new == [row |-> ibDesired, live |-> TRUE, offset |-> 0, batch |-> <<>>, ch |-> <<>>]
           n == Len(ibPipes)
<1>1. InboundTypeOK BY DEF InboundIInv
<1>2. /\ ibReg = NoBot /\ ibDesired # NoBot /\ ibReg' = ibDesired /\ ibPipes' = Append(ibPipes, new)
      /\ UNCHANGED <<ibArrived, ibAcked, ibDesired, ibShared, ibHand, ibWaiting, ibTurns, ibCalls, ibSilent, ibLost, ibProc>>
  BY DEF registerBot
<1>3. new \in Pipe /\ new.batch = <<>> /\ new.ch = <<>> /\ new.offset = 0 /\ new.row = ibDesired /\ new.live
  BY <1>1, <1>2, EmptyQueue DEF Pipe, InboundTypeOK
<1> HIDE DEF new
<1>4. n \in Nat BY <1>1 DEF InboundTypeOK
<1>5. /\ ibPipes' \in Seq(Pipe) /\ Len(ibPipes') = n + 1 /\ ibPipes'[n + 1] = new
      /\ \A q \in 1..n : ibPipes'[q] = ibPipes[q]
  BY <1>1, <1>2, <1>3 DEF InboundTypeOK
<1>6. 1..(n + 1) = 1..n \cup {n + 1} /\ n + 1 \notin 1..n BY <1>4
<1> HIDE DEF n
<1>7. InboundTypeOK' BY <1>1, <1>2, <1>5 DEF InboundTypeOK
<1>8. KnownIds'
  <2>1. Len(ibArrived) \in Nat BY <1>1 DEF InboundTypeOK
  <2>2. PipeKnows(new, Len(ibArrived)) BY <1>3, <2>1, EmptyQueue DEF PipeKnows
  <2>3. \A q \in 1..n : PipeKnows(ibPipes[q], Len(ibArrived)) BY DEF InboundIInv, KnownIds, n
  <2>4. InOf(IdsOf(ibShared)) \subseteq 1..Len(ibArrived) BY DEF InboundIInv, KnownIds
  <2> QED BY <1>2, <1>5, <1>6, <2>2, <2>3, <2>4 DEF KnownIds
<1>9. Registry'
  <2>1. \A q \in 1..n : ~ibPipes[q].live BY <1>2 DEF InboundIInv, Registry, n
  <2>2. n + 1 >= 1 BY <1>4
  <2> QED BY <1>2, <1>3, <1>5, <1>6, <2>1, <2>2 DEF Registry
<1>10. TagsKnown'
  <2> SUFFICES ASSUME NEW k \in 1..Len(ibShared) PROVE \E q \in 1..(n + 1) : ibPipes'[q].row = ibShared[k].row
    BY <1>2, <1>5 DEF TagsKnown
  <2>1. PICK q \in 1..n : ibPipes[q].row = ibShared[k].row BY DEF InboundIInv, TagsKnown, n
  <2> QED BY <1>5, <1>6, <2>1
<1>11. PassedIsAccounted'
  <2> SUFFICES ASSUME NEW i \in Ids, Passed(i)' PROVE Accounted(i, ibCalls, ibPipes', ibShared, ibLost)
    BY <1>2 DEF PassedIsAccounted
  <2>1. i \in Nat BY InboundConstants DEF Ids
  <2>2. ~(i < new.offset) BY <1>3, <2>1
  <2>3. Passed(i) BY <1>2, <1>5, <1>6, <2>2 DEF Passed, n
  <2>4. Held(i, ibPipes, ibShared) => Held(i, ibPipes', ibShared) BY <1>5, <1>6 DEF Held, n
  <2> QED BY <2>3, <2>4 DEF InboundIInv, PassedIsAccounted, Accounted
<1>12. LossHadAPoller' BY <1>4, <1>5 DEF LossHadAPoller
<1>13. LossNeedsARemoval'
  <2>1. ibLost # {} => n >= 1 \/ ibProc.stop \/ ibProc.restarts > 0 BY DEF InboundIInv, LossHadAPoller, n
  <2>2. n >= 1 => n + 1 > 1 BY <1>4
  <2> QED BY <1>2, <1>5, <2>1, <2>2 DEF LossNeedsARemoval
<1>14. OnePoller'
  <2>1. SUFFICES ASSUME FirstProcess, n = 0
                 PROVE  KeepsOrder(new.batch, new.ch, IdsOf(ibShared), new.offset, ibCalls)
    <3>1. n + 1 # 0 /\ (n + 1 = 1 => n = 0) BY <1>4
    <3>2. FirstProcess' = FirstProcess BY <1>2 DEF FirstProcess
    <3>3. ibPipes'[1] = new <=> ibPipes'[1] = new OBVIOUS
    <3>4. n = 0 => ibPipes'[1] = new BY <1>5
    <3> QED BY <1>2, <1>5, <3>1, <3>2, <3>4 DEF OnePoller
  <2>2. ibShared = <<>> /\ \A i \in Ids : ibCalls[i] = 0 BY <2>1 DEF InboundIInv, OnePoller, n
  <2>3. IdsOf(ibShared) = <<>> BY <2>2 DEF IdsOf
  <2> QED BY <1>3, <2>2, <2>3, EmptyQueue DEF KeepsOrder, Below
<1>15. HandKnown' /\ AdmittedIsHeard' BY <1>2, SameHand
<1> QED BY <1>7, <1>8, <1>9, <1>10, <1>11, <1>12, <1>13, <1>14, <1>15 DEF InboundIInv

LEMMA DispatchInv == ASSUME InboundIInv, Dispatch PROVE InboundIInv'
<1> DEFINE m == Head(ibShared)
           ids == IdsOf(ibShared)
<1>1. InboundTypeOK BY DEF InboundIInv
<1>2. /\ ibShared # <<>> /\ ibShared' = Tail(ibShared)
      /\ UNCHANGED <<ibArrived, ibAcked, ibDesired, ibReg, ibPipes, ibWaiting, ibTurns, ibSilent, ibProc>>
  BY DEF Dispatch
<1>3. ibShared \in Seq(Tagged) /\ ibCalls \in [Ids -> Nat] /\ Len(ibShared) \in Nat BY <1>1 DEF InboundTypeOK
<1>4. /\ ibShared' \in Seq(Tagged) /\ m \in Tagged /\ ids # <<>> /\ IdsOf(ibShared') = Tail(ids) /\ Head(ids) = m.id
  BY <1>2, <1>3, TagHead
<1>5. ids \in Seq(Nat) BY <1>3, TagType
<1>6. m.id \in Nat /\ m.row \in BotRows BY <1>4 DEF Tagged
<1>7. \/ /\ ibReg = m.row /\ ibHand' = [id |-> m.id, pc |-> "routing"]
         /\ ibCalls' = [ibCalls EXCEPT ![m.id] = @ + 1] /\ ibLost' = ibLost
      \/ ibReg # m.row /\ ibHand' = ibHand /\ ibCalls' = ibCalls /\ ibLost' = ibLost \cup {m.id}
  BY DEF Dispatch, botByID
<1>8. m = ibShared[1] /\ 1 \in 1..Len(ibShared) BY <1>2, <1>3
<1> HIDE DEF m, ids
<1>9. InOf(ids) = {m.id} \cup InOf(Tail(ids)) BY <1>4, <1>5, QueueHead
<1>10. m.id \in 1..Len(ibArrived) /\ InOf(ids) \subseteq 1..Len(ibArrived) BY <1>9 DEF InboundIInv, KnownIds, ids
<1>11. m.id \in Ids
  <2>1. Len(ibArrived) \in Nat /\ Len(ibArrived) <= MaxUpdates BY <1>1 DEF InboundTypeOK
  <2> QED BY <1>10, <2>1, InboundConstants DEF Ids
<1>12. /\ ibCalls' \in [Ids -> Nat] /\ \A i \in Ids : ibCalls[i] > 0 => ibCalls'[i] > 0
       /\ ibReg = m.row => ibCalls'[m.id] > 0
  <2>1. CASE ibCalls' = ibCalls /\ ibReg # m.row BY <1>3, <2>1
  <2>2. CASE ibCalls' = [ibCalls EXCEPT ![m.id] = @ + 1] BY <1>3, <1>11, <2>2
  <2> QED BY <1>7, <2>1, <2>2
<1>13. ibLost \subseteq ibLost' /\ (ibReg # m.row => m.id \in ibLost') BY <1>7
<1>14. InboundTypeOK' BY <1>1, <1>2, <1>4, <1>12 DEF InboundTypeOK
<1>15. KnownIds' BY <1>2, <1>4, <1>9, <1>10 DEF InboundIInv, KnownIds
<1>16. Registry' BY <1>2 DEF InboundIInv, Registry
<1>17. TagsKnown'
  <2> SUFFICES ASSUME NEW k \in 1..Len(ibShared') PROVE \E q \in 1..Len(ibPipes) : ibPipes[q].row = ibShared'[k].row
    BY <1>2 DEF TagsKnown
  <2>1. ibShared'[k] = ibShared[k + 1] /\ k + 1 \in 1..Len(ibShared) BY <1>2, <1>3
  <2> QED BY <2>1 DEF InboundIInv, TagsKnown
<1>18. PassedIsAccounted'
  <2> SUFFICES ASSUME NEW i \in Ids, Passed(i) PROVE Accounted(i, ibCalls', ibPipes, ibShared', ibLost')
    BY <1>2 DEF PassedIsAccounted, Passed
  <2>1. Accounted(i, ibCalls, ibPipes, ibShared, ibLost) BY DEF InboundIInv, PassedIsAccounted
  <2>2. CASE ibCalls[i] > 0 \/ i \in ibLost BY <1>12, <1>13, <2>2 DEF Accounted
  <2>3. CASE Held(i, ibPipes, ibShared)
    <3>1. CASE i \in InOf(ids)
      <4>1. CASE i = m.id BY <1>12, <1>13, <4>1 DEF Accounted
      <4>2. CASE i # m.id BY <1>4, <1>9, <3>1, <4>2 DEF Accounted, Held
      <4> QED BY <4>1, <4>2
    <3>2. CASE i \notin InOf(ids) BY <2>3, <3>2 DEF Accounted, Held, ids
    <3> QED BY <3>1, <3>2
  <2> QED BY <2>1, <2>2, <2>3 DEF Accounted
<1>19. PICK q \in 1..Len(ibPipes) : ibPipes[q].row = m.row BY <1>8 DEF InboundIInv, TagsKnown
<1>20. Len(ibPipes) \in Nat /\ Len(ibPipes) >= 1
  <2>1. Len(ibPipes) \in Nat BY <1>1 DEF InboundTypeOK
  <2> QED BY <1>19, <2>1
<1>21. LossHadAPoller' BY <1>2, <1>20 DEF LossHadAPoller
<1>22. LossNeedsARemoval'
  <2>1. CASE ibLost' = ibLost BY <1>2, <2>1 DEF InboundIInv, LossNeedsARemoval
  <2>2. CASE ibReg # m.row
    <3>1. CASE ibReg = NoBot BY <1>2, <3>1 DEF LossNeedsARemoval
    <3>2. CASE ibReg # NoBot
      <4>1. q # Len(ibPipes) BY <1>19, <2>2, <3>2 DEF InboundIInv, Registry
      <4>2. Len(ibPipes) > 1 BY <1>19, <1>20, <4>1
      <4> QED BY <1>2, <4>2 DEF LossNeedsARemoval
    <3> QED BY <3>1, <3>2
  <2> QED BY <1>7, <2>1, <2>2
<1>23. OnePoller'
  <2>1. SUFFICES ASSUME FirstProcess, Len(ibPipes) = 1
                 PROVE  KeepsOrder(ibPipes[1].batch, ibPipes[1].ch, Tail(ids), ibPipes[1].offset, ibCalls')
    <3>1. FirstProcess' = FirstProcess BY <1>2 DEF FirstProcess
    <3>2. Len(ibPipes) # 0 BY <1>20
    <3> QED BY <1>2, <1>4, <3>1, <3>2 DEF OnePoller
  <2>2. KeepsOrder(ibPipes[1].batch, ibPipes[1].ch, ids, ibPipes[1].offset, ibCalls) BY <2>1 DEF InboundIInv, OnePoller, ids
  <2>3. ibPipes[1].batch \in Seq(Nat) /\ ibPipes[1].ch \in Seq(Nat) /\ ibPipes[1].offset \in Nat
    <3>1. 1 \in 1..Len(ibPipes) BY <2>1
    <3> QED BY <1>1, <3>1, PipeType
  <2>4. /\ KeepsOrder(ibPipes[1].batch, ibPipes[1].ch, Tail(ids), ibPipes[1].offset, ibCalls)
        /\ KeepsOrder(ibPipes[1].batch, ibPipes[1].ch, Tail(ids), ibPipes[1].offset, [ibCalls EXCEPT ![Head(ids)] = @ + 1])
    BY <1>3, <1>4, <1>5, <2>2, <2>3, OrderTaken
  <2> QED BY <1>4, <1>7, <2>4
<1>24. HandKnown' /\ AdmittedIsHeard'
  <2>1. CASE ibHand' = ibHand BY <1>2, <2>1, SameHand
  <2>2. CASE ibHand' = [id |-> m.id, pc |-> "routing"]
    <3>1. DOMAIN ibHand' = {"id", "pc"} /\ ibHand'.id = m.id BY <2>2
    <3> QED BY <1>2, <1>10, <3>1 DEF InboundIInv, HandKnown, AdmittedIsHeard
  <2> QED BY <1>7, <2>1, <2>2
<1> QED BY <1>14, <1>15, <1>16, <1>17, <1>18, <1>21, <1>22, <1>23, <1>24 DEF InboundIInv

LEMMA HeldIsInMemory == ASSUME InboundTypeOK, NEW i, Held(i, ibPipes, ibShared) PROVE i \in InMemory
<1>1. InOf(IdsOf(ibShared)) \subseteq InShared
  <2>1. ibShared \in Seq(Tagged) BY DEF InboundTypeOK
  <2>2. Len(IdsOf(ibShared)) = Len(ibShared) BY <2>1, TagType
  <2> QED BY <2>2 DEF InOf, IdsOf, InShared
<1>2. CASE i \in InOf(IdsOf(ibShared))
  <2>1. i \in InShared BY <1>1, <1>2
  <2> QED BY <2>1 DEF InMemory
<1>3. ASSUME NEW p \in 1..Len(ibPipes), i \in InOf(ibPipes[p].batch) \cup InOf(ibPipes[p].ch) PROVE i \in InMemory
  <2>1. i \in InPipe(p) BY <1>3 DEF InPipe
  <2>2. i \in UNION {InPipe(q) : q \in 1..Len(ibPipes)} BY <2>1
  <2> QED BY <2>2 DEF InMemory
<1> QED BY <1>2, <1>3 DEF Held

\* The process ends: what it held is given up.
LEMMA ExitInv == ASSUME InboundIInv, NEW timeout, Exit(timeout) PROVE InboundIInv'
<1>1. InboundTypeOK BY DEF InboundIInv
<1>2. /\ ibProc' = [ibProc EXCEPT !.up = "down"] /\ ibProc.up = "draining"
      /\ ibLost' = ibLost \cup (InMemory \ {0})
      /\ ibPipes' = <<>> /\ ibShared' = <<>> /\ ibReg' = NoBot
      /\ UNCHANGED <<ibArrived, ibAcked, ibDesired, ibHand, ibCalls, ibSilent>>
  BY DEF Exit
<1>3. DOMAIN ibProc = {"up", "stop", "restarts"} /\ ibProc.restarts \in Nat /\ ibProc.stop BY <1>1, <1>2 DEF InboundTypeOK
<1>4. DOMAIN ibProc' = {"up", "stop", "restarts"} /\ ibProc'.restarts = ibProc.restarts /\ ibProc'.stop /\ ibProc'.up = "down"
  BY <1>2, <1>3
<1>5. Len(ibPipes') = 0 /\ Len(ibShared') = 0 /\ ibPipes' \in Seq(Pipe) /\ ibShared' \in Seq(Tagged) BY <1>2
<1>6. InboundTypeOK' BY <1>1, <1>2, <1>3, <1>4, <1>5 DEF InboundTypeOK
<1>7. IdsOf(ibShared') = <<>> BY <1>2 DEF IdsOf
<1>8. KnownIds' BY <1>5, <1>7, EmptyQueue DEF KnownIds
<1>9. Registry' /\ TagsKnown' BY <1>2, <1>5 DEF Registry, TagsKnown
<1>10. PassedIsAccounted'
  <2> SUFFICES ASSUME NEW i \in Ids, Passed(i)' PROVE ibCalls[i] > 0 \/ i \in ibLost'
    BY <1>2 DEF PassedIsAccounted, Accounted
  <2>1. i \in Nat /\ i # 0 BY InboundConstants DEF Ids
  <2>2. Passed(i) BY <1>2, <1>5 DEF Passed
  <2>3. Accounted(i, ibCalls, ibPipes, ibShared, ibLost) BY <2>2 DEF InboundIInv, PassedIsAccounted
  <2>4. Held(i, ibPipes, ibShared) => i \in InMemory BY <1>1, HeldIsInMemory
  <2> QED BY <1>2, <2>1, <2>3, <2>4 DEF Accounted
<1>11. LossHadAPoller' /\ LossNeedsARemoval' BY <1>4 DEF LossHadAPoller, LossNeedsARemoval
<1>12. OnePoller' BY <1>4 DEF OnePoller, FirstProcess
<1>13. HandKnown' /\ AdmittedIsHeard' BY <1>2, SameHand
<1> QED BY <1>6, <1>8, <1>9, <1>10, <1>11, <1>12, <1>13 DEF InboundIInv

LEMMA RestartInv == ASSUME InboundIInv, Restart PROVE InboundIInv'
<1>1. /\ ibProc' = [up |-> "up", stop |-> FALSE, restarts |-> ibProc.restarts + 1]
      /\ UNCHANGED <<ibArrived, ibAcked, ibDesired, ibReg, ibPipes, ibShared, ibHand, ibWaiting, ibTurns, ibCalls, ibSilent, ibLost>>
  BY DEF Restart
<1>2. ibProc.restarts \in Nat BY DEF InboundIInv, InboundTypeOK
<1>3. DOMAIN ibProc' = {"up", "stop", "restarts"} /\ ibProc'.restarts = ibProc.restarts + 1 /\ ibProc'.up = "up" BY <1>1
<1>4. ibProc'.restarts \in Nat /\ ibProc'.restarts > 0 BY <1>2, <1>3
<1>5. InboundTypeOK' BY <1>1, <1>3, <1>4 DEF InboundIInv, InboundTypeOK
<1>6. KnownIds' /\ Registry' /\ TagsKnown' BY <1>1 DEF InboundIInv, KnownIds, Registry, TagsKnown
<1>7. PassedIsAccounted' BY <1>1 DEF InboundIInv, PassedIsAccounted, Passed
<1>8. LossHadAPoller' /\ LossNeedsARemoval' BY <1>4 DEF LossHadAPoller, LossNeedsARemoval
<1>9. OnePoller' BY <1>4 DEF OnePoller, FirstProcess
<1>10. HandKnown' /\ AdmittedIsHeard' BY <1>1, SameHand
<1> QED BY <1>5, <1>6, <1>7, <1>8, <1>9, <1>10 DEF InboundIInv

LEMMA InboundStarts == InboundInit => InboundIInv
<1> SUFFICES ASSUME InboundInit PROVE InboundIInv OBVIOUS
<1>1. /\ ibArrived = <<>> /\ ibAcked = 1 /\ ibDesired \in BotRows /\ ibReg = NoBot /\ ibPipes = <<>> /\ ibShared = <<>>
      /\ ibHand = Idle /\ ibCalls = [i \in Ids |-> 0] /\ ibSilent = {} /\ ibLost = {}
      /\ ibProc = [up |-> "up", stop |-> FALSE, restarts |-> 0]
  BY DEF InboundInit
<1>2. Len(ibArrived) = 0 /\ Len(ibPipes) = 0 /\ Len(ibShared) = 0 BY <1>1
<1>3. InboundTypeOK
  <2>1. ibCalls \in [Ids -> Nat] BY <1>1
  <2>2. DOMAIN ibProc = {"up", "stop", "restarts"} /\ ibProc.restarts = 0 /\ ibProc.up = "up" BY <1>1
  <2>3. ibArrived \in Seq(InboundKinds) /\ ibPipes \in Seq(Pipe) /\ ibShared \in Seq(Tagged) BY <1>1
  <2>4. Len(ibArrived) <= MaxUpdates BY <1>2, InboundConstants
  <2>5. ibAcked \in Nat /\ ibAcked >= 1 /\ ibAcked <= Len(ibArrived) + 1 BY <1>1, <1>2
  <2> QED BY <1>1, <2>1, <2>2, <2>3, <2>4, <2>5 DEF InboundTypeOK
<1>4. IdsOf(ibShared) = <<>> BY <1>1 DEF IdsOf
<1>5. KnownIds BY <1>2, <1>4, EmptyQueue DEF KnownIds
<1>6. Registry /\ TagsKnown BY <1>1, <1>2 DEF Registry, TagsKnown
<1>7. PassedIsAccounted
  <2>1. \A i \in Ids : ~(i < 1) BY InboundConstants DEF Ids
  <2>2. \A i \in Ids : ~Passed(i) BY <1>1, <1>2, <2>1 DEF Passed
  <2> QED BY <2>2 DEF PassedIsAccounted
<1>8. LossHadAPoller /\ LossNeedsARemoval BY <1>1 DEF LossHadAPoller, LossNeedsARemoval
<1>9. OnePoller BY <1>1, <1>2 DEF OnePoller
<1>10. HandKnown /\ AdmittedIsHeard BY <1>1 DEF HandKnown, AdmittedIsHeard, Idle
<1> QED BY <1>3, <1>5, <1>6, <1>7, <1>8, <1>9, <1>10 DEF InboundIInv

LEMMA InboundStep == ASSUME InboundIInv, [InboundNext]_inboundVars PROVE InboundIInv'
<1>1. CASE UNCHANGED inboundVars BY <1>1, AwaySteps
<1>2. ASSUME NEW p \in 1..Len(ibPipes), Poll(p) \/ Deliver(p) \/ runBotPoller(p) \/ PollerReturns(p) PROVE InboundIInv'
  BY <1>2, PollInv, DeliverInv, ForwardInv, ReturnsInv
<1>3. CASE Exit(FALSE) \/ Exit(TRUE) BY <1>3, ExitInv
<1>4. CASE Send \/ unregisterBotLocked \/ registerBot \/ Dispatch \/ ReadAndHandOff \/ Restart
  BY <1>4, SendInv, UnregisterInv, RegisterInv, DispatchInv, ReadInv, RestartInv
<1>5. CASE \/ Rotate \/ handlePayment \/ handleGuestMessage \/ prepareTelegramInbound
           \/ begin \/ TurnEnds \/ Cancel \/ StopTakingTurns
  BY <1>5, AwaySteps
<1> QED BY <1>1, <1>2, <1>3, <1>4, <1>5 DEF InboundNext

LEMMA InboundFollows == ASSUME InboundIInv PROVE InboundSound
<1>1. InboundTypeOK BY DEF InboundIInv
<1>2. Len(ibPipes) \in Nat /\ Len(ibArrived) \in Nat /\ ibProc.restarts \in Nat BY <1>1 DEF InboundTypeOK
<1>3. AckedIsAccounted
  <2> SUFFICES ASSUME NEW i \in 1..(ibAcked - 1) PROVE ibCalls[i] > 0 \/ i \in InMemory \cup ibLost
    BY DEF AckedIsAccounted
  <2>1. i \in Ids /\ i < ibAcked BY <1>1, <1>2, InboundConstants DEF InboundTypeOK, Ids
  <2>2. Accounted(i, ibCalls, ibPipes, ibShared, ibLost) BY <2>1 DEF InboundIInv, PassedIsAccounted, Passed
  <2>3. Held(i, ibPipes, ibShared) => i \in InMemory BY <1>1, HeldIsInMemory
  <2> QED BY <2>2, <2>3 DEF Accounted
<1>a. Len(ibPipes) > 1 \/ Len(ibPipes) = 0 \/ Len(ibPipes) = 1 BY <1>2, SMTT(30)
<1>4. RepeatNeedsANewPoller
  <2> SUFFICES ASSUME NEW i \in Ids, ibCalls[i] > 1, ~(Len(ibPipes) > 1), ~(ibProc.restarts > 0), ibProc.up # "down"
               PROVE  FALSE
    BY DEF RepeatNeedsANewPoller
  <2>1. FirstProcess BY <1>2 DEF FirstProcess
  <2>2. Len(ibPipes) = 0 \/ Len(ibPipes) = 1 BY <1>a
  <2>3. ibCalls[i] \in Nat BY <1>1 DEF InboundTypeOK
  <2>4. ibCalls[i] = 0 \/ ibCalls[i] <= 1 BY <2>1, <2>2 DEF InboundIInv, OnePoller, KeepsOrder
  <2> QED BY <2>3, <2>4
<1>5. OnePollerPerBot
  <2> DEFINE live == {p \in 1..Len(ibPipes) : ibPipes[p].live}
  <2>1. live \subseteq {Len(ibPipes)} BY DEF InboundIInv, Registry
  <2>2. IsFiniteSet({Len(ibPipes)}) /\ Cardinality({Len(ibPipes)}) = 1 BY FS_Singleton
  <2>3. Cardinality(live) <= 1 BY <2>1, <2>2, FS_Subset
  <2> QED BY <2>3 DEF OnePollerPerBot
<1> QED BY <1>3, <1>4, <1>5 DEF InboundIInv, InboundSound

\* For every capacity of the channels and any number of updates, reloads, pollers
\* and restarts: an update Telegram was told to forget was dispatched, is in a
\* channel, or went with a removed bot or a stopped process; one poller repeats
\* nothing; one poller is live; only an unreadable document or photo ends an
\* admitted message in silence (poller.go, gateway_bots.go, gateway.go, drain.go).
THEOREM InboundIsSound == InboundSpec => []InboundSound
<1>1. InboundIInv /\ [InboundNext]_inboundVars => InboundIInv' BY InboundStep
<1> QED BY <1>1, InboundStarts, InboundFollows, PTL DEF InboundSpec
-----------------------------------------------------------------------------
(***************************************************************************)
(* What comes before a turn (TelegramDialog).  The wizard row carries the  *)
(* answers given so far: what its step promises of them (RowOk) is what    *)
(* makes every persona complete, ties the offer to its account and keeps   *)
(* an edit from making an account; the chat whose question is open is the  *)
(* one the row names while the store has not failed.                       *)
(***************************************************************************)
DataFields == {"name", "voice", "tags", "edit", "turns", "chat"}

\* What the wizard has collected when its row stands at a step.
RowOk(row) ==
  /\ DOMAIN row = {"step", "data"} /\ DOMAIN row.data = DataFields
  /\ row.step \in {"ask_voice", "ask_traits", "ask_description", "confirm"} => row.data.name = TRUE
  /\ row.step \in {"ask_traits", "ask_description", "confirm"} => row.data.voice = TRUE /\ row.data.tags \in 0..TagCap
  /\ row.step \notin WizardSteps => row.data.edit = FALSE

GhostOk(row, ghost) ==
  /\ DOMAIN ghost = {"asked", "offers", "faults"}
  /\ ghost.offers \in 0..1 /\ ghost.faults \in Nat
  /\ row.step = "offer_pending" => ghost.offers = 0
  /\ row.step = "await" /\ ghost.faults = 0 => ghost.asked = row.data.chat

\* Past endAwaitedReply the question of this chat is closed when a key or a
\* command came.
MsgOk ==
  /\ DOMAIN tdMsg = {"chat", "text"}
  /\ tdPc = "tap" /\ tdMsg.text \in Commands \cup Keys /\ tdGhost.faults = 0 => ~awaitAskedIn(tdMsg.chat)

DialogIInv == RowOk(tdRow) /\ GhostOk(tdRow, tdGhost) /\ MsgOk /\ PersonaComplete

LEMMA NoRowOk == RowOk(NoRow) /\ NoRow.step = "" /\ NoRow.data = NoData
BY DEF RowOk, NoRow, NoData, DataFields, WizardSteps

LEMMA NoDataFacts == DOMAIN NoData = DataFields /\ NoData.edit = FALSE
BY DEF NoData, DataFields

\* The row and the ghost stay right: the row is kept, cleared or the store fails.
LEMMA KeepsRow ==
  ASSUME RowOk(tdRow), GhostOk(tdRow, tdGhost), RowKept \/ Cleared \/ StoreFails
  PROVE  RowOk(tdRow') /\ GhostOk(tdRow', tdGhost') /\ tdGhost'.faults >= tdGhost.faults
         /\ (tdRow' = tdRow \/ tdRow' = NoRow) /\ tdGhost'.asked = tdGhost.asked /\ tdGhost'.faults \in Nat
<1>1. CASE RowKept BY <1>1 DEF RowKept, GhostOk
<1>2. CASE Cleared
  <2>1. tdRow' = NoRow /\ tdGhost' = tdGhost BY <1>2 DEF Cleared, Stored
  <2>2. RowOk(tdRow') /\ tdRow'.step = "" BY <2>1, NoRowOk
  <2>3. GhostOk(tdRow', tdGhost') /\ tdGhost.faults \in Nat BY <2>1, <2>2 DEF GhostOk
  <2>4. tdGhost'.faults = tdGhost.faults /\ tdGhost'.asked = tdGhost.asked BY <2>1
  <2>5. tdGhost'.faults >= tdGhost.faults /\ tdGhost'.faults \in Nat BY <2>3, <2>4
  <2> QED BY <2>1, <2>2, <2>3, <2>4, <2>5
<1>3. CASE StoreFails
  <2>1. tdRow' = tdRow /\ tdGhost' = [tdGhost EXCEPT !.faults = @ + 1] BY <1>3 DEF StoreFails
  <2>2. /\ DOMAIN tdGhost' = {"asked", "offers", "faults"} /\ tdGhost'.offers = tdGhost.offers
        /\ tdGhost'.faults = tdGhost.faults + 1 /\ tdGhost'.asked = tdGhost.asked
    BY <2>1 DEF GhostOk
  <2>3. tdGhost'.faults \in Nat /\ tdGhost'.faults # 0 /\ tdGhost'.faults >= tdGhost.faults BY <2>2 DEF GhostOk
  <2> QED BY <2>1, <2>2, <2>3 DEF GhostOk
<1> QED BY <1>1, <1>2, <1>3

\* The message is replaced, or goes on somewhere that is not the keyboard.
LEMMA KeepsMsg ==
  ASSUME MsgOk, tdPc' # "tap", tdMsg' = NoMsg \/ tdMsg' = tdMsg \/ \E t : tdMsg' = [tdMsg EXCEPT !.text = t]
  PROVE  MsgOk'
<1>1. DOMAIN tdMsg' = {"chat", "text"} BY DEF MsgOk, NoMsg
<1> QED BY <1>1 DEF MsgOk

LEMMA KeepsPersona ==
  ASSUME PersonaComplete, tdPersona' = tdPersona \/ tdPersona' = DefaultPersona \/ tdPersona' = NoPersona
  PROVE  PersonaComplete'
<1>1. CASE tdPersona' = tdPersona BY <1>1 DEF PersonaComplete
<1>2. CASE tdPersona' = DefaultPersona BY <1>2, TagCapAssumption DEF PersonaComplete, DefaultPersona
<1>3. CASE tdPersona' = NoPersona BY <1>3 DEF PersonaComplete
<1> QED BY <1>1, <1>2, <1>3

\* What a step of the wizard writes.
LEMMA StepsRow ==
  ASSUME GhostOk(tdRow, tdGhost), NEW step, NEW data, Stepped(step, data), step \in WizardSteps,
         RowOk([step |-> step, data |-> data])
  PROVE  RowOk(tdRow') /\ GhostOk(tdRow', tdGhost') /\ tdGhost' = tdGhost
<1>1. tdRow' = [step |-> step, data |-> data] /\ tdGhost' = tdGhost BY DEF Stepped, Stored
<1>2. tdRow'.step = step BY <1>1
<1>3. step # "offer_pending" /\ step # "await" BY DEF WizardSteps
<1> QED BY <1>1, <1>2, <1>3 DEF GhostOk

LEMMA Sees ==
  /\ SeenRow.step \notin {"", "await"} => tdRow.step = SeenRow.step
  /\ SeenRow.step = "" => tdRow.step \in {"", "await"}
BY NoRowOk DEF SeenRow
-----------------------------------------------------------------------------
\* One lemma per group of actions.  First the steps that leave the account alone
\* and keep or clear the row.
LEMMA QuietStep ==
  ASSUME DialogIInv, RowKept \/ Cleared \/ StoreFails,
         tdPc' # "tap", tdMsg' = NoMsg \/ tdMsg' = tdMsg \/ \E t : tdMsg' = [tdMsg EXCEPT !.text = t],
         tdPersona' = tdPersona \/ tdPersona' = DefaultPersona \/ tdPersona' = NoPersona
  PROVE  DialogIInv'
<1>1. RowOk(tdRow') /\ GhostOk(tdRow', tdGhost') BY KeepsRow DEF DialogIInv
<1>2. MsgOk' BY KeepsMsg DEF DialogIInv
<1>3. PersonaComplete' BY KeepsPersona DEF DialogIInv
<1> QED BY <1>1, <1>2, <1>3 DEF DialogIInv, RowOk, GhostOk

LEMMA FrontSteps ==
  ASSUME DialogIInv, \/ shouldProcessGroupMessage \/ maybeRunDeeplinkLogin \/ ToOnboarding \/ OnboardUnread
                     \/ GreetKnown \/ NoWizard
  PROVE  DialogIInv'
<1>1. CASE shouldProcessGroupMessage \/ maybeRunDeeplinkLogin
  BY <1>1, QuietStep DEF shouldProcessGroupMessage, maybeRunDeeplinkLogin, Done, AccountKept, RowKept
<1>2. CASE ToOnboarding \/ OnboardUnread
  BY <1>2, QuietStep DEF ToOnboarding, OnboardUnread, Goto, Becomes, AccountKept, RowKept
<1>3. CASE GreetKnown \/ NoWizard
  BY <1>3, QuietStep DEF GreetKnown, NoWizard, Done, Goto, Becomes, AccountKept
<1> QED BY <1>1, <1>2, <1>3

LEMMA WizardQuiet ==
  ASSUME DialogIInv, DiscardLeftover \/ InterruptWizard \/ ReissueStep \/ DeadRow
  PROVE  DialogIInv'
<1>1. CASE DiscardLeftover BY <1>1, QuietStep DEF DiscardLeftover, Goto, Becomes, AccountKept
<1>2. CASE InterruptWizard BY <1>2, QuietStep DEF InterruptWizard, Goto, Becomes, AccountKept
<1>3. CASE ReissueStep BY <1>3, QuietStep DEF ReissueStep, onboardingReissue, Done, AccountKept
<1>4. CASE DeadRow BY <1>4, QuietStep DEF DeadRow, Goto, Becomes, AccountKept
<1> QED BY <1>1, <1>2, <1>3, <1>4

LEMMA DispatchSteps ==
  ASSUME DialogIInv, getOrInitTelegramUser \/ maybeRunHostCommand \/ onboardingHandleSeed \/ HostTap \/ Redeploy
  PROVE  DialogIInv'
<1>1. CASE getOrInitTelegramUser
  BY <1>1, QuietStep DEF getOrInitTelegramUser, Done, Goto, Becomes, AccountKept
<1>2. CASE maybeRunHostCommand
  BY <1>2, QuietStep DEF maybeRunHostCommand, Done, RunHost, AccountKept
<1>3. CASE onboardingHandleSeed \/ HostTap
  BY <1>3, QuietStep DEF onboardingHandleSeed, HostTap, Done, Goto, Becomes, RunHost, AccountKept
<1>4. CASE Redeploy BY <1>4, QuietStep DEF Redeploy, Done, AccountKept
<1> QED BY <1>1, <1>2, <1>3, <1>4

\* The row is rewritten by a step of the wizard, the rest as above.
LEMMA WizardStep ==
  ASSUME DialogIInv, NEW step \in WizardSteps, NEW data, RowOk([step |-> step, data |-> data]), Stepped(step, data) \/ StoreFails,
         tdPc' # "tap", tdMsg' = NoMsg \/ tdMsg' = tdMsg \/ \E t : tdMsg' = [tdMsg EXCEPT !.text = t],
         tdPersona' = tdPersona
  PROVE  DialogIInv'
<1>1. CASE StoreFails BY <1>1, QuietStep
<1>2. CASE Stepped(step, data)
  <2>1. RowOk(tdRow') /\ GhostOk(tdRow', tdGhost') BY <1>2, StepsRow DEF DialogIInv
  <2>2. MsgOk' BY KeepsMsg DEF DialogIInv
  <2>3. PersonaComplete' BY KeepsPersona DEF DialogIInv
  <2> QED BY <2>1, <2>2, <2>3 DEF DialogIInv, RowOk, GhostOk
<1> QED BY <1>1, <1>2

LEMMA ReceiveStep == ASSUME DialogIInv, NEW c, NEW t, Receive(c, t) PROVE DialogIInv'
<1>1. tdPc' = "keys" /\ tdMsg' = [chat |-> c, text |-> t] /\ RowKept /\ tdPersona' = tdPersona BY DEF Receive, AccountKept
<1>2. MsgOk' BY <1>1 DEF MsgOk
<1>3. RowOk(tdRow') /\ GhostOk(tdRow', tdGhost') BY <1>1, KeepsRow DEF DialogIInv
<1>4. PersonaComplete' BY <1>1, KeepsPersona DEF DialogIInv
<1> QED BY <1>2, <1>3, <1>4 DEF DialogIInv, RowOk, GhostOk

\* endAwaitedReply closes the question of this chat before a key or a command goes on.
LEMMA EndAwaitedStep == ASSUME DialogIInv, endAwaitedReply PROVE DialogIInv'
<1>1. tdMsg' = [tdMsg EXCEPT !.text = tdMsg.text] /\ tdPersona' = tdPersona BY DEF endAwaitedReply, Goto, Becomes, AccountKept
<1>2. tdMsg'.text = tdMsg.text /\ tdMsg'.chat = tdMsg.chat /\ DOMAIN tdMsg' = {"chat", "text"} BY <1>1 DEF DialogIInv, MsgOk
<1>3. IF tdMsg.text \in Commands \cup Keys /\ awaitAskedIn(tdMsg.chat) THEN Cleared \/ StoreFails ELSE RowKept BY DEF endAwaitedReply
<1>4. RowOk(tdRow') /\ GhostOk(tdRow', tdGhost') BY <1>3, KeepsRow DEF DialogIInv
<1>5. MsgOk'
  <2>1. SUFFICES ASSUME tdMsg.text \in Commands \cup Keys, tdGhost'.faults = 0
                 PROVE  ~(tdRow'.step = "await" /\ tdRow'.data.chat = tdMsg.chat)
    BY <1>2 DEF MsgOk, awaitAskedIn
  <2>2. CASE Cleared BY <2>2, NoRowOk DEF Cleared, Stored
  <2>3. CASE StoreFails
    <3>1. tdGhost'.faults = tdGhost.faults + 1 /\ tdGhost.faults \in Nat BY <2>3 DEF StoreFails, DialogIInv, GhostOk
    <3> QED BY <2>1, <3>1
  <2>4. CASE ~awaitAskedIn(tdMsg.chat) /\ RowKept BY <2>4 DEF RowKept, awaitAskedIn
  <2> QED BY <1>3, <2>1, <2>2, <2>3, <2>4
<1>6. PersonaComplete' BY <1>1, KeepsPersona DEF DialogIInv
<1> QED BY <1>4, <1>5, <1>6 DEF DialogIInv, RowOk, GhostOk

\* A key or a command that went past the question did not leave it open.
LEMMA KeyboardSteps == ASSUME DialogIInv, handleKeyboardTap \/ answerKeyboardAsk PROVE DialogIInv'
<1>1. tdPc = "tap" /\ tdRow' = tdRow /\ AnswerEnds /\ tdPersona' = tdPersona
  BY DEF handleKeyboardTap, answerKeyboardAsk, AccountKept
<1>2. tdPc' # "tap" /\ (tdMsg' = NoMsg \/ \E t : tdMsg' = [tdMsg EXCEPT !.text = t])
  BY DEF handleKeyboardTap, answerKeyboardAsk, Done, Becomes
<1>3. MsgOk' BY <1>2, KeepsMsg DEF DialogIInv
<1>4. /\ DOMAIN tdGhost' = {"asked", "offers", "faults"} /\ tdGhost'.offers = tdGhost.offers /\ tdGhost'.faults = tdGhost.faults
      /\ tdGhost'.asked = IF tdGhost.asked = tdMsg.chat /\ tdMsg.text \in Commands \cup Keys THEN "" ELSE tdGhost.asked
  BY <1>1 DEF AnswerEnds, DialogIInv, GhostOk
<1>5. GhostOk(tdRow', tdGhost')
  <2>1. ASSUME tdRow.step = "await", tdGhost.faults = 0 PROVE tdGhost'.asked = tdRow.data.chat
    <3>1. tdGhost.asked = tdRow.data.chat BY <2>1 DEF DialogIInv, GhostOk
    <3>2. tdMsg.text \in Commands \cup Keys => tdGhost.asked # tdMsg.chat
      BY <1>1, <2>1, <3>1 DEF DialogIInv, MsgOk, awaitAskedIn
    <3> QED BY <1>4, <3>1, <3>2
  <2> QED BY <1>1, <1>4, <2>1 DEF DialogIInv, GhostOk
<1>6. PersonaComplete' BY <1>1, KeepsPersona DEF DialogIInv
<1> QED BY <1>1, <1>3, <1>5, <1>6 DEF DialogIInv, RowOk, GhostOk

LEMMA LinkStep == ASSUME DialogIInv, maybeRunDeeplinkLink PROVE DialogIInv'
<1>1. tdRow' = tdRow /\ tdPc' = "idle" /\ tdMsg' = NoMsg /\ (tdPersona' = tdPersona \/ tdPersona' = DefaultPersona)
  BY DEF maybeRunDeeplinkLink, Done, AccountKept
<1>2. tdGhost' = tdGhost \/ tdGhost' = [tdGhost EXCEPT !.offers = 0] BY DEF maybeRunDeeplinkLink
<1>3. GhostOk(tdRow', tdGhost') BY <1>1, <1>2 DEF DialogIInv, GhostOk
<1>4. MsgOk' BY <1>1, KeepsMsg DEF DialogIInv
<1>5. PersonaComplete' BY <1>1, KeepsPersona DEF DialogIInv
<1> QED BY <1>1, <1>3, <1>4, <1>5 DEF DialogIInv, RowOk, GhostOk

LEMMA EditRowOk == RowOk([step |-> "ask_name", data |-> [NoData EXCEPT !.edit = TRUE]])
BY NoDataFacts DEF RowOk, WizardSteps

LEMMA EditSteps == ASSUME DialogIInv, PersonaCommand \/ OfferTap PROVE DialogIInv'
<1>1. tdPc' = "idle" /\ tdMsg' = NoMsg /\ tdPersona' = tdPersona BY DEF PersonaCommand, OfferTap, Done, AccountKept
<1>2. Stepped("ask_name", [NoData EXCEPT !.edit = TRUE]) \/ StoreFails \/ RowKept BY DEF PersonaCommand, OfferTap, onboardingStartEdit
<1>3. "ask_name" \in WizardSteps BY DEF WizardSteps
<1>4. CASE RowKept BY <1>1, <1>4, QuietStep
<1>5. CASE Stepped("ask_name", [NoData EXCEPT !.edit = TRUE]) \/ StoreFails BY <1>1, <1>3, <1>5, EditRowOk, WizardStep
<1> QED BY <1>2, <1>4, <1>5

\* The question is closed as its answer goes to the command.
LEMMA AwaitedStep == ASSUME DialogIInv, AwaitedAnswer PROVE DialogIInv'
<1>1. tdPc' = "host" /\ tdMsg' = tdMsg /\ tdPersona' = tdPersona BY DEF AwaitedAnswer, RunHost, AccountKept
<1>2. CASE StoreFails BY <1>1, <1>2, QuietStep
<1>3. CASE ~StoreFails
  <2>1. tdRow' = NoRow /\ tdGhost' = [tdGhost EXCEPT !.asked = IF @ = tdMsg.chat THEN "" ELSE @] BY <1>3 DEF AwaitedAnswer, Stored
  <2>2. RowOk(tdRow') /\ tdRow'.step = "" BY <2>1, NoRowOk
  <2>3. GhostOk(tdRow', tdGhost') BY <2>1, <2>2 DEF DialogIInv, GhostOk
  <2>4. MsgOk' BY <1>1, KeepsMsg DEF DialogIInv
  <2>5. PersonaComplete' BY <1>1, KeepsPersona DEF DialogIInv
  <2> QED BY <2>2, <2>3, <2>4, <2>5 DEF DialogIInv, RowOk, GhostOk
<1> QED BY <1>2, <1>3

\* The offer retires its row, so it is made once.
LEMMA TickStep == ASSUME DialogIInv, onboardingTickOffer PROVE DialogIInv'
<1>1. tdPc' = "resolve" /\ (\E t : tdMsg' = [tdMsg EXCEPT !.text = t]) /\ tdPersona' = tdPersona
  BY DEF onboardingTickOffer, Goto, Becomes, AccountKept
<1>2. tdRow.step = "offer_pending" BY Sees DEF onboardingTickOffer
<1>3. tdGhost.offers = 0 /\ tdRow.data.edit = FALSE /\ DOMAIN tdRow.data = DataFields
  BY <1>2 DEF DialogIInv, GhostOk, RowOk, WizardSteps
<1>4. MsgOk' /\ PersonaComplete' BY <1>1, KeepsMsg, KeepsPersona DEF DialogIInv
<1>5. CASE StoreFails BY <1>1, <1>5, QuietStep
<1>6. CASE Stepped("offer_pending", [tdRow.data EXCEPT !.turns = tdRow.data.turns + 1])
  <2> DEFINE d == [tdRow.data EXCEPT !.turns = tdRow.data.turns + 1]
  <2>1. d.edit = FALSE /\ DOMAIN d = DataFields BY <1>3 DEF DataFields
  <2>2. tdRow' = [step |-> "offer_pending", data |-> d] /\ tdGhost' = tdGhost BY <1>6 DEF Stepped, Stored
  <2> HIDE DEF d
  <2>3. tdRow'.step = "offer_pending" /\ tdRow'.data = d /\ DOMAIN tdRow' = {"step", "data"} BY <2>2
  <2>4. RowOk(tdRow') BY <2>1, <2>3 DEF RowOk
  <2>5. GhostOk(tdRow', tdGhost') BY <1>3, <2>2, <2>3 DEF DialogIInv, GhostOk
  <2> QED BY <1>4, <2>4, <2>5 DEF DialogIInv, RowOk, GhostOk
<1>7. CASE Stored(NoRow, [tdGhost EXCEPT !.offers = @ + 1])
  <2>1. tdRow' = NoRow /\ tdGhost' = [tdGhost EXCEPT !.offers = @ + 1] BY <1>7 DEF Stored
  <2>2. RowOk(tdRow') /\ tdRow'.step = "" BY <2>1, NoRowOk
  <2>3. /\ DOMAIN tdGhost' = {"asked", "offers", "faults"} /\ tdGhost'.offers = tdGhost.offers + 1 /\ tdGhost'.faults = tdGhost.faults
    BY <2>1 DEF DialogIInv, GhostOk
  <2>4. tdGhost'.offers \in 0..1 BY <1>3, <2>3
  <2>5. GhostOk(tdRow', tdGhost') BY <2>2, <2>3, <2>4 DEF DialogIInv, GhostOk
  <2> QED BY <1>4, <2>2, <2>5 DEF DialogIInv, RowOk, GhostOk
<1> QED BY <1>5, <1>6, <1>7 DEF onboardingTickOffer

LEMMA StartRowOk == RowOk([step |-> "ask_name", data |-> NoData]) /\ "ask_name" \in WizardSteps
BY NoDataFacts DEF RowOk, WizardSteps

LEMMA StartStep == ASSUME DialogIInv, onboardingStart PROVE DialogIInv'
<1>1. /\ tdPc' # "tap" /\ tdPersona' = tdPersona /\ (tdMsg' = NoMsg \/ \E t : tdMsg' = [tdMsg EXCEPT !.text = t])
      /\ (Stepped("ask_name", NoData) \/ StoreFails \/ RowKept)
  BY DEF onboardingStart, Done, Goto, Becomes, AccountKept
<1>2. CASE RowKept BY <1>1, <1>2, QuietStep
<1>3. CASE Stepped("ask_name", NoData) \/ StoreFails BY <1>1, <1>3, StartRowOk, WizardStep
<1> QED BY <1>1, <1>2, <1>3

\* An account with the default persona; its offer starts anew.
LEMMA InstantStep == ASSUME DialogIInv, onboardingInstant PROVE DialogIInv'
<1>1. tdPc' # "tap" /\ (tdMsg' = NoMsg \/ tdMsg' = tdMsg \/ \E t : tdMsg' = [tdMsg EXCEPT !.text = t])
  BY DEF onboardingInstant, Done, Goto, Becomes, RunHost
<1>2. tdPersona' = tdPersona \/ tdPersona' = DefaultPersona BY DEF onboardingInstant, Mint, AlreadyDone, AccountKept
<1>3. \/ Stored([step |-> "offer_pending", data |-> NoData], [tdGhost EXCEPT !.offers = 0]) \/ StoreFails \/ RowKept
  BY DEF onboardingInstant
<1>4. CASE StoreFails \/ RowKept BY <1>1, <1>2, <1>4, QuietStep
<1>5. CASE Stored([step |-> "offer_pending", data |-> NoData], [tdGhost EXCEPT !.offers = 0])
  <2>1. tdRow' = [step |-> "offer_pending", data |-> NoData] /\ tdGhost' = [tdGhost EXCEPT !.offers = 0] BY <1>5 DEF Stored
  <2>2. RowOk(tdRow') /\ tdRow'.step = "offer_pending" BY <2>1, NoDataFacts DEF RowOk
  <2>3. GhostOk(tdRow', tdGhost') BY <2>1, <2>2 DEF DialogIInv, GhostOk
  <2>4. MsgOk' /\ PersonaComplete' BY <1>1, <1>2, KeepsMsg, KeepsPersona DEF DialogIInv
  <2> QED BY <2>2, <2>3, <2>4 DEF DialogIInv, RowOk, GhostOk
<1> QED BY <1>3, <1>4, <1>5

LEMMA InFlowAt == ASSUME NEW step, InFlow(step), step \notin {"", "await"} PROVE tdRow.step = step
BY Sees DEF InFlow

LEMMA NameStep == ASSUME DialogIInv, onboardingHandleName PROVE DialogIInv'
<1> DEFINE d == [tdRow.data EXCEPT !.name = TRUE]
<1>1. /\ tdPc' # "tap" /\ tdPersona' = tdPersona /\ (tdMsg' = NoMsg \/ \E t : tdMsg' = [tdMsg EXCEPT !.text = t])
      /\ (Stepped("ask_voice", d) \/ StoreFails \/ RowKept)
  BY DEF onboardingHandleName, Done, Goto, Becomes, AccountKept
<1>2. DOMAIN tdRow.data = DataFields BY DEF DialogIInv, RowOk
<1>3. DOMAIN d = DataFields /\ d.name = TRUE BY <1>2 DEF DataFields
<1> HIDE DEF d
<1>4. RowOk([step |-> "ask_voice", data |-> d]) /\ "ask_voice" \in WizardSteps BY <1>3 DEF RowOk, WizardSteps
<1>5. CASE RowKept BY <1>1, <1>5, QuietStep
<1>6. CASE Stepped("ask_voice", d) \/ StoreFails BY <1>1, <1>4, <1>6, WizardStep
<1> QED BY <1>1, <1>5, <1>6

\* From the traits on the answers are complete, and a step that keeps them is right.
LEMMA CompleteRow ==
  ASSUME RowOk(tdRow), tdRow.step \in {"ask_traits", "ask_description", "confirm"}
  PROVE  /\ RowOk([step |-> "ask_description", data |-> tdRow.data]) /\ RowOk([step |-> "confirm", data |-> tdRow.data])
         /\ "ask_description" \in WizardSteps /\ "confirm" \in WizardSteps
BY DEF RowOk, WizardSteps

LEMMA DescriptionStep == ASSUME DialogIInv, onboardingHandleDescription PROVE DialogIInv'
<1>1. /\ tdPc' # "tap" /\ tdPersona' = tdPersona /\ (tdMsg' = NoMsg \/ \E t : tdMsg' = [tdMsg EXCEPT !.text = t])
      /\ (Stepped("confirm", tdRow.data) \/ StoreFails)
  BY DEF onboardingHandleDescription, Done, Goto, Becomes, AccountKept
<1>2. tdRow.step = "ask_description" BY InFlowAt DEF onboardingHandleDescription
<1>3. RowOk([step |-> "confirm", data |-> tdRow.data]) /\ "confirm" \in WizardSteps BY <1>2, CompleteRow DEF DialogIInv
<1> QED BY <1>1, <1>3, WizardStep

LEMMA TapSteps == ASSUME DialogIInv, onboardingHandleTraitsDone \/ onboardingConfirmBack PROVE DialogIInv'
<1>1. /\ tdPc' # "tap" /\ tdPersona' = tdPersona /\ tdMsg' = NoMsg /\ (Stepped("ask_description", tdRow.data) \/ StoreFails)
      /\ tdRow.step \in {"ask_traits", "confirm"}
  BY DEF onboardingHandleTraitsDone, onboardingConfirmBack, WizardTap, Done, AccountKept
<1>2. RowOk([step |-> "ask_description", data |-> tdRow.data]) /\ "ask_description" \in WizardSteps
  BY <1>1, CompleteRow DEF DialogIInv
<1> QED BY <1>1, <1>2, WizardStep

LEMMA VoiceTap == ASSUME DialogIInv, onboardingHandleVoice PROVE DialogIInv'
<1> DEFINE d == [tdRow.data EXCEPT !.voice = TRUE, !.tags = 0]
<1>1. /\ tdPc' # "tap" /\ tdPersona' = tdPersona /\ tdMsg' = NoMsg /\ (Stepped("ask_traits", d) \/ StoreFails)
      /\ tdRow.step = "ask_voice"
  BY DEF onboardingHandleVoice, WizardTap, Done, AccountKept
<1>2. DOMAIN tdRow.data = DataFields /\ tdRow.data.name = TRUE BY <1>1 DEF DialogIInv, RowOk
<1>3. DOMAIN d = DataFields /\ d.name = TRUE /\ d.voice = TRUE /\ d.tags = 0 BY <1>2 DEF DataFields
<1>4. 0 \in 0..TagCap BY TagCapAssumption
<1> HIDE DEF d
<1>5. RowOk([step |-> "ask_traits", data |-> d]) /\ "ask_traits" \in WizardSteps BY <1>3, <1>4 DEF RowOk, WizardSteps
<1> QED BY <1>1, <1>5, WizardStep

LEMMA ToggleStep == ASSUME DialogIInv, onboardingToggleTrait PROVE DialogIInv'
<1>1. /\ tdPc' # "tap" /\ tdPersona' = tdPersona /\ tdMsg' = NoMsg /\ tdRow.step = "ask_traits"
      /\ (\/ StoreFails
          \/ \E n \in Toggled(tdRow.data.tags) : Stepped("ask_traits", [tdRow.data EXCEPT !.tags = n]))
  BY DEF onboardingToggleTrait, WizardTap, Done, AccountKept
<1>2. CASE StoreFails BY <1>1, <1>2, QuietStep
<1>3. ASSUME NEW n \in Toggled(tdRow.data.tags), Stepped("ask_traits", [tdRow.data EXCEPT !.tags = n]) PROVE DialogIInv'
  <2> DEFINE d == [tdRow.data EXCEPT !.tags = n]
  <2>1. DOMAIN tdRow.data = DataFields /\ tdRow.data.name = TRUE /\ tdRow.data.voice = TRUE BY <1>1 DEF DialogIInv, RowOk
  <2>2. DOMAIN d = DataFields /\ d.name = TRUE /\ d.voice = TRUE /\ d.tags = n BY <2>1 DEF DataFields
  <2>3. n \in 0..TagCap BY <1>3 DEF Toggled
  <2>4. Stepped("ask_traits", d) BY <1>3
  <2> HIDE DEF d
  <2>5. RowOk([step |-> "ask_traits", data |-> d]) /\ "ask_traits" \in WizardSteps BY <2>2, <2>3 DEF RowOk, WizardSteps
  <2> QED BY <1>1, <2>4, <2>5, WizardStep
<1> QED BY <1>1, <1>2, <1>3

\* The answers a persona is made from are complete.
LEMMA CollectedComplete ==
  ASSUME RowOk(tdRow), tdRow.step = "confirm"
  PROVE  Collected.name = TRUE /\ Collected.voice = TRUE /\ Collected.tags <= TagCap
BY TagCapAssumption DEF RowOk, Collected

LEMMA FinalizeStep == ASSUME DialogIInv, onboardingFinalize PROVE DialogIInv'
<1>1. tdPc' = "idle" /\ tdMsg' = NoMsg /\ tdRow.step = "confirm" BY DEF onboardingFinalize, WizardTap, Done
<1>2. tdPersona' = tdPersona \/ tdPersona' = Collected
  BY DEF onboardingFinalize, personaFinalize, AccountKept
<1>3. PersonaComplete'
  <2>1. CASE tdPersona' = tdPersona BY <2>1 DEF DialogIInv, PersonaComplete
  <2>2. CASE tdPersona' = Collected BY <1>1, <2>2, CollectedComplete DEF DialogIInv, PersonaComplete
  <2> QED BY <1>2, <2>1, <2>2
<1>4. MsgOk' BY <1>1, KeepsMsg DEF DialogIInv
<1>5. Cleared \/ StoreFails \/ Stored(NoRow, [tdGhost EXCEPT !.offers = 0])
  BY DEF onboardingFinalize, personaFinalize
<1>6. RowOk(tdRow') /\ GhostOk(tdRow', tdGhost')
  <2>1. CASE Cleared \/ StoreFails BY <2>1, KeepsRow DEF DialogIInv
  <2>2. CASE Stored(NoRow, [tdGhost EXCEPT !.offers = 0])
    <3>1. tdRow' = NoRow /\ tdGhost' = [tdGhost EXCEPT !.offers = 0] BY <2>2 DEF Stored
    <3>2. RowOk(tdRow') /\ tdRow'.step = "" BY <3>1, NoRowOk
    <3>3. DOMAIN tdGhost' = {"asked", "offers", "faults"} /\ tdGhost'.offers = 0 /\ tdGhost'.faults = tdGhost.faults
      BY <3>1 DEF DialogIInv, GhostOk
    <3>4. tdGhost'.offers \in 0..1 /\ tdGhost'.faults \in Nat BY <3>3 DEF DialogIInv, GhostOk
    <3>5. GhostOk(tdRow', tdGhost') BY <3>2, <3>3, <3>4 DEF GhostOk
    <3> QED BY <3>2, <3>5
  <2> QED BY <1>5, <2>1, <2>2
<1> QED BY <1>3, <1>4, <1>6 DEF DialogIInv, RowOk, GhostOk

\* settleAwaitedReply parks a question in the chat it was asked in, or ends it.
LEMMA SettleRow ==
  ASSUME RowOk(tdRow), GhostOk(tdRow, tdGhost), NEW asks \in BOOLEAN, settleAwaitedReply(asks)
  PROVE  RowOk(tdRow') /\ GhostOk(tdRow', tdGhost')
<1> DEFINE c == tdMsg.chat
           d == [NoData EXCEPT !.chat = c]
<1>1. \/ StoreFails \/ RowKept
      \/ Stored([step |-> "await", data |-> d], [tdGhost EXCEPT !.asked = c])
      \/ Stored(NoRow, [tdGhost EXCEPT !.asked = IF @ = c THEN "" ELSE @])
  BY DEF settleAwaitedReply
<1>2. CASE StoreFails \/ RowKept BY <1>2, KeepsRow
<1>3. CASE Stored([step |-> "await", data |-> d], [tdGhost EXCEPT !.asked = c])
  <2>1. DOMAIN d = DataFields /\ d.edit = FALSE /\ d.chat = c BY NoDataFacts DEF DataFields
  <2>2. tdRow' = [step |-> "await", data |-> d] /\ tdGhost' = [tdGhost EXCEPT !.asked = c] BY <1>3 DEF Stored
  <2> HIDE DEF d
  <2>3. tdRow'.step = "await" /\ tdRow'.data = d /\ DOMAIN tdRow' = {"step", "data"} BY <2>2
  <2>4. RowOk(tdRow') BY <2>1, <2>3 DEF RowOk
  <2>5. GhostOk(tdRow', tdGhost') BY <2>1, <2>2, <2>3 DEF GhostOk
  <2> QED BY <2>4, <2>5
<1>4. CASE Stored(NoRow, [tdGhost EXCEPT !.asked = IF @ = c THEN "" ELSE @])
  <2>1. tdRow' = NoRow /\ tdGhost' = [tdGhost EXCEPT !.asked = IF @ = c THEN "" ELSE @] BY <1>4 DEF Stored
  <2>2. RowOk(tdRow') /\ tdRow'.step = "" BY <2>1, NoRowOk
  <2>3. GhostOk(tdRow', tdGhost') BY <2>1, <2>2 DEF GhostOk
  <2> QED BY <2>2, <2>3
<1> QED BY <1>1, <1>2, <1>3, <1>4

LEMMA HostStep == ASSUME DialogIInv, execHostCommand PROVE DialogIInv'
<1>1. tdPc' # "tap" /\ (tdMsg' = NoMsg \/ \E t : tdMsg' = [tdMsg EXCEPT !.text = t])
  BY DEF execHostCommand, Done, greetAsNew, Becomes
<1>2. tdPersona' = tdPersona \/ tdPersona' = NoPersona BY DEF execHostCommand, AccountKept
<1>3. MsgOk' /\ PersonaComplete' BY <1>1, <1>2, KeepsMsg, KeepsPersona DEF DialogIInv
<1>4. \/ RowKept \/ (\E asks \in BOOLEAN : settleAwaitedReply(asks))
      \/ Stored(NoRow, [tdGhost EXCEPT !.asked = ""])
  BY DEF execHostCommand
<1>5. RowOk(tdRow') /\ GhostOk(tdRow', tdGhost')
  <2>1. CASE RowKept BY <2>1, KeepsRow DEF DialogIInv
  <2>2. CASE \E asks \in BOOLEAN : settleAwaitedReply(asks) BY <2>2, SettleRow DEF DialogIInv
  <2>3. CASE Stored(NoRow, [tdGhost EXCEPT !.asked = ""])
    <3>1. tdRow' = NoRow /\ tdGhost' = [tdGhost EXCEPT !.asked = ""] BY <2>3 DEF Stored
    <3>2. RowOk(tdRow') /\ tdRow'.step = "" BY <3>1, NoRowOk
    <3>3. GhostOk(tdRow', tdGhost') BY <3>1, <3>2 DEF DialogIInv, GhostOk
    <3> QED BY <3>2, <3>3
  <2> QED BY <1>4, <2>1, <2>2, <2>3
<1> QED BY <1>3, <1>5 DEF DialogIInv, RowOk, GhostOk
-----------------------------------------------------------------------------
LEMMA DialogBegins == ASSUME DialogInit PROVE DialogIInv
<1>1. RowOk(tdRow) /\ tdRow.step = "" BY NoRowOk DEF DialogInit
<1>2. tdGhost = [asked |-> "", offers |-> 0, faults |-> 0] BY DEF DialogInit
<1>5. DOMAIN tdGhost = {"asked", "offers", "faults"} /\ tdGhost.offers = 0 /\ tdGhost.faults = 0 BY <1>2
<1>6. tdGhost.offers \in 0..1 /\ tdGhost.faults \in Nat BY <1>5
<1>7. GhostOk(tdRow, tdGhost) BY <1>1, <1>5, <1>6 DEF GhostOk
<1>3. MsgOk BY DEF DialogInit, MsgOk
<1>4. PersonaComplete BY DEF DialogInit, PersonaComplete
<1> QED BY <1>1, <1>3, <1>4, <1>7 DEF DialogIInv

LEMMA DialogInductive == ASSUME DialogIInv, [DialogNext]_dialogVars PROVE DialogIInv'
<1>1. CASE \E c \in TdChats, t \in TdTexts : Receive(c, t) BY <1>1, ReceiveStep
<1>2. CASE endAwaitedReply BY <1>2, EndAwaitedStep
<1>3. CASE handleKeyboardTap \/ answerKeyboardAsk BY <1>3, KeyboardSteps
<1>4. CASE maybeRunDeeplinkLink BY <1>4, LinkStep
<1>5. CASE shouldProcessGroupMessage \/ maybeRunDeeplinkLogin \/ ToOnboarding \/ OnboardUnread \/ GreetKnown \/ NoWizard
  BY <1>5, FrontSteps
<1>6. CASE PersonaCommand \/ OfferTap BY <1>6, EditSteps
<1>7. CASE AwaitedAnswer BY <1>7, AwaitedStep
<1>8. CASE onboardingTickOffer BY <1>8, TickStep
<1>9. CASE DiscardLeftover \/ InterruptWizard \/ ReissueStep \/ DeadRow BY <1>9, WizardQuiet
<1>10. CASE onboardingInstant BY <1>10, InstantStep
<1>11. CASE onboardingStart BY <1>11, StartStep
<1>12. CASE onboardingHandleName BY <1>12, NameStep
<1>13. CASE onboardingHandleDescription BY <1>13, DescriptionStep
<1>14. CASE getOrInitTelegramUser \/ maybeRunHostCommand \/ onboardingHandleSeed \/ HostTap \/ Redeploy BY <1>14, DispatchSteps
<1>15. CASE execHostCommand BY <1>15, HostStep
<1>16. CASE onboardingHandleVoice BY <1>16, VoiceTap
<1>17. CASE onboardingToggleTrait BY <1>17, ToggleStep
<1>18. CASE onboardingHandleTraitsDone \/ onboardingConfirmBack BY <1>18, TapSteps
<1>19. CASE onboardingFinalize BY <1>19, FinalizeStep
<1>20. CASE UNCHANGED dialogVars
  <2>1. UNCHANGED <<tdRow, tdGhost, tdMsg, tdPc, tdPersona>> BY <1>20 DEF dialogVars
  <2> QED BY <2>1 DEF DialogIInv, RowOk, GhostOk, MsgOk, awaitAskedIn, PersonaComplete
<1> QED
  BY <1>1, <1>2, <1>3, <1>4, <1>5, <1>6, <1>7, <1>8, <1>9, <1>10, <1>11, <1>12, <1>13, <1>14, <1>15, <1>16, <1>17, <1>18, <1>19, <1>20
  DEF DialogNext

LEMMA DialogAlways == DialogSpec => []DialogIInv
<1>1. DialogInit => DialogIInv BY DialogBegins
<1>2. DialogIInv /\ [DialogNext]_dialogVars => DialogIInv' BY DialogInductive
<1> QED BY <1>1, <1>2, PTL DEF DialogSpec

\* Whatever steps of the wizard are repeated, interrupted, tapped late or lost
\* to the store, every persona has a name, a voice and no more traits than the
\* cap, and an account is offered its persona once (bot_onboarding.go): for any
\* number of accounts, store faults and turns before the offer, and any cap.
THEOREM DialogIsSound == DialogSpec => []DialogSound
<1>1. DialogIInv => DialogSound BY DEF DialogIInv, DialogSound, OfferedOnce, GhostOk
<1> QED BY <1>1, DialogAlways, PTL

\* Where a step may make an account: a paired link, /start of an unknown chat,
\* the end of a wizard that does not edit.
Making == maybeRunDeeplinkLink \/ onboardingInstant \/ onboardingFinalize
NewAccount == tdOwn' = [account |-> tdOwn.created + 1, created |-> tdOwn.created + 1]

LEMMA OwnChanges ==
  ASSUME DialogNext
  PROVE  tdOwn' = tdOwn \/ tdOwn' = [tdOwn EXCEPT !.account = 0] \/ (NewAccount /\ Making)
<1>1. CASE \E c \in TdChats, t \in TdTexts : Receive(c, t) BY <1>1 DEF Receive, AccountKept
<1>2. CASE endAwaitedReply \/ handleKeyboardTap \/ answerKeyboardAsk
  BY <1>2 DEF endAwaitedReply, handleKeyboardTap, answerKeyboardAsk, AccountKept
<1>3. CASE maybeRunDeeplinkLink BY <1>3 DEF maybeRunDeeplinkLink, NewAccount, Making, AccountKept
<1>4. CASE shouldProcessGroupMessage \/ maybeRunDeeplinkLogin \/ ToOnboarding \/ OnboardUnread \/ GreetKnown \/ NoWizard
  BY <1>4 DEF shouldProcessGroupMessage, maybeRunDeeplinkLogin, ToOnboarding, OnboardUnread, GreetKnown, NoWizard, AccountKept
<1>5. CASE PersonaCommand \/ OfferTap \/ AwaitedAnswer \/ onboardingTickOffer
  BY <1>5 DEF PersonaCommand, OfferTap, AwaitedAnswer, onboardingTickOffer, AccountKept
<1>6. CASE DiscardLeftover \/ InterruptWizard \/ ReissueStep \/ DeadRow
  BY <1>6 DEF DiscardLeftover, InterruptWizard, ReissueStep, DeadRow, AccountKept
<1>7. CASE onboardingInstant BY <1>7 DEF onboardingInstant, Mint, AlreadyDone, NewAccount, Making, AccountKept
<1>8. CASE onboardingStart \/ onboardingHandleName \/ onboardingHandleDescription
  BY <1>8 DEF onboardingStart, onboardingHandleName, onboardingHandleDescription, AccountKept
<1>9. CASE getOrInitTelegramUser \/ maybeRunHostCommand \/ onboardingHandleSeed \/ HostTap \/ Redeploy
  BY <1>9 DEF getOrInitTelegramUser, maybeRunHostCommand, onboardingHandleSeed, HostTap, Redeploy, AccountKept
<1>10. CASE execHostCommand BY <1>10 DEF execHostCommand, AccountKept
<1>11. CASE onboardingHandleVoice \/ onboardingToggleTrait \/ onboardingHandleTraitsDone \/ onboardingConfirmBack
  BY <1>11 DEF onboardingHandleVoice, onboardingToggleTrait, onboardingHandleTraitsDone, onboardingConfirmBack, AccountKept
<1>12. CASE onboardingFinalize BY <1>12 DEF onboardingFinalize, personaFinalize, NewAccount, Making, AccountKept
<1> QED
  BY <1>1, <1>2, <1>3, <1>4, <1>5, <1>6, <1>7, <1>8, <1>9, <1>10, <1>11, <1>12 DEF DialogNext

OwnOk == DOMAIN tdOwn = {"account", "created"}

LEMMA OwnAlways == DialogSpec => []OwnOk
<1>1. ASSUME DialogInit PROVE OwnOk BY <1>1 DEF DialogInit, OwnOk
<1>2. ASSUME OwnOk, [DialogNext]_dialogVars PROVE OwnOk'
  <2>1. CASE UNCHANGED dialogVars BY <1>2, <2>1 DEF OwnOk, dialogVars
  <2>2. CASE DialogNext BY <1>2, <2>2, OwnChanges DEF OwnOk, NewAccount
  <2> QED BY <1>2, <2>1, <2>2
<1>3. (DialogInit => OwnOk) /\ (OwnOk /\ [DialogNext]_dialogVars => OwnOk') BY <1>1, <1>2
<1> QED BY <1>3, PTL DEF DialogSpec

\* Only the answer to a question goes from the wizard to a command as an answer.
LEMMA AnswersCome ==
  ASSUME DialogNext, tdPc = "onboard", tdPc' = "host", tdOut' = "answer" PROVE AwaitedAnswer
<1>1. CASE \E c \in TdChats, t \in TdTexts : Receive(c, t) BY <1>1 DEF Receive
<1>2. CASE endAwaitedReply \/ handleKeyboardTap \/ answerKeyboardAsk
  BY <1>2 DEF endAwaitedReply, handleKeyboardTap, answerKeyboardAsk
<1>3. CASE maybeRunDeeplinkLink BY <1>3 DEF maybeRunDeeplinkLink
<1>4. CASE shouldProcessGroupMessage \/ maybeRunDeeplinkLogin \/ ToOnboarding \/ OnboardUnread \/ GreetKnown \/ NoWizard
  BY <1>4 DEF shouldProcessGroupMessage, maybeRunDeeplinkLogin, ToOnboarding, OnboardUnread, GreetKnown, NoWizard, Done, Goto, Becomes
<1>5. CASE PersonaCommand \/ OfferTap \/ onboardingTickOffer
  BY <1>5 DEF PersonaCommand, OfferTap, onboardingTickOffer, Done, Goto, Becomes
<1>6. CASE DiscardLeftover \/ InterruptWizard \/ ReissueStep \/ DeadRow
  BY <1>6 DEF DiscardLeftover, InterruptWizard, ReissueStep, onboardingReissue, DeadRow, Done, Goto, Becomes
<1>7. CASE onboardingInstant BY <1>7 DEF onboardingInstant, Done, Goto, Becomes, RunHost
<1>8. CASE onboardingStart \/ onboardingHandleName \/ onboardingHandleDescription
  BY <1>8 DEF onboardingStart, onboardingHandleName, onboardingHandleDescription, Done, Goto, Becomes
<1>9. CASE getOrInitTelegramUser \/ maybeRunHostCommand \/ onboardingHandleSeed \/ HostTap \/ Redeploy
  BY <1>9 DEF getOrInitTelegramUser, maybeRunHostCommand, onboardingHandleSeed, LateTap, HostTap, Redeploy, Done
<1>10. CASE execHostCommand BY <1>10 DEF execHostCommand
<1>11. CASE onboardingHandleVoice \/ onboardingToggleTrait \/ onboardingHandleTraitsDone \/ onboardingConfirmBack \/ onboardingFinalize
  BY <1>11 DEF onboardingHandleVoice, onboardingToggleTrait, onboardingHandleTraitsDone, onboardingConfirmBack, onboardingFinalize, Done
<1> QED
  BY <1>1, <1>2, <1>3, <1>4, <1>5, <1>6, <1>7, <1>8, <1>9, <1>10, <1>11 DEF DialogNext

\* While the store answers, a text runs a host command as an answer only in the
\* chat whose question is open, and a run that edits a persona makes no account
\* (endAwaitedReply, settleAwaitedReply, isEditRun): for any number of accounts
\* and store faults.
THEOREM AnswersStayInChat == DialogSpec => AnswersAndEdits
<1> DEFINE Step ==
      /\ (tdOut' = "answer" /\ tdPc' = "host" /\ tdPc = "onboard" /\ tdGhost'.faults = 0) => tdGhost.asked = tdMsg.chat
      /\ (tdRow.data.edit /\ tdRow'.data.edit) => tdOwn'.created = tdOwn.created \/ tdPc = "front"
<1>1. ASSUME DialogIInv, OwnOk, DialogNext PROVE Step
  <2>1. ASSUME tdOut' = "answer", tdPc' = "host", tdPc = "onboard", tdGhost'.faults = 0 PROVE tdGhost.asked = tdMsg.chat
    <3>1. AwaitedAnswer BY <1>1, <2>1, AnswersCome
    <3>2. awaitAskedIn(tdMsg.chat) BY <3>1, NoRowOk DEF AwaitedAnswer, SeenRow
    <3>3. tdGhost.faults = 0
      <4>1. CASE StoreFails
        <5>1. tdGhost'.faults = tdGhost.faults + 1 /\ tdGhost.faults \in Nat BY <1>1, <4>1 DEF StoreFails, DialogIInv, GhostOk
        <5> QED BY <2>1, <5>1
      <4>2. CASE ~StoreFails
        <5>1. tdGhost' = [tdGhost EXCEPT !.asked = IF @ = tdMsg.chat THEN "" ELSE @] BY <3>1, <4>2 DEF AwaitedAnswer, Stored
        <5>2. tdGhost'.faults = tdGhost.faults BY <1>1, <5>1 DEF DialogIInv, GhostOk
        <5> QED BY <2>1, <5>2
      <4> QED BY <4>1, <4>2
    <3> QED BY <1>1, <3>2, <3>3 DEF awaitAskedIn, DialogIInv, GhostOk
  <2>2. ASSUME tdRow.data.edit, tdPc # "front" PROVE tdOwn'.created = tdOwn.created
    <3>1. tdRow.step \in WizardSteps BY <1>1, <2>2 DEF DialogIInv, RowOk
    <3>2. ~maybeRunDeeplinkLink BY <2>2 DEF maybeRunDeeplinkLink
    <3>3. ~onboardingInstant
      <4>1. onboardingInstant => SeenRow.step = "" BY DEF onboardingInstant
      <4> QED BY <3>1, <4>1, Sees DEF WizardSteps
    <3>4. onboardingFinalize => tdOwn' = tdOwn BY <2>2 DEF onboardingFinalize, personaFinalize
    <3>5. tdOwn' = tdOwn \/ tdOwn' = [tdOwn EXCEPT !.account = 0] BY <1>1, <3>2, <3>3, <3>4, OwnChanges DEF Making
    <3> QED BY <1>1, <3>5 DEF OwnOk
  <2> QED BY <2>1, <2>2
<1>2. DialogIInv /\ OwnOk /\ [DialogNext]_dialogVars => [Step]_dialogVars BY <1>1
<1> QED BY <1>2, DialogAlways, OwnAlways, PTL DEF DialogSpec, AnswersAndEdits

-----------------------------------------------------------------------------
(* The component TelegramDelivery                                             *)

-----------------------------------------------------------------------------
(* Splitting                                                                   *)

Span == Nat \X Nat

LEMMA SpanFacts == ASSUME NEW p \in Span PROVE p[1] \in Nat /\ p[2] \in Nat /\ p = <<p[1], p[2]>>
BY DEF Span

LEMMA SpanOf == ASSUME NEW a \in Nat, NEW b \in Nat PROVE <<a, b>> \in Span /\ <<a, b>>[1] = a /\ <<a, b>>[2] = b
BY DEF Span

\* A cut is within the limit, and cuts something off.
LEMMA CutInRange == ASSUME NEW t, NEW from, NEW cap \in Nat, cap > 0 PROVE CutAt(t, from, cap) \in 1..cap
<1> DEFINE breaks == {i \in (cap \div 4 + 1)..cap : t[from + i] = "n"}
           blanks == {i \in breaks : i >= 2 /\ t[from + i - 1] = "n"}
           Latest(S) == CHOOSE i \in S : \A j \in S : j <= i
<1>1. CutAt(t, from, cap) = IF blanks # {} THEN Latest(blanks) ELSE IF breaks # {} THEN Latest(breaks) ELSE cap
  BY DEF CutAt
<1>2. cap \div 4 \in Nat OBVIOUS
<1>3. \A S : (S # {} /\ S \subseteq breaks) => Latest(S) \in 1..cap
  <2> SUFFICES ASSUME NEW S, S # {}, S \subseteq breaks PROVE Latest(S) \in 1..cap OBVIOUS
  <2>1. ASSUME NEW i \in S PROVE i \in Nat /\ i <= cap /\ i \in 1..cap
    <3>1. i \in (cap \div 4 + 1)..cap OBVIOUS
    <3> QED BY <1>2, <3>1
  <2>2. S \in SUBSET Nat /\ \A x \in S : x <= cap BY <2>1
  <2>3. Latest(S) \in S BY <2>2, ChooseGreatest
  <2> QED BY <2>1, <2>3
<1>4. blanks \subseteq breaks /\ breaks \subseteq breaks OBVIOUS
<1> HIDE DEF breaks, blanks, Latest
<1>5. cap \in 1..cap OBVIOUS
<1> QED BY <1>1, <1>3, <1>4, <1>5

\* ps covers lo..hi in pieces of at most cap, one behind the other.
Split(ps, lo, hi, cap) ==
  /\ ps \in Seq(Span)
  /\ \A i \in 1..Len(ps) : ps[i][1] <= ps[i][2] /\ ps[i][2] - ps[i][1] < cap /\ lo <= ps[i][1] /\ ps[i][2] <= hi
  /\ \A i \in 1..Len(ps) : ps[i][1] = IF i = 1 THEN lo ELSE ps[i - 1][2] + 1
  /\ lo <= hi => ps # <<>>
  /\ ps # <<>> => ps[Len(ps)][2] = hi

\* The loop: where each round ends, up to the round that reaches hi.
Rounds(t, lo, hi, cap, end) ==
  /\ end \in [0..(hi - lo + 1) -> (lo - 1)..hi] /\ end[0] = lo - 1
  /\ \A n \in 1..(hi - lo + 1) : end[n] = Consumed(t, end[n - 1], hi, cap)

LEMMA ConsumedFacts ==
  ASSUME NEW t, NEW lo \in Nat, NEW hi \in Nat, 1 <= lo, lo <= hi + 1, NEW cap \in Nat, cap > 0, NEW v \in (lo - 1)..hi
  PROVE  /\ Consumed(t, v, hi, cap) \in (lo - 1)..hi
         /\ v < hi => v < Consumed(t, v, hi, cap) /\ Consumed(t, v, hi, cap) - v <= cap
         /\ v = hi => Consumed(t, v, hi, cap) = hi
<1> DEFINE c == CutAt(t, v, cap)
<1>1. c \in 1..cap BY CutInRange
<1>2. Consumed(t, v, hi, cap) = IF hi - v <= cap THEN hi ELSE v + c BY DEF Consumed
<1> HIDE DEF c
<1> QED BY <1>1, <1>2

LEMMA RoundsExist ==
  ASSUME NEW t, NEW lo \in Nat, NEW hi \in Nat, 1 <= lo, lo <= hi + 1, NEW cap \in Nat, cap > 0
  PROVE  \E end : Rounds(t, lo, hi, cap, end)
<1> DEFINE V == (lo - 1)..hi
           C(v) == Consumed(t, v, hi, cap)
           h == [p \in Nat \X V |-> C(p[2])]
           L == hi - lo + 1
<1>1. L \in Nat /\ lo - 1 \in V OBVIOUS
<1>2. ASSUME NEW v \in V PROVE C(v) \in V BY ConsumedFacts
<1> HIDE DEF C, V, L
<1>3. h \in [Nat \X V -> V] /\ \A n \in Nat, v \in V : h[<<n, v>>] = C(v)
  <2>1. ASSUME NEW p \in Nat \X V PROVE C(p[2]) \in V BY <1>2
  <2> QED BY <2>1
<1> HIDE DEF h
<1>4. PICK F : Recurses(lo - 1, h, V, F) BY <1>1, <1>3, Recursion, Zenon
<1>5. F \in [Nat -> V] /\ F[0] = lo - 1 /\ \A n \in Nat : F[n + 1] = h[<<n, F[n]>>] BY <1>4 DEF Recurses
<1>6. ASSUME NEW n \in Nat PROVE F[n + 1] = C(F[n])
  <2>1. F[n] \in V BY <1>5
  <2> QED BY <1>3, <1>5, <2>1
<1> DEFINE f == [n \in 0..L |-> F[n]]
<1>7. f \in [0..L -> V] /\ f[0] = lo - 1
  <2>1. 0 \in 0..L /\ \A n \in 0..L : n \in Nat BY <1>1
  <2> QED BY <1>5, <2>1
<1>8. ASSUME NEW n \in 1..L PROVE f[n] = C(f[n - 1])
  <2>1. n - 1 \in Nat /\ n - 1 \in 0..L /\ n \in 0..L /\ (n - 1) + 1 = n BY <1>1
  <2>2. F[(n - 1) + 1] = C(F[n - 1]) BY <1>6, <2>1
  <2>3. f[n] = F[n] /\ f[n - 1] = F[n - 1] BY <2>1
  <2> QED BY <2>1, <2>2, <2>3
<1> HIDE DEF f
<1>9. Rounds(t, lo, hi, cap, f) BY <1>7, <1>8 DEF Rounds, C, V, L
<1> QED BY <1>9

\* Two walks of the loop agree.
LEMMA RoundsAgree ==
  ASSUME NEW t, NEW lo \in Nat, NEW hi \in Nat, NEW cap, NEW f, Rounds(t, lo, hi, cap, f), lo <= hi + 1,
         NEW G, G = [n \in 0..(hi - lo + 1) |-> IF n = 0 THEN lo - 1 ELSE Consumed(t, G[n - 1], hi, cap)]
  PROVE  \A n \in 0..(hi - lo + 1) : G[n] = f[n]
<1> DEFINE L == hi - lo + 1
           C(v) == Consumed(t, v, hi, cap)
           S == {n \in Nat : n <= L => G[n] = f[n]}
<1>1. L \in Nat OBVIOUS
<1>2. f[0] = lo - 1 /\ \A n \in 1..L : f[n] = C(f[n - 1]) BY DEF Rounds
<1>3. \A n \in 0..L : G[n] = IF n = 0 THEN lo - 1 ELSE C(G[n - 1]) OBVIOUS
<1> HIDE DEF C, L
<1>4. 0 \in S
  <2>1. 0 \in 0..L BY <1>1
  <2> QED BY <1>2, <1>3, <2>1
<1>5. ASSUME NEW n \in Nat, n \in S PROVE n + 1 \in S
  <2> SUFFICES ASSUME n + 1 <= L PROVE G[n + 1] = f[n + 1] OBVIOUS
  <2>1. n + 1 \in 0..L /\ n + 1 \in 1..L /\ n + 1 # 0 /\ (n + 1) - 1 = n /\ n <= L BY <1>1
  <2>2. G[n + 1] = C(G[(n + 1) - 1]) /\ f[n + 1] = C(f[(n + 1) - 1]) BY <1>2, <1>3, <2>1
  <2>3. G[n] = f[n] BY <1>5, <2>1
  <2> QED BY <2>1, <2>2, <2>3
<1> HIDE DEF S
<1>6. \A n \in Nat : n \in S BY <1>4, <1>5, SetInduction
<1> QED BY <1>1, <1>6 DEF S, L

\* ps is what r rounds of the loop f cut.
CutBy(t, lo, hi, cap, ps, f, r) ==
  /\ Rounds(t, lo, hi, cap, f)
  /\ r \in 0..(hi - lo + 1) /\ f[r] = hi /\ \A m \in 0..(r - 1) : f[m] # hi
  /\ ps = [i \in 1..r |-> <<f[i - 1] + 1, f[i]>>]

LEMMA SplitMessageIs ==
  ASSUME NEW t, NEW lo \in Nat, NEW hi \in Nat, 1 <= lo, lo <= hi + 1, NEW cap \in Nat, cap > 0,
         NEW ps, ps = splitMessage(t, lo, hi, cap)
  PROVE  \E f, r : CutBy(t, lo, hi, cap, ps, f, r)
<1> DEFINE L == hi - lo + 1
           C(v) == Consumed(t, v, hi, cap)
           G == CHOOSE g : g = [n \in 0..L |-> IF n = 0 THEN lo - 1 ELSE C(g[n - 1])]
           r == CHOOSE n \in 0..L : G[n] = hi /\ \A m \in 0..(n - 1) : G[m] # hi
<1>1. L \in Nat OBVIOUS
<1>2. splitMessage(t, lo, hi, cap) = [i \in 1..r |-> <<G[i - 1] + 1, G[i]>>] BY Zenon DEF splitMessage
<1>3. PICK f : Rounds(t, lo, hi, cap, f) BY RoundsExist
<1>4. f \in [0..L -> (lo - 1)..hi] /\ f[0] = lo - 1 /\ \A n \in 1..L : f[n] = C(f[n - 1]) BY <1>3 DEF Rounds
<1>5. f = [n \in 0..L |-> IF n = 0 THEN lo - 1 ELSE C(f[n - 1])]
  <2> HIDE DEF C, L
  <2>1. ASSUME NEW n \in 0..L PROVE f[n] = IF n = 0 THEN lo - 1 ELSE C(f[n - 1])
    <3>1. n = 0 \/ (n # 0 /\ n \in 1..L) BY <1>1
    <3> QED BY <1>4, <3>1
  <2>2. f = [n \in 0..L |-> f[n]] BY <1>4
  <2> QED BY <2>1, <2>2
<1>6. G = [n \in 0..L |-> IF n = 0 THEN lo - 1 ELSE C(G[n - 1])]
  <2> HIDE DEF C, L
  <2> QED BY <1>5, Zenon
<1>7. \A n \in 0..L : G[n] = f[n]
  <2> HIDE DEF G
  <2>1. G = [n \in 0..(hi - lo + 1) |-> IF n = 0 THEN lo - 1 ELSE Consumed(t, G[n - 1], hi, cap)] BY <1>6
  <2> QED BY <1>3, <2>1, RoundsAgree
<1> HIDE DEF G
<1> DEFINE S == {n \in Nat : n <= L => f[n] = hi \/ f[n] >= (lo - 1) + n}
<1>8. 0 \in S BY <1>4
<1>9. ASSUME NEW n \in Nat, n \in S PROVE n + 1 \in S
  <2> SUFFICES ASSUME n + 1 <= L PROVE f[n + 1] = hi \/ f[n + 1] >= (lo - 1) + (n + 1) OBVIOUS
  <2>1. n + 1 \in 1..L /\ (n + 1) - 1 = n /\ n <= L /\ n \in 0..L BY <1>1
  <2>2. f[n + 1] = C(f[n]) /\ f[n] \in (lo - 1)..hi BY <1>4, <2>1
  <2> DEFINE v == f[n]
             w == f[n + 1]
  <2>3. v = hi \/ v >= (lo - 1) + n BY <1>9, <2>1
  <2> HIDE DEF v, w
  <2>4. v \in (lo - 1)..hi /\ w = C(v) BY <2>2 DEF v, w
  <2>5. w \in (lo - 1)..hi /\ (v < hi => v < w) /\ (v = hi => w = hi) BY <2>4, ConsumedFacts
  <2>6. w = hi \/ w >= (lo - 1) + (n + 1) BY <2>3, <2>4, <2>5
  <2> QED BY <2>6 DEF w
<1> HIDE DEF S
<1>10. \A n \in Nat : n \in S BY <1>8, <1>9, SetInduction
<1>11. f[L] = hi
  <2>1. L \in S /\ L \in 0..L BY <1>1, <1>10
  <2>2. f[L] = hi \/ f[L] >= (lo - 1) + L BY <2>1, <1>1 DEF S
  <2>3. f[L] \in (lo - 1)..hi BY <1>4, <2>1
  <2> QED BY <2>2, <2>3
<1> DEFINE E == {n \in 0..L : f[n] = hi}
<1>12. PICK e \in E : \A y \in E : e <= y
  <2>1. E \in SUBSET Nat /\ L \in E BY <1>1, <1>11
  <2> HIDE DEF E
  <2> QED BY <2>1, LeastExists
<1>13. e \in 0..L /\ f[e] = hi /\ \A m \in 0..(e - 1) : f[m] # hi
  <2>1. e \in 0..L /\ f[e] = hi OBVIOUS
  <2>2. ASSUME NEW m \in 0..(e - 1) PROVE f[m] # hi
    <3>1. m \in 0..L /\ ~ (e <= m) BY <1>1, <2>1
    <3> QED BY <1>12, <3>1
  <2> QED BY <2>1, <2>2
<1> HIDE DEF E, L
<1>14. \E n \in 0..L : G[n] = hi /\ \A m \in 0..(n - 1) : G[m] # hi
  <2>1. \A m \in 0..(e - 1) : m \in 0..L BY <1>1, <1>13
  <2> QED BY <1>7, <1>13, <2>1
<1>15. r \in 0..L /\ G[r] = hi /\ \A m \in 0..(r - 1) : G[m] # hi BY <1>14, Zenon
<1> HIDE DEF r
<1>16. f[r] = hi /\ \A m \in 0..(r - 1) : f[m] # hi
  <2>1. \A m \in 0..(r - 1) : m \in 0..L BY <1>1, <1>15
  <2> QED BY <1>7, <1>15, <2>1
<1>17. [i \in 1..r |-> <<G[i - 1] + 1, G[i]>>] = [i \in 1..r |-> <<f[i - 1] + 1, f[i]>>]
  <2>1. \A i \in 1..r : i - 1 \in 0..L /\ i \in 0..L BY <1>1, <1>15
  <2> QED BY <1>7, <2>1
<1>18. CutBy(t, lo, hi, cap, ps, f, r) BY <1>2, <1>3, <1>15, <1>16, <1>17 DEF CutBy, L
<1> QED BY <1>18

LEMMA SplitMessageSplits ==
  ASSUME NEW t, NEW lo \in Nat, NEW hi \in Nat, 1 <= lo, lo <= hi + 1, NEW cap \in Nat, cap > 0,
         NEW ps, ps = splitMessage(t, lo, hi, cap)
  PROVE  Split(ps, lo, hi, cap)
<1> DEFINE L == hi - lo + 1
<1>0. PICK f, r : CutBy(t, lo, hi, cap, ps, f, r) BY SplitMessageIs
<1>1. /\ Rounds(t, lo, hi, cap, f)
      /\ r \in 0..L /\ f[r] = hi /\ \A m \in 0..(r - 1) : f[m] # hi
      /\ ps = [i \in 1..r |-> <<f[i - 1] + 1, f[i]>>]
  BY <1>0 DEF CutBy
<1>2. L \in Nat /\ r \in Nat BY <1>1
<1>3. /\ f \in [0..L -> (lo - 1)..hi] /\ f[0] = lo - 1
      /\ \A n \in 1..L : f[n] = Consumed(t, f[n - 1], hi, cap)
  BY <1>1 DEF Rounds
<1>4. ASSUME NEW i \in 1..r
      PROVE  /\ f[i - 1] \in (lo - 1)..hi /\ f[i] \in (lo - 1)..hi
             /\ f[i - 1] < f[i] /\ f[i] - f[i - 1] <= cap
  <2>1. i \in 1..L /\ i \in 0..L /\ i - 1 \in 0..L /\ i - 1 \in 0..(r - 1) BY <1>1, <1>2
  <2> DEFINE v == f[i - 1]
             w == f[i]
  <2>2. v \in (lo - 1)..hi /\ w \in (lo - 1)..hi /\ w = Consumed(t, v, hi, cap) /\ v # hi BY <1>1, <1>3, <2>1
  <2> HIDE DEF v, w
  <2>3. v < hi BY <2>2
  <2>4. v < w /\ w - v <= cap BY <2>2, <2>3, ConsumedFacts
  <2> QED BY <2>2, <2>4 DEF v, w
<1>5. ASSUME NEW i \in 1..r
      PROVE  /\ ps[i] \in Span /\ ps[i][1] = f[i - 1] + 1 /\ ps[i][2] = f[i]
  <2>1. ps[i] = <<f[i - 1] + 1, f[i]>> BY <1>1
  <2>2. f[i - 1] + 1 \in Nat /\ f[i] \in Nat BY <1>4
  <2> QED BY <2>1, <2>2, SpanOf
<1>6. ps \in Seq(Span) /\ Len(ps) = r
  <2>1. ps \in [1..r -> Span]
    <3>1. DOMAIN ps = 1..r BY <1>1
    <3>2. \A i \in 1..r : ps[i] \in Span BY <1>5
    <3> QED BY <1>1, <3>1, <3>2
  <2> QED BY <1>2, <2>1
<1>7. ASSUME NEW i \in 1..r
      PROVE ps[i][1] <= ps[i][2] /\ ps[i][2] - ps[i][1] < cap /\ lo <= ps[i][1] /\ ps[i][2] <= hi
  <2> DEFINE v == f[i - 1]
             w == f[i]
  <2>1. v \in (lo - 1)..hi /\ w \in (lo - 1)..hi /\ v < w /\ w - v <= cap BY <1>4
  <2>2. ps[i][1] = v + 1 /\ ps[i][2] = w BY <1>5
  <2> HIDE DEF v, w
  <2> QED BY <2>1, <2>2
<1>8. ASSUME NEW i \in 1..r PROVE ps[i][1] = IF i = 1 THEN lo ELSE ps[i - 1][2] + 1
  <2>1. CASE i = 1
    <3>1. ps[i][1] = f[i - 1] + 1 BY <1>5
    <3>2. f[i - 1] = lo - 1 BY <1>3, <2>1
    <3> QED BY <2>1, <3>1, <3>2
  <2>2. CASE i # 1
    <3> DEFINE j == i - 1
    <3>1. j \in 1..r BY <1>2, <2>2
    <3>2. ps[i][1] = f[j] + 1 BY <1>5
    <3> HIDE DEF j
    <3>3. ps[j][2] = f[j] BY <1>5, <3>1
    <3> QED BY <2>2, <3>2, <3>3 DEF j
  <2> QED BY <2>1, <2>2
<1>9. ASSUME lo <= hi PROVE ps # <<>>
  <2>1. r # 0 BY <1>1, <1>3, <1>9
  <2> QED BY <1>2, <1>6, <2>1
<1>10. ASSUME ps # <<>> PROVE ps[Len(ps)][2] = hi
  <2>1. r \in 1..r BY <1>2, <1>6, <1>10
  <2> QED BY <1>1, <1>5, <1>6, <2>1
<1> QED BY <1>6, <1>7, <1>8, <1>9, <1>10 DEF Split

-----------------------------------------------------------------------------
(* Requests that cover a text                                                  *)

Ways == Edits \cup {"sendPlain", "sendRich", "sendKeyboard", "sendPrepared", "sendFile"}
Fallbacks == {"err", "fresh", "legacy", "plain", "kb", "longonce", "part", "direct"}
JobType == [do : Ways, piece : Span, chunk : Span, retry : BOOLEAN, fail : Fallbacks]

\* A request lies inside its chunk; the next one starts where it ends, and if it
\* is of another chunk, this one is at an end and that one begins.
Inside(j) == 1 <= j.chunk[1] /\ j.chunk[1] <= j.piece[1] /\ j.piece[1] <= j.piece[2] /\ j.piece[2] <= j.chunk[2]
Follows(j, k) == /\ k.piece[1] = j.piece[2] + 1
                 /\ k.chunk # j.chunk => j.piece[2] = j.chunk[2] /\ k.chunk[1] = k.piece[1]

\* The requests js, all made, cover lo..hi in order.
Runs(js, lo, hi) ==
  /\ js \in Seq(JobType)
  /\ \A i \in 1..Len(js) : Inside(js[i])
  /\ \A i \in 1..(Len(js) - 1) : Follows(js[i], js[i + 1])
  /\ js = <<>> => lo = hi + 1
  /\ js # <<>> => js[1].piece[1] = lo /\ js[Len(js)].piece[2] = hi /\ js[Len(js)].chunk[2] = hi

\* The reader finds the first p characters, in order.
Covers(q, k) == q[1] <= k /\ k <= q[2]
Told(chat, p) ==
  /\ chat \in Seq(Span)
  /\ \A k \in 1..p : \E i \in 1..Len(chat) : Covers(chat[i], k)
  /\ \A k \in 1..(p - 1) : \E i, j \in 1..Len(chat) : i <= j /\ Covers(chat[i], k) /\ Covers(chat[j], k + 1)

\* The reader finds the first p characters and each of them once.
ToldOnce(chat, p) ==
  /\ chat \in Seq(Span)
  /\ \A i \in 1..Len(chat) : 1 <= chat[i][1] /\ chat[i][1] <= chat[i][2] /\ chat[i][2] <= p
  /\ \A i, j \in 1..Len(chat) : i < j => chat[i][2] < chat[j][1]
  /\ \A k \in 1..p : \E i \in 1..Len(chat) : Covers(chat[i], k)

TextLen == Len(tgOp.text)
Replies == {"finalize", "richlong"}
Onces == {"once", "direct", "file"}

SendsOn(j) == j.do \in {"sendPlain", "sendRich"} /\ j.fail \in {"err", "fresh", "plain"}
EditsOn(j) == j.do \in Edits /\ j.fail \in {"err", "fresh", "legacy"} /\ j.piece[1] = 1 /\ j.chunk[1] = 1
ReplyShape(js, chat) ==
  \A i \in 1..Len(js) : SendsOn(js[i]) \/ (i = 1 /\ EditsOn(js[1]) /\ Len(chat) = 1)

ReplyKept ==
  (tgOp.kind \in Replies /\ tgOp.text # <<>>) =>
    /\ tgResult \in {"", "ok"} => \E p, lo \in Nat : Told(tgChat, p) /\ lo <= p + 1 /\ Runs(tgJobs, lo, TextLen)
    /\ tgResult = "ok" => tgJobs = <<>>
    /\ ReplyShape(tgJobs, tgChat)

SendsOnce(j) == /\ j.do \in Ways \ Edits /\ ~j.retry /\ j.fail \in {"kb", "longonce", "part", "direct", "err"}
                /\ j.fail \in {"kb", "longonce", "direct"} => j.piece[1] = 1
OnceKept ==
  tgOp.kind \in Onces =>
    /\ tgResult \in {"", "ok"} => \E p \in Nat : ToldOnce(tgChat, p) /\ Runs(tgJobs, p + 1, TextLen)
    /\ tgResult = "ok" => tgJobs = <<>>
    /\ tgResult = "notsent" => tgChat = <<>>
    /\ \A i \in 1..Len(tgJobs) : SendsOnce(tgJobs[i])

OpType == [kind : Replies \cup Onces \cup {"guest"}, text : DeliveryTexts, rich : BOOLEAN, preview : BOOLEAN]
OpKept == tgOp \in OpType /\ (tgOp.text = <<>> => tgOp.kind \in Replies)

BucketType == [tokens : 0..SendBurst, paused : BOOLEAN, talked : BOOLEAN]
BucketKept == tgBucket \in BucketType /\ BulkSpares

Stages == {"", "summons", "open", "turn", "final", "settled", "end"}
Words == {"", "refusal", "placeholder", "partial", "noanswer", "final", "cut"}
ShownType == [text : Words, media : Nat]
GuestType == [pc : Stages, shown : ShownType, buf : Words, delivered : BOOLEAN, media : Nat, staged : Nat]
InlineType == [do : {"inline"}, piece : Span, chunk : Span, retry : BOOLEAN, fail : {"err", "cut"}, shown : ShownType]
AnswerWords == {"final", "cut"}
GuestKept ==
  /\ tgGuest \in GuestType
  /\ tgOp.kind # "guest" => tgGuest.pc = "" /\ ~tgGuest.delivered
  /\ tgOp.kind = "guest" =>
       /\ tgJobs # <<>> => /\ tgJobs \in Seq(InlineType) /\ Len(tgJobs) = 1 /\ tgGuest.pc \in {"final", "settled"}
                           /\ tgJobs[1].shown.text \in AnswerWords \/ (tgGuest.pc = "settled" /\ tgJobs[1].shown.text = "noanswer")
                           /\ tgGuest.pc = "settled" => ~tgGuest.delivered
       /\ tgGuest.delivered => tgGuest.shown.text \in AnswerWords /\ tgGuest.pc \notin {"summons", "open"}
       /\ (tgJobs = <<>> /\ tgTry.won /\ tgGuest.pc = "final") => tgGuest.shown.text \in AnswerWords
       /\ (tgJobs = <<>> /\ tgTry.won /\ tgGuest.pc = "settled") => tgGuest.shown.text \in AnswerWords \cup {"noanswer"}
       /\ (tgTry.won /\ tgGuest.pc = "end" /\ tgResult = "ok") => tgGuest.shown.text \in AnswerWords \cup {"noanswer"}

\* An empty text makes at most one request, whose failure ends the delivery.
BlankKept == tgOp.text = <<>> => tgJobs \in {<<>>, <<Job("sendPlain", Whole, Whole, FALSE, "err")>>}

DeliveryKept == OpKept /\ BucketKept /\ GuestKept /\ BlankKept /\ ReplyKept /\ OnceKept

-----------------------------------------------------------------------------
(* Facts about requests                                                        *)

LEMMA JobFacts ==
  ASSUME NEW j \in JobType
  PROVE  /\ j.do \in Ways /\ j.piece \in Span /\ j.chunk \in Span /\ j.retry \in BOOLEAN /\ j.fail \in Fallbacks
         /\ j.piece[1] \in Nat /\ j.piece[2] \in Nat /\ j.chunk[1] \in Nat /\ j.chunk[2] \in Nat
<1>1. j.do \in Ways /\ j.piece \in Span /\ j.chunk \in Span /\ j.retry \in BOOLEAN /\ j.fail \in Fallbacks
  BY DEF JobType
<1> QED BY <1>1, SpanFacts

LEMMA JobIs ==
  ASSUME NEW do \in Ways, NEW piece \in Span, NEW chunk \in Span, NEW retry \in BOOLEAN, NEW fail \in Fallbacks,
         NEW j, j = Job(do, piece, chunk, retry, fail)
  PROVE  /\ j \in JobType
         /\ j.do = do /\ j.piece = piece /\ j.chunk = chunk /\ j.retry = retry /\ j.fail = fail
BY DEF Job, JobType

Rest(T, s, k, t) ==
  /\ t \in Seq(T) /\ Len(t) = Len(s) - k + 1 /\ t # <<>>
  /\ \A i \in 1..Len(t) : i + k - 1 \in 1..Len(s) /\ t[i] = s[i + k - 1]

LEMMA SubSeqFacts ==
  ASSUME NEW T, NEW s \in Seq(T), NEW k \in 1..Len(s), NEW t, t = SubSeq(s, k, Len(s))
  PROVE  Rest(T, s, k, t)
<1> DEFINE L == Len(s)
<1>1. L \in Nat /\ k \in Int /\ 1 <= k /\ k <= L OBVIOUS
<1>2. Len(t) = L - k + 1 BY <1>1
<1>3. ASSUME NEW i \in 1..(L - k + 1) PROVE t[i] = s[i + k - 1] /\ i + k - 1 \in 1..L
  <2>1. t[i] = s[k + i - 1] BY <1>1
  <2>2. k + i - 1 = i + k - 1 /\ i + k - 1 \in 1..L BY <1>1
  <2> QED BY <2>1, <2>2
<1>4. t \in Seq(T)
  <2>1. ASSUME NEW i \in k..L PROVE s[i] \in T
    <3>1. i \in 1..L BY <1>1
    <3> QED BY <3>1
  <2> QED BY <1>1, <2>1
<1>5. t # <<>>
  <2>1. Len(t) # 0 BY <1>1, <1>2
  <2> QED BY <1>4, <2>1
<1> QED BY <1>2, <1>3, <1>4, <1>5 DEF Rest

LEMMA ShortTail ==
  ASSUME NEW T, NEW s \in Seq(T), s # <<>>
  PROVE  /\ Len(s) \in Nat /\ Len(s) >= 1 /\ Tail(s) \in Seq(T)
         /\ Len(s) = 1 => Tail(s) = <<>>
         /\ Len(s) # 1 => 2 \in 1..Len(s) /\ 1 \in 1..(Len(s) - 1) /\ Tail(s) = SubSeq(s, 2, Len(s))
<1>1. Len(s) \in Nat /\ Len(s) # 0 OBVIOUS
<1>2. Tail(s) \in Seq(T) /\ Len(Tail(s)) = Len(s) - 1 OBVIOUS
<1>3. ASSUME Len(s) = 1 PROVE Tail(s) = <<>>
  <2> DEFINE t == Tail(s)
  <2>1. t \in Seq(T) /\ Len(t) = 0 BY <1>2, <1>3
  <2> HIDE DEF t
  <2>2. t = <<>> BY <2>1
  <2> QED BY <2>2 DEF t
<1>4. Tail(s) = SubSeq(s, 2, Len(s)) OBVIOUS
<1> DEFINE L == Len(s)
<1>5. L \in Nat /\ L # 0 BY <1>1
<1> HIDE DEF L
<1>6. L >= 1 /\ (L # 1 => 2 \in 1..L /\ 1 \in 1..(L - 1)) BY <1>5
<1> QED BY <1>2, <1>3, <1>4, <1>5, <1>6 DEF L

LEMMA FirstIndex == ASSUME NEW T, NEW s \in Seq(T), s # <<>> PROVE 1 \in 1..Len(s)
<1> DEFINE L == Len(s)
<1>1. L \in Nat /\ L # 0 OBVIOUS
<1> HIDE DEF L
<1>2. 1 \in 1..L BY <1>1
<1> QED BY <1>2 DEF L

LEMMA RunsFrom ==
  ASSUME NEW js, NEW lo, NEW hi, Runs(js, lo, hi), NEW k \in 1..Len(js), NEW t, t = SubSeq(js, k, Len(js))
  PROVE  Runs(t, js[k].piece[1], hi) /\ t # <<>> /\ t[1] = js[k]
<1> DEFINE L == Len(js)
<1>1. /\ js \in Seq(JobType)
      /\ \A i \in 1..L : Inside(js[i])
      /\ \A i \in 1..(L - 1) : Follows(js[i], js[i + 1])
  BY DEF Runs
<1>2. L \in Nat /\ k \in Nat /\ 1 <= k /\ k <= L /\ js # <<>> BY <1>1
<1>3. js[L].piece[2] = hi /\ js[L].chunk[2] = hi BY <1>2 DEF Runs
<1>4. /\ t \in Seq(JobType) /\ Len(t) = L - k + 1 /\ t # <<>>
      /\ \A i \in 1..Len(t) : i + k - 1 \in 1..L /\ t[i] = js[i + k - 1]
  <2>1. Rest(JobType, js, k, t) BY <1>1, SubSeqFacts
  <2> QED BY <2>1 DEF Rest
<1> DEFINE M == Len(t)
<1> HIDE DEF L, M
<1>5. M \in Nat /\ M = L - k + 1 /\ M >= 1 /\ 1 \in 1..M /\ M \in 1..M BY <1>2, <1>4 DEF M
<1>6. \A i \in 1..M : i + k - 1 \in 1..L /\ t[i] = js[i + k - 1] BY <1>4 DEF M
<1>7. \A i \in 1..M : Inside(t[i]) BY <1>1, <1>6
<1>8. ASSUME NEW i \in 1..(M - 1) PROVE Follows(t[i], t[i + 1])
  <2>1. i \in 1..M /\ i + 1 \in 1..M /\ i + k - 1 \in 1..(L - 1) /\ (i + 1) + k - 1 = (i + k - 1) + 1 BY <1>2, <1>5
  <2>2. t[i] = js[i + k - 1] /\ t[i + 1] = js[(i + k - 1) + 1] BY <1>6, <2>1
  <2> QED BY <1>1, <2>1, <2>2
<1>9. t[1] = js[k]
  <2>1. 1 + k - 1 = k BY <1>2
  <2> QED BY <1>5, <1>6, <2>1
<1>10. t[M] = js[L]
  <2>1. M + k - 1 = L BY <1>2, <1>5
  <2> QED BY <1>5, <1>6, <2>1
<1> QED BY <1>3, <1>4, <1>7, <1>8, <1>9, <1>10 DEF Runs, M

LEMMA RunsTail ==
  ASSUME NEW js, NEW lo, NEW hi \in Nat, Runs(js, lo, hi), js # <<>>
  PROVE  Runs(Tail(js), js[1].piece[2] + 1, hi)
<1>1. js \in Seq(JobType) BY DEF Runs
<1>2. CASE Len(js) = 1
  <2>1. Tail(js) = <<>> BY <1>1, <1>2, ShortTail
  <2>2. js[1].piece[2] = hi BY <1>2 DEF Runs
  <2>3. <<>> \in Seq(JobType) /\ Len(<<>>) = 0 OBVIOUS
  <2> QED BY <2>1, <2>2, <2>3 DEF Runs
<1>3. CASE Len(js) # 1
  <2>1. 2 \in 1..Len(js) /\ 1 \in 1..(Len(js) - 1) /\ Tail(js) = SubSeq(js, 2, Len(js)) BY <1>1, <1>3, ShortTail
  <2>2. Runs(Tail(js), js[2].piece[1], hi) BY <2>1, RunsFrom
  <2>3. Follows(js[1], js[1 + 1]) BY <2>1 DEF Runs
  <2>4. js[2].piece[1] = js[1].piece[2] + 1 BY <2>3 DEF Follows
  <2> QED BY <2>2, <2>4
<1> QED BY <1>2, <1>3

\* The first request opens its chunk.
Opens(js) == js # <<>> => js[1].chunk[1] = js[1].piece[1]

LEMMA RunsJoin ==
  ASSUME NEW a, NEW b, NEW lo, NEW mid \in Nat, NEW hi, Runs(a, lo, mid), a # <<>>, Runs(b, mid + 1, hi), hi \in Nat,
         Opens(b), NEW c, c = a \o b
  PROVE  Runs(c, lo, hi) /\ c # <<>> /\ c[1] = a[1]
<1> DEFINE L == Len(a)
           M == Len(b)
<1>1. a \in Seq(JobType) /\ b \in Seq(JobType) /\ L \in Nat /\ M \in Nat /\ L >= 1 BY DEF Runs
<1>2. /\ c \in Seq(JobType) /\ Len(c) = L + M
      /\ \A i \in 1..L : c[i] = a[i]
      /\ \A i \in (L + 1)..(L + M) : c[i] = b[i - L]
  BY <1>1
<1>3. /\ \A i \in 1..L : Inside(a[i])
      /\ \A i \in 1..M : Inside(b[i])
      /\ \A i \in 1..(L - 1) : Follows(a[i], a[i + 1])
      /\ \A i \in 1..(M - 1) : Follows(b[i], b[i + 1])
  BY DEF Runs
<1>4. a[1].piece[1] = lo /\ a[L].piece[2] = mid /\ a[L].chunk[2] = mid BY DEF Runs
<1>5. (M = 0 => mid + 1 = hi + 1) /\ (M # 0 => b[1].piece[1] = mid + 1 /\ b[M].piece[2] = hi /\ b[M].chunk[2] = hi)
  <2>1. M = 0 <=> b = <<>> BY <1>1
  <2> QED BY <2>1 DEF Runs
<1>6. M # 0 => b[1].chunk[1] = b[1].piece[1] BY <1>1 DEF Opens
<1> HIDE DEF L, M
<1>7. ASSUME NEW i \in 1..(L + M) PROVE Inside(c[i])
  <2>1. CASE i <= L
    <3>1. i \in 1..L BY <1>1, <2>1
    <3> QED BY <1>2, <1>3, <3>1
  <2>2. CASE ~ (i <= L)
    <3>1. i \in (L + 1)..(L + M) /\ i - L \in 1..M BY <1>1, <2>2
    <3> QED BY <1>2, <1>3, <3>1
  <2> QED BY <2>1, <2>2
<1>8. ASSUME NEW i \in 1..(L + M - 1) PROVE Follows(c[i], c[i + 1])
  <2>1. CASE i < L
    <3>1. i \in 1..L /\ i + 1 \in 1..L /\ i \in 1..(L - 1) BY <1>1, <2>1
    <3> QED BY <1>2, <1>3, <3>1
  <2>2. CASE i = L
    <3>1. i \in 1..L /\ i + 1 \in (L + 1)..(L + M) /\ (i + 1) - L = 1 /\ M # 0 BY <1>1, <2>2
    <3>2. c[i] = a[L] /\ c[i + 1] = b[1] BY <1>2, <2>2, <3>1
    <3>3. b[1].piece[1] = a[L].piece[2] + 1 /\ a[L].piece[2] = a[L].chunk[2] /\ b[1].chunk[1] = b[1].piece[1]
      BY <1>4, <1>5, <1>6, <3>1
    <3> QED BY <3>2, <3>3 DEF Follows
  <2>3. CASE i > L
    <3>1. /\ i \in (L + 1)..(L + M) /\ i + 1 \in (L + 1)..(L + M) /\ i - L \in 1..(M - 1) /\ (i + 1) - L = (i - L) + 1
      BY <1>1, <2>3
    <3>2. c[i] = b[i - L] /\ c[i + 1] = b[(i - L) + 1] BY <1>2, <3>1
    <3> QED BY <1>3, <3>1, <3>2
  <2>4. i < L \/ i = L \/ i > L BY <1>1
  <2> QED BY <2>1, <2>2, <2>3, <2>4
<1>9. c[1] = a[1] /\ c[1].piece[1] = lo
  <2>1. 1 \in 1..L BY <1>1
  <2> QED BY <1>2, <1>4, <2>1
<1>10. c[L + M].piece[2] = hi /\ c[L + M].chunk[2] = hi
  <2>1. CASE M = 0
    <3>1. L + M = L /\ L \in 1..L /\ mid = hi BY <1>1, <1>5, <2>1
    <3>2. c[L + M] = a[L] BY <1>2, <3>1
    <3> QED BY <1>4, <3>1, <3>2
  <2>2. CASE M # 0
    <3>1. L + M \in (L + 1)..(L + M) /\ (L + M) - L = M BY <1>1, <2>2
    <3>2. c[L + M] = b[M] BY <1>2, <3>1
    <3> QED BY <1>5, <2>2, <3>2
  <2> QED BY <2>1, <2>2
<1>11. c # <<>>
  <2>1. Len(c) # 0 BY <1>1, <1>2
  <2> QED BY <1>2, <2>1
<1>12. /\ \A i \in 1..Len(c) : Inside(c[i])
       /\ \A i \in 1..(Len(c) - 1) : Follows(c[i], c[i + 1])
  <2> DEFINE K == Len(c)
  <2>1. K = L + M BY <1>2
  <2> HIDE DEF K
  <2>2. \A i \in 1..K : Inside(c[i]) BY <1>7, <2>1
  <2>3. \A i \in 1..(K - 1) : Follows(c[i], c[i + 1])
    <3>1. \A i \in 1..(K - 1) : i \in 1..(L + M - 1) BY <1>1, <2>1
    <3> QED BY <1>8, <3>1
  <2> QED BY <2>2, <2>3 DEF K
<1>13. c[Len(c)].piece[2] = hi /\ c[Len(c)].chunk[2] = hi BY <1>2, <1>10
<1> QED BY ONLY c \in Seq(JobType), <1>2, <1>9, <1>11, <1>12, <1>13 DEF Runs

\* Requests that carry the pieces of a split, of one chunk or each its own chunk.
Carries(js, ps, lo, hi) ==
  /\ js \in Seq(JobType) /\ Len(js) = Len(ps)
  /\ \A i \in 1..Len(ps) : js[i].piece = ps[i]
  /\ (\A i \in 1..Len(ps) : js[i].chunk = <<lo, hi>>) \/ (\A i \in 1..Len(ps) : js[i].chunk = ps[i])

LEMMA SpreadRuns ==
  ASSUME NEW ps, NEW lo \in Nat, NEW hi \in Nat, NEW cap, 1 <= lo, lo <= hi, Split(ps, lo, hi, cap),
         NEW js, Carries(js, ps, lo, hi)
  PROVE  Runs(js, lo, hi) /\ js # <<>>
<1>0. /\ js \in Seq(JobType) /\ Len(js) = Len(ps)
      /\ \A i \in 1..Len(ps) : js[i].piece = ps[i]
      /\ (\A i \in 1..Len(ps) : js[i].chunk = <<lo, hi>>) \/ (\A i \in 1..Len(ps) : js[i].chunk = ps[i])
  BY DEF Carries
<1> DEFINE L == Len(ps)
           C(i) == js[i].chunk = <<lo, hi>> \/ js[i].chunk = ps[i]
<1>1. /\ ps \in Seq(Span)
      /\ \A i \in 1..L : ps[i][1] <= ps[i][2] /\ lo <= ps[i][1] /\ ps[i][2] <= hi
      /\ \A i \in 1..L : ps[i][1] = IF i = 1 THEN lo ELSE ps[i - 1][2] + 1
      /\ ps # <<>> /\ ps[L][2] = hi
  BY DEF Split
<1>2. L \in Nat /\ L # 0 BY <1>1
<1>3. ASSUME NEW i \in 1..L PROVE ps[i] \in Span /\ ps[i][1] \in Nat /\ ps[i][2] \in Nat BY <1>1, SpanFacts
<1>4. <<lo, hi>>[1] = lo /\ <<lo, hi>>[2] = hi OBVIOUS
<1>5. \A i \in 1..L : js[i].piece = ps[i] /\ C(i) BY <1>0
<1>6. js \in Seq(JobType) /\ Len(js) = L /\ js # <<>>
  <2>1. Len(js) = L /\ Len(js) # 0 BY <1>0, <1>2
  <2> QED BY <1>0, <2>1
<1> HIDE DEF L
<1>7. ASSUME NEW i \in 1..L PROVE Inside(js[i])
  <2>1. js[i].piece = ps[i] /\ C(i) BY <1>5
  <2>2. lo <= ps[i][1] /\ ps[i][1] <= ps[i][2] /\ ps[i][2] <= hi BY <1>1
  <2>3. ps[i][1] \in Nat /\ ps[i][2] \in Nat BY <1>3
  <2>4. CASE js[i].chunk = <<lo, hi>>
    <3>1. js[i].chunk[1] = lo /\ js[i].chunk[2] = hi BY <1>4, <2>4
    <3> QED BY <2>1, <2>2, <2>3, <3>1 DEF Inside
  <2>5. CASE js[i].chunk = ps[i] BY <2>1, <2>2, <2>3, <2>5 DEF Inside
  <2> HIDE DEF C
  <2> QED BY <2>1, <2>4, <2>5 DEF C
<1>8. ASSUME NEW i \in 1..(L - 1) PROVE Follows(js[i], js[i + 1])
  <2> DEFINE k == i + 1
  <2>1. i \in 1..L /\ k \in 1..L /\ k # 1 /\ k - 1 = i BY <1>2
  <2> HIDE DEF k
  <2>2. ps[k][1] = ps[i][2] + 1 BY <1>1, <2>1
  <2>3. js[i].piece = ps[i] /\ js[k].piece = ps[k] BY <1>5, <2>1
  <2>4. js[k].chunk # js[i].chunk => js[i].chunk = ps[i] /\ js[k].chunk = ps[k]
    <3>1. CASE \A j \in 1..L : js[j].chunk = <<lo, hi>> BY <2>1, <3>1
    <3>2. CASE \A j \in 1..L : js[j].chunk = ps[j] BY <2>1, <3>2
    <3> QED BY <1>0, <3>1, <3>2 DEF L
  <2>5. Follows(js[i], js[k]) BY <2>2, <2>3, <2>4 DEF Follows
  <2> QED BY <2>5 DEF k
<1>9. 1 \in 1..L /\ L \in 1..L BY <1>2
<1>10. js[1].piece[1] = lo
  <2>1. ps[1][1] = lo BY <1>1, <1>9
  <2> QED BY <1>5, <1>9, <2>1
<1>11. js[L].piece[2] = hi /\ js[L].chunk[2] = hi
  <2>1. js[L].piece = ps[L] /\ (js[L].chunk = <<lo, hi>> \/ js[L].chunk = ps[L]) BY <1>5, <1>9
  <2> QED BY <1>1, <1>4, <2>1
<1> QED BY <1>6, <1>7, <1>8, <1>10, <1>11 DEF Runs

\* What is left when the first request's chunk falls back covers what follows it.
LEMMA LaterRuns ==
  ASSUME NEW lo, NEW hi \in Nat, Runs(tgJobs, lo, hi), tgJobs # <<>>, NEW t, t = Later(tgJobs[1])
  PROVE  /\ Runs(t, tgJobs[1].chunk[2] + 1, hi)
         /\ Opens(t)
         /\ \A i \in 1..Len(t) : \E k \in 2..Len(tgJobs) : t[i] = tgJobs[k]
<1> DEFINE js == tgJobs
           L == Len(js)
           from == {i \in 1..L : js[i].chunk # js[1].chunk}
           n == CHOOSE i \in from : \A j \in from : i <= j
<1>1. t = IF from = {} THEN <<>> ELSE SubSeq(js, n, L) BY Zenon DEF Later
<1>2. js \in Seq(JobType) /\ L \in Nat /\ L # 0 BY DEF Runs
<1>3. js[L].piece[2] = hi /\ js[L].chunk[2] = hi BY DEF Runs
<1>4. CASE from = {}
  <2>1. t = <<>> /\ Len(<<>>) = 0 /\ <<>> \in Seq(JobType) BY <1>1, <1>4
  <2>2. L \in 1..L BY <1>2
  <2>3. js[L].chunk = js[1].chunk BY <1>4, <2>2
  <2>4. js[1].chunk[2] = hi BY <1>3, <2>3
  <2>5. Runs(t, js[1].chunk[2] + 1, hi) BY <2>1, <2>4 DEF Runs
  <2> QED BY <2>1, <2>5 DEF Opens
<1>5. CASE from # {}
  <2>1. from \in SUBSET Nat OBVIOUS
  <2>2. n \in from /\ \A j \in from : n <= j
    <3> HIDE DEF from
    <3> QED BY <1>5, <2>1, ChooseLeast
  <2>3. t = SubSeq(js, n, L) BY <1>1, <1>5
  <2> HIDE DEF n
  <2>4. n \in 1..L /\ js[n].chunk # js[1].chunk BY <2>2
  <2>5. n # 1 BY <2>4
  <2>6. n - 1 \in 1..(L - 1) /\ (n - 1) + 1 = n /\ n - 1 \in 1..L BY <1>2, <2>4, <2>5
  <2>7. js[n - 1].chunk = js[1].chunk
    <3>1. ~ (n <= n - 1) BY <2>4
    <3> QED BY <2>2, <2>6, <3>1
  <2>8. Follows(js[n - 1], js[n])
    <3>1. Follows(js[n - 1], js[(n - 1) + 1]) BY <2>6 DEF Runs
    <3> QED BY <2>6, <3>1
  <2>9. js[n].piece[1] = js[1].chunk[2] + 1 /\ js[n].chunk[1] = js[n].piece[1] BY <2>4, <2>7, <2>8 DEF Follows
  <2>10. Runs(t, js[n].piece[1], hi) /\ t # <<>> /\ t[1] = js[n] BY <2>3, <2>4, RunsFrom
  <2>11. ASSUME NEW i \in 1..Len(t) PROVE \E k \in 2..L : t[i] = js[k]
    <3>1. Rest(JobType, js, n, t) BY <1>2, <2>3, <2>4, SubSeqFacts
    <3>2. i + n - 1 \in 1..L /\ t[i] = js[i + n - 1] BY <3>1 DEF Rest
    <3>3. i + n - 1 \in 2..L BY <1>2, <2>4, <2>5, <3>2
    <3> QED BY <3>2, <3>3
  <2> QED BY <2>9, <2>10, <2>11 DEF Opens
<1> QED BY <1>4, <1>5

-----------------------------------------------------------------------------
(* The requests of each form                                                   *)

LEMMA WaysAre == /\ "sendPlain" \in Ways /\ "sendRich" \in Ways /\ "sendKeyboard" \in Ways /\ "sendPrepared" \in Ways
                 /\ "sendFile" \in Ways /\ "editPlain" \in Ways /\ "editRich" \in Ways
                 /\ "editPlain" \in Edits /\ "editRich" \in Edits
BY DEF Ways, Edits

LEMMA Caps == PlainCap \in Nat /\ PlainCap > 0 /\ RichCap \in Nat /\ RichCap > 0 /\ PlainCap <= RichCap
BY DeliveryConstants

LEMMA OneRun ==
  ASSUME NEW j \in JobType, NEW lo \in Nat, NEW hi \in Nat, 1 <= lo, lo <= hi, j.piece = <<lo, hi>>, j.chunk = <<lo, hi>>
  PROVE  Runs(<<j>>, lo, hi) /\ <<j>> # <<>> /\ Len(<<j>>) = 1 /\ <<j>>[1] = j
<1> DEFINE s == <<j>>
<1>1. s \in Seq(JobType) /\ Len(s) = 1 /\ s # <<>> /\ s[1] = j OBVIOUS
<1>2. <<lo, hi>>[1] = lo /\ <<lo, hi>>[2] = hi OBVIOUS
<1>3. j.piece[1] = lo /\ j.piece[2] = hi /\ j.chunk[1] = lo /\ j.chunk[2] = hi BY <1>2
<1>4. Inside(j) BY <1>3 DEF Inside
<1> HIDE DEF s
<1>5. (\A i \in 1..Len(s) : Inside(s[i])) /\ (\A i \in 1..(Len(s) - 1) : Follows(s[i], s[i + 1])) BY <1>1, <1>4
<1>6. Runs(s, lo, hi) BY <1>1, <1>3, <1>5 DEF Runs
<1> QED BY <1>1, <1>6 DEF s

\* js covers the chunk as literal parts.
PartsOf(js, chunk, retry, fail) ==
  /\ Runs(js, chunk[1], chunk[2]) /\ js # <<>> /\ js[1].chunk[1] = chunk[1] /\ js[1].piece[1] = chunk[1]
  /\ \A i \in 1..Len(js) : js[i].do = "sendPlain" /\ js[i].retry = retry /\ js[i].fail = fail

LEMMA PartsRun ==
  ASSUME NEW chunk \in Span, 1 <= chunk[1], chunk[1] <= chunk[2], NEW retry \in BOOLEAN, NEW fail \in Fallbacks,
         NEW js, js = PlainParts(chunk, retry, fail)
  PROVE  PartsOf(js, chunk, retry, fail)
<1> DEFINE ps == splitMessage(tgOp.text, chunk[1], chunk[2], PlainCap)
           lo == chunk[1]
           hi == chunk[2]
<1>1. lo \in Nat /\ hi \in Nat /\ chunk = <<lo, hi>> /\ 1 <= lo /\ lo <= hi /\ lo <= hi + 1 BY SpanFacts
<1>2. js = [i \in 1..Len(ps) |-> Job("sendPlain", ps[i], chunk, retry, fail)] BY DEF PlainParts
<1>3. Split(ps, lo, hi, PlainCap)
  <2> HIDE DEF lo, hi, ps
  <2>1. ps = splitMessage(tgOp.text, lo, hi, PlainCap) BY DEF ps, lo, hi
  <2> QED BY <1>1, <2>1, Caps, SplitMessageSplits
<1> HIDE DEF ps
<1>4. ps \in Seq(Span) /\ Len(ps) \in Nat BY <1>3 DEF Split
<1>5. ASSUME NEW i \in 1..Len(ps)
      PROVE  /\ js[i] \in JobType /\ js[i].do = "sendPlain" /\ js[i].piece = ps[i] /\ js[i].chunk = chunk
             /\ js[i].retry = retry /\ js[i].fail = fail
  <2>1. js[i] = Job("sendPlain", ps[i], chunk, retry, fail) BY <1>2
  <2>2. ps[i] \in Span BY <1>4
  <2> QED BY <2>1, <2>2, JobIs, WaysAre
<1>6. js \in Seq(JobType) /\ Len(js) = Len(ps)
  <2> DEFINE L == Len(ps)
  <2>1. L \in Nat /\ DOMAIN js = 1..L /\ \A i \in 1..L : js[i] \in JobType BY <1>2, <1>4, <1>5
  <2>2. js = [i \in 1..L |-> js[i]] BY <1>2
  <2> HIDE DEF L
  <2>3. js \in [1..L -> JobType] BY <2>1, <2>2
  <2>4. js \in Seq(JobType) /\ Len(js) = L BY <2>1, <2>3
  <2> QED BY <2>4 DEF L
<1>7. \A i \in 1..Len(ps) : js[i].piece = ps[i] /\ js[i].chunk = <<lo, hi>> BY <1>1, <1>5
<1>8. Runs(js, lo, hi) /\ js # <<>>
  <2> HIDE DEF lo, hi
  <2>1. Carries(js, ps, lo, hi) BY <1>6, <1>7 DEF Carries
  <2> QED BY <1>1, <1>3, <2>1, SpreadRuns
<1>9. js[1].piece[1] = lo BY <1>8 DEF Runs
<1>10. 1 \in 1..Len(ps)
  <2>1. Len(js) # 0 BY <1>6, <1>8
  <2> QED BY <1>4, <1>6, <2>1
<1>11. js[1].chunk = chunk BY <1>5, <1>10
<1> QED BY <1>5, <1>6, <1>8, <1>9, <1>11 DEF PartsOf

\* js covers the chunk as literal parts, the first of which replaces the preview.
LegacyOf(js, chunk, fail) ==
  /\ Runs(js, chunk[1], chunk[2]) /\ js # <<>> /\ js[1].chunk[1] = chunk[1] /\ js[1].piece[1] = chunk[1]
  /\ \A i \in 1..Len(js) : js[i].fail = fail /\ (i # 1 => js[i].do = "sendPlain")
  /\ js[1].do = "editPlain"

LEMMA LegacyRun ==
  ASSUME NEW chunk \in Span, 1 <= chunk[1], chunk[1] <= chunk[2], NEW fail \in Fallbacks,
         NEW js, js = finalizeLegacyPreview(chunk, fail)
  PROVE  LegacyOf(js, chunk, fail)
<1> DEFINE ps == PlainParts(chunk, TRUE, fail)
           L == Len(ps)
<1>1. js = [i \in 1..L |-> IF i = 1 THEN [ps[1] EXCEPT !.do = "editPlain"] ELSE ps[i]]
  BY DEF finalizeLegacyPreview
<1> HIDE DEF ps
<1>2. /\ Runs(ps, chunk[1], chunk[2]) /\ ps # <<>> /\ ps[1].chunk[1] = chunk[1] /\ ps[1].piece[1] = chunk[1]
      /\ \A i \in 1..L : ps[i].do = "sendPlain" /\ ps[i].fail = fail
  <2>1. ps = PlainParts(chunk, TRUE, fail) BY DEF ps
  <2>2. PartsOf(ps, chunk, TRUE, fail) BY <2>1, PartsRun
  <2> QED BY <2>2 DEF PartsOf
<1>3. ps \in Seq(JobType) /\ L \in Nat /\ L # 0 /\ 1 \in 1..L
  <2>1. ps \in Seq(JobType) BY <1>2 DEF Runs
  <2>2. L \in Nat /\ L # 0 BY <1>2, <2>1
  <2> HIDE DEF L
  <2> QED BY <2>1, <2>2
<1> HIDE DEF L
<1>4. ps[1] \in JobType BY <1>3 DEF L
<1> DEFINE q == ps[1]
           e == [q EXCEPT !.do = "editPlain"]
<1>5. e \in JobType /\ e.do = "editPlain" /\ e.piece = q.piece /\ e.chunk = q.chunk /\ e.fail = q.fail
  <2>1. q \in JobType BY <1>4
  <2> HIDE DEF q
  <2> QED BY <2>1, WaysAre DEF JobType
<1> HIDE DEF e
<1>6. js[1] = e /\ \A i \in 1..L : i # 1 => js[i] = ps[i] BY <1>1, <1>3 DEF e
<1>7. ASSUME NEW i \in 1..L PROVE js[i] \in JobType /\ js[i].piece = ps[i].piece /\ js[i].chunk = ps[i].chunk /\ js[i].fail = fail
  <2>1. CASE i = 1 BY <1>2, <1>3, <1>5, <1>6, <2>1
  <2>2. CASE i # 1
    <3>1. ps[i] \in JobType BY <1>3 DEF L
    <3> QED BY <1>2, <1>6, <2>2, <3>1
  <2> QED BY <2>1, <2>2
<1>8. js \in Seq(JobType) /\ Len(js) = L
  <2>1. DOMAIN js = 1..L /\ js = [i \in 1..L |-> js[i]] BY <1>1
  <2>2. js \in [1..L -> JobType] BY <1>7, <2>1
  <2> QED BY <1>3, <2>2
<1>9. Len(ps) = L BY DEF L
<1>10. /\ \A i \in 1..L : Inside(ps[i])
       /\ \A i \in 1..(L - 1) : Follows(ps[i], ps[i + 1])
       /\ ps[1].piece[1] = chunk[1] /\ ps[L].piece[2] = chunk[2] /\ ps[L].chunk[2] = chunk[2]
  BY <1>2, <1>9 DEF Runs
<1>11. ASSUME NEW i \in 1..L PROVE Inside(js[i])
  <2>1. Inside(ps[i]) BY <1>10
  <2> QED BY <1>7, <2>1 DEF Inside
<1>12. ASSUME NEW i \in 1..(L - 1) PROVE Follows(js[i], js[i + 1])
  <2>1. i \in 1..L /\ i + 1 \in 1..L BY <1>3
  <2>2. Follows(ps[i], ps[i + 1]) BY <1>10
  <2>3. js[i + 1].piece = ps[i + 1].piece /\ js[i + 1].chunk = ps[i + 1].chunk BY <1>7, <2>1
  <2>4. js[i].piece = ps[i].piece /\ js[i].chunk = ps[i].chunk BY <1>7, <2>1
  <2> QED BY <2>2, <2>3, <2>4 DEF Follows
<1>13. js # <<>>
  <2>1. Len(js) # 0 BY <1>3, <1>8
  <2> QED BY <1>8, <2>1
<1>14. js[1].piece[1] = chunk[1] /\ js[1].chunk[1] = chunk[1] /\ js[L].piece[2] = chunk[2] /\ js[L].chunk[2] = chunk[2]
  <2>1. L \in 1..L BY <1>3
  <2> QED BY <1>2, <1>3, <1>7, <1>10, <2>1
<1>15. Runs(js, chunk[1], chunk[2]) BY <1>8, <1>11, <1>12, <1>13, <1>14 DEF Runs
<1>16. ASSUME NEW i \in 1..Len(js) PROVE js[i].fail = fail /\ (i # 1 => js[i].do = "sendPlain")
  <2>1. i \in 1..L BY <1>8
  <2> QED BY <1>2, <1>6, <1>7, <2>1
<1> QED BY <1>5, <1>6, <1>13, <1>14, <1>15, <1>16 DEF LegacyOf

\* js covers the text as rich chunks, the first of which is an edit or not.
RichOf(js, first) ==
  /\ Runs(js, 1, TextLen) /\ js # <<>> /\ js[1].do = first /\ js[1].chunk[1] = 1
  /\ \A i \in 1..Len(js) : i # 1 => js[i].do = "sendRich" /\ js[i].fail = "plain"
  /\ js[1].fail = IF first = "sendRich" THEN "plain" ELSE "legacy"

LEMMA ChunksSplit ==
  ASSUME TextLen \in Nat, TextLen # 0
  PROVE  /\ Split(Chunks, 1, TextLen, RichCap) /\ Chunks \in Seq(Span) /\ Chunks # <<>>
         /\ Len(Chunks) \in Nat /\ Len(Chunks) >= 1
<1> DEFINE N == TextLen
           c == Chunks
<1>1. c = splitMessage(tgOp.text, 1, N, RichCap) BY DEF Chunks, TextLen
<1>2. N \in Nat /\ 1 <= N /\ 1 <= N + 1 /\ 1 \in Nat /\ 1 <= 1 OBVIOUS
<1> HIDE DEF c, N
<1>3. Split(c, 1, N, RichCap) BY <1>1, <1>2, Caps, SplitMessageSplits
<1>4. c \in Seq(Span) /\ c # <<>> BY <1>2, <1>3 DEF Split
<1>5. Len(c) \in Nat /\ Len(c) # 0 BY <1>4
<1>6. Len(c) >= 1 BY <1>5
<1> QED BY <1>3, <1>4, <1>5, <1>6 DEF c, N

\* Every request of a \o b is one of a or, behind them, one of b.
Joins(a, b, c) ==
  \A i \in 1..Len(c) : (i \in 1..Len(a) /\ c[i] = a[i]) \/ (i > Len(a) /\ \E k \in 1..Len(b) : c[i] = b[k])

LEMMA JoinedAre == ASSUME NEW T, NEW a \in Seq(T), NEW b \in Seq(T), NEW c, c = a \o b PROVE Joins(a, b, c)
<1> DEFINE L == Len(a)
           M == Len(b)
<1>1. L \in Nat /\ M \in Nat OBVIOUS
<1>2. Len(c) = L + M /\ (\A i \in 1..L : c[i] = a[i]) /\ (\A i \in (L + 1)..(L + M) : c[i] = b[i - L]) OBVIOUS
<1> HIDE DEF L, M
<1>3. ASSUME NEW i \in 1..(L + M) PROVE (i \in 1..L /\ c[i] = a[i]) \/ (i > L /\ \E k \in 1..M : c[i] = b[k])
  <2>1. CASE i <= L
    <3>1. i \in 1..L BY <1>1, <2>1
    <3> QED BY <1>2, <3>1
  <2>2. CASE ~ (i <= L)
    <3>1. i > L /\ i \in (L + 1)..(L + M) /\ i - L \in 1..M BY <1>1, <2>2
    <3> QED BY <1>2, <3>1
  <2> QED BY <2>1, <2>2
<1> QED BY <1>2, <1>3 DEF Joins, L, M

LEMMA RichSendsRun ==
  ASSUME TextLen \in Nat, TextLen # 0, NEW js, js = RichSends(1)
  PROVE  /\ RichOf(js, "sendRich") /\ js[1].piece = Chunks[1]
         /\ \A i \in 1..Len(js) : js[i].piece = js[i].chunk
<1> DEFINE N == TextLen
           c == Chunks
           L == Len(c)
<1>1. Split(c, 1, N, RichCap) /\ c \in Seq(Span) /\ L \in Nat /\ L >= 1 BY ChunksSplit
<1>2. js = [i \in 1..(L - 1 + 1) |-> Job("sendRich", c[1 + i - 1], c[1 + i - 1], TRUE, "plain")]
  BY DEF RichSends, sendRichWithFallback
<1> HIDE DEF c, L
<1>3. js = [i \in 1..L |-> Job("sendRich", c[i], c[i], TRUE, "plain")]
  <2>1. L - 1 + 1 = L /\ \A i \in 1..L : 1 + i - 1 = i BY <1>1
  <2> QED BY <1>2, <2>1
<1>4. ASSUME NEW i \in 1..L
      PROVE  js[i] \in JobType /\ js[i].do = "sendRich" /\ js[i].piece = c[i] /\ js[i].chunk = c[i] /\ js[i].fail = "plain"
  <2>1. js[i] = Job("sendRich", c[i], c[i], TRUE, "plain") BY <1>3
  <2>2. c[i] \in Span BY <1>1 DEF L
  <2>3. "plain" \in Fallbacks BY DEF Fallbacks
  <2> DEFINE x == js[i]
             d == c[i]
  <2> HIDE DEF x, d
  <2>4. x = Job("sendRich", d, d, TRUE, "plain") /\ d \in Span BY <2>1, <2>2 DEF x, d
  <2>5. x \in JobType /\ x.do = "sendRich" /\ x.piece = d /\ x.chunk = d /\ x.fail = "plain"
    BY <2>3, <2>4, WaysAre DEF Job, JobType
  <2> QED BY <2>5 DEF x, d
<1>5. js \in Seq(JobType) /\ Len(js) = L
  <2>1. DOMAIN js = 1..L /\ js = [i \in 1..L |-> js[i]] BY <1>3
  <2>2. js \in [1..L -> JobType] BY <1>4, <2>1
  <2> QED BY <1>1, <2>2
<1>6. Carries(js, c, 1, N)
  <2>1. Len(c) = L BY DEF L
  <2> QED BY <1>4, <1>5, <2>1 DEF Carries
<1>7. Runs(js, 1, N) /\ js # <<>>
  <2>1. N \in Nat /\ 1 \in Nat /\ 1 <= 1 /\ 1 <= N OBVIOUS
  <2> HIDE DEF N
  <2> QED BY <1>1, <1>6, <2>1, SpreadRuns
<1>8. 1 \in 1..L BY <1>1
<1>9. js[1].do = "sendRich" /\ js[1].fail = "plain" /\ js[1].piece = c[1] /\ js[1].chunk = c[1] BY <1>4, <1>8
<1>10. js[1].chunk[1] = 1
  <2>2. js[1].piece[1] = 1 BY <1>7 DEF Runs
  <2> QED BY <1>9, <2>2
<1>11. \A i \in 1..Len(js) : js[i].do = "sendRich" /\ js[i].fail = "plain" /\ js[i].piece = js[i].chunk BY <1>4, <1>5
<1> QED BY <1>7, <1>9, <1>10, <1>11 DEF RichOf, c, N

LEMMA EditRichRun ==
  ASSUME TextLen \in Nat, TextLen # 0, NEW js,
         js = <<Job("editRich", Chunks[1], Chunks[1], TRUE, "legacy")>> \o RichSends(2)
  PROVE  RichOf(js, "editRich")
<1> DEFINE N == TextLen
           r == RichSends(1)
           b == RichSends(2)
           j == Job("editRich", Chunks[1], Chunks[1], TRUE, "legacy")
           a == <<j>>
           q == Chunks[1]
<1>1. RichOf(r, "sendRich") /\ r[1].piece = q /\ \A i \in 1..Len(r) : r[i].piece = r[i].chunk BY RichSendsRun
<1>2. /\ Runs(r, 1, N) /\ r # <<>> /\ r \in Seq(JobType) /\ r[1].piece[1] = 1
      /\ \A i \in 1..Len(r) : i # 1 => r[i].do = "sendRich" /\ r[i].fail = "plain"
  BY <1>1 DEF RichOf, Runs
<1>3. b = Tail(r)
  <2> DEFINE L == Len(Chunks)
             K(i) == Job("sendRich", Chunks[i], Chunks[i], TRUE, "plain")
  <2>1. L \in Nat /\ L >= 1 BY ChunksSplit
  <2>2. /\ r = [i \in 1..(L - 1 + 1) |-> K(1 + i - 1)]
        /\ b = [i \in 1..(L - 2 + 1) |-> K(2 + i - 1)]
    BY DEF RichSends, sendRichWithFallback
  <2> HIDE DEF K, L, r, b
  <2>3. Len(r) = L
    <3>1. L - 1 + 1 = L BY <2>1
    <3> QED BY <1>2, <2>1, <2>2, <3>1
  <2>4. Tail(r) = [i \in 1..(L - 1) |-> r[i + 1]]
    <3> DEFINE t == Tail(r)
    <3>1. t \in Seq(JobType) /\ Len(t) = L - 1 /\ \A i \in 1..(L - 1) : t[i] = r[i + 1] BY <1>2, <2>3
    <3> HIDE DEF t
    <3>2. t = [i \in 1..(L - 1) |-> t[i]] BY <3>1
    <3> QED BY <3>1, <3>2 DEF t
  <2>5. ASSUME NEW i \in 1..(L - 1) PROVE r[i + 1] = K(2 + i - 1)
    <3>1. i + 1 \in 1..(L - 1 + 1) /\ 1 + (i + 1) - 1 = 2 + i - 1 BY <2>1
    <3>2. r[i + 1] = K(1 + (i + 1) - 1) BY <2>2, <3>1
    <3> QED BY <3>1, <3>2
  <2>6. L - 2 + 1 = L - 1 BY <2>1
  <2> QED BY <2>2, <2>4, <2>5, <2>6
<1>4. q \in Span /\ 1 <= q[1] /\ q[1] <= q[2] /\ q[1] = 1 /\ q[1] \in Nat /\ q[2] \in Nat /\ q = <<q[1], q[2]>>
  <2>0. 1 \in 1..Len(r) BY <1>2
  <2>1. r[1] \in JobType /\ Inside(r[1]) BY <1>2, <2>0 DEF Runs
  <2>2. r[1].piece \in Span /\ r[1].chunk \in Span BY <2>1, JobFacts
  <2>3. q \in Span /\ q[1] = 1 BY <1>1, <1>2, <2>2
  <2>4. q[1] \in Nat /\ q[2] \in Nat /\ q = <<q[1], q[2]>>
    <3> HIDE DEF q
    <3> QED BY <2>3, SpanFacts
  <2>5. q[1] <= q[2] BY <1>1, <2>1 DEF Inside
  <2> QED BY <2>3, <2>4, <2>5
<1>5. j \in JobType /\ j.do = "editRich" /\ j.piece = q /\ j.chunk = q /\ j.fail = "legacy"
  <2>1. "legacy" \in Fallbacks BY DEF Fallbacks
  <2>2. j = Job("editRich", q, q, TRUE, "legacy") OBVIOUS
  <2> HIDE DEF q, j
  <2> QED BY <1>4, <2>1, <2>2, WaysAre DEF Job, JobType
<1> HIDE DEF q, j, N, r, b
<1>6. Runs(a, 1, q[2]) /\ a # <<>> /\ Len(a) = 1 /\ a[1] = j
  <2>1. q = <<1, q[2]>> /\ 1 <= q[2] /\ 1 \in Nat /\ 1 <= 1 BY <1>4
  <2> QED BY <1>4, <1>5, <2>1, OneRun
<1>7. N \in Nat BY DEF N
<1>8. Runs(b, q[2] + 1, N) BY <1>1, <1>2, <1>3, <1>7, RunsTail
<1>9. \A k \in 1..Len(b) : b[k].piece = b[k].chunk /\ b[k].do = "sendRich" /\ b[k].fail = "plain"
  <2>1. Len(b) = Len(r) - 1 /\ \A k \in 1..(Len(r) - 1) : b[k] = r[k + 1] BY <1>2, <1>3
  <2>2. Len(r) \in Nat BY <1>2
  <2>3. \A k \in 1..(Len(r) - 1) : k + 1 \in 1..Len(r) /\ k + 1 # 1 BY <2>2
  <2>4. ASSUME NEW k \in 1..Len(b) PROVE b[k].piece = b[k].chunk /\ b[k].do = "sendRich" /\ b[k].fail = "plain"
    <3>1. k \in 1..(Len(r) - 1) BY <2>1
    <3>2. b[k] = r[k + 1] /\ k + 1 \in 1..Len(r) /\ k + 1 # 1 BY <2>1, <2>3, <3>1
    <3> DEFINE m == k + 1
    <3> HIDE DEF m
    <3>3. b[k] = r[m] /\ m \in 1..Len(r) /\ m # 1 BY <3>2 DEF m
    <3> QED BY <1>1, <1>2, <3>3
  <2> QED BY <2>4
<1>10. b \in Seq(JobType) BY <1>8 DEF Runs
<1>11. Opens(b)
  <2>1. b # <<>> => 1 \in 1..Len(b) BY <1>10
  <2> QED BY <1>9, <2>1 DEF Opens
<1>12. js = a \o b BY DEF b, j, q
<1> HIDE DEF a
<1>13. Runs(js, 1, N) /\ js # <<>> /\ js[1] = a[1] 
  <2> DEFINE m == q[2]
  <2>1. m \in Nat /\ Runs(a, 1, m) /\ Runs(b, m + 1, N) /\ a # <<>> BY <1>4, <1>6, <1>8
  <2> HIDE DEF m
  <2> QED BY ONLY <2>1, <1>7, <1>11, <1>12, RunsJoin
<1>14. a \in Seq(JobType) BY <1>6 DEF Runs
<1>15. Joins(a, b, js) BY <1>10, <1>12, <1>14, JoinedAre
<1>16. ASSUME NEW i \in 1..Len(js), i # 1 PROVE js[i].do = "sendRich" /\ js[i].fail = "plain"
  <2>1. ~ (i \in 1..Len(a)) BY <1>6, <1>16
  <2>2. \E k \in 1..Len(b) : js[i] = b[k] BY <1>15, <2>1 DEF Joins
  <2> QED BY <1>9, <2>2
<1>17. js[1].do = "editRich" /\ js[1].fail = "legacy" /\ js[1].chunk[1] = 1 BY <1>4, <1>5, <1>6, <1>13
<1> QED BY <1>13, <1>16, <1>17 DEF RichOf, N

-----------------------------------------------------------------------------
(* What the reader finds                                                       *)

LEMMA ToldNothing == ASSUME NEW chat \in Seq(Span) PROVE Told(chat, 0)
BY DEF Told

LEMMA ToldLess ==
  ASSUME NEW chat, NEW p \in Nat, NEW q \in Nat, q <= p, Told(chat, p)
  PROVE  Told(chat, q)
<1>1. (\A k \in 1..q : k \in 1..p) /\ (\A k \in 1..(q - 1) : k \in 1..(p - 1)) OBVIOUS
<1> QED BY <1>1 DEF Told

LEMMA ToldEdit ==
  ASSUME NEW piece \in Span, piece[1] = 1, NEW chat, chat \in Seq(Span), Len(chat) = 1, chat[1] = piece
  PROVE  Told(chat, piece[2])
<1>1. 1 \in 1..Len(chat) /\ piece[2] \in Nat /\ 1 <= 1 BY SpanFacts
<1> DEFINE p == piece[2]
<1>2. ASSUME NEW k \in 1..p PROVE Covers(chat[1], k) BY DEF Covers
<1>3. ASSUME NEW k \in 1..(p - 1) PROVE Covers(chat[1], k) /\ Covers(chat[1], k + 1)
  <2>1. p \in Nat BY <1>1
  <2> HIDE DEF p
  <2>2. k \in 1..p /\ k + 1 \in 1..p BY <2>1
  <2> QED BY <1>2, <2>2
<1> HIDE DEF p
<1>4. Told(chat, p) BY <1>1, <1>2, <1>3 DEF Told
<1> QED BY <1>4 DEF p

LEMMA ToldAppend ==
  ASSUME NEW chat, NEW p \in Nat, Told(chat, p), NEW piece \in Span, piece[1] <= p + 1,
         NEW after, after = Append(chat, piece), NEW q \in Nat, p <= q, piece[2] <= q, q = p \/ q = piece[2]
  PROVE  Told(after, q)
<1> DEFINE L == Len(chat)
           a == piece[1]
           b == piece[2]
<1>1. a \in Nat /\ b \in Nat /\ a <= p + 1 BY SpanFacts
<1>2. /\ chat \in Seq(Span)
      /\ \A k \in 1..p : \E i \in 1..L : Covers(chat[i], k)
      /\ \A k \in 1..(p - 1) : \E i, j \in 1..L : i <= j /\ Covers(chat[i], k) /\ Covers(chat[j], k + 1)
  BY DEF Told
<1>3. L \in Nat BY <1>2
<1>4. /\ after \in Seq(Span) /\ Len(after) = L + 1 /\ after[L + 1] = piece
      /\ \A i \in 1..L : after[i] = chat[i]
  BY <1>2
<1>5. \A k : Covers(piece, k) <=> a <= k /\ k <= b BY DEF Covers
<1>7. q \in Nat /\ p <= q /\ b <= q /\ (q = p \/ q = b) OBVIOUS
<1> HIDE DEF L, a, b
<1>8. L + 1 \in 1..(L + 1) /\ \A i \in 1..L : i \in 1..(L + 1) /\ i <= L + 1 BY <1>3
<1>9. ASSUME NEW k \in 1..q PROVE \E i \in 1..(L + 1) : Covers(after[i], k)
  <2>1. CASE k <= p
    <3>1. k \in 1..p BY <2>1
    <3>2. PICK i \in 1..L : Covers(chat[i], k) BY <1>2, <3>1
    <3>3. Covers(after[i], k) /\ i \in 1..(L + 1) BY <1>4, <1>8, <3>2
    <3> QED BY <3>3
  <2>2. CASE ~ (k <= p)
    <3>1. a <= k /\ k <= b BY <1>1, <1>7, <2>2
    <3>2. Covers(after[L + 1], k) BY <1>4, <1>5, <3>1
    <3> QED BY <1>8, <3>2
  <2> QED BY <2>1, <2>2
<1>10. ASSUME NEW k \in 1..(q - 1)
       PROVE  \E i, j \in 1..(L + 1) : i <= j /\ Covers(after[i], k) /\ Covers(after[j], k + 1)
  <2>1. CASE k < p
    <3>1. k \in 1..(p - 1) BY <2>1
    <3>2. PICK i, j \in 1..L : i <= j /\ Covers(chat[i], k) /\ Covers(chat[j], k + 1) BY <1>2, <3>1
    <3>3. Covers(after[i], k) /\ Covers(after[j], k + 1) /\ i \in 1..(L + 1) /\ j \in 1..(L + 1) BY <1>4, <1>8, <3>2
    <3> QED BY <3>2, <3>3
  <2>2. CASE k = p
    <3>1. k \in 1..p /\ a <= k + 1 /\ k + 1 <= b BY <1>1, <1>7, <2>2
    <3>2. PICK i \in 1..L : Covers(chat[i], k) BY <1>2, <3>1
    <3>3. Covers(after[i], k) /\ i \in 1..(L + 1) /\ i <= L + 1 BY <1>4, <1>8, <3>2
    <3>4. Covers(after[L + 1], k + 1) BY <1>4, <1>5, <3>1
    <3> QED BY <1>8, <3>3, <3>4
  <2>3. CASE k > p
    <3>1. a <= k /\ k <= b /\ a <= k + 1 /\ k + 1 <= b BY <1>1, <1>7, <2>3
    <3>2. Covers(after[L + 1], k) /\ Covers(after[L + 1], k + 1) BY <1>4, <1>5, <3>1
    <3>3. L + 1 <= L + 1 BY <1>3
    <3> QED BY <1>8, <3>2, <3>3
  <2>4. k < p \/ k = p \/ k > p OBVIOUS
  <2> QED BY <2>1, <2>2, <2>3, <2>4
<1> QED BY <1>4, <1>9, <1>10 DEF Told

LEMMA OnceNothing == ToldOnce(<<>>, 0)
BY DEF ToldOnce

LEMMA OnceEmpty == ASSUME NEW chat, ToldOnce(chat, 0) PROVE chat = <<>>
<1>1. chat \in Seq(Span) /\ \A i \in 1..Len(chat) : 1 <= chat[i][1] /\ chat[i][1] <= chat[i][2] /\ chat[i][2] <= 0 BY DEF ToldOnce
<1>2. ASSUME chat # <<>> PROVE FALSE
  <2>1. 1 \in 1..Len(chat) BY <1>1, <1>2
  <2>2. chat[1] \in Span BY <1>1, <2>1
  <2> DEFINE a == chat[1][1]
             b == chat[1][2]
  <2>3. a \in Nat /\ b \in Nat /\ 1 <= a /\ a <= b /\ b <= 0 BY <1>1, <2>1, <2>2, SpanFacts
  <2> HIDE DEF a, b
  <2> QED BY <2>3
<1> QED BY <1>2

LEMMA OnceAppend ==
  ASSUME NEW chat, NEW p \in Nat, ToldOnce(chat, p), NEW piece \in Span, piece[1] = p + 1, piece[1] <= piece[2],
         NEW after, after = Append(chat, piece)
  PROVE  ToldOnce(after, piece[2]) /\ piece[2] \in Nat
<1> DEFINE L == Len(chat)
           a == piece[1]
           b == piece[2]
<1>1. a \in Nat /\ b \in Nat /\ a = p + 1 /\ a <= b BY SpanFacts
<1>2. /\ chat \in Seq(Span)
      /\ \A i \in 1..L : 1 <= chat[i][1] /\ chat[i][1] <= chat[i][2] /\ chat[i][2] <= p
      /\ \A i, j \in 1..L : i < j => chat[i][2] < chat[j][1]
      /\ \A k \in 1..p : \E i \in 1..L : Covers(chat[i], k)
  BY DEF ToldOnce
<1>3. L \in Nat BY <1>2
<1>4. /\ after \in Seq(Span) /\ Len(after) = L + 1 /\ after[L + 1] = piece
      /\ \A i \in 1..L : after[i] = chat[i]
  BY <1>2
<1>5. \A k : Covers(piece, k) <=> a <= k /\ k <= b BY DEF Covers
<1>6. ASSUME NEW i \in 1..L PROVE chat[i][1] \in Nat /\ chat[i][2] \in Nat
  <2>1. chat[i] \in Span BY <1>2
  <2> QED BY <2>1, SpanFacts
<1>7. piece[1] = a /\ piece[2] = b OBVIOUS
<1> HIDE DEF L, a, b
<1>8. L + 1 \in 1..(L + 1) /\ \A i \in 1..(L + 1) : i \in 1..L \/ i = L + 1 BY <1>3
<1>9. ASSUME NEW i \in 1..(L + 1) PROVE 1 <= after[i][1] /\ after[i][1] <= after[i][2] /\ after[i][2] <= b
  <2>1. CASE i \in 1..L
    <3> DEFINE x == chat[i][1]
               y == chat[i][2]
    <3>1. x \in Nat /\ y \in Nat /\ 1 <= x /\ x <= y /\ y <= p BY <1>2, <1>6, <2>1
    <3>2. after[i][1] = x /\ after[i][2] = y BY <1>4, <2>1
    <3> HIDE DEF x, y
    <3> QED BY <1>1, <3>1, <3>2
  <2>2. CASE i = L + 1 BY <1>1, <1>4, <1>7, <2>2
  <2> QED BY <1>8, <2>1, <2>2
<1>10. ASSUME NEW i \in 1..(L + 1), NEW j \in 1..(L + 1), i < j PROVE after[i][2] < after[j][1]
  <2>1. i \in 1..L BY <1>3, <1>10
  <2>2. CASE j \in 1..L BY <1>2, <1>4, <1>10, <2>1, <2>2
  <2>3. CASE j = L + 1
    <3> DEFINE y == chat[i][2]
    <3>1. y \in Nat /\ y <= p BY <1>2, <1>6, <2>1
    <3>2. after[i][2] = y /\ after[j][1] = a BY <1>4, <1>7, <2>1, <2>3
    <3> HIDE DEF y
    <3> QED BY <1>1, <3>1, <3>2
  <2> QED BY <1>8, <2>2, <2>3
<1>11. ASSUME NEW k \in 1..b PROVE \E i \in 1..(L + 1) : Covers(after[i], k)
  <2>1. CASE k <= p
    <3>1. k \in 1..p BY <2>1
    <3>2. PICK i \in 1..L : Covers(chat[i], k) BY <1>2, <3>1
    <3>3. i \in 1..(L + 1) BY <1>3
    <3> QED BY <1>4, <3>2, <3>3
  <2>2. CASE ~ (k <= p)
    <3>1. a <= k /\ k <= b BY <1>1, <2>2
    <3>2. Covers(after[L + 1], k) BY <1>4, <1>5, <3>1
    <3> QED BY <1>8, <3>2
  <2> QED BY <2>1, <2>2
<1>12. ToldOnce(after, b) BY <1>4, <1>9, <1>10, <1>11 DEF ToldOnce
<1> QED BY <1>1, <1>12 DEF b

\* Each character of such a chat is in one message.
LEMMA OnceIsOne ==
  ASSUME NEW chat, NEW p \in Nat, ToldOnce(chat, p), NEW k \in 1..p
  PROVE  Cardinality({i \in 1..Len(chat) : chat[i][1] <= k /\ k <= chat[i][2]}) = 1
<1> DEFINE S == {i \in 1..Len(chat) : chat[i][1] <= k /\ k <= chat[i][2]}
<1>1. PICK i \in 1..Len(chat) : Covers(chat[i], k) BY DEF ToldOnce
<1>2. i \in S BY <1>1 DEF Covers
<1>3. ASSUME NEW j \in S PROVE j = i
  <2>1. j \in 1..Len(chat) /\ chat[j][1] <= k /\ k <= chat[j][2] OBVIOUS
  <2>2. chat[i][1] <= k /\ k <= chat[i][2] BY <1>2
  <2>3. chat \in Seq(Span) /\ \A m, n \in 1..Len(chat) : m < n => chat[m][2] < chat[n][1] BY DEF ToldOnce
  <2>4. chat[i] \in Span /\ chat[j] \in Span BY <2>1, <2>3
  <2>5. chat[i][1] \in Nat /\ chat[i][2] \in Nat /\ chat[j][1] \in Nat /\ chat[j][2] \in Nat BY <2>4, SpanFacts
  <2>6. (i < j => chat[i][2] < chat[j][1]) /\ (j < i => chat[j][2] < chat[i][1]) BY <2>1, <2>3
  <2> DEFINE a == chat[i][1]
             b == chat[i][2]
             c == chat[j][1]
             d == chat[j][2]
  <2>7. /\ a \in Nat /\ b \in Nat /\ c \in Nat /\ d \in Nat /\ a <= k /\ k <= b /\ c <= k /\ k <= d
        /\ (i < j => b < c) /\ (j < i => d < a)
    BY <2>1, <2>2, <2>5, <2>6
  <2> HIDE DEF a, b, c, d
  <2>8. i \in Int /\ j \in Int BY <1>1, <2>1
  <2> QED BY <2>7, <2>8
<1>4. S = {i}
  <2> HIDE DEF S
  <2> QED BY <1>2, <1>3
<1>5. Cardinality({i}) = 1 BY FS_Singleton
<1> QED BY <1>4, <1>5

\* What is told of the chat is what the reader finds behind the preview.
LEMMA ToldIsRead ==
  ASSUME TextLen \in Nat, Told(tgChat, TextLen)
  PROVE  InOrder /\ \A k \in 1..Len(tgOp.text) : Readable(k)
<1> DEFINE N == TextLen
           K == {i \in 1..Len(tgChat) : tgChat[i] # Preview}
           t == Pieces
<1>1. /\ tgChat \in Seq(Span)
      /\ \A k \in 1..N : \E i \in 1..Len(tgChat) : Covers(tgChat[i], k)
      /\ \A k \in 1..(N - 1) : \E i, j \in 1..Len(tgChat) : i <= j /\ Covers(tgChat[i], k) /\ Covers(tgChat[j], k + 1)
  BY DEF Told
<1>2. t = KeepAt(tgChat, K) BY DEF Pieces
<1>3. t \in Seq(Span) /\ \E g : Kept(tgChat, K, t, g)
  <2> HIDE DEF K, t
  <2> QED BY <1>1, <1>2, KeepFacts
<1>4. PICK g : Kept(tgChat, K, t, g) BY <1>3
<1> DEFINE L == Len(tgChat)
           M == Len(t)
<1>5. L \in Nat /\ M \in Nat BY <1>1, <1>3
<1>6. ASSUME NEW i \in 1..L, NEW k \in Nat, k >= 1, Covers(tgChat[i], k)
      PROVE  i \in K
  <2>1. tgChat[i] # Preview BY <1>6 DEF Covers, Preview
  <2> QED BY <2>1
<1> HIDE DEF K, t, N
<1>7. /\ g \in [1..M -> 1..L]
      /\ \A i, j \in 1..M : i < j => g[i] < g[j]
      /\ \A i \in 1..M : t[i] = tgChat[g[i]]
      /\ \A k \in 1..L : k \in K => \E i \in 1..M : g[i] = k
  BY <1>4 DEF Kept, KeptUpTo
<1>8. ASSUME NEW k \in 1..N PROVE \E i \in 1..M : Covers(t[i], k)
  <2>1. PICK i \in 1..L : Covers(tgChat[i], k) BY <1>1
  <2>2. i \in K BY <1>6, <2>1
  <2>3. PICK m \in 1..M : g[m] = i BY <1>7, <2>2
  <2>4. t[m] = tgChat[i] BY <1>7, <2>3
  <2> QED BY <2>1, <2>4
<1>9. ASSUME NEW k \in 1..(N - 1) PROVE \E i, j \in 1..M : i <= j /\ Covers(t[i], k) /\ Covers(t[j], k + 1)
  <2>0. N \in Nat BY DEF N
  <2>1. PICK i, j \in 1..L : i <= j /\ Covers(tgChat[i], k) /\ Covers(tgChat[j], k + 1) BY <1>1
  <2>2. k \in Nat /\ k >= 1 /\ k + 1 \in Nat /\ k + 1 >= 1 BY <2>0
  <2>3. i \in K /\ j \in K BY <1>6, <2>1, <2>2
  <2>4. PICK m \in 1..M : g[m] = i BY <1>7, <2>3
  <2>5. PICK n \in 1..M : g[n] = j BY <1>7, <2>3
  <2>6. m <= n
    <3>1. n < m => g[n] < g[m] BY <1>7
    <3>2. n \in Int /\ m \in Int /\ i \in Int /\ j \in Int BY <1>5
    <3> QED BY <2>1, <2>4, <2>5, <3>1, <3>2
  <2>7. t[m] = tgChat[i] /\ t[n] = tgChat[j] BY <1>7, <2>4, <2>5
  <2> QED BY <2>1, <2>6, <2>7
<1>10. Len(tgOp.text) = N BY DEF N, TextLen
<1>11. ASSUME NEW k \in 1..Len(tgOp.text) PROVE Readable(k)
  <2>1. \E i \in 1..M : Covers(t[i], k) BY <1>8, <1>10
  <2> QED BY <2>1 DEF Readable, Covers, t
<1>12. InOrder
  <2>1. \A k \in 1..(Len(tgOp.text) - 1) : \E i, j \in 1..M : i <= j /\ Covers(t[i], k) /\ Covers(t[j], k + 1) BY <1>9, <1>10
  <2> QED BY <2>1 DEF InOrder, Covers, t
<1> QED BY <1>11, <1>12

-----------------------------------------------------------------------------
(* The first requests of a delivery                                            *)

LEMMA OpFacts ==
  ASSUME OpKept
  PROVE  /\ tgOp.text \in Seq({"c", "n"}) /\ TextLen \in Nat
         /\ tgOp.kind \in Replies \cup Onces \cup {"guest"} /\ tgOp.rich \in BOOLEAN /\ tgOp.preview \in BOOLEAN
         /\ (tgOp.text # <<>> <=> TextLen # 0) /\ (tgOp.kind \notin Replies => TextLen # 0)
         /\ Whole = <<1, TextLen>> /\ Whole \in Span /\ Whole[1] = 1 /\ Whole[2] = TextLen
<1>1. /\ tgOp.text \in DeliveryTexts /\ tgOp.kind \in Replies \cup Onces \cup {"guest"}
      /\ tgOp.rich \in BOOLEAN /\ tgOp.preview \in BOOLEAN
  BY DEF OpKept, OpType
<1>2. tgOp.text \in Seq({"c", "n"}) BY <1>1, DeliveryConstants
<1> DEFINE u == tgOp.text
<1>3. u \in Seq({"c", "n"}) BY <1>2
<1> HIDE DEF u
<1>4. Len(u) \in Nat /\ (u # <<>> <=> Len(u) # 0) BY <1>3
<1>5. TextLen = Len(u) BY DEF TextLen, u
<1>6. tgOp.kind \notin Replies => TextLen # 0 BY <1>4, <1>5 DEF OpKept, u
<1>7. Whole = <<1, TextLen>> BY DEF Whole, TextLen
<1>8. 1 \in Nat /\ TextLen \in Nat BY <1>4, <1>5
<1>9. <<1, TextLen>> \in Span /\ <<1, TextLen>>[1] = 1 /\ <<1, TextLen>>[2] = TextLen BY <1>8, SpanOf
<1> QED BY <1>1, <1>2, <1>4, <1>5, <1>6, <1>7, <1>8, <1>9 DEF u

\* js makes one request, of the whole text.
WholeOf(js, do, fail) ==
  /\ Runs(js, 1, TextLen) /\ js # <<>> /\ Len(js) = 1
  /\ js[1].do = do /\ js[1].fail = fail /\ ~js[1].retry /\ js[1].piece[1] = 1 /\ js[1].chunk[1] = 1

LEMMA WholeRun ==
  ASSUME OpKept, TextLen # 0, NEW do \in Ways, NEW fail \in Fallbacks, NEW js, js = <<Job(do, Whole, Whole, FALSE, fail)>>
  PROVE  WholeOf(js, do, fail)
<1> DEFINE j == Job(do, Whole, Whole, FALSE, fail)
           N == TextLen
           w == Whole
<1>1. N \in Nat /\ N # 0 /\ w = <<1, N>> /\ w \in Span /\ w[1] = 1 BY OpFacts
<1>2. j = Job(do, w, w, FALSE, fail) OBVIOUS
<1>3. js = <<j>> OBVIOUS
<1> HIDE DEF j, w
<1>4. j \in JobType /\ j.do = do /\ j.piece = w /\ j.chunk = w /\ j.retry = FALSE /\ j.fail = fail
  BY <1>1, <1>2 DEF Job, JobType
<1> HIDE DEF N
<1>5. 1 \in Nat /\ 1 <= 1 /\ 1 <= N BY <1>1
<1>6. j.piece = <<1, N>> /\ j.chunk = <<1, N>> BY <1>1, <1>4
<1>7. Runs(<<j>>, 1, N) /\ <<j>> # <<>> /\ Len(<<j>>) = 1 /\ <<j>>[1] = j BY <1>1, <1>4, <1>5, <1>6, OneRun
<1>8. js[1] = j BY ONLY <1>3, <1>7
<1>9. j.piece[1] = 1 /\ j.chunk[1] = 1 BY <1>1, <1>4
<1> QED BY <1>3, <1>4, <1>7, <1>8, <1>9 DEF WholeOf, N

\* The parts of the whole text.
LEMMA WholeParts ==
  ASSUME OpKept, TextLen # 0, NEW retry \in BOOLEAN, NEW fail \in Fallbacks, NEW js, js = PlainParts(Whole, retry, fail)
  PROVE  /\ Runs(js, 1, TextLen) /\ js # <<>>
         /\ \A i \in 1..Len(js) : js[i].do = "sendPlain" /\ js[i].retry = retry /\ js[i].fail = fail
<1>1. Whole \in Span /\ Whole[1] = 1 /\ Whole[2] = TextLen /\ TextLen \in Nat BY OpFacts
<1>2. 1 <= Whole[1] /\ Whole[1] <= Whole[2] BY <1>1
<1>3. PartsOf(js, Whole, retry, fail) BY <1>1, <1>2, PartsRun
<1> QED BY <1>1, <1>3 DEF PartsOf

LEMMA FallbacksAre == /\ "err" \in Fallbacks /\ "fresh" \in Fallbacks /\ "legacy" \in Fallbacks /\ "plain" \in Fallbacks
                      /\ "kb" \in Fallbacks /\ "longonce" \in Fallbacks /\ "part" \in Fallbacks /\ "direct" \in Fallbacks
BY DEF Fallbacks

\* What a reply starts with.
ReplyStarts(js, chat) == Runs(js, 1, TextLen) /\ js # <<>> /\ ReplyShape(js, chat)

LEMMA SendLongStarts ==
  ASSUME OpKept, TextLen # 0, NEW js, js = SendLong, NEW chat
  PROVE  ReplyStarts(js, chat)
<1>1. CASE Len(tgOp.text) <= PlainCap
  <2>1. js = <<Job("sendPlain", Whole, Whole, FALSE, "err")>> BY <1>1 DEF SendLong
  <2>2. WholeOf(js, "sendPlain", "err") BY <2>1, WholeRun, WaysAre, FallbacksAre
  <2>3. \A i \in 1..Len(js) : i = 1 BY <2>2 DEF WholeOf
  <2>4. SendsOn(js[1]) BY <2>2 DEF WholeOf, SendsOn
  <2>5. ReplyShape(js, chat) BY <2>3, <2>4 DEF ReplyShape
  <2> QED BY <2>2, <2>5 DEF ReplyStarts, WholeOf
<1>2. CASE ~ (Len(tgOp.text) <= PlainCap)
  <2>1. js = PlainParts(Whole, FALSE, "err") BY <1>2 DEF SendLong
  <2>2. /\ Runs(js, 1, TextLen) /\ js # <<>>
        /\ \A i \in 1..Len(js) : js[i].do = "sendPlain" /\ js[i].fail = "err"
    <3> DEFINE r == FALSE
    <3>1. r \in BOOLEAN /\ js = PlainParts(Whole, r, "err") BY <2>1
    <3> HIDE DEF r
    <3> QED BY <3>1, WholeParts, FallbacksAre
  <2>3. \A i \in 1..Len(js) : SendsOn(js[i]) BY <2>2 DEF SendsOn
  <2>4. ReplyShape(js, chat) BY <2>3 DEF ReplyShape
  <2> QED BY <2>2, <2>4 DEF ReplyStarts
<1> QED BY <1>1, <1>2

LEMMA RichStarts ==
  ASSUME OpKept, TextLen # 0, NEW js, js = RichSends(1), NEW chat
  PROVE  ReplyStarts(js, chat)
<1>1. RichOf(js, "sendRich") BY OpFacts, RichSendsRun
<1>2. ASSUME NEW i \in 1..Len(js) PROVE SendsOn(js[i])
  <2>1. CASE i = 1 BY <1>1, <2>1 DEF RichOf, SendsOn
  <2>2. CASE i # 1 BY <1>1, <2>2 DEF RichOf, SendsOn
  <2> QED BY <2>1, <2>2
<1>3. ReplyShape(js, chat) BY <1>2 DEF ReplyShape
<1> QED BY <1>1, <1>3 DEF RichOf, ReplyStarts

LEMMA SendRichLongStarts ==
  ASSUME OpKept, TextLen # 0, NEW js, js = SendRichLong, NEW chat
  PROVE  ReplyStarts(js, chat)
BY SendLongStarts, RichStarts DEF SendRichLong

LEMMA FinalizeStarts ==
  ASSUME OpKept, TextLen # 0, NEW js, js = FinalizeResponse, NEW chat, tgOp.preview => Len(chat) = 1
  PROVE  ReplyStarts(js, chat)
<1>1. CASE Short /\ tgOp.preview
  <2>1. js = finalizeLegacyPreview(Whole, "err") BY <1>1 DEF FinalizeResponse
  <2>2. Whole \in Span /\ Whole[1] = 1 /\ Whole[2] = TextLen /\ TextLen \in Nat BY OpFacts
  <2>3. 1 <= Whole[1] /\ Whole[1] <= Whole[2] BY <2>2
  <2>4. LegacyOf(js, Whole, "err") BY <2>1, <2>2, <2>3, LegacyRun, FallbacksAre
  <2>5. EditsOn(js[1]) /\ Len(chat) = 1
    <3>1. js \in Seq(JobType) /\ js # <<>> BY <2>4 DEF LegacyOf, Runs
    <3>2. 1 \in 1..Len(js) BY <3>1
    <3>3. js[1].fail = "err" /\ js[1].do = "editPlain" /\ js[1].chunk[1] = 1 /\ js[1].piece[1] = 1
      BY <2>2, <2>4, <3>2 DEF LegacyOf
    <3> QED BY <1>1, <3>3, WaysAre DEF EditsOn
  <2>6. ASSUME NEW i \in 1..Len(js), i # 1 PROVE SendsOn(js[i]) BY <2>4, <2>6 DEF LegacyOf, SendsOn
  <2>7. ReplyShape(js, chat) BY <2>5, <2>6 DEF ReplyShape
  <2> QED BY <2>2, <2>4, <2>7 DEF LegacyOf, ReplyStarts
<1>2. CASE Short /\ ~tgOp.preview
  <2>1. js = SendLong BY <1>2 DEF FinalizeResponse
  <2> QED BY <2>1, SendLongStarts
<1>3. CASE ~Short /\ tgOp.preview /\ Chunks # <<>>
  <2>1. js = <<Job("editRich", Chunks[1], Chunks[1], TRUE, "legacy")>> \o RichSends(2) BY <1>3 DEF FinalizeResponse
  <2>2. RichOf(js, "editRich") BY <2>1, OpFacts, EditRichRun
  <2>3. EditsOn(js[1]) /\ Len(chat) = 1
    <3>1. js[1].fail = "legacy" /\ js[1].do = "editRich" /\ js[1].chunk[1] = 1 BY <2>2 DEF RichOf
    <3>2. js[1].piece[1] = 1 BY <2>2 DEF RichOf, Runs
    <3> QED BY <1>3, <3>1, <3>2, WaysAre DEF EditsOn
  <2>4. ASSUME NEW i \in 1..Len(js), i # 1 PROVE SendsOn(js[i]) BY <2>2, <2>4 DEF RichOf, SendsOn
  <2>5. ReplyShape(js, chat) BY <2>3, <2>4 DEF ReplyShape
  <2> QED BY <2>2, <2>5 DEF RichOf, ReplyStarts
<1>4. CASE ~Short /\ ~(tgOp.preview /\ Chunks # <<>>)
  <2>1. js = RichSends(1) BY <1>4 DEF FinalizeResponse
  <2> QED BY <2>1, RichStarts
<1> QED BY <1>1, <1>2, <1>3, <1>4

\* What a send of one attempt starts with.
OnceStarts(js) == Runs(js, 1, TextLen) /\ js # <<>> /\ \A i \in 1..Len(js) : SendsOnce(js[i])

LEMMA WholeOnce ==
  ASSUME OpKept, TextLen # 0, NEW do \in Ways \ Edits, NEW fail \in {"kb", "longonce", "part", "direct", "err"},
         NEW js, js = <<Job(do, Whole, Whole, FALSE, fail)>>
  PROVE  OnceStarts(js)
<1>1. fail \in Fallbacks /\ do \in Ways BY FallbacksAre
<1>2. WholeOf(js, do, fail) BY <1>1, WholeRun
<1>3. \A i \in 1..Len(js) : i = 1 BY <1>2 DEF WholeOf
<1>4. SendsOnce(js[1]) BY <1>2 DEF WholeOf, SendsOnce
<1> QED BY <1>2, <1>3, <1>4 DEF WholeOf, OnceStarts

LEMMA PartsOnce ==
  ASSUME OpKept, TextLen # 0, NEW js, js = PlainParts(Whole, FALSE, "part")
  PROVE  OnceStarts(js)
<1>1. /\ Runs(js, 1, TextLen) /\ js # <<>>
      /\ \A i \in 1..Len(js) : js[i].do = "sendPlain" /\ js[i].retry = FALSE /\ js[i].fail = "part"
  <2> DEFINE r == FALSE
  <2>1. r \in BOOLEAN /\ js = PlainParts(Whole, r, "part") OBVIOUS
  <2> HIDE DEF r
  <2>2. /\ Runs(js, 1, TextLen) /\ js # <<>>
        /\ \A i \in 1..Len(js) : js[i].do = "sendPlain" /\ js[i].retry = r /\ js[i].fail = "part"
    BY ONLY OpKept, TextLen # 0, <2>1, WholeParts, FallbacksAre
  <2> QED BY <2>2 DEF r
<1>2. "sendPlain" \in Ways \ Edits BY DEF Ways, Edits
<1>3. \A i \in 1..Len(js) : SendsOnce(js[i]) BY <1>1, <1>2 DEF SendsOnce
<1> QED BY <1>1, <1>3 DEF OnceStarts

LEMMA SendsAre == "sendPlain" \in Ways \ Edits /\ "sendRich" \in Ways \ Edits /\ "sendKeyboard" \in Ways \ Edits
                  /\ "sendPrepared" \in Ways \ Edits /\ "sendFile" \in Ways \ Edits
BY DEF Ways, Edits

LEMMA OnceFormStarts ==
  ASSUME OpKept, TextLen # 0, NEW js, js = OnceForm
  PROVE  OnceStarts(js)
<1>1. CASE Len(tgOp.text) > PlainCap /\ Len(tgOp.text) <= RichCap
  <2>1. js = <<Job("sendRich", Whole, Whole, FALSE, "longonce")>> BY <1>1 DEF OnceForm, sendLongOnce
  <2> QED BY <2>1, WholeOnce, SendsAre
<1>2. CASE Len(tgOp.text) > PlainCap /\ ~ (Len(tgOp.text) <= RichCap)
  <2>1. js = PlainParts(Whole, FALSE, "part") BY <1>2 DEF OnceForm, sendLongOnce
  <2> QED BY <2>1, PartsOnce
<1>3. CASE ~ (Len(tgOp.text) > PlainCap)
  <2> DEFINE d == IF tgOp.rich THEN "sendRich" ELSE "sendPlain"
  <2>1. js = <<Job(d, Whole, Whole, FALSE, "part")>> BY <1>3 DEF OnceForm
  <2>2. d \in Ways \ Edits BY SendsAre
  <2> HIDE DEF d
  <2> QED BY <2>1, <2>2, WholeOnce
<1> QED BY <1>1, <1>2, <1>3

LEMMA InitOp == ASSUME DeliveryInit PROVE OpKept /\ BucketKept
<1>1. OpKept BY DEF DeliveryInit, OpKept, OpType, Replies, Onces
<1>2. tgBucket = FullBucket BY DEF DeliveryInit
<1>3. SendBurst \in Nat /\ BulkReserve \in Nat /\ BulkReserve < SendBurst BY DeliveryConstants
<1>4. tgBucket \in BucketType /\ tgBucket.tokens = SendBurst BY <1>2, <1>3 DEF FullBucket, BucketType
<1>5. BucketKept BY <1>3, <1>4 DEF BucketKept, BulkSpares
<1> QED BY <1>1, <1>5

LEMMA InitReply == ASSUME DeliveryInit PROVE ReplyKept
<1>1. OpKept BY InitOp
<1> SUFFICES ASSUME tgOp.kind \in Replies, tgOp.text # <<>> PROVE
      /\ tgResult \in {"", "ok"} => \E p, lo \in Nat : Told(tgChat, p) /\ lo <= p + 1 /\ Runs(tgJobs, lo, TextLen)
      /\ tgResult = "ok" => tgJobs = <<>>
      /\ ReplyShape(tgJobs, tgChat)
  BY DEF ReplyKept
<1>2. TextLen # 0 BY <1>1, OpFacts
<1>3. tgChat = IF tgOp.kind = "finalize" /\ tgOp.preview THEN << Preview >> ELSE <<>> BY DEF DeliveryInit
<1>4. tgChat \in Seq(Span)
  <2>1. Preview \in Span BY DEF Preview, Span
  <2>2. <<Preview>> \in Seq(Span) /\ <<>> \in Seq(Span) BY <2>1
  <2> QED BY <1>3, <2>2
<1>5. ReplyStarts(tgJobs, tgChat)
  <2>1. CASE tgOp.kind = "finalize"
    <3>1. tgJobs = FinalizeResponse BY <2>1 DEF DeliveryInit
    <3>2. tgOp.preview => Len(tgChat) = 1
      <4>1. Len(<<Preview>>) = 1 OBVIOUS
      <4> QED BY <1>3, <2>1, <4>1
    <3> QED BY <1>1, <1>2, <3>1, <3>2, FinalizeStarts
  <2>2. CASE tgOp.kind = "richlong"
    <3>1. tgJobs = SendRichLong BY <2>2 DEF DeliveryInit
    <3> QED BY <1>1, <1>2, <3>1, SendRichLongStarts
  <2> QED BY <2>1, <2>2 DEF Replies
<1>6. Runs(tgJobs, 1, TextLen) /\ tgJobs # <<>> /\ ReplyShape(tgJobs, tgChat) BY <1>5 DEF ReplyStarts
<1>7. Told(tgChat, 0) /\ 1 <= 0 + 1 /\ 0 \in Nat /\ 1 \in Nat BY <1>4, ToldNothing
<1>8. tgResult # "ok" BY <1>6 DEF DeliveryInit
<1> QED BY <1>6, <1>7, <1>8

LEMMA InitOnce == ASSUME DeliveryInit PROVE OnceKept
<1>1. OpKept BY InitOp
<1> SUFFICES ASSUME tgOp.kind \in Onces PROVE
      /\ tgResult \in {"", "ok"} => \E p \in Nat : ToldOnce(tgChat, p) /\ Runs(tgJobs, p + 1, TextLen)
      /\ tgResult = "ok" => tgJobs = <<>>
      /\ tgResult = "notsent" => tgChat = <<>>
      /\ \A i \in 1..Len(tgJobs) : SendsOnce(tgJobs[i])
  BY DEF OnceKept
<1>2. TextLen # 0 BY <1>1, OpFacts DEF Replies, Onces
<1>3. tgChat = <<>> BY DEF DeliveryInit, Onces
<1>4. OnceStarts(tgJobs)
  <2>1. CASE tgOp.kind = "once"
    <3>1. tgJobs = SendToUserOnce BY <2>1 DEF DeliveryInit
    <3>2. CASE tgOp.preview
      <4>1. tgJobs = <<Job("sendKeyboard", Whole, Whole, FALSE, "kb")>> BY <3>1, <3>2 DEF SendToUserOnce
      <4> QED BY <1>1, <1>2, <4>1, WholeOnce, SendsAre
    <3>3. CASE ~tgOp.preview
      <4>1. tgJobs = OnceForm BY <3>1, <3>3 DEF SendToUserOnce
      <4> QED BY <1>1, <1>2, <4>1, OnceFormStarts
    <3> QED BY <3>2, <3>3
  <2>2. CASE tgOp.kind = "direct"
    <3>1. tgJobs = <<Job("sendPrepared", Whole, Whole, FALSE, "direct")>> BY <2>2 DEF DeliveryInit, SendDirect, SendPrepared
    <3> QED BY <1>1, <1>2, <3>1, WholeOnce, SendsAre
  <2>3. CASE tgOp.kind = "file"
    <3>1. tgJobs = <<Job("sendFile", Whole, Whole, FALSE, "err")>> BY <2>3 DEF DeliveryInit, sendFile
    <3> QED BY <1>1, <1>2, <3>1, WholeOnce, SendsAre
  <2> QED BY <2>1, <2>2, <2>3 DEF Onces
<1>5. Runs(tgJobs, 1, TextLen) /\ tgJobs # <<>> /\ \A i \in 1..Len(tgJobs) : SendsOnce(tgJobs[i]) BY <1>4 DEF OnceStarts
<1>6. ToldOnce(tgChat, 0) /\ 0 \in Nat /\ 0 + 1 = 1 BY <1>3, OnceNothing
<1>7. Runs(tgJobs, 0 + 1, TextLen) BY <1>5, <1>6
<1>8. tgResult # "ok" BY <1>5 DEF DeliveryInit
<1> QED BY <1>3, <1>5, <1>6, <1>7, <1>8

LEMMA InitGuest == ASSUME DeliveryInit PROVE GuestKept
<1> DEFINE p == IF tgOp.kind = "guest" THEN "summons" ELSE ""
<1>1. tgGuest = [GuestIdle EXCEPT !.pc = p] BY DEF DeliveryInit
<1>2. p \in Stages BY DEF Stages
<1>3. ~tgTry.won BY DEF DeliveryInit, Fresh
<1>4. GuestIdle \in GuestType /\ GuestIdle.delivered = FALSE BY DEF GuestIdle, GuestType, ShownType, Stages, Words
<1>5. tgGuest \in GuestType /\ tgGuest.delivered = FALSE /\ tgGuest.pc = p
  <2> HIDE DEF p
  <2> QED BY <1>1, <1>2, <1>4 DEF GuestType
<1>6. tgOp.kind = "guest" => tgJobs = <<>> BY DEF DeliveryInit
<1> QED BY <1>3, <1>5, <1>6 DEF GuestKept

-----------------------------------------------------------------------------
(* A request and its answer                                                    *)

\* What the chat and the guest message become.
Acts(job, answer) ==
  \/ answer \in {"ok", "noid"} /\ Acted(job)
  \/ answer \in {"lost", "down"} /\ Acted(job)
  \/ answer \notin {"ok", "noid", "lost"} /\ NotActed

\* Request, but for the allowance.
AnswerTaken(answer) ==
  /\ tgJobs # <<>> /\ tgResult = "" /\ answer \in Answers(tgJobs[1])
  /\ Answered(tgJobs[1], answer) /\ Acts(tgJobs[1], answer) /\ UNCHANGED tgOp

LEMMA RequestIs == ASSUME Request PROVE \E answer : AnswerTaken(answer)
<1> DEFINE job == Head(tgJobs)
<1>1. PICK answer \in Answers(job) :
       /\ Answered(job, answer)
       /\ \/ answer \in {"ok", "noid"} /\ Acted(job) /\ UNCHANGED tgLost
          \/ answer \in {"lost", "down"} /\ tgLost < MaxLost /\ Acted(job) /\ tgLost' = tgLost + 1
          \/ answer \notin {"ok", "noid", "lost"} /\ NotActed /\ UNCHANGED tgLost
  BY Zenon DEF Request
<1>2. tgJobs # <<>> /\ tgResult = "" /\ UNCHANGED tgOp BY DEF Request
<1>3. job = tgJobs[1] OBVIOUS
<1> HIDE DEF job
<1>4. Acts(job, answer) BY <1>1, Zenon DEF Acts
<1>5. AnswerTaken(answer) BY <1>1, <1>2, <1>3, <1>4, Zenon DEF AnswerTaken
<1> QED BY <1>5

LEMMA ActsFacts ==
  ASSUME NEW job \in JobType, NEW answer, Acts(job, answer)
  PROVE  /\ tgGuest' = tgGuest
         /\ \/ tgChat' = tgChat /\ answer \notin {"ok", "noid", "lost"}
            \/ job.do \in Edits /\ tgChat' = [tgChat EXCEPT ![1] = job.piece] /\ answer \in {"ok", "noid", "lost", "down"}
            \/ job.do \notin Edits /\ tgChat' = Append(tgChat, job.piece) /\ answer \in {"ok", "noid", "lost", "down"}
<1>1. job.do \in Ways /\ job.do # "inline"
  <2>1. job.do \in Ways BY JobFacts
  <2> QED BY <2>1 DEF Ways, Edits
<1>2. CASE answer \notin {"ok", "noid", "lost"} /\ NotActed BY <1>2 DEF NotActed
<1>3. CASE answer \in {"ok", "noid", "lost", "down"} /\ Acted(job) BY <1>1, <1>3 DEF Acted
<1> QED BY <1>2, <1>3 DEF Acts

LEMMA SameIs ==
  ASSUME NEW job \in JobType, "same" \in Answers(job)
  PROVE  job.do \in Edits /\ tgChat[1] = job.piece
<1>1. job.do \in Ways /\ job.do # "inline"
  <2>1. job.do \in Ways BY JobFacts
  <2> QED BY <2>1 DEF Ways, Edits
<1> QED BY <1>1 DEF Answers

LEMMA FirstReplaced ==
  ASSUME NEW T, NEW s \in Seq(T), Len(s) = 1, NEW e \in T, NEW t, t = [s EXCEPT ![1] = e]
  PROVE  t \in Seq(T) /\ Len(t) = 1 /\ t[1] = e
<1>1. s \in [1..1 -> T] BY SMT
<1>2. t \in [1..1 -> T] /\ t[1] = e BY <1>1
<1> QED BY <1>2

\* The chat after a request of a reply.
LEMMA ReplyChat ==
  ASSUME NEW p \in Nat, Told(tgChat, p), NEW job \in JobType, SendsOn(job) \/ (EditsOn(job) /\ Len(tgChat) = 1),
         job.piece[1] <= p + 1, NEW answer \in Answers(job), Acts(job, answer)
  PROVE  /\ \E q \in Nat : Told(tgChat', q) /\ job.piece[1] <= q + 1 /\ (answer \in {"ok", "noid", "same"} => job.piece[2] <= q)
         /\ (EditsOn(job) /\ Len(tgChat) = 1) => Len(tgChat') = 1
<1>1. job.piece \in Span /\ job.piece[1] \in Nat /\ job.piece[2] \in Nat BY JobFacts
<1>2. tgChat \in Seq(Span) BY DEF Told
<1>3. CASE EditsOn(job) /\ Len(tgChat) = 1
  <2>1. job.do \in Edits /\ job.piece[1] = 1 BY <1>3 DEF EditsOn
  <2>2. 1 \in 1..Len(tgChat) BY <1>3
  <2>3. CASE tgChat' = [tgChat EXCEPT ![1] = job.piece]
    <3>1. tgChat' \in Seq(Span) /\ Len(tgChat') = 1 /\ tgChat'[1] = job.piece BY <1>1, <1>2, <1>3, <2>3, FirstReplaced
    <3>2. Told(tgChat', job.piece[2]) BY <1>1, <2>1, <3>1, ToldEdit
    <3>3. job.piece[1] <= job.piece[2] + 1 /\ job.piece[2] <= job.piece[2] BY <1>1, <2>1
    <3> QED BY <1>1, <3>1, <3>2, <3>3
  <2>4. CASE tgChat' = tgChat /\ answer # "same" /\ answer \notin {"ok", "noid"}
    BY <1>3, <2>4
  <2>5. CASE tgChat' = tgChat /\ answer = "same"
    <3>1. tgChat[1] = job.piece BY <2>5, SameIs
    <3>2. Told(tgChat, job.piece[2]) BY <1>1, <1>2, <1>3, <2>1, <3>1, ToldEdit
    <3>3. job.piece[1] <= job.piece[2] + 1 /\ job.piece[2] <= job.piece[2] BY <1>1, <2>1
    <3> QED BY <1>1, <1>3, <2>5, <3>2, <3>3
  <2> QED BY <2>1, <2>3, <2>4, <2>5, ActsFacts
<1>4. CASE SendsOn(job)
  <2>1. job.do \notin Edits BY <1>4 DEF SendsOn, Edits
  <2>2. ~ EditsOn(job) BY <2>1 DEF EditsOn
  <2>3. answer # "same" BY <2>1, SameIs
  <2>4. CASE tgChat' = tgChat /\ answer \notin {"ok", "noid"} BY <2>2, <2>3, <2>4
  <2>5. CASE tgChat' = Append(tgChat, job.piece)
    <3> DEFINE a == job.piece
               q == IF a[2] <= p THEN p ELSE a[2]
    <3>1. a \in Span /\ a[1] <= p + 1 /\ tgChat' = Append(tgChat, a) /\ a[1] \in Nat /\ a[2] \in Nat BY <1>1, <2>5
    <3> HIDE DEF a
    <3>0. q = IF a[2] <= p THEN p ELSE a[2] OBVIOUS
    <3> HIDE DEF q
    <3>4. q \in Nat /\ p <= q /\ a[2] <= q /\ (q = p \/ q = a[2]) BY <3>0, <3>1
    <3>2. Told(tgChat', q) /\ q \in Nat /\ p <= q /\ a[2] <= q BY <3>1, <3>4, ToldAppend
    <3>3. a[1] <= q + 1 BY <3>1, <3>2
    <3> QED BY <2>2, <3>2, <3>3 DEF a
  <2> QED BY <2>1, <2>4, <2>5, ActsFacts
<1> QED BY <1>3, <1>4

\* What a request that goes on leaves of a reply.
LEMMA ReplyGoesOn ==
  ASSUME tgOp.kind \in Replies, tgResult = "", UNCHANGED tgOp, NEW q \in Nat, Told(tgChat', q),
         NEW lo \in Nat, lo <= q + 1, NEW js, Runs(js, lo, TextLen), ReplyShape(js, tgChat'), tgJobs' = js,
         tgResult' = IF js = <<>> THEN "ok" ELSE ""
  PROVE  ReplyKept'
<1>1. TextLen' = TextLen BY DEF TextLen
<1> QED BY <1>1 DEF ReplyKept

LEMMA NoShape == ASSUME NEW chat PROVE ReplyShape(<<>>, chat)
BY DEF ReplyShape

LEMMA ReplyEnds == ASSUME tgJobs' = <<>>, tgResult' \notin {"", "ok"} PROVE ReplyKept'
<1>1. ReplyShape(tgJobs', tgChat') BY NoShape
<1> QED BY <1>1 DEF ReplyKept

\* The requests of a reply: the first may edit the only message, the others send.
LEMMA ShapeFacts ==
  ASSUME NEW js, js # <<>>, js \in Seq(JobType), NEW chat, ReplyShape(js, chat)
  PROVE  /\ js[1] \in JobType /\ (SendsOn(js[1]) \/ (EditsOn(js[1]) /\ Len(chat) = 1))
         /\ \A i \in 2..Len(js) : SendsOn(js[i])
<1> DEFINE L == Len(js)
<1>1. L \in Nat /\ L # 0 OBVIOUS
<1>2. \A i \in 1..L : SendsOn(js[i]) \/ (i = 1 /\ EditsOn(js[1]) /\ Len(chat) = 1) BY DEF ReplyShape
<1> HIDE DEF L
<1>3. 1 \in 1..L BY <1>1
<1>4. \A i \in 2..L : i \in 1..L /\ i # 1 BY <1>1
<1>5. js[1] \in JobType BY <1>3 DEF L
<1> QED BY <1>2, <1>3, <1>4, <1>5 DEF L

LEMMA TailShape ==
  ASSUME NEW js, js # <<>>, js \in Seq(JobType), NEW chat, NEW after, ReplyShape(js, chat)
  PROVE  ReplyShape(Tail(js), after)
<1>1. \A i \in 2..Len(js) : SendsOn(js[i]) BY ShapeFacts
<1>2. Len(Tail(js)) = Len(js) - 1 /\ \A i \in 1..(Len(js) - 1) : Tail(js)[i] = js[i + 1] OBVIOUS
<1>3. Len(js) \in Nat OBVIOUS
<1>4. ASSUME NEW i \in 1..(Len(js) - 1) PROVE SendsOn(Tail(js)[i])
  <2>1. i + 1 \in 2..Len(js) BY <1>3
  <2>2. SendsOn(js[i + 1]) BY <1>1, <2>1
  <2> QED BY <1>2, <2>2
<1> QED BY <1>2, <1>4 DEF ReplyShape

\* A chunk done in another way, before what is left of the later chunks.
LEMMA ReplyFallsBack ==
  ASSUME NEW lo, NEW hi \in Nat, Runs(tgJobs, lo, hi), tgJobs # <<>>, NEW chat, NEW after, ReplyShape(tgJobs, chat),
         NEW a, Runs(a, tgJobs[1].chunk[1], tgJobs[1].chunk[2]), a # <<>>,
         ReplyShape(a, after), NEW js, js = a \o Later(tgJobs[1])
  PROVE  Runs(js, tgJobs[1].chunk[1], hi) /\ js # <<>> /\ ReplyShape(js, after)
<1> DEFINE b == Later(tgJobs[1])
           m == tgJobs[1].chunk[2]
           l == tgJobs[1].chunk[1]
<1>1. tgJobs \in Seq(JobType) /\ a \in Seq(JobType) BY DEF Runs
<1>2. tgJobs[1] \in JobType /\ \A i \in 2..Len(tgJobs) : SendsOn(tgJobs[i]) BY <1>1, ShapeFacts
<1>3. m \in Nat BY <1>2, JobFacts
<1>4. Runs(b, m + 1, hi) /\ Opens(b) /\ \A i \in 1..Len(b) : \E k \in 2..Len(tgJobs) : b[i] = tgJobs[k]
  <2> HIDE DEF m
  <2>1. b = Later(tgJobs[1]) OBVIOUS
  <2> HIDE DEF b
  <2> QED BY <2>1, LaterRuns DEF m
<1>5. b \in Seq(JobType) /\ js = a \o b /\ Runs(a, l, m) BY <1>4 DEF Runs
<1> HIDE DEF b, m, l
<1>6. Runs(js, l, hi) /\ js # <<>> /\ js[1] = a[1] BY ONLY <1>3, <1>4, <1>5, a # <<>>, hi \in Nat, RunsJoin
<1>7. Joins(a, b, js) BY <1>1, <1>5, JoinedAre
<1>8. ASSUME NEW i \in 1..Len(js) PROVE SendsOn(js[i]) \/ (i = 1 /\ EditsOn(js[1]) /\ Len(after) = 1)
  <2>1. CASE i \in 1..Len(a) /\ js[i] = a[i]
    <3>1. SendsOn(a[i]) \/ (i = 1 /\ EditsOn(a[1]) /\ Len(after) = 1) BY <2>1 DEF ReplyShape
    <3> QED BY <1>6, <2>1, <3>1
  <2>2. CASE \E k \in 1..Len(b) : js[i] = b[k] BY <1>2, <1>4, <2>2
  <2> QED BY <1>7, <2>1, <2>2 DEF Joins
<1> QED BY <1>6, <1>8 DEF ReplyShape, l

\* A failed request of a reply: it falls back, or the reply is given up.
LEMMA ReplyFailed ==
  ASSUME OpKept, tgOp.kind \in Replies, tgOp.text # <<>>, tgResult = "", UNCHANGED tgOp,
         NEW lo \in Nat, Runs(tgJobs, lo, TextLen), tgJobs # <<>>, ReplyShape(tgJobs, tgChat),
         NEW q \in Nat, Told(tgChat', q), tgJobs[1].piece[1] <= q + 1,
         (EditsOn(tgJobs[1]) /\ Len(tgChat) = 1) => Len(tgChat') = 1,
         NEW answer, Failed(tgJobs[1], answer)
  PROVE  ReplyKept'
<1> DEFINE job == tgJobs[1]
           c == job.chunk
<1>1. TextLen \in Nat BY OpFacts
<1>2. tgJobs \in Seq(JobType) /\ 1 \in 1..Len(tgJobs)
  <2>1. tgJobs \in Seq(JobType) BY DEF Runs
  <2> QED BY ONLY <2>1, tgJobs # <<>>, FirstIndex
<1>3. job \in JobType /\ (SendsOn(job) \/ (EditsOn(job) /\ Len(tgChat) = 1)) BY <1>2, ShapeFacts
<1>4. Inside(job) BY <1>2 DEF Runs
<1>5. c \in Span /\ c[1] \in Nat /\ c[2] \in Nat /\ job.piece[1] \in Nat /\ job.piece[2] \in Nat BY <1>3, JobFacts
<1>6. 1 <= c[1] /\ c[1] <= c[2] /\ c[1] <= q + 1
  <2>1. 1 <= c[1] /\ c[1] <= job.piece[1] /\ job.piece[1] <= job.piece[2] /\ job.piece[2] <= c[2] BY <1>4 DEF Inside
  <2>2. job.piece[1] <= q + 1 OBVIOUS
  <2> DEFINE x == job.piece[1]
             y == job.piece[2]
             u == c[1]
             v == c[2]
  <2>3. x \in Nat /\ y \in Nat /\ u \in Nat /\ v \in Nat /\ 1 <= u /\ u <= x /\ x <= y /\ y <= v /\ x <= q + 1 BY <1>5, <2>1
  <2> HIDE DEF x, y, u, v
  <2>4. 1 <= u /\ u <= v /\ u <= q + 1 BY ONLY <2>3, q \in Nat
  <2> QED BY <2>4 DEF u, v
<1>7. job.fail \in {"err", "fresh", "legacy", "plain"} /\ (job.fail = "legacy" => EditsOn(job) /\ Len(tgChat') = 1)
  BY <1>3 DEF SendsOn, EditsOn
\* Any form of the chunk goes on with the later chunks.
<1>8. ASSUME NEW a, Runs(a, c[1], c[2]), a # <<>>, ReplyShape(a, tgChat'), Continue(a \o Later(job))
      PROVE  ReplyKept'
  <2> DEFINE js == a \o Later(job)
  <2>1. Runs(js, c[1], TextLen) /\ js # <<>> /\ ReplyShape(js, tgChat')
    <3>1. js = a \o Later(tgJobs[1]) OBVIOUS
    <3> HIDE DEF js
    <3> QED BY <1>1, <1>8, <3>1, ReplyFallsBack
  <2>2. tgJobs' = js /\ tgResult' = IF js = <<>> /\ tgOp.kind # "guest" THEN "ok" ELSE tgResult BY <1>8 DEF Continue
  <2> HIDE DEF js
  <2>3. tgResult' = IF js = <<>> THEN "ok" ELSE "" BY <2>1, <2>2
  <2> QED BY <1>5, <1>6, <2>1, <2>2, <2>3, ReplyGoesOn
<1>9. CASE job.fail = "legacy" /\ Continue(finalizeLegacyPreview(job.chunk, "fresh") \o Later(job))
  <2> DEFINE a == finalizeLegacyPreview(c, "fresh")
  <2>1. LegacyOf(a, c, "fresh")
    <3>1. a = finalizeLegacyPreview(c, "fresh") OBVIOUS
    <3> HIDE DEF a, c
    <3> QED BY <1>5, <1>6, <3>1, LegacyRun, FallbacksAre
  <2>2. Continue(a \o Later(job)) BY <1>9
  <2> HIDE DEF a
  <2>3. /\ Runs(a, c[1], c[2]) /\ a # <<>> /\ a[1].chunk[1] = c[1] /\ a[1].piece[1] = c[1] /\ a[1].do = "editPlain"
        /\ \A i \in 1..Len(a) : a[i].fail = "fresh" /\ (i # 1 => a[i].do = "sendPlain")
    BY <2>1 DEF LegacyOf
  <2>4. c[1] = 1 /\ Len(tgChat') = 1 BY <1>7, <1>9 DEF EditsOn
  <2>5. 1 \in 1..Len(a)
    <3>1. a \in Seq(JobType) BY <2>3 DEF Runs
    <3> QED BY ONLY <2>3, <3>1, FirstIndex
  <2>6. EditsOn(a[1]) BY <2>3, <2>4, <2>5, WaysAre DEF EditsOn
  <2>7. ReplyShape(a, tgChat') BY <2>3, <2>4, <2>6 DEF ReplyShape, SendsOn
  <2> QED BY <1>8, <2>2, <2>3, <2>7
<1>10. CASE job.fail = "fresh" /\ Continue(sendRichWithFallback(job.chunk) \o Later(job))
  <2> DEFINE j == Job("sendRich", c, c, TRUE, "plain")
             a == <<j>>
             l == c[1]
             h == c[2]
  <2>1. Continue(a \o Later(job)) BY <1>10 DEF sendRichWithFallback
  <2>2. j \in JobType /\ j.do = "sendRich" /\ j.piece = c /\ j.chunk = c /\ j.fail = "plain"
    <3> HIDE DEF c
    <3> QED BY <1>5, WaysAre, FallbacksAre DEF Job, JobType
  <2>3. c = <<l, h>> /\ l \in Nat /\ h \in Nat /\ 1 <= l /\ l <= h BY <1>5, <1>6, SpanFacts
  <2> HIDE DEF j, l, h, c
  <2>4. j.piece = <<l, h>> /\ j.chunk = <<l, h>> BY <2>2, <2>3
  <2>5. Runs(a, l, h) /\ a # <<>> /\ Len(a) = 1 /\ a[1] = j BY <2>2, <2>3, <2>4, OneRun
  <2>6. SendsOn(j) BY <2>2 DEF SendsOn
  <2> HIDE DEF a
  <2>7. \A i \in 1..Len(a) : i = 1 BY ONLY <2>5
  <2>8. ReplyShape(a, tgChat') BY <2>5, <2>6, <2>7 DEF ReplyShape
  <2>9. Runs(a, c[1], c[2]) BY <2>5 DEF l, h
  <2> QED BY <1>8, <2>1, <2>5, <2>8, <2>9
<1>11. CASE job.fail = "plain" /\ Continue(PlainParts(job.chunk, TRUE, "err") \o Later(job))
  <2> DEFINE r == TRUE
             a == PlainParts(c, r, "err")
  <2>1. Continue(a \o Later(job)) /\ r \in BOOLEAN BY <1>11
  <2> HIDE DEF r, c
  <2>2. a = PlainParts(c, r, "err") OBVIOUS
  <2> HIDE DEF a
  <2>3. PartsOf(a, c, r, "err") BY <1>5, <1>6, <2>1, <2>2, PartsRun, FallbacksAre
  <2>4. Runs(a, c[1], c[2]) /\ a # <<>> /\ \A i \in 1..Len(a) : a[i].do = "sendPlain" /\ a[i].fail = "err" BY <2>3 DEF PartsOf
  <2>5. ReplyShape(a, tgChat') BY <2>4 DEF ReplyShape, SendsOn
  <2> QED BY <1>8, <2>1, <2>4, <2>5
<1>12. CASE job.fail = "err" /\ Finished(IF tgOp.kind = "guest" THEN "" ELSE "err")
  <2>1. tgOp.kind # "guest" BY DEF Replies
  <2>2. tgJobs' = <<>> /\ tgResult' = "err" BY <1>12, <2>1 DEF Finished
  <2> QED BY <2>2, ReplyEnds
<1> QED BY <1>7, <1>9, <1>10, <1>11, <1>12 DEF Failed

LEMMA ReplyRequest ==
  ASSUME OpKept, ReplyKept, tgOp.kind \in Replies, tgOp.text # <<>>, NEW answer, AnswerTaken(answer)
  PROVE  ReplyKept'
<1> DEFINE job == tgJobs[1]
           N == TextLen
<1>1. /\ tgJobs # <<>> /\ tgResult = "" /\ answer \in Answers(job)
      /\ Answered(job, answer) /\ Acts(job, answer) /\ UNCHANGED tgOp
  BY DEF AnswerTaken
<1>2. PICK p \in Nat, lo \in Nat : Told(tgChat, p) /\ lo <= p + 1 /\ Runs(tgJobs, lo, N) BY <1>1 DEF ReplyKept
<1>3. ReplyShape(tgJobs, tgChat) BY DEF ReplyKept
<1>4. N \in Nat BY OpFacts
<1>5. tgJobs \in Seq(JobType) /\ job.piece[1] = lo BY <1>1, <1>2 DEF Runs
<1>6. job \in JobType /\ (SendsOn(job) \/ (EditsOn(job) /\ Len(tgChat) = 1)) BY <1>1, <1>3, <1>5, ShapeFacts
<1>7. job.piece[1] <= p + 1 /\ job.piece[2] \in Nat BY <1>2, <1>5, <1>6, JobFacts
<1> HIDE DEF job, N
<1>8. /\ \E q \in Nat : Told(tgChat', q) /\ job.piece[1] <= q + 1 /\ (answer \in {"ok", "noid", "same"} => job.piece[2] <= q)
      /\ (EditsOn(job) /\ Len(tgChat) = 1) => Len(tgChat') = 1
  BY <1>1, <1>2, <1>6, <1>7, ReplyChat
<1>9. PICK q \in Nat : Told(tgChat', q) /\ job.piece[1] <= q + 1 /\ (answer \in {"ok", "noid", "same"} => job.piece[2] <= q)
  BY <1>8
<1>10. CASE UNCHANGED <<tgJobs, tgResult>>
  <2>1. ReplyShape(tgJobs, tgChat')
    <3>1. (\A i \in 1..Len(tgJobs) : SendsOn(tgJobs[i]) \/ (i = 1 /\ EditsOn(tgJobs[1]) /\ Len(tgChat) = 1)) BY <1>3 DEF ReplyShape
    <3> QED BY <1>8, <3>1 DEF ReplyShape, job
  <2>2. tgJobs' = tgJobs /\ tgResult' = IF tgJobs = <<>> THEN "ok" ELSE "" BY <1>1, <1>10
  <2>3. lo <= q + 1 BY <1>5, <1>9 DEF job
  <2> QED BY <1>1, <1>2, <1>9, <2>1, <2>2, <2>3, ReplyGoesOn DEF N
<1>11. CASE Through(job, answer) /\ Continue(Tail(tgJobs))
  <2> DEFINE js == Tail(tgJobs)
             l == job.piece[2] + 1
  <2>1. answer \in {"ok", "noid", "same"} BY <1>11 DEF Through
  <2>2. l \in Nat /\ l <= q + 1 BY <1>7, <1>9, <2>1
  <2>3. Runs(js, l, N) BY <1>1, <1>2, <1>4, RunsTail DEF job
  <2>4. ReplyShape(js, tgChat') BY <1>1, <1>3, <1>5, TailShape
  <2>5. tgJobs' = js /\ tgResult' = IF js = <<>> /\ tgOp.kind # "guest" THEN "ok" ELSE tgResult BY <1>11 DEF Continue
  <2> HIDE DEF js, l
  <2>6. tgResult' = IF js = <<>> THEN "ok" ELSE "" BY <1>1, <2>5 DEF Replies
  <2> QED BY <1>1, <1>9, <2>2, <2>3, <2>4, <2>5, <2>6, ReplyGoesOn DEF N
<1>12. CASE Failed(job, answer)
  BY <1>1, <1>2, <1>3, <1>8, <1>9, <1>12, ReplyFailed DEF job, N
<1>13. ~Nameless(job, answer) BY DEF Nameless, Replies
<1> QED BY <1>1, <1>10, <1>11, <1>12, <1>13 DEF Answered

-----------------------------------------------------------------------------
(* A send of one attempt                                                       *)

LEMMA ZeroOne == 0 \in Nat /\ 0 + 1 = 1
OBVIOUS

AllOnce(js) == \A i \in 1..Len(js) : SendsOnce(js[i])

LEMMA NoneOnce == AllOnce(<<>>)
<1>1. 1..Len(<<>>) = {} OBVIOUS
<1> QED BY <1>1 DEF AllOnce

LEMMA TailOnce == ASSUME NEW js \in Seq(JobType), js # <<>>, AllOnce(js) PROVE AllOnce(Tail(js))
<1>1. Len(Tail(js)) = Len(js) - 1 /\ \A k \in 1..(Len(js) - 1) : Tail(js)[k] = js[k + 1] OBVIOUS
<1>2. Len(js) \in Nat OBVIOUS
<1>3. ASSUME NEW i \in 1..(Len(js) - 1) PROVE SendsOnce(Tail(js)[i])
  <2>1. i + 1 \in 1..Len(js) BY <1>2
  <2>2. SendsOnce(js[i + 1]) BY <2>1 DEF AllOnce
  <2> QED BY <1>1, <2>2
<1> QED BY <1>1, <1>3 DEF AllOnce

LEMMA OnceGoesOn ==
  ASSUME tgOp.kind \in Onces, tgResult = "", UNCHANGED tgOp, NEW q \in Nat, ToldOnce(tgChat', q),
         NEW js, Runs(js, q + 1, TextLen), AllOnce(js), tgJobs' = js,
         tgResult' = IF js = <<>> THEN "ok" ELSE ""
  PROVE  OnceKept'
<1>1. TextLen' = TextLen BY DEF TextLen
<1> QED BY <1>1 DEF OnceKept, AllOnce

LEMMA OnceEnds ==
  ASSUME tgJobs' = <<>>, tgResult' \notin {"", "ok"}, tgResult' = "notsent" => tgChat' = <<>>
  PROVE  OnceKept'
<1>1. AllOnce(tgJobs') BY NoneOnce
<1> QED BY <1>1 DEF OnceKept, AllOnce

\* An outcome that says "not sent" comes with an answer that did nothing.
LEMMA NotSentAnswers ==
  ASSUME NEW job \in JobType, NEW answer, Acts(job, answer)
  PROVE  /\ NotificationOutcome(answer) = "notsent" => tgChat' = tgChat
         /\ classifyDirectFailure(answer) = "notsent" => tgChat' = tgChat
         /\ NotificationOutcome(answer) \notin {"", "ok"} /\ classifyDirectFailure(answer) \notin {"", "ok"}
         /\ answer \in Rejected => tgChat' = tgChat
BY ActsFacts DEF NotificationOutcome, classifyDirectFailure, Rejected

LEMMA OnceFailed ==
  ASSUME OpKept, tgOp.kind \in Onces, tgResult = "", UNCHANGED tgOp,
         NEW p \in Nat, ToldOnce(tgChat, p), tgJobs # <<>>, tgJobs[1] \in JobType, tgJobs[1].piece[1] = p + 1, SendsOnce(tgJobs[1]),
         NEW answer, Acts(tgJobs[1], answer), Failed(tgJobs[1], answer)
  PROVE  OnceKept'
<1> DEFINE job == tgJobs[1]
           N == TextLen
<1>1. N \in Nat /\ N # 0 BY OpFacts DEF Replies, Onces
<1>2. job.piece[1] = 1 => tgChat = <<>>
  <2> DEFINE x == job.piece[1]
  <2>0. x = p + 1 OBVIOUS
  <2> HIDE DEF x
  <2>1. x = 1 => p = 0 BY ONLY <2>0, p \in Nat
  <2> QED BY <2>1, OnceEmpty DEF x
<1>3. /\ NotificationOutcome(answer) = "notsent" => tgChat' = tgChat
      /\ classifyDirectFailure(answer) = "notsent" => tgChat' = tgChat
      /\ NotificationOutcome(answer) \notin {"", "ok"} /\ classifyDirectFailure(answer) \notin {"", "ok"}
      /\ answer \in Rejected => tgChat' = tgChat
  BY NotSentAnswers
<1>4. /\ job.fail \in {"kb", "longonce", "part", "direct", "err"}
      /\ job.fail \in {"kb", "longonce", "direct"} => job.piece[1] = 1
  BY DEF SendsOnce
\* Another form of the whole text, after a refusal of the first request.
<1>5. ASSUME NEW js, OnceStarts(js), Continue(js), answer \in Rejected, job.piece[1] = 1 PROVE OnceKept'
  <2>1. Runs(js, 1, N) /\ js # <<>> /\ AllOnce(js) BY <1>5 DEF OnceStarts, AllOnce
  <2>2. ToldOnce(tgChat', 0) BY <1>2, <1>3, <1>5, OnceNothing
  <2>3. tgJobs' = js /\ tgResult' = IF js = <<>> THEN "ok" ELSE "" BY <1>5, <2>1 DEF Continue
  <2>4. 0 \in Nat /\ 0 + 1 = 1 /\ Runs(js, 0 + 1, N)
    <3> QED BY ONLY <2>1, ZeroOne
  <2> QED BY <2>1, <2>2, <2>3, <2>4, OnceGoesOn
<1>6. CASE job.fail = "kb" /\ IF answer \in Rejected THEN Continue(OnceForm) ELSE Finished(NotificationOutcome(answer))
  <2>1. CASE answer \in Rejected
    <3>1. OnceStarts(OnceForm) BY <1>1, OnceFormStarts
    <3> QED BY <1>4, <1>5, <1>6, <2>1, <3>1
  <2>2. CASE answer \notin Rejected
    <3>1. tgJobs' = <<>> /\ tgResult' = NotificationOutcome(answer) BY <1>6, <2>2 DEF Finished
    <3> QED BY <1>2, <1>3, <1>4, <1>6, <3>1, OnceEnds
  <2> QED BY <2>1, <2>2
<1>7. CASE /\ job.fail = "longonce"
           /\ IF answer \in Rejected THEN Continue(PlainParts(Whole, FALSE, "part")) ELSE Finished(NotificationOutcome(answer))
  <2>1. CASE answer \in Rejected
    <3>1. OnceStarts(PlainParts(Whole, FALSE, "part")) BY <1>1, PartsOnce
    <3> QED BY <1>4, <1>5, <1>7, <2>1, <3>1
  <2>2. CASE answer \notin Rejected
    <3>1. tgJobs' = <<>> /\ tgResult' = NotificationOutcome(answer) BY <1>7, <2>2 DEF Finished
    <3> QED BY <1>2, <1>3, <1>4, <1>7, <3>1, OnceEnds
  <2> QED BY <2>1, <2>2
<1>8. CASE job.fail = "part" /\ Finished(IF job.piece[1] = 1 THEN NotificationOutcome(answer) ELSE "unknown")
  <2>1. CASE job.piece[1] = 1
    <3>1. tgJobs' = <<>> /\ tgResult' = NotificationOutcome(answer) BY <1>8, <2>1 DEF Finished
    <3> QED BY <1>2, <1>3, <2>1, <3>1, OnceEnds
  <2>2. CASE job.piece[1] # 1
    <3>1. tgJobs' = <<>> /\ tgResult' = "unknown" BY <1>8, <2>2 DEF Finished
    <3> QED BY <3>1, OnceEnds
  <2> QED BY <2>1, <2>2
<1>9. CASE job.fail = "direct" /\ Finished(classifyDirectFailure(answer))
  <2>1. tgJobs' = <<>> /\ tgResult' = classifyDirectFailure(answer) BY <1>9 DEF Finished
  <2> QED BY <1>2, <1>3, <1>4, <1>9, <2>1, OnceEnds
<1>10. CASE job.fail = "err" /\ Finished(IF tgOp.kind = "guest" THEN "" ELSE "err")
  <2>1. tgOp.kind # "guest" BY DEF Onces
  <2>2. tgJobs' = <<>> /\ tgResult' = "err" BY <1>10, <2>1 DEF Finished
  <2> QED BY <2>2, OnceEnds
<1> QED BY <1>4, <1>6, <1>7, <1>8, <1>9, <1>10 DEF Failed

LEMMA OnceRequest ==
  ASSUME OpKept, OnceKept, tgOp.kind \in Onces, NEW answer, AnswerTaken(answer)
  PROVE  OnceKept'
<1> DEFINE job == tgJobs[1]
           N == TextLen
           a == job.piece
<1>1. /\ tgJobs # <<>> /\ tgResult = "" /\ answer \in Answers(job)
      /\ Answered(job, answer) /\ Acts(job, answer) /\ UNCHANGED tgOp
  BY DEF AnswerTaken
<1>2. PICK p \in Nat : ToldOnce(tgChat, p) /\ Runs(tgJobs, p + 1, N) BY <1>1 DEF OnceKept
<1>3. AllOnce(tgJobs) BY DEF OnceKept, AllOnce
<1>4. N \in Nat BY OpFacts
<1>5. tgJobs \in Seq(JobType) /\ a[1] = p + 1 BY <1>1, <1>2 DEF Runs
<1>6. 1 \in 1..Len(tgJobs) BY ONLY <1>1, <1>5, FirstIndex
<1>7. job \in JobType /\ SendsOnce(job) /\ Inside(job) BY <1>2, <1>3, <1>5, <1>6 DEF Runs, AllOnce
<1>8. a \in Span /\ a[1] <= a[2] /\ a[2] \in Nat BY <1>7, JobFacts DEF Inside
<1>9. job.do \notin Edits /\ ~job.retry BY <1>7 DEF SendsOnce
<1> HIDE DEF job, N, a
<1>10. \/ tgChat' = tgChat /\ answer \notin {"ok", "noid", "lost"}
       \/ tgChat' = Append(tgChat, a) /\ answer \in {"ok", "noid", "lost", "down"}
  BY <1>1, <1>7, <1>9, ActsFacts DEF a
<1>11. tgChat' = Append(tgChat, a) => ToldOnce(tgChat', a[2]) BY <1>2, <1>5, <1>8, OnceAppend
<1>12. CASE Continue(Tail(tgJobs)) /\ answer \in {"ok", "noid"}
  <2> DEFINE js == Tail(tgJobs)
  <2>1. ToldOnce(tgChat', a[2]) BY <1>10, <1>11, <1>12
  <2>2. Runs(js, a[2] + 1, N) BY <1>1, <1>2, <1>4, RunsTail DEF job, a
  <2>3. AllOnce(js) BY ONLY <1>1, <1>3, <1>5, TailOnce
  <2>4. tgJobs' = js /\ tgResult' = IF js = <<>> THEN "ok" ELSE "" BY <1>1, <1>12 DEF Continue, Onces
  <2> HIDE DEF js
  <2> QED BY <1>1, <1>8, <2>1, <2>2, <2>3, <2>4, OnceGoesOn DEF N
<1>13. CASE Literal(job, answer) /\ UNCHANGED <<tgJobs, tgResult>>
  <2>1. answer = "parse" BY <1>13 DEF Literal
  <2>2. ToldOnce(tgChat', p) BY <1>2, <1>10, <2>1
  <2>3. tgJobs' = tgJobs /\ tgResult' = IF tgJobs = <<>> THEN "ok" ELSE "" BY <1>1, <1>13
  <2> QED BY <1>1, <1>2, <1>3, <2>2, <2>3, OnceGoesOn DEF N
<1>14. CASE Through(job, answer) /\ Continue(Tail(tgJobs))
  <2>1. answer # "same" BY <1>1, <1>7, <1>9, SameIs
  <2>2. answer \in {"ok", "noid"} BY <1>14, <2>1 DEF Through
  <2> QED BY <1>12, <1>14, <2>2
<1>15. CASE /\ Nameless(job, answer)
            /\ IF Len(tgJobs) = 1 /\ job.piece[1] = 1 THEN Finished("unknown") ELSE Continue(Tail(tgJobs))
  <2>1. answer = "noid" BY <1>15 DEF Nameless
  <2>2. CASE Finished("unknown")
    <3>1. tgJobs' = <<>> /\ tgResult' = "unknown" BY <2>2 DEF Finished
    <3> QED BY <3>1, OnceEnds
  <2>3. CASE Continue(Tail(tgJobs)) BY <1>12, <2>1, <2>3
  <2> QED BY <1>15, <2>2, <2>3
<1>16. ~Again(job, answer) BY <1>9 DEF Again
<1>17. CASE Failed(job, answer)
  BY <1>1, <1>2, <1>5, <1>7, <1>17, OnceFailed DEF job, a
<1> QED BY <1>1, <1>13, <1>14, <1>15, <1>16, <1>17 DEF Answered

-----------------------------------------------------------------------------
(* The guest message                                                           *)

LEMMA GuestFacts ==
  ASSUME NEW g \in GuestType
  PROVE  /\ g.pc \in Stages /\ g.shown \in ShownType /\ g.buf \in Words /\ g.delivered \in BOOLEAN
         /\ g.media \in Nat /\ g.staged \in Nat /\ g.shown.text \in Words /\ g.shown.media \in Nat
BY DEF GuestType, ShownType

LEMMA GuestMoved ==
  ASSUME NEW g \in GuestType, NEW pc \in Stages, NEW h, h = [g EXCEPT !.pc = pc]
  PROVE  h \in GuestType /\ h.pc = pc /\ h.shown = g.shown /\ h.delivered = g.delivered
BY DEF GuestType

LEMMA GuestShown ==
  ASSUME NEW g \in GuestType, NEW x \in ShownType, NEW h, h = [g EXCEPT !.shown = x]
  PROVE  h \in GuestType /\ h.pc = g.pc /\ h.shown = x /\ h.delivered = g.delivered
BY DEF GuestType

\* The updates a step of the guest sink makes.
Showing(g, pc, s) == [g EXCEPT !.pc = pc, !.shown.text = s]
Drafting(g, s) == [g EXCEPT !.buf = "partial", !.shown.text = s]
Writing(g, d) == [g EXCEPT !.pc = "turn", !.delivered = d]

LEMMA GuestSet ==
  ASSUME NEW g \in GuestType, NEW pc \in Stages, NEW s \in Words, NEW h, h = Showing(g, pc, s)
  PROVE  h \in GuestType /\ h.pc = pc /\ h.shown.text = s /\ h.delivered = g.delivered
BY DEF GuestType, ShownType, Showing

LEMMA GuestDrafted ==
  ASSUME NEW g \in GuestType, NEW s \in Words, NEW h, h = Drafting(g, s)
  PROVE  h \in GuestType /\ h.pc = g.pc /\ h.shown.text = s /\ h.delivered = g.delivered
BY DEF GuestType, ShownType, Words, Drafting

LEMMA GuestStaged ==
  ASSUME NEW g \in GuestType, NEW h, h \in {[g EXCEPT !.media = @ + 1, !.staged = @ + 1], [g EXCEPT !.staged = @ + 1]}
  PROVE  h \in GuestType /\ h.pc = g.pc /\ h.shown = g.shown /\ h.delivered = g.delivered
<1>1. g.media \in Nat /\ g.staged \in Nat BY GuestFacts
<1>2. PICK m \in Nat, n \in Nat : m = g.media + 1 /\ n = g.staged + 1 BY <1>1
<1>3. CASE h = [g EXCEPT !.media = @ + 1, !.staged = @ + 1]
  <2>1. h = [g EXCEPT !.media = m, !.staged = n] BY <1>2, <1>3
  <2> QED BY ONLY <2>1, g \in GuestType, m \in Nat, n \in Nat DEF GuestType
<1>4. CASE h = [g EXCEPT !.staged = @ + 1]
  <2>1. h = [g EXCEPT !.staged = n] BY <1>2, <1>4
  <2> QED BY ONLY <2>1, g \in GuestType, n \in Nat DEF GuestType
<1> QED BY <1>3, <1>4

LEMMA GuestWritten ==
  ASSUME NEW g \in GuestType, NEW d \in BOOLEAN, NEW h, h = Writing(g, d)
  PROVE  h \in GuestType /\ h.pc = "turn" /\ h.shown = g.shown /\ h.delivered = d
BY DEF GuestType, Stages, Writing

LEMMA GuestLeft ==
  ASSUME NEW g \in GuestType, NEW n \in Nat, NEW h, h = [g EXCEPT !.pc = "end", !.staged = n]
  PROVE  h \in GuestType /\ h.pc = "end" /\ h.shown = g.shown /\ h.delivered = g.delivered
BY DEF GuestType, Stages

LEMMA InlineFacts ==
  ASSUME NEW j \in InlineType
  PROVE  /\ j.do = "inline" /\ j.fail \in {"err", "cut"} /\ j.shown \in ShownType
         /\ j.shown.text \in Words /\ j.shown.media \in Nat
BY DEF InlineType, ShownType

\* The edit that follows a refused one, with a text that was cut.
AsCut(j, x) == [j EXCEPT !.fail = "err", !.shown = x]
LEMMA InlineCut ==
  ASSUME NEW j \in InlineType, NEW x \in ShownType, NEW k, k = AsCut(j, x)
  PROVE  k \in InlineType /\ k.shown = x
BY DEF AsCut, InlineType

LEMMA InlineIs ==
  ASSUME OpKept, NEW text \in Words, NEW media \in Nat, NEW fail \in {"err", "cut"}, NEW j, j = InlineEdit(text, media, fail)
  PROVE  j \in InlineType /\ j.shown.text = text
<1>1. Whole \in Span BY OpFacts
<1> QED BY <1>1 DEF InlineEdit, InlineType, ShownType

LEMMA FinalizeInlineIs ==
  ASSUME OpKept, NEW text \in Words, NEW media \in Nat, NEW js, js = FinalizeInlineWithMedia(text, media)
  PROVE  js \in Seq(InlineType) /\ Len(js) = 1 /\ js # <<>> /\ js[1].shown.text = text
<1> DEFINE f == IF text = "noanswer" \/ (~tgOp.rich /\ Len(tgOp.text) <= PlainCap) THEN "err" ELSE "cut"
           e == IF media = 1 /\ Len(tgOp.text) <= PlainCap THEN "err" ELSE "cut"
           j == IF media = 0 THEN InlineEdit(text, 0, f) ELSE InlineEdit(text, media, e)
<1>1. f \in {"err", "cut"} /\ e \in {"err", "cut"} /\ 0 \in Nat OBVIOUS
<1>2. js = <<j>> BY DEF FinalizeInlineWithMedia, FinalizeInlineResponse
<1> HIDE DEF f, e
<1>3. j \in InlineType /\ j.shown.text = text BY <1>1, InlineIs
<1> HIDE DEF j
<1> QED BY <1>2, <1>3

LEMMA FirstOf == ASSUME NEW T, NEW s \in Seq(T), s # <<>> PROVE s[1] \in T
<1>1. 1 \in 1..Len(s) BY FirstIndex
<1> QED BY <1>1

LEMMA OneTail == ASSUME NEW T, NEW s \in Seq(T), Len(s) = 1 PROVE Tail(s) = <<>>
<1>1. ASSUME s = <<>> PROVE Len(s) = 0 BY <1>1
<1>2. s # <<>> BY <1>1
<1> QED BY <1>2, ShortTail

LEMMA InitBlank == ASSUME DeliveryInit PROVE BlankKept
<1>1. OpKept BY InitOp
<1> SUFFICES ASSUME tgOp.text = <<>> PROVE tgJobs \in {<<>>, <<Job("sendPlain", Whole, Whole, FALSE, "err")>>}
  BY DEF BlankKept
<1>2. TextLen = 0 BY <1>1, OpFacts
<1>3. tgOp.kind \in {"finalize", "richlong"} /\ ~tgOp.rich BY DEF DeliveryInit
<1>4. Len(tgOp.text) <= PlainCap BY <1>2, Caps DEF TextLen
<1>5. Short BY <1>3, <1>4 DEF Short
<1>6. SendLong = <<Job("sendPlain", Whole, Whole, FALSE, "err")>> BY <1>4 DEF SendLong
<1>7. finalizeLegacyPreview(Whole, "err") = <<>>
  <2> DEFINE ps == splitMessage(tgOp.text, Whole[1], Whole[2], PlainCap)
             js == PlainParts(Whole, TRUE, "err")
  <2>1. Whole[1] = 1 /\ Whole[2] = 0 BY <1>1, <1>2, OpFacts
  <2>2. ps = splitMessage(tgOp.text, 1, 0, PlainCap) BY <2>1
  <2>3. js = [i \in 1..Len(ps) |-> Job("sendPlain", ps[i], Whole, TRUE, "err")] BY DEF PlainParts
  <2> HIDE DEF ps
  <2>4. Split(ps, 1, 0, PlainCap) BY <2>2, Caps, SplitMessageSplits
  <2>5. ps \in Seq(Span) /\ \A i \in 1..Len(ps) : ps[i][1] <= ps[i][2] /\ 1 <= ps[i][1] /\ ps[i][2] <= 0
    BY <2>4 DEF Split
  <2>6. Len(ps) = 0
    <3>1. SUFFICES ASSUME Len(ps) # 0 PROVE FALSE OBVIOUS
    <3>2. 1 \in 1..Len(ps) BY <2>5, <3>1
    <3>3. ps[1] \in Span BY <2>5, <3>2
    <3>4. ps[1][1] \in Nat /\ ps[1][2] \in Nat BY <3>3, SpanFacts
    <3> QED BY <2>5, <3>2, <3>4
  <2> HIDE DEF js
  <2>7. js = <<>> BY <2>3, <2>6
  <2>8. Len(js) = 0 BY <2>7
  <2>9. finalizeLegacyPreview(Whole, "err") = [i \in 1..Len(js) |-> IF i = 1 THEN [js[1] EXCEPT !.do = "editPlain"] ELSE js[i]]
    BY DEF finalizeLegacyPreview, js
  <2> QED BY <2>8, <2>9
<1>8. CASE tgOp.kind = "finalize"
  <2>1. tgJobs = FinalizeResponse BY <1>8 DEF DeliveryInit
  <2> QED BY <1>5, <1>6, <1>7, <2>1 DEF FinalizeResponse
<1>9. CASE tgOp.kind = "richlong"
  <2>1. tgJobs = SendRichLong BY <1>9 DEF DeliveryInit
  <2> QED BY <1>5, <1>6, <2>1 DEF SendRichLong
<1> QED BY <1>3, <1>8, <1>9

LEMMA BlankRequest ==
  ASSUME OpKept, BlankKept, tgOp.text = <<>>, NEW answer, AnswerTaken(answer)
  PROVE  BlankKept' /\ tgJobs[1] \in JobType
<1> DEFINE job == Job("sendPlain", Whole, Whole, FALSE, "err")
<1>1. tgJobs # <<>> /\ Answered(tgJobs[1], answer) /\ UNCHANGED tgOp BY DEF AnswerTaken
<1>2. tgJobs = <<job>> BY <1>1 DEF BlankKept
<1>3. job \in JobType /\ job.fail = "err"
  <2>1. Whole \in Span BY OpFacts
  <2> DEFINE r == FALSE
  <2>2. r \in BOOLEAN OBVIOUS
  <2>3. job = Job("sendPlain", Whole, Whole, r, "err") OBVIOUS
  <2> HIDE DEF r, job
  <2> QED BY <2>1, <2>2, <2>3, JobIs, WaysAre, FallbacksAre
<1>4. Whole' = Whole BY <1>1 DEF Whole
<1>5. (<<Job("sendPlain", Whole, Whole, FALSE, "err")>>)' = <<job>> BY <1>4 DEF Job
<1> HIDE DEF job
<1>6. tgJobs[1] = job /\ Tail(tgJobs) = <<>> BY <1>2
<1>7. tgJobs' = tgJobs \/ tgJobs' = <<>>
  <2>1. CASE Failed(job, answer) BY <1>3, <2>1 DEF Failed, Finished
  <2> QED BY <1>1, <1>6, <2>1 DEF Answered, Continue, Finished
<1> QED BY <1>1, <1>2, <1>3, <1>5, <1>6, <1>7 DEF BlankKept

LEMMA RequestJob ==
  ASSUME OpKept, BlankKept, ReplyKept, OnceKept, tgOp.kind # "guest", NEW answer, AnswerTaken(answer)
  PROVE  tgJobs[1] \in JobType
<1>1. tgJobs # <<>> /\ tgResult = "" BY DEF AnswerTaken
<1>2. CASE tgOp.text = <<>> BY <1>2, BlankRequest
<1>3. CASE tgOp.text # <<>>
  <2>1. tgJobs \in Seq(JobType)
    <3>1. tgOp.kind \in Replies \cup Onces BY OpFacts
    <3>2. CASE tgOp.kind \in Replies BY <1>1, <1>3, <3>2 DEF ReplyKept, Runs
    <3>3. CASE tgOp.kind \in Onces BY <1>1, <3>3 DEF OnceKept, Runs
    <3> QED BY <3>1, <3>2, <3>3
  <2> QED BY <1>1, <2>1, FirstOf
<1> QED BY <1>2, <1>3

LEMMA GuestRequest ==
  ASSUME OpKept, GuestKept, tgOp.kind = "guest", NEW answer, AnswerTaken(answer)
  PROVE  GuestKept'
<1> DEFINE job == tgJobs[1]
           g == tgGuest
<1>1. /\ tgJobs # <<>> /\ tgResult = "" /\ answer \in Answers(job)
      /\ Answered(job, answer) /\ Acts(job, answer) /\ UNCHANGED tgOp
  BY DEF AnswerTaken
<1>2. /\ tgJobs \in Seq(InlineType) /\ Len(tgJobs) = 1 /\ g.pc \in {"final", "settled"}
      /\ job.shown.text \in AnswerWords \/ (g.pc = "settled" /\ job.shown.text = "noanswer")
      /\ g.pc = "settled" => ~g.delivered
      /\ g \in GuestType /\ (g.delivered => g.shown.text \in AnswerWords)
  BY <1>1 DEF GuestKept
<1>3. job \in InlineType BY <1>2
<1>4. job.do = "inline" /\ job.fail \in {"err", "cut"} /\ job.shown \in ShownType BY <1>3, InlineFacts
<1>5. Tail(tgJobs) = <<>> BY <1>2, OneTail
<1>6. tgGuest' \in GuestType /\ tgGuest'.pc = g.pc /\ tgGuest'.delivered = g.delivered
      /\ (tgGuest'.shown = g.shown \/ tgGuest'.shown = job.shown)
  <2>1. CASE NotActed BY <1>2, <2>1 DEF NotActed
  <2>2. CASE Acted(job)
    <3>1. tgGuest' = [g EXCEPT !.shown = job.shown] BY <1>4, <2>2 DEF Acted, Edits
    <3> HIDE DEF g, job
    <3> QED BY <1>2, <1>4, <3>1, GuestShown
  <2> QED BY <1>1, <2>1, <2>2 DEF Acts
<1>7. Through(job, answer) => tgGuest'.shown = job.shown
  <2> SUFFICES ASSUME Through(job, answer) PROVE tgGuest'.shown = job.shown OBVIOUS
  <2>1. answer # "noid" BY <1>1, <1>4 DEF Answers, Edits
  <2>2. answer \in {"ok", "same"} BY <2>1 DEF Through
  <2>3. CASE answer = "ok"
    <3>1. Acted(job) BY <1>1, <2>3 DEF Acts
    <3>2. tgGuest' = [g EXCEPT !.shown = job.shown] BY <1>4, <3>1 DEF Acted, Edits
    <3> HIDE DEF g, job
    <3> QED BY <1>2, <1>4, <3>2, GuestShown
  <2>4. CASE answer = "same"
    <3>1. g.shown = job.shown BY <1>1, <1>4, <2>4 DEF Answers, Edits
    <3> QED BY <1>6, <3>1
  <2> QED BY <2>2, <2>3, <2>4
<1>8. g.delivered => tgGuest'.shown.text \in AnswerWords BY <1>2, <1>6
<1> HIDE DEF job, g
<1>9. ~Nameless(job, answer) BY DEF Nameless
<1>10. CASE UNCHANGED <<tgJobs, tgResult>>
  BY <1>1, <1>2, <1>6, <1>8, <1>10 DEF GuestKept, job
<1>11. CASE Through(job, answer) /\ Continue(Tail(tgJobs))
  <2>1. tgJobs' = <<>> /\ tgResult' = "" BY <1>1, <1>5, <1>11 DEF Continue
  <2>2. tgGuest'.shown = job.shown BY <1>7, <1>11
  <2> QED BY <1>1, <1>2, <1>6, <1>8, <2>1, <2>2 DEF GuestKept
<1>12. CASE Failed(job, answer)
  <2>1. CASE job.fail = "err"
    <3>1. Finished("") BY <1>12, <2>1 DEF Failed
    <3>2. tgJobs' = <<>> /\ tgResult' = "" /\ ~tgTry'.won BY <3>1 DEF Finished, Fresh
    <3> QED BY <1>1, <1>2, <1>6, <1>8, <3>2 DEF GuestKept
  <2>2. CASE job.fail = "cut"
    <3> DEFINE x == [text |-> "cut", media |-> IF job.shown.media = 0 THEN 0 ELSE 1]
               k == AsCut(job, x)
    <3>1. Continue(<<k>>) BY <1>12, <2>2 DEF Failed, AsCut
    <3>2. x \in ShownType /\ x.text = "cut" BY DEF ShownType, Words
    <3> HIDE DEF x
    <3>3. k \in InlineType /\ k.shown = x BY ONLY <1>3, <3>2, InlineCut, Zenon
    <3> HIDE DEF k
    <3>4. <<k>> # <<>> /\ <<k>> \in Seq(InlineType) /\ Len(<<k>>) = 1 /\ <<k>>[1] = k BY <3>3
    <3>5. tgJobs' = <<k>> /\ tgResult' = "" BY <1>1, <3>1, <3>4 DEF Continue
    <3>6. tgJobs'[1].shown.text \in AnswerWords BY <3>2, <3>3, <3>4, <3>5 DEF AnswerWords
    <3>7. tgJobs' # <<>> /\ tgJobs' \in Seq(InlineType) /\ Len(tgJobs') = 1 BY <3>4, <3>5
    <3>8. tgGuest'.pc # "end" BY <1>2, <1>6
    <3> QED BY <1>1, <1>2, <1>6, <1>8, <3>6, <3>7, <3>8 DEF GuestKept
  <2> QED BY <1>4, <2>1, <2>2
<1> QED BY <1>1, <1>9, <1>10, <1>11, <1>12 DEF Answered

LEMMA GuestRequested ==
  ASSUME DeliveryKept, Request
  PROVE  GuestKept' /\ BlankKept'
<1>1. OpKept /\ GuestKept /\ BlankKept /\ ReplyKept /\ OnceKept BY DEF DeliveryKept
<1>2. PICK answer : AnswerTaken(answer) BY RequestIs
<1>3. UNCHANGED tgOp BY <1>2 DEF AnswerTaken
<1>4. BlankKept'
  <2>1. CASE tgOp.text = <<>> BY <1>1, <1>2, <2>1, BlankRequest
  <2>2. CASE tgOp.text # <<>> BY <1>3, <2>2 DEF BlankKept
  <2> QED BY <2>1, <2>2
<1>5. CASE tgOp.kind = "guest" BY <1>1, <1>2, <1>4, <1>5, GuestRequest
<1>6. CASE tgOp.kind # "guest"
  <2>1. tgJobs[1] \in JobType BY <1>1, <1>2, <1>6, RequestJob
  <2>2. Acts(tgJobs[1], answer) BY <1>2 DEF AnswerTaken
  <2>3. tgGuest' = tgGuest BY <2>1, <2>2, ActsFacts
  <2> QED BY <1>1, <1>3, <1>4, <1>6, <2>3 DEF GuestKept
<1> QED BY <1>5, <1>6

-----------------------------------------------------------------------------
(* The guest sink's own steps                                                  *)

\* Only a guest turn leaves the idle stage.
LEMMA GuestOnly == ASSUME GuestKept, tgGuest.pc # "" PROVE tgOp.kind = "guest"
BY DEF GuestKept

\* A step of the guest turn that starts no request and reports no success.
LEMMA GuestStays ==
  ASSUME GuestKept, tgOp.kind = "guest", tgGuest.pc \notin {"final", "settled"}, UNCHANGED tgOp, UNCHANGED tgJobs,
         tgGuest' \in GuestType, tgGuest'.pc \in {"open", "turn", "end"},
         tgGuest'.pc = "open" => ~tgGuest'.delivered,
         tgGuest'.delivered => tgGuest'.shown.text \in AnswerWords,
         tgResult' # "ok"
  PROVE  GuestKept'
<1>1. tgJobs = <<>> BY DEF GuestKept
<1> QED BY <1>1 DEF GuestKept

LEMMA admitGuestKeeps == ASSUME GuestKept, admitGuest PROVE GuestKept'
<1> DEFINE g == tgGuest
<1>1. g.pc = "summons" /\ UNCHANGED tgOp /\ UNCHANGED tgJobs BY DEF admitGuest, GuestFrame
<1>2. tgOp.kind = "guest" BY <1>1, GuestOnly
<1>3. g \in GuestType /\ ~g.delivered BY <1>1, <1>2 DEF GuestKept
<1>4. CASE tgGuest' = [g EXCEPT !.pc = "open"] /\ UNCHANGED tgResult
  <2>1. "open" \in Stages BY DEF Stages
  <2> HIDE DEF g
  <2>2. tgGuest' \in GuestType /\ tgGuest'.pc = "open" /\ tgGuest'.delivered = g.delivered BY <1>3, <1>4, <2>1, GuestMoved
  <2>3. tgJobs = <<>> BY <1>1, <1>2 DEF GuestKept, g
  <2> QED BY <1>1, <1>2, <1>3, <2>2, <2>3 DEF GuestKept
<1>5. CASE \E s \in {"", "refusal"} : tgGuest' = [g EXCEPT !.pc = "end", !.shown.text = s] /\ tgResult' = "err"
  <2>1. {"", "refusal"} \subseteq Words BY DEF Words
  <2>2. PICK s \in Words : tgGuest' = Showing(g, "end", s) BY <1>5, <2>1, Zenon DEF Showing
  <2>4. tgResult' = "err" BY <1>5
  <2>5. g \in GuestType BY <1>3
  <2>6. "end" \in Stages BY DEF Stages
  <2> HIDE DEF g
  <2>3. tgGuest' \in GuestType /\ tgGuest'.pc = "end" /\ tgGuest'.delivered = g.delivered BY ONLY <2>2, <2>5, <2>6, GuestSet
  <2> QED BY <1>1, <1>2, <1>3, <2>3, <2>4, GuestStays DEF g
<1> QED BY <1>4, <1>5 DEF admitGuest

LEMMA openKeeps == ASSUME GuestKept, open PROVE GuestKept'
<1> DEFINE g == tgGuest
<1>1. g.pc = "open" /\ UNCHANGED tgOp /\ UNCHANGED tgJobs /\ UNCHANGED tgTry BY DEF open, GuestFrame
<1>2. tgOp.kind = "guest" BY <1>1, GuestOnly
<1>3. g \in GuestType /\ ~g.delivered /\ tgJobs = <<>> BY <1>1, <1>2 DEF GuestKept
<1>4. {"turn", "end"} \subseteq Stages /\ {"", "placeholder"} \subseteq Words BY DEF Stages, Words
<1>5. PICK pc \in Stages, s \in Words :
        tgGuest' = Showing(g, pc, s) /\ pc \in {"turn", "end"} /\ (pc = "end" => tgResult' = "err")
  <2>1. CASE tgGuest' = [g EXCEPT !.pc = "turn", !.shown.text = "placeholder"] BY <1>4, <2>1, Zenon DEF Showing
  <2>2. CASE \E s \in {"", "placeholder"} : tgGuest' = [g EXCEPT !.pc = "end", !.shown.text = s] /\ tgResult' = "err"
    BY <1>4, <2>2, Zenon DEF Showing
  <2> QED BY <2>1, <2>2, Zenon DEF open
<1>7. g \in GuestType BY <1>3
<1> HIDE DEF g
<1>6. tgGuest' \in GuestType /\ tgGuest'.pc = pc /\ tgGuest'.delivered = g.delivered
  <2>1. tgGuest' = Showing(g, pc, s) BY <1>5
  <2> QED BY ONLY <1>7, <2>1, GuestSet
<1> QED BY <1>1, <1>2, <1>3, <1>5, <1>6 DEF GuestKept

LEMMA SendTextDeltaKeeps == ASSUME GuestKept, SendTextDelta PROVE GuestKept'
<1> DEFINE g == tgGuest
<1>1. g.pc = "turn" /\ tgJobs = <<>> /\ UNCHANGED tgOp /\ UNCHANGED tgJobs BY DEF SendTextDelta, GuestFrame
<1>2. tgOp.kind = "guest" BY <1>1, GuestOnly
<1>3. g \in GuestType /\ (g.delivered => g.shown.text \in AnswerWords) BY <1>1, <1>2 DEF GuestKept
<1>4. PICK s \in {g.shown.text} \cup (IF g.delivered THEN {} ELSE {"partial"}) :
        tgGuest' = Drafting(g, s)
  BY Zenon DEF SendTextDelta, Drafting
<1>5. s \in Words /\ (g.delivered => s = g.shown.text)
  <2>1. g.shown.text \in Words BY <1>3, GuestFacts
  <2> QED BY <1>4, <2>1 DEF Words
<1> HIDE DEF g
<1>6. tgGuest' \in GuestType /\ tgGuest'.pc = g.pc /\ tgGuest'.shown.text = s /\ tgGuest'.delivered = g.delivered
  BY ONLY <1>3, <1>4, <1>5, GuestDrafted
<1> QED BY <1>1, <1>2, <1>3, <1>5, <1>6 DEF GuestKept

LEMMA SendAttachmentKeeps == ASSUME GuestKept, SendAttachment PROVE GuestKept'
<1> DEFINE g == tgGuest
<1>1. g.pc = "turn" /\ tgJobs = <<>> /\ ~g.delivered /\ UNCHANGED tgOp /\ UNCHANGED tgJobs BY DEF SendAttachment, GuestFrame
<1>2. tgOp.kind = "guest" BY <1>1, GuestOnly
<1>3. g \in GuestType BY DEF GuestKept
<1>4. tgGuest' \in {[g EXCEPT !.media = @ + 1, !.staged = @ + 1], [g EXCEPT !.staged = @ + 1]}
  BY DEF SendAttachment, UploadForInline
<1> HIDE DEF g
<1>5. tgGuest' \in GuestType /\ tgGuest'.pc = g.pc /\ tgGuest'.shown = g.shown /\ tgGuest'.delivered = g.delivered
  BY <1>3, <1>4, GuestStaged
<1> QED BY <1>1, <1>2, <1>5 DEF GuestKept

LEMMA SendFinalTextKeeps == ASSUME OpKept, GuestKept, SendFinalText PROVE GuestKept'
<1> DEFINE g == tgGuest
           js == tgJobs'
<1>1. /\ g.pc = "turn" /\ tgJobs = <<>> /\ UNCHANGED tgOp /\ tgGuest' = [g EXCEPT !.pc = "final"]
      /\ js = FinalizeInlineWithMedia("final", g.media)
  BY DEF SendFinalText, GuestFrame
<1>2. tgOp.kind = "guest" BY <1>1, GuestOnly
<1>3. g \in GuestType /\ (g.delivered => g.shown.text \in AnswerWords) BY <1>1, <1>2 DEF GuestKept
<1>4. g.media \in Nat /\ "final" \in Words /\ "final" \in Stages BY <1>3, GuestFacts DEF Words, Stages
<1> HIDE DEF js, g
<1>5. js \in Seq(InlineType) /\ Len(js) = 1 /\ js # <<>> /\ js[1].shown.text = "final" BY <1>1, <1>4, FinalizeInlineIs
<1>6. tgGuest' \in GuestType /\ tgGuest'.pc = "final" /\ tgGuest'.shown = g.shown /\ tgGuest'.delivered = g.delivered
  BY <1>1, <1>3, <1>4, GuestMoved
<1>7. js[1].shown.text \in AnswerWords BY <1>5 DEF AnswerWords
<1> QED BY <1>1, <1>2, <1>3, <1>5, <1>6, <1>7 DEF GuestKept, js

LEMMA FinalWrittenKeeps == ASSUME GuestKept, FinalWritten PROVE GuestKept'
<1> DEFINE g == tgGuest
           won == tgTry.won
           d == g.delivered \/ won
<1>1. /\ g.pc = "final" /\ tgJobs = <<>> /\ UNCHANGED tgOp /\ UNCHANGED tgJobs
      /\ tgGuest' = Writing(g, d)
  BY DEF FinalWritten, GuestFrame, Writing
<1>2. tgOp.kind = "guest" BY <1>1, GuestOnly
<1>3. g \in GuestType /\ (g.delivered => g.shown.text \in AnswerWords) /\ (won => g.shown.text \in AnswerWords)
  BY <1>1, <1>2 DEF GuestKept
<1>5. d \in BOOLEAN /\ (d <=> g.delivered \/ won) OBVIOUS
<1> HIDE DEF g, won, d
<1>6. tgGuest' \in GuestType /\ tgGuest'.pc = "turn" /\ tgGuest'.shown = g.shown /\ tgGuest'.delivered = d
  BY ONLY <1>1, <1>3, <1>5, GuestWritten
<1>4. tgGuest' \in GuestType /\ tgGuest'.pc = "turn" /\ tgGuest'.shown = g.shown /\ (tgGuest'.delivered <=> g.delivered \/ won)
  BY <1>5, <1>6
<1> QED BY <1>1, <1>2, <1>3, <1>4 DEF GuestKept

LEMMA settleKeeps == ASSUME OpKept, GuestKept, settle PROVE GuestKept'
<1> DEFINE g == tgGuest
           js == tgJobs'
           text == IF g.buf = "" /\ g.media = 0 THEN "noanswer" ELSE "final"
<1>1. /\ g.pc = "turn" /\ tgJobs = <<>> /\ UNCHANGED tgOp /\ UNCHANGED tgTry /\ tgGuest' = [g EXCEPT !.pc = "settled"]
      /\ js = IF g.delivered THEN <<>> ELSE FinalizeInlineWithMedia(text, g.media)
  BY DEF settle, GuestFrame
<1>2. tgOp.kind = "guest" BY <1>1, GuestOnly
<1>3. g \in GuestType /\ (g.delivered => g.shown.text \in AnswerWords) BY <1>1, <1>2 DEF GuestKept
<1>4. g.media \in Nat /\ text \in Words /\ "settled" \in Stages BY <1>3, GuestFacts DEF Words, Stages
<1>5. text \in AnswerWords \cup {"noanswer"} BY DEF AnswerWords
<1> HIDE DEF js, g, text
<1>6. tgGuest' \in GuestType /\ tgGuest'.pc = "settled" /\ tgGuest'.shown = g.shown /\ tgGuest'.delivered = g.delivered
  BY <1>1, <1>3, <1>4, GuestMoved
<1>7. CASE g.delivered
  <2>1. js = <<>> BY <1>1, <1>7
  <2> QED BY <1>1, <1>2, <1>3, <1>6, <1>7, <2>1 DEF GuestKept, js
<1>8. CASE ~g.delivered
  <2>1. js = FinalizeInlineWithMedia(text, g.media) BY <1>1, <1>8
  <2>2. js \in Seq(InlineType) /\ Len(js) = 1 /\ js # <<>> /\ js[1].shown.text = text BY <1>4, <2>1, FinalizeInlineIs
  <2> QED BY <1>1, <1>2, <1>5, <1>6, <1>8, <2>2 DEF GuestKept, js
<1> QED BY <1>7, <1>8

LEMMA CleanUpKeeps == ASSUME GuestKept, CleanUp PROVE GuestKept'
<1> DEFINE g == tgGuest
<1>1. g.pc = "settled" /\ tgJobs = <<>> /\ UNCHANGED tgOp /\ UNCHANGED tgJobs /\ UNCHANGED tgTry BY DEF CleanUp, GuestFrame
<1>2. tgOp.kind = "guest" BY <1>1, GuestOnly
<1>3. g \in GuestType /\ (g.delivered => g.shown.text \in AnswerWords) /\ (tgTry.won => g.shown.text \in AnswerWords \cup {"noanswer"})
  BY <1>1, <1>2 DEF GuestKept
<1>4. PICK kept \in 0..g.staged : tgGuest' = [g EXCEPT !.pc = "end", !.staged = kept] BY DEF CleanUp
<1>5. kept \in Nat
  <2>1. g.staged \in Nat BY <1>3, GuestFacts
  <2> QED BY <1>4, <2>1
<1> HIDE DEF g
<1>6. tgGuest' \in GuestType /\ tgGuest'.pc = "end" /\ tgGuest'.shown = g.shown /\ tgGuest'.delivered = g.delivered
  BY <1>3, <1>4, <1>5, GuestLeft
<1> QED BY <1>1, <1>2, <1>3, <1>6 DEF GuestKept

GuestStep == \/ admitGuest \/ open \/ SendTextDelta \/ SendAttachment \/ SendFinalText \/ FinalWritten \/ settle \/ CleanUp

LEMMA GuestSteps == ASSUME DeliveryKept, GuestStep PROVE DeliveryKept'
<1>1. OpKept /\ BucketKept /\ GuestKept /\ BlankKept /\ ReplyKept /\ OnceKept BY DEF DeliveryKept
<1>2. GuestKept'
  BY <1>1, admitGuestKeeps, openKeeps, SendTextDeltaKeeps, SendAttachmentKeeps, SendFinalTextKeeps, FinalWrittenKeeps,
     settleKeeps, CleanUpKeeps DEF GuestStep
<1>3. tgGuest.pc # "" /\ UNCHANGED tgOp /\ UNCHANGED tgBucket
  BY DEF GuestStep, admitGuest, open, SendTextDelta, SendAttachment, SendFinalText, FinalWritten, settle, CleanUp, GuestFrame
<1>4. tgOp.kind = "guest" BY <1>1, <1>3, GuestOnly
<1>5. tgOp.text # <<>> BY <1>1, <1>4 DEF OpKept, Replies
<1>6. OpKept' /\ BlankKept' /\ BucketKept' BY <1>1, <1>3, <1>5 DEF OpKept, BlankKept, BucketKept, BulkSpares
<1>7. ReplyKept' /\ OnceKept' BY <1>3, <1>4 DEF ReplyKept, OnceKept, Replies, Onces
<1> QED BY <1>2, <1>6, <1>7 DEF DeliveryKept

-----------------------------------------------------------------------------
(* The allowance                                                               *)

LEMMA BucketFacts ==
  ASSUME NEW b \in BucketType
  PROVE  b.tokens \in 0..SendBurst /\ b.paused \in BOOLEAN /\ b.talked \in BOOLEAN
BY DEF BucketType

\* The updates of the allowance.
Drawn(b, n, t) == [b EXCEPT !.tokens = n, !.talked = t]
Pausing(b, p) == [b EXCEPT !.paused = p]

LEMMA BucketHeld ==
  ASSUME NEW b \in BucketType, NEW p \in BOOLEAN, NEW c, c = Pausing(b, p)
  PROVE  c \in BucketType /\ c.tokens = b.tokens /\ c.talked = b.talked
BY DEF BucketType, Pausing

LEMMA BucketLess ==
  ASSUME NEW b \in BucketType, NEW n \in 0..SendBurst, NEW t \in BOOLEAN, NEW c, c = Drawn(b, n, t)
  PROVE  c \in BucketType /\ c.tokens = n /\ c.talked = t
BY DEF BucketType, Drawn

LEMMA BucketSet ==
  ASSUME NEW b \in BucketType, NEW n \in 0..SendBurst, NEW t \in BOOLEAN, NEW p \in BOOLEAN,
         NEW c, c = Pausing(Drawn(b, n, t), p)
  PROVE  c \in BucketType /\ c.tokens = n /\ c.talked = t
<1>1. PICK d : d = Drawn(b, n, t) OBVIOUS
<1>2. d \in BucketType /\ d.tokens = n /\ d.talked = t BY ONLY b \in BucketType, n \in 0..SendBurst, t \in BOOLEAN, <1>1, BucketLess
<1>3. c = Pausing(d, p) BY <1>1
<1> QED BY ONLY <1>2, <1>3, p \in BOOLEAN, BucketHeld

LEMMA RefillKeeps == ASSUME BucketKept, Refill PROVE BucketKept'
<1> DEFINE b == tgBucket
           n == IF b.tokens < SendBurst THEN b.tokens + 1 ELSE b.tokens
           t == b.talked /\ b.tokens + 1 < SendBurst
<1>1. b \in BucketType /\ (b.tokens < BulkReserve => b.talked) BY DEF BucketKept, BulkSpares
<1>2. b.tokens \in 0..SendBurst /\ b.paused \in BOOLEAN /\ b.talked \in BOOLEAN BY <1>1, BucketFacts
<1>3. SendBurst \in Nat /\ BulkReserve \in Nat /\ BulkReserve < SendBurst BY DeliveryConstants
<1>4. n \in 0..SendBurst /\ t \in BOOLEAN BY <1>2, <1>3
<1>5. n < BulkReserve => t BY <1>1, <1>2, <1>3
<1>6. PICK p \in {FALSE, b.paused} : b' = Pausing(Drawn(b, n, t), p)
  BY Zenon DEF Refill, Refilled, Drawn, Pausing
<1>7. p \in BOOLEAN BY <1>2
<1>8. PICK c : c = b' OBVIOUS
<1> HIDE DEF n, t, b
<1>9. c \in BucketType /\ c.tokens = n /\ c.talked = t BY ONLY <1>1, <1>4, <1>6, <1>7, <1>8, BucketSet
<1> QED BY <1>5, <1>8, <1>9 DEF BucketKept, BulkSpares, b

LEMMA BulkSendKeeps == ASSUME BucketKept, BulkSend PROVE BucketKept'
<1> DEFINE b == tgBucket
           n == b.tokens - 1
           t == b.talked
<1>1. b \in BucketType /\ (b.tokens < BulkReserve => b.talked) BY DEF BucketKept, BulkSpares
<1>2. b.tokens \in 0..SendBurst /\ b.talked \in BOOLEAN BY <1>1, BucketFacts
<1>3. SendBurst \in Nat /\ BulkReserve \in Nat /\ BulkReserve < SendBurst BY DeliveryConstants
<1>4. b.tokens >= BulkReserve + 1 BY DEF BulkSend, MayTake
<1>5. n \in 0..SendBurst /\ ~(n < BulkReserve) BY <1>2, <1>3, <1>4
<1>10. (b.talked \/ ~TRUE) = t BY <1>2
<1>11. b' = [b EXCEPT !.tokens = n, !.talked = b.talked \/ ~TRUE] BY Zenon DEF BulkSend, Taken
<1>6. b' = Drawn(b, n, t) BY <1>10, <1>11 DEF Drawn
<1>7. PICK c : c = b' OBVIOUS
<1> HIDE DEF n, t, b
<1>8. t \in BOOLEAN BY <1>2 DEF t
<1>9. c \in BucketType /\ c.tokens = n /\ c.talked = t BY ONLY <1>1, <1>5, <1>6, <1>7, <1>8, BucketLess
<1> QED BY <1>5, <1>7, <1>9 DEF BucketKept, BulkSpares, b

LEMMA RequestTakes == ASSUME BucketKept, Request PROVE BucketKept'
<1> DEFINE b == tgBucket
           n == b.tokens - 1
           t == TRUE
<1>1. b \in BucketType BY DEF BucketKept
<1>2. b.tokens \in 0..SendBurst /\ b.paused \in BOOLEAN /\ b.talked \in BOOLEAN BY <1>1, BucketFacts
<1>3. SendBurst \in Nat BY DeliveryConstants
<1>4. b.tokens >= 1 BY DEF Request, MayTake
<1>5. n \in 0..SendBurst BY <1>2, <1>3, <1>4
<1>6. PICK job, answer : b' = [Taken(FALSE) EXCEPT !.paused = @ \/ Pauses(job, answer)] BY Zenon DEF Request
<1>7. PICK p \in BOOLEAN : p = (Taken(FALSE).paused \/ Pauses(job, answer)) OBVIOUS
<1>8. Taken(FALSE) = Drawn(b, n, t)
  <2>1. (b.talked \/ ~FALSE) = t BY <1>2
  <2>2. Taken(FALSE) = [b EXCEPT !.tokens = n, !.talked = b.talked \/ ~FALSE] BY Zenon DEF Taken
  <2> QED BY <2>1, <2>2 DEF Drawn
<1>9. b' = Pausing(Drawn(b, n, t), p)
  <2>1. b' = [Taken(FALSE) EXCEPT !.paused = Taken(FALSE).paused \/ Pauses(job, answer)] BY <1>6, Zenon
  <2>2. b' = [Taken(FALSE) EXCEPT !.paused = p] BY ONLY <2>1, <1>7
  <2> QED BY ONLY <2>2, <1>8 DEF Pausing
<1>10. PICK c : c = b' OBVIOUS
<1>11. t \in BOOLEAN OBVIOUS
<1>12. t OBVIOUS
<1> HIDE DEF n, t, b
<1>13. PICK d : d = Drawn(b, n, t) OBVIOUS
<1>14. c = Pausing(d, p) BY <1>9, <1>10, <1>13
<1>15. d \in BucketType /\ d.tokens = n /\ d.talked = t BY ONLY <1>1, <1>5, <1>11, <1>13, BucketLess
<1>16. d \in BucketType /\ p \in BOOLEAN BY <1>7, <1>15
<1>17. c \in BucketType /\ c.talked = d.talked BY ONLY <1>14, <1>16, BucketHeld
<1> QED BY <1>10, <1>12, <1>15, <1>17 DEF BucketKept, BulkSpares, b

-----------------------------------------------------------------------------
(* The invariant and the theorem                                               *)

LEMMA InitKept == ASSUME DeliveryInit PROVE DeliveryKept
BY InitOp, InitGuest, InitBlank, InitReply, InitOnce DEF DeliveryKept

LEMMA RequestKeeps == ASSUME DeliveryKept, Request PROVE DeliveryKept'
<1>1. OpKept /\ BucketKept /\ ReplyKept /\ OnceKept BY DEF DeliveryKept
<1>2. PICK answer : AnswerTaken(answer) BY RequestIs
<1>3. UNCHANGED tgOp BY <1>2 DEF AnswerTaken
<1>4. OpKept' BY <1>1, <1>3 DEF OpKept
<1>5. GuestKept' /\ BlankKept' BY GuestRequested
<1>6. BucketKept' BY <1>1, RequestTakes
<1>7. ReplyKept'
  <2>1. CASE tgOp.kind \in Replies /\ tgOp.text # <<>> BY <1>1, <1>2, <2>1, ReplyRequest
  <2>2. CASE ~(tgOp.kind \in Replies /\ tgOp.text # <<>>) BY <1>3, <2>2 DEF ReplyKept
  <2> QED BY <2>1, <2>2
<1>8. OnceKept'
  <2>1. CASE tgOp.kind \in Onces BY <1>1, <1>2, <2>1, OnceRequest
  <2>2. CASE tgOp.kind \notin Onces BY <1>3, <2>2 DEF OnceKept
  <2> QED BY <2>1, <2>2
<1> QED BY <1>4, <1>5, <1>6, <1>7, <1>8 DEF DeliveryKept

LEMMA UnroutedKeeps == ASSUME DeliveryKept, Unrouted PROVE DeliveryKept'
<1>1. OpKept /\ BucketKept /\ GuestKept BY DEF DeliveryKept
<1>2. tgOp.kind # "guest" /\ tgChat = <<>> /\ UNCHANGED <<tgOp, tgChat, tgGuest, tgBucket>> BY DEF Unrouted
<1>3. tgJobs' = <<>> /\ tgResult' \in {"err", "notsent"} BY DEF Unrouted, Finished
<1>4. OpKept' /\ BucketKept' BY <1>1, <1>2 DEF OpKept, BucketKept, BulkSpares
<1>5. GuestKept' BY <1>1, <1>2 DEF GuestKept
<1>6. BlankKept' BY <1>3 DEF BlankKept
<1>7. ReplyKept' BY <1>3, ReplyEnds
<1>8. OnceKept' BY <1>2, <1>3, OnceEnds
<1> QED BY <1>4, <1>5, <1>6, <1>7, <1>8 DEF DeliveryKept

\* A step that leaves the delivery itself alone.
LEMMA DeliveryUntouched ==
  ASSUME DeliveryKept, UNCHANGED <<tgOp, tgJobs, tgTry, tgChat, tgResult, tgGuest>>, BucketKept'
  PROVE  DeliveryKept'
<1>1. OpKept' BY DEF DeliveryKept, OpKept
<1>2. GuestKept' BY DEF DeliveryKept, GuestKept
<1>3. BlankKept' BY DEF DeliveryKept, BlankKept, Whole
<1>4. TextLen' = TextLen BY DEF TextLen
<1>5. ReplyKept' BY <1>4 DEF DeliveryKept, ReplyKept
<1>6. OnceKept' BY <1>4 DEF DeliveryKept, OnceKept
<1> QED BY <1>1, <1>2, <1>3, <1>5, <1>6 DEF DeliveryKept

LEMMA DeliveryStep == ASSUME DeliveryKept, [DeliveryNext]_deliveryVars PROVE DeliveryKept'
<1>1. BucketKept BY DEF DeliveryKept
<1>2. CASE Unrouted BY <1>2, UnroutedKeeps
<1>3. CASE Request BY <1>3, RequestKeeps
<1>4. CASE Refill
  <2>1. UNCHANGED <<tgOp, tgJobs, tgTry, tgChat, tgResult, tgGuest>> BY <1>4 DEF Refill
  <2> QED BY <1>1, <1>4, <2>1, RefillKeeps, DeliveryUntouched
<1>5. CASE BulkSend
  <2>1. UNCHANGED <<tgOp, tgJobs, tgTry, tgChat, tgResult, tgGuest>> BY <1>5 DEF BulkSend
  <2> QED BY <1>1, <1>5, <2>1, BulkSendKeeps, DeliveryUntouched
<1>6. CASE GuestStep BY <1>6, GuestSteps
<1>7. CASE UNCHANGED deliveryVars
  <2>1. BucketKept' BY <1>1, <1>7 DEF deliveryVars, BucketKept, BulkSpares
  <2> QED BY <1>7, <2>1, DeliveryUntouched DEF deliveryVars
<1> QED BY <1>2, <1>3, <1>4, <1>5, <1>6, <1>7 DEF DeliveryNext, GuestStep

LEMMA KeptSplits == ASSUME OpKept PROVE SplitIsExact
<1> SUFFICES ASSUME NEW cap \in {PlainCap, RichCap}, NEW ps, ps = splitMessage(tgOp.text, 1, Len(tgOp.text), cap)
             PROVE  /\ \A i \in 1..Len(ps) : ps[i][1] <= ps[i][2] /\ ps[i][2] - ps[i][1] < cap
                    /\ \A i \in 1..Len(ps) : ps[i][1] = IF i = 1 THEN 1 ELSE ps[i - 1][2] + 1
                    /\ IF ps = <<>> THEN tgOp.text = <<>> ELSE ps[Len(ps)][2] = Len(tgOp.text)
  BY Zenon DEF SplitIsExact
<1> DEFINE n == Len(tgOp.text)
<1>1. n \in Nat /\ (tgOp.text # <<>> => n # 0) BY OpFacts DEF TextLen
<1>2. cap \in Nat /\ cap > 0 BY Caps
<1>3. ps = splitMessage(tgOp.text, 1, n, cap) OBVIOUS
<1> HIDE DEF n
<1>4. 1 \in Nat /\ 1 <= 1 /\ 1 <= n + 1 /\ (n # 0 => 1 <= n) BY <1>1
<1>5. Split(ps, 1, n, cap) BY <1>1, <1>2, <1>3, <1>4, SplitMessageSplits
<1>6. \A i \in 1..Len(ps) : ps[i][1] <= ps[i][2] /\ ps[i][2] - ps[i][1] < cap BY <1>5 DEF Split
<1>7. \A i \in 1..Len(ps) : ps[i][1] = IF i = 1 THEN 1 ELSE ps[i - 1][2] + 1 BY <1>5 DEF Split
<1>8. (1 <= n => ps # <<>>) /\ (ps # <<>> => ps[Len(ps)][2] = n) BY <1>5 DEF Split
<1>9. IF ps = <<>> THEN tgOp.text = <<>> ELSE ps[Len(ps)][2] = n BY <1>1, <1>4, <1>8
<1> QED BY <1>6, <1>7, <1>9 DEF n

LEMMA KeptWhole == ASSUME OpKept, ReplyKept PROVE DeliveredWhole
<1> SUFFICES ASSUME tgResult = "ok", tgOp.kind \in Replies PROVE InOrder /\ \A k \in 1..Len(tgOp.text) : Readable(k)
  BY DEF DeliveredWhole, Replies
<1> DEFINE N == TextLen
<1>1. N \in Nat /\ (tgOp.text = <<>> => N = 0) BY OpFacts
<1>2. Told(tgChat, N) \/ N = 0
  <2>1. CASE tgOp.text = <<>> BY <1>1, <2>1
  <2>2. CASE tgOp.text # <<>>
    <3>1. PICK p \in Nat, lo \in Nat : Told(tgChat, p) /\ lo <= p + 1 /\ Runs(tgJobs, lo, N) BY <2>2 DEF ReplyKept
    <3>2. tgJobs = <<>> BY <2>2 DEF ReplyKept
    <3>3. lo = N + 1 BY <3>1, <3>2 DEF Runs
    <3> HIDE DEF N
    <3>4. N <= p BY <1>1, <3>1, <3>3
    <3> QED BY <1>1, <3>1, <3>4, ToldLess
  <2> QED BY <2>1, <2>2
<1>3. CASE Told(tgChat, N) BY <1>1, <1>3, ToldIsRead
<1>4. CASE N = 0
  <2>1. Len(tgOp.text) = 0 BY <1>4 DEF TextLen
  <2>2. 1..Len(tgOp.text) = {} /\ 1..(Len(tgOp.text) - 1) = {} BY <2>1
  <2> QED BY <2>2 DEF InOrder
<1> QED BY <1>2, <1>3, <1>4

LEMMA KeptOnce == ASSUME OpKept, OnceKept PROVE NotSentIsAbsent
<1> SUFFICES ASSUME tgOp.kind \in Onces
             PROVE  /\ tgResult = "notsent" => tgChat = <<>>
                    /\ tgResult = "ok" => \A k \in 1..Len(tgOp.text) :
                            Cardinality({i \in 1..Len(tgChat) : tgChat[i][1] <= k /\ k <= tgChat[i][2]}) = 1
  BY DEF NotSentIsAbsent, Onces
<1>1. tgResult = "notsent" => tgChat = <<>> BY DEF OnceKept
<1>2. ASSUME tgResult = "ok", NEW k \in 1..Len(tgOp.text)
      PROVE  Cardinality({i \in 1..Len(tgChat) : tgChat[i][1] <= k /\ k <= tgChat[i][2]}) = 1
  <2> DEFINE N == TextLen
  <2>1. N \in Nat BY OpFacts
  <2>2. PICK p \in Nat : ToldOnce(tgChat, p) /\ Runs(tgJobs, p + 1, N) BY <1>2 DEF OnceKept
  <2>3. tgJobs = <<>> BY <1>2 DEF OnceKept
  <2>4. p + 1 = N + 1 BY <2>2, <2>3 DEF Runs
  <2>5. p = N BY <2>1, <2>4
  <2>6. k \in 1..p BY <1>2, <2>5 DEF TextLen
  <2> HIDE DEF N
  <2> QED BY <2>2, <2>6, OnceIsOne
<1> QED BY <1>1, <1>2

LEMMA KeptGuest == ASSUME GuestKept PROVE GuestAnswerKept
BY DEF GuestKept, GuestAnswerKept, AnswerWords

LEMMA KeptSound == ASSUME DeliveryKept PROVE DeliverySound
<1>1. SplitIsExact BY KeptSplits DEF DeliveryKept
<1>2. DeliveredWhole BY KeptWhole DEF DeliveryKept
<1>3. NotSentIsAbsent BY KeptOnce DEF DeliveryKept
<1>4. BulkSpares BY DEF DeliveryKept, BucketKept
<1>5. GuestAnswerKept BY KeptGuest DEF DeliveryKept
<1> QED BY <1>1, <1>2, <1>3, <1>4, <1>5 DEF DeliverySound

\* Whatever Telegram refuses, drops or answers too late, for every text and every
\* limit: no piece of a split text is lost or too long, a reply reported as
\* delivered is readable whole and in order, a send reported as not sent left
\* nothing and one reported as sent is there once, a mailing leaves the reserve of
\* the allowance alone, and a delivered guest answer is not replaced.
THEOREM DeliveryIsSound == DeliverySpec => []DeliverySound
<1>1. DeliveryInit => DeliveryKept BY InitKept
<1>2. DeliveryKept /\ [DeliveryNext]_deliveryVars => DeliveryKept' BY DeliveryStep
<1>3. DeliveryKept => DeliverySound BY KeptSound
<1> QED BY <1>1, <1>2, <1>3, PTL DEF DeliverySpec
=============================================================================
