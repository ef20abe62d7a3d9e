----------------------------- MODULE SmppProofs -----------------------------
(***************************************************************************)
(* Theorems about Smpp for every range of sequence numbers and however many  *)
(* PDUs the SMSC sends out of turn.                                         *)
(***************************************************************************)
EXTENDS Smpp, TLAPS

Commands == Stages \cup {"nack", "enquire", "deliver", "other", "garbage"}
Pdus     == [cmd : Commands, resp : BOOLEAN, ok : BOOLEAN, seq : Int]

\* A submit_sm, and a response that request() would take for the answer to it.
IsSubmit(pdu)     == ~pdu.resp /\ pdu.cmd = "submit"
IsSubmitResp(pdu) == pdu.resp /\ pdu.cmd = "submit" /\ pdu.seq = SubmitSequence

\* TypeOK, with the connection and what the SMSC keeps.
Types ==
    /\ TypeOK
    /\ toSmsc \in Seq(Pdus) /\ toSender \in Seq(Pdus)
    /\ verdict \in {None, "ok", "refused"}
    /\ submits \in {0, 1}
    /\ pdus \in Nat

\* The requests of a session have the first sequence numbers, in order.
Numbered ==
    /\ stage = "start" => sequence = 0
    /\ stage = "bind" => sequence = NextSequence(0)
    /\ stage = "submit" => sequence = SubmitSequence

\* One submit_sm is sent, after the bind: it is on its way, or it was judged.
SentOnce ==
    /\ \A k \in DOMAIN toSmsc : IsSubmit(toSmsc[k]) =>
          /\ toSmsc[k].seq = SubmitSequence
          /\ submits = 0
          /\ stage \notin {"start", "bind"}
          /\ \A j \in DOMAIN toSmsc : IsSubmit(toSmsc[j]) => j = k
    /\ stage \in {"start", "bind"} => submits = 0

\* A response that answers the submit_sm carries the SMSC's verdict on it.
RespIsVerdict ==
    \A k \in DOMAIN toSender : IsSubmitResp(toSender[k]) =>
        submits = 1 /\ verdict = (IF toSender[k].ok THEN "ok" ELSE "refused")

\* What the sender heard, and what it makes of it at each stage.
HeardRight ==
    /\ heard # None => heard = verdict /\ submits = 1 /\ stage \in {"unbind", "audit", "end"}
    /\ stage # "end" => result = None
    /\ stage = "audit" => heard = "ok"
    /\ heard = "ok" => result # "failed"
    /\ result = "accepted" => heard = "ok"

SessionInv == Types /\ Numbered /\ SentOnce /\ RespIsVerdict /\ HeardRight

-----------------------------------------------------------------------------
(* The queues.                                                               *)

\* What is left of a queue whose first PDU was taken.
LEMMA TailOf ==
    ASSUME NEW S, NEW s \in Seq(S), s # <<>>
    PROVE  /\ 1 \in DOMAIN s /\ Head(s) = s[1] /\ Head(s) \in S
           /\ Tail(s) \in Seq(S)
           /\ \A k \in DOMAIN Tail(s) : k \in Nat \ {0} /\ k + 1 \in DOMAIN s /\ Tail(s)[k] = s[k + 1]
<1>1. Len(s) \in Nat /\ Len(s) > 0 /\ DOMAIN s = 1 .. Len(s)
  OBVIOUS
<1>2. Len(Tail(s)) = Len(s) - 1 /\ Tail(s) \in Seq(S)
  BY <1>1
<1>3. DOMAIN Tail(s) = 1 .. (Len(s) - 1)
  BY <1>1, <1>2
<1>. QED
  BY <1>1, <1>2, <1>3

\* The PDUs of a queue that one was added to.
LEMMA AppendTo ==
    ASSUME NEW S, NEW s \in Seq(S), NEW e \in S
    PROVE  /\ Append(s, e) \in Seq(S)
           /\ \A k \in DOMAIN Append(s, e) :
                 \/ k \in DOMAIN s /\ Append(s, e)[k] = s[k]
                 \/ k = Len(s) + 1 /\ Append(s, e)[k] = e
<1>1. DOMAIN Append(s, e) = 1 .. (Len(s) + 1) /\ DOMAIN s = 1 .. Len(s) /\ Len(s) \in Nat
  OBVIOUS
<1>. QED
  BY <1>1

\* next_sequence stays within the numbers that SMPP allows.
LEMMA SequenceInRange == \A n \in Nat : NextSequence(n) \in 1 .. MAX_SEQUENCE
BY SmppAssumption DEF NextSequence

\* A request has a command and a sequence number that SMPP allows.
LEMMA RequestOK ==
    ASSUME NEW cmd \in Stages, NEW n \in 0 .. MAX_SEQUENCE
    PROVE  /\ Pdu(cmd, FALSE, TRUE, NextSequence(n)) \in Pdus
           /\ NextSequence(n) \in 1 .. MAX_SEQUENCE
<1>1. n \in Nat
  BY SmppAssumption
<1>2. NextSequence(n) \in 1 .. MAX_SEQUENCE
  BY <1>1, SequenceInRange
<1>3. NextSequence(n) \in Int
  BY <1>2, SmppAssumption
<1>4. cmd \in Commands
  BY DEF Commands
<1>. QED
  BY <1>2, <1>3, <1>4 DEF Pdu, Pdus

\* The PDUs that the two sides send are PDUs.
LEMMA PduOK ==
    /\ \A cmd \in Commands, resp \in BOOLEAN, ok \in BOOLEAN, seq \in Int :
          Pdu(cmd, resp, ok, seq) \in Pdus
    /\ \A pdu \in Pdus : Answer(pdu) \in Pdus /\ ~IsSubmit(Answer(pdu))
BY DEF Pdu, Pdus, Answer, Commands, Stages, IsSubmit

\* Settle ends the wait with the outcome of the submit_sm, or fails the send.
LEMMA SettleKeeps ==
    ASSUME SessionInv, stage \in Stages, Settle, UNCHANGED <<heard, verdict, submits>>
    PROVE  HeardRight' /\ stage' \in {"audit", "end"} /\ result' \in {None, "failed"}
BY NoneAssumption DEF SessionInv, Types, TypeOK, HeardRight, Settle, Stages

\* What the sender puts on the connection besides its submit_sm, and what is taken
\* off it, adds no submit_sm.
LEMMA SentOnceKept ==
    ASSUME SessionInv, submits' = submits,
           stage' \in {"start", "bind"} => stage' = stage,
           \/ toSmsc' = toSmsc
           \/ toSmsc # <<>> /\ toSmsc' = Tail(toSmsc)
           \/ \E pdu \in Pdus : ~IsSubmit(pdu) /\ toSmsc' = Append(toSmsc, pdu)
    PROVE  SentOnce' /\ toSmsc' \in Seq(Pdus)
<1>0. toSmsc \in Seq(Pdus) /\ SentOnce
  BY DEF SessionInv, Types
<1>1. CASE toSmsc' = toSmsc
  BY <1>0, <1>1 DEF SentOnce, IsSubmit, SubmitSequence, NextSequence
<1>2. CASE toSmsc # <<>> /\ toSmsc' = Tail(toSmsc)
  BY <1>0, <1>2, TailOf DEF SentOnce, IsSubmit, SubmitSequence, NextSequence
<1>3. ASSUME NEW pdu \in Pdus, ~IsSubmit(pdu), toSmsc' = Append(toSmsc, pdu)
      PROVE  SentOnce' /\ toSmsc' \in Seq(Pdus)
  <2>1. \A k \in DOMAIN toSmsc' : IsSubmit(toSmsc'[k]) => k \in DOMAIN toSmsc /\ toSmsc'[k] = toSmsc[k]
    BY <1>0, <1>3, AppendTo
  <2>2. toSmsc' \in Seq(Pdus)
    BY <1>0, <1>3, AppendTo
  <2>. QED
    BY <1>0, <2>1, <2>2 DEF SentOnce, IsSubmit, SubmitSequence, NextSequence
<1>. QED
  BY <1>1, <1>2, <1>3

\* A response to the submit_sm keeps saying what the SMSC decided while nothing is
\* added but PDUs that are no such response.
LEMMA RespIsVerdictKept ==
    ASSUME SessionInv, UNCHANGED <<submits, verdict>>,
           \/ toSender' = toSender
           \/ toSender # <<>> /\ toSender' = Tail(toSender)
           \/ \E pdu \in Pdus : ~IsSubmitResp(pdu) /\ toSender' = Append(toSender, pdu)
    PROVE  RespIsVerdict' /\ toSender' \in Seq(Pdus)
<1>0. toSender \in Seq(Pdus) /\ RespIsVerdict
  BY DEF SessionInv, Types
<1>1. CASE toSender' = toSender
  BY <1>0, <1>1 DEF RespIsVerdict, IsSubmitResp, SubmitSequence, NextSequence
<1>2. CASE toSender # <<>> /\ toSender' = Tail(toSender)
  BY <1>0, <1>2, TailOf DEF RespIsVerdict, IsSubmitResp, SubmitSequence, NextSequence
<1>3. ASSUME NEW pdu \in Pdus, ~IsSubmitResp(pdu), toSender' = Append(toSender, pdu)
      PROVE  RespIsVerdict' /\ toSender' \in Seq(Pdus)
  <2>1. \A k \in DOMAIN toSender' : IsSubmitResp(toSender'[k]) =>
           k \in DOMAIN toSender /\ toSender'[k] = toSender[k]
    BY <1>0, <1>3, AppendTo
  <2>2. toSender' \in Seq(Pdus)
    BY <1>0, <1>3, AppendTo
  <2>. QED
    BY <1>0, <2>1, <2>2 DEF RespIsVerdict, IsSubmitResp, SubmitSequence, NextSequence
<1>. QED
  BY <1>1, <1>2, <1>3

\* A step that sends a request of the sender keeps the types.
LEMMA TypesAsked ==
    ASSUME SessionInv, stage' \in Stages, sequence' \in 1 .. MAX_SEQUENCE, late' = FALSE,
           heard' \in {heard, "ok", "refused"}, UNCHANGED <<result, open, verdict, submits, pdus>>,
           toSmsc' \in Seq(Pdus), toSender' \in Seq(Pdus)
    PROVE  Types'
<1>0. Types /\ TypeOK
  BY DEF SessionInv, Types
<1>1. stage' \in Stages \cup {"start", "audit", "end"}
  OBVIOUS
<1>2. sequence' \in 0 .. MAX_SEQUENCE /\ sequence' > 0
  BY SmppAssumption
<1>3. late' \in BOOLEAN /\ open' \in BOOLEAN
  BY <1>0 DEF TypeOK
<1>4. /\ heard' \in {None, "ok", "refused"} /\ verdict' \in {None, "ok", "refused"}
      /\ result' \in {None, "accepted", "failed", "error"}
      /\ submits' \in {0, 1} /\ pdus' \in Nat
  BY <1>0 DEF Types, TypeOK
<1>. QED
  BY <1>1, <1>2, <1>3, <1>4 DEF Types, TypeOK

-----------------------------------------------------------------------------
(* The inductive invariant, action by action.                                *)

LEMMA SessionInvInit == Init => SessionInv
<1>. SUFFICES ASSUME Init PROVE SessionInv
  OBVIOUS
<1>1. /\ toSmsc \in Seq(Pdus) /\ toSender \in Seq(Pdus)
      /\ DOMAIN toSmsc = {} /\ DOMAIN toSender = {}
  BY DEF Init
<1>2. Types
  <2>1. stage \in Stages \cup {"start", "audit", "end"} /\ stage \notin Stages
    BY DEF Init, Stages
  <2>2. late \in BOOLEAN /\ open \in BOOLEAN
    BY DEF Init
  <2>3. sequence \in 0 .. MAX_SEQUENCE /\ submits \in {0, 1} /\ pdus \in Nat
    BY SmppAssumption DEF Init
  <2>4. heard = None /\ result = None /\ verdict = None
    BY DEF Init
  <2>. QED
    BY <1>1, <2>1, <2>2, <2>3, <2>4 DEF Types, TypeOK
<1>3. Numbered /\ HeardRight
  BY NoneAssumption DEF Init, Numbered, HeardRight
<1>4. SentOnce /\ RespIsVerdict
  BY <1>1 DEF Init, SentOnce, RespIsVerdict
<1>. QED
  BY <1>2, <1>3, <1>4 DEF SessionInv

\* Every step of the sender, of the SMSC and of the clock keeps the invariant.
LEMMA SessionInvStep == SessionInv /\ [Next]_vars => SessionInv'
<1>. SUFFICES ASSUME SessionInv, [Next]_vars PROVE SessionInv'
  OBVIOUS
<1>0. /\ Types /\ TypeOK /\ Numbered /\ SentOnce /\ RespIsVerdict /\ HeardRight
      /\ toSmsc \in Seq(Pdus) /\ toSender \in Seq(Pdus)
      /\ 0 \in Nat /\ NextSequence(0) \in 1 .. MAX_SEQUENCE /\ MAX_SEQUENCE \in Nat
  BY SequenceInRange, SmppAssumption DEF SessionInv, Types
<1>1. ASSUME NEW cmd \in Stages, NEW n \in 0 .. MAX_SEQUENCE
      PROVE  /\ Pdu(cmd, FALSE, TRUE, NextSequence(n)) \in Pdus
             /\ NextSequence(n) \in 1 .. MAX_SEQUENCE
  BY RequestOK
\* The steps that end the wait, or keep it, and send no request.
<1>2. ASSUME stage \in Stages, Settle \/ UNCHANGED <<stage, result>>,
             UNCHANGED <<sequence, heard, verdict, submits>>,
             late' \in BOOLEAN, open' \in BOOLEAN, pdus' \in Nat,
             SentOnce', toSmsc' \in Seq(Pdus), RespIsVerdict', toSender' \in Seq(Pdus)
      PROVE  SessionInv'
  <2>1. CASE Settle
    <3>1. HeardRight' /\ stage' \in {"audit", "end"} /\ result' \in {None, "failed"}
      BY <1>2, <2>1, SettleKeeps
    <3>2. Types' /\ Numbered'
      BY <1>0, <1>2, <3>1 DEF Types, TypeOK, Numbered, Stages
    <3>. QED
      BY <1>2, <3>1, <3>2 DEF SessionInv
  <2>2. CASE UNCHANGED <<stage, result>>
    <3>1. Types' /\ HeardRight'
      BY <1>0, <1>2, <2>2 DEF Types, TypeOK, HeardRight
    <3>2. Numbered'
      BY <1>0, <1>2, <2>2 DEF Numbered, SubmitSequence, NextSequence
    <3>. QED
      BY <1>2, <3>1, <3>2 DEF SessionInv
  <2>. QED
    BY <1>2, <2>1, <2>2
<1>3. ASSUME Arrived PROVE /\ stage \in Stages /\ toSender # <<>> /\ toSender' = Tail(toSender)
                           /\ Head(toSender) \in Pdus /\ 1 \in DOMAIN toSender
                           /\ Head(toSender) = toSender[1]
  BY <1>0, <1>3, TailOf DEF Arrived
<1>4. CASE RefuseToEncode \/ RefuseToSend
  <2>1. /\ stage = "start" /\ stage' = "end" /\ result' = "failed"
        /\ UNCHANGED <<sequence, late, heard, toSmsc, toSender, open, smsc>>
    BY <1>4 DEF RefuseToEncode, RefuseToSend
  <2>2. SentOnce' /\ RespIsVerdict'
    BY <2>1, SentOnceKept, RespIsVerdictKept DEF smsc
  <2>3. Types' /\ Numbered' /\ HeardRight'
    BY <1>0, <2>1, NoneAssumption DEF smsc, Types, TypeOK, Numbered, HeardRight, Stages
  <2>. QED
    BY <2>2, <2>3 DEF SessionInv
<1>5. CASE Connect
  <2>. DEFINE bind == Pdu("bind", FALSE, TRUE, NextSequence(sequence))
  <2>0. sequence = 0 /\ "bind" \in Stages /\ 0 \in 0 .. MAX_SEQUENCE
    BY <1>0, <1>5 DEF Connect, Numbered, Stages
  <2>1. /\ stage = "start" /\ stage' = "bind" /\ sequence' = NextSequence(0) /\ late' = FALSE
        /\ toSmsc' = Append(<<>>, bind)
        /\ UNCHANGED <<heard, result, toSender, open, smsc>>
    BY <1>5, <2>0 DEF Connect, Ask
  <2>2. RespIsVerdict'
    BY <2>1, RespIsVerdictKept DEF smsc
  <2>3. toSmsc' \in Seq(Pdus) /\ \A k \in DOMAIN toSmsc' : toSmsc'[k] = bind
    <3>0. bind \in Pdus
      BY <1>1, <2>0
    <3>. HIDE DEF bind
    <3>1. <<>> \in Seq(Pdus) /\ DOMAIN <<>> = {}
      OBVIOUS
    <3>2. /\ Append(<<>>, bind) \in Seq(Pdus)
          /\ \A k \in DOMAIN Append(<<>>, bind) :
                k \in DOMAIN <<>> \/ Append(<<>>, bind)[k] = bind
      BY <3>0, <3>1, AppendTo
    <3>. QED
      BY <2>1, <3>1, <3>2
  <2>4. SentOnce'
    BY <1>0, <2>1, <2>3 DEF SentOnce, IsSubmit, Pdu, smsc
  <2>5. stage' \in Stages /\ sequence' \in 1 .. MAX_SEQUENCE
    BY <1>0, <2>0, <2>1
  <2>6. Types'
    BY <1>0, <2>1, <2>3, <2>5, TypesAsked DEF smsc
  <2>7. Numbered'
    BY <2>1 DEF Numbered, NextSequence
  <2>8. HeardRight'
    BY <1>0, <2>1 DEF smsc, HeardRight
  <2>. QED
    BY <2>2, <2>4, <2>6, <2>7, <2>8 DEF SessionInv
<1>6. CASE ReadRequest
  <2>. DEFINE pdu == Head(toSender)
  <2>1. /\ stage \in Stages /\ toSender # <<>> /\ toSender' = Tail(toSender) /\ pdu \in Pdus
        /\ toSmsc' = Append(toSmsc, Answer(pdu))
        /\ Settle \/ UNCHANGED <<stage, result>>
        /\ UNCHANGED <<sequence, late, heard, open, smsc>>
    BY <1>3, <1>6 DEF ReadRequest
  <2>2. Answer(pdu) \in Pdus /\ ~IsSubmit(Answer(pdu))
    BY <2>1, PduOK
  <2>3. stage' \in {"start", "bind"} => stage' = stage
    BY <2>1 DEF Settle
  <2>4. SentOnce' /\ toSmsc' \in Seq(Pdus)
    BY <2>1, <2>2, <2>3, SentOnceKept DEF smsc
  <2>5. RespIsVerdict' /\ toSender' \in Seq(Pdus)
    BY <2>1, RespIsVerdictKept DEF smsc
  <2>. QED
    BY <1>0, <1>2, <2>1, <2>4, <2>5 DEF Types, TypeOK, smsc
<1>7. CASE ReadMismatch \/ ReadUnbindResp
  <2>1. /\ Arrived /\ Settle
        /\ UNCHANGED <<sequence, late, heard, toSmsc, open, smsc>>
    BY <1>7 DEF ReadMismatch, ReadUnbindResp
  <2>2. SentOnce' /\ toSmsc' \in Seq(Pdus) /\ RespIsVerdict' /\ toSender' \in Seq(Pdus)
    BY <1>3, <2>1, SentOnceKept, RespIsVerdictKept DEF smsc, Settle
  <2>. QED
    BY <1>0, <1>2, <1>3, <2>1, <2>2 DEF Types, TypeOK, smsc
<1>8. CASE ReadBindResp
  <2>1. /\ Arrived /\ stage = "bind" /\ UNCHANGED <<heard, open, smsc>>
        /\ sequence = NextSequence(0) /\ sequence \in 0 .. MAX_SEQUENCE
    BY <1>0, <1>8 DEF ReadBindResp, Numbered, TypeOK
  <2>2. RespIsVerdict' /\ toSender' \in Seq(Pdus)
    BY <1>3, <2>1, RespIsVerdictKept DEF smsc
  <2>3. CASE Settle /\ UNCHANGED <<sequence, late, toSmsc>>
    <3>1. SentOnce' /\ toSmsc' \in Seq(Pdus)
      BY <2>1, <2>3, SentOnceKept DEF smsc, Settle
    <3>. QED
      BY <1>0, <1>2, <1>3, <2>1, <2>2, <2>3, <3>1 DEF Types, TypeOK, smsc
  <2>4. CASE Ask("submit", toSmsc) /\ UNCHANGED result
    <3>. DEFINE submit == Pdu("submit", FALSE, TRUE, NextSequence(sequence))
    <3>1. /\ stage' = "submit" /\ sequence' = SubmitSequence /\ late' = FALSE
          /\ toSmsc' = Append(toSmsc, submit)
      BY <2>1, <2>4 DEF Ask, SubmitSequence
    <3>2. submit \in Pdus /\ submit.seq = SubmitSequence /\ SubmitSequence \in 1 .. MAX_SEQUENCE
      BY <1>1, <2>1 DEF Stages, SubmitSequence, Pdu
    <3>3. /\ toSmsc' \in Seq(Pdus)
          /\ \A k \in DOMAIN toSmsc' : IsSubmit(toSmsc'[k]) => k = Len(toSmsc) + 1 /\ toSmsc'[k] = submit
      <4>. HIDE DEF submit
      <4>1. /\ toSmsc' \in Seq(Pdus)
            /\ \A k \in DOMAIN toSmsc' :
                  \/ k \in DOMAIN toSmsc /\ toSmsc'[k] = toSmsc[k]
                  \/ k = Len(toSmsc) + 1 /\ toSmsc'[k] = submit
        <5>1. toSmsc \in Seq(Pdus) /\ submit \in Pdus /\ toSmsc' = Append(toSmsc, submit)
          BY <1>0, <3>1, <3>2
        <5>. QED
          BY <5>1, AppendTo
      <4>2. \A k \in DOMAIN toSmsc : ~IsSubmit(toSmsc[k])
        BY <1>0, <2>1 DEF SentOnce
      <4>. QED
        BY <4>1, <4>2
    <3>4. SentOnce'
      <4>. HIDE DEF submit
      <4>1. submits = 0 /\ submits' = 0 /\ SubmitSequence' = SubmitSequence
        BY <1>0, <2>1 DEF SentOnce, smsc, SubmitSequence, NextSequence
      <4>2. \A k \in DOMAIN toSmsc' : IsSubmit(toSmsc'[k]) => toSmsc'[k].seq = SubmitSequence
        BY <3>2, <3>3
      <4>3. \A k, j \in DOMAIN toSmsc' : IsSubmit(toSmsc'[k]) /\ IsSubmit(toSmsc'[j]) => j = k
        BY <3>3
      <4>. QED
        BY <3>1, <4>1, <4>2, <4>3 DEF SentOnce, IsSubmit
    <3>5. Types'
      <4>1. stage' \in Stages /\ sequence' \in 1 .. MAX_SEQUENCE
        BY <3>1, <3>2 DEF Stages
      <4>. QED
        BY <2>1, <2>2, <2>4, <3>1, <3>3, <4>1, TypesAsked DEF smsc
    <3>6. Numbered'
      BY <3>1 DEF Numbered, SubmitSequence, NextSequence
    <3>7. HeardRight'
      BY <1>0, <2>1, <2>4, <3>1 DEF smsc, HeardRight
    <3>. QED
      BY <2>2, <3>4, <3>5, <3>6, <3>7 DEF SessionInv
  <2>. QED
    BY <1>8, <2>3, <2>4 DEF ReadBindResp
<1>9. CASE ReadSubmitResp
  <2>. DEFINE unbind == Pdu("unbind", FALSE, TRUE, NextSequence(sequence))
  <2>1. /\ Arrived /\ stage = "submit" /\ Matches(Head(toSender))
        /\ heard' = (IF Head(toSender).ok THEN "ok" ELSE "refused")
        /\ stage' = "unbind" /\ sequence' = NextSequence(sequence) /\ late' = FALSE
        /\ toSmsc' = Append(toSmsc, unbind)
        /\ UNCHANGED <<result, open, smsc>>
        /\ sequence = SubmitSequence /\ sequence \in 0 .. MAX_SEQUENCE
    BY <1>0, <1>9 DEF ReadSubmitResp, Ask, Numbered, TypeOK
  <2>2. RespIsVerdict' /\ toSender' \in Seq(Pdus)
    BY <1>3, <2>1, RespIsVerdictKept DEF smsc
  <2>3. unbind \in Pdus /\ ~IsSubmit(unbind) /\ sequence' \in 1 .. MAX_SEQUENCE
    BY <1>1, <2>1 DEF Stages, IsSubmit, Pdu
  <2>4. SentOnce' /\ toSmsc' \in Seq(Pdus)
    BY <2>1, <2>3, SentOnceKept DEF smsc
  <2>5. IsSubmitResp(toSender[1]) /\ 1 \in DOMAIN toSender /\ Head(toSender) = toSender[1]
    BY <1>3, <2>1 DEF Matches, IsSubmitResp
  <2>6. submits = 1 /\ heard' = verdict
    BY <1>0, <2>1, <2>5 DEF RespIsVerdict
  <2>7. HeardRight'
    BY <1>0, <2>1, <2>6, NoneAssumption DEF HeardRight, smsc, Stages
  <2>8. Types' /\ Numbered'
    <3>1. heard' \in {None, "ok", "refused"} /\ stage' = "unbind" /\ stage' \in Stages
      BY <2>1 DEF Stages
    <3>2. Types'
      BY <2>1, <2>2, <2>3, <2>4, <3>1, TypesAsked DEF smsc
    <3>3. Numbered'
      BY <3>1 DEF Numbered
    <3>. QED
      BY <3>2, <3>3
  <2>. QED
    BY <2>2, <2>4, <2>7, <2>8 DEF SessionInv
<1>10. CASE Clock \/ Timeout \/ Disconnected
  <2>1. /\ stage \in Stages /\ late' \in BOOLEAN
        /\ Settle \/ UNCHANGED <<stage, result>>
        /\ UNCHANGED <<sequence, heard, toSmsc, toSender, open, smsc>>
    BY <1>0, <1>10 DEF Clock, Timeout, Disconnected, TypeOK
  <2>2. SentOnce' /\ toSmsc' \in Seq(Pdus) /\ RespIsVerdict' /\ toSender' \in Seq(Pdus)
    BY <2>1, SentOnceKept, RespIsVerdictKept DEF smsc, Settle
  <2>. QED
    <3>1. pdus' \in Nat /\ UNCHANGED <<sequence, heard, verdict, submits>>
      BY <1>0, <2>1 DEF Types, smsc
    <3>2. open' \in BOOLEAN
      BY <1>0, <2>1 DEF TypeOK
    <3>. QED
      BY <1>2, <2>1, <2>2, <3>1, <3>2
<1>11. CASE Audit
  <2>1. /\ stage = "audit" /\ stage' = "end" /\ result' \in {"accepted", "error"}
        /\ UNCHANGED <<sequence, late, heard, toSmsc, toSender, open, smsc>>
    BY <1>11 DEF Audit
  <2>2. SentOnce' /\ RespIsVerdict'
    BY <2>1, SentOnceKept, RespIsVerdictKept DEF smsc
  <2>3. Types' /\ Numbered' /\ HeardRight'
    BY <1>0, <2>1, NoneAssumption DEF smsc, Types, TypeOK, Numbered, HeardRight, Stages
  <2>. QED
    BY <2>2, <2>3 DEF SessionInv
<1>12. CASE SmscServes
  <2>. DEFINE pdu == Head(toSmsc)
  <2>1. PICK ok \in BOOLEAN :
          /\ toSmsc # <<>> /\ toSmsc' = Tail(toSmsc) /\ ~pdu.resp
          /\ Reply(pdu, ok) \/ UNCHANGED toSender
          /\ verdict' = IF pdu.cmd = "submit" THEN (IF ok THEN "ok" ELSE "refused") ELSE verdict
          /\ submits' = IF pdu.cmd = "submit" THEN submits + 1 ELSE submits
          /\ UNCHANGED <<sender, open, inbound, pdus>>
    BY <1>12 DEF SmscServes
  <2>2. /\ pdu \in Pdus /\ 1 \in DOMAIN toSmsc /\ pdu = toSmsc[1] /\ toSmsc' \in Seq(Pdus)
        /\ \A k \in DOMAIN toSmsc' : k \in Nat \ {0} /\ k + 1 \in DOMAIN toSmsc /\ toSmsc'[k] = toSmsc[k + 1]
    BY <1>0, <2>1, TailOf
  <2>. DEFINE resp == Pdu(pdu.cmd, TRUE, ok, pdu.seq)
  <2>3. resp \in Pdus /\ toSender' \in {toSender, Append(toSender, resp)}
    BY <2>1, <2>2, PduOK DEF Pdus, Reply
  <2>4. CASE pdu.cmd # "submit"
    <3>1. ~IsSubmitResp(resp)
      BY <2>4 DEF IsSubmitResp, Pdu
    <3>2. SentOnce' /\ RespIsVerdict' /\ toSender' \in Seq(Pdus)
      BY <2>1, <2>3, <2>4, <3>1, SentOnceKept, RespIsVerdictKept DEF sender
    <3>3. Types' /\ Numbered' /\ HeardRight'
      BY <1>0, <2>1, <2>2, <2>4, <3>2
      DEF sender, Types, TypeOK, Numbered, HeardRight, SubmitSequence, NextSequence
    <3>. QED
      BY <3>2, <3>3 DEF SessionInv
  <2>5. CASE pdu.cmd = "submit"
    <3>1. IsSubmit(toSmsc[1]) /\ submits = 0 /\ stage \notin {"start", "bind"} /\ submits' = 1
      BY <1>0, <2>1, <2>2, <2>5 DEF IsSubmit, SentOnce
    <3>2. \A k \in DOMAIN toSmsc' : ~IsSubmit(toSmsc'[k])
      BY <1>0, <2>2, <3>1 DEF SentOnce
    <3>3. SentOnce'
      BY <2>1, <3>1, <3>2 DEF SentOnce, sender, IsSubmit
    <3>4. \A k \in DOMAIN toSender : ~IsSubmitResp(toSender[k])
      BY <1>0, <3>1 DEF RespIsVerdict
    <3>5. /\ toSender' \in Seq(Pdus)
          /\ \A k \in DOMAIN toSender' : IsSubmitResp(toSender'[k]) => toSender'[k] = resp
      <4>. HIDE DEF resp
      <4>1. CASE toSender' = toSender
        BY <1>0, <3>4, <4>1
      <4>2. CASE toSender' = Append(toSender, resp)
        BY <1>0, <2>3, <3>4, <4>2, AppendTo
      <4>. QED
        BY <2>3, <4>1, <4>2
    <3>6. RespIsVerdict'
      BY <2>1, <2>5, <3>1, <3>5 DEF RespIsVerdict, IsSubmitResp, Pdu, SubmitSequence, NextSequence
    <3>7. Types' /\ Numbered' /\ HeardRight'
      BY <1>0, <2>1, <2>2, <2>5, <3>1, <3>5
      DEF sender, Types, TypeOK, Numbered, HeardRight, SubmitSequence, NextSequence
    <3>. QED
      BY <3>3, <3>6, <3>7 DEF SessionInv
  <2>. QED
    BY <2>4, <2>5
<1>13. CASE SmscHears
  <2>1. /\ toSmsc # <<>> /\ toSmsc' = Tail(toSmsc)
        /\ UNCHANGED <<sender, toSender, open, verdict, submits, pdus>>
    BY <1>13 DEF SmscHears
  <2>2. SentOnce' /\ toSmsc' \in Seq(Pdus) /\ RespIsVerdict'
    BY <2>1, SentOnceKept, RespIsVerdictKept DEF sender
  <2>3. Types' /\ Numbered' /\ HeardRight'
    BY <1>0, <2>1, <2>2 DEF sender, Types, TypeOK, Numbered, HeardRight, SubmitSequence, NextSequence
  <2>. QED
    BY <2>2, <2>3 DEF SessionInv
<1>14. CASE SmscAsks \/ SmscStrays \/ SmscCloses
  <2>1. /\ UNCHANGED <<sender, toSmsc, verdict, submits>>
        /\ pdus' \in Nat /\ open' \in BOOLEAN
        /\ \/ UNCHANGED toSender
           \/ \E pdu \in Pdus : ~IsSubmitResp(pdu) /\ toSender' = Append(toSender, pdu)
    <3>1. CASE SmscAsks
      <4>1. PICK cmd \in {"enquire", "unbind", "deliver", "other", "garbage"} :
               toSender' = Append(toSender, Pdu(cmd, FALSE, TRUE, pdus'))
        BY <3>1 DEF SmscAsks
      <4>2. pdus' \in Nat /\ cmd \in Commands
        BY <1>0, <3>1 DEF SmscAsks, Types, Commands, Stages
      <4>3. Pdu(cmd, FALSE, TRUE, pdus') \in Pdus /\ ~IsSubmitResp(Pdu(cmd, FALSE, TRUE, pdus'))
        BY <4>2 DEF IsSubmitResp, Pdu, Pdus
      <4>4. UNCHANGED <<sender, toSmsc, verdict, submits>> /\ open' \in BOOLEAN
        BY <1>0, <3>1 DEF SmscAsks, TypeOK
      <4>. QED
        BY <4>1, <4>2, <4>3, <4>4
    <3>2. CASE SmscStrays
      <4>1. PICK cmd \in Stages \cup {"nack"}, seq \in 1 .. MAX_SEQUENCE :
               ~(cmd = "submit" /\ seq = SubmitSequence) /\ toSender' = Append(toSender, Pdu(cmd, TRUE, TRUE, seq))
        BY <3>2 DEF SmscStrays
      <4>2. Pdu(cmd, TRUE, TRUE, seq) \in Pdus /\ ~IsSubmitResp(Pdu(cmd, TRUE, TRUE, seq))
        <5>1. Pdu(cmd, TRUE, TRUE, seq) \in Pdus
          <6>1. seq \in Int /\ cmd \in Commands
            BY SmppAssumption DEF Commands
          <6>. QED
            BY <6>1 DEF Pdu, Pdus
        <5>. QED
          BY <4>1, <5>1 DEF IsSubmitResp, Pdu
      <4>3. UNCHANGED <<sender, toSmsc, verdict, submits>> /\ open' \in BOOLEAN /\ pdus' \in Nat
        BY <1>0, <3>2 DEF SmscStrays, Types, TypeOK
      <4>. QED
        BY <4>1, <4>2, <4>3
    <3>3. CASE SmscCloses
      BY <1>0, <3>3 DEF SmscCloses, smsc, Types
    <3>. QED
      BY <1>14, <3>1, <3>2, <3>3
  <2>2. SentOnce' /\ RespIsVerdict' /\ toSender' \in Seq(Pdus)
    BY <2>1, SentOnceKept, RespIsVerdictKept DEF sender
  <2>3. Types' /\ Numbered' /\ HeardRight'
    BY <1>0, <2>1, <2>2 DEF sender, Types, TypeOK, Numbered, HeardRight, SubmitSequence, NextSequence
  <2>. QED
    BY <2>2, <2>3 DEF SessionInv
<1>15. CASE UNCHANGED vars
  BY <1>0, <1>15
  DEF vars, sender, smsc, SessionInv, Types, TypeOK, Numbered, SentOnce, RespIsVerdict, HeardRight,
      IsSubmit, IsSubmitResp, SubmitSequence, NextSequence
<1>. QED
  BY <1>4, <1>5, <1>6, <1>7, <1>8, <1>9, <1>10, <1>11, <1>12, <1>13, <1>14, <1>15 DEF Next

\* What send() takes for the outcome of its submit_sm is the SMSC's verdict on it, for
\* every range of sequence numbers (a range of one, where the bind and the submit
\* share a number, included) and any PDUs that arrive out of turn.
THEOREM HeardIsVerdict == Spec => []VerdictHeard
<1>1. SessionInv => VerdictHeard
  BY DEF SessionInv, HeardRight, VerdictHeard
<1>. QED
  BY <1>1, SessionInvInit, SessionInvStep, PTL DEF Spec

\* send() reports a failure for no message that the SMSC confirmed, though the unbind
\* fails, and success only for one that the SMSC took, once.
THEOREM ReportsAreRight == Spec => []ReportIsRight
<1>1. SessionInv => ReportIsRight
  BY NoneAssumption DEF SessionInv, HeardRight, ReportIsRight
<1>. QED
  BY <1>1, SessionInvInit, SessionInvStep, PTL DEF Spec
=============================================================================
