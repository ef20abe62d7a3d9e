-------------------------------- MODULE Smpp --------------------------------
(***************************************************************************)
(* One message sent through an operator SMSC over SMPP 3.4.                  *)
(*                                                                         *)
(*   acs/sms/smpp.py     SmppSmsSender.send, _Session.request and _answer    *)
(*                                                                         *)
(* The sender binds, submits and unbinds on a connection of its own. The two  *)
(* directions of the connection are queues; the SMSC is external and may      *)
(* answer, refuse, answer out of turn, ask for something itself, go quiet or  *)
(* close. A message that does not fit one SMS, or an address that cannot be   *)
(* encoded, is refused before the connection is opened.                      *)
(***************************************************************************)
EXTENDS Integers, Sequences, FiniteSets

CONSTANTS
    None,
    MAX_SEQUENCE,   \* 0x7FFFFFFF in the code
    SMSC_PDUS       \* bound: PDUs the SMSC sends out of turn

ASSUME SmppAssumption == MAX_SEQUENCE \in Nat \ {0} /\ SMSC_PDUS \in Nat
ASSUME NoneAssumption == None \notin {"ok", "refused", "accepted", "failed", "error"}

VARIABLES
    stage,      \* what send() is doing
    sequence,   \* _Session._sequence
    late,       \* the deadline of the request has passed
    heard,      \* command_status of submit_sm_resp
    result,     \* how send() ends
    toSmsc, toSender,   \* the connection
    open,       \* the SMSC has not closed it
    verdict,    \* what the SMSC decided on the submit_sm
    submits,    \* submit_sm PDUs that reached the SMSC
    inbound,    \* a message the SMSC holds for this system: None, "sent", "kept", "taken"
    pdus        \* PDUs sent out of turn

sender == <<stage, sequence, late, heard, result>>
smsc   == <<verdict, submits, inbound, pdus>>
vars   == <<sender, toSmsc, toSender, open, smsc>>

Stages == {"bind", "submit", "unbind"}

\* A PDU: a request or a response ("_resp"), with its status.
Pdu(cmd, resp, ok, seq) == [cmd |-> cmd, resp |-> resp, ok |-> ok, seq |-> seq]

Init ==
    /\ stage = "start" /\ sequence = 0 /\ late = FALSE /\ heard = None /\ result = None
    /\ toSmsc = <<>> /\ toSender = <<>> /\ open = TRUE
    /\ verdict = None /\ submits = 0 /\ inbound = None /\ pdus = 0

\* next_sequence: 1 .. MAX_SEQUENCE.
NextSequence(n) == (n % MAX_SEQUENCE) + 1

\* request(): the first half, up to the first read.
Ask(cmd, queue) ==
    /\ stage' = cmd
    /\ sequence' = NextSequence(sequence)
    /\ late' = FALSE
    /\ toSmsc' = Append(queue, Pdu(cmd, FALSE, TRUE, NextSequence(sequence)))

-----------------------------------------------------------------------------
(* The sender.                                                               *)

\* encode_short_message, c_octet: the message does not fit one SMS or an address its field.
RefuseToEncode ==
    /\ stage = "start"
    /\ stage' = "end" /\ result' = "failed"
    /\ UNCHANGED <<sequence, late, heard, toSmsc, toSender, open, smsc>>

\* No host or no usable timeout; or the connection fails.
RefuseToSend ==
    /\ stage = "start"
    /\ stage' = "end" /\ result' = "failed"
    /\ UNCHANGED <<sequence, late, heard, toSmsc, toSender, open, smsc>>

Connect ==
    /\ stage = "start"
    /\ Ask("bind", <<>>)
    /\ UNCHANGED <<heard, result, toSender, open, smsc>>

\* Mutant: a failed unbind fails the send.
SettleFailed == stage' = "end" /\ result' = "failed"

\* A request raised, or the unbind was answered. _unbind swallows what it raises:
\* the outcome of the submit_sm stands.
Settle ==
    IF stage = "unbind" /\ heard = "ok"
    THEN stage' = "audit" /\ UNCHANGED result
    ELSE stage' = "end" /\ result' = "failed"

\* _answer: enquire_link and unbind are confirmed, a deliver_sm is refused for now,
\* anything else is a generic_nack.
Answer(pdu) ==
    IF pdu.cmd \in {"enquire", "unbind", "deliver"}
    THEN Pdu(pdu.cmd, TRUE, pdu.cmd # "deliver", pdu.seq)
    ELSE Pdu("nack", TRUE, FALSE, pdu.seq)

\* Mutant: the sequence number of a response is not compared.
MatchesCommand(pdu) == pdu.resp /\ pdu.cmd = stage

\* The response to the request in flight.
Matches(pdu) == pdu.resp /\ pdu.cmd = stage /\ pdu.seq = sequence

Arrived ==
    /\ stage \in Stages
    /\ ~late
    /\ toSender # <<>>
    /\ toSender' = Tail(toSender)

\* An SMSC's own request is answered and the wait goes on, with the same deadline.
\* Its unbind, and a PDU of impossible length, are answered and end the wait.
ReadRequest ==
    /\ Arrived
    /\ LET pdu == Head(toSender) IN
       /\ ~pdu.resp
       /\ toSmsc' = Append(toSmsc, Answer(pdu))
       /\ IF pdu.cmd \in {"unbind", "garbage"} THEN Settle ELSE UNCHANGED <<stage, result>>
    /\ UNCHANGED <<sequence, late, heard, open, smsc>>

\* generic_nack, or a response to something else.
ReadMismatch ==
    /\ Arrived
    /\ Head(toSender).resp
    /\ ~Matches(Head(toSender))
    /\ Settle
    /\ UNCHANGED <<sequence, late, heard, toSmsc, open, smsc>>

ReadBindResp ==
    /\ stage = "bind"
    /\ Arrived
    /\ Matches(Head(toSender))
    /\ IF Head(toSender).ok
       THEN Ask("submit", toSmsc) /\ UNCHANGED result
       ELSE Settle /\ UNCHANGED <<sequence, late, toSmsc>>
    /\ UNCHANGED <<heard, open, smsc>>

\* The connection is unbound whatever the answer.
ReadSubmitResp ==
    /\ stage = "submit"
    /\ Arrived
    /\ Matches(Head(toSender))
    /\ heard' = IF Head(toSender).ok THEN "ok" ELSE "refused"
    /\ Ask("unbind", toSmsc)
    /\ UNCHANGED <<result, open, smsc>>

ReadUnbindResp ==
    /\ stage = "unbind"
    /\ Arrived
    /\ Matches(Head(toSender))
    /\ Settle
    /\ UNCHANGED <<sequence, late, heard, toSmsc, open, smsc>>

\* The deadline of the request passes.
Clock ==
    /\ stage \in Stages
    /\ late' = TRUE
    /\ UNCHANGED <<stage, sequence, heard, result, toSmsc, toSender, open, smsc>>

\* Mutant: a timeout reads on.
TimeoutRetries ==
    /\ stage \in Stages
    /\ late
    /\ late' = FALSE
    /\ UNCHANGED <<stage, sequence, heard, result, toSmsc, toSender, open, smsc>>

\* _read_exact: the deadline has passed.
Timeout ==
    /\ stage \in Stages
    /\ late
    /\ Settle
    /\ UNCHANGED <<sequence, late, heard, toSmsc, toSender, open, smsc>>

\* recv returns nothing, or sendall fails.
Disconnected ==
    /\ stage \in Stages
    /\ ~open
    /\ Settle
    /\ UNCHANGED <<sequence, late, heard, toSmsc, toSender, open, smsc>>

\* _audit records the send, after the message_id was digested, whatever it is. A
\* store that fails makes it a 500: the challenge is kept.
Audit ==
    /\ stage = "audit"
    /\ stage' = "end"
    /\ result' \in {"accepted", "error"}
    /\ UNCHANGED <<sequence, late, heard, toSmsc, toSender, open, smsc>>

-----------------------------------------------------------------------------
(* The SMSC, external.                                                       *)

Reply(pdu, ok) == toSender' = Append(toSender, Pdu(pdu.cmd, TRUE, ok, pdu.seq))

\* A request is served or refused, or left without an answer.
SmscServes ==
    /\ open
    /\ toSmsc # <<>>
    /\ toSmsc' = Tail(toSmsc)
    /\ LET pdu == Head(toSmsc) IN
       /\ ~pdu.resp
       /\ \E ok \in BOOLEAN :
             /\ Reply(pdu, ok) \/ UNCHANGED toSender
             /\ verdict' = IF pdu.cmd = "submit" THEN (IF ok THEN "ok" ELSE "refused") ELSE verdict
       /\ submits' = IF pdu.cmd = "submit" THEN submits + 1 ELSE submits
    /\ UNCHANGED <<sender, open, inbound, pdus>>

\* What the sender answered. A deliver_sm that was not confirmed is kept.
SmscHears ==
    /\ open
    /\ toSmsc # <<>>
    /\ toSmsc' = Tail(toSmsc)
    /\ LET pdu == Head(toSmsc) IN
       /\ pdu.resp
       /\ inbound' = IF pdu.cmd = "deliver" THEN (IF pdu.ok THEN "taken" ELSE "kept") ELSE inbound
    /\ UNCHANGED <<sender, toSender, open, verdict, submits, pdus>>

\* A request of the SMSC, or one it cannot frame.
SmscAsks ==
    /\ open /\ stage \in Stages
    /\ pdus < SMSC_PDUS
    /\ pdus' = pdus + 1
    /\ \E cmd \in {"enquire", "unbind", "deliver", "other", "garbage"} :
          /\ toSender' = Append(toSender, Pdu(cmd, FALSE, TRUE, pdus'))
          /\ inbound' = IF cmd = "deliver" THEN "sent" ELSE inbound
    /\ UNCHANGED <<sender, toSmsc, open, verdict, submits>>

\* The submit_sm is the second request of a session.
SubmitSequence == NextSequence(NextSequence(0))

\* A response nobody asked for: a generic_nack, a late copy of another stage's, or
\* one with another sequence number.
SmscStrays ==
    /\ open /\ stage \in Stages
    /\ pdus < SMSC_PDUS
    /\ pdus' = pdus + 1
    /\ \E cmd \in Stages \cup {"nack"}, seq \in 1 .. MAX_SEQUENCE :
          /\ ~(cmd = "submit" /\ seq = SubmitSequence)
          /\ toSender' = Append(toSender, Pdu(cmd, TRUE, TRUE, seq))
    /\ UNCHANGED <<sender, toSmsc, open, verdict, submits, inbound>>

SmscCloses ==
    /\ open /\ stage \in Stages
    /\ open' = FALSE
    /\ UNCHANGED <<sender, toSmsc, toSender, smsc>>

Next ==
    \/ RefuseToEncode \/ RefuseToSend \/ Connect
    \/ ReadRequest \/ ReadMismatch \/ ReadBindResp \/ ReadSubmitResp \/ ReadUnbindResp
    \/ Clock \/ Timeout \/ Disconnected \/ Audit
    \/ SmscServes \/ SmscHears \/ SmscAsks \/ SmscStrays \/ SmscCloses

Spec == Init /\ [][Next]_vars

\* The clock runs and the sender's thread is scheduled. Nothing is asked of the SMSC.
Fairness ==
    /\ WF_vars(RefuseToEncode \/ RefuseToSend \/ Connect)
    /\ WF_vars(Clock)
    /\ WF_vars(Timeout)
    /\ WF_vars(Audit)

FairSpec == Spec /\ Fairness

-----------------------------------------------------------------------------
(* Properties.                                                               *)

\* The session's fields have the shape the code gives them; a sequence number that
\* was used is one that SMPP allows.
TypeOK ==
    /\ stage \in Stages \cup {"start", "audit", "end"}
    /\ sequence \in 0 .. MAX_SEQUENCE
    /\ stage \in Stages => sequence > 0
    /\ late \in BOOLEAN /\ open \in BOOLEAN
    /\ heard \in {None, "ok", "refused"}
    /\ result \in {None, "accepted", "failed", "error"}

\* What the sender takes for the outcome of its submit_sm is the SMSC's verdict on
\* it, whatever else arrived in between.
VerdictHeard == heard # None => heard = verdict

\* A message the SMSC confirmed is never reported as failed, though the unbind
\* fails: the service would delete the code the user is about to receive. And
\* send() reports success only for a message that the SMSC took, once.
ReportIsRight ==
    /\ heard = "ok" => result # "failed"
    /\ result = "accepted" => verdict = "ok" /\ submits = 1

\* send() ends, whatever the SMSC does: every request has one deadline.
SendEnds == <>(stage = "end")

\* A failed send is one the SMSC did not take (the service deletes the code "for a
\* message that was never sent").
FailedIsNotSent == result = "failed" => verdict # "ok"
=============================================================================
