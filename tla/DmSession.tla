----------------------------- MODULE DmSession -----------------------------
(***************************************************************************)
(* One OMA-DM session: the device's messages, the handlers that serve them   *)
(* on any task, and the two DynamoDB items the session lives in between.     *)
(*                                                                         *)
(*   acs/protocol/omadm/session.py   DmService.handle and its phases,       *)
(*                                   _DmChanges.commit                      *)
(*   acs/protocol/omadm/auth.py      credentials and the nonce of a session *)
(*   acs/protocol/omadm/package.py   what of a package fits a message       *)
(*   acs/store/dynamodb.py           dm_session, dm_pending, device items   *)
(*                                                                         *)
(* Items are keyed by device and SessionID, so one session is the whole      *)
(* state space. A store call is one step; handlers of a message and of its   *)
(* resend may overlap. Sizes are counted in entries: the device's MaxMsgSize *)
(* is how many of them fit one message (PackageFill finds that number).      *)
(***************************************************************************)
EXTENDS Integers, FiniteSets, Sequences, SequencesExt

CONSTANTS
    Handlers,       \* request slots of all tasks
    SCHEMES,        \* possible settings of dm_auth_scheme: "none", "basic", "md5"
    None,           \* Python's None, and DynamoDB's "no such item"
    N_GET,          \* items of the inventory Get: device_query_uris()
    N_CONF,         \* interior nodes to Add, then leaves to Replace
    Refused,        \* the configuration items the device answers with an error
    INIT_ACKS,      \* possible numbers of commands in the first message
    EXTRA_ACKS,     \* possible numbers of commands the device adds to a package
    CAPACITIES,     \* possible numbers of entries that fit the device's MaxMsgSize
    MAX_ACKS,       \* MAX_ACKNOWLEDGED_COMMANDS, 100 in the code
    MAX_MESSAGES,   \* MAX_MESSAGES_PER_PACKAGE, 128 in the code
    MAX_STORED,     \* MAX_STORED_BYTES, counted in entries
    Scenarios       \* what may go wrong, one record for each scenario:
                    \*   faults      store calls that fail
                    \*   resends     messages the device sends again unanswered
                    \*   challenges  messages sent with no or wrong credentials
                    \*   expiries    times dm_session_ttl_seconds runs out
                    \*   records     configuration requests that record the device
                    \*   messages    messages the device sends at most
                    \*   lag         reads of the session items may be behind

ASSUME SizesAssumption ==
    /\ {N_GET, N_CONF, MAX_ACKS, MAX_MESSAGES} \subseteq Nat \ {0}
    /\ MAX_STORED \in Nat
    /\ INIT_ACKS \subseteq Nat \ {0} /\ EXTRA_ACKS \subseteq Nat /\ CAPACITIES \subseteq Nat
    /\ SCHEMES \subseteq {"none", "basic", "md5"}
    /\ Refused \subseteq 1 .. N_CONF
    /\ Scenarios \subseteq [faults : Nat, resends : Nat, challenges : Nat, expiries : Nat,
                             records : Nat, messages : Nat, lag : BOOLEAN]

Phases   == {"init", "devinfo", "configure", "done"}
Sessions == [phase : Phases, failures : Nat, nonce : Nat, life : Nat]
Entries  == [k : {"ack"}, id : Nat, n : Nat] \cup [k : {"get"}, id : {0}, n : 1 .. N_GET]
                \cup [k : {"conf"}, id : {0}, n : 1 .. N_CONF]
Packages == [phase : Phases, entries : Seq(Entries), messages : Nat, life : Nat]

Values   == SUBSET (1 .. N_GET)
Creds    == [type : {"none", "basic", "md5"}, password : {"right", "wrong", "unknown"}, nonce : Nat]
Msgs     == [kind : {"init", "next", "reply", "abort"}, id : Nat, acks : Nat,
             results : Values, failed : Nat, cred : Creds]
Replies  == [status : {200, 400, 401, 413, 500}, body : Seq(Entries), final : BOOLEAN,
             failures : Nat, nonce : Nat]

ASSUME NoneAssumption ==
    /\ None \notin Sessions \cup Packages \cup Msgs \cup Replies
    /\ \A values \in Values : None # values

VARIABLES
    session,    \* item DMSESS#<key> META
    pending,    \* item DMSESS#<key> PENDING, the unsent part of a package
    oldSession, \* a replica of each, behind by some writes
    oldPending,
    device,     \* the inventory values of item DEVICE#<id>
    recorder,   \* a configuration request that records the device
    erased,     \* history: values that its write-back took off the device item
    life,       \* which dm_session_ttl_seconds period this is
    handlers,   \* the locals of every handler
    client,     \* the device's side of the session
    scheme,     \* the setting dm_auth_scheme
    capacity,   \* what the device's MaxMsgSize holds, fixed for the session
    scenario,   \* what may go wrong in this session
    used        \* how much of it has

inventory == <<device, recorder, erased>>
items == <<session, pending, oldSession, oldPending, inventory>>
fixed == <<scheme, capacity, scenario>>
vars  == <<items, life, handlers, client, fixed, used>>

-----------------------------------------------------------------------------
(* Entries and messages.                                                     *)

Ack(id, c) == [k |-> "ack", id |-> id, n |-> c]
Get(n)     == [k |-> "get", id |-> 0, n |-> n]
Conf(n)    == [k |-> "conf", id |-> 0, n |-> n]
Inventory     == [n \in 1 .. N_GET |-> Get(n)]
Configuration == [n \in 1 .. N_CONF |-> Conf(n)]

\* _acks: a Status for every command of the message, in order.
Acks(m) == [c \in 1 .. m.acks |-> Ack(m.id, c)]

Of(kind, body) == {body[j].n : j \in {i \in DOMAIN body : body[i].k = kind}}

\* Credentials: their type, whether the password is the stored one of a known
\* user, and the nonce an md5 digest was made with (0: none yet).
Credentials(type, password, nonce) == [type |-> type, password |-> password, nonce |-> nonce]

\* What the device sends: its commands to acknowledge, the Results for the Gets
\* and the number of refused items it was last sent, and credentials.
Message(kind, id, acks, body, cred) ==
    [kind |-> kind, id |-> id, acks |-> acks, results |-> Of("get", body),
     failed |-> Cardinality(Of("conf", body) \cap Refused), cred |-> cred]

Reply(status, body, final, failures, nonce) ==
    [status |-> status, body |-> body, final |-> final, failures |-> failures, nonce |-> nonce]
Refusal(status) == Reply(status, <<>>, TRUE, 0, 0)

Fresh  == [phase |-> "init", failures |-> 0, nonce |-> 0, life |-> life]
Idle   == [pc |-> "idle", live |-> FALSE, msg |-> None, sess |-> None, pend |-> None,
           dev |-> {}, ops |-> <<>>, reply |-> None]

Init ==
    /\ session = None /\ pending = None
    /\ oldSession = None /\ oldPending = None
    /\ device = {}
    /\ recorder = None
    /\ erased = {}
    /\ life = 0
    /\ handlers = [h \in Handlers |-> Idle]
    /\ client = [state |-> "turn", msg |-> None, reply |-> None, inbox |-> <<>>,
                 owed |-> {}, lost |-> {}, nonce |-> 0]
    /\ scheme \in SCHEMES
    /\ capacity \in CAPACITIES
    /\ scenario \in Scenarios
    /\ used = [faults |-> 0, resends |-> 0, challenges |-> 0, expiries |-> 0, records |-> 0,
               nonces |-> 0, missed |-> 0]

-----------------------------------------------------------------------------
(* The store: reads, and the writes of _DmChanges.commit.                    *)

\* An expired item reads as none, and the read deletes it in a second call.
Live(item) == item # None /\ item.life = life
SessionReads == IF scenario.lag THEN {session, oldSession} ELSE {session}
PendingReads == IF scenario.lag THEN {pending, oldPending} ELSE {pending}

Op(kind, value) == <<[op |-> kind, value |-> value]>>
When(cond, ops) == IF cond THEN ops ELSE <<>>

\* _DmChanges: what one message changes.
NoChanges == [device |-> None, session |-> None, pending |-> None,
              dropPending |-> FALSE, close |-> FALSE, inRemainder |-> FALSE]

\* Mutant: closing the session leaves its remainder.
SaveRemainderOnly(ch) ==
    When(ch.dropPending, Op("delPending", None))
    \o When(ch.pending # None, Op("putPending", ch.pending))

SaveRemainder(ch) ==
    When(ch.dropPending, Op("delPending", None))
    \o When(ch.pending # None, Op("putPending", ch.pending))
    \o When(ch.close, Op("delPending", None))

SaveSession(ch) ==
    When(ch.session # None, Op("putSession", ch.session))
    \o When(ch.close, Op("delSession", None))

\* Mutants of Commit: the session always first; the remainder always first.
CommitSessionFirst(ch) ==
    When(ch.device # None, Op("putDevice", ch.device)) \o SaveSession(ch) \o SaveRemainder(ch)
CommitRemainderFirst(ch) ==
    When(ch.device # None, Op("putDevice", ch.device)) \o SaveRemainder(ch) \o SaveSession(ch)

\* commit: the record that holds the progress is written last.
Commit(ch) ==
    When(ch.device # None, Op("putDevice", ch.device))
    \o (IF ch.inRemainder THEN SaveSession(ch) \o SaveRemainder(ch)
                          ELSE SaveRemainder(ch) \o SaveSession(ch))

Apply(w) ==
    /\ session' = CASE w.op = "putSession" -> w.value
                    [] w.op = "delSession" -> None
                    [] OTHER -> session
    /\ pending' = CASE w.op = "putPending" -> w.value
                    [] w.op = "delPending" -> None
                    [] OTHER -> pending
    /\ device' = IF w.op = "putDevice" THEN w.value ELSE device
    /\ UNCHANGED <<oldSession, oldPending, recorder, erased>>

-----------------------------------------------------------------------------
(* The device.                                                               *)

\* The messages it may send now. It opens with Alert 1200, asks for the rest of
\* a package with Alert 1222, answers a complete one, and may abort (1223, 1226).
\* A challenge is answered with the same message and the credentials, which are
\* made with the last nonce it was given.
NextKind(reply) == IF reply = None THEN "init" ELSE IF reply.final THEN "reply" ELSE "next"

OwnCommands(reply, extra) ==
    IF reply = None THEN INIT_ACKS
    ELSE {(IF reply.final THEN x ELSE 1) + (IF Of("get", reply.body) = {} THEN 0 ELSE 1) : x \in extra}

OwnCredentials ==
    IF scheme = "md5" THEN Credentials("md5", "right", client.nonce)
                      ELSE Credentials("basic", "right", 0)

BadCredentials ==
    {Credentials("none", "right", 0), Credentials("basic", "wrong", 0)}
    \cup {Credentials("md5", password, client.nonce) : password \in {"wrong", "unknown"}}

NextMessages ==
    LET id   == IF client.msg = None THEN 1 ELSE client.msg.id + 1
        body == IF client.reply = None THEN <<>> ELSE client.reply.body
    IN IF client.reply # None /\ client.reply.status = 401
       THEN {[client.msg EXCEPT !.id = id, !.cred = OwnCredentials]}
       ELSE {Message(NextKind(client.reply), id, a, body, OwnCredentials) :
                a \in OwnCommands(client.reply, EXTRA_ACKS)}
            \cup {Message("abort", id, 1, body, OwnCredentials) : x \in IF id = 1 THEN {} ELSE {1}}

Serve(h, m) ==
    handlers' = [handlers EXCEPT ![h] = [Idle EXCEPT !.pc = "session", !.live = TRUE, !.msg = m]]

Send(h) ==
    /\ client.state = "turn"
    /\ handlers[h].pc = "idle"
    /\ \E m \in NextMessages :
          /\ m.id <= scenario.messages
          /\ client' = [client EXCEPT !.state = "wait", !.msg = m]
          /\ Serve(h, m)
    /\ UNCHANGED <<items, life, fixed, used>>

\* The same, with no or wrong credentials.
SendUnauthenticated(h) ==
    /\ client.state = "turn"
    /\ handlers[h].pc = "idle"
    /\ used.challenges < scenario.challenges
    /\ used' = [used EXCEPT !.challenges = @ + 1]
    /\ \E m \in NextMessages, c \in BadCredentials :
          /\ m.id <= scenario.messages
          /\ client' = [client EXCEPT !.state = "wait", !.msg = [m EXCEPT !.cred = c]]
          /\ Serve(h, [m EXCEPT !.cred = c])
    /\ UNCHANGED <<items, life, fixed>>

\* The device stops waiting; the handler goes on, its answer will reach nobody.
Timeout ==
    /\ client.state = "wait"
    /\ used.resends < scenario.resends
    /\ used' = [used EXCEPT !.resends = @ + 1]
    /\ client' = [client EXCEPT !.state = "resend"]
    /\ handlers' = [h \in Handlers |-> [handlers[h] EXCEPT !.live = FALSE]]
    /\ UNCHANGED <<items, life, fixed>>

Resend(h) ==
    /\ client.state = "resend"
    /\ handlers[h].pc = "idle"
    /\ client' = [client EXCEPT !.state = "wait"]
    /\ Serve(h, client.msg)
    /\ UNCHANGED <<items, life, fixed, used>>

\* What the device makes of an answer. A complete package without a command in
\* it ends the session; 500 is worth a retry, any other refusal is not.
Receives(r, m) ==
    CASE r.status = 500 -> [client EXCEPT !.state = "resend"]
      [] r.status = 401 -> [client EXCEPT !.state = "turn", !.reply = r, !.nonce = r.nonce]
      [] r.status \in {400, 413} -> [client EXCEPT !.state = "failed", !.reply = r]
      [] OTHER -> [client EXCEPT
            !.state = IF m.kind = "abort" THEN "aborted"
                      ELSE IF r.final /\ Of("get", r.body) \cup Of("conf", r.body) = {} THEN "done"
                      ELSE "turn",
            !.reply = r,
            !.nonce = IF r.nonce = 0 THEN @ ELSE r.nonce,
            !.inbox = @ \o r.body,
            !.owed = @ \cup ToSet(Acks(m))]

-----------------------------------------------------------------------------
(* The handler: reads.                                                       *)

Step(h, locals) == handlers' = [handlers EXCEPT ![h] = locals]
Only(h, locals) == Step(h, locals) /\ UNCHANGED <<items, life, client, fixed, used>>

\* get_dm_session, or a new session in phase "init".
ReadSession(h) ==
    /\ handlers[h].pc = "session"
    /\ \E s \in SessionReads :
          Only(h, IF s # None /\ ~Live(s)
                  THEN [handlers[h] EXCEPT !.pc = "reapSession"]
                  ELSE [handlers[h] EXCEPT !.pc = "auth", !.sess = IF s = None THEN Fresh ELSE s])

ReapSession(h) ==
    /\ handlers[h].pc = "reapSession"
    /\ session' = None
    /\ Step(h, [handlers[h] EXCEPT !.pc = "auth", !.sess = Fresh])
    /\ UNCHANGED <<pending, oldSession, oldPending, inventory, life, client, fixed, used>>

\* The outcome is decided: what to write, in which order, and what to answer.
Decide(h, reply, changes) ==
    Only(h, [handlers[h] EXCEPT !.pc = "commit", !.ops = Commit(changes), !.reply = reply])

\* authenticate and authenticate_md5: the type of the credentials decides how they
\* are checked, whatever the scheme is; a digest needs a nonce on the session.
Accepted(s, c) ==
    \/ scheme = "none"
    \/ c.type = "basic" /\ c.password = "right"
    \/ c.type = "md5" /\ c.password = "right" /\ s.nonce # 0 /\ c.nonce = s.nonce

\* The challenge draws a new nonce when the session has none, and after a digest
\* that does not match.
Redraws(s, c) == s.nonce = 0 \/ (c.type = "md5" /\ c.password # "unknown")

\* Mutant: the nonce of the challenge is not kept on the session.
ChallengedUnsaved(s, nonce) == s

Challenged(s, nonce) == [s EXCEPT !.nonce = nonce]

\* _unauthorised: a challenge with the nonce, after the session is put back with it.
Challenge(h) ==
    /\ handlers[h].pc = "auth"
    /\ LET s     == handlers[h].sess
           c     == handlers[h].msg.cred
           nonce == IF Redraws(s, c) THEN used.nonces + 1 ELSE s.nonce
       IN /\ ~Accepted(s, c)
          /\ used' = [used EXCEPT !.nonces = IF Redraws(s, c) THEN @ + 1 ELSE @]
          /\ Step(h, [handlers[h] EXCEPT
                !.pc = "commit", !.ops = Commit([NoChanges EXCEPT !.session = Challenged(s, nonce)]),
                !.reply = [Refusal(401) EXCEPT !.nonce = nonce]])
    /\ UNCHANGED <<items, life, client, fixed>>

RefuseCommands(h) ==
    /\ handlers[h].pc = "auth"
    /\ Accepted(handlers[h].sess, handlers[h].msg.cred)
    /\ handlers[h].msg.acks > MAX_ACKS
    /\ Decide(h, Refusal(413), NoChanges)

Authenticate(h) ==
    /\ handlers[h].pc = "auth"
    /\ Accepted(handlers[h].sess, handlers[h].msg.cred)
    /\ handlers[h].msg.acks <= MAX_ACKS
    /\ Only(h, [handlers[h] EXCEPT !.pc = "pending"])

ReadPending(h) ==
    /\ handlers[h].pc = "pending"
    /\ \E p \in PendingReads :
          Only(h, IF p # None /\ ~Live(p)
                  THEN [handlers[h] EXCEPT !.pc = "reapPending"]
                  ELSE [handlers[h] EXCEPT !.pc = "device", !.pend = p])

ReapPending(h) ==
    /\ handlers[h].pc = "reapPending"
    /\ pending' = None
    /\ Step(h, [handlers[h] EXCEPT !.pc = "device"])
    /\ UNCHANGED <<session, oldSession, oldPending, inventory, life, client, fixed, used>>

\* Mutant: the remainder of another phase is not told apart.
StaleNever(h) == FALSE

\* The remainder belongs to a package that is over.
Stale(h) == handlers[h].pend # None /\ handlers[h].pend.phase # handlers[h].sess.phase

\* Which part of the code the message is for.
Route(h) ==
    CASE handlers[h].msg.kind = "abort" -> "end"
      [] handlers[h].msg.kind # "abort" /\ handlers[h].pend # None /\ ~Stale(h) -> "continue"
      [] OTHER -> handlers[h].sess.phase

\* get_device, in _absorb_device_values, for the messages that need it.
ReadDevice(h) ==
    /\ handlers[h].pc = "device"
    /\ Only(h, [handlers[h] EXCEPT !.pc = "decide",
                 !.dev = IF Route(h) \in {"init", "devinfo", "continue"} THEN device ELSE {}])

-----------------------------------------------------------------------------
(* The handler: the phases.                                                  *)

At(h, route) == handlers[h].pc = "decide" /\ Route(h) = route

\* Every outcome discards a stale remainder.
Base(h) == [NoChanges EXCEPT !.dropPending = Stale(h)]

\* _absorb_device_values: the Results of the message are added.
Absorb(h) == handlers[h].dev \cup handlers[h].msg.results

\* _record_failures: the errors among the message's statuses.
Recorded(h) == [handlers[h].sess EXCEPT !.failures = @ + handlers[h].msg.failed]

Sent(queue) == SubSeq(queue, 1, IF capacity < Len(queue) THEN capacity ELSE Len(queue))
Rest(queue) == SubSeq(queue, Len(Sent(queue)) + 1, Len(queue))

\* _header_status: an accepted message is answered with the session's nonce.
HeaderNonce(h) == IF scheme = "md5" THEN handlers[h].sess.nonce ELSE 0

\* _next_message: the answer with as much of the queue as fits. MessageTooLarge
\* (400) and PackageTooLarge (413) leave the store as it is.
Emit(h, queue, required, failures, changes) ==
    IF capacity < required THEN Decide(h, Refusal(400), NoChanges)
    ELSE IF Len(Rest(queue)) > MAX_STORED THEN Decide(h, Refusal(413), NoChanges)
    ELSE Decide(h, Reply(200, Sent(queue), Rest(queue) = <<>>, failures, HeaderNonce(h)),
                changes)

\* _start_package: the remainder is kept for the phase the session moves to.
Remainder(s, queue) ==
    IF Rest(queue) = <<>> THEN None
    ELSE [phase |-> s.phase, entries |-> Rest(queue), messages |-> 1, life |-> s.life]

Start(h, phase, queue) ==
    LET s == [handlers[h].sess EXCEPT !.phase = phase] IN
    Emit(h, queue, 1, 0, [Base(h) EXCEPT !.device = Absorb(h), !.session = s,
                                         !.pending = Remainder(s, queue)])

\* _handle_init with Alert 1200 or 1201.
HandleInit(h) ==
    /\ At(h, "init")
    /\ handlers[h].msg.kind = "init"
    /\ Start(h, "devinfo", Acks(handlers[h].msg) \o Inventory)

\* The first package must carry Alert 1200 or 1201.
RefuseInit(h) ==
    /\ At(h, "init")
    /\ handlers[h].msg.kind # "init"
    /\ Decide(h, Refusal(400), Base(h))

HandleDevinfo(h) ==
    /\ At(h, "devinfo")
    /\ Start(h, "configure", Acks(handlers[h].msg) \o Configuration)

\* _handle_finish: the statuses for the configuration came; close unless the
\* acknowledgements do not fit one message.
HandleFinish(h) ==
    /\ At(h, "configure") \/ At(h, "done")
    /\ LET s     == [Recorded(h) EXCEPT !.phase = "done"]
           queue == Acks(handlers[h].msg)
       IN Emit(h, queue, IF queue = <<>> THEN 0 ELSE 1, s.failures,
               IF Rest(queue) = <<>>
               THEN [Base(h) EXCEPT !.close = TRUE]
               ELSE [Base(h) EXCEPT !.session = s, !.pending = Remainder(s, queue)])

\* Alert 1223 or 1226: _last_message, and the session and its remainder go.
HandleEnd(h) ==
    /\ At(h, "end")
    /\ LET queue == Acks(handlers[h].msg) IN
       Emit(h, queue, Len(queue), 0, [Base(h) EXCEPT !.close = TRUE])

\* One queued entry beyond the acknowledgements, so that the package advances.
RequiredNow(acks) == acks + 1

\* Mutant: the Results and failures that come with a continuation are dropped.
ContinuedUnheard(h, queue) ==
    LET p == handlers[h].pend IN
    [Base(h) EXCEPT !.session = handlers[h].sess, !.inRemainder = TRUE,
                    !.dropPending = Rest(queue) = <<>>,
                    !.pending = IF Rest(queue) = <<>> THEN None
                                ELSE [p EXCEPT !.entries = Rest(queue), !.messages = @ + 1]]

\* What _continue_package changes: the remainder shrinks or, all sent, goes; a
\* final package then closes the session.
Continued(h, queue) ==
    LET p    == handlers[h].pend
        s    == IF p.phase \in {"configure", "done"} THEN Recorded(h) ELSE handlers[h].sess
        over == Rest(queue) = <<>> /\ s.phase = "done"
    IN [Base(h) EXCEPT
          !.device = Absorb(h),
          !.inRemainder = TRUE,
          !.dropPending = Rest(queue) = <<>>,
          !.pending = IF Rest(queue) = <<>> THEN None
                      ELSE [p EXCEPT !.entries = Rest(queue), !.messages = @ + 1],
          !.session = IF over THEN None ELSE s,
          !.close = over]

Continue(h) ==
    /\ At(h, "continue")
    /\ handlers[h].pend.messages < MAX_MESSAGES
    /\ LET acks  == Acks(handlers[h].msg)
           queue == acks \o handlers[h].pend.entries
       IN Emit(h, queue, RequiredNow(Len(acks)), Recorded(h).failures, Continued(h, queue))

\* The package took MAX_MESSAGES already: it is abandoned with its session.
AbandonPackage(h) ==
    /\ At(h, "continue")
    /\ handlers[h].pend.messages >= MAX_MESSAGES
    /\ Decide(h, Refusal(413), [Base(h) EXCEPT !.close = TRUE])

-----------------------------------------------------------------------------
(* The handler: the writes, and the answer.                                  *)

Write(h) ==
    /\ handlers[h].pc = "commit"
    /\ handlers[h].ops # <<>>
    /\ Apply(Head(handlers[h].ops))
    /\ Step(h, [handlers[h] EXCEPT !.ops = Tail(@)])
    /\ UNCHANGED <<life, client, fixed, used>>

\* A store call raises and had no effect: the writes that remain are not made, and 500
\* is answered. (An expired item reads as none, whether the reap that fails deleted it or
\* not.)
StoreFails(h) ==
    /\ handlers[h].pc # "idle"
    /\ handlers[h].pc = "commit" => handlers[h].ops # <<>>
    /\ used.faults < scenario.faults
    /\ used' = [used EXCEPT !.faults = @ + 1]
    /\ Step(h, [handlers[h] EXCEPT !.pc = "commit", !.ops = <<>>, !.reply = Refusal(500)])
    /\ UNCHANGED <<items, life, client, fixed>>

\* A write raises although it took effect: the answers to botocore's attempts were lost.
\* History: used.missed counts those that were all that an answer 200 waited for.
WriteUnconfirmed(h) ==
    /\ handlers[h].pc = "commit"
    /\ handlers[h].ops # <<>>
    /\ used.faults < scenario.faults
    /\ used' = [used EXCEPT !.faults = @ + 1,
                !.missed = IF Len(handlers[h].ops) = 1 /\ handlers[h].reply.status = 200
                           THEN @ + 1 ELSE @]
    /\ Apply(Head(handlers[h].ops))
    /\ Step(h, [handlers[h] EXCEPT !.ops = <<>>, !.reply = Refusal(500)])
    /\ UNCHANGED <<life, client, fixed>>

\* An answer nobody waits for is lost; the device never learns what it held.
Answer(h) ==
    /\ handlers[h].pc = "commit"
    /\ handlers[h].ops = <<>>
    /\ client' = IF handlers[h].live
                 THEN Receives(handlers[h].reply, handlers[h].msg)
                 ELSE [client EXCEPT !.lost = {e.k : e \in ToSet(handlers[h].reply.body)} \ {"ack"}]
    /\ Step(h, Idle)
    /\ UNCHANGED <<items, life, fixed, used>>

-----------------------------------------------------------------------------

\* dm_session_ttl_seconds after the session began its items count as gone.
Expire ==
    /\ used.expiries < scenario.expiries
    /\ session # None
    /\ used' = [used EXCEPT !.expiries = @ + 1]
    /\ life' = life + 1
    /\ UNCHANGED <<items, handlers, client, fixed>>

\* _record_device, in a configuration request of the same device on any task: the
\* item is read, and written back whole with the values it was read with.
RecordRead ==
    /\ recorder = None
    /\ used.records < scenario.records
    /\ used' = [used EXCEPT !.records = @ + 1]
    /\ recorder' = device
    /\ UNCHANGED <<session, pending, oldSession, oldPending, device, erased, life, handlers, client,
                   fixed>>

RecordWrite ==
    /\ recorder # None
    /\ device' = recorder
    /\ erased' = erased \cup (device \ recorder)
    /\ recorder' = None
    /\ UNCHANGED <<session, pending, oldSession, oldPending, life, handlers, client, fixed, used>>

ReplicateSession ==
    /\ scenario.lag /\ oldSession # session
    /\ oldSession' = session
    /\ UNCHANGED <<session, pending, oldPending, inventory, life, handlers, client, fixed, used>>

ReplicatePending ==
    /\ scenario.lag /\ oldPending # pending
    /\ oldPending' = pending
    /\ UNCHANGED <<session, pending, oldSession, inventory, life, handlers, client, fixed, used>>

Serving(h) ==
    \/ ReadSession(h) \/ ReapSession(h) \/ Challenge(h) \/ RefuseCommands(h) \/ Authenticate(h)
    \/ ReadPending(h) \/ ReapPending(h) \/ ReadDevice(h)
    \/ HandleInit(h) \/ RefuseInit(h) \/ HandleDevinfo(h) \/ HandleFinish(h) \/ HandleEnd(h)
    \/ Continue(h) \/ AbandonPackage(h) \/ Write(h) \/ Answer(h)

Talking(h) == Send(h) \/ Resend(h)

\* The device was answered for the last time, or has sent all its messages, and
\* nothing is in flight.
Terminated ==
    /\ \/ client.state \in {"done", "aborted", "failed"}
       \/ client.state = "turn" /\ client.msg # None /\ client.msg.id >= scenario.messages
    /\ \A h \in Handlers : handlers[h].pc = "idle"
    /\ UNCHANGED vars

Next ==
    \/ \E h \in Handlers : \/ Serving(h) \/ Talking(h) \/ SendUnauthenticated(h)
                            \/ StoreFails(h) \/ WriteUnconfirmed(h)
    \/ Timeout \/ Expire \/ RecordRead \/ RecordWrite \/ ReplicateSession \/ ReplicatePending
    \/ Terminated

Spec == Init /\ [][Next]_vars

\* Handlers run to their answer, and the device goes on with its session.
FairSpec ==
    Spec /\ WF_vars(\E h \in Handlers : Talking(h)) /\ \A h \in Handlers : WF_vars(Serving(h))
-----------------------------------------------------------------------------
(* Properties.                                                               *)

\* The commands among some entries, by their number in the two packages: first the
\* inventory, then the configuration; and the acknowledgements.
Commands(q) == {i \in DOMAIN q : q[i].k # "ack"}
Place(e)    == IF e.k = "get" THEN e.n ELSE N_GET + e.n
Items(q)    == {Place(q[i]) : i \in Commands(q)}
AcksIn(q)   == {q[i] : i \in DOMAIN q \ Commands(q)}

InSequence(q) == \A i, j \in Commands(q) : i < j => Place(q[i]) < Place(q[j])
AcksDiffer(q) == \A i, j \in DOMAIN q \ Commands(q) : i # j => q[i] # q[j]

\* commit: a device that retries after a failed write gets the same answer again,
\* "with nothing skipped or repeated". What it has received of the two packages
\* is in sequence and has no gap, and is all of them once the device is told that the
\* session is complete.
NothingSkipped ==
    ~scenario.lag =>
        /\ InSequence(client.inbox)
        /\ \A n \in Items(client.inbox) : 1 .. n \subseteq Items(client.inbox)
        /\ client.state = "done" => 1 .. N_GET + N_CONF \subseteq Items(client.inbox)

\* commit: the same for all failing calls, but a write that was all that an answer
\* still waited for, took effect and is reported failed.
DeliveredInOrder == used.missed = 0 => NothingSkipped

\* _acks and the remainder: when a session completes, each command of each of the
\* device's messages has been acknowledged exactly once, although an
\* acknowledgement may wait several messages and writes may fail and be retried.
\* The same exception.
AcksExact ==
    client.state = "done" /\ ~scenario.lag /\ used.missed = 0 =>
        AcksDiffer(client.inbox) /\ AcksIn(client.inbox) = client.owed

\* _absorb_device_values and _record_failures: neither splitting a package nor a
\* retry loses what the device reports. When a session completes, every inventory
\* value is stored, unless a configuration request that read the item before wrote
\* it back after; and no failed item is missing from the failures it ends with. The
\* same exception.
ReportsRecorded ==
    client.state = "done" /\ ~scenario.lag /\ used.missed = 0 =>
        /\ 1 .. N_GET \subseteq device \cup erased
        /\ client.reply.failures >= Cardinality(Refused)

\* _close and the abort path: once the device is told that the session is over,
\* completed or aborted, neither the session nor a remainder is left behind to
\* answer a later session under the same key.
ClosedLeavesNothing ==
    client.state \in {"done", "aborted"} => session = None /\ pending = None

\* _unauthorised and commit: a challenge that reached the device can be answered. The
\* nonce it holds is the one its session has, so long as the session lasts,
\* although challenges repeat, writes fail and the nonce changes with some of them.
\* And only by answering one is a device that sends digests given anything: no item
\* reaches it while it holds no nonce.
ChallengeAnswerable ==
    scheme = "md5" =>
        /\ client.nonce # 0 /\ client.state = "turn" =>
              session # None /\ session.nonce = client.nonce
        /\ client.nonce = 0 => client.inbox = <<>>

\* reported_failures: the failures counted when a session completes are those
\* the device reported.
FailuresExact == client.state = "done" => client.reply.failures = Cardinality(Refused)

\* Retried messages: a device that resends because the answer was lost receives
\* the next message of the package that the lost answer belonged to.
ResendStaysInPackage ==
    [][(client.state = "wait" /\ client.lost # {} /\ client'.inbox # client.inbox)
          => {e.k : e \in ToSet(client'.reply.body)} \ {"ack"} \subseteq client.lost]_vars

\* _header_status: the nonce changes with every authenticated message.
NonceRotates ==
    [][client.inbox # client'.inbox /\ scheme = "md5" => client'.nonce # client.nonce]_vars

\* Every session ends: completed, aborted or refused. Splitting, retries after
\* failed writes, challenges, resends and expiry never leave the device asking
\* for a next message for ever.
SessionEnds == <>(client.state \in {"done", "aborted", "failed"})
=============================================================================
