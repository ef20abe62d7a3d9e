-------------------------- MODULE DmSessionProofs --------------------------
(***************************************************************************)
(* Theorems about the OMA-DM session, for any number of items, any limits,   *)
(* any number of store failures and expiries, and reads that lag behind.     *)
(***************************************************************************)
EXTENDS DmSession, FiniteSetTheorems, TLAPS

\* A message is served by one handler at a time: there is only one, or no device gives up
\* waiting and sends again while the first handler is still at work.
Alone == (\E h : Handlers = {h}) \/ \A s \in Scenarios : s.resends = 0

-----------------------------------------------------------------------------
(* The shape of the state.                                                   *)

\* A remainder is never empty. It ends in a command, unless all that was left of a
\* finished session was to acknowledge.
Remains(p) ==
    /\ p.entries # <<>>
    /\ p.phase # "done" => p.entries[Len(p.entries)].k # "ack"
    /\ p.phase = "done" => \A i \in DOMAIN p.entries : p.entries[i].k = "ack"

Remainders == {p \in Packages : Remains(p)}

Writes == [op : {"putDevice"}, value : Values]
          \cup [op : {"putSession"}, value : Sessions] \cup [op : {"putPending"}, value : Remainders]
          \cup [op : {"delSession", "delPending"}, value : {None}]

Pcs == {"idle", "session", "reapSession", "auth", "pending", "reapPending", "device", "decide", "commit"}

Batches == Seq(Writes)
Locals == [pc : Pcs, live : BOOLEAN, msg : Msgs \cup {None}, sess : Sessions \cup {None},
           pend : Remainders \cup {None}, dev : Values, ops : Batches, reply : Replies \cup {None}]

States  == {"turn", "wait", "resend", "done", "aborted", "failed"}
Queues  == Seq(Entries)
Owing   == SUBSET Entries
Lost    == SUBSET {"get", "conf"}
Clients == [state : States, msg : Msgs \cup {None}, reply : Replies \cup {None}, inbox : Queues,
            owed : Owing, lost : Lost, nonce : Nat]

Stored ==
    /\ {session, oldSession} \subseteq Sessions \cup {None}
    /\ {pending, oldPending} \subseteq Remainders \cup {None}
    /\ device \in Values
    /\ recorder \in Values \cup {None}
    /\ life \in Nat

Sound(l) ==
    /\ l \in Locals
    /\ l.pc # "idle" => l.msg \in Msgs
    /\ l.pc \in {"auth", "pending", "reapPending", "device", "decide"} => l.sess \in Sessions
    /\ l.pc = "commit" => l.reply \in Replies

Served == handlers \in [Handlers -> Locals] /\ \A h \in Handlers : Sound(handlers[h])

Used == used \in [faults : Nat, resends : Nat, challenges : Nat, expiries : Nat, records : Nat, nonces : Nat,
                  missed : Nat]

Fixed == scheme \in SCHEMES /\ capacity \in CAPACITIES /\ scenario \in Scenarios

Types ==
    /\ Stored /\ Served /\ Used /\ Fixed
    /\ client \in Clients
    /\ \/ client.msg \in Msgs
       \/ client.state = "turn" /\ client.reply = None /\ \A h \in Handlers : handlers[h].pc = "idle"

-----------------------------------------------------------------------------
(* One handler at a time.                                                    *)

Busy(h) == handlers[h].pc # "idle"

OneAtATime ==
    /\ \A g, h \in Handlers : Busy(g) /\ Busy(h) => g = h
    /\ \A h \in Handlers : Busy(h) =>
          /\ handlers[h].msg = client.msg
          /\ client.state \in {"wait", "resend"}
          /\ handlers[h].live <=> client.state = "wait"
          /\ scenario.resends = 0 => client.state = "wait"

-----------------------------------------------------------------------------
(* How a session is closed.                                                  *)

NoCommand(body) == \A i \in DOMAIN body : body[i].k = "ack"

\* The answer after which the device counts the session as over.
Closes(r, m) == r.status = 200 /\ (m.kind = "abort" \/ (r.final /\ NoCommand(r.body)))

\* The writes that remain before such an answer take away what is left.
Clears(h) ==
    Closes(handlers[h].reply, handlers[h].msg) =>
        /\ \A w \in ToSet(handlers[h].ops) : w.op \notin {"putSession", "putPending"}
        /\ session # None => \E w \in ToSet(handlers[h].ops) : w.op = "delSession"
        /\ pending # None => \E w \in ToSet(handlers[h].ops) : w.op = "delPending"

Clearing == \A h \in Handlers : handlers[h].pc = "commit" => Clears(h)

CloseInv == Types /\ OneAtATime /\ Clearing /\ ClosedLeavesNothing

-----------------------------------------------------------------------------
(* The nonce of a session.                                                   *)

\* A device that was asked for digests sends nothing else that could be accepted, and
\* makes them with the nonce it holds.
DigestSent ==
    scheme = "md5" /\ client.state \in {"wait", "resend"} =>
        LET c == client.msg.cred IN
        /\ c.type = "basic" => c.password # "right"
        /\ c.type = "md5" => c.nonce = client.nonce

Past == {"pending", "reapPending", "device", "decide"}

\* A message that got past the credentials was made with the nonce of the session.
Passed(h) == handlers[h].pc \in Past => Accepted(handlers[h].sess, handlers[h].msg.cred)

Confirms(h) ==
    handlers[h].pc = "commit" /\ handlers[h].reply.status = 200
        => handlers[h].reply.nonce = client.nonce /\ client.nonce # 0

\* The writes that remain before an answer that goes on leave a session with the nonce
\* of the answer.
Keeps(h) ==
    LET r == handlers[h].reply IN
    handlers[h].pc = "commit" /\ r.status \in {200, 401} /\ ~Closes(r, handlers[h].msg) =>
        /\ r.nonce # 0
        /\ \A w \in ToSet(handlers[h].ops) :
              w.op # "delSession" /\ (w.op = "putSession" => w.value.nonce = r.nonce)
        /\ \/ \E w \in ToSet(handlers[h].ops) : w.op = "putSession"
           \/ session # None /\ session.nonce = r.nonce

NonceWork == scheme = "md5" => \A h \in Handlers : Passed(h) /\ Confirms(h) /\ Keeps(h)

NonceInv == Types /\ OneAtATime /\ DigestSent /\ NonceWork /\ ChallengeAnswerable

-----------------------------------------------------------------------------
(* Entries and packages.                                                     *)

LEMMA Sizes ==
    /\ N_GET \in Nat \ {0} /\ N_CONF \in Nat \ {0} /\ MAX_ACKS \in Nat \ {0}
    /\ MAX_MESSAGES \in Nat \ {0} /\ MAX_STORED \in Nat
BY SizesAssumption

LEMMA AcksShape ==
    ASSUME NEW m \in Msgs
    PROVE  /\ Acks(m) \in Seq(Entries) /\ Len(Acks(m)) = m.acks
           /\ \A i \in DOMAIN Acks(m) : Acks(m)[i].k = "ack"
           /\ ToSet(Acks(m)) \subseteq Entries
<1>1. m.acks \in Nat /\ m.id \in Nat
  BY DEF Msgs
<1>2. \A c \in 1 .. m.acks : Ack(m.id, c) \in Entries /\ Ack(m.id, c).k = "ack"
  BY <1>1 DEF Ack, Entries
<1>3. Acks(m) \in Seq(Entries) /\ Len(Acks(m)) = m.acks
  BY <1>1, <1>2 DEF Acks
<1>4. \A i \in DOMAIN Acks(m) : Acks(m)[i].k = "ack"
  BY <1>2 DEF Acks
<1>. QED
  BY <1>3, <1>4 DEF ToSet

LEMMA CommandsShape ==
    /\ Inventory \in Seq(Entries) /\ Len(Inventory) = N_GET
    /\ \A i \in 1 .. N_GET : Inventory[i] = Get(i)
    /\ Configuration \in Seq(Entries) /\ Len(Configuration) = N_CONF
    /\ \A i \in 1 .. N_CONF : Configuration[i] = Conf(i)
<1>1. \A n \in 1 .. N_GET : Get(n) \in Entries
  BY Sizes DEF Get, Entries
<1>2. \A n \in 1 .. N_CONF : Conf(n) \in Entries
  BY Sizes DEF Conf, Entries
<1>. QED
  BY <1>1, <1>2, Sizes DEF Inventory, Configuration

\* A queue is cut in two.
LEMMA Cut ==
    ASSUME NEW queue \in Seq(Entries), capacity \in Nat
    PROVE  /\ Sent(queue) \in Seq(Entries) /\ Rest(queue) \in Seq(Entries)
           /\ Len(Sent(queue)) = IF capacity < Len(queue) THEN capacity ELSE Len(queue)
           /\ Len(Rest(queue)) = Len(queue) - Len(Sent(queue))
           /\ \A i \in 1 .. Len(Sent(queue)) : Sent(queue)[i] = queue[i]
           /\ \A i \in 1 .. Len(Rest(queue)) : Rest(queue)[i] = queue[Len(Sent(queue)) + i]
<1>. DEFINE n == IF capacity < Len(queue) THEN capacity ELSE Len(queue)
<1>1. n \in 0 .. Len(queue)
  OBVIOUS
<1>2. Sent(queue) = SubSeq(queue, 1, n)
  BY DEF Sent
<1>. HIDE DEF n
<1>3. Sent(queue) \in Seq(Entries) /\ Len(Sent(queue)) = n
      /\ \A i \in 1 .. n : Sent(queue)[i] = queue[i]
  BY <1>1, <1>2
<1>4. Rest(queue) = SubSeq(queue, n + 1, Len(queue))
  BY <1>3 DEF Rest
<1>5. Rest(queue) \in Seq(Entries) /\ Len(Rest(queue)) = Len(queue) - n
      /\ \A i \in 1 .. Len(queue) - n : Rest(queue)[i] = queue[n + i]
  BY <1>1, <1>4
<1>. QED
  BY <1>3, <1>5 DEF n

\* What is kept of a queue is never empty, and ends as the queue does.
LEMMA RemainderShape ==
    ASSUME NEW s \in Sessions, NEW queue \in Seq(Entries), capacity \in Nat,
           s.phase # "done" => Len(queue) > 0 /\ queue[Len(queue)].k # "ack",
           s.phase = "done" => \A i \in DOMAIN queue : queue[i].k = "ack"
    PROVE  /\ Remainder(s, queue) \in Remainders \cup {None}
           /\ Rest(queue) = <<>> => Remainder(s, queue) = None
<1>1. ASSUME Rest(queue) # <<>> PROVE Remainder(s, queue) \in Remainders
  <2>. DEFINE p == [phase |-> s.phase, entries |-> Rest(queue), messages |-> 1, life |-> s.life]
  <2>1. Remainder(s, queue) = p
    BY <1>1 DEF Remainder
  <2>2. s.phase \in Phases /\ s.life \in Nat /\ Rest(queue) \in Seq(Entries)
    BY Cut DEF Sessions
  <2>3. p \in Packages
    BY <2>2 DEF Packages
  <2>4. Len(Rest(queue)) > 0
    BY <1>1, <2>2
  <2>c. /\ Sent(queue) \in Seq(Entries)
        /\ Len(Rest(queue)) = Len(queue) - Len(Sent(queue))
        /\ \A i \in 1 .. Len(Rest(queue)) : Rest(queue)[i] = queue[Len(Sent(queue)) + i]
    BY Cut
  <2>a. /\ Len(Sent(queue)) \in Nat /\ Len(Rest(queue)) \in Nat /\ Len(queue) \in Nat
        /\ Len(Rest(queue)) = Len(queue) - Len(Sent(queue))
        /\ DOMAIN Rest(queue) = 1 .. Len(Rest(queue)) /\ DOMAIN queue = 1 .. Len(queue)
    BY <2>2, <2>c
  <2>b. \A i \in 1 .. Len(Rest(queue)) :
          Rest(queue)[i] = queue[Len(Sent(queue)) + i] /\ Len(Sent(queue)) + i \in 1 .. Len(queue)
    BY <2>a, <2>c
  <2>5. s.phase # "done" => Rest(queue)[Len(Rest(queue))].k # "ack"
    BY <2>4, <2>a, <2>b
  <2>6. s.phase = "done" => \A i \in DOMAIN Rest(queue) : Rest(queue)[i].k = "ack"
    BY <2>a, <2>b
  <2>7. Remains(p)
    BY <1>1, <2>5, <2>6 DEF Remains
  <2>. QED
    BY <2>1, <2>3, <2>7 DEF Remainders
<1>. QED
  BY <1>1 DEF Remainder

-----------------------------------------------------------------------------
(* What is written, and in the end of which order.                           *)

Changes == [device : Values \cup {None}, session : Sessions \cup {None},
            pending : Remainders \cup {None}, dropPending : BOOLEAN, close : BOOLEAN,
            inRemainder : BOOLEAN]

LEMMA Joined ==
    ASSUME NEW S, NEW a \in Seq(S), NEW b \in Seq(S)
    PROVE  /\ a \o b \in Seq(S)
           /\ \A w : w \in ToSet(a \o b) <=> w \in ToSet(a) \/ w \in ToSet(b)
<1>1. a \o b \in Seq(S) /\ Len(a) \in Nat /\ Len(b) \in Nat /\ Len(a \o b) = Len(a) + Len(b)
      /\ DOMAIN a = 1 .. Len(a) /\ DOMAIN b = 1 .. Len(b) /\ DOMAIN (a \o b) = 1 .. Len(a) + Len(b)
  OBVIOUS
<1>2. \A i \in 1 .. Len(a) : (a \o b)[i] = a[i] /\ i \in 1 .. Len(a) + Len(b)
  BY <1>1
<1>3. \A i \in 1 .. Len(b) : (a \o b)[Len(a) + i] = b[i] /\ Len(a) + i \in 1 .. Len(a) + Len(b)
  BY <1>1
<1>4. \A i \in 1 .. Len(a) + Len(b) : i \in 1 .. Len(a) \/ (i - Len(a) \in 1 .. Len(b) /\ Len(a) + (i - Len(a)) = i)
  BY <1>1
<1>5. ASSUME NEW w PROVE w \in ToSet(a \o b) <=> w \in ToSet(a) \/ w \in ToSet(b)
  <2>1. w \in ToSet(a) => w \in ToSet(a \o b)
    BY <1>1, <1>2 DEF ToSet
  <2>2. w \in ToSet(b) => w \in ToSet(a \o b)
    BY <1>1, <1>3 DEF ToSet
  <2>3. ASSUME w \in ToSet(a \o b) PROVE w \in ToSet(a) \/ w \in ToSet(b)
    <3>1. PICK i \in 1 .. Len(a) + Len(b) : w = (a \o b)[i]
      BY <1>1, <2>3 DEF ToSet
    <3>2. CASE i \in 1 .. Len(a)
      BY <1>1, <1>2, <3>1, <3>2 DEF ToSet
    <3>3. CASE i - Len(a) \in 1 .. Len(b) /\ Len(a) + (i - Len(a)) = i
      <4>1. w = b[i - Len(a)]
        BY <1>3, <3>1, <3>3
      <4>. QED
        BY <1>1, <3>3, <4>1 DEF ToSet
    <3>. QED
      BY <1>4, <3>2, <3>3
  <2>. QED
    BY <2>1, <2>2, <2>3
<1>. QED
  BY <1>1, <1>5

LEMMA WhenShape ==
    ASSUME NEW cond \in BOOLEAN, NEW kind, NEW v, cond => [op |-> kind, value |-> v] \in Writes
    PROVE  /\ When(cond, Op(kind, v)) \in Seq(Writes)
           /\ \A w : w \in ToSet(When(cond, Op(kind, v))) <=> cond /\ w = [op |-> kind, value |-> v]
<1>. DEFINE x == [op |-> kind, value |-> v]
<1>1. CASE cond
  <2>1. When(cond, Op(kind, v)) = <<x>>
    BY <1>1 DEF When, Op
  <2>2. x \in Writes
    BY <1>1
  <2>. HIDE DEF x
  <2>3. <<x>> \in Seq(Writes) /\ \A w : w \in ToSet(<<x>>) <=> w = x
    BY <2>2 DEF ToSet
  <2>. QED
    BY <1>1, <2>1, <2>3 DEF x
<1>2. CASE ~cond
  <2>1. When(cond, Op(kind, v)) = <<>>
    BY <1>2 DEF When
  <2>. QED
    BY <1>2, <2>1 DEF ToSet
<1>. QED
  BY <1>1, <1>2

\* The writes that a change asks for, whatever their order.
LEMMA CommitShape ==
    ASSUME NEW ch \in Changes
    PROVE  /\ Commit(ch) \in Seq(Writes)
           /\ \A w : w \in ToSet(Commit(ch)) <=>
                \/ ch.device # None /\ w = [op |-> "putDevice", value |-> ch.device]
                \/ ch.session # None /\ w = [op |-> "putSession", value |-> ch.session]
                \/ ch.pending # None /\ w = [op |-> "putPending", value |-> ch.pending]
                \/ (ch.dropPending \/ ch.close) /\ w = [op |-> "delPending", value |-> None]
                \/ ch.close /\ w = [op |-> "delSession", value |-> None]
<1>. DEFINE dev  == When(ch.device # None, Op("putDevice", ch.device))
            drop == When(ch.dropPending, Op("delPending", None))
            rest == When(ch.pending # None, Op("putPending", ch.pending))
            gone == When(ch.close, Op("delPending", None))
            sess == When(ch.session # None, Op("putSession", ch.session))
            over == When(ch.close, Op("delSession", None))
<1>0. /\ ch.device \in Values \cup {None} /\ ch.session \in Sessions \cup {None}
      /\ ch.pending \in Remainders \cup {None} /\ ch.dropPending \in BOOLEAN /\ ch.close \in BOOLEAN
  BY DEF Changes
<1>1. dev \in Seq(Writes) /\ \A w : w \in ToSet(dev) <=> ch.device # None /\ w = [op |-> "putDevice", value |-> ch.device]
  <2>1. ch.device # None => [op |-> "putDevice", value |-> ch.device] \in Writes
    BY <1>0 DEF Writes
  <2>. QED
    BY <2>1, WhenShape
<1>2. drop \in Seq(Writes) /\ \A w : w \in ToSet(drop) <=> ch.dropPending /\ w = [op |-> "delPending", value |-> None]
  <2>1. [op |-> "delPending", value |-> None] \in Writes
    BY DEF Writes
  <2>. QED
    BY <1>0, <2>1, WhenShape
<1>3. rest \in Seq(Writes) /\ \A w : w \in ToSet(rest) <=> ch.pending # None /\ w = [op |-> "putPending", value |-> ch.pending]
  <2>1. ch.pending # None => [op |-> "putPending", value |-> ch.pending] \in Writes
    BY <1>0 DEF Writes
  <2>. QED
    BY <2>1, WhenShape
<1>4. gone \in Seq(Writes) /\ \A w : w \in ToSet(gone) <=> ch.close /\ w = [op |-> "delPending", value |-> None]
  <2>1. [op |-> "delPending", value |-> None] \in Writes
    BY DEF Writes
  <2>. QED
    BY <1>0, <2>1, WhenShape
<1>5. sess \in Seq(Writes) /\ \A w : w \in ToSet(sess) <=> ch.session # None /\ w = [op |-> "putSession", value |-> ch.session]
  <2>1. ch.session # None => [op |-> "putSession", value |-> ch.session] \in Writes
    BY <1>0 DEF Writes
  <2>. QED
    BY <2>1, WhenShape
<1>6. over \in Seq(Writes) /\ \A w : w \in ToSet(over) <=> ch.close /\ w = [op |-> "delSession", value |-> None]
  <2>1. [op |-> "delSession", value |-> None] \in Writes
    BY DEF Writes
  <2>. QED
    BY <1>0, <2>1, WhenShape
<1>7. Commit(ch) = dev \o (IF ch.inRemainder THEN (sess \o over) \o (drop \o rest \o gone)
                                             ELSE (drop \o rest \o gone) \o (sess \o over))
  BY DEF Commit, SaveSession, SaveRemainder
<1>. HIDE DEF dev, drop, rest, gone, sess, over
<1>8. drop \o rest \in Seq(Writes) /\ \A w : w \in ToSet(drop \o rest) <=> w \in ToSet(drop) \/ w \in ToSet(rest)
  BY <1>2, <1>3, Joined
<1>9. drop \o rest \o gone \in Seq(Writes)
      /\ \A w : w \in ToSet(drop \o rest \o gone) <=> w \in ToSet(drop \o rest) \/ w \in ToSet(gone)
  BY <1>4, <1>8, Joined
<1>10. sess \o over \in Seq(Writes) /\ \A w : w \in ToSet(sess \o over) <=> w \in ToSet(sess) \/ w \in ToSet(over)
  BY <1>5, <1>6, Joined
<1>. DEFINE a == drop \o rest \o gone
            b == sess \o over
<1>11. a \in Seq(Writes) /\ b \in Seq(Writes)
       /\ (\A w : w \in ToSet(a) <=> w \in ToSet(drop) \/ w \in ToSet(rest) \/ w \in ToSet(gone))
       /\ (\A w : w \in ToSet(b) <=> w \in ToSet(sess) \/ w \in ToSet(over))
  BY <1>8, <1>9, <1>10
<1>12. Commit(ch) = dev \o (IF ch.inRemainder THEN b \o a ELSE a \o b)
  BY <1>7
<1>. HIDE DEF a, b
<1>13. a \o b \in Seq(Writes) /\ b \o a \in Seq(Writes)
       /\ (\A w : w \in ToSet(a \o b) <=> w \in ToSet(a) \/ w \in ToSet(b))
       /\ (\A w : w \in ToSet(b \o a) <=> w \in ToSet(b) \/ w \in ToSet(a))
  BY <1>11, Joined
<1>. DEFINE c == IF ch.inRemainder THEN b \o a ELSE a \o b
<1>14. c \in Seq(Writes) /\ \A w : w \in ToSet(c) <=> w \in ToSet(a) \/ w \in ToSet(b)
  BY <1>13
<1>15. Commit(ch) = dev \o c
  BY <1>12
<1>. HIDE DEF c
<1>16. Commit(ch) \in Seq(Writes) /\ \A w : w \in ToSet(Commit(ch)) <=> w \in ToSet(dev) \/ w \in ToSet(c)
  BY <1>1, <1>14, <1>15, Joined
<1>17. ASSUME NEW w PROVE w \in ToSet(Commit(ch)) <=>
                \/ ch.device # None /\ w = [op |-> "putDevice", value |-> ch.device]
                \/ ch.session # None /\ w = [op |-> "putSession", value |-> ch.session]
                \/ ch.pending # None /\ w = [op |-> "putPending", value |-> ch.pending]
                \/ (ch.dropPending \/ ch.close) /\ w = [op |-> "delPending", value |-> None]
                \/ ch.close /\ w = [op |-> "delSession", value |-> None]
  <2>1. w \in ToSet(Commit(ch)) <=> w \in ToSet(dev) \/ w \in ToSet(drop) \/ w \in ToSet(rest)
                                    \/ w \in ToSet(gone) \/ w \in ToSet(sess) \/ w \in ToSet(over)
    BY <1>11, <1>14, <1>16
  <2>. QED
    BY <2>1, <1>1, <1>2, <1>3, <1>4, <1>5, <1>6
<1>. QED
  BY <1>16, <1>17

\* One write at a time.
LEMMA WriteSplits ==
    ASSUME NEW ops \in Seq(Writes), ops # <<>>
    PROVE  /\ Head(ops) \in Writes /\ Tail(ops) \in Seq(Writes)
           /\ \A w : w \in ToSet(ops) <=> w = Head(ops) \/ w \in ToSet(Tail(ops))
<1>1. Len(ops) \in Nat /\ Len(ops) > 0 /\ DOMAIN ops = 1 .. Len(ops) /\ Head(ops) = ops[1]
      /\ Tail(ops) \in Seq(Writes) /\ Len(Tail(ops)) = Len(ops) - 1 /\ DOMAIN Tail(ops) = 1 .. Len(ops) - 1
      /\ \A i \in 1 .. Len(ops) - 1 : Tail(ops)[i] = ops[i + 1]
  OBVIOUS
<1>2. Head(ops) \in Writes
  BY <1>1
<1>3. ASSUME NEW w \in ToSet(ops) PROVE w = Head(ops) \/ w \in ToSet(Tail(ops))
  <2>1. PICK i \in 1 .. Len(ops) : w = ops[i]
    BY <1>1, <1>3 DEF ToSet
  <2>2. i # 1 => i - 1 \in 1 .. Len(ops) - 1 /\ (i - 1) + 1 = i
    BY <1>1
  <2>3. i # 1 => w = Tail(ops)[i - 1]
    BY <1>1, <2>1, <2>2
  <2>. QED
    BY <1>1, <2>1, <2>2, <2>3 DEF ToSet
<1>4. \A i \in 1 .. Len(ops) - 1 : i + 1 \in 1 .. Len(ops)
  BY <1>1
<1>5. ASSUME NEW w, w = Head(ops) \/ w \in ToSet(Tail(ops)) PROVE w \in ToSet(ops)
  BY <1>1, <1>4, <1>5 DEF ToSet
<1>. QED
  BY <1>1, <1>2, <1>3, <1>5

LEMMA Applied ==
    ASSUME NEW w \in Writes, Apply(w)
    PROVE  /\ session' = IF w.op = "putSession" THEN w.value ELSE IF w.op = "delSession" THEN None ELSE session
           /\ pending' = IF w.op = "putPending" THEN w.value ELSE IF w.op = "delPending" THEN None ELSE pending
           /\ device' = IF w.op = "putDevice" THEN w.value ELSE device
           /\ UNCHANGED <<oldSession, oldPending, recorder, erased>>
           /\ w.op = "putSession" => w.value \in Sessions
           /\ w.op = "putPending" => w.value \in Remainders
           /\ w.op = "putDevice" => w.value \in Values
<1>1. session' = IF w.op = "putSession" THEN w.value ELSE IF w.op = "delSession" THEN None ELSE session
  BY Zenon DEF Apply
<1>2. pending' = IF w.op = "putPending" THEN w.value ELSE IF w.op = "delPending" THEN None ELSE pending
  BY Zenon DEF Apply
<1>3. device' = IF w.op = "putDevice" THEN w.value ELSE device
  BY DEF Apply
<1>4. UNCHANGED <<oldSession, oldPending, recorder, erased>>
  BY DEF Apply
<1>5. /\ w.op = "putSession" => w.value \in Sessions
      /\ w.op = "putPending" => w.value \in Remainders
      /\ w.op = "putDevice" => w.value \in Values
  BY DEF Writes
<1>. QED
  BY <1>1, <1>2, <1>3, <1>4, <1>5

-----------------------------------------------------------------------------
(* What a handler decides.                                                   *)

\* What the lemmas below need to know of a handler that has read all it needs.
Ready(h) ==
    /\ h \in Handlers /\ handlers[h] \in Locals /\ capacity \in Nat
    /\ handlers[h].msg \in Msgs /\ handlers[h].sess \in Sessions

LEMMA ReadyToDecide ==
    ASSUME Types, NEW h \in Handlers, handlers[h].pc \in {"auth", "pending", "reapPending", "device", "decide"}
    PROVE  Ready(h)
BY SizesAssumption DEF Ready, Types, Served, Sound, Fixed

LEMMA Routes ==
    ASSUME NEW h, Ready(h)
    PROVE  /\ handlers[h].msg.kind = "abort" => Route(h) = "end"
           /\ handlers[h].msg.kind # "abort" /\ handlers[h].pend # None /\ ~Stale(h) => Route(h) = "continue"
           /\ handlers[h].msg.kind # "abort" /\ (handlers[h].pend = None \/ Stale(h))
                => Route(h) = handlers[h].sess.phase /\ Route(h) \in Phases
           /\ Route(h) = "end" => handlers[h].msg.kind = "abort"
           /\ Route(h) = "continue" => /\ handlers[h].msg.kind # "abort"
                                       /\ handlers[h].pend \in Remainders
                                       /\ handlers[h].pend.phase = handlers[h].sess.phase
           /\ Route(h) \in Phases => /\ handlers[h].msg.kind # "abort"
                                     /\ Route(h) = handlers[h].sess.phase
                                     /\ handlers[h].pend = None \/ Stale(h)
<1>1. handlers[h].sess.phase \in Phases /\ "end" \notin Phases /\ "continue" \notin Phases
  BY DEF Ready, Sessions, Phases
<1>2. handlers[h].pend \in Remainders \cup {None}
  BY DEF Ready, Locals
<1>3. CASE handlers[h].msg.kind = "abort"
  <2>1. Route(h) = "end"
    BY <1>3, Zenon DEF Route
  <2>. QED
    BY <1>1, <1>3, <2>1
<1>4. CASE handlers[h].msg.kind # "abort" /\ handlers[h].pend # None /\ ~Stale(h)
  <2>1. Route(h) = "continue"
    BY <1>4, Zenon DEF Route
  <2>. QED
    BY <1>1, <1>2, <1>4, <2>1 DEF Stale
<1>5. CASE handlers[h].msg.kind # "abort" /\ (handlers[h].pend = None \/ Stale(h))
  <2>1. Route(h) = handlers[h].sess.phase
    BY <1>5, Zenon DEF Route
  <2>. QED
    BY <1>1, <1>5, <2>1
<1>. QED
  BY <1>3, <1>4, <1>5

LEMMA RefusalShape ==
    /\ \A status \in {400, 401, 413, 500} : Refusal(status) \in Replies /\ Refusal(status).status = status
    /\ NoChanges \in Changes /\ NoChanges.close = FALSE
<1>1. <<>> \in Seq(Entries)
  OBVIOUS
<1>2. \A status \in {400, 401, 413, 500} : Refusal(status) \in Replies /\ Refusal(status).status = status
  BY <1>1 DEF Refusal, Reply, Replies
<1>3. NoChanges \in Changes /\ NoChanges.close = FALSE
  BY DEF NoChanges, Changes
<1>. QED
  BY <1>2, <1>3

\* What is known of changes that only drop a stale remainder.
Bare(c) == /\ c \in Changes
           /\ c.device = None /\ c.session = None /\ c.pending = None
           /\ c.close = FALSE /\ c.inRemainder = FALSE

LEMMA Closing ==
    ASSUME NEW c, Bare(c)
    PROVE  LET d == [c EXCEPT !.close = TRUE] IN
           /\ d \in Changes /\ d.close = TRUE /\ d.dropPending = c.dropPending
           /\ d.device = None /\ d.session = None /\ d.pending = None /\ d.inRemainder = FALSE
BY DEF Changes, Bare

LEMMA BaseShape ==
    ASSUME NEW h
    PROVE  Bare(Base(h)) /\ (Base(h).dropPending <=> Stale(h))
<1>0. NoChanges \in Changes
  BY RefusalShape
<1>1. ASSUME NEW b \in BOOLEAN
      PROVE  Bare([NoChanges EXCEPT !.dropPending = b]) /\ [NoChanges EXCEPT !.dropPending = b].dropPending = b
  <2>. DEFINE c == [NoChanges EXCEPT !.dropPending = b]
  <2>1. c \in Changes /\ c.dropPending = b
    BY <1>0 DEF Changes
  <2>2. /\ c.device = NoChanges.device /\ c.session = NoChanges.session /\ c.pending = NoChanges.pending
        /\ c.close = NoChanges.close /\ c.inRemainder = NoChanges.inRemainder
    BY <1>0 DEF Changes
  <2>3. /\ NoChanges.device = None /\ NoChanges.session = None /\ NoChanges.pending = None
        /\ NoChanges.close = FALSE /\ NoChanges.inRemainder = FALSE
    BY DEF NoChanges
  <2>. QED
    BY <2>1, <2>2, <2>3 DEF Bare
<1>2. CASE Stale(h)
  <2>1. Base(h) = [NoChanges EXCEPT !.dropPending = TRUE]
    BY <1>2 DEF Base
  <2>. QED
    BY <1>1, <1>2, <2>1
<1>3. CASE ~Stale(h)
  <2>1. Base(h) = [NoChanges EXCEPT !.dropPending = FALSE]
    BY <1>3 DEF Base, Stale
  <2>. QED
    BY <1>1, <1>3, <2>1
<1>. QED
  BY <1>2, <1>3

LEMMA ReadShape ==
    ASSUME NEW h, Ready(h)
    PROVE  /\ Absorb(h) \in Values
           /\ Recorded(h) \in Sessions /\ Recorded(h).nonce = handlers[h].sess.nonce
           /\ Recorded(h).phase = handlers[h].sess.phase
           /\ HeaderNonce(h) \in Nat
           /\ Acks(handlers[h].msg) \in Seq(Entries)
           /\ Len(Acks(handlers[h].msg)) = handlers[h].msg.acks
           /\ \A i \in DOMAIN Acks(handlers[h].msg) : Acks(handlers[h].msg)[i].k = "ack"
<1>1. Absorb(h) \in Values
  BY DEF Absorb, Ready, Locals, Msgs, Values
<1>2. handlers[h].sess \in Sessions /\ handlers[h].msg.failed \in Nat
  BY DEF Ready, Msgs
<1>3. Recorded(h) \in Sessions /\ Recorded(h).nonce = handlers[h].sess.nonce
      /\ Recorded(h).phase = handlers[h].sess.phase
  BY <1>2 DEF Recorded, Sessions
<1>4. HeaderNonce(h) \in Nat
  BY <1>2 DEF HeaderNonce, Sessions
<1>. QED
  BY <1>1, <1>3, <1>4, AcksShape DEF Ready

\* A package that ends in a command is not taken for the end of the session, and one
\* with nothing but acknowledgements is, once all of it is sent.
LEMMA PackageEnds ==
    ASSUME NEW queue \in Seq(Entries), capacity \in Nat
    PROVE  /\ Rest(queue) = <<>> /\ Len(queue) > 0 /\ queue[Len(queue)].k # "ack" => ~NoCommand(Sent(queue))
           /\ (\A i \in DOMAIN queue : queue[i].k = "ack") => NoCommand(Sent(queue))
<1>1. /\ Sent(queue) \in Seq(Entries) /\ Rest(queue) \in Seq(Entries)
      /\ Len(Rest(queue)) = Len(queue) - Len(Sent(queue))
      /\ Len(Sent(queue)) = IF capacity < Len(queue) THEN capacity ELSE Len(queue)
      /\ \A i \in 1 .. Len(Sent(queue)) : Sent(queue)[i] = queue[i]
  BY Cut
<1>a. Len(Rest(queue)) = Len(queue) - Len(Sent(queue))
  BY <1>1
<1>b. \A i \in 1 .. Len(Sent(queue)) : Sent(queue)[i] = queue[i]
  BY <1>1
<1>2. Len(Sent(queue)) \in Nat /\ Len(queue) \in Nat /\ DOMAIN Sent(queue) = 1 .. Len(Sent(queue))
      /\ DOMAIN queue = 1 .. Len(queue) /\ Len(Sent(queue)) <= Len(queue)
  BY <1>1
<1>3. ASSUME Rest(queue) = <<>>, Len(queue) > 0, queue[Len(queue)].k # "ack" PROVE ~NoCommand(Sent(queue))
  <2>0. Len(Rest(queue)) = 0
    BY <1>3
  <2>1. Len(Sent(queue)) = Len(queue)
    BY <1>a, <1>2, <2>0
  <2>2. Len(queue) \in 1 .. Len(Sent(queue))
    BY <1>2, <1>3, <2>1
  <2>3. Len(queue) \in DOMAIN Sent(queue) /\ Sent(queue)[Len(queue)] = queue[Len(queue)]
    BY <1>1, <1>2, <2>2
  <2>. QED
    BY <1>3, <2>3 DEF NoCommand
<1>4. ASSUME \A i \in DOMAIN queue : queue[i].k = "ack" PROVE NoCommand(Sent(queue))
  <2>1. ASSUME NEW i \in 1 .. Len(Sent(queue)) PROVE Sent(queue)[i] = queue[i] /\ i \in 1 .. Len(queue)
    BY <1>b, <1>2
  <2>. QED
    BY <1>2, <1>4, <2>1 DEF NoCommand
<1>. QED
  BY <1>3, <1>4

\* Acknowledgements in front do not change how a queue ends.
LEMMA QueueEnds ==
    ASSUME NEW m \in Msgs, NEW entries \in Seq(Entries), Len(entries) > 0
    PROVE  LET queue == Acks(m) \o entries IN
           /\ queue \in Seq(Entries) /\ Len(queue) > 0
           /\ queue[Len(queue)] = entries[Len(entries)]
           /\ (\A i \in DOMAIN entries : entries[i].k = "ack") => \A i \in DOMAIN queue : queue[i].k = "ack"
<1>. DEFINE a == Acks(m)
<1>1. a \in Seq(Entries) /\ \A i \in DOMAIN a : a[i].k = "ack"
  BY AcksShape
<1>. HIDE DEF a
<1>2. /\ a \o entries \in Seq(Entries) /\ Len(a) \in Nat /\ Len(entries) \in Nat
      /\ Len(a \o entries) = Len(a) + Len(entries) /\ DOMAIN a = 1 .. Len(a)
      /\ DOMAIN (a \o entries) = 1 .. Len(a) + Len(entries) /\ DOMAIN entries = 1 .. Len(entries)
  BY <1>1
<1>3. (a \o entries)[Len(a) + Len(entries)] = entries[Len(entries)]
  BY <1>1, <1>2
<1>4. ASSUME \A i \in DOMAIN entries : entries[i].k = "ack", NEW i \in 1 .. Len(a) + Len(entries)
      PROVE  (a \o entries)[i].k = "ack"
  <2>1. CASE i <= Len(a)
    BY <1>1, <1>2, <2>1
  <2>2. CASE i > Len(a)
    <3>1. (a \o entries)[i] = entries[i - Len(a)] /\ i - Len(a) \in 1 .. Len(entries)
      BY <1>1, <1>2, <2>2
    <3>. QED
      BY <1>2, <1>4, <3>1
  <2>. QED
    BY <1>2, <2>1, <2>2
<1>. QED
  BY <1>2, <1>3, <1>4 DEF a

\* A handler decides on an answer and on what to write before it.
Decided(h, r, ch) ==
    handlers' = [handlers EXCEPT ![h] = [handlers[h] EXCEPT !.pc = "commit", !.ops = Commit(ch), !.reply = r]]

\* It lets a message pass: the session goes on with the nonce it had, or is closed
\* before an answer that says so.
Passes(h, r, ch) ==
    /\ r.status = 200
    /\ r.nonce = HeaderNonce(h)
    /\ Closes(r, handlers[h].msg) => ch.close = TRUE /\ ch.session = None /\ ch.pending = None
    /\ ~Closes(r, handlers[h].msg) => /\ ch.close = FALSE /\ ch.session \in Sessions
                                      /\ ch.session.nonce = handlers[h].sess.nonce

Outcome(h) ==
    \E r \in Replies, ch \in Changes :
        Decided(h, r, ch) /\ (r.status \in {400, 413} \/ Passes(h, r, ch))

LEMMA EmitShape ==
    ASSUME NEW h, Ready(h), NEW queue \in Seq(Entries), NEW required \in Nat, NEW failures \in Nat,
           NEW ch \in Changes, Emit(h, queue, required, failures, ch),
           LET final == Rest(queue) = <<>>
               over  == handlers[h].msg.kind = "abort" \/ (final /\ NoCommand(Sent(queue)))
           IN required <= capacity /\ over => ch.close = TRUE /\ ch.session = None /\ ch.pending = None,
           LET final == Rest(queue) = <<>>
               over  == handlers[h].msg.kind = "abort" \/ (final /\ NoCommand(Sent(queue)))
           IN required <= capacity /\ ~over => /\ ch.close = FALSE /\ ch.session \in Sessions
                                               /\ ch.session.nonce = handlers[h].sess.nonce
    PROVE  Outcome(h) /\ UNCHANGED <<items, life, client, fixed, used>>
<1>. DEFINE r == Reply(200, Sent(queue), Rest(queue) = <<>>, failures, HeaderNonce(h))
<1>1. UNCHANGED <<items, life, client, fixed, used>>
  BY DEF Emit, Decide, Only
<1>2. ASSUME NEW status \in {400, 413}, Decide(h, Refusal(status), NoChanges) PROVE Outcome(h)
  <2>1. Decided(h, Refusal(status), NoChanges)
    BY <1>2 DEF Decide, Only, Step, Decided
  <2>. QED
    BY <1>2, <2>1, RefusalShape DEF Outcome
<1>3. capacity \in Nat
  BY DEF Ready
<1>4. ASSUME required <= capacity, Decide(h, r, ch) PROVE Outcome(h)
  <2>. DEFINE body == Sent(queue)
              nonce == HeaderNonce(h)
  <2>1. body \in Seq(Entries) /\ nonce \in Nat
    BY <1>3, Cut, ReadShape
  <2>2. PICK final \in BOOLEAN : (final <=> Rest(queue) = <<>>) /\ r = Reply(200, body, final, failures, nonce)
    <3>1. CASE Rest(queue) = <<>>
      <4>1. r = Reply(200, body, TRUE, failures, nonce)
        BY <3>1
      <4>. QED
        BY <3>1, <4>1
    <3>2. CASE Rest(queue) # <<>>
      <4>1. r = Reply(200, body, FALSE, failures, nonce)
        BY <3>2
      <4>. QED
        BY <3>2, <4>1
    <3>. QED
      BY <3>1, <3>2
  <2>. HIDE DEF r
  <2>3. r \in Replies /\ r.status = 200 /\ r.body = body /\ r.final = final /\ r.nonce = nonce
    <3>. HIDE DEF body, nonce
    <3>. QED
      BY <2>1, <2>2 DEF Reply, Replies
  <2>4. Closes(r, handlers[h].msg) <=>
          handlers[h].msg.kind = "abort" \/ (Rest(queue) = <<>> /\ NoCommand(Sent(queue)))
    BY <2>2, <2>3 DEF Closes
  <2>5. Passes(h, r, ch)
    BY <1>4, <2>3, <2>4 DEF Passes
  <2>6. Decided(h, r, ch)
    BY <1>4 DEF Decide, Only, Step, Decided
  <2>. QED
    BY <2>3, <2>5, <2>6 DEF Outcome
<1>5. \/ \E status \in {400, 413} : Decide(h, Refusal(status), NoChanges)
      \/ required <= capacity /\ Decide(h, r, ch)
  BY <1>3 DEF Emit
<1>. QED
  BY <1>1, <1>2, <1>4, <1>5

LEMMA StartDecides ==
    ASSUME NEW h, Ready(h), handlers[h].msg.kind # "abort", NEW phase \in {"devinfo", "configure"},
           NEW entries \in Seq(Entries), Len(entries) > 0, entries[Len(entries)].k # "ack",
           Start(h, phase, Acks(handlers[h].msg) \o entries)
    PROVE  Outcome(h) /\ UNCHANGED <<items, life, client, fixed, used>>
<1>. DEFINE queue == Acks(handlers[h].msg) \o entries
            s == [handlers[h].sess EXCEPT !.phase = phase]
            c == Base(h)
            ch == [c EXCEPT !.device = Absorb(h), !.session = s, !.pending = Remainder(s, queue)]
<1>1. queue \in Seq(Entries) /\ Len(queue) > 0 /\ queue[Len(queue)].k # "ack"
  BY QueueEnds DEF Ready
<1>2. s \in Sessions /\ s.nonce = handlers[h].sess.nonce /\ s.phase = phase
  BY DEF Ready, Sessions, Phases
<1>3. Emit(h, queue, 1, 0, ch)
  BY DEF Start
<1>. HIDE DEF queue, s
<1>4. Remainder(s, queue) \in Remainders \cup {None}
  BY <1>1, <1>2, RemainderShape DEF Ready
<1>5. Bare(c) /\ Absorb(h) \in Values
  BY BaseShape, ReadShape
<1>. HIDE DEF c
<1>6. ch \in Changes /\ ch.close = FALSE /\ ch.session = s
  BY <1>2, <1>4, <1>5 DEF Bare, Changes
<1>. HIDE DEF ch
<1>7. ~(handlers[h].msg.kind = "abort" \/ (Rest(queue) = <<>> /\ NoCommand(Sent(queue))))
  BY <1>1, PackageEnds DEF Ready
<1>. QED
  BY <1>1, <1>2, <1>3, <1>6, <1>7, EmitShape

LEMMA FinishDecides ==
    ASSUME NEW h, Ready(h), HandleFinish(h)
    PROVE  Outcome(h) /\ UNCHANGED <<items, life, client, fixed, used>>
<1>. DEFINE queue == Acks(handlers[h].msg)
            s == [Recorded(h) EXCEPT !.phase = "done"]
            c == Base(h)
            required == IF queue = <<>> THEN 0 ELSE 1
            ch == IF Rest(queue) = <<>> THEN [c EXCEPT !.close = TRUE]
                                        ELSE [c EXCEPT !.session = s, !.pending = Remainder(s, queue)]
<1>0. Emit(h, queue, required, s.failures, ch)
  BY DEF HandleFinish
<1>1. queue \in Seq(Entries) /\ \A i \in DOMAIN queue : queue[i].k = "ack"
  BY ReadShape
<1>2. s \in Sessions /\ s.nonce = handlers[h].sess.nonce /\ s.phase = "done" /\ s.failures \in Nat
  BY ReadShape DEF Sessions, Phases
<1>3. handlers[h].msg.kind # "abort"
  BY Routes DEF HandleFinish, At, Phases
<1>4. required \in Nat
  OBVIOUS
<1>5. Bare(c)
  BY BaseShape
<1>. HIDE DEF queue, s, c, required
<1>6. Remainder(s, queue) \in Remainders \cup {None}
  BY <1>1, <1>2, RemainderShape DEF Ready
<1>7. Rest(queue) = <<>> => ch \in Changes /\ ch.close = TRUE /\ ch.session = None /\ ch.pending = None
  BY <1>5, Closing
<1>8. Rest(queue) # <<>> => ch \in Changes /\ ch.close = FALSE /\ ch.session = s
  BY <1>2, <1>5, <1>6 DEF Bare, Changes
<1>9. NoCommand(Sent(queue))
  BY <1>1, PackageEnds DEF Ready
<1>. HIDE DEF ch
<1>. QED
  BY <1>0, <1>1, <1>2, <1>3, <1>4, <1>7, <1>8, <1>9, EmitShape

LEMMA EndDecides ==
    ASSUME NEW h, Ready(h), HandleEnd(h)
    PROVE  Outcome(h) /\ UNCHANGED <<items, life, client, fixed, used>>
<1>. DEFINE queue == Acks(handlers[h].msg)
            c == Base(h)
            ch == [c EXCEPT !.close = TRUE]
<1>1. Emit(h, queue, Len(queue), 0, ch)
  BY DEF HandleEnd
<1>2. queue \in Seq(Entries) /\ Len(queue) \in Nat
  BY ReadShape
<1>3. handlers[h].msg.kind = "abort"
  BY Routes DEF HandleEnd, At
<1>4. ch \in Changes /\ ch.close = TRUE /\ ch.session = None /\ ch.pending = None
  BY BaseShape, Closing
<1>. HIDE DEF queue, ch
<1>. QED
  BY <1>1, <1>2, <1>3, <1>4, EmitShape

LEMMA ShrinkShape ==
    ASSUME NEW p \in Packages, NEW e \in Seq(Entries)
    PROVE  LET q == [p EXCEPT !.entries = e, !.messages = @ + 1] IN
           q \in Packages /\ q.entries = e /\ q.phase = p.phase /\ q.life = p.life /\ q.messages = p.messages + 1
<1>. DEFINE S == Seq(Entries)
            q == [p EXCEPT !.entries = e, !.messages = @ + 1]
<1>1. p \in [phase : Phases, entries : S, messages : Nat, life : Nat] /\ e \in S
  BY DEF Packages
<1>. HIDE DEF S
<1>2. q.entries = e /\ q.phase = p.phase /\ q.life = p.life /\ q.messages = p.messages + 1
  BY <1>1
<1>3. p.messages + 1 \in Nat
  BY <1>1
<1>4. q \in [phase : Phases, entries : S, messages : Nat, life : Nat]
  <2>. DEFINE m == p.messages + 1
  <2>1. m \in Nat
    BY <1>3
  <2>. HIDE DEF m
  <2>2. [p EXCEPT !.entries = e, !.messages = m] \in [phase : Phases, entries : S, messages : Nat, life : Nat]
    BY <1>1, <2>1
  <2>. QED
    BY <2>2 DEF m
<1>. QED
  BY <1>2, <1>4 DEF S, Packages

\* _continue_package: what it has to send, the session it goes on with, what then remains,
\* and whether that was all.
Queued(h)  == Acks(handlers[h].msg) \o handlers[h].pend.entries
Counted(h) == IF handlers[h].pend.phase \in {"configure", "done"} THEN Recorded(h) ELSE handlers[h].sess
Shrunk(h)  == IF Rest(Queued(h)) = <<>> THEN None
              ELSE [handlers[h].pend EXCEPT !.entries = Rest(Queued(h)), !.messages = @ + 1]
Over(h)    == Rest(Queued(h)) = <<>> /\ Counted(h).phase = "done"

LEMMA ContinuedShape ==
    ASSUME NEW h, Ready(h), Continue(h)
    PROVE  /\ handlers[h].msg.kind # "abort" /\ handlers[h].pend \in Remainders
           /\ handlers[h].pend.phase = handlers[h].sess.phase
           /\ Queued(h) \in Seq(Entries) /\ Len(Queued(h)) > 0
           /\ handlers[h].pend.phase # "done" => Queued(h)[Len(Queued(h))].k # "ack"
           /\ handlers[h].pend.phase = "done" => \A i \in DOMAIN Queued(h) : Queued(h)[i].k = "ack"
           /\ Counted(h) \in Sessions /\ Counted(h).nonce = handlers[h].sess.nonce
           /\ Counted(h).phase = handlers[h].pend.phase
           /\ Rest(Queued(h)) = <<>> /\ NoCommand(Sent(Queued(h))) <=> Over(h)
           /\ Recorded(h).failures \in Nat /\ RequiredNow(Len(Acks(handlers[h].msg))) \in Nat
           /\ \E ch \in Changes :
                /\ Emit(h, Queued(h), RequiredNow(Len(Acks(handlers[h].msg))), Recorded(h).failures, ch)
                /\ ch.device = Absorb(h) /\ ch.inRemainder = TRUE
                /\ ch.dropPending <=> Rest(Queued(h)) = <<>>
                /\ ch.pending = Shrunk(h)
                /\ ch.session = IF Over(h) THEN None ELSE Counted(h)
                /\ ch.close <=> Over(h)
<1>. DEFINE acks == Acks(handlers[h].msg)
            p == handlers[h].pend
            queue == Queued(h)
            s == Counted(h)
            over == Over(h)
            c == Base(h)
            rest == Shrunk(h)
            ch == Continued(h, queue)
<1>1. Emit(h, queue, RequiredNow(Len(acks)), Recorded(h).failures, ch)
  BY DEF Continue, Queued
<1>2. /\ handlers[h].msg.kind # "abort" /\ p \in Remainders
      /\ p.phase = handlers[h].sess.phase
  BY Routes DEF Continue, At
<1>3. p.entries \in Seq(Entries) /\ Len(p.entries) > 0 /\ p.phase \in Phases /\ p.messages \in Nat /\ Remains(p)
  BY <1>2 DEF Remainders, Packages, Remains
<1>4. /\ queue \in Seq(Entries) /\ Len(queue) > 0
      /\ p.phase # "done" => queue[Len(queue)].k # "ack"
      /\ p.phase = "done" => \A i \in DOMAIN queue : queue[i].k = "ack"
  BY <1>3, QueueEnds DEF Ready, Remains, Queued
<1>5. Absorb(h) \in Values /\ Recorded(h).failures \in Nat /\ RequiredNow(Len(acks)) \in Nat
  BY ReadShape DEF Sessions, RequiredNow
<1>6. s \in Sessions /\ s.nonce = handlers[h].sess.nonce /\ s.phase = p.phase
  BY <1>2, ReadShape DEF Ready, Counted
<1>7. rest \in Remainders \cup {None}
  <2>1. CASE Rest(queue) # <<>>
    <3>. DEFINE q == [p EXCEPT !.entries = Rest(queue), !.messages = @ + 1]
    <3>1. Rest(queue) \in Seq(Entries) /\ Len(Rest(queue)) > 0
      <4>1. Rest(queue) \in Seq(Entries)
        BY <1>4, Cut DEF Ready
      <4>. QED
        BY <2>1, <4>1
    <3>2. q \in Packages /\ q.entries = Rest(queue) /\ q.phase = p.phase
      <4>1. p \in Packages
        BY <1>2 DEF Remainders
      <4>. HIDE DEF p, queue
      <4>. QED
        BY <3>1, <4>1, ShrinkShape
    <3>3. /\ p.phase # "done" => Rest(queue)[Len(Rest(queue))].k # "ack"
          /\ p.phase = "done" => \A i \in DOMAIN Rest(queue) : Rest(queue)[i].k = "ack"
      <4>. HIDE DEF queue, s, p
      <4>1. Remainder(s, queue) \in Remainders \cup {None}
        BY <1>4, <1>6, RemainderShape DEF Ready
      <4>2. Remainder(s, queue) = [phase |-> s.phase, entries |-> Rest(queue), messages |-> 1, life |-> s.life]
        BY <2>1 DEF Remainder
      <4>3. Remainder(s, queue) # None
        <5>1. [phase |-> s.phase, entries |-> Rest(queue), messages |-> 1, life |-> s.life] \in Packages
          BY <1>6, <3>1 DEF Packages, Sessions
        <5>. QED
          BY <4>2, <5>1, NoneAssumption
      <4>4. Remains(Remainder(s, queue))
        BY <4>1, <4>3 DEF Remainders
      <4>. QED
        BY <1>6, <4>2, <4>4 DEF Remains
    <3>. HIDE DEF q
    <3>4. Remains(q)
      BY <2>1, <3>2, <3>3 DEF Remains
    <3>5. q \in Remainders
      BY <3>2, <3>4 DEF Remainders
    <3>. QED
      BY <2>1, <3>5 DEF q, Shrunk
  <2>2. CASE Rest(queue) = <<>>
    BY <2>2 DEF Shrunk
  <2>. QED
    BY <2>1, <2>2
<1>8. Bare(c)
  BY BaseShape
<1>9. ch = [c EXCEPT !.device = Absorb(h), !.inRemainder = TRUE, !.dropPending = (Rest(queue) = <<>>),
                     !.pending = rest, !.session = (IF over THEN None ELSE s), !.close = over]
  BY DEF Continued, Shrunk, Over, Counted
<1>10. PICK a \in BOOLEAN, b \in BOOLEAN :
         /\ a <=> Rest(queue) = <<>>
         /\ b <=> over
         /\ ch = [c EXCEPT !.device = Absorb(h), !.inRemainder = TRUE, !.dropPending = a,
                     !.pending = rest, !.session = (IF b THEN None ELSE s), !.close = b]
  <2>. HIDE DEF ch, c, rest, s
  <2>0. over => Rest(queue) = <<>>
    BY DEF Over
  <2>1. CASE over
    BY <1>9, <2>0, <2>1 DEF Over
  <2>2. CASE ~over /\ Rest(queue) = <<>>
    BY <1>9, <2>2 DEF Over
  <2>3. CASE ~over /\ Rest(queue) # <<>>
    BY <1>9, <2>3 DEF Over
  <2>. QED
    BY <2>1, <2>2, <2>3
<1>. HIDE DEF ch, c, rest, s
<1>11. /\ ch \in Changes /\ ch.close = b /\ ch.pending = rest /\ ch.device = Absorb(h)
       /\ ch.inRemainder = TRUE /\ ch.dropPending = a /\ ch.session = IF b THEN None ELSE s
  BY <1>5, <1>6, <1>7, <1>8, <1>10 DEF Bare, Changes
<1>12. Rest(queue) = <<>> /\ NoCommand(Sent(queue)) <=> over
  <2>1. over <=> Rest(queue) = <<>> /\ s.phase = "done"
    BY DEF Over, s
  <2>. HIDE DEF p
  <2>. QED
    BY <1>4, <1>6, <2>1, PackageEnds DEF Ready
<1>13. ch.session = IF over THEN None ELSE s
  BY <1>10, <1>11
<1>14. \E x \in Changes :
         /\ Emit(h, queue, RequiredNow(Len(acks)), Recorded(h).failures, x)
         /\ x.device = Absorb(h) /\ x.inRemainder = TRUE
         /\ x.dropPending <=> Rest(queue) = <<>>
         /\ x.pending = rest /\ x.session = (IF over THEN None ELSE s)
         /\ x.close <=> over
  BY <1>1, <1>10, <1>11, <1>13
<1>. QED
  BY <1>2, <1>4, <1>5, <1>6, <1>12, <1>14 DEF rest, s

LEMMA ContinueDecides ==
    ASSUME NEW h, Ready(h), Continue(h)
    PROVE  Outcome(h) /\ UNCHANGED <<items, life, client, fixed, used>>
<1>1. PICK ch \in Changes :
        /\ Emit(h, Queued(h), RequiredNow(Len(Acks(handlers[h].msg))), Recorded(h).failures, ch)
        /\ ch.pending = Shrunk(h) /\ ch.session = (IF Over(h) THEN None ELSE Counted(h))
        /\ ch.close <=> Over(h)
  BY ContinuedShape
<1>2. ch.close \in BOOLEAN
  BY DEF Changes
<1>3. Over(h) => Shrunk(h) = None
  BY DEF Over, Shrunk
<1>. QED
  BY <1>1, <1>2, <1>3, ContinuedShape, EmitShape

Decides(h) ==
    \/ RefuseCommands(h) \/ HandleInit(h) \/ RefuseInit(h) \/ HandleDevinfo(h) \/ HandleFinish(h)
    \/ HandleEnd(h) \/ Continue(h) \/ AbandonPackage(h)

LEMMA RefusedOutcome ==
    ASSUME NEW h, NEW status \in {400, 413}, NEW ch \in Changes, Decide(h, Refusal(status), ch)
    PROVE  Outcome(h) /\ UNCHANGED <<items, life, client, fixed, used>>
<1>1. Decided(h, Refusal(status), ch) /\ UNCHANGED <<items, life, client, fixed, used>>
  BY DEF Decide, Only, Step, Decided
<1>. QED
  BY <1>1, RefusalShape DEF Outcome

LEMMA DecidesOutcome ==
    ASSUME Types, NEW h \in Handlers, Decides(h)
    PROVE  /\ Ready(h) /\ handlers[h].pc \in {"auth", "decide"}
           /\ handlers[h].pc = "auth" => Accepted(handlers[h].sess, handlers[h].msg.cred)
           /\ Outcome(h) /\ UNCHANGED <<items, life, client, fixed, used>>
<1>1. handlers[h].pc \in {"auth", "decide"}
  BY DEF Decides, RefuseCommands, HandleInit, RefuseInit, HandleDevinfo, HandleFinish, HandleEnd, Continue,
         AbandonPackage, At
<1>2. handlers[h].pc = "auth" => Accepted(handlers[h].sess, handlers[h].msg.cred)
  BY DEF Decides, RefuseCommands, HandleInit, RefuseInit, HandleDevinfo, HandleFinish, HandleEnd, Continue,
         AbandonPackage, At
<1>3. Ready(h)
  BY <1>1, ReadyToDecide
<1>. DEFINE Goal == Outcome(h) /\ UNCHANGED <<items, life, client, fixed, used>>
<1>4. CASE RefuseCommands(h)
  <2>1. Decide(h, Refusal(413), NoChanges)
    BY <1>4 DEF RefuseCommands
  <2>2. Goal
    BY <2>1, RefusedOutcome, RefusalShape
  <2>. QED
    BY <1>1, <1>2, <1>3, <2>2
<1>5. CASE HandleInit(h)
  <2>1. Start(h, "devinfo", Acks(handlers[h].msg) \o Inventory) /\ handlers[h].msg.kind # "abort"
    BY <1>5 DEF HandleInit
  <2>2. Inventory \in Seq(Entries) /\ Len(Inventory) > 0 /\ Inventory[Len(Inventory)].k # "ack"
    BY CommandsShape, Sizes DEF Get
  <2>3. Goal
    BY <1>3, <2>1, <2>2, StartDecides
  <2>. QED
    BY <1>1, <1>2, <1>3, <2>3
<1>6. CASE RefuseInit(h)
  <2>1. Decide(h, Refusal(400), Base(h)) /\ Base(h) \in Changes
    BY <1>6, BaseShape DEF RefuseInit, Bare
  <2>2. Goal
    BY <2>1, RefusedOutcome
  <2>. QED
    BY <1>1, <1>2, <1>3, <2>2
<1>7. CASE HandleDevinfo(h)
  <2>1. Start(h, "configure", Acks(handlers[h].msg) \o Configuration) /\ handlers[h].msg.kind # "abort"
    BY <1>3, <1>7, Routes DEF HandleDevinfo, At, Phases
  <2>2. Configuration \in Seq(Entries) /\ Len(Configuration) > 0 /\ Configuration[Len(Configuration)].k # "ack"
    BY CommandsShape, Sizes DEF Conf
  <2>3. Goal
    BY <1>3, <2>1, <2>2, StartDecides
  <2>. QED
    BY <1>1, <1>2, <1>3, <2>3
<1>8. CASE HandleFinish(h)
  BY <1>1, <1>2, <1>3, <1>8, FinishDecides
<1>9. CASE HandleEnd(h)
  BY <1>1, <1>2, <1>3, <1>9, EndDecides
<1>10. CASE Continue(h)
  BY <1>1, <1>2, <1>3, <1>10, ContinueDecides
<1>11. CASE AbandonPackage(h)
  <2>1. Decide(h, Refusal(413), [Base(h) EXCEPT !.close = TRUE])
    BY <1>11 DEF AbandonPackage
  <2>2. [Base(h) EXCEPT !.close = TRUE] \in Changes
    BY BaseShape, Closing
  <2>3. Goal
    BY <2>1, <2>2, RefusedOutcome
  <2>. QED
    BY <1>1, <1>2, <1>3, <2>3
<1>. QED
  BY <1>4, <1>5, <1>6, <1>7, <1>8, <1>9, <1>10, <1>11 DEF Decides

\* A challenge is answered with the nonce that its session is put back with.
LEMMA ChallengeOutcome ==
    ASSUME Types, NEW h \in Handlers, Challenge(h)
    PROVE  /\ Ready(h) /\ handlers[h].pc = "auth"
           /\ UNCHANGED <<items, life, client, fixed>> /\ Used'
           /\ \E r \in Replies, ch \in Changes :
                /\ Decided(h, r, ch)
                /\ r.status = 401 /\ r.nonce # 0
                /\ ch.close = FALSE /\ ch.session \in Sessions /\ ch.session.nonce = r.nonce
<1>. DEFINE s == handlers[h].sess
            c == handlers[h].msg.cred
            nonce == IF Redraws(s, c) THEN used.nonces + 1 ELSE s.nonce
            r == [Refusal(401) EXCEPT !.nonce = nonce]
            t == [s EXCEPT !.nonce = nonce]
            ch == [NoChanges EXCEPT !.session = t]
<1>1. handlers[h].pc = "auth" /\ Ready(h)
  BY ReadyToDecide DEF Challenge
<1>2. s \in Sessions /\ used.nonces \in Nat
  BY <1>1 DEF Ready, Types, Used
<1>3. nonce \in Nat /\ nonce # 0
  BY <1>2 DEF Sessions, Redraws
<1>4. Used'
  <2>1. used' = [used EXCEPT !.nonces = IF Redraws(s, c) THEN @ + 1 ELSE @]
    BY DEF Challenge
  <2>. QED
    BY <2>1 DEF Types, Used
<1>5. Decided(h, r, ch) /\ UNCHANGED <<items, life, client, fixed>>
  BY DEF Challenge, Step, Decided, Challenged
<1>. HIDE DEF nonce, s
<1>6. r \in Replies /\ r.status = 401 /\ r.nonce = nonce
  <2>1. Refusal(401) \in Replies /\ Refusal(401).status = 401
    BY RefusalShape
  <2>. QED
    BY <1>3, <2>1 DEF Replies
<1>7. t \in Sessions /\ t.nonce = nonce
  BY <1>2, <1>3 DEF Sessions
<1>. HIDE DEF t, r
<1>8. ch \in Changes /\ ch.close = FALSE /\ ch.session = t
  <2>1. NoChanges \in Changes /\ NoChanges.close = FALSE
    BY RefusalShape
  <2>. QED
    BY <1>7, <2>1 DEF Changes
<1>. HIDE DEF ch
<1>. QED
  BY <1>1, <1>3, <1>4, <1>5, <1>6, <1>7, <1>8

-----------------------------------------------------------------------------
(* The device.                                                               *)

LEMMA EntryKinds ==
    ASSUME NEW e \in Entries
    PROVE  /\ e.k \in {"ack", "get", "conf"} /\ e.n \in Nat
           /\ e.k = "get" => e.n \in 1 .. N_GET
           /\ e.k = "conf" => e.n \in 1 .. N_CONF
BY Sizes DEF Entries

LEMMA BodyShape ==
    ASSUME NEW body \in Seq(Entries)
    PROVE  /\ Of("get", body) \in Values
           /\ Cardinality(Of("conf", body) \cap Refused) \in Nat
           /\ Of("get", body) \cup Of("conf", body) = {} <=> NoCommand(body)
           /\ {e.k : e \in ToSet(body)} \ {"ack"} \in SUBSET {"get", "conf"}
           /\ ToSet(body) \subseteq Entries
<1>1. \A i \in DOMAIN body : body[i] \in Entries
  OBVIOUS
<1>2. Of("get", body) \in Values
  BY <1>1, EntryKinds DEF Of, Values
<1>3. IsFiniteSet(1 .. N_CONF)
  BY Sizes, FS_Interval
<1>4. IsFiniteSet(Of("conf", body) \cap Refused)
  <2>1. Of("conf", body) \cap Refused \subseteq 1 .. N_CONF
    BY SizesAssumption
  <2>. QED
    BY <1>3, <2>1, FS_Subset
<1>5. Cardinality(Of("conf", body) \cap Refused) \in Nat
  BY <1>4, FS_CardinalityType
<1>6. Of("get", body) \cup Of("conf", body) = {} <=> NoCommand(body)
  <2>1. Of("get", body) = {} <=> \A i \in DOMAIN body : body[i].k # "get"
    BY DEF Of
  <2>2. Of("conf", body) = {} <=> \A i \in DOMAIN body : body[i].k # "conf"
    BY DEF Of
  <2>3. \A i \in DOMAIN body : body[i].k \in {"ack", "get", "conf"}
    BY <1>1, EntryKinds
  <2>. QED
    BY <2>1, <2>2, <2>3 DEF NoCommand
<1>7. ToSet(body) \subseteq Entries
  BY <1>1 DEF ToSet
<1>8. {e.k : e \in ToSet(body)} \ {"ack"} \in SUBSET {"get", "conf"}
  BY <1>7, EntryKinds
<1>. QED
  BY <1>2, <1>5, <1>6, <1>7, <1>8

LEMMA OwnShape ==
    ASSUME Types
    PROVE  /\ OwnCredentials \in Creds
           /\ scheme = "md5" => OwnCredentials.type = "md5" /\ OwnCredentials.nonce = client.nonce
           /\ \A c \in BadCredentials :
                c \in Creds /\ (c.type = "basic" => c.password # "right")
                /\ (c.type = "md5" => c.nonce = client.nonce)
<1>1. client.nonce \in Nat
  BY DEF Types, Clients
<1>2. OwnCredentials \in Creds
      /\ (scheme = "md5" => OwnCredentials.type = "md5" /\ OwnCredentials.nonce = client.nonce)
  BY <1>1 DEF OwnCredentials, Credentials, Creds
<1>3. ASSUME NEW c \in BadCredentials
      PROVE  c \in Creds /\ (c.type = "basic" => c.password # "right") /\ (c.type = "md5" => c.nonce = client.nonce)
  <2>1. PICK type \in {"none", "basic", "md5"}, password \in {"right", "wrong", "unknown"}, n \in Nat :
           /\ c = [type |-> type, password |-> password, nonce |-> n]
           /\ type = "basic" => password # "right"
           /\ type = "md5" => n = client.nonce
    BY <1>1, <1>3 DEF BadCredentials, Credentials
  <2>. QED
    BY <2>1 DEF Creds
<1>. QED
  BY <1>2, <1>3

LEMMA SentShape ==
    ASSUME Types, NEW m \in NextMessages
    PROVE  m \in Msgs /\ m.cred = OwnCredentials
<1>. DEFINE id == IF client.msg = None THEN 1 ELSE client.msg.id + 1
            body == IF client.reply = None THEN <<>> ELSE client.reply.body
<1>1. client \in Clients /\ (client.reply # None => client.msg \in Msgs /\ client.reply \in Replies)
  BY DEF Types, Clients
<1>2. id \in Nat
  BY <1>1 DEF Clients, Msgs
<1>3. body \in Seq(Entries)
  BY <1>1 DEF Replies
<1>4. OwnCredentials \in Creds
  BY OwnShape
<1>. DEFINE own == OwnCredentials
<1>5. ASSUME NEW kind \in {"init", "next", "reply", "abort"}, NEW a \in Nat
      PROVE  Message(kind, id, a, body, own) \in Msgs /\ Message(kind, id, a, body, own).cred = own
  <2>. DEFINE results == Of("get", body)
              failed == Cardinality(Of("conf", body) \cap Refused)
  <2>1. results \in Values /\ failed \in Nat
    BY <1>3, BodyShape
  <2>2. Message(kind, id, a, body, own) = [kind |-> kind, id |-> id, acks |-> a, results |-> results,
                                            failed |-> failed, cred |-> own]
    BY DEF Message
  <2>. HIDE DEF results, failed, id, own
  <2>. QED
    BY <1>2, <1>4, <2>1, <2>2 DEF Msgs, own
<1>6. CASE client.reply # None /\ client.reply.status = 401
  <2>1. m = [client.msg EXCEPT !.id = id, !.cred = own]
    BY <1>6 DEF NextMessages
  <2>2. client.msg \in Msgs
    BY <1>1, <1>6
  <2>. HIDE DEF id, own
  <2>. QED
    BY <1>2, <1>4, <2>1, <2>2 DEF Msgs, own
<1>7. CASE ~(client.reply # None /\ client.reply.status = 401)
  <2>1. NextKind(client.reply) \in {"init", "next", "reply"}
    BY DEF NextKind
  <2>2. OwnCommands(client.reply, EXTRA_ACKS) \subseteq Nat
    <3>1. \A x \in EXTRA_ACKS, a \in {0, 1} : x + a \in Nat /\ 1 + a \in Nat
      BY SizesAssumption
    <3>2. CASE client.reply = None
      BY <3>2, SizesAssumption DEF OwnCommands
    <3>3. CASE client.reply # None
      <4>1. ASSUME NEW a \in OwnCommands(client.reply, EXTRA_ACKS) PROVE a \in Nat
        <5>1. PICK x \in EXTRA_ACKS : a = (IF client.reply.final THEN x ELSE 1)
                                          + (IF Of("get", client.reply.body) = {} THEN 0 ELSE 1)
          BY <3>3, <4>1 DEF OwnCommands
        <5>. QED
          BY <3>1, <5>1
      <4>. QED
        BY <4>1
    <3>. QED
      BY <3>2, <3>3
  <2>3. \/ \E a \in OwnCommands(client.reply, EXTRA_ACKS) : m = Message(NextKind(client.reply), id, a, body, own)
        \/ m = Message("abort", id, 1, body, own)
    BY <1>7 DEF NextMessages
  <2>. HIDE DEF id, own, body
  <2>. QED
    BY <1>5, <2>1, <2>2, <2>3 DEF own
<1>. QED
  BY <1>6, <1>7

\* What the device makes of each answer.
LEMMA ReceivesShape ==
    ASSUME Types, NEW r \in Replies, NEW m \in Msgs, client.msg \in Msgs
    PROVE  LET c == Receives(r, m) IN
           /\ c \in Clients /\ c.msg = client.msg
           /\ c.state \in {"aborted", "done"} => Closes(r, m)
           /\ c.state = "turn" => r.status \in {200, 401} /\ ~Closes(r, m)
           /\ c.state # "wait" /\ (c.state = "resend" => c.nonce = client.nonce)
           /\ r.status = 401 => c.nonce = r.nonce /\ c.inbox = client.inbox
           /\ r.status = 200 => /\ c.nonce = IF r.nonce = 0 THEN client.nonce ELSE r.nonce
                                /\ c.inbox = client.inbox \o r.body
           /\ r.status \notin {200, 401} => c.nonce = client.nonce /\ c.inbox = client.inbox
<1>. DEFINE c == Receives(r, m)
<1>0. /\ client \in Clients /\ r.status \in {200, 400, 401, 413, 500} /\ r.body \in Seq(Entries)
      /\ r.nonce \in Nat /\ r.final \in BOOLEAN
  BY DEF Types, Replies
<1>. DEFINE M == Msgs \cup {None}
            R == Replies \cup {None}
<1>a. /\ Clients = [state : States, msg : M, reply : R, inbox : Queues, owed : Owing, lost : Lost, nonce : Nat]
      /\ r \in R
  BY DEF Clients
<1>b. "turn" \in States /\ "failed" \in States
  BY DEF States
<1>. HIDE DEF M, R
<1>1. CASE r.status = 500
  <2>a. r.status # 401 /\ r.status \notin {400, 413}
    BY <1>1
  <2>1. c = [client EXCEPT !.state = "resend"]
    BY <1>1, <2>a, Zenon DEF Receives
  <2>2. c \in Clients /\ c.msg = client.msg /\ c.state = "resend" /\ c.nonce = client.nonce /\ c.inbox = client.inbox
    <3>. HIDE DEF c
    <3>. QED
      BY <1>0, <2>1 DEF Clients, States
  <2>. HIDE DEF c
  <2>. QED
    BY <1>1, <2>2 DEF c
<1>2. CASE r.status = 401
  <2>1. r.status # 500 /\ r.status \notin {400, 413}
    BY <1>2
  <2>2. c = [client EXCEPT !.state = "turn", !.reply = r, !.nonce = r.nonce]
    BY <1>2, <2>1, Zenon DEF Receives
  <2>3. c \in Clients /\ c.msg = client.msg /\ c.state = "turn" /\ c.nonce = r.nonce /\ c.inbox = client.inbox
    <3>. HIDE DEF c
    <3>. QED
      BY <1>0, <1>a, <1>b, <2>2
  <2>. HIDE DEF c
  <2>. QED
    BY <1>2, <2>3 DEF Closes, c
<1>3. CASE r.status \in {400, 413}
  <2>1. r.status # 500 /\ r.status # 401 /\ r.status # 200
    BY <1>3
  <2>2. c = [client EXCEPT !.state = "failed", !.reply = r]
    BY <1>3, <2>1, Zenon DEF Receives
  <2>3. c \in Clients /\ c.msg = client.msg /\ c.state = "failed" /\ c.nonce = client.nonce /\ c.inbox = client.inbox
    <3>. HIDE DEF c
    <3>. QED
      BY <1>0, <1>a, <1>b, <2>2
  <2>. HIDE DEF c
  <2>. QED
    BY <1>3, <2>1, <2>3 DEF Closes, c
<1>4. CASE r.status = 200
  <2>. DEFINE commands == Of("get", r.body) \cup Of("conf", r.body)
              state == IF m.kind = "abort" THEN "aborted" ELSE IF r.final /\ commands = {} THEN "done" ELSE "turn"
              nonce == IF r.nonce = 0 THEN client.nonce ELSE r.nonce
              inbox == client.inbox \o r.body
              owed  == client.owed \cup ToSet(Acks(m))
  <2>1. r.status # 500 /\ r.status # 401 /\ r.status \notin {400, 413}
    BY <1>4
  <2>2. c = [client EXCEPT !.state = state, !.reply = r, !.nonce = nonce, !.inbox = inbox, !.owed = owed]
    BY <2>1, Zenon DEF Receives
  <2>3. state \in {"aborted", "done", "turn"} /\ (state \in {"aborted", "done"} <=> Closes(r, m))
    <3>1. commands = {} <=> NoCommand(r.body)
      BY <1>0, BodyShape
    <3>. HIDE DEF commands
    <3>. QED
      BY <1>4, <3>1 DEF Closes
  <2>4. nonce \in Nat
    BY <1>0 DEF Clients
  <2>5. inbox \in Queues
    BY <1>0 DEF Clients, Queues
  <2>6. owed \in Owing
    BY <1>0, AcksShape DEF Clients, Owing
  <2>7. c \in Clients /\ c.msg = client.msg /\ c.state = state /\ c.reply = r /\ c.nonce = nonce /\ c.inbox = inbox
    <3>1. state \in States
      BY <2>3 DEF States
    <3>. HIDE DEF c, state, nonce, inbox, owed
    <3>. QED
      BY <1>0, <1>a, <1>b, <2>2, <2>4, <2>5, <2>6, <3>1
  <2>. HIDE DEF c, state, nonce, inbox, owed
  <2>. QED
    BY <1>4, <2>1, <2>3, <2>7 DEF nonce, inbox, c
<1>5. r.status = 500 \/ r.status = 401 \/ r.status \in {400, 413} \/ r.status = 200
  BY <1>0
<1>. QED
  BY <1>1, <1>2, <1>3, <1>4, <1>5, Zenon

-----------------------------------------------------------------------------
(* The shape of the state is kept.                                           *)

LEMMA LocalsPc ==
    ASSUME NEW l \in Locals, NEW pc \in Pcs
    PROVE  [l EXCEPT !.pc = pc] \in Locals
<1>. DEFINE M == Msgs \cup {None}
            S == Sessions \cup {None}
            P == Remainders \cup {None}
            R == Replies \cup {None}
            L == [pc : Pcs, live : BOOLEAN, msg : M, sess : S, pend : P, dev : Values, ops : Batches, reply : R]
<1>1. Locals = L /\ l \in L
  BY DEF Locals
<1>. HIDE DEF M, S, P, R
<1>2. [l EXCEPT !.pc = pc] \in L
  BY <1>1
<1>. QED
  BY <1>1, <1>2

LEMMA LocalsSess ==
    ASSUME NEW l \in Locals, NEW pc \in Pcs, NEW s \in Sessions
    PROVE  [l EXCEPT !.pc = pc, !.sess = s] \in Locals
<1>. DEFINE M == Msgs \cup {None}
            S == Sessions \cup {None}
            P == Remainders \cup {None}
            R == Replies \cup {None}
            L == [pc : Pcs, live : BOOLEAN, msg : M, sess : S, pend : P, dev : Values, ops : Batches, reply : R]
<1>1. Locals = L /\ l \in L /\ s \in S
  BY DEF Locals
<1>. HIDE DEF M, S, P, R
<1>2. [l EXCEPT !.pc = pc, !.sess = s] \in L
  BY <1>1
<1>. QED
  BY <1>1, <1>2

LEMMA LocalsPend ==
    ASSUME NEW l \in Locals, NEW pc \in Pcs, NEW p \in Remainders \cup {None}
    PROVE  [l EXCEPT !.pc = pc, !.pend = p] \in Locals
<1>. DEFINE M == Msgs \cup {None}
            S == Sessions \cup {None}
            P == Remainders \cup {None}
            R == Replies \cup {None}
            L == [pc : Pcs, live : BOOLEAN, msg : M, sess : S, pend : P, dev : Values, ops : Batches, reply : R]
<1>1. Locals = L /\ l \in L /\ p \in P
  BY DEF Locals
<1>. HIDE DEF M, S, P, R
<1>2. [l EXCEPT !.pc = pc, !.pend = p] \in L
  BY <1>1
<1>. QED
  BY <1>1, <1>2

LEMMA LocalsDev ==
    ASSUME NEW l \in Locals, NEW pc \in Pcs, NEW d \in Values
    PROVE  [l EXCEPT !.pc = pc, !.dev = d] \in Locals
<1>. DEFINE M == Msgs \cup {None}
            S == Sessions \cup {None}
            P == Remainders \cup {None}
            R == Replies \cup {None}
            L == [pc : Pcs, live : BOOLEAN, msg : M, sess : S, pend : P, dev : Values, ops : Batches, reply : R]
<1>1. Locals = L /\ l \in L
  BY DEF Locals
<1>. HIDE DEF M, S, P, R
<1>2. [l EXCEPT !.pc = pc, !.dev = d] \in L
  BY <1>1
<1>. QED
  BY <1>1, <1>2

LEMMA LocalsOps ==
    ASSUME NEW l \in Locals, NEW ops \in Batches
    PROVE  [l EXCEPT !.ops = ops] \in Locals
<1>. DEFINE M == Msgs \cup {None}
            S == Sessions \cup {None}
            P == Remainders \cup {None}
            R == Replies \cup {None}
            L == [pc : Pcs, live : BOOLEAN, msg : M, sess : S, pend : P, dev : Values, ops : Batches, reply : R]
<1>1. Locals = L /\ l \in L
  BY DEF Locals
<1>. HIDE DEF M, S, P, R
<1>2. [l EXCEPT !.ops = ops] \in L
  BY <1>1
<1>. QED
  BY <1>1, <1>2

LEMMA LocalsCommit ==
    ASSUME NEW l \in Locals, NEW ops \in Batches, NEW r \in Replies
    PROVE  [l EXCEPT !.pc = "commit", !.ops = ops, !.reply = r] \in Locals
<1>. DEFINE M == Msgs \cup {None}
            S == Sessions \cup {None}
            P == Remainders \cup {None}
            R == Replies \cup {None}
            L == [pc : Pcs, live : BOOLEAN, msg : M, sess : S, pend : P, dev : Values, ops : Batches, reply : R]
<1>1. Locals = L /\ l \in L /\ r \in R /\ "commit" \in Pcs
  BY DEF Locals, Pcs
<1>. HIDE DEF M, S, P, R
<1>2. [l EXCEPT !.pc = "commit", !.ops = ops, !.reply = r] \in L
  BY <1>1
<1>. QED
  BY <1>1, <1>2

LEMMA LocalsDead ==
    ASSUME NEW l \in Locals
    PROVE  [l EXCEPT !.live = FALSE] \in Locals
<1>. DEFINE M == Msgs \cup {None}
            S == Sessions \cup {None}
            P == Remainders \cup {None}
            R == Replies \cup {None}
            L == [pc : Pcs, live : BOOLEAN, msg : M, sess : S, pend : P, dev : Values, ops : Batches, reply : R]
<1>1. Locals = L /\ l \in L
  BY DEF Locals
<1>. HIDE DEF M, S, P, R
<1>2. [l EXCEPT !.live = FALSE] \in L
  BY <1>1
<1>. QED
  BY <1>1, <1>2

LEMMA IdleShape ==
    /\ Sound(Idle) /\ Idle.pc = "idle"
    /\ \A m \in Msgs : LET l == [Idle EXCEPT !.pc = "session", !.live = TRUE, !.msg = m] IN
                       Sound(l) /\ l.pc = "session" /\ l.live = TRUE /\ l.msg = m
<1>1. <<>> \in Batches /\ {} \in Values
  BY DEF Batches, Values
<1>2. Idle \in Locals /\ Idle.pc = "idle"
  BY <1>1 DEF Idle, Locals, Pcs
<1>3. ASSUME NEW m \in Msgs
      PROVE  LET l == [Idle EXCEPT !.pc = "session", !.live = TRUE, !.msg = m] IN
             l \in Locals /\ l.pc = "session" /\ l.live = TRUE /\ l.msg = m
  BY <1>2 DEF Locals, Pcs
<1>. QED
  BY <1>2, <1>3 DEF Sound

LEMMA StepServed ==
    ASSUME Served, NEW h \in Handlers, NEW l, Sound(l), Step(h, l)
    PROVE  /\ Served' /\ handlers'[h] = l
           /\ \A g \in Handlers : g # h => handlers'[g] = handlers[g]
BY DEF Served, Step, Sound

Reads(h) ==
    ReadSession(h) \/ ReapSession(h) \/ Authenticate(h) \/ ReadPending(h) \/ ReapPending(h) \/ ReadDevice(h)

\* A read leaves the items as they are, or takes an expired one away, and only a message
\* that is accepted gets past the credentials.
LEMMA ReadEffect ==
    ASSUME Types, NEW h \in Handlers, Reads(h)
    PROVE  /\ handlers[h].pc \notin {"idle", "commit"}
           /\ UNCHANGED <<oldSession, oldPending, inventory, life, client, fixed, used>>
           /\ session' \in {session, None} /\ pending' \in {pending, None}
           /\ \E l : /\ Sound(l) /\ Step(h, l)
                     /\ l.pc \notin {"idle", "commit"} /\ l.live = handlers[h].live /\ l.msg = handlers[h].msg
                     /\ l.pc \in Past => \/ handlers[h].pc \in Past /\ l.sess = handlers[h].sess
                                         \/ Accepted(l.sess, l.msg.cred)
<1>. DEFINE l == handlers[h]
            Goal == /\ l.pc \notin {"idle", "commit"}
                    /\ UNCHANGED <<oldSession, oldPending, inventory, life, client, fixed, used>>
                    /\ session' \in {session, None} /\ pending' \in {pending, None}
                    /\ \E k : /\ Sound(k) /\ Step(h, k)
                              /\ k.pc \notin {"idle", "commit"} /\ k.live = l.live /\ k.msg = l.msg
                              /\ k.pc \in Past => \/ l.pc \in Past /\ k.sess = l.sess
                                                  \/ Accepted(k.sess, k.msg.cred)
<1>0. /\ l \in Locals /\ Sound(l) /\ life \in Nat
      /\ {session, oldSession} \subseteq Sessions \cup {None} /\ {pending, oldPending} \subseteq Remainders \cup {None}
      /\ device \in Values
  BY DEF Types, Served, Stored
<1>f. Fresh \in Sessions
  BY <1>0 DEF Fresh, Sessions, Phases
<1>. HIDE DEF l
<1>pc. {"session", "reapSession", "auth", "pending", "reapPending", "device", "decide"} \subseteq Pcs
  BY DEF Pcs
\* A new place with the same session.
<1>1. ASSUME NEW pc \in Pcs \ {"idle", "commit"}, NEW k,
             k = [l EXCEPT !.pc = pc] \/ (\E p \in Remainders \cup {None} : k = [l EXCEPT !.pc = pc, !.pend = p])
             \/ (\E d \in Values : k = [l EXCEPT !.pc = pc, !.dev = d]),
             l.pc \notin {"idle", "commit"},
             pc \in Past \cup {"auth"} => l.pc \in Past \cup {"auth"}
      PROVE  /\ Sound(k) /\ k.pc = pc /\ k.live = l.live /\ k.msg = l.msg /\ k.sess = l.sess
  <2>1. k.pc = pc /\ k.live = l.live /\ k.msg = l.msg /\ k.sess = l.sess
    BY <1>0, <1>1 DEF Locals
  <2>2. k \in Locals
    <3>0. pc \in Pcs
      OBVIOUS
    <3>1. CASE k = [l EXCEPT !.pc = pc]
      BY <1>0, <3>0, <3>1, LocalsPc, Zenon
    <3>2. CASE \E p \in Remainders \cup {None} : k = [l EXCEPT !.pc = pc, !.pend = p]
      <4>1. PICK p \in Remainders \cup {None} : k = [l EXCEPT !.pc = pc, !.pend = p]
        BY <3>2
      <4>2. [l EXCEPT !.pc = pc, !.pend = p] \in Locals
        BY <1>0, <3>0, LocalsPend, Zenon
      <4>. QED
        BY <4>1, <4>2, Zenon
    <3>3. CASE \E d \in Values : k = [l EXCEPT !.pc = pc, !.dev = d]
      <4>1. PICK d \in Values : k = [l EXCEPT !.pc = pc, !.dev = d]
        BY <3>3
      <4>2. [l EXCEPT !.pc = pc, !.dev = d] \in Locals
        BY <1>0, <3>0, LocalsDev, Zenon
      <4>. QED
        BY <4>1, <4>2, Zenon
    <3>. QED
      BY <1>1, <3>1, <3>2, <3>3
  <2>. QED
    BY <1>0, <1>1, <2>1, <2>2 DEF Sound, Past
\* The session is read.
<1>2. ASSUME NEW s \in Sessions, l.pc \notin {"idle", "commit"}
      PROVE  LET k == [l EXCEPT !.pc = "auth", !.sess = s] IN
             Sound(k) /\ k.pc = "auth" /\ k.live = l.live /\ k.msg = l.msg
  <2>. DEFINE k == [l EXCEPT !.pc = "auth", !.sess = s]
  <2>1. k.pc = "auth" /\ k.live = l.live /\ k.msg = l.msg /\ k.sess = s
    BY <1>0 DEF Locals
  <2>2. k \in Locals
    BY <1>0, LocalsSess, Zenon DEF Pcs
  <2>. HIDE DEF k
  <2>3. Sound(k)
    BY <1>0, <1>2, <2>1, <2>2 DEF Sound
  <2>. QED
    BY <2>1, <2>3 DEF k
<1>3. CASE ReadSession(h)
  <2>1. /\ l.pc = "session" /\ UNCHANGED <<items, life, client, fixed, used>>
        /\ \E s \in Sessions \cup {None} :
              Step(h, IF s # None /\ ~Live(s) THEN [l EXCEPT !.pc = "reapSession"]
                      ELSE [l EXCEPT !.pc = "auth", !.sess = IF s = None THEN Fresh ELSE s])
    BY <1>0, <1>3 DEF ReadSession, SessionReads, Only, l
  <2>2. UNCHANGED <<oldSession, oldPending, inventory, life, client, fixed, used>> /\ session' = session /\ pending' = pending
    BY <2>1 DEF items
  <2>3. PICK s \in Sessions \cup {None} :
              Step(h, IF s # None /\ ~Live(s) THEN [l EXCEPT !.pc = "reapSession"]
                      ELSE [l EXCEPT !.pc = "auth", !.sess = IF s = None THEN Fresh ELSE s])
    BY <2>1
  <2>4. CASE s # None /\ ~Live(s)
    <3>. DEFINE k == [l EXCEPT !.pc = "reapSession"]
    <3>1. Step(h, k)
      BY <2>3, <2>4
    <3>2. Sound(k) /\ k.pc = "reapSession" /\ k.live = l.live /\ k.msg = l.msg
      BY <1>1, <1>pc, <2>1 DEF Past
    <3>. HIDE DEF k
    <3>. QED
      BY <2>1, <2>2, <3>1, <3>2 DEF l, Past
  <2>5. CASE ~(s # None /\ ~Live(s))
    <3>. DEFINE t == IF s = None THEN Fresh ELSE s
                k == [l EXCEPT !.pc = "auth", !.sess = t]
    <3>1. t \in Sessions
      BY <1>f
    <3>2. Step(h, k)
      BY <2>3, <2>5
    <3>. HIDE DEF t
    <3>3. Sound(k) /\ k.pc = "auth" /\ k.live = l.live /\ k.msg = l.msg
      BY <1>2, <2>1, <3>1
    <3>. HIDE DEF k
    <3>. QED
      BY <2>1, <2>2, <3>2, <3>3 DEF l, Past
  <2>. QED
    BY <2>4, <2>5
<1>4. CASE ReapSession(h)
  <2>. DEFINE k == [l EXCEPT !.pc = "auth", !.sess = Fresh]
  <2>1. /\ l.pc = "reapSession" /\ session' = None /\ pending' = pending /\ Step(h, k)
        /\ UNCHANGED <<oldSession, oldPending, inventory, life, client, fixed, used>>
    BY <1>4 DEF ReapSession, l
  <2>2. Sound(k) /\ k.pc = "auth" /\ k.live = l.live /\ k.msg = l.msg
    BY <1>2, <1>f, <2>1
  <2>. HIDE DEF k
  <2>. QED
    BY <2>1, <2>2 DEF l, Past
<1>5. CASE Authenticate(h)
  <2>. DEFINE k == [l EXCEPT !.pc = "pending"]
  <2>1. /\ l.pc = "auth" /\ UNCHANGED <<items, life, client, fixed, used>> /\ Step(h, k) /\ Accepted(l.sess, l.msg.cred)
    BY <1>5 DEF Authenticate, Only, l
  <2>2. UNCHANGED <<oldSession, oldPending, inventory, life, client, fixed, used>> /\ session' = session /\ pending' = pending
    BY <2>1 DEF items
  <2>3. Sound(k) /\ k.pc = "pending" /\ k.live = l.live /\ k.msg = l.msg /\ k.sess = l.sess
    BY <1>1, <1>pc, <2>1 DEF Past
  <2>. HIDE DEF k
  <2>4. Accepted(k.sess, k.msg.cred)
    BY <2>1, <2>3
  <2>. QED
    BY <2>1, <2>2, <2>3, <2>4 DEF l, Past
<1>6. CASE ReadPending(h)
  <2>1. /\ l.pc = "pending" /\ UNCHANGED <<items, life, client, fixed, used>>
        /\ \E p \in Remainders \cup {None} :
              Step(h, IF p # None /\ ~Live(p) THEN [l EXCEPT !.pc = "reapPending"]
                      ELSE [l EXCEPT !.pc = "device", !.pend = p])
    BY <1>0, <1>6 DEF ReadPending, PendingReads, Only, l
  <2>2. UNCHANGED <<oldSession, oldPending, inventory, life, client, fixed, used>> /\ session' = session /\ pending' = pending
    BY <2>1 DEF items
  <2>3. PICK p \in Remainders \cup {None} :
              Step(h, IF p # None /\ ~Live(p) THEN [l EXCEPT !.pc = "reapPending"]
                      ELSE [l EXCEPT !.pc = "device", !.pend = p])
    BY <2>1
  <2>. DEFINE k == IF p # None /\ ~Live(p) THEN [l EXCEPT !.pc = "reapPending"]
                   ELSE [l EXCEPT !.pc = "device", !.pend = p]
  <2>4. Sound(k) /\ k.pc \in {"reapPending", "device"} /\ k.live = l.live /\ k.msg = l.msg /\ k.sess = l.sess
    <3>1. CASE p # None /\ ~Live(p)
      <4>1. k = [l EXCEPT !.pc = "reapPending"]
        BY <3>1
      <4>. HIDE DEF k
      <4>. QED
        BY <1>1, <1>pc, <2>1, <4>1 DEF Past
    <3>2. CASE ~(p # None /\ ~Live(p))
      <4>1. k = [l EXCEPT !.pc = "device", !.pend = p]
        BY <3>2
      <4>. HIDE DEF k
      <4>. QED
        BY <1>1, <1>pc, <2>1, <4>1 DEF Past
    <3>. QED
      BY <3>1, <3>2
  <2>5. Step(h, k)
    BY <2>3
  <2>. HIDE DEF k
  <2>. QED
    BY <2>1, <2>2, <2>4, <2>5 DEF l, Past
<1>7. CASE ReapPending(h)
  <2>. DEFINE k == [l EXCEPT !.pc = "device"]
  <2>1. /\ l.pc = "reapPending" /\ session' = session /\ pending' = None /\ Step(h, k)
        /\ UNCHANGED <<oldSession, oldPending, inventory, life, client, fixed, used>>
    BY <1>7 DEF ReapPending, l
  <2>2. Sound(k) /\ k.pc = "device" /\ k.live = l.live /\ k.msg = l.msg /\ k.sess = l.sess
    BY <1>1, <1>pc, <2>1 DEF Past
  <2>. HIDE DEF k
  <2>. QED
    BY <2>1, <2>2 DEF l, Past
<1>8. CASE ReadDevice(h)
  <2>. DEFINE d == IF Route(h) \in {"init", "devinfo", "continue"} THEN device ELSE {}
              k == [l EXCEPT !.pc = "decide", !.dev = d]
  <2>1. /\ l.pc = "device" /\ UNCHANGED <<items, life, client, fixed, used>> /\ Step(h, k)
    BY <1>8 DEF ReadDevice, Only, l
  <2>2. UNCHANGED <<oldSession, oldPending, inventory, life, client, fixed, used>> /\ session' = session /\ pending' = pending
    BY <2>1 DEF items
  <2>3. d \in Values
    BY <1>0 DEF Values
  <2>. HIDE DEF d
  <2>4. Sound(k) /\ k.pc = "decide" /\ k.live = l.live /\ k.msg = l.msg /\ k.sess = l.sess
    BY <1>1, <1>pc, <2>1, <2>3 DEF Past
  <2>. HIDE DEF k
  <2>. QED
    BY <2>1, <2>2, <2>4 DEF l, Past
<1>. QED
  BY <1>3, <1>4, <1>5, <1>6, <1>7, <1>8 DEF Reads

LEMMA SettleEffect ==
    ASSUME Types, NEW h \in Handlers, handlers[h].pc # "idle", NEW ops \in Batches, NEW r \in Replies,
           Step(h, [handlers[h] EXCEPT !.pc = "commit", !.ops = ops, !.reply = r])
    PROVE  /\ Served'
           /\ \A g \in Handlers : g # h => handlers'[g] = handlers[g]
           /\ handlers'[h].pc = "commit" /\ handlers'[h].live = handlers[h].live
           /\ handlers'[h].msg = handlers[h].msg /\ handlers'[h].ops = ops /\ handlers'[h].reply = r
<1>. DEFINE l == handlers[h]
            k == [l EXCEPT !.pc = "commit", !.ops = ops, !.reply = r]
<1>1. l \in Locals /\ Sound(l) /\ Served
  BY DEF Types, Served
<1>. HIDE DEF l
<1>2. k.pc = "commit" /\ k.live = l.live /\ k.msg = l.msg /\ k.ops = ops /\ k.reply = r
  BY <1>1 DEF Locals
<1>3. k \in Locals
  BY <1>1, LocalsCommit, Zenon
<1>4. Step(h, k)
  BY DEF l
<1>. HIDE DEF k
<1>5. Sound(k)
  BY <1>1, <1>2, <1>3 DEF Sound, l
<1>6. Served' /\ handlers'[h] = k /\ \A g \in Handlers : g # h => handlers'[g] = handlers[g]
  BY <1>1, <1>4, <1>5, StepServed
<1>. QED
  BY <1>2, <1>6 DEF l

LEMMA WriteEffect ==
    ASSUME Types, NEW h \in Handlers, Write(h)
    PROVE  /\ handlers[h].pc = "commit" /\ handlers[h].ops \in Seq(Writes) /\ handlers[h].ops # <<>>
           /\ Apply(Head(handlers[h].ops)) /\ UNCHANGED <<life, client, fixed, used>>
           /\ Served'
           /\ \A g \in Handlers : g # h => handlers'[g] = handlers[g]
           /\ handlers'[h].pc = "commit" /\ handlers'[h].live = handlers[h].live
           /\ handlers'[h].msg = handlers[h].msg /\ handlers'[h].ops = Tail(handlers[h].ops)
           /\ handlers'[h].reply = handlers[h].reply
<1>. DEFINE l == handlers[h]
            ops == Tail(l.ops)
            k == [l EXCEPT !.ops = ops]
<1>1. l \in Locals /\ Sound(l) /\ Served
  BY DEF Types, Served
<1>2. /\ l.pc = "commit" /\ l.ops # <<>> /\ Apply(Head(l.ops)) /\ UNCHANGED <<life, client, fixed, used>>
      /\ Step(h, k)
  BY DEF Write
<1>. HIDE DEF l
<1>3. l.ops \in Seq(Writes)
  BY <1>1 DEF Locals, Batches
<1>4. ops \in Batches
  BY <1>2, <1>3, WriteSplits DEF Batches
<1>. HIDE DEF ops
<1>5. k.pc = l.pc /\ k.live = l.live /\ k.msg = l.msg /\ k.ops = ops /\ k.reply = l.reply
  BY <1>1 DEF Locals
<1>6. k \in Locals
  BY <1>1, <1>4, LocalsOps, Zenon
<1>. HIDE DEF k
<1>7. Sound(k)
  BY <1>1, <1>2, <1>5, <1>6 DEF Sound
<1>8. Served' /\ handlers'[h] = k /\ \A g \in Handlers : g # h => handlers'[g] = handlers[g]
  BY <1>1, <1>2, <1>7, StepServed
<1>. QED
  BY <1>2, <1>3, <1>5, <1>8 DEF l, ops

LEMMA AnswerEffect ==
    ASSUME Types, NEW h \in Handlers, Answer(h)
    PROVE  /\ handlers[h].pc = "commit" /\ handlers[h].ops = <<>> /\ handlers[h].reply \in Replies /\ handlers[h].msg \in Msgs
           /\ UNCHANGED <<items, life, fixed, used>>
           /\ Served' /\ handlers'[h].pc = "idle"
           /\ \A g \in Handlers : g # h => handlers'[g] = handlers[g]
           /\ handlers[h].live => client' = Receives(handlers[h].reply, handlers[h].msg)
           /\ ~handlers[h].live => /\ client' \in Clients /\ client'.state = client.state /\ client'.msg = client.msg
                                   /\ client'.reply = client.reply /\ client'.nonce = client.nonce
                                   /\ client'.inbox = client.inbox
<1>1. /\ handlers[h].pc = "commit" /\ handlers[h].ops = <<>> /\ UNCHANGED <<items, life, fixed, used>>
      /\ Step(h, Idle)
      /\ handlers[h].live => client' = Receives(handlers[h].reply, handlers[h].msg)
      /\ ~handlers[h].live =>
            client' = [client EXCEPT !.lost = {e.k : e \in ToSet(handlers[h].reply.body)} \ {"ack"}]
  BY DEF Answer
<1>2. handlers[h] \in Locals /\ Sound(handlers[h]) /\ Served /\ client \in Clients
  BY DEF Types, Served
<1>3. handlers[h].reply \in Replies /\ handlers[h].msg \in Msgs
  BY <1>1, <1>2 DEF Sound
<1>4. Served' /\ handlers'[h] = Idle /\ \A g \in Handlers : g # h => handlers'[g] = handlers[g]
  BY <1>1, <1>2, IdleShape, StepServed
<1>. DEFINE x == {e.k : e \in ToSet(handlers[h].reply.body)} \ {"ack"}
<1>5. x \in Lost
  <2>1. handlers[h].reply.body \in Seq(Entries)
    BY <1>3 DEF Replies
  <2>. QED
    BY <2>1, BodyShape DEF Lost
<1>. HIDE DEF x
<1>6. ASSUME client' = [client EXCEPT !.lost = x]
      PROVE  /\ client' \in Clients /\ client'.state = client.state /\ client'.msg = client.msg
             /\ client'.reply = client.reply /\ client'.nonce = client.nonce /\ client'.inbox = client.inbox
  BY <1>2, <1>5, <1>6 DEF Clients
<1>. QED
  BY <1>1, <1>3, <1>4, <1>6, IdleShape DEF x

\* A handler begins with a message.
LEMMA ServeEffect ==
    ASSUME Types, NEW h \in Handlers, NEW m \in Msgs, Serve(h, m)
    PROVE  /\ Served' /\ handlers'[h].pc = "session" /\ handlers'[h].live = TRUE /\ handlers'[h].msg = m
           /\ \A g \in Handlers : g # h => handlers'[g] = handlers[g]
<1>. DEFINE l == [Idle EXCEPT !.pc = "session", !.live = TRUE, !.msg = m]
<1>1. Sound(l) /\ l.pc = "session" /\ l.live = TRUE /\ l.msg = m
  BY IdleShape
<1>2. Step(h, l) /\ Served
  BY DEF Serve, Step, Types
<1>. HIDE DEF l
<1>3. Served' /\ handlers'[h] = l /\ \A g \in Handlers : g # h => handlers'[g] = handlers[g]
  BY <1>1, <1>2, StepServed
<1>. QED
  BY <1>1, <1>3

\* The device sends: the first time, with credentials it should not use, or again.
Sends(h) == Send(h) \/ SendUnauthenticated(h) \/ Resend(h)

LEMMA SendEffect ==
    ASSUME Types, NEW h \in Handlers, Sends(h)
    PROVE  /\ handlers[h].pc = "idle" /\ UNCHANGED <<items, life, fixed>> /\ Used'
           /\ client.state \in {"turn", "resend"} /\ (client.state = "resend" => client'.msg = client.msg)
           /\ Served' /\ handlers'[h].pc = "session" /\ handlers'[h].live = TRUE
           /\ handlers'[h].msg = client'.msg /\ client'.msg \in Msgs
           /\ \A g \in Handlers : g # h => handlers'[g] = handlers[g]
           /\ client' \in Clients /\ client'.state = "wait" /\ client'.reply = client.reply
           /\ client'.nonce = client.nonce /\ client'.inbox = client.inbox
           /\ client.state = "turn" /\ scheme = "md5" =>
                /\ client'.msg.cred.type = "basic" => client'.msg.cred.password # "right"
                /\ client'.msg.cred.type = "md5" => client'.msg.cred.nonce = client.nonce
<1>0. client \in Clients /\ Used
  BY DEF Types
<1>1. ASSUME NEW m \in Msgs, client' = [client EXCEPT !.state = "wait", !.msg = m]
      PROVE  /\ client' \in Clients /\ client'.state = "wait" /\ client'.reply = client.reply /\ client'.msg = m
             /\ client'.nonce = client.nonce /\ client'.inbox = client.inbox
  <2>1. /\ client'.state = "wait" /\ client'.reply = client.reply /\ client'.msg = m
        /\ client'.nonce = client.nonce /\ client'.inbox = client.inbox
    BY <1>0, <1>1 DEF Clients
  <2>2. client' \in Clients
    <3>. DEFINE M == Msgs \cup {None}
                R == Replies \cup {None}
    <3>1. /\ Clients = [state : States, msg : M, reply : R, inbox : Queues, owed : Owing, lost : Lost, nonce : Nat]
          /\ m \in M /\ "wait" \in States
      BY DEF Clients, States
    <3>. HIDE DEF M, R
    <3>. QED
      BY <1>0, <1>1, <3>1
  <2>. QED
    BY <2>1, <2>2
<1>2. CASE Send(h)
  <2>1. /\ client.state = "turn" /\ handlers[h].pc = "idle" /\ UNCHANGED <<items, life, fixed, used>>
        /\ \E m \in NextMessages : client' = [client EXCEPT !.state = "wait", !.msg = m] /\ Serve(h, m)
    BY <1>2 DEF Send
  <2>2. PICK m \in NextMessages : client' = [client EXCEPT !.state = "wait", !.msg = m] /\ Serve(h, m)
    BY <2>1
  <2>3. m \in Msgs /\ m.cred = OwnCredentials
    BY SentShape
  <2>4. Used'
    BY <1>0, <2>1 DEF Used
  <2>5. /\ client' \in Clients /\ client'.state = "wait" /\ client'.reply = client.reply /\ client'.msg = m
        /\ client'.nonce = client.nonce /\ client'.inbox = client.inbox
    BY <1>1, <2>2, <2>3
  <2>6. /\ Served' /\ handlers'[h].pc = "session" /\ handlers'[h].live = TRUE /\ handlers'[h].msg = m
        /\ \A g \in Handlers : g # h => handlers'[g] = handlers[g]
    BY <2>2, <2>3, ServeEffect
  <2>. QED
    BY <2>1, <2>3, <2>4, <2>5, <2>6, OwnShape
<1>3. CASE SendUnauthenticated(h)
  <2>1. /\ client.state = "turn" /\ handlers[h].pc = "idle" /\ UNCHANGED <<items, life, fixed>>
        /\ used' = [used EXCEPT !.challenges = @ + 1]
        /\ \E m \in NextMessages, c \in BadCredentials :
              /\ client' = [client EXCEPT !.state = "wait", !.msg = [m EXCEPT !.cred = c]]
              /\ Serve(h, [m EXCEPT !.cred = c])
    BY <1>3 DEF SendUnauthenticated
  <2>2. PICK m \in NextMessages, c \in BadCredentials :
              /\ client' = [client EXCEPT !.state = "wait", !.msg = [m EXCEPT !.cred = c]]
              /\ Serve(h, [m EXCEPT !.cred = c])
    BY <2>1
  <2>. DEFINE n == [m EXCEPT !.cred = c]
  <2>3. n \in Msgs /\ n.cred = c
    <3>1. m \in Msgs /\ c \in Creds
      BY SentShape, OwnShape
    <3>. QED
      BY <3>1 DEF Msgs
  <2>4. Used'
    BY <1>0, <2>1 DEF Used
  <2>5. client' = [client EXCEPT !.state = "wait", !.msg = n] /\ Serve(h, n)
    BY <2>2
  <2>. HIDE DEF n
  <2>6. /\ client' \in Clients /\ client'.state = "wait" /\ client'.reply = client.reply /\ client'.msg = n
        /\ client'.nonce = client.nonce /\ client'.inbox = client.inbox
    BY <1>1, <2>3, <2>5
  <2>7. /\ Served' /\ handlers'[h].pc = "session" /\ handlers'[h].live = TRUE /\ handlers'[h].msg = n
        /\ \A g \in Handlers : g # h => handlers'[g] = handlers[g]
    BY <2>3, <2>5, ServeEffect
  <2>. QED
    BY <2>1, <2>3, <2>4, <2>6, <2>7, OwnShape
<1>4. CASE Resend(h)
  <2>1. /\ client.state = "resend" /\ handlers[h].pc = "idle" /\ UNCHANGED <<items, life, fixed, used>>
        /\ client' = [client EXCEPT !.state = "wait"] /\ Serve(h, client.msg)
    BY <1>4 DEF Resend
  <2>2. client.msg \in Msgs
    BY <2>1 DEF Types
  <2>3. /\ client' \in Clients /\ client'.state = "wait" /\ client'.reply = client.reply /\ client'.msg = client.msg
        /\ client'.nonce = client.nonce /\ client'.inbox = client.inbox
    BY <1>0, <2>1 DEF Clients, States
  <2>4. Used'
    BY <1>0, <2>1 DEF Used
  <2>5. /\ Served' /\ handlers'[h].pc = "session" /\ handlers'[h].live = TRUE /\ handlers'[h].msg = client.msg
        /\ \A g \in Handlers : g # h => handlers'[g] = handlers[g]
    BY <2>1, <2>2, ServeEffect
  <2>. QED
    BY <2>1, <2>2, <2>3, <2>4, <2>5
<1>. QED
  BY <1>2, <1>3, <1>4 DEF Sends

LEMMA TimeoutEffect ==
    ASSUME Types, Timeout
    PROVE  /\ client.state = "wait" /\ scenario.resends # 0 /\ UNCHANGED <<items, life, fixed>> /\ Used' /\ Served'
           /\ client' \in Clients /\ client'.state = "resend" /\ client'.msg = client.msg
           /\ client'.reply = client.reply /\ client'.nonce = client.nonce /\ client'.inbox = client.inbox
           /\ \A h \in Handlers : /\ handlers'[h].pc = handlers[h].pc /\ handlers'[h].live = FALSE
                                  /\ handlers'[h].msg = handlers[h].msg /\ handlers'[h].sess = handlers[h].sess
                                  /\ handlers'[h].ops = handlers[h].ops /\ handlers'[h].reply = handlers[h].reply
<1>1. /\ client.state = "wait" /\ used.resends < scenario.resends /\ UNCHANGED <<items, life, fixed>>
      /\ used' = [used EXCEPT !.resends = @ + 1] /\ client' = [client EXCEPT !.state = "resend"]
      /\ handlers' = [h \in Handlers |-> [handlers[h] EXCEPT !.live = FALSE]]
  BY DEF Timeout
<1>2. client \in Clients /\ Used /\ Served
  BY DEF Types
<1>3. scenario.resends # 0 /\ Used'
  BY <1>1, <1>2 DEF Used
<1>4. /\ client' \in Clients /\ client'.state = "resend" /\ client'.msg = client.msg
      /\ client'.reply = client.reply /\ client'.nonce = client.nonce /\ client'.inbox = client.inbox
  BY <1>1, <1>2 DEF Clients, States
<1>5. ASSUME NEW h \in Handlers
      PROVE  /\ Sound(handlers'[h])
             /\ handlers'[h].pc = handlers[h].pc /\ handlers'[h].live = FALSE
             /\ handlers'[h].msg = handlers[h].msg /\ handlers'[h].sess = handlers[h].sess
             /\ handlers'[h].ops = handlers[h].ops /\ handlers'[h].reply = handlers[h].reply
  <2>. DEFINE l == handlers[h]
              k == [l EXCEPT !.live = FALSE]
  <2>1. l \in Locals /\ Sound(l)
    BY <1>2 DEF Served
  <2>2. handlers'[h] = k
    BY <1>1
  <2>. HIDE DEF l
  <2>3. /\ k.pc = l.pc /\ k.live = FALSE /\ k.msg = l.msg /\ k.sess = l.sess
        /\ k.ops = l.ops /\ k.reply = l.reply
    BY <2>1 DEF Locals
  <2>4. k \in Locals
    BY <2>1, LocalsDead, Zenon
  <2>. HIDE DEF k
  <2>5. Sound(k)
    BY <2>1, <2>3, <2>4 DEF Sound
  <2>. QED
    BY <2>2, <2>3, <2>5 DEF l
<1>6. Served'
  <2>1. handlers' \in [Handlers -> Locals]
    <3>1. \A h \in Handlers : [handlers[h] EXCEPT !.live = FALSE] \in Locals
      BY <1>2, LocalsDead DEF Served
    <3>. QED
      BY <1>1, <3>1
  <2>. QED
    BY <1>5, <2>1 DEF Served
<1>. QED
  BY <1>1, <1>3, <1>4, <1>5, <1>6

\* What happens beside the session.
Background ==
    Expire \/ RecordRead \/ RecordWrite \/ ReplicateSession \/ ReplicatePending \/ UNCHANGED vars

LEMMA BackgroundEffect ==
    ASSUME Types, Background
    PROVE  UNCHANGED <<session, pending, handlers, client, fixed>> /\ Stored' /\ Used'
<1>1. CASE Expire
  BY <1>1 DEF Expire, items, inventory, Types, Stored, Used
<1>2. CASE RecordRead
  BY <1>2 DEF RecordRead, Types, Stored, Used
<1>3. CASE RecordWrite
  BY <1>3 DEF RecordWrite, Types, Stored, Used
<1>4. CASE ReplicateSession
  BY <1>4 DEF ReplicateSession, inventory, Types, Stored, Used
<1>5. CASE ReplicatePending
  BY <1>5 DEF ReplicatePending, inventory, Types, Stored, Used
<1>6. CASE UNCHANGED vars
  BY <1>6 DEF vars, items, inventory, Types, Stored, Used
<1>. QED
  BY <1>1, <1>2, <1>3, <1>4, <1>5, <1>6 DEF Background

\* A store call raises, whether it took effect or not.
Fails(h) == StoreFails(h) \/ WriteUnconfirmed(h)

LEMMA NextSplits ==
    ASSUME [Next]_vars
    PROVE  \/ \E h \in Handlers : \/ Reads(h) \/ Challenge(h) \/ Decides(h) \/ Write(h) \/ Answer(h)
                                  \/ Sends(h) \/ Fails(h)
           \/ Timeout \/ Background
<1>1. CASE \E h \in Handlers : \/ Serving(h) \/ Talking(h) \/ SendUnauthenticated(h)
                               \/ StoreFails(h) \/ WriteUnconfirmed(h)
  BY <1>1 DEF Serving, Talking, Reads, Decides, Sends, Fails
<1>2. CASE Timeout \/ Expire \/ RecordRead \/ RecordWrite \/ ReplicateSession \/ ReplicatePending
  BY <1>2 DEF Background
<1>3. CASE Terminated
  BY <1>3 DEF Terminated, Background
<1>. QED
  BY <1>1, <1>2, <1>3 DEF Next, Background

LEMMA FailEffect ==
    ASSUME Types, NEW h \in Handlers, Fails(h)
    PROVE  /\ handlers[h].pc # "idle" /\ UNCHANGED <<client, fixed>> /\ Used' /\ Stored' /\ Served'
           /\ \A g \in Handlers : g # h => handlers'[g] = handlers[g]
           /\ handlers'[h].pc = "commit" /\ handlers'[h].live = handlers[h].live
           /\ handlers'[h].msg = handlers[h].msg /\ handlers'[h].ops = <<>> /\ handlers'[h].reply = Refusal(500)
           /\ handlers'[h].reply.status = 500
<1>. DEFINE ops == <<>>
            r == Refusal(500)
<1>1. Stored /\ Used /\ \A g \in Handlers : handlers[g] \in Locals /\ Sound(handlers[g])
  BY DEF Types, Served
<1>2. /\ handlers[h].pc # "idle" /\ UNCHANGED <<client, fixed>> /\ Used' /\ Stored'
      /\ Step(h, [handlers[h] EXCEPT !.pc = "commit", !.ops = ops, !.reply = r])
  <2>1. CASE StoreFails(h)
    <3>1. /\ handlers[h].pc # "idle" /\ UNCHANGED <<items, life, client, fixed>>
          /\ used' = [used EXCEPT !.faults = @ + 1]
          /\ Step(h, [handlers[h] EXCEPT !.pc = "commit", !.ops = ops, !.reply = r])
      BY <2>1 DEF StoreFails
    <3>2. Used' /\ Stored'
      BY <1>1, <3>1 DEF Used, Stored, items, inventory
    <3>. QED
      BY <3>1, <3>2
  <2>2. CASE WriteUnconfirmed(h)
    <3>1. /\ handlers[h].pc = "commit" /\ handlers[h].ops # <<>> /\ UNCHANGED <<life, client, fixed>>
          /\ used' = [used EXCEPT !.faults = @ + 1,
                !.missed = IF Len(handlers[h].ops) = 1 /\ handlers[h].reply.status = 200 THEN @ + 1 ELSE @]
          /\ Apply(Head(handlers[h].ops)) /\ Step(h, [handlers[h] EXCEPT !.ops = <<>>, !.reply = Refusal(500)])
      BY <2>2 DEF WriteUnconfirmed
    <3>2. PICK n \in Nat, k \in Nat : used' = [used EXCEPT !.faults = k, !.missed = n]
      <4>1. used.faults + 1 \in Nat /\ used.missed \in Nat /\ used.missed + 1 \in Nat
        BY <1>1 DEF Used
      <4>. DEFINE n == IF Len(handlers[h].ops) = 1 /\ handlers[h].reply.status = 200
                       THEN used.missed + 1 ELSE used.missed
      <4>2. n \in Nat /\ used' = [used EXCEPT !.faults = used.faults + 1, !.missed = n]
        BY ONLY <1>1, <3>1, <4>1 DEF Used
      <4>. HIDE DEF n
      <4>. QED
        BY ONLY <4>1, <4>2
    <3>3. Used'
      BY <1>1, <3>2 DEF Used
    <3>4. [handlers[h] EXCEPT !.ops = ops, !.reply = r]
             = [handlers[h] EXCEPT !.pc = "commit", !.ops = ops, !.reply = r]
      <4>. HIDE DEF ops, r
      <4>. QED
        BY <1>1, <3>1 DEF Locals
    <3>5. handlers[h].ops \in Seq(Writes)
      BY <1>1, <3>1 DEF Locals, Batches
    <3>6. Head(handlers[h].ops) \in Writes
      BY <3>1, <3>5, WriteSplits
    <3>7. /\ session' \in Sessions \cup {None, session} /\ pending' \in Remainders \cup {None, pending}
          /\ device' \in Values \cup {device} /\ UNCHANGED <<oldSession, oldPending, recorder>>
      BY <3>1, <3>6, Applied
    <3>8. Stored'
      BY <1>1, <3>1, <3>7 DEF Stored
    <3>. QED
      BY <3>1, <3>3, <3>4, <3>8
  <2>. QED
    BY <2>1, <2>2 DEF Fails
<1>3. ops \in Batches /\ r \in Replies /\ r.status = 500
  BY RefusalShape DEF Batches
<1>4. Step(h, [handlers[h] EXCEPT !.pc = "commit", !.ops = ops, !.reply = r])
  BY <1>2
<1>. HIDE DEF ops, r
<1>5. /\ Served'
      /\ \A g \in Handlers : g # h => handlers'[g] = handlers[g]
      /\ handlers'[h].pc = "commit" /\ handlers'[h].live = handlers[h].live
      /\ handlers'[h].msg = handlers[h].msg /\ handlers'[h].ops = ops /\ handlers'[h].reply = r
  <2>1. handlers[h].pc # "idle" /\ ops \in Batches /\ r \in Replies
    BY <1>2, <1>3
  <2>. QED
    BY <1>4, <2>1, SettleEffect
<1>6. handlers'[h].reply.status = 500
  BY ONLY <1>3, <1>5
<1>7. handlers'[h].ops = <<>> /\ handlers'[h].reply = Refusal(500)
  BY ONLY <1>5 DEF ops, r
<1>. QED
  BY ONLY <1>2, <1>5, <1>6, <1>7

\* A handler that has decided.
LEMMA DecidedEffect ==
    ASSUME Types, NEW h \in Handlers, handlers[h].pc # "idle", NEW r \in Replies, NEW ch \in Changes, Decided(h, r, ch)
    PROVE  /\ Served'
           /\ \A g \in Handlers : g # h => handlers'[g] = handlers[g]
           /\ handlers'[h].pc = "commit" /\ handlers'[h].live = handlers[h].live
           /\ handlers'[h].msg = handlers[h].msg /\ handlers'[h].ops = Commit(ch) /\ handlers'[h].reply = r
<1>1. Commit(ch) \in Batches
  BY CommitShape DEF Batches
<1>2. Step(h, [handlers[h] EXCEPT !.pc = "commit", !.ops = Commit(ch), !.reply = r])
  BY DEF Decided, Step
<1>. QED
  BY <1>1, <1>2, SettleEffect

LEMMA StoredKept ==
    ASSUME Stored, UNCHANGED items, UNCHANGED life PROVE Stored'
BY DEF Stored, items, inventory

LEMMA TypesInit == Init => Types
<1>. SUFFICES ASSUME Init PROVE Types
  OBVIOUS
<1>1. Stored
  BY DEF Init, Stored, Values
<1>2. Used
  BY DEF Init, Used
<1>3. Fixed
  BY DEF Init, Fixed
<1>4. Served
  BY IdleShape DEF Init, Served, Sound
<1>5. client \in Clients /\ client.state = "turn" /\ client.reply = None
  <2>1. <<>> \in Queues /\ {} \in Owing /\ {} \in Lost /\ "turn" \in States
    BY DEF Queues, Owing, Lost, States
  <2>. QED
    BY <2>1 DEF Init, Clients
<1>6. \A h \in Handlers : handlers[h].pc = "idle"
  BY IdleShape DEF Init
<1>. QED
  BY <1>1, <1>2, <1>3, <1>4, <1>5, <1>6 DEF Types

LEMMA TypesKept == Types /\ [Next]_vars => Types'
<1>. SUFFICES ASSUME Types, [Next]_vars PROVE Types'
  OBVIOUS
<1>0. Stored /\ Served /\ Used /\ Fixed /\ client \in Clients
  BY DEF Types
<1>a. ASSUME UNCHANGED fixed PROVE Fixed'
  BY <1>0, <1>a DEF Fixed, fixed
<1>b. ASSUME UNCHANGED used PROVE Used'
  BY <1>0, <1>b DEF Used
<1>c. ASSUME NEW h \in Handlers, handlers[h].pc # "idle", UNCHANGED client
      PROVE  client' \in Clients /\ client'.msg \in Msgs
  BY <1>0, <1>c DEF Types
<1>1. ASSUME NEW h \in Handlers, Reads(h) PROVE Types'
  <2>1. /\ handlers[h].pc # "idle"
        /\ UNCHANGED <<oldSession, oldPending, inventory, life, client, fixed, used>>
        /\ session' \in {session, None} /\ pending' \in {pending, None}
        /\ \E l : Sound(l) /\ Step(h, l)
    BY <1>1, ReadEffect
  <2>2. Served'
    BY <1>0, <2>1, StepServed
  <2>3. Stored'
    BY <1>0, <2>1 DEF Stored, inventory
  <2>. QED
    BY <1>a, <1>b, <1>c, <2>1, <2>2, <2>3 DEF Types
<1>2. ASSUME NEW h \in Handlers, Challenge(h) PROVE Types'
  <2>1. /\ handlers[h].pc = "auth" /\ UNCHANGED <<items, life, client, fixed>> /\ Used'
    BY <1>2, ChallengeOutcome
  <2>a. PICK r \in Replies, ch \in Changes :
                /\ Decided(h, r, ch)
                /\ r.status = 401 /\ r.nonce # 0
                /\ ch.close = FALSE /\ ch.session \in Sessions /\ ch.session.nonce = r.nonce
    BY <1>2, ChallengeOutcome
  <2>2. Served'
    BY <2>1, <2>a, DecidedEffect
  <2>3. Stored'
    BY <1>0, <2>1, StoredKept
  <2>4. handlers[h].pc # "idle"
    BY <2>1
  <2>. QED
    BY <1>a, <1>c, <2>1, <2>2, <2>3, <2>4 DEF Types
<1>3. ASSUME NEW h \in Handlers, Decides(h) PROVE Types'
  <2>1. /\ handlers[h].pc # "idle" /\ UNCHANGED <<items, life, client, fixed, used>>
        /\ \E r \in Replies, ch \in Changes : Decided(h, r, ch)
    BY <1>3, DecidesOutcome DEF Outcome
  <2>2. Served'
    BY <2>1, DecidedEffect
  <2>3. Stored'
    BY <1>0, <2>1, StoredKept
  <2>. QED
    BY <1>a, <1>b, <1>c, <2>1, <2>2, <2>3 DEF Types
<1>4. ASSUME NEW h \in Handlers, Write(h) PROVE Types'
  <2>1. /\ handlers[h].pc # "idle" /\ handlers[h].ops \in Seq(Writes) /\ handlers[h].ops # <<>>
        /\ Apply(Head(handlers[h].ops)) /\ UNCHANGED <<life, client, fixed, used>> /\ Served'
    BY <1>4, WriteEffect
  <2>2. Head(handlers[h].ops) \in Writes
    BY <2>1, WriteSplits
  <2>3. /\ session' \in Sessions \cup {None, session} /\ pending' \in Remainders \cup {None, pending}
        /\ device' \in Values \cup {device} /\ UNCHANGED <<oldSession, oldPending, recorder>>
    BY <2>1, <2>2, Applied
  <2>4. Stored'
    BY <1>0, <2>1, <2>3 DEF Stored
  <2>. QED
    BY <1>a, <1>b, <1>c, <2>1, <2>4 DEF Types
<1>5. ASSUME NEW h \in Handlers, Answer(h) PROVE Types'
  <2>1. /\ handlers[h].reply \in Replies /\ handlers[h].msg \in Msgs /\ handlers[h].pc # "idle"
        /\ UNCHANGED <<items, life, fixed, used>> /\ Served'
        /\ handlers[h].live => client' = Receives(handlers[h].reply, handlers[h].msg)
        /\ ~handlers[h].live => client' \in Clients /\ client'.msg = client.msg
    BY <1>5, AnswerEffect
  <2>2. Stored'
    BY <1>0, <2>1, StoredKept
  <2>3. client.msg \in Msgs
    BY <2>1 DEF Types
  <2>4. client' \in Clients /\ client'.msg = client.msg
    <3>1. LET c == Receives(handlers[h].reply, handlers[h].msg) IN c \in Clients /\ c.msg = client.msg
      BY <2>1, <2>3, ReceivesShape, Zenon
    <3>. QED
      BY <2>1, <3>1
  <2>. QED
    BY <1>a, <1>b, <2>1, <2>2, <2>3, <2>4 DEF Types
<1>6. ASSUME NEW h \in Handlers, Sends(h) PROVE Types'
  <2>1. UNCHANGED <<items, life, fixed>> /\ Used' /\ Served' /\ client'.msg \in Msgs /\ client' \in Clients
    BY <1>6, SendEffect
  <2>2. Stored'
    BY <1>0, <2>1, StoredKept
  <2>. QED
    BY <1>a, <2>1, <2>2 DEF Types
<1>7. ASSUME NEW h \in Handlers, Fails(h) PROVE Types'
  <2>1. handlers[h].pc # "idle" /\ UNCHANGED <<client, fixed>> /\ Used' /\ Stored' /\ Served'
    BY <1>7, FailEffect
  <2>. QED
    BY <1>a, <1>c, <2>1 DEF Types
<1>8. ASSUME Timeout PROVE Types'
  <2>1. /\ UNCHANGED <<items, life, fixed>> /\ Used' /\ Served' /\ client' \in Clients /\ client'.msg = client.msg
        /\ client.state = "wait"
    BY <1>8, TimeoutEffect
  <2>2. Stored'
    BY <1>0, <2>1, StoredKept
  <2>3. client.msg \in Msgs
    BY <2>1 DEF Types
  <2>. QED
    BY <1>a, <2>1, <2>2, <2>3 DEF Types
<1>9. ASSUME Background PROVE Types'
  <2>1. UNCHANGED <<handlers, client, fixed>> /\ Stored' /\ Used'
    BY <1>9, BackgroundEffect
  <2>2. Served'
    BY <1>0, <2>1 DEF Served
  <2>. QED
    BY <1>0, <1>a, <2>1, <2>2 DEF Types
<1>. QED
  BY <1>1, <1>2, <1>3, <1>4, <1>5, <1>6, <1>7, <1>8, <1>9, NextSplits

-----------------------------------------------------------------------------
(* One handler at a time is kept.                                            *)

\* A handler takes a step and is not done yet.
GoesOn(h) ==
    /\ handlers[h].pc # "idle" /\ handlers'[h].pc # "idle"
    /\ handlers'[h].live = handlers[h].live /\ handlers'[h].msg = handlers[h].msg
    /\ \A g \in Handlers : g # h => handlers'[g] = handlers[g]
    /\ UNCHANGED <<client, fixed>>

LEMMA WorkGoesOn ==
    ASSUME Types, NEW h \in Handlers, Reads(h) \/ Challenge(h) \/ Decides(h) \/ Write(h) \/ Fails(h)
    PROVE  GoesOn(h)
<1>1. CASE Reads(h)
  <2>1. handlers[h].pc # "idle" /\ UNCHANGED <<client, fixed>>
    BY <1>1, ReadEffect
  <2>2. PICK l : /\ Sound(l) /\ Step(h, l)
                 /\ l.pc \notin {"idle", "commit"} /\ l.live = handlers[h].live /\ l.msg = handlers[h].msg
                 /\ l.pc \in Past => \/ handlers[h].pc \in Past /\ l.sess = handlers[h].sess
                                     \/ Accepted(l.sess, l.msg.cred)
    BY <1>1, ReadEffect
  <2>3. handlers'[h] = l /\ \A g \in Handlers : g # h => handlers'[g] = handlers[g]
    BY <2>2, StepServed DEF Types
  <2>. QED
    BY <2>1, <2>2, <2>3 DEF GoesOn
<1>2. CASE Challenge(h)
  <2>1. handlers[h].pc = "auth" /\ UNCHANGED <<items, life, client, fixed>>
    BY <1>2, ChallengeOutcome
  <2>2. PICK r \in Replies, ch \in Changes :
                /\ Decided(h, r, ch)
                /\ r.status = 401 /\ r.nonce # 0
                /\ ch.close = FALSE /\ ch.session \in Sessions /\ ch.session.nonce = r.nonce
    BY <1>2, ChallengeOutcome
  <2>3. handlers[h].pc # "idle"
    BY <2>1
  <2>4. /\ \A g \in Handlers : g # h => handlers'[g] = handlers[g]
        /\ handlers'[h].pc = "commit" /\ handlers'[h].live = handlers[h].live
        /\ handlers'[h].msg = handlers[h].msg
    BY <2>2, <2>3, DecidedEffect
  <2>. QED
    BY <2>1, <2>4 DEF GoesOn
<1>3. CASE Decides(h)
  <2>1. handlers[h].pc # "idle" /\ UNCHANGED <<items, life, client, fixed, used>> /\ Outcome(h)
    BY <1>3, DecidesOutcome
  <2>2. PICK r \in Replies, ch \in Changes : Decided(h, r, ch)
    BY <2>1 DEF Outcome
  <2>3. /\ \A g \in Handlers : g # h => handlers'[g] = handlers[g]
        /\ handlers'[h].pc = "commit" /\ handlers'[h].live = handlers[h].live
        /\ handlers'[h].msg = handlers[h].msg
    BY <2>1, <2>2, DecidedEffect
  <2>. QED
    BY <2>1, <2>3 DEF GoesOn
<1>4. CASE Write(h)
  BY <1>4, WriteEffect DEF GoesOn
<1>5. CASE Fails(h)
  BY <1>5, FailEffect DEF GoesOn
<1>. QED
  BY <1>1, <1>2, <1>3, <1>4, <1>5

\* While a message is served nobody else is, and the device waits for it or has given up.
LEMMA OneAtATimeKept == Alone /\ Types /\ OneAtATime /\ [Next]_vars => OneAtATime'
<1>. SUFFICES ASSUME Alone, Types, OneAtATime, [Next]_vars PROVE OneAtATime'
  OBVIOUS
<1>0. scenario \in Scenarios
  BY DEF Types, Fixed
<1>1. ASSUME NEW h \in Handlers, GoesOn(h) PROVE OneAtATime'
  <2>1. scenario' = scenario /\ client' = client
    BY <1>1 DEF GoesOn, fixed
  <2>2. \A g \in Handlers : Busy(g)' => Busy(g) /\ g = h
    BY <1>1 DEF GoesOn, Busy, OneAtATime
  <2>. QED
    BY <1>1, <2>1, <2>2 DEF GoesOn, Busy, OneAtATime
<1>2. ASSUME NEW h \in Handlers, Answer(h) PROVE OneAtATime'
  <2>1. /\ handlers[h].pc # "idle" /\ handlers'[h].pc = "idle"
        /\ \A g \in Handlers : g # h => handlers'[g] = handlers[g]
    BY <1>2, AnswerEffect
  <2>2. \A g \in Handlers : ~Busy(g)'
    BY <2>1 DEF Busy, OneAtATime
  <2>. QED
    BY <2>2 DEF OneAtATime
<1>3. ASSUME NEW h \in Handlers, Sends(h) PROVE OneAtATime'
  <2>1. /\ handlers[h].pc = "idle" /\ UNCHANGED fixed /\ client.state \in {"turn", "resend"}
        /\ handlers'[h].live = TRUE /\ handlers'[h].msg = client'.msg /\ client'.state = "wait"
        /\ \A g \in Handlers : g # h => handlers'[g] = handlers[g]
    BY <1>3, SendEffect
  <2>2. ASSUME NEW g \in Handlers, Busy(g) PROVE FALSE
    <3>1. client.state = "resend" /\ scenario.resends # 0
      BY <2>1, <2>2 DEF OneAtATime
    <3>2. g = h
      BY <1>0, <3>1 DEF Alone
    <3>. QED
      BY <2>1, <2>2, <3>2 DEF Busy
  <2>3. \A g \in Handlers : Busy(g)' => g = h
    BY <2>1, <2>2 DEF Busy
  <2>. QED
    BY <2>1, <2>3 DEF OneAtATime
<1>4. ASSUME Timeout PROVE OneAtATime'
  <2>1. /\ client'.state = "resend" /\ client'.msg = client.msg /\ scenario.resends # 0 /\ UNCHANGED fixed
        /\ \A h \in Handlers : handlers'[h].pc = handlers[h].pc /\ handlers'[h].live = FALSE
                               /\ handlers'[h].msg = handlers[h].msg
    BY <1>4, TimeoutEffect
  <2>. QED
    BY <2>1 DEF OneAtATime, Busy, fixed
<1>5. ASSUME Background PROVE OneAtATime'
  <2>1. UNCHANGED <<handlers, client, fixed>>
    BY <1>5, BackgroundEffect
  <2>. QED
    BY <2>1 DEF OneAtATime, Busy, fixed
<1>. QED
  BY <1>1, <1>2, <1>3, <1>4, <1>5, NextSplits, WorkGoesOn

LEMMA OneAtATimeInit == Init => OneAtATime
<1>1. Init => \A h \in Handlers : ~Busy(h)
  BY IdleShape DEF Init, Busy
<1>. QED
  BY <1>1 DEF OneAtATime

-----------------------------------------------------------------------------
(* Closing.                                                                  *)

LEMMA CloseKept == Alone /\ CloseInv /\ [Next]_vars => CloseInv'
<1>. SUFFICES ASSUME Alone, CloseInv, [Next]_vars PROVE CloseInv'
  OBVIOUS
<1>0. Types /\ OneAtATime /\ Clearing /\ ClosedLeavesNothing /\ Types' /\ OneAtATime'
  BY TypesKept, OneAtATimeKept DEF CloseInv
<1>. SUFFICES Clearing' /\ ClosedLeavesNothing'
  BY <1>0 DEF CloseInv
\* While a handler is at work only it is about to answer, and the session is not over.
<1>a. ASSUME NEW h \in Handlers, handlers'[h].pc # "idle", handlers'[h].pc = "commit" => Clears(h)'
      PROVE  Clearing' /\ ClosedLeavesNothing'
  <2>1. client'.state \notin {"done", "aborted"}
    BY <1>0, <1>a DEF OneAtATime, Busy
  <2>2. \A g \in Handlers : handlers'[g].pc = "commit" => g = h
    BY <1>0, <1>a DEF OneAtATime, Busy
  <2>. QED
    BY <1>a, <2>1, <2>2 DEF Clearing, ClosedLeavesNothing
<1>1. ASSUME NEW h \in Handlers, Reads(h) PROVE Clearing' /\ ClosedLeavesNothing'
  <2>1. PICK l : /\ Sound(l) /\ Step(h, l)
                 /\ l.pc \notin {"idle", "commit"} /\ l.live = handlers[h].live /\ l.msg = handlers[h].msg
                 /\ l.pc \in Past => \/ handlers[h].pc \in Past /\ l.sess = handlers[h].sess
                                     \/ Accepted(l.sess, l.msg.cred)
    BY <1>0, <1>1, ReadEffect
  <2>2. handlers'[h] = l
    BY <1>0, <2>1, StepServed DEF Types
  <2>. QED
    BY <1>a, <2>1, <2>2
<1>2. ASSUME NEW h \in Handlers, Challenge(h) PROVE Clearing' /\ ClosedLeavesNothing'
  <2>1. Ready(h) /\ handlers[h].pc = "auth"
    BY <1>0, <1>2, ChallengeOutcome
  <2>2. PICK r \in Replies, ch \in Changes :
                /\ Decided(h, r, ch)
                /\ r.status = 401 /\ r.nonce # 0
                /\ ch.close = FALSE /\ ch.session \in Sessions /\ ch.session.nonce = r.nonce
    BY <1>0, <1>2, ChallengeOutcome
  <2>3. handlers[h].pc # "idle"
    BY <2>1
  <2>4. handlers'[h].pc = "commit" /\ handlers'[h].reply = r
    BY <1>0, <2>2, <2>3, DecidedEffect
  <2>5. Clears(h)'
    BY <2>2, <2>4 DEF Clears, Closes
  <2>. QED
    BY <1>a, <2>4, <2>5
<1>3. ASSUME NEW h \in Handlers, Decides(h) PROVE Clearing' /\ ClosedLeavesNothing'
  <2>1. handlers[h].pc # "idle" /\ Outcome(h)
    BY <1>0, <1>3, DecidesOutcome
  <2>2. PICK r \in Replies, ch \in Changes : Decided(h, r, ch) /\ (r.status \in {400, 413} \/ Passes(h, r, ch))
    BY <2>1 DEF Outcome
  <2>3. /\ handlers'[h].pc = "commit" /\ handlers'[h].msg = handlers[h].msg
        /\ handlers'[h].ops = Commit(ch) /\ handlers'[h].reply = r
    BY <1>0, <2>1, <2>2, DecidedEffect
  <2>4. ASSUME Closes(r, handlers[h].msg)
        PROVE  /\ \A w \in ToSet(Commit(ch)) : w.op \notin {"putSession", "putPending"}
               /\ \E w \in ToSet(Commit(ch)) : w.op = "delSession"
               /\ \E w \in ToSet(Commit(ch)) : w.op = "delPending"
    <3>1. ch.close = TRUE /\ ch.session = None /\ ch.pending = None
      BY <2>2, <2>4 DEF Closes, Passes
    <3>2. \A w : w \in ToSet(Commit(ch)) <=>
                 \/ ch.device # None /\ w = [op |-> "putDevice", value |-> ch.device]
                 \/ ch.session # None /\ w = [op |-> "putSession", value |-> ch.session]
                 \/ ch.pending # None /\ w = [op |-> "putPending", value |-> ch.pending]
                 \/ (ch.dropPending \/ ch.close) /\ w = [op |-> "delPending", value |-> None]
                 \/ ch.close /\ w = [op |-> "delSession", value |-> None]
      BY CommitShape
    <3>3. /\ [op |-> "delPending", value |-> None] \in ToSet(Commit(ch))
          /\ [op |-> "delSession", value |-> None] \in ToSet(Commit(ch))
      BY <3>1, <3>2
    <3>4. \A w \in ToSet(Commit(ch)) : w.op \notin {"putSession", "putPending"}
      BY <3>1, <3>2
    <3>. QED
      BY <3>3, <3>4
  <2>5. Clears(h)'
    BY <2>3, <2>4 DEF Clears
  <2>. QED
    BY <1>a, <2>3, <2>5
<1>4. ASSUME NEW h \in Handlers, Write(h) PROVE Clearing' /\ ClosedLeavesNothing'
  <2>. DEFINE ops == handlers[h].ops
              w0  == Head(ops)
  <2>1. /\ handlers[h].pc = "commit" /\ ops \in Seq(Writes) /\ ops # <<>> /\ Apply(w0)
        /\ handlers'[h].pc = "commit" /\ handlers'[h].msg = handlers[h].msg
        /\ handlers'[h].ops = Tail(ops) /\ handlers'[h].reply = handlers[h].reply
    BY <1>0, <1>4, WriteEffect
  <2>2. w0 \in Writes /\ \A w : w \in ToSet(ops) <=> w = w0 \/ w \in ToSet(Tail(ops))
    BY <2>1, WriteSplits
  <2>3. /\ session' = IF w0.op = "putSession" THEN w0.value ELSE IF w0.op = "delSession" THEN None ELSE session
        /\ pending' = IF w0.op = "putPending" THEN w0.value ELSE IF w0.op = "delPending" THEN None ELSE pending
    BY <2>1, <2>2, Applied
  <2>4. Clears(h)
    BY <1>0, <2>1 DEF Clearing
  <2>. HIDE DEF w0, ops
  <2>5. Clears(h) <=> (Closes(handlers[h].reply, handlers[h].msg) =>
            /\ \A w \in ToSet(ops) : w.op \notin {"putSession", "putPending"}
            /\ session # None => \E w \in ToSet(ops) : w.op = "delSession"
            /\ pending # None => \E w \in ToSet(ops) : w.op = "delPending")
    BY DEF Clears, ops
  <2>6. Clears(h)' <=> (Closes(handlers[h].reply, handlers[h].msg) =>
            /\ \A w \in ToSet(Tail(ops)) : w.op \notin {"putSession", "putPending"}
            /\ session' # None => \E w \in ToSet(Tail(ops)) : w.op = "delSession"
            /\ pending' # None => \E w \in ToSet(Tail(ops)) : w.op = "delPending")
    BY <2>1 DEF Clears
  <2>7. Clears(h)'
    <3>. SUFFICES ASSUME Closes(handlers[h].reply, handlers[h].msg)
                  PROVE  /\ \A w \in ToSet(Tail(ops)) : w.op \notin {"putSession", "putPending"}
                         /\ session' # None => \E w \in ToSet(Tail(ops)) : w.op = "delSession"
                         /\ pending' # None => \E w \in ToSet(Tail(ops)) : w.op = "delPending"
      BY <2>6
    <3>1. /\ w0.op \notin {"putSession", "putPending"}
          /\ \A w \in ToSet(Tail(ops)) : w.op \notin {"putSession", "putPending"}
      BY <2>2, <2>4, <2>5
    <3>2. session' # None => \E w \in ToSet(Tail(ops)) : w.op = "delSession"
      <4>. SUFFICES ASSUME session' # None PROVE \E w \in ToSet(Tail(ops)) : w.op = "delSession"
        OBVIOUS
      <4>1. session # None /\ w0.op # "delSession"
        BY <2>3, <3>1
      <4>2. PICK w \in ToSet(ops) : w.op = "delSession"
        BY <2>4, <2>5, <4>1
      <4>. QED
        BY <2>2, <4>1, <4>2
    <3>3. pending' # None => \E w \in ToSet(Tail(ops)) : w.op = "delPending"
      <4>. SUFFICES ASSUME pending' # None PROVE \E w \in ToSet(Tail(ops)) : w.op = "delPending"
        OBVIOUS
      <4>1. pending # None /\ w0.op # "delPending"
        BY <2>3, <3>1
      <4>2. PICK w \in ToSet(ops) : w.op = "delPending"
        BY <2>4, <2>5, <4>1
      <4>. QED
        BY <2>2, <4>1, <4>2
    <3>. QED
      BY <3>1, <3>2, <3>3
  <2>. QED
    BY <1>a, <2>1, <2>7
<1>5. ASSUME NEW h \in Handlers, Fails(h) PROVE Clearing' /\ ClosedLeavesNothing'
  <2>1. handlers'[h].pc = "commit" /\ handlers'[h].reply.status = 500
    BY <1>0, <1>5, FailEffect
  <2>2. Clears(h)'
    BY <2>1 DEF Clears, Closes
  <2>. QED
    BY <1>a, <2>1, <2>2
<1>6. ASSUME NEW h \in Handlers, Answer(h) PROVE Clearing' /\ ClosedLeavesNothing'
  <2>. DEFINE r == handlers[h].reply
              m == handlers[h].msg
  <2>1. /\ handlers[h].pc = "commit" /\ handlers[h].ops = <<>> /\ r \in Replies /\ m \in Msgs
        /\ UNCHANGED <<items, life, fixed, used>> /\ handlers'[h].pc = "idle"
        /\ \A g \in Handlers : g # h => handlers'[g] = handlers[g]
        /\ handlers[h].live => client' = Receives(r, m)
        /\ ~handlers[h].live => client'.state = client.state
    BY <1>0, <1>6, AnswerEffect
  <2>2. \A g \in Handlers : handlers'[g].pc = "idle"
    BY <1>0, <2>1 DEF OneAtATime, Busy
  <2>3. Clearing'
    BY <2>2 DEF Clearing
  <2>4. client.msg = m /\ client.state \in {"wait", "resend"}
    BY <1>0, <2>1 DEF OneAtATime, Busy
  <2>5. session' = session /\ pending' = pending
    BY <2>1 DEF items
  <2>6. Closes(r, m) => session = None /\ pending = None
    <3>1. ToSet(handlers[h].ops) = {}
      BY <2>1 DEF ToSet
    <3>. QED
      BY <1>0, <2>1, <3>1 DEF Clearing, Clears
  <2>7. CASE ~handlers[h].live
    BY <2>1, <2>3, <2>4, <2>7 DEF ClosedLeavesNothing
  <2>8. CASE handlers[h].live
    <3>1. LET c == Receives(r, m) IN c.state \in {"aborted", "done"} => Closes(r, m)
      BY <1>0, <2>1, <2>4, ReceivesShape, Zenon
    <3>. QED
      BY <2>1, <2>3, <2>5, <2>6, <2>8, <3>1 DEF ClosedLeavesNothing
  <2>. QED
    BY <2>7, <2>8
<1>7. ASSUME NEW h \in Handlers, Sends(h) PROVE Clearing' /\ ClosedLeavesNothing'
  <2>1. handlers'[h].pc = "session"
    BY <1>0, <1>7, SendEffect
  <2>. QED
    BY <1>a, <2>1
<1>8. ASSUME Timeout PROVE Clearing' /\ ClosedLeavesNothing'
  <2>1. /\ client'.state = "resend" /\ UNCHANGED items
        /\ \A h \in Handlers : /\ handlers'[h].pc = handlers[h].pc
                               /\ handlers'[h].msg = handlers[h].msg
                               /\ handlers'[h].ops = handlers[h].ops /\ handlers'[h].reply = handlers[h].reply
    BY <1>0, <1>8, TimeoutEffect
  <2>2. ClosedLeavesNothing'
    BY <2>1 DEF ClosedLeavesNothing
  <2>3. session' = session /\ pending' = pending
    BY <2>1 DEF items
  <2>. QED
    BY <1>0, <2>1, <2>2, <2>3 DEF Clearing, Clears
<1>9. ASSUME Background PROVE Clearing' /\ ClosedLeavesNothing'
  <2>1. UNCHANGED <<session, pending, handlers, client>>
    BY <1>0, <1>9, BackgroundEffect
  <2>. QED
    BY <1>0, <2>1 DEF Clearing, Clears, ClosedLeavesNothing
<1>. QED
  BY <1>1, <1>2, <1>3, <1>4, <1>5, <1>6, <1>7, <1>8, <1>9, NextSplits

LEMMA CloseInit == Init => CloseInv
<1>1. Init => \A h \in Handlers : handlers[h].pc = "idle"
  BY IdleShape DEF Init
<1>2. Init => Clearing
  BY <1>1 DEF Clearing
<1>3. Init => ClosedLeavesNothing
  BY DEF Init, ClosedLeavesNothing
<1>. QED
  BY <1>2, <1>3, TypesInit, OneAtATimeInit DEF CloseInv

\* Once the device is told that its session is over, completed or aborted, neither the session
\* nor a remainder is left to answer a later one: whatever store calls failed, items expired or
\* reads lagged before, so long as no two handlers serve the session at once.
THEOREM ClosedSessionsLeaveNothing ==
    ASSUME Alone
    PROVE  Spec => []ClosedLeavesNothing
<1>1. CloseInv => ClosedLeavesNothing
  BY DEF CloseInv
<1>. QED
  BY <1>1, CloseInit, CloseKept, PTL DEF Spec

-----------------------------------------------------------------------------
(* The nonce.                                                                *)

\* What is written for an answer that goes on puts the session back with the nonce of it.
LEMMA PutsBack ==
    ASSUME NEW ch \in Changes, ch.close = FALSE, ch.session \in Sessions
    PROVE  /\ \A w \in ToSet(Commit(ch)) :
                w.op # "delSession" /\ (w.op = "putSession" => w.value.nonce = ch.session.nonce)
           /\ \E w \in ToSet(Commit(ch)) : w.op = "putSession"
<1>1. \A w : w \in ToSet(Commit(ch)) <=>
             \/ ch.device # None /\ w = [op |-> "putDevice", value |-> ch.device]
             \/ ch.session # None /\ w = [op |-> "putSession", value |-> ch.session]
             \/ ch.pending # None /\ w = [op |-> "putPending", value |-> ch.pending]
             \/ (ch.dropPending \/ ch.close) /\ w = [op |-> "delPending", value |-> None]
             \/ ch.close /\ w = [op |-> "delSession", value |-> None]
  BY CommitShape
<1>2. ch.session # None
  BY NoneAssumption
<1>3. [op |-> "putSession", value |-> ch.session] \in ToSet(Commit(ch))
  BY <1>1, <1>2
<1>4. \A w \in ToSet(Commit(ch)) :
        w.op # "delSession" /\ (w.op = "putSession" => w.value = ch.session)
  BY <1>1
<1>. QED
  BY <1>3, <1>4

LEMMA NonceKept == Alone /\ NonceInv /\ [Next]_vars => NonceInv'
<1>. SUFFICES ASSUME Alone, NonceInv, [Next]_vars PROVE NonceInv'
  OBVIOUS
<1>0. /\ Types /\ OneAtATime /\ DigestSent /\ NonceWork /\ ChallengeAnswerable
      /\ Types' /\ OneAtATime'
  BY TypesKept, OneAtATimeKept DEF NonceInv
<1>. DEFINE Goal == DigestSent' /\ NonceWork' /\ ChallengeAnswerable'
<1>. SUFFICES Goal
  BY <1>0 DEF NonceInv
\* While a handler is at work it is the only one, and the device is not at its turn.
<1>a. ASSUME NEW h \in Handlers, handlers'[h].pc # "idle", UNCHANGED fixed,
             client'.nonce = client.nonce, client'.inbox = client.inbox,
             scheme = "md5" => Passed(h)' /\ Confirms(h)' /\ Keeps(h)'
      PROVE  NonceWork' /\ ChallengeAnswerable'
  <2>1. scheme' = scheme
    BY <1>a DEF fixed
  <2>2. client'.state # "turn"
    BY <1>0, <1>a DEF OneAtATime, Busy
  <2>3. \A g \in Handlers : g # h => handlers'[g].pc = "idle"
    BY <1>0, <1>a DEF OneAtATime, Busy
  <2>4. \A g \in Handlers : g # h => Passed(g)' /\ Confirms(g)' /\ Keeps(g)'
    BY <2>3 DEF Passed, Past, Confirms, Keeps
  <2>5. NonceWork'
    BY <1>a, <2>1, <2>4 DEF NonceWork
  <2>6. ChallengeAnswerable'
    BY <1>0, <1>a, <2>1, <2>2 DEF ChallengeAnswerable
  <2>. QED
    BY <2>5, <2>6
\* A handler at work leaves the device as it is.
<1>b. ASSUME NEW h \in Handlers, GoesOn(h), scheme = "md5" => Passed(h)' /\ Confirms(h)' /\ Keeps(h)'
      PROVE  Goal
  <2>1. handlers'[h].pc # "idle" /\ UNCHANGED fixed /\ client' = client
    BY <1>b DEF GoesOn
  <2>2. DigestSent'
    BY <1>0, <2>1 DEF DigestSent, fixed
  <2>. QED
    BY <1>a, <1>b, <2>1, <2>2
<1>1. ASSUME NEW h \in Handlers, Reads(h) PROVE Goal
  <2>1. PICK l : /\ Sound(l) /\ Step(h, l)
                 /\ l.pc \notin {"idle", "commit"} /\ l.live = handlers[h].live /\ l.msg = handlers[h].msg
                 /\ l.pc \in Past => \/ handlers[h].pc \in Past /\ l.sess = handlers[h].sess
                                     \/ Accepted(l.sess, l.msg.cred)
    BY <1>0, <1>1, ReadEffect
  <2>2. handlers'[h] = l
    BY <1>0, <2>1, StepServed DEF Types
  <2>3. GoesOn(h)
    BY <1>0, <1>1, WorkGoesOn
  <2>4. scheme' = scheme
    BY <2>3 DEF GoesOn, fixed
  <2>5. scheme = "md5" => Passed(h)'
    <3>1. scheme = "md5" /\ handlers[h].pc \in Past => Accepted(handlers[h].sess, handlers[h].msg.cred)
      BY <1>0 DEF NonceWork, Passed
    <3>2. scheme = "md5" /\ l.pc \in Past => Accepted(l.sess, l.msg.cred)
      BY <2>1, <3>1
    <3>. QED
      BY <2>2, <2>4, <3>2 DEF Passed, Accepted
  <2>6. Confirms(h)' /\ Keeps(h)'
    BY <2>1, <2>2 DEF Confirms, Keeps
  <2>. QED
    BY <1>b, <2>3, <2>5, <2>6
<1>2. ASSUME NEW h \in Handlers, Challenge(h) PROVE Goal
  <2>1. handlers[h].pc # "idle" /\ UNCHANGED <<items, client, fixed>>
    BY <1>0, <1>2, ChallengeOutcome
  <2>2. PICK r \in Replies, ch \in Changes :
                /\ Decided(h, r, ch)
                /\ r.status = 401 /\ r.nonce # 0
                /\ ch.close = FALSE /\ ch.session \in Sessions /\ ch.session.nonce = r.nonce
    BY <1>0, <1>2, ChallengeOutcome
  <2>3. /\ handlers'[h].pc = "commit" /\ handlers'[h].ops = Commit(ch) /\ handlers'[h].reply = r
    BY <1>0, <2>1, <2>2, DecidedEffect
  <2>4. /\ \A w \in ToSet(Commit(ch)) :
             w.op # "delSession" /\ (w.op = "putSession" => w.value.nonce = ch.session.nonce)
        /\ \E w \in ToSet(Commit(ch)) : w.op = "putSession"
    BY <2>2, PutsBack
  <2>5. Keeps(h)'
    BY <2>2, <2>3, <2>4 DEF Keeps
  <2>6. Passed(h)' /\ Confirms(h)'
    BY <2>2, <2>3 DEF Passed, Past, Confirms
  <2>7. GoesOn(h)
    BY <1>0, <1>2, WorkGoesOn
  <2>. QED
    BY <1>b, <2>5, <2>6, <2>7
<1>3. ASSUME NEW h \in Handlers, Decides(h) PROVE Goal
  <2>1. /\ Ready(h) /\ handlers[h].pc \in {"auth", "decide"} /\ Outcome(h)
        /\ handlers[h].pc = "auth" => Accepted(handlers[h].sess, handlers[h].msg.cred)
        /\ UNCHANGED <<items, client, fixed>>
    BY <1>0, <1>3, DecidesOutcome
  <2>2. PICK r \in Replies, ch \in Changes : Decided(h, r, ch) /\ (r.status \in {400, 413} \/ Passes(h, r, ch))
    BY <2>1 DEF Outcome
  <2>a. handlers[h].pc # "idle"
    BY <2>1
  <2>3. /\ handlers'[h].pc = "commit" /\ handlers'[h].msg = handlers[h].msg
        /\ handlers'[h].ops = Commit(ch) /\ handlers'[h].reply = r
    BY <1>0, <2>2, <2>a, DecidedEffect
  <2>4. ASSUME scheme = "md5" PROVE handlers[h].sess.nonce = client.nonce /\ client.nonce # 0
    <3>1. Accepted(handlers[h].sess, handlers[h].msg.cred)
      BY <1>0, <2>1, <2>4 DEF NonceWork, Passed, Past
    <3>2. handlers[h].msg = client.msg /\ client.state \in {"wait", "resend"}
      BY <1>0, <2>a DEF OneAtATime, Busy
    <3>. QED
      BY <1>0, <2>4, <3>1, <3>2 DEF Accepted, DigestSent
  <2>5. scheme = "md5" => Confirms(h)'
    <3>1. client' = client
      BY <2>1
    <3>. QED
      BY <2>2, <2>3, <2>4, <3>1 DEF Confirms, Passes, HeaderNonce
  <2>6. scheme = "md5" => Keeps(h)'
    <3>. SUFFICES ASSUME scheme = "md5", r.status \in {200, 401}, ~Closes(r, handlers[h].msg)
                  PROVE  /\ r.nonce # 0
                         /\ \A w \in ToSet(Commit(ch)) :
                               w.op # "delSession" /\ (w.op = "putSession" => w.value.nonce = r.nonce)
                         /\ \E w \in ToSet(Commit(ch)) : w.op = "putSession"
      BY <2>3 DEF Keeps
    <3>1. Passes(h, r, ch)
      BY <2>2
    <3>2. /\ ch.close = FALSE /\ ch.session \in Sessions
          /\ ch.session.nonce = handlers[h].sess.nonce /\ r.nonce = handlers[h].sess.nonce
      BY <3>1 DEF Passes, HeaderNonce
    <3>3. /\ \A w \in ToSet(Commit(ch)) :
               w.op # "delSession" /\ (w.op = "putSession" => w.value.nonce = ch.session.nonce)
          /\ \E w \in ToSet(Commit(ch)) : w.op = "putSession"
      BY <3>2, PutsBack
    <3>. QED
      BY <2>4, <3>2, <3>3
  <2>7. Passed(h)'
    BY <2>3 DEF Passed, Past
  <2>8. GoesOn(h)
    BY <1>0, <1>3, WorkGoesOn
  <2>. QED
    BY <1>b, <2>5, <2>6, <2>7, <2>8
<1>4. ASSUME NEW h \in Handlers, Write(h) PROVE Goal
  <2>. DEFINE ops == handlers[h].ops
              w0  == Head(ops)
              r   == handlers[h].reply
  <2>1. /\ handlers[h].pc = "commit" /\ ops \in Seq(Writes) /\ ops # <<>> /\ Apply(w0)
        /\ handlers'[h].pc = "commit" /\ handlers'[h].msg = handlers[h].msg
        /\ handlers'[h].ops = Tail(ops) /\ handlers'[h].reply = r /\ UNCHANGED <<client, fixed>>
    BY <1>0, <1>4, WriteEffect
  <2>2. w0 \in Writes /\ \A w : w \in ToSet(ops) <=> w = w0 \/ w \in ToSet(Tail(ops))
    BY <2>1, WriteSplits
  <2>3. /\ session' = IF w0.op = "putSession" THEN w0.value ELSE IF w0.op = "delSession" THEN None ELSE session
        /\ w0.op = "putSession" => w0.value \in Sessions
    BY <2>1, <2>2, Applied
  <2>. HIDE DEF w0, ops
  <2>4. Passed(h)'
    BY <2>1 DEF Passed, Past
  <2>5. scheme = "md5" => Confirms(h)'
    BY <1>0, <2>1 DEF NonceWork, Confirms
  <2>6. ASSUME scheme = "md5" PROVE Keeps(h)'
    <3>. SUFFICES ASSUME r.status \in {200, 401}, ~Closes(r, handlers[h].msg)
                  PROVE  /\ r.nonce # 0
                         /\ \A w \in ToSet(Tail(ops)) :
                               w.op # "delSession" /\ (w.op = "putSession" => w.value.nonce = r.nonce)
                         /\ \/ \E w \in ToSet(Tail(ops)) : w.op = "putSession"
                            \/ session' # None /\ session'.nonce = r.nonce
      BY <2>1 DEF Keeps
    <3>1. Keeps(h)
      BY <1>0, <2>6 DEF NonceWork
    <3>2. /\ r.nonce # 0
          /\ \A w \in ToSet(ops) : w.op # "delSession" /\ (w.op = "putSession" => w.value.nonce = r.nonce)
          /\ \/ \E w \in ToSet(ops) : w.op = "putSession"
             \/ session # None /\ session.nonce = r.nonce
      BY <2>1, <3>1 DEF Keeps, ops
    <3>. HIDE DEF r
    <3>3. /\ w0.op # "delSession" /\ (w0.op = "putSession" => w0.value.nonce = r.nonce)
          /\ \A w \in ToSet(Tail(ops)) : w.op # "delSession" /\ (w.op = "putSession" => w.value.nonce = r.nonce)
      BY <2>2, <3>2
    <3>4. CASE w0.op = "putSession"
      BY <2>3, <3>2, <3>3, <3>4, NoneAssumption
    <3>5. CASE w0.op # "putSession"
      BY <2>2, <2>3, <3>2, <3>3, <3>5
    <3>. QED
      BY <3>4, <3>5
  <2>7. GoesOn(h)
    BY <1>0, <1>4, WorkGoesOn
  <2>. QED
    BY <1>b, <2>4, <2>5, <2>6, <2>7
<1>5. ASSUME NEW h \in Handlers, Fails(h) PROVE Goal
  <2>1. handlers'[h].pc = "commit" /\ handlers'[h].reply.status = 500
    BY <1>0, <1>5, FailEffect
  <2>2. Passed(h)' /\ Confirms(h)' /\ Keeps(h)'
    BY <2>1 DEF Passed, Past, Confirms, Keeps
  <2>3. GoesOn(h)
    BY <1>0, <1>5, WorkGoesOn
  <2>. QED
    BY <1>b, <2>2, <2>3
<1>6. ASSUME NEW h \in Handlers, Answer(h) PROVE Goal
  <2>. DEFINE r == handlers[h].reply
              m == handlers[h].msg
  <2>1. /\ handlers[h].pc = "commit" /\ handlers[h].ops = <<>> /\ r \in Replies /\ m \in Msgs
        /\ UNCHANGED <<items, life, fixed, used>> /\ handlers'[h].pc = "idle"
        /\ \A g \in Handlers : g # h => handlers'[g] = handlers[g]
        /\ handlers[h].live => client' = Receives(r, m)
        /\ ~handlers[h].live => /\ client'.state = client.state /\ client'.msg = client.msg
                                /\ client'.nonce = client.nonce /\ client'.inbox = client.inbox
    BY <1>0, <1>6, AnswerEffect
  <2>2. \A g \in Handlers : handlers'[g].pc = "idle"
    BY <1>0, <2>1 DEF OneAtATime, Busy
  <2>3. NonceWork'
    BY <2>2 DEF NonceWork, Passed, Past, Confirms, Keeps
  <2>4. client.msg = m /\ client.state \in {"wait", "resend"}
    BY <1>0, <2>1 DEF OneAtATime, Busy
  <2>5. session' = session /\ scheme' = scheme
    BY <2>1 DEF items, fixed
  <2>6. CASE ~handlers[h].live
    <3>1. DigestSent'
      BY <1>0, <2>1, <2>5, <2>6 DEF DigestSent
    <3>2. ChallengeAnswerable'
      BY <1>0, <2>1, <2>4, <2>5, <2>6 DEF ChallengeAnswerable
    <3>. QED
      BY <2>3, <3>1, <3>2
  <2>7. CASE handlers[h].live
    <3>. DEFINE c == Receives(r, m)
    <3>a. /\ c \in Clients /\ c.msg = client.msg
          /\ c.state \in {"aborted", "done"} => Closes(r, m)
          /\ c.state = "turn" => r.status \in {200, 401} /\ ~Closes(r, m)
          /\ c.state # "wait" /\ (c.state = "resend" => c.nonce = client.nonce)
          /\ r.status = 401 => c.nonce = r.nonce /\ c.inbox = client.inbox
          /\ r.status = 200 => /\ c.nonce = IF r.nonce = 0 THEN client.nonce ELSE r.nonce
                               /\ c.inbox = client.inbox \o r.body
          /\ r.status \notin {200, 401} => c.nonce = client.nonce /\ c.inbox = client.inbox
      BY <1>0, <2>1, <2>4, ReceivesShape, Zenon
    <3>1. /\ c.msg = client.msg
          /\ c.state = "turn" => r.status \in {200, 401} /\ ~Closes(r, m)
          /\ c.state # "wait" /\ (c.state = "resend" => c.nonce = client.nonce)
          /\ r.status = 401 => c.nonce = r.nonce /\ c.inbox = client.inbox
          /\ r.status = 200 => c.nonce = IF r.nonce = 0 THEN client.nonce ELSE r.nonce
          /\ r.status \notin {200, 401} => c.nonce = client.nonce /\ c.inbox = client.inbox
      BY <3>a, Zenon
    <3>2. client' = c
      BY <2>1, <2>7
    <3>. HIDE DEF c
    <3>3. scheme = "md5" /\ r.status \in {200, 401} /\ ~Closes(r, m)
             => r.nonce # 0 /\ session # None /\ session.nonce = r.nonce
      <4>1. ToSet(handlers[h].ops) = {}
        BY <2>1 DEF ToSet
      <4>. QED
        BY <1>0, <2>1, <4>1 DEF NonceWork, Keeps
    <3>4. scheme = "md5" /\ r.status = 200 => r.nonce # 0
      BY <1>0, <2>1 DEF NonceWork, Confirms
    <3>5. r.status = 401 => ~Closes(r, m)
      BY DEF Closes
    <3>. HIDE DEF r, m
    <3>6. DigestSent'
      BY <1>0, <2>4, <2>5, <3>1, <3>2 DEF DigestSent
    <3>7. scheme = "md5" => (c.nonce # 0 /\ c.state = "turn" => session # None /\ session.nonce = c.nonce)
      BY <3>1, <3>3
    <3>8. scheme = "md5" => (c.nonce = 0 => c.inbox = <<>>)
      BY <1>0, <3>1, <3>3, <3>4, <3>5 DEF ChallengeAnswerable
    <3>9. ChallengeAnswerable'
      BY <2>5, <3>2, <3>7, <3>8 DEF ChallengeAnswerable
    <3>. QED
      BY <2>3, <3>6, <3>9
  <2>. QED
    BY <2>6, <2>7
<1>7. ASSUME NEW h \in Handlers, Sends(h) PROVE Goal
  <2>1. /\ handlers'[h].pc = "session" /\ UNCHANGED fixed
        /\ client.state \in {"turn", "resend"} /\ (client.state = "resend" => client'.msg = client.msg)
        /\ client'.nonce = client.nonce /\ client'.inbox = client.inbox
        /\ client.state = "turn" /\ scheme = "md5" =>
             /\ client'.msg.cred.type = "basic" => client'.msg.cred.password # "right"
             /\ client'.msg.cred.type = "md5" => client'.msg.cred.nonce = client.nonce
    BY <1>0, <1>7, SendEffect
  <2>2. DigestSent'
    BY <1>0, <2>1 DEF DigestSent, fixed
  <2>3. Passed(h)' /\ Confirms(h)' /\ Keeps(h)'
    BY <2>1 DEF Passed, Past, Confirms, Keeps
  <2>. QED
    BY <1>a, <2>1, <2>2, <2>3
<1>8. ASSUME Timeout PROVE Goal
  <2>1. /\ client.state = "wait" /\ UNCHANGED <<items, fixed>>
        /\ client'.state = "resend" /\ client'.msg = client.msg
        /\ client'.nonce = client.nonce /\ client'.inbox = client.inbox
        /\ \A h \in Handlers : /\ handlers'[h].pc = handlers[h].pc
                               /\ handlers'[h].msg = handlers[h].msg /\ handlers'[h].sess = handlers[h].sess
                               /\ handlers'[h].ops = handlers[h].ops /\ handlers'[h].reply = handlers[h].reply
    BY <1>0, <1>8, TimeoutEffect
  <2>2. session' = session /\ scheme' = scheme
    BY <2>1 DEF items, fixed
  <2>3. DigestSent'
    BY <1>0, <2>1, <2>2 DEF DigestSent
  <2>4. ChallengeAnswerable'
    BY <1>0, <2>1, <2>2 DEF ChallengeAnswerable
  <2>5. ASSUME NEW h \in Handlers, scheme = "md5" PROVE Passed(h)' /\ Confirms(h)' /\ Keeps(h)'
    <3>1. Passed(h) /\ Confirms(h) /\ Keeps(h)
      BY <1>0, <2>5 DEF NonceWork
    <3>. QED
      BY <2>1, <2>2, <3>1 DEF Passed, Confirms, Keeps, Accepted
  <2>6. NonceWork'
    BY <2>2, <2>5 DEF NonceWork
  <2>. QED
    BY <2>3, <2>4, <2>6
<1>9. ASSUME Background PROVE Goal
  <2>1. UNCHANGED <<session, handlers, client, scheme>>
    BY <1>0, <1>9, BackgroundEffect DEF fixed
  <2>. QED
    BY <1>0, <2>1 DEF DigestSent, NonceWork, Passed, Accepted, Confirms, Keeps, ChallengeAnswerable
<1>. QED
  BY <1>1, <1>2, <1>3, <1>4, <1>5, <1>6, <1>7, <1>8, <1>9, NextSplits

LEMMA NonceInit == Init => NonceInv
<1>1. Init => \A h \in Handlers : handlers[h].pc = "idle"
  BY IdleShape DEF Init
<1>2. Init => NonceWork
  BY <1>1 DEF NonceWork, Passed, Past, Confirms, Keeps
<1>3. Init => DigestSent /\ ChallengeAnswerable
  BY DEF Init, DigestSent, ChallengeAnswerable
<1>. QED
  BY <1>2, <1>3, TypesInit, OneAtATimeInit DEF NonceInv

\* The nonce of a challenge that reached the device is the one its session has, so that the
\* challenge can be answered; and a device that sends digests is given nothing before it holds
\* one: whatever store calls failed, items expired or reads lagged before, so long as no two
\* handlers serve the session at once.
THEOREM ChallengesAnswerable ==
    ASSUME Alone
    PROVE  Spec => []ChallengeAnswerable
<1>1. NonceInv => ChallengeAnswerable
  BY DEF NonceInv
<1>. QED
  BY <1>1, NonceInit, NonceKept, PTL DEF Spec
=============================================================================
