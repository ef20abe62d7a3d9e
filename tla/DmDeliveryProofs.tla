-------------------------- MODULE DmDeliveryProofs --------------------------
(***************************************************************************)
(* What an OMA-DM session delivers: theorems for any number of items and     *)
(* handlers, any limits, and any order of the store's writes and failures.   *)
(*                                                                         *)
(* Between the writes of one message the stored session is where it was, and *)
(* after the last one it is where the device will be once it has the answer: *)
(* what the device received, followed by what the remainder keeps for it, is *)
(* all of the packages that were begun.                                      *)
(***************************************************************************)
EXTENDS DmSessionProofs, SequenceTheorems

\* No package runs into MAX_MESSAGES: every message but the first takes at least one entry off
\* what was kept, and what is kept at first is bounded in either of two ways.
OutOfReach ==
    \/ MAX_STORED < MAX_MESSAGES
    \/ MAX_ACKS + N_GET <= MAX_MESSAGES /\ MAX_ACKS + N_CONF <= MAX_MESSAGES

\* So far no message was sent again because its answer was late, nothing expired, no store
\* call failed that could leave a package half abandoned, and none that was the last an answer
\* waited for failed after it took effect. Reads are current.
Undisturbed ==
    /\ used.resends = 0 /\ used.expiries = 0 /\ used.missed = 0 /\ ~scenario.lag
    /\ OutOfReach \/ used.faults = 0

-----------------------------------------------------------------------------
(* Where a session is.                                                       *)

Ph(s)      == IF s = None THEN "init" ELSE s.phase
Mine(s, p) == p # None /\ p.phase = Ph(s)
Left(s, p) == IF Mine(s, p) THEN p.entries ELSE <<>>

All == N_GET + N_CONF
Total(phase) == IF phase = "init" THEN 0 ELSE IF phase = "devinfo" THEN N_GET ELSE All

Confs(q) == {n \in 1 .. N_CONF : N_GET + n \in Items(q)}
Failing(S) == Cardinality(S \cap Refused)

\* The first n commands in sequence, and each acknowledgement that is owed once.
Exact(q, n, owed) == Items(q) = 1 .. n /\ InSequence(q) /\ AcksDiffer(q) /\ AcksIn(q) = owed

\* In sequence, and none left out.
Gapless(q) == InSequence(q) /\ \A n \in Items(q) : 1 .. n \subseteq Items(q)

\* What the device holds: what it received, what it is owed, and what it has still to report.
View(inbox, owed, results, failed) ==
    [inbox |-> inbox, owed |-> owed, results |-> results, failed |-> failed]

\* What the device has, followed by what is kept for it, is all of the packages that were
\* begun. A session that is finished has something left to acknowledge. The configuration is
\* sent after the inventory came, and the failures are counted or will be.
OnTrack(s, p, v) ==
    /\ Ph(s) = "done" => Mine(s, p)
    /\ Ph(s) # "init" => Exact(v.inbox \o Left(s, p), Total(Ph(s)), v.owed)
    /\ Ph(s) \in {"configure", "done"} =>
          /\ v.results = {} /\ 1 .. N_GET \subseteq Items(v.inbox)
          /\ s.failures + v.failed >= Failing(Confs(v.inbox))

\* What the first m writes make of an item: the value of the last one that is about it.
After(ops, m, kinds, now) ==
    {IF i = 0 THEN now ELSE ops[i].value : i \in {j \in 0 .. m :
        (j # 0 => ops[j].op \in kinds) /\ \A k \in j + 1 .. m : ops[k].op \notin kinds}}

SessionOps == {"putSession", "delSession"}
PendingOps == {"putPending", "delPending"}

\* The session is on track when the first m writes are made.
OnTrackAt(m, ops, s, p, v) ==
    \A x \in After(ops, m, SessionOps, s), y \in After(ops, m, PendingOps, p) : OnTrack(x, y, v)

\* Every write but the last leaves the session where it is; the last one takes it to where the
\* device will be.
Stays(ops, s, p, v) == \A m \in 0 .. Len(ops) - 1 : OnTrackAt(m, ops, s, p, v)
Ends(ops, s, p, v)  == OnTrackAt(Len(ops), ops, s, p, v)

-----------------------------------------------------------------------------
(* The invariant.                                                            *)

Single ==
    /\ \A g, h \in Handlers : Busy(g) /\ Busy(h) => g = h
    /\ \A h \in Handlers : Busy(h) =>
          handlers[h].msg = client.msg /\ client.state = "wait" /\ handlers[h].live

\* A remainder and the messages it took are few.
Few(p) ==
    /\ p.phase # "init" /\ p.life = 0
    /\ p.messages + Len(p.entries) <= MAX_STORED + 1
    /\ p.messages + Len(p.entries) <= MAX_ACKS + (IF p.phase = "devinfo" THEN N_GET ELSE N_CONF)

\* Nothing has expired.
Young ==
    /\ life = 0
    /\ session # None => session.life = 0
    /\ pending # None => Few(pending)

\* The values that may still be written to the device item, or are there.
Known == device \cup (IF recorder = None THEN {} ELSE recorder)

\* What a handler has read is what is stored.
Current(h) ==
    LET l == handlers[h] IN
    /\ l.pc \notin {"reapSession", "reapPending"}
    /\ l.pc \in {"auth", "pending", "device", "decide"} => l.sess = IF session = None THEN Fresh ELSE session
    /\ l.pc \in {"pending", "device", "decide"} => l.msg.acks <= MAX_ACKS
    /\ l.pc \in {"device", "decide"} => l.pend = pending
    /\ l.pc = "decide" /\ Route(h) \in {"init", "devinfo", "continue"} => Known \subseteq l.dev \cup erased

\* The device has an answer to which it has not replied yet.
Answered == client.state = "turn" /\ client.reply # None /\ client.reply.status = 200

Unreported ==
    IF Answered THEN Of("get", client.reply.body)
    ELSE IF client.msg = None THEN {} ELSE client.msg.results
Uncounted ==
    IF Answered THEN Failing(Of("conf", client.reply.body))
    ELSE IF client.msg = None THEN 0 ELSE client.msg.failed

Now == View(client.inbox, client.owed, Unreported, Uncounted)

\* What the device has once it got answer r to message m.
Then(m, r) ==
    View(client.inbox \o r.body, client.owed \cup ToSet(Acks(m)), Of("get", r.body),
         Failing(Of("conf", r.body)))

Aborting == client.msg # None /\ client.msg.kind = "abort"
Lasting  == client.state \in {"turn", "wait", "resend"}

\* The device numbers its messages and opens a session only once.
Told ==
    /\ client.msg = None => client.owed = {} /\ client.state = "turn" /\ client.reply = None
    /\ \A e \in client.owed :
          IF client.state \in {"wait", "resend"} THEN e.id < client.msg.id ELSE e.id <= client.msg.id
    /\ Lasting /\ ~Answered /\ (client.msg = None \/ client.msg.kind = "init")
          => client.inbox = <<>> /\ client.owed = {}
    /\ client.state = "turn" => client.reply = None \/ client.reply.status \in {200, 401}
    /\ client.state = "turn" /\ client.msg # None => client.reply # None
    /\ Answered => ~Aborting

\* What the device was asked for is stored, or still to be reported.
Kept ==
    /\ recorder # None => recorder \subseteq device \cup erased
    /\ Lasting /\ ~Aborting => Items(client.inbox) \cap 1 .. N_GET \subseteq device \cup erased \cup Unreported

Finished ==
    client.state = "done" =>
        /\ Exact(client.inbox, All, client.owed)
        /\ 1 .. N_GET \subseteq device \cup erased
        /\ client.reply.failures >= Cardinality(Refused)

\* No handler has decided: the session is where the device is.
Tracked ==
    Lasting /\ ~Aborting /\ (\A h \in Handlers : handlers[h].pc # "commit") => OnTrack(session, pending, Now)

\* The writes ops remain before answer r to message m.
Modest(w) ==
    /\ w.op = "putSession" => w.value.life = 0
    /\ w.op = "putPending" => Few(w.value)
    /\ w.op = "putDevice" => Known \subseteq w.value \cup erased

\* The answer lets the session go on, or ends it.
GoesOnWith(m, ops, r) ==
    Ends(ops, session, pending, Then(m, r)) /\ Gapless(client.inbox \o r.body)
Completes(m, r) ==
    Exact(client.inbox \o r.body, All, client.owed \cup ToSet(Acks(m))) /\ r.failures >= Cardinality(Refused)

Absorbed(m, ops) ==
    \A n \in m.results : n \in device \cup erased \/ \E w \in ToSet(ops) : w.op = "putDevice" /\ n \in w.value

Due(m, ops, r) ==
    /\ \A w \in ToSet(ops) : Modest(w)
    /\ m.kind = "abort" /\ r.status = 200 => NoCommand(r.body)
    /\ m.kind # "abort" =>
          /\ ~(r.status = 413 /\ ~OutOfReach) => Stays(ops, session, pending, Now)
          /\ r.status # 200 /\ ~(r.status = 413 /\ ~OutOfReach) => Ends(ops, session, pending, Now)
          /\ r.status = 200 =>
                /\ Absorbed(m, ops)
                /\ IF Closes(r, m) THEN Completes(m, r) ELSE GoesOnWith(m, ops, r)

\* The writes that remain write the device item with one value.
Agreed(ops) == \A w, x \in ToSet(ops) : w.op = "putDevice" /\ x.op = "putDevice" => w = x

Committed(h) ==
    LET l == handlers[h] IN
    l.pc = "commit" => Agreed(l.ops) /\ Due(l.msg, l.ops, l.reply)

Track ==
    /\ Single /\ Young /\ Told /\ Gapless(client.inbox) /\ Kept /\ Finished /\ Tracked
    /\ \A h \in Handlers : Current(h) /\ Committed(h)
-----------------------------------------------------------------------------
(* Entries one after the other.                                              *)

LEMMA JoinIndex ==
    ASSUME NEW S, NEW a \in Seq(S), NEW b \in Seq(S)
    PROVE  /\ a \o b \in Seq(S) /\ Len(a) \in Nat /\ Len(b) \in Nat /\ Len(a \o b) = Len(a) + Len(b)
           /\ DOMAIN a = 1 .. Len(a) /\ DOMAIN b = 1 .. Len(b) /\ DOMAIN (a \o b) = 1 .. Len(a) + Len(b)
           /\ \A i \in DOMAIN a : i \in DOMAIN (a \o b) /\ (a \o b)[i] = a[i]
           /\ \A i \in DOMAIN b : Len(a) + i \in DOMAIN (a \o b) /\ (a \o b)[Len(a) + i] = b[i]
           /\ \A i \in DOMAIN (a \o b) : i \in DOMAIN a \/ \E j \in DOMAIN b : i = Len(a) + j
<1>1. a \o b \in Seq(S) /\ Len(a) \in Nat /\ Len(b) \in Nat /\ Len(a \o b) = Len(a) + Len(b)
      /\ DOMAIN a = 1 .. Len(a) /\ DOMAIN b = 1 .. Len(b) /\ DOMAIN (a \o b) = 1 .. Len(a) + Len(b)
  OBVIOUS
<1>2. \A i \in 1 .. Len(a) : (a \o b)[i] = a[i] /\ i \in 1 .. Len(a) + Len(b)
  BY <1>1
<1>3. \A i \in 1 .. Len(b) : (a \o b)[Len(a) + i] = b[i] /\ Len(a) + i \in 1 .. Len(a) + Len(b)
  BY <1>1
<1>4. ASSUME NEW i \in 1 .. Len(a) + Len(b), i \notin 1 .. Len(a)
      PROVE  \E j \in 1 .. Len(b) : i = Len(a) + j
  <2>1. i - Len(a) \in 1 .. Len(b) /\ i = Len(a) + (i - Len(a))
    BY <1>1, <1>4
  <2>. QED
    BY <2>1
<1>. QED
  BY <1>1, <1>2, <1>3, <1>4

LEMMA JoinLength ==
    ASSUME NEW S, NEW a \in Seq(S), NEW b \in Seq(S)
    PROVE  Len(a \o b) = Len(a) + Len(b)
OBVIOUS

LEMMA PlaceShape ==
    ASSUME NEW e \in Entries, e.k # "ack"
    PROVE  /\ Place(e) \in Nat /\ Place(e) >= 1
           /\ e.k = "get" => Place(e) = e.n /\ e.n \in 1 .. N_GET
           /\ e.k = "conf" => Place(e) = N_GET + e.n /\ e.n \in 1 .. N_CONF
           /\ e.k \in {"get", "conf"}
BY EntryKinds, Sizes DEF Place

LEMMA ItemsShape ==
    ASSUME NEW q \in Seq(Entries)
    PROVE  Items(q) \subseteq Nat
<1>1. \A i \in DOMAIN q : q[i] \in Entries
  OBVIOUS
<1>. QED
  BY <1>1, PlaceShape DEF Items, Commands

\* All items of one queue have their place before those of another.
Before(a, b) == \A x \in Items(a), y \in Items(b) : x < y

LEMMA JoinItems ==
    ASSUME NEW a \in Seq(Entries), NEW b \in Seq(Entries)
    PROVE  /\ a \o b \in Seq(Entries)
           /\ \A i \in DOMAIN a : i \in Commands(a \o b) <=> i \in Commands(a)
           /\ \A i \in DOMAIN b : Len(a) + i \in Commands(a \o b) <=> i \in Commands(b)
           /\ Items(a \o b) = Items(a) \cup Items(b)
           /\ AcksIn(a \o b) = AcksIn(a) \cup AcksIn(b)
<1>. DEFINE q == a \o b
            n == Len(a)
<1>1. q \in Seq(Entries)
  BY JoinIndex
<1>2. \A i \in DOMAIN a : i \in DOMAIN q /\ q[i] = a[i]
  BY JoinIndex
<1>3. \A i \in DOMAIN b : n + i \in DOMAIN q /\ q[n + i] = b[i]
  BY JoinIndex
<1>4. \A i \in DOMAIN q : i \in DOMAIN a \/ \E j \in DOMAIN b : i = n + j
  BY JoinIndex
<1>. HIDE DEF q, n
<1>5. \A i \in DOMAIN a : i \in Commands(q) <=> i \in Commands(a)
  BY <1>2 DEF Commands
<1>6. \A i \in DOMAIN b : n + i \in Commands(q) <=> i \in Commands(b)
  BY <1>3 DEF Commands
<1>7. Items(q) = Items(a) \cup Items(b)
  <2>1. ASSUME NEW x \in Items(q) PROVE x \in Items(a) \cup Items(b)
    <3>1. PICK i \in DOMAIN q : i \in Commands(q) /\ x = Place(q[i])
      BY DEF Items, Commands
    <3>2. CASE i \in DOMAIN a
      BY <1>2, <1>5, <3>1, <3>2 DEF Items
    <3>3. CASE \E j \in DOMAIN b : i = n + j
      BY <1>3, <1>6, <3>1, <3>3 DEF Items
    <3>. QED
      BY <1>4, <3>2, <3>3
  <2>2. ASSUME NEW x \in Items(a) PROVE x \in Items(q)
    <3>1. PICK i \in DOMAIN a : i \in Commands(a) /\ x = Place(a[i])
      BY DEF Items, Commands
    <3>. QED
      BY <1>2, <1>5, <3>1 DEF Items
  <2>3. ASSUME NEW x \in Items(b) PROVE x \in Items(q)
    <3>1. PICK i \in DOMAIN b : i \in Commands(b) /\ x = Place(b[i])
      BY DEF Items, Commands
    <3>. QED
      BY <1>3, <1>6, <3>1 DEF Items
  <2>. QED
    BY <2>1, <2>2, <2>3
<1>8. AcksIn(q) = AcksIn(a) \cup AcksIn(b)
  <2>1. ASSUME NEW x \in AcksIn(q) PROVE x \in AcksIn(a) \cup AcksIn(b)
    <3>1. PICK i \in DOMAIN q : i \notin Commands(q) /\ x = q[i]
      BY DEF AcksIn
    <3>2. CASE i \in DOMAIN a
      BY <1>2, <1>5, <3>1, <3>2 DEF AcksIn
    <3>3. CASE \E j \in DOMAIN b : i = n + j
      BY <1>3, <1>6, <3>1, <3>3 DEF AcksIn
    <3>. QED
      BY <1>4, <3>2, <3>3
  <2>2. ASSUME NEW x \in AcksIn(a) PROVE x \in AcksIn(q)
    <3>1. PICK i \in DOMAIN a : i \notin Commands(a) /\ x = a[i]
      BY DEF AcksIn
    <3>. QED
      BY <1>2, <1>5, <3>1 DEF AcksIn
  <2>3. ASSUME NEW x \in AcksIn(b) PROVE x \in AcksIn(q)
    <3>1. PICK i \in DOMAIN b : i \notin Commands(b) /\ x = b[i]
      BY DEF AcksIn
    <3>. QED
      BY <1>3, <1>6, <3>1 DEF AcksIn
  <2>. QED
    BY <2>1, <2>2, <2>3
<1>. QED
  BY <1>1, <1>5, <1>6, <1>7, <1>8 DEF q, n

LEMMA JoinInSequence ==
    ASSUME NEW a \in Seq(Entries), NEW b \in Seq(Entries)
    PROVE  InSequence(a \o b) <=> InSequence(a) /\ InSequence(b) /\ Before(a, b)
<1>. DEFINE q == a \o b
            n == Len(a)
<1>1. n \in Nat /\ DOMAIN a = 1 .. n /\ DOMAIN b \subseteq Nat \ {0}
  BY JoinIndex
<1>2. \A i \in DOMAIN a : i \in DOMAIN q /\ q[i] = a[i]
  BY JoinIndex
<1>3. \A i \in DOMAIN b : n + i \in DOMAIN q /\ q[n + i] = b[i]
  BY JoinIndex
<1>4. \A i \in DOMAIN q : i \in DOMAIN a \/ \E j \in DOMAIN b : i = n + j
  BY JoinIndex
<1>5. \A i \in DOMAIN a : i \in Commands(q) <=> i \in Commands(a)
  BY JoinItems
<1>6. \A i \in DOMAIN b : n + i \in Commands(q) <=> i \in Commands(b)
  BY JoinItems
<1>. HIDE DEF q, n
<1>7. ASSUME InSequence(q) PROVE InSequence(a) /\ InSequence(b) /\ Before(a, b)
  <2>1. InSequence(a)
    BY <1>2, <1>5, <1>7 DEF InSequence, Commands
  <2>2. InSequence(b)
    <3>1. ASSUME NEW i \in Commands(b), NEW j \in Commands(b), i < j PROVE Place(b[i]) < Place(b[j])
      <4>1. i \in DOMAIN b /\ j \in DOMAIN b /\ i \in Nat /\ j \in Nat
        BY <1>1 DEF Commands
      <4>2. n + i \in Commands(q) /\ n + j \in Commands(q) /\ n + i < n + j
        BY <1>1, <1>6, <3>1, <4>1
      <4>3. Place(q[n + i]) < Place(q[n + j])
        BY <1>7, <4>2 DEF InSequence
      <4>. QED
        BY <1>3, <4>1, <4>3
    <3>. QED
      BY <3>1 DEF InSequence
  <2>3. ASSUME NEW x \in Items(a), NEW y \in Items(b) PROVE x < y
    <3>1. PICK i \in DOMAIN a : i \in Commands(a) /\ x = Place(a[i])
      BY DEF Items, Commands
    <3>2. PICK j \in DOMAIN b : j \in Commands(b) /\ y = Place(b[j])
      BY DEF Items, Commands
    <3>3. i \in Commands(q) /\ n + j \in Commands(q) /\ i < n + j
      BY <1>1, <1>5, <1>6, <3>1, <3>2
    <3>4. Place(q[i]) < Place(q[n + j])
      BY <1>7, <3>3 DEF InSequence
    <3>. QED
      BY <1>2, <1>3, <3>1, <3>2, <3>4
  <2>. QED
    BY <2>1, <2>2, <2>3 DEF Before
<1>8. ASSUME InSequence(a), InSequence(b), Before(a, b),
             NEW i \in Commands(q), NEW j \in Commands(q), i < j
      PROVE  Place(q[i]) < Place(q[j])
  <2>1. i \in DOMAIN q /\ j \in DOMAIN q
    BY DEF Commands
  <2>2. CASE i \in DOMAIN a /\ j \in DOMAIN a
    BY <1>2, <1>5, <1>8, <2>2 DEF InSequence
  <2>3. CASE i \in DOMAIN a /\ j \notin DOMAIN a
    <3>1. PICK k \in DOMAIN b : j = n + k
      BY <1>4, <2>1, <2>3
    <3>2. Place(q[i]) \in Items(a)
      BY <1>2, <1>5, <1>8, <2>3 DEF Items
    <3>3. Place(q[j]) \in Items(b)
      BY <1>3, <1>6, <1>8, <3>1 DEF Items
    <3>. QED
      BY <1>8, <3>2, <3>3 DEF Before
  <2>4. CASE i \notin DOMAIN a
    <3>1. PICK l \in DOMAIN b : i = n + l
      BY <1>4, <2>1, <2>4
    <3>2. l \in Nat /\ l >= 1
      BY <1>1
    <3>3. j \notin DOMAIN a
      BY <1>1, <1>8, <3>1, <3>2
    <3>4. PICK k \in DOMAIN b : j = n + k
      BY <1>4, <2>1, <3>3
    <3>5. k \in Nat /\ l < k
      BY <1>1, <1>8, <3>1, <3>2, <3>4
    <3>6. l \in Commands(b) /\ k \in Commands(b)
      BY <1>6, <1>8, <3>1, <3>4
    <3>7. Place(b[l]) < Place(b[k])
      BY <1>8, <3>5, <3>6 DEF InSequence
    <3>. QED
      BY <1>3, <3>1, <3>4, <3>7
  <2>. QED
    BY <2>2, <2>3, <2>4
<1>9. ASSUME InSequence(a), InSequence(b), Before(a, b) PROVE InSequence(q)
  BY <1>8, <1>9 DEF InSequence
<1>. QED
  BY <1>7, <1>9 DEF q

LEMMA JoinAcksDiffer ==
    ASSUME NEW a \in Seq(Entries), NEW b \in Seq(Entries)
    PROVE  AcksDiffer(a \o b) <=> AcksDiffer(a) /\ AcksDiffer(b) /\ AcksIn(a) \cap AcksIn(b) = {}
<1>. DEFINE q == a \o b
            n == Len(a)
<1>1. n \in Nat /\ DOMAIN a = 1 .. n /\ DOMAIN b \subseteq Nat \ {0}
  BY JoinIndex
<1>2. \A i \in DOMAIN a : i \in DOMAIN q /\ q[i] = a[i]
  BY JoinIndex
<1>3. \A i \in DOMAIN b : n + i \in DOMAIN q /\ q[n + i] = b[i]
  BY JoinIndex
<1>4. \A i \in DOMAIN q : i \in DOMAIN a \/ \E j \in DOMAIN b : i = n + j
  BY JoinIndex
<1>5. \A i \in DOMAIN a : i \in Commands(q) <=> i \in Commands(a)
  BY JoinItems
<1>6. \A i \in DOMAIN b : n + i \in Commands(q) <=> i \in Commands(b)
  BY JoinItems
<1>7. \A i \in DOMAIN a, j \in DOMAIN b : i # n + j
  BY <1>1
<1>8. \A i, j \in DOMAIN b : n + i = n + j => i = j
  BY <1>1
<1>. HIDE DEF q, n
<1>9. ASSUME AcksDiffer(q) PROVE AcksDiffer(a) /\ AcksDiffer(b) /\ AcksIn(a) \cap AcksIn(b) = {}
  <2>1. AcksDiffer(a)
    BY <1>2, <1>5, <1>9 DEF AcksDiffer
  <2>2. AcksDiffer(b)
    <3>1. ASSUME NEW i \in DOMAIN b \ Commands(b), NEW j \in DOMAIN b \ Commands(b), i # j PROVE b[i] # b[j]
      <4>1. n + i \in DOMAIN q \ Commands(q) /\ n + j \in DOMAIN q \ Commands(q) /\ n + i # n + j
        BY <1>3, <1>6, <1>8, <3>1
      <4>2. q[n + i] # q[n + j]
        BY <1>9, <4>1 DEF AcksDiffer
      <4>. QED
        BY <1>3, <4>2
    <3>. QED
      BY <3>1 DEF AcksDiffer
  <2>3. ASSUME NEW x \in AcksIn(a), x \in AcksIn(b) PROVE FALSE
    <3>1. PICK i \in DOMAIN a : i \notin Commands(a) /\ x = a[i]
      BY DEF AcksIn
    <3>2. PICK j \in DOMAIN b : j \notin Commands(b) /\ x = b[j]
      BY <2>3 DEF AcksIn
    <3>3. i \in DOMAIN q \ Commands(q) /\ n + j \in DOMAIN q \ Commands(q) /\ i # n + j
      BY <1>2, <1>3, <1>5, <1>6, <1>7, <3>1, <3>2
    <3>4. q[i] # q[n + j]
      BY <1>9, <3>3 DEF AcksDiffer
    <3>. QED
      BY <1>2, <1>3, <3>1, <3>2, <3>4
  <2>. QED
    BY <2>1, <2>2, <2>3
<1>10. ASSUME AcksDiffer(a), AcksDiffer(b), AcksIn(a) \cap AcksIn(b) = {},
              NEW i \in DOMAIN q \ Commands(q), NEW j \in DOMAIN q \ Commands(q), q[i] = q[j]
       PROVE  i = j
  <2>1. \A k \in DOMAIN a : k \notin Commands(q) => k \in DOMAIN a \ Commands(a) /\ q[k] \in AcksIn(a)
    BY <1>2, <1>5 DEF AcksIn
  <2>2. \A k \in DOMAIN b : n + k \notin Commands(q) => k \in DOMAIN b \ Commands(b) /\ q[n + k] \in AcksIn(b)
    BY <1>3, <1>6 DEF AcksIn
  <2>3. CASE i \in DOMAIN a /\ j \in DOMAIN a
    BY <1>2, <1>10, <2>1, <2>3 DEF AcksDiffer
  <2>4. CASE i \in DOMAIN a /\ j \notin DOMAIN a
    BY <1>4, <1>10, <2>1, <2>2, <2>4
  <2>5. CASE i \notin DOMAIN a /\ j \in DOMAIN a
    BY <1>4, <1>10, <2>1, <2>2, <2>5
  <2>6. CASE i \notin DOMAIN a /\ j \notin DOMAIN a
    <3>1. PICK k \in DOMAIN b : i = n + k
      BY <1>4, <2>6
    <3>2. PICK l \in DOMAIN b : j = n + l
      BY <1>4, <2>6
    <3>3. k \in DOMAIN b \ Commands(b) /\ l \in DOMAIN b \ Commands(b) /\ b[k] = b[l]
      BY <1>3, <1>10, <2>2, <3>1, <3>2
    <3>4. k = l
      BY <1>10, <3>3 DEF AcksDiffer
    <3>. QED
      BY <3>1, <3>2, <3>4
  <2>. QED
    BY <2>3, <2>4, <2>5, <2>6
<1>11. ASSUME AcksDiffer(a), AcksDiffer(b), AcksIn(a) \cap AcksIn(b) = {} PROVE AcksDiffer(q)
  BY <1>10, <1>11 DEF AcksDiffer
<1>. QED
  BY <1>9, <1>11 DEF q

\* The acknowledgements of a message differ, and have its number.
LEMMA AcksParts ==
    ASSUME NEW m \in Msgs
    PROVE  /\ Acks(m) \in Seq(Entries)
           /\ Items(Acks(m)) = {} /\ InSequence(Acks(m)) /\ AcksDiffer(Acks(m))
           /\ AcksIn(Acks(m)) = ToSet(Acks(m))
           /\ \A e \in ToSet(Acks(m)) : e.id = m.id
<1>. DEFINE q == Acks(m)
<1>1. m.acks \in Nat /\ m.id \in Nat
  BY DEF Msgs
<1>2. q \in Seq(Entries) /\ DOMAIN q = 1 .. m.acks /\ \A i \in 1 .. m.acks : q[i] = Ack(m.id, i)
  BY <1>1, AcksShape DEF Acks
<1>3. \A i \in 1 .. m.acks : Ack(m.id, i).k = "ack" /\ Ack(m.id, i).id = m.id /\ Ack(m.id, i).n = i
  BY DEF Ack
<1>. HIDE DEF q
<1>4. Commands(q) = {}
  BY <1>2, <1>3 DEF Commands
<1>5. AcksDiffer(q)
  BY <1>2, <1>3 DEF AcksDiffer
<1>6. AcksIn(q) = ToSet(q)
  BY <1>4 DEF AcksIn, ToSet
<1>7. \A e \in ToSet(q) : e.id = m.id
  BY <1>2, <1>3 DEF ToSet
<1>8. Items(q) = {} /\ InSequence(q)
  BY <1>4 DEF Items, InSequence
<1>. QED
  BY <1>2, <1>5, <1>6, <1>7, <1>8 DEF q

LEMMA PackageParts ==
    /\ Inventory \in Seq(Entries) /\ Items(Inventory) = 1 .. N_GET
    /\ InSequence(Inventory) /\ AcksDiffer(Inventory) /\ AcksIn(Inventory) = {}
    /\ Configuration \in Seq(Entries) /\ Items(Configuration) = N_GET + 1 .. All
    /\ InSequence(Configuration) /\ AcksDiffer(Configuration) /\ AcksIn(Configuration) = {}
<1>1. N_GET \in Nat /\ N_CONF \in Nat
  BY Sizes
<1>2. Inventory \in Seq(Entries) /\ DOMAIN Inventory = 1 .. N_GET /\ \A i \in 1 .. N_GET : Inventory[i] = Get(i)
  BY <1>1, CommandsShape
<1>3. Configuration \in Seq(Entries) /\ DOMAIN Configuration = 1 .. N_CONF
      /\ \A i \in 1 .. N_CONF : Configuration[i] = Conf(i)
  BY <1>1, CommandsShape
<1>4. \A i \in Nat : Get(i).k = "get" /\ Place(Get(i)) = i
  BY DEF Get, Place
<1>5. \A i \in Nat : Conf(i).k = "conf" /\ Place(Conf(i)) = N_GET + i
  BY DEF Conf, Place
<1>6. Commands(Inventory) = 1 .. N_GET
  BY <1>1, <1>2, <1>4 DEF Commands
<1>7. Commands(Configuration) = 1 .. N_CONF
  BY <1>1, <1>3, <1>5 DEF Commands
<1>8. \A i \in 1 .. N_GET : Place(Inventory[i]) = i
  BY <1>1, <1>2, <1>4
<1>9. \A i \in 1 .. N_CONF : Place(Configuration[i]) = N_GET + i
  BY <1>1, <1>3, <1>5
<1>10. Items(Inventory) = 1 .. N_GET
  <2>1. Items(Inventory) = {Place(Inventory[i]) : i \in 1 .. N_GET}
    BY <1>6 DEF Items
  <2>. QED
    BY <2>1, <1>8
<1>11. Items(Configuration) = N_GET + 1 .. All
  <2>1. Items(Configuration) = {Place(Configuration[i]) : i \in 1 .. N_CONF}
    BY <1>7 DEF Items
  <2>2. ASSUME NEW x \in N_GET + 1 .. All PROVE x \in Items(Configuration)
    <3>1. x - N_GET \in 1 .. N_CONF /\ N_GET + (x - N_GET) = x
      BY <1>1 DEF All
    <3>. QED
      BY <1>9, <2>1, <3>1
  <2>3. ASSUME NEW x \in Items(Configuration) PROVE x \in N_GET + 1 .. All
    <3>1. PICK i \in 1 .. N_CONF : x = N_GET + i
      BY <1>9, <2>1
    <3>. QED
      BY <1>1, <3>1 DEF All
  <2>. QED
    BY <2>2, <2>3
<1>12. InSequence(Inventory)
  BY <1>1, <1>6, <1>8 DEF InSequence
<1>13. InSequence(Configuration)
  BY <1>1, <1>7, <1>9 DEF InSequence
<1>14. DOMAIN Inventory \ Commands(Inventory) = {} /\ DOMAIN Configuration \ Commands(Configuration) = {}
  BY <1>2, <1>3, <1>6, <1>7
<1>15. AcksIn(Inventory) = {} /\ AcksIn(Configuration) = {} /\ AcksDiffer(Inventory) /\ AcksDiffer(Configuration)
  BY <1>14 DEF AcksIn, AcksDiffer
<1>. QED
  BY <1>2, <1>3, <1>10, <1>11, <1>12, <1>13, <1>15

\* Only acknowledgements, each once.
Receipts(c) == c \in Seq(Entries) /\ Items(c) = {} /\ InSequence(c) /\ AcksDiffer(c)

\* New acknowledgements go in front of what is kept.
LEMMA Inserted ==
    ASSUME NEW a \in Seq(Entries), NEW b \in Seq(Entries), NEW c, Receipts(c), NEW n \in Nat, NEW owed,
           Exact(a \o b, n, owed), AcksIn(c) \cap owed = {}
    PROVE  Exact(a \o (c \o b), n, owed \cup AcksIn(c))
<1>. DEFINE d == c \o b
<1>1. c \in Seq(Entries) /\ Items(c) = {} /\ InSequence(c) /\ AcksDiffer(c)
  BY DEF Receipts
<1>2. /\ d \in Seq(Entries) /\ Items(d) = Items(c) \cup Items(b) /\ AcksIn(d) = AcksIn(c) \cup AcksIn(b)
      /\ InSequence(d) <=> InSequence(c) /\ InSequence(b) /\ Before(c, b)
      /\ AcksDiffer(d) <=> AcksDiffer(c) /\ AcksDiffer(b) /\ AcksIn(c) \cap AcksIn(b) = {}
  BY <1>1, JoinItems, JoinInSequence, JoinAcksDiffer
<1>3. /\ Items(a \o b) = Items(a) \cup Items(b) /\ AcksIn(a \o b) = AcksIn(a) \cup AcksIn(b)
      /\ InSequence(a \o b) <=> InSequence(a) /\ InSequence(b) /\ Before(a, b)
      /\ AcksDiffer(a \o b) <=> AcksDiffer(a) /\ AcksDiffer(b) /\ AcksIn(a) \cap AcksIn(b) = {}
  BY JoinItems, JoinInSequence, JoinAcksDiffer
<1>. HIDE DEF d
<1>4. /\ Items(a \o d) = Items(a) \cup Items(d) /\ AcksIn(a \o d) = AcksIn(a) \cup AcksIn(d)
      /\ InSequence(a \o d) <=> InSequence(a) /\ InSequence(d) /\ Before(a, d)
      /\ AcksDiffer(a \o d) <=> AcksDiffer(a) /\ AcksDiffer(d) /\ AcksIn(a) \cap AcksIn(d) = {}
  BY <1>2, JoinItems, JoinInSequence, JoinAcksDiffer
<1>5. Items(a) \cup Items(b) = 1 .. n /\ AcksIn(a) \cup AcksIn(b) = owed
      /\ InSequence(a) /\ InSequence(b) /\ Before(a, b)
      /\ AcksDiffer(a) /\ AcksDiffer(b) /\ AcksIn(a) \cap AcksIn(b) = {}
  BY <1>3 DEF Exact
<1>6. Items(d) = Items(b) /\ Before(c, b) /\ Before(a, d)
  BY <1>1, <1>2, <1>5 DEF Before
<1>7. Items(a \o d) = 1 .. n /\ InSequence(a \o d)
  BY <1>1, <1>2, <1>4, <1>5, <1>6
<1>8. AcksDiffer(a \o d) /\ AcksIn(a \o d) = owed \cup AcksIn(c)
  BY <1>1, <1>2, <1>4, <1>5
<1>. QED
  BY <1>7, <1>8 DEF Exact, d

\* The next package follows the one before, which is sent.
LEMMA Extended ==
    ASSUME NEW a \in Seq(Entries), NEW b \in Seq(Entries), NEW c, Receipts(c), NEW n \in Nat, NEW u \in Nat, n <= u,
           NEW owed, Exact(a, n, owed), AcksIn(c) \cap owed = {},
           Items(b) = n + 1 .. u, InSequence(b), AcksDiffer(b), AcksIn(b) = {}
    PROVE  Exact(a \o (c \o b), u, owed \cup AcksIn(c))
<1>. DEFINE d == c \o b
<1>1. c \in Seq(Entries) /\ Items(c) = {} /\ InSequence(c) /\ AcksDiffer(c)
  BY DEF Receipts
<1>2. /\ d \in Seq(Entries) /\ Items(d) = Items(c) \cup Items(b) /\ AcksIn(d) = AcksIn(c) \cup AcksIn(b)
      /\ InSequence(d) <=> InSequence(c) /\ InSequence(b) /\ Before(c, b)
      /\ AcksDiffer(d) <=> AcksDiffer(c) /\ AcksDiffer(b) /\ AcksIn(c) \cap AcksIn(b) = {}
  BY <1>1, JoinItems, JoinInSequence, JoinAcksDiffer
<1>. HIDE DEF d
<1>4. /\ Items(a \o d) = Items(a) \cup Items(d) /\ AcksIn(a \o d) = AcksIn(a) \cup AcksIn(d)
      /\ InSequence(a \o d) <=> InSequence(a) /\ InSequence(d) /\ Before(a, d)
      /\ AcksDiffer(a \o d) <=> AcksDiffer(a) /\ AcksDiffer(d) /\ AcksIn(a) \cap AcksIn(d) = {}
  BY <1>2, JoinItems, JoinInSequence, JoinAcksDiffer
<1>5. Items(a) = 1 .. n /\ AcksIn(a) = owed /\ InSequence(a) /\ AcksDiffer(a)
  BY DEF Exact
<1>6. Items(d) = n + 1 .. u /\ Before(c, b)
  BY <1>1, <1>2 DEF Before
<1>7. \A x \in 1 .. n, y \in n + 1 .. u : x < y
  OBVIOUS
<1>8. Before(a, d) /\ 1 .. u = 1 .. n \cup n + 1 .. u
  BY <1>5, <1>6, <1>7 DEF Before
<1>9. Items(a \o d) = 1 .. u /\ InSequence(a \o d)
  BY <1>1, <1>2, <1>4, <1>5, <1>6, <1>8
<1>10. AcksDiffer(a \o d) /\ AcksIn(a \o d) = owed \cup AcksIn(c)
  BY <1>1, <1>2, <1>4, <1>5
<1>. QED
  BY <1>9, <1>10 DEF Exact, d

\* The first part of what is exact has no gap.
LEMMA GaplessFront ==
    ASSUME NEW a \in Seq(Entries), NEW b \in Seq(Entries), NEW n \in Nat, NEW owed, Exact(a \o b, n, owed)
    PROVE  Gapless(a)
<1>1. Items(a) \cup Items(b) = 1 .. n /\ InSequence(a) /\ Before(a, b)
  BY JoinItems, JoinInSequence DEF Exact
<1>2. ASSUME NEW x \in Items(a), NEW y \in 1 .. x PROVE y \in Items(a)
  <2>1. x \in 1 .. n /\ y \in 1 .. n
    BY <1>1
  <2>2. y \in Items(b) => x < y
    BY <1>1 DEF Before
  <2>. QED
    BY <1>1, <2>1, <2>2
<1>. QED
  BY <1>1, <1>2 DEF Gapless

\* A queue is what is sent of it and what is kept.
LEMMA Halves ==
    ASSUME NEW queue \in Seq(Entries), capacity \in Nat, NEW a \in Seq(Entries)
    PROVE  /\ Sent(queue) \in Seq(Entries) /\ Rest(queue) \in Seq(Entries) /\ a \o Sent(queue) \in Seq(Entries)
           /\ Sent(queue) \o Rest(queue) = queue
           /\ (a \o Sent(queue)) \o Rest(queue) = a \o queue
           /\ Rest(queue) = <<>> => Sent(queue) = queue
<1>. DEFINE b == Sent(queue)
            c == Rest(queue)
<1>1. b \in Seq(Entries) /\ c \in Seq(Entries) /\ Len(c) = Len(queue) - Len(b)
  BY Cut
<1>2. \A i \in 1 .. Len(b) : b[i] = queue[i]
  BY Cut
<1>3. \A i \in 1 .. Len(c) : c[i] = queue[Len(b) + i]
  BY Cut
<1>. HIDE DEF b, c
<1>4. b \o c \in Seq(Entries) /\ Len(b \o c) = Len(queue) /\ Len(queue) \in Nat /\ Len(b) \in Nat /\ Len(c) \in Nat
  BY <1>1
<1>5. ASSUME NEW i \in 1 .. Len(queue) PROVE (b \o c)[i] = queue[i]
  <2>1. CASE i <= Len(b)
    BY <1>1, <1>2, <1>4, <2>1
  <2>2. CASE i > Len(b)
    <3>1. i - Len(b) \in 1 .. Len(c) /\ Len(b) + (i - Len(b)) = i
      BY <1>1, <1>4, <2>2
    <3>2. (b \o c)[i] = c[i - Len(b)]
      BY <1>1, <1>4, <2>2
    <3>. QED
      BY <1>3, <3>1, <3>2
  <2>. QED
    BY <1>4, <2>1, <2>2
<1>6. b \o c = queue
  BY <1>4, <1>5, SeqEqual
<1>7. (a \o b) \o c = a \o (b \o c) /\ a \o b \in Seq(Entries)
  BY <1>1, ConcatAssociative, SMTT(40)
<1>8. c = <<>> => b = queue
  BY <1>1, <1>6
<1>. QED
  BY <1>1, <1>6, <1>7, <1>8 DEF b, c

-----------------------------------------------------------------------------
(* The writes of one message, one after the other.                           *)

Put(w, kinds, now) == IF w.op \in kinds THEN w.value ELSE now

\* The first write comes off a batch q and leaves t.
LEMMA AfterFirst ==
    ASSUME NEW q \in Seq(Writes), NEW t \in Seq(Writes), Len(q) = Len(t) + 1,
           \A i \in 1 .. Len(t) : q[i + 1] = t[i],
           NEW m \in 0 .. Len(t), NEW kinds, NEW now
    PROVE  After(q, m + 1, kinds, now) = After(t, m, kinds, Put(q[1], kinds, now))
<1>. DEFINE first == Put(q[1], kinds, now)
            P(i) == (i # 0 => q[i].op \in kinds) /\ \A k \in i + 1 .. m + 1 : q[k].op \notin kinds
            R(i) == (i # 0 => t[i].op \in kinds) /\ \A k \in i + 1 .. m : t[k].op \notin kinds
            f(i) == IF i = 0 THEN now ELSE q[i].value
            g(i) == IF i = 0 THEN first ELSE t[i].value
<1>0. Len(t) \in Nat /\ m \in Nat /\ \A i \in 1 .. m : q[i + 1] = t[i]
  OBVIOUS
<1>1. After(q, m + 1, kinds, now) = {f(i) : i \in {j \in 0 .. m + 1 : P(j)}}
  BY DEF After
<1>2. After(t, m, kinds, first) = {g(i) : i \in {j \in 0 .. m : R(j)}}
  BY DEF After
<1>3. ASSUME NEW i \in 1 .. m PROVE P(i + 1) <=> R(i)
  <2>1. q[i + 1] = t[i] /\ i # 0 /\ i + 1 # 0
    BY <1>0
  <2>2. ASSUME NEW k \in i + 1 .. m PROVE k + 1 \in (i + 1) + 1 .. m + 1 /\ q[k + 1] = t[k]
    BY <1>0
  <2>3. ASSUME NEW k \in (i + 1) + 1 .. m + 1 PROVE k - 1 \in i + 1 .. m /\ q[k] = t[k - 1]
    <3>1. k - 1 \in i + 1 .. m /\ (k - 1) + 1 = k
      BY <1>0
    <3>. QED
      BY <2>2, <3>1
  <2>. QED
    BY <2>1, <2>2, <2>3
<1>4. P(1) <=> q[1].op \in kinds /\ R(0)
  <2>1. P(1) <=> q[1].op \in kinds /\ \A k \in 1 + 1 .. m + 1 : q[k].op \notin kinds
    OBVIOUS
  <2>a. R(0) <=> \A k \in 0 + 1 .. m : t[k].op \notin kinds
    OBVIOUS
  <2>2. ASSUME NEW k \in 0 + 1 .. m PROVE k + 1 \in 1 + 1 .. m + 1 /\ q[k + 1] = t[k]
    BY <1>0
  <2>3. ASSUME NEW k \in 1 + 1 .. m + 1 PROVE k - 1 \in 0 + 1 .. m /\ q[k] = t[k - 1]
    <3>1. k - 1 \in 0 + 1 .. m /\ (k - 1) + 1 = k
      BY <1>0
    <3>. QED
      BY <2>2, <3>1
  <2>. QED
    <3>. HIDE DEF P, R
    <3>. QED
      BY <2>1, <2>a, <2>2, <2>3
<1>5. P(0) <=> q[1].op \notin kinds /\ R(0)
  <2>1. 1 \in 0 + 1 .. m + 1
    BY <1>0
  <2>2. ASSUME NEW k \in 0 + 1 .. m PROVE k + 1 \in 0 + 1 .. m + 1 /\ q[k + 1] = t[k]
    BY <1>0
  <2>3. ASSUME NEW k \in 0 + 1 .. m + 1 PROVE k = 1 \/ (k - 1 \in 0 + 1 .. m /\ q[k] = t[k - 1])
    <3>1. k = 1 \/ (k - 1 \in 0 + 1 .. m /\ (k - 1) + 1 = k)
      BY <1>0
    <3>. QED
      BY <2>2, <3>1
  <2>. QED
    BY <2>1, <2>2, <2>3
<1>6. \A i \in 1 .. m : f(i + 1) = g(i) /\ i + 1 \in 0 .. m + 1 /\ i \in 0 .. m
  BY <1>0
<1>7. 0 \in 0 .. m /\ 0 \in 0 .. m + 1 /\ 1 \in 0 .. m + 1 /\ f(0) = now /\ f(1) = q[1].value /\ g(0) = first
  BY <1>0
<1>8. first = IF q[1].op \in kinds THEN q[1].value ELSE now
  BY DEF Put
<1>. HIDE DEF P, R, f, g, first
<1>9. ASSUME NEW i \in 0 .. m + 1, P(i) PROVE \E j \in 0 .. m : R(j) /\ g(j) = f(i)
  <2>1. CASE i = 0
    BY <1>5, <1>7, <1>8, <1>9, <2>1
  <2>2. CASE i = 1
    BY <1>4, <1>7, <1>8, <1>9, <2>2
  <2>3. CASE i \notin {0, 1}
    <3>1. i - 1 \in 1 .. m /\ (i - 1) + 1 = i
      BY <1>0, <2>3
    <3>2. R(i - 1) /\ f(i) = g(i - 1) /\ i - 1 \in 0 .. m
      BY <1>3, <1>6, <1>9, <3>1
    <3>. QED
      BY <3>2
  <2>. QED
    BY <2>1, <2>2, <2>3
<1>10. ASSUME NEW j \in 0 .. m, R(j) PROVE \E i \in 0 .. m + 1 : P(i) /\ f(i) = g(j)
  <2>1. CASE j = 0 /\ q[1].op \in kinds
    BY <1>4, <1>7, <1>8, <1>10, <2>1
  <2>2. CASE j = 0 /\ q[1].op \notin kinds
    BY <1>5, <1>7, <1>8, <1>10, <2>2
  <2>3. CASE j # 0
    <3>1. j \in 1 .. m
      BY <1>0, <2>3
    <3>. QED
      BY <1>3, <1>6, <1>10, <3>1
  <2>. QED
    BY <2>1, <2>2, <2>3
<1>11. {f(i) : i \in {j \in 0 .. m + 1 : P(j)}} = {g(i) : i \in {j \in 0 .. m : R(j)}}
  BY <1>9, <1>10, Zenon
<1>. QED
  BY <1>1, <1>2, <1>11 DEF first

LEMMA AfterNone ==
    ASSUME NEW q, NEW kinds, NEW now
    PROVE  After(q, 0, kinds, now) = {now}
<1>1. {j \in 0 .. 0 : (j # 0 => q[j].op \in kinds) /\ \A k \in j + 1 .. 0 : q[k].op \notin kinds} = {0}
  OBVIOUS
<1>. QED
  BY <1>1 DEF After

\* Nothing is left to write.
LEMMA NoWrite ==
    ASSUME NEW s, NEW p, NEW v
    PROVE  Stays(<<>>, s, p, v) /\ (Ends(<<>>, s, p, v) <=> OnTrack(s, p, v))
<1>1. Len(<<>>) = 0 /\ 0 .. Len(<<>>) - 1 = {}
  OBVIOUS
<1>2. \A kinds, now : After(<<>>, 0, kinds, now) = {now}
  BY AfterNone
<1>3. OnTrackAt(0, <<>>, s, p, v) <=> OnTrack(s, p, v)
  BY <1>2 DEF OnTrackAt
<1>. QED
  BY <1>1, <1>3 DEF Stays, Ends

\* Something is: the session is on track before it and with what is left after it.
LEMMA FirstWrite ==
    ASSUME NEW q \in Seq(Writes), NEW t \in Seq(Writes), Len(q) = Len(t) + 1,
           \A i \in 1 .. Len(t) : q[i + 1] = t[i], NEW s, NEW p, NEW v
    PROVE  LET x == Put(q[1], SessionOps, s)
               y == Put(q[1], PendingOps, p)
           IN /\ Ends(q, s, p, v) <=> Ends(t, x, y, v)
              /\ Stays(q, s, p, v) <=> OnTrack(s, p, v) /\ Stays(t, x, y, v)
<1>. DEFINE x == Put(q[1], SessionOps, s)
            y == Put(q[1], PendingOps, p)
<1>0. Len(t) \in Nat
  OBVIOUS
<1>1. ASSUME NEW m \in 0 .. Len(t) PROVE OnTrackAt(m + 1, q, s, p, v) <=> OnTrackAt(m, t, x, y, v)
  <2>1. After(q, m + 1, SessionOps, s) = After(t, m, SessionOps, x)
    BY AfterFirst
  <2>2. After(q, m + 1, PendingOps, p) = After(t, m, PendingOps, y)
    BY AfterFirst
  <2>. QED
    BY <2>1, <2>2 DEF OnTrackAt
<1>2. OnTrackAt(0, q, s, p, v) <=> OnTrack(s, p, v)
  BY AfterNone DEF OnTrackAt
<1>. HIDE DEF x, y
<1>3. Ends(q, s, p, v) <=> Ends(t, x, y, v)
  BY <1>0, <1>1 DEF Ends
<1>4. ASSUME Stays(q, s, p, v) PROVE OnTrack(s, p, v) /\ Stays(t, x, y, v)
  <2>1. 0 \in 0 .. Len(q) - 1
    BY <1>0
  <2>2. \A m \in 0 .. Len(t) - 1 : m + 1 \in 0 .. Len(q) - 1 /\ m \in 0 .. Len(t)
    BY <1>0
  <2>. QED
    BY <1>1, <1>2, <1>4, <2>1, <2>2 DEF Stays
<1>5. ASSUME OnTrack(s, p, v), Stays(t, x, y, v), NEW m \in 0 .. Len(q) - 1 PROVE OnTrackAt(m, q, s, p, v)
  <2>1. CASE m = 0
    BY <1>2, <1>5, <2>1
  <2>2. CASE m # 0
    <3>1. m - 1 \in 0 .. Len(t) - 1 /\ m - 1 \in 0 .. Len(t) /\ (m - 1) + 1 = m
      BY <1>0, <2>2
    <3>2. OnTrackAt(m - 1, t, x, y, v)
      BY <1>5, <3>1 DEF Stays
    <3>. QED
      BY <1>1, <3>1, <3>2
  <2>. QED
    BY <2>1, <2>2
<1>6. OnTrack(s, p, v) /\ Stays(t, x, y, v) => Stays(q, s, p, v)
  BY <1>5 DEF Stays
<1>. QED
  BY <1>3, <1>4, <1>6 DEF x, y

\* A write that is made only on a condition goes in front.
LEMMA WhenFirst ==
    ASSUME NEW cond \in BOOLEAN, NEW kind, NEW value, cond => [op |-> kind, value |-> value] \in Writes,
           NEW t \in Seq(Writes), NEW s, NEW p, NEW v
    PROVE  LET q == When(cond, Op(kind, value)) \o t
               x == IF cond /\ kind \in SessionOps THEN value ELSE s
               y == IF cond /\ kind \in PendingOps THEN value ELSE p
           IN /\ q \in Seq(Writes)
              /\ Ends(t, x, y, v) => Ends(q, s, p, v)
              /\ (cond => OnTrack(s, p, v)) /\ Stays(t, x, y, v) => Stays(q, s, p, v)
<1>. DEFINE w == [op |-> kind, value |-> value]
            q == When(cond, Op(kind, value)) \o t
            x == IF cond /\ kind \in SessionOps THEN value ELSE s
            y == IF cond /\ kind \in PendingOps THEN value ELSE p
<1>1. CASE cond
  <2>1. q = <<w>> \o t /\ w.op = kind /\ w.value = value
    BY <1>1 DEF When, Op
  <2>2. w \in Writes
    BY <1>1
  <2>. HIDE DEF w
  <2>3. <<w>> \o t \in Seq(Writes) /\ Len(<<w>> \o t) = Len(t) + 1 /\ (<<w>> \o t)[1] = w
        /\ \A i \in 1 .. Len(t) : (<<w>> \o t)[i + 1] = t[i]
    BY <2>2
  <2>4. x = Put(w, SessionOps, s) /\ y = Put(w, PendingOps, p)
    BY <1>1, <2>1 DEF Put
  <2>. HIDE DEF q, x, y
  <2>5. q \in Seq(Writes) /\ Len(q) = Len(t) + 1 /\ q[1] = w /\ \A i \in 1 .. Len(t) : q[i + 1] = t[i]
    BY <2>1, <2>3
  <2>6. /\ Ends(q, s, p, v) <=> Ends(t, x, y, v)
        /\ Stays(q, s, p, v) <=> OnTrack(s, p, v) /\ Stays(t, x, y, v)
    BY <2>4, <2>5, FirstWrite
  <2>. QED
    BY <1>1, <2>5, <2>6 DEF q, x, y
<1>2. CASE ~cond
  <2>1. q = t
    BY <1>2 DEF When
  <2>2. x = s /\ y = p
    BY <1>2
  <2>. QED
    BY <2>1, <2>2
<1>. QED
  BY <1>1, <1>2

LEMMA WhenBatch ==
    ASSUME NEW cond \in BOOLEAN, NEW kind, NEW value, cond => [op |-> kind, value |-> value] \in Writes
    PROVE  When(cond, Op(kind, value)) \in Seq(Writes)
BY WhenShape

\* commit, as one write after the other.
LEMMA CommitInOrder ==
    ASSUME NEW ch \in Changes
    PROVE  LET dev  == When(ch.device # None, Op("putDevice", ch.device))
               drop == When(ch.dropPending, Op("delPending", None))
               rest == When(ch.pending # None, Op("putPending", ch.pending))
               gone == When(ch.close, Op("delPending", None))
               sess == When(ch.session # None, Op("putSession", ch.session))
               over == When(ch.close, Op("delSession", None))
           IN /\ ch.inRemainder = FALSE =>
                    Commit(ch) = dev \o (drop \o (rest \o (gone \o (sess \o (over \o <<>>)))))
              /\ ch.inRemainder = TRUE =>
                    Commit(ch) = dev \o (sess \o (over \o (drop \o (rest \o (gone \o <<>>)))))
<1>. DEFINE dev  == When(ch.device # None, Op("putDevice", ch.device))
            drop == When(ch.dropPending, Op("delPending", None))
            rest == When(ch.pending # None, Op("putPending", ch.pending))
            gone == When(ch.close, Op("delPending", None))
            sess == When(ch.session # None, Op("putSession", ch.session))
            over == When(ch.close, Op("delSession", None))
<1>0. /\ ch.device \in Values \cup {None} /\ ch.session \in Sessions \cup {None}
      /\ ch.pending \in Remainders \cup {None} /\ ch.dropPending \in BOOLEAN /\ ch.close \in BOOLEAN
  BY DEF Changes
<1>1. /\ ch.device # None => [op |-> "putDevice", value |-> ch.device] \in Writes
      /\ ch.session # None => [op |-> "putSession", value |-> ch.session] \in Writes
      /\ ch.pending # None => [op |-> "putPending", value |-> ch.pending] \in Writes
      /\ [op |-> "delPending", value |-> None] \in Writes /\ [op |-> "delSession", value |-> None] \in Writes
  BY <1>0 DEF Writes
<1>2. dev \in Seq(Writes)
  BY <1>1, WhenBatch
<1>3. drop \in Seq(Writes) /\ gone \in Seq(Writes) /\ over \in Seq(Writes)
  BY <1>0, <1>1, WhenBatch
<1>4. rest \in Seq(Writes)
  BY <1>1, WhenBatch
<1>5. sess \in Seq(Writes)
  BY <1>1, WhenBatch
<1>6. Commit(ch) = dev \o (IF ch.inRemainder THEN (sess \o over) \o ((drop \o rest) \o gone)
                                             ELSE ((drop \o rest) \o gone) \o (sess \o over))
  BY DEF Commit, SaveSession, SaveRemainder
<1>. HIDE DEF dev, drop, rest, gone, sess, over
<1>7. over \o <<>> = over /\ gone \o <<>> = gone
  BY <1>3
<1>8. (drop \o rest) \o gone = drop \o (rest \o gone) /\ rest \o gone \in Seq(Writes)
      /\ sess \o over \in Seq(Writes)
  BY <1>3, <1>4, <1>5, ConcatAssociative, SMTT(40)
<1>a. ASSUME NEW x \in Seq(Writes), NEW y \in Seq(Writes), NEW z \in Seq(Writes)
      PROVE  (x \o y) \o z = x \o (y \o z) /\ y \o z \in Seq(Writes)
  BY ConcatAssociative, SMTT(40)
<1>. DEFINE two == rest \o gone
            three == drop \o two
            end == sess \o over
<1>b. two \in Seq(Writes) /\ end \in Seq(Writes)
  BY <1>8
<1>c. (rest \o gone) \o end = rest \o (gone \o end)
  BY <1>3, <1>4, <1>a, <1>b, ZenonT(40)
<1>. HIDE DEF two, end
<1>d. three \in Seq(Writes) /\ three \o end = drop \o (two \o end)
  <2>1. drop \in Seq(Writes)
    BY <1>3
  <2>2. drop \o two \in Seq(Writes)
    BY <2>1, <1>a, <1>b
  <2>3. (drop \o two) \o end = drop \o (two \o end)
    BY <2>1, <1>a, <1>b
  <2>. QED
    BY <2>2, <2>3
<1>. HIDE DEF three
<1>9. (sess \o over) \o (drop \o (rest \o gone)) = sess \o (over \o (drop \o (rest \o gone)))
  <2>1. (sess \o over) \o three = sess \o (over \o three)
    BY <1>3, <1>5, <1>a, <1>d
  <2>. QED
    BY <2>1 DEF two, three
<1>10. (drop \o (rest \o gone)) \o (sess \o over) = drop \o (rest \o (gone \o (sess \o over)))
  BY <1>c, <1>d DEF two, three, end
<1>11. ch.inRemainder = FALSE => Commit(ch) = dev \o (drop \o (rest \o (gone \o (sess \o (over \o <<>>)))))
  BY <1>6, <1>7, <1>8, <1>10
<1>12. ch.inRemainder = TRUE => Commit(ch) = dev \o (sess \o (over \o (drop \o (rest \o (gone \o <<>>)))))
  BY <1>6, <1>7, <1>8, <1>9
<1>. QED
  BY <1>11, <1>12 DEF dev, drop, rest, gone, sess, over

\* What becomes of the two items.
Dropped(ch, p)  == IF ch.dropPending THEN None ELSE p
Replaced(ch, p) == IF ch.pending # None THEN ch.pending ELSE Dropped(ch, p)
Removed(ch, p)  == IF ch.close THEN None ELSE Replaced(ch, p)
Saved(ch, s)    == IF ch.session # None THEN ch.session ELSE s
Closed(ch, s)   == IF ch.close THEN None ELSE Saved(ch, s)

LEMMA ChangeWrites ==
    ASSUME NEW ch \in Changes
    PROVE  /\ ch.dropPending \in BOOLEAN /\ ch.close \in BOOLEAN
           /\ ch.device # None => [op |-> "putDevice", value |-> ch.device] \in Writes
           /\ ch.session # None => [op |-> "putSession", value |-> ch.session] \in Writes
           /\ ch.pending # None => [op |-> "putPending", value |-> ch.pending] \in Writes
           /\ [op |-> "delPending", value |-> None] \in Writes /\ [op |-> "delSession", value |-> None] \in Writes
BY DEF Changes, Writes

\* The session holds the progress: it is written last.
LEMMA SessionLast ==
    ASSUME NEW ch \in Changes, ch.inRemainder = FALSE, NEW s, NEW p, NEW v
    PROVE  /\ OnTrack(Closed(ch, s), Removed(ch, p), v) => Ends(Commit(ch), s, p, v)
           /\ /\ OnTrack(s, p, v) /\ OnTrack(s, Dropped(ch, p), v) /\ OnTrack(s, Replaced(ch, p), v)
              /\ OnTrack(s, Removed(ch, p), v)
              /\ ch.close => ch.session = None
              => Stays(Commit(ch), s, p, v)
<1>. DEFINE dev  == When(ch.device # None, Op("putDevice", ch.device))
            drop == When(ch.dropPending, Op("delPending", None))
            rest == When(ch.pending # None, Op("putPending", ch.pending))
            gone == When(ch.close, Op("delPending", None))
            sess == When(ch.session # None, Op("putSession", ch.session))
            over == When(ch.close, Op("delSession", None))
            t1 == over \o <<>>
            t2 == sess \o t1
            t3 == gone \o t2
            t4 == rest \o t3
            t5 == drop \o t4
            t6 == dev \o t5
            p1 == Dropped(ch, p)
            p2 == Replaced(ch, p)
            p3 == Removed(ch, p)
            s1 == Saved(ch, s)
            s2 == Closed(ch, s)
<1>0. Commit(ch) = t6
  BY CommitInOrder
<1>k. /\ "putDevice" \notin SessionOps /\ "putDevice" \notin PendingOps
      /\ "putSession" \in SessionOps /\ "putSession" \notin PendingOps
      /\ "delSession" \in SessionOps /\ "delSession" \notin PendingOps
      /\ "putPending" \notin SessionOps /\ "putPending" \in PendingOps
      /\ "delPending" \notin SessionOps /\ "delPending" \in PendingOps
  BY DEF SessionOps, PendingOps
<1>w. <<>> \in Seq(Writes)
  OBVIOUS
<1>1. /\ t1 \in Seq(Writes) /\ (Ends(<<>>, s2, p3, v) => Ends(t1, s1, p3, v))
      /\ (ch.close => OnTrack(s1, p3, v)) /\ Stays(<<>>, s2, p3, v) => Stays(t1, s1, p3, v)
  BY <1>k, <1>w, ChangeWrites, WhenFirst DEF Closed
<1>. HIDE DEF t1
<1>2. /\ t2 \in Seq(Writes) /\ (Ends(t1, s1, p3, v) => Ends(t2, s, p3, v))
      /\ OnTrack(s, p3, v) /\ Stays(t1, s1, p3, v) => Stays(t2, s, p3, v)
  BY <1>1, <1>k, ChangeWrites, WhenFirst DEF Saved
<1>. HIDE DEF t2
<1>3. /\ t3 \in Seq(Writes) /\ (Ends(t2, s, p3, v) => Ends(t3, s, p2, v))
      /\ OnTrack(s, p2, v) /\ Stays(t2, s, p3, v) => Stays(t3, s, p2, v)
  BY <1>2, <1>k, ChangeWrites, WhenFirst DEF Removed
<1>. HIDE DEF t3
<1>4. /\ t4 \in Seq(Writes) /\ (Ends(t3, s, p2, v) => Ends(t4, s, p1, v))
      /\ OnTrack(s, p1, v) /\ Stays(t3, s, p2, v) => Stays(t4, s, p1, v)
  BY <1>3, <1>k, ChangeWrites, WhenFirst DEF Replaced
<1>. HIDE DEF t4
<1>5. /\ t5 \in Seq(Writes) /\ (Ends(t4, s, p1, v) => Ends(t5, s, p, v))
      /\ OnTrack(s, p, v) /\ Stays(t4, s, p1, v) => Stays(t5, s, p, v)
  BY <1>4, <1>k, ChangeWrites, WhenFirst DEF Dropped
<1>. HIDE DEF t5
<1>6. /\ t6 \in Seq(Writes) /\ (Ends(t5, s, p, v) => Ends(t6, s, p, v))
      /\ OnTrack(s, p, v) /\ Stays(t5, s, p, v) => Stays(t6, s, p, v)
  BY <1>5, <1>k, ChangeWrites, WhenFirst
<1>. HIDE DEF t6
<1>7. ch.close /\ ch.session = None => s1 = s
  BY DEF Saved
<1>. HIDE DEF s1, s2, p1, p2, p3
<1>8. Stays(<<>>, s2, p3, v) /\ (OnTrack(s2, p3, v) => Ends(<<>>, s2, p3, v))
  BY NoWrite
<1>9. OnTrack(s2, p3, v) => Ends(t6, s, p, v)
  BY <1>1, <1>2, <1>3, <1>4, <1>5, <1>6, <1>8
<1>10. OnTrack(s, p, v) /\ OnTrack(s, p1, v) /\ OnTrack(s, p2, v) /\ OnTrack(s, p3, v) /\ (ch.close => ch.session = None)
       => Stays(t6, s, p, v)
  BY <1>1, <1>2, <1>3, <1>4, <1>5, <1>6, <1>7, <1>8
<1>. QED
  BY <1>0, <1>9, <1>10 DEF s2, p1, p2, p3

\* The remainder does.
LEMMA RemainderLast ==
    ASSUME NEW ch \in Changes, ch.inRemainder = TRUE, NEW s, NEW p, NEW v
    PROVE  /\ OnTrack(Closed(ch, s), Removed(ch, p), v) => Ends(Commit(ch), s, p, v)
           /\ /\ OnTrack(s, p, v) /\ OnTrack(Saved(ch, s), p, v) /\ OnTrack(Closed(ch, s), p, v)
              /\ ch.pending # None \/ ch.close =>
                    OnTrack(Closed(ch, s), Dropped(ch, p), v) /\ (ch.close => OnTrack(Closed(ch, s), Replaced(ch, p), v))
              => Stays(Commit(ch), s, p, v)
<1>. DEFINE dev  == When(ch.device # None, Op("putDevice", ch.device))
            drop == When(ch.dropPending, Op("delPending", None))
            rest == When(ch.pending # None, Op("putPending", ch.pending))
            gone == When(ch.close, Op("delPending", None))
            sess == When(ch.session # None, Op("putSession", ch.session))
            over == When(ch.close, Op("delSession", None))
            t1 == gone \o <<>>
            t2 == rest \o t1
            t3 == drop \o t2
            t4 == over \o t3
            t5 == sess \o t4
            t6 == dev \o t5
            p1 == Dropped(ch, p)
            p2 == Replaced(ch, p)
            p3 == Removed(ch, p)
            s1 == Saved(ch, s)
            s2 == Closed(ch, s)
<1>0. Commit(ch) = t6
  BY CommitInOrder
<1>k. /\ "putDevice" \notin SessionOps /\ "putDevice" \notin PendingOps
      /\ "putSession" \in SessionOps /\ "putSession" \notin PendingOps
      /\ "delSession" \in SessionOps /\ "delSession" \notin PendingOps
      /\ "putPending" \notin SessionOps /\ "putPending" \in PendingOps
      /\ "delPending" \notin SessionOps /\ "delPending" \in PendingOps
  BY DEF SessionOps, PendingOps
<1>w. <<>> \in Seq(Writes)
  OBVIOUS
<1>1. /\ t1 \in Seq(Writes) /\ (Ends(<<>>, s2, p3, v) => Ends(t1, s2, p2, v))
      /\ (ch.close => OnTrack(s2, p2, v)) /\ Stays(<<>>, s2, p3, v) => Stays(t1, s2, p2, v)
  BY <1>k, <1>w, ChangeWrites, WhenFirst DEF Removed
<1>. HIDE DEF t1
<1>2. /\ t2 \in Seq(Writes) /\ (Ends(t1, s2, p2, v) => Ends(t2, s2, p1, v))
      /\ (ch.pending # None => OnTrack(s2, p1, v)) /\ Stays(t1, s2, p2, v) => Stays(t2, s2, p1, v)
  BY <1>1, <1>k, ChangeWrites, WhenFirst DEF Replaced
<1>. HIDE DEF t2
<1>3. /\ t3 \in Seq(Writes) /\ (Ends(t2, s2, p1, v) => Ends(t3, s2, p, v))
      /\ OnTrack(s2, p, v) /\ Stays(t2, s2, p1, v) => Stays(t3, s2, p, v)
  BY <1>2, <1>k, ChangeWrites, WhenFirst DEF Dropped
<1>. HIDE DEF t3
<1>4. /\ t4 \in Seq(Writes) /\ (Ends(t3, s2, p, v) => Ends(t4, s1, p, v))
      /\ OnTrack(s1, p, v) /\ Stays(t3, s2, p, v) => Stays(t4, s1, p, v)
  BY <1>3, <1>k, ChangeWrites, WhenFirst DEF Closed
<1>. HIDE DEF t4
<1>5. /\ t5 \in Seq(Writes) /\ (Ends(t4, s1, p, v) => Ends(t5, s, p, v))
      /\ OnTrack(s, p, v) /\ Stays(t4, s1, p, v) => Stays(t5, s, p, v)
  BY <1>4, <1>k, ChangeWrites, WhenFirst DEF Saved
<1>. HIDE DEF t5
<1>6. /\ t6 \in Seq(Writes) /\ (Ends(t5, s, p, v) => Ends(t6, s, p, v))
      /\ OnTrack(s, p, v) /\ Stays(t5, s, p, v) => Stays(t6, s, p, v)
  BY <1>5, <1>k, ChangeWrites, WhenFirst
<1>. HIDE DEF t6, s1, s2, p1, p2, p3
<1>8. Stays(<<>>, s2, p3, v) /\ (OnTrack(s2, p3, v) => Ends(<<>>, s2, p3, v))
  BY NoWrite
<1>9. OnTrack(s2, p3, v) => Ends(t6, s, p, v)
  BY <1>1, <1>2, <1>3, <1>4, <1>5, <1>6, <1>8
<1>10. /\ OnTrack(s, p, v) /\ OnTrack(s1, p, v) /\ OnTrack(s2, p, v)
       /\ ch.pending # None \/ ch.close => OnTrack(s2, p1, v) /\ (ch.close => OnTrack(s2, p2, v))
       => Stays(t6, s, p, v)
  BY <1>1, <1>2, <1>3, <1>4, <1>5, <1>6, <1>8
<1>. QED
  BY <1>0, <1>9, <1>10 DEF s1, s2, p1, p2, p3

-----------------------------------------------------------------------------
(* What the entries of a message come to.                                    *)

LEMMA OfItems ==
    ASSUME NEW q \in Seq(Entries)
    PROVE  /\ Of("get", q) = Items(q) \cap 1 .. N_GET
           /\ Of("conf", q) = Confs(q)
           /\ NoCommand(q) <=> Items(q) = {}
<1>0. N_GET \in Nat /\ N_CONF \in Nat
  BY Sizes
<1>1. \A i \in DOMAIN q : q[i] \in Entries
  OBVIOUS
<1>2. \A i \in DOMAIN q : /\ q[i].k = "get" => q[i].k # "ack" /\ Place(q[i]) = q[i].n /\ q[i].n \in 1 .. N_GET
                          /\ q[i].k = "conf" => q[i].k # "ack" /\ Place(q[i]) = N_GET + q[i].n /\ q[i].n \in 1 .. N_CONF
                          /\ q[i].k # "ack" => q[i].k \in {"get", "conf"}
  BY <1>1, PlaceShape
<1>3. ASSUME NEW x \in Of("get", q) PROVE x \in Items(q) \cap 1 .. N_GET
  <2>1. PICK i \in DOMAIN q : q[i].k = "get" /\ x = q[i].n
    BY DEF Of
  <2>. QED
    BY <1>2, <2>1 DEF Items, Commands
<1>4. ASSUME NEW x \in Items(q), x \in 1 .. N_GET PROVE x \in Of("get", q)
  <2>1. PICK i \in DOMAIN q : q[i].k # "ack" /\ x = Place(q[i])
    BY DEF Items, Commands
  <2>2. q[i].k # "conf"
    BY <1>0, <1>2, <1>4, <2>1
  <2>. QED
    BY <1>2, <2>1, <2>2 DEF Of
<1>5. ASSUME NEW x \in Of("conf", q) PROVE x \in Confs(q)
  <2>1. PICK i \in DOMAIN q : q[i].k = "conf" /\ x = q[i].n
    BY DEF Of
  <2>2. x \in 1 .. N_CONF /\ N_GET + x = Place(q[i]) /\ i \in Commands(q)
    BY <1>2, <2>1 DEF Commands
  <2>. QED
    BY <2>2 DEF Items, Confs
<1>6. ASSUME NEW x \in Confs(q) PROVE x \in Of("conf", q)
  <2>0. x \in 1 .. N_CONF /\ N_GET + x \in Items(q)
    BY DEF Confs
  <2>1. PICK i \in DOMAIN q : q[i].k # "ack" /\ N_GET + x = Place(q[i])
    BY <2>0 DEF Items, Commands
  <2>2. q[i].k = "conf" /\ q[i].n = x
    BY <1>0, <1>2, <2>0, <2>1
  <2>. QED
    BY <2>2 DEF Of
<1>7. NoCommand(q) <=> Items(q) = {}
  BY DEF NoCommand, Items, Commands
<1>. QED
  BY <1>3, <1>4, <1>5, <1>6, <1>7

LEMMA ConfsJoin ==
    ASSUME NEW a \in Seq(Entries), NEW b \in Seq(Entries)
    PROVE  Confs(a \o b) = Confs(a) \cup Confs(b)
BY JoinItems DEF Confs

LEMMA FailingShape ==
    ASSUME NEW S PROVE IsFiniteSet(S \cap Refused) /\ Failing(S) \in Nat
<1>1. IsFiniteSet(1 .. N_CONF)
  BY Sizes, FS_Interval
<1>2. S \cap Refused \in SUBSET (1 .. N_CONF)
  BY SizesAssumption
<1>3. IsFiniteSet(S \cap Refused)
  BY <1>1, <1>2, FS_Subset
<1>. QED
  BY <1>3, FS_CardinalityType DEF Failing

LEMMA FailingUnion ==
    ASSUME NEW S, NEW T PROVE Failing(S \cup T) <= Failing(S) + Failing(T)
<1>. DEFINE A == S \cap Refused
            B == T \cap Refused
<1>1. IsFiniteSet(A) /\ IsFiniteSet(B) /\ Cardinality(A) \in Nat /\ Cardinality(B) \in Nat
  BY FailingShape DEF Failing
<1>2. Cardinality(A \cup B) = Cardinality(A) + Cardinality(B) - Cardinality(A \cap B)
  BY <1>1, FS_Union
<1>3. Cardinality(A \cap B) \in Nat
  <2>1. IsFiniteSet(A \cap B)
    BY <1>1, FS_Intersection
  <2>. QED
    BY <2>1, FS_CardinalityType
<1>4. (S \cup T) \cap Refused = A \cup B
  OBVIOUS
<1>5. Failing(S \cup T) = Cardinality(A \cup B) /\ Failing(S) = Cardinality(A) /\ Failing(T) = Cardinality(B)
  BY <1>4 DEF Failing
<1>. HIDE DEF A, B
<1>. QED
  BY <1>1, <1>2, <1>3, <1>5

\* All configuration items: all that the device refuses are among them.
LEMMA FailingAll ==
    ASSUME NEW q, Items(q) = 1 .. All
    PROVE  Failing(Confs(q)) = Cardinality(Refused)
<1>1. \A n \in 1 .. N_CONF : N_GET + n \in 1 .. All
  BY Sizes DEF All
<1>2. Confs(q) = 1 .. N_CONF
  BY <1>1 DEF Confs
<1>3. Confs(q) \cap Refused = Refused
  BY <1>2, SizesAssumption
<1>. QED
  BY <1>3 DEF Failing

LEMMA OnTrackView ==
    ASSUME NEW s, NEW p, NEW inbox, NEW owed, NEW results, NEW failed
    PROVE  OnTrack(s, p, View(inbox, owed, results, failed)) <=>
             /\ Ph(s) = "done" => Mine(s, p)
             /\ Ph(s) # "init" => Exact(inbox \o Left(s, p), Total(Ph(s)), owed)
             /\ Ph(s) \in {"configure", "done"} =>
                   /\ results = {} /\ 1 .. N_GET \subseteq Items(inbox)
                   /\ s.failures + failed >= Failing(Confs(inbox))
<1>. DEFINE v == View(inbox, owed, results, failed)
<1>1. v.inbox = inbox /\ v.owed = owed /\ v.results = results /\ v.failed = failed
  BY DEF View
<1>. HIDE DEF v
<1>2. OnTrack(s, p, v) <=>
             /\ Ph(s) = "done" => Mine(s, p)
             /\ Ph(s) # "init" => Exact(inbox \o Left(s, p), Total(Ph(s)), owed)
             /\ Ph(s) \in {"configure", "done"} =>
                   /\ results = {} /\ 1 .. N_GET \subseteq Items(inbox)
                   /\ s.failures + failed >= Failing(Confs(inbox))
  BY <1>1 DEF OnTrack
<1>. QED
  BY <1>2 DEF v

\* A session that has not begun is on track, and one whose package is sent whole stays so
\* whatever remainder of another package lies there.
LEMMA OffPackage ==
    ASSUME NEW s, NEW p, NEW q, NEW v, OnTrack(s, p, v), ~Mine(s, p), ~Mine(s, q)
    PROVE  OnTrack(s, q, v)
BY DEF OnTrack, Left

LEMMA NotBegun ==
    ASSUME NEW s, NEW p, NEW v, Ph(s) = "init"
    PROVE  OnTrack(s, p, v)
BY DEF OnTrack

-----------------------------------------------------------------------------
(* What a handler decides on.                                                *)

\* What it knows: it is the only one, and has read what is stored.
Knows(h) ==
    /\ Ready(h) /\ handlers[h].msg = client.msg /\ client.inbox \in Seq(Entries)
    /\ life = 0
    /\ handlers[h].sess = IF session = None THEN Fresh ELSE session
    /\ session \in Sessions \cup {None} /\ Ph(session) = handlers[h].sess.phase
    /\ handlers[h].sess.life = 0
    /\ Now = View(client.inbox, client.owed, handlers[h].msg.results, handlers[h].msg.failed)
    /\ handlers[h].msg.kind # "abort" => OnTrack(session, pending, Now)
    /\ Receipts(Acks(handlers[h].msg)) /\ AcksIn(Acks(handlers[h].msg)) = ToSet(Acks(handlers[h].msg))
    /\ AcksIn(Acks(handlers[h].msg)) \cap client.owed = {}
    /\ handlers[h].msg.kind = "init" => client.inbox = <<>> /\ client.owed = {}

KnowsAll(h) ==
    /\ Knows(h)
    /\ handlers[h].msg.acks <= MAX_ACKS
    /\ handlers[h].pend = pending /\ (pending # None => Few(pending))
    /\ Route(h) \in {"init", "devinfo", "continue"} => Known \subseteq handlers[h].dev \cup erased

LEMMA Knowing ==
    ASSUME Types, Track, NEW h \in Handlers, handlers[h].pc \in {"auth", "decide"}
    PROVE  Knows(h) /\ (handlers[h].pc = "decide" => KnowsAll(h))
<1>. DEFINE m == handlers[h].msg
<1>1. Ready(h)
  BY ReadyToDecide
<1>2. m = client.msg /\ client.state = "wait" /\ m \in Msgs
  BY <1>1 DEF Track, Single, Busy, Ready
<1>3. client.inbox \in Seq(Entries) /\ session \in Sessions \cup {None}
  BY DEF Types, Clients, Queues, Stored
<1>4. handlers[h].sess = IF session = None THEN Fresh ELSE session
  BY DEF Track, Current
<1>5. Young /\ Told /\ Tracked
  BY DEF Track
<1>6. /\ Ph(session) = handlers[h].sess.phase /\ handlers[h].sess.life = 0
  <2>1. session = None => Fresh.phase = "init" /\ Fresh.life = 0
    BY <1>5 DEF Fresh, Young
  <2>. QED
    BY <1>4, <1>5, <2>1 DEF Ph, Young
<1>7. Lasting /\ ~Answered /\ client.msg # None
  <2>1. client.msg # None
    BY <1>2, <1>5 DEF Told
  <2>. QED
    BY <1>2, <2>1 DEF Lasting, Answered
<1>8. Now = View(client.inbox, client.owed, m.results, m.failed)
  BY <1>2, <1>7 DEF Now, Unreported, Uncounted
<1>9. ASSUME m.kind # "abort" PROVE OnTrack(session, pending, Now)
  <2>1. \A g \in Handlers : handlers[g].pc # "commit"
    BY DEF Track, Single, Busy
  <2>2. ~Aborting
    BY <1>2, <1>9 DEF Aborting
  <2>. QED
    BY <1>5, <1>7, <2>1, <2>2 DEF Tracked
<1>10. Receipts(Acks(m)) /\ AcksIn(Acks(m)) = ToSet(Acks(m)) /\ \A e \in ToSet(Acks(m)) : e.id = m.id
  BY <1>2, AcksParts DEF Receipts
<1>11. \A e \in client.owed : e.id < m.id
  BY <1>2, <1>5 DEF Told
<1>12. m.id \in Nat
  BY <1>2 DEF Msgs
<1>13. AcksIn(Acks(m)) \cap client.owed = {}
  <2>1. ASSUME NEW e \in client.owed, e \in ToSet(Acks(m)) PROVE FALSE
    <3>1. e.id < m.id /\ e.id = m.id
      BY <1>10, <1>11, <2>1
    <3>. QED
      BY <1>12, <3>1
  <2>. QED
    BY <1>10, <2>1
<1>14. m.kind = "init" => client.inbox = <<>> /\ client.owed = {}
  BY <1>2, <1>5, <1>7 DEF Told
<1>15. Knows(h)
  BY <1>1, <1>2, <1>3, <1>4, <1>5, <1>6, <1>8, <1>9, <1>10, <1>13, <1>14 DEF Knows, Young
<1>16. ASSUME handlers[h].pc = "decide" PROVE KnowsAll(h)
  BY <1>5, <1>15, <1>16 DEF KnowsAll, Track, Current, Young
<1>. QED
  BY <1>15, <1>16

Settled(h) ==
    \E r \in Replies, ch \in Changes : Decided(h, r, ch) /\ Due(handlers[h].msg, Commit(ch), r)

LEMMA NoChangesCommit == Commit(NoChanges) = <<>>
<1>1. NoChanges.device = None /\ NoChanges.session = None /\ NoChanges.pending = None
      /\ NoChanges.dropPending = FALSE /\ NoChanges.close = FALSE /\ NoChanges.inRemainder = FALSE
  BY DEF NoChanges
<1>2. SaveSession(NoChanges) = <<>> \o <<>> /\ SaveRemainder(NoChanges) = <<>> \o <<>> \o <<>>
  BY <1>1 DEF SaveSession, SaveRemainder, When
<1>. QED
  BY <1>1, <1>2 DEF Commit, When

\* A message that is refused changes nothing.
LEMMA RefusalDue ==
    ASSUME NEW h, Knows(h), NEW status \in {400, 413}, Decide(h, Refusal(status), NoChanges)
    PROVE  Settled(h)
<1>1. Decided(h, Refusal(status), NoChanges)
  BY DEF Decide, Only, Step, Decided
<1>2. Refusal(status) \in Replies /\ Refusal(status).status = status /\ NoChanges \in Changes
  BY RefusalShape
<1>3. ToSet(<<>>) = {}
  BY DEF ToSet
<1>4. Due(handlers[h].msg, <<>>, Refusal(status))
  <2>1. handlers[h].msg.kind # "abort" => Ends(<<>>, session, pending, Now)
    BY NoWrite DEF Knows
  <2>. QED
    BY <1>2, <1>3, <2>1, NoWrite DEF Due
<1>. QED
  BY <1>1, <1>2, <1>4, NoChangesCommit DEF Settled

Holds(r, queue, failures) ==
    /\ r \in Replies /\ r.status = 200 /\ r.body = Sent(queue) /\ r.failures = failures
    /\ r.final <=> Rest(queue) = <<>>

\* _next_message: refused, or answered with what fits.
LEMMA EmitDue ==
    ASSUME NEW h, Knows(h), NEW queue \in Seq(Entries), NEW required \in Nat, NEW failures \in Nat,
           NEW ch \in Changes, Emit(h, queue, required, failures, ch),
           \A r : /\ Holds(r, queue, failures) /\ required <= capacity /\ Len(Rest(queue)) <= MAX_STORED
                  => Due(handlers[h].msg, Commit(ch), r)
    PROVE  Settled(h)
<1>. DEFINE r == Reply(200, Sent(queue), Rest(queue) = <<>>, failures, HeaderNonce(h))
<1>0. Ready(h)
  BY DEF Knows
<1>1. capacity \in Nat /\ MAX_STORED \in Nat
  BY <1>0, Sizes DEF Ready
<1>2. Sent(queue) \in Seq(Entries) /\ Rest(queue) \in Seq(Entries) /\ HeaderNonce(h) \in Nat
  BY <1>0, <1>1, Cut, ReadShape
<1>3. Len(Rest(queue)) \in Nat
  BY <1>2
<1>4. \/ \E status \in {400, 413} : Decide(h, Refusal(status), NoChanges)
      \/ required <= capacity /\ Len(Rest(queue)) <= MAX_STORED /\ Decide(h, r, ch)
  <2>. HIDE DEF r
  <2>1. CASE capacity < required
    BY <2>1 DEF Emit
  <2>2. CASE ~(capacity < required) /\ Len(Rest(queue)) > MAX_STORED
    BY <2>2 DEF Emit
  <2>3. CASE ~(capacity < required) /\ ~(Len(Rest(queue)) > MAX_STORED)
    <3>1. Decide(h, r, ch)
      BY <2>3 DEF Emit, r
    <3>. QED
      BY <1>1, <1>3, <2>3, <3>1
  <2>. QED
    BY <2>1, <2>2, <2>3
<1>5. CASE \E status \in {400, 413} : Decide(h, Refusal(status), NoChanges)
  BY <1>5, RefusalDue
<1>6. CASE required <= capacity /\ Len(Rest(queue)) <= MAX_STORED /\ Decide(h, r, ch)
  <2>. DEFINE body == Sent(queue)
              nonce == HeaderNonce(h)
  <2>1. body \in Seq(Entries) /\ nonce \in Nat
    BY <1>2
  <2>2. PICK final \in BOOLEAN : (final <=> Rest(queue) = <<>>) /\ r = Reply(200, body, final, failures, nonce)
    <3>1. CASE Rest(queue) = <<>>
      <4>1. r = Reply(200, body, TRUE, failures, nonce)
        BY <3>1
      <4>. QED
        BY <3>1, <4>1
    <3>2. CASE Rest(queue) # <<>>
      <4>1. r = Reply(200, body, FALSE, failures, nonce)
        BY <3>2
      <4>. QED
        BY <3>2, <4>1
    <3>. QED
      BY <3>1, <3>2
  <2>3. Decided(h, r, ch)
    BY <1>6 DEF Decide, Only, Step, Decided
  <2>. HIDE DEF r
  <2>4. r \in Replies /\ r.status = 200 /\ r.body = body /\ r.final = final /\ r.failures = failures
    <3>. HIDE DEF body, nonce
    <3>. QED
      BY <2>1, <2>2 DEF Reply, Replies
  <2>5. Holds(r, queue, failures)
    BY <2>2, <2>4 DEF Holds
  <2>. QED
    BY <1>6, <2>3, <2>4, <2>5 DEF Settled
<1>. QED
  BY <1>4, <1>5, <1>6

\* What is kept of the packages is little enough.
LEMMA RemainderFew ==
    ASSUME NEW s \in Sessions, s.life = 0, s.phase # "init", NEW queue \in Seq(Entries),
           Len(queue) <= MAX_ACKS + IF s.phase = "devinfo" THEN N_GET ELSE N_CONF,
           capacity \in Nat, 1 <= capacity, Len(Rest(queue)) <= MAX_STORED, Rest(queue) # <<>>
    PROVE  /\ Few(Remainder(s, queue)) /\ Remainder(s, queue) # None
           /\ Remainder(s, queue).phase = s.phase /\ Remainder(s, queue).entries = Rest(queue)
<1>. DEFINE p == Remainder(s, queue)
<1>3. /\ Rest(queue) \in Seq(Entries) /\ Len(Rest(queue)) = Len(queue) - Len(Sent(queue))
      /\ Len(Sent(queue)) = IF capacity < Len(queue) THEN capacity ELSE Len(queue)
  BY Cut
<1>4. p = [phase |-> s.phase, entries |-> Rest(queue), messages |-> 1, life |-> s.life]
  BY DEF Remainder
<1>5. s.phase \in Phases /\ s.life \in Nat
  BY DEF Sessions
<1>6. p \in Packages
  BY <1>3, <1>4, <1>5 DEF Packages
<1>7. p.phase = s.phase /\ p.entries = Rest(queue) /\ p.messages = 1 /\ p.life = 0
  BY <1>4
<1>. HIDE DEF p
<1>8. Len(Rest(queue)) \in Nat /\ Len(queue) \in Nat /\ MAX_STORED \in Nat /\ MAX_ACKS \in Nat /\ N_GET \in Nat /\ N_CONF \in Nat
  BY <1>3, Sizes
<1>9. Len(Rest(queue)) # 0
  BY <1>3
<1>10. 1 + Len(Rest(queue)) <= Len(queue)
  BY <1>3, <1>8, <1>9
<1>11. 1 + Len(Rest(queue)) <= MAX_ACKS + (IF s.phase = "devinfo" THEN N_GET ELSE N_CONF)
  BY <1>8, <1>10
<1>12. Few(p)
  BY <1>7, <1>8, <1>11 DEF Few
<1>. QED
  BY <1>6, <1>7, <1>12, NoneAssumption DEF p

\* A package is begun when the one before it is sent and answered.
LEMMA StartDue ==
    ASSUME NEW h, KnowsAll(h), handlers[h].msg.kind # "abort", Route(h) \in {"init", "devinfo"},
           NEW phase \in {"devinfo", "configure"}, phase # Ph(session), pending = None \/ Stale(h),
           NEW entries \in Seq(Entries), Len(entries) = IF phase = "devinfo" THEN N_GET ELSE N_CONF,
           entries[Len(entries)].k # "ack",
           NEW n \in Nat, Exact(client.inbox, n, client.owed), n <= Total(phase), phase = "configure" => n = N_GET,
           Items(entries) = n + 1 .. Total(phase), InSequence(entries), AcksDiffer(entries), AcksIn(entries) = {},
           Start(h, phase, Acks(handlers[h].msg) \o entries)
    PROVE  Settled(h)
<1>. DEFINE m == handlers[h].msg
            acks == Acks(m)
            queue == acks \o entries
            s == [handlers[h].sess EXCEPT !.phase = phase]
            c == Base(h)
            ch == [c EXCEPT !.device = Absorb(h), !.session = s, !.pending = Remainder(s, queue)]
            owed == client.owed \cup ToSet(acks)
<1>0. Knows(h) /\ Ready(h) /\ m \in Msgs /\ handlers[h].sess \in Sessions /\ capacity \in Nat
  BY DEF KnowsAll, Knows, Ready
<1>1. Len(entries) > 0
  BY Sizes
<1>2. queue \in Seq(Entries) /\ Len(queue) > 0 /\ queue[Len(queue)].k # "ack"
  BY <1>0, <1>1, QueueEnds
<1>3. s \in Sessions /\ s.phase = phase /\ s.life = 0 /\ s.failures \in Nat
  BY <1>0 DEF Knows, Sessions, Phases
<1>4. Emit(h, queue, 1, 0, ch)
  BY DEF Start
<1>5. acks \in Seq(Entries) /\ Receipts(acks) /\ AcksIn(acks) = ToSet(acks) /\ AcksIn(acks) \cap client.owed = {}
      /\ Items(acks) = {} /\ client.inbox \in Seq(Entries)
  BY <1>0 DEF Knows, Receipts
<1>6. Exact(client.inbox \o queue, Total(phase), owed)
  <2>1. Total(phase) \in Nat
    BY Sizes DEF Total, All
  <2>2. Exact(client.inbox \o (acks \o entries), Total(phase), client.owed \cup AcksIn(acks))
    <3>. HIDE DEF acks
    <3>. QED
      BY <1>5, <2>1, Extended
  <2>. QED
    BY <1>5, <2>2
<1>7. Items(queue) = Items(entries)
  <2>1. Items(acks \o entries) = Items(acks) \cup Items(entries)
    <3>. HIDE DEF acks
    <3>. QED
      BY <1>5, JoinItems
  <2>. QED
    BY <1>5, <2>1
<1>a. Len(queue) = m.acks + Len(entries) /\ m.acks \in Nat
  <2>1. Len(acks) = m.acks /\ m.acks \in Nat
    BY <1>0, AcksShape DEF Msgs
  <2>. HIDE DEF acks
  <2>a. acks \in Seq(Entries) /\ entries \in Seq(Entries)
    BY <1>5
  <2>2. Len(acks \o entries) = Len(acks) + Len(entries)
    BY ONLY <2>a, JoinLength
  <2>3. Len(queue) = Len(acks \o entries)
    OBVIOUS
  <2>. HIDE DEF queue
  <2>. QED
    BY <2>1, <2>2, <2>3
<1>. HIDE DEF s
<1>8. Remainder(s, queue) \in Remainders \cup {None} /\ (Rest(queue) = <<>> => Remainder(s, queue) = None)
  <2>. HIDE DEF queue
  <2>. QED
    BY <1>0, <1>2, <1>3, RemainderShape
<1>9. Bare(c) /\ (c.dropPending <=> Stale(h)) /\ Absorb(h) \in Values
  BY <1>0, BaseShape, ReadShape
<1>10. Absorb(h) # None
  BY <1>9, NoneAssumption DEF Values
<1>. HIDE DEF c, queue
<1>11. /\ ch \in Changes /\ ch.device = Absorb(h) /\ ch.session = s /\ ch.pending = Remainder(s, queue)
       /\ ch.close = FALSE /\ ch.inRemainder = FALSE /\ (ch.dropPending <=> Stale(h))
  BY <1>3, <1>8, <1>9 DEF Bare, Changes
<1>. HIDE DEF ch
<1>12. s # None
  BY <1>3, NoneAssumption
<1>13. ASSUME NEW r, Holds(r, queue, 0), 1 <= capacity, Len(Rest(queue)) <= MAX_STORED
       PROVE  Due(m, Commit(ch), r)
  <2>. DEFINE rest == Remainder(s, queue)
  <2>1. ASSUME Rest(queue) # <<>>
        PROVE  Few(rest) /\ rest # None /\ rest.phase = phase /\ rest.entries = Rest(queue)
    <3>1. Len(queue) <= MAX_ACKS + IF s.phase = "devinfo" THEN N_GET ELSE N_CONF
      BY <1>3, <1>a, Sizes DEF KnowsAll
    <3>4. queue \in Seq(Entries) /\ s \in Sessions /\ s.life = 0 /\ s.phase = phase /\ s.phase # "init" /\ capacity \in Nat
      BY <1>0, <1>2, <1>3
    <3>. HIDE DEF rest
    <3>5. /\ Few(Remainder(s, queue)) /\ Remainder(s, queue) # None
          /\ Remainder(s, queue).phase = s.phase /\ Remainder(s, queue).entries = Rest(queue)
      BY <1>13, <2>1, <3>1, <3>4, RemainderFew
    <3>. QED
      BY <3>4, <3>5 DEF rest
  <2>2. \A w \in ToSet(Commit(ch)) : Modest(w)
    <3>1. ASSUME NEW w \in ToSet(Commit(ch)) PROVE Modest(w)
      <4>1. \/ w = [op |-> "putDevice", value |-> Absorb(h)]
            \/ w = [op |-> "putSession", value |-> s]
            \/ rest # None /\ w = [op |-> "putPending", value |-> rest]
            \/ w = [op |-> "delPending", value |-> None]
        BY <1>11, <3>1, CommitShape
      <4>2. Known \subseteq Absorb(h) \cup erased
        BY DEF KnowsAll, Absorb
      <4>3. rest # None => Few(rest)
        BY <1>8, <2>1
      <4>. HIDE DEF rest
      <4>4. CASE w = [op |-> "putDevice", value |-> Absorb(h)]
        <5>1. w.op = "putDevice" /\ w.value = Absorb(h)
          BY <4>4
        <5>. QED
          BY <4>2, <5>1 DEF Modest
      <4>5. CASE w = [op |-> "putSession", value |-> s]
        <5>1. w.op = "putSession" /\ w.value = s
          BY <4>5
        <5>. QED
          BY <1>3, <5>1 DEF Modest
      <4>6. CASE rest # None /\ w = [op |-> "putPending", value |-> rest]
        <5>1. w.op = "putPending" /\ w.value = rest
          BY <4>6
        <5>. QED
          BY <4>3, <4>6, <5>1 DEF Modest
      <4>7. CASE w = [op |-> "delPending", value |-> None]
        BY <4>7 DEF Modest
      <4>. QED
        BY <4>1, <4>4, <4>5, <4>6, <4>7
    <3>. QED
      BY <3>1
  <2>3. Absorbed(m, Commit(ch))
    <3>1. [op |-> "putDevice", value |-> Absorb(h)] \in ToSet(Commit(ch))
      BY <1>10, <1>11, CommitShape
    <3>2. m.results \subseteq Absorb(h)
      BY DEF Absorb
    <3>3. PICK w \in ToSet(Commit(ch)) : w.op = "putDevice" /\ w.value = Absorb(h)
      BY <3>1
    <3>. QED
      BY <3>2, <3>3 DEF Absorbed
  <2>4. Stays(Commit(ch), session, pending, Now)
    <3>1. OnTrack(session, pending, Now) /\ Ph(session) = handlers[h].sess.phase
      BY <1>0 DEF Knows
    <3>2. ~Mine(session, pending) /\ ~Mine(session, None)
      BY <3>1 DEF Mine, Stale, KnowsAll
    <3>3. ~Mine(session, rest)
      BY <1>8, <2>1 DEF Mine
    <3>4. Dropped(ch, pending) \in {pending, None} /\ Replaced(ch, pending) \in {rest, pending, None}
          /\ Removed(ch, pending) \in {rest, pending, None}
      BY <1>11 DEF Dropped, Replaced, Removed
    <3>. HIDE DEF rest
    <3>5. \A p \in {rest, pending, None} : OnTrack(session, p, Now)
      BY <3>1, <3>2, <3>3, OffPackage
    <3>6. /\ OnTrack(session, Dropped(ch, pending), Now) /\ OnTrack(session, Replaced(ch, pending), Now)
          /\ OnTrack(session, Removed(ch, pending), Now)
      BY <3>4, <3>5
    <3>. QED
      BY <1>11, <3>1, <3>6, SessionLast
  <2>5. r.body = Sent(queue) /\ r.status = 200 /\ (r.final <=> Rest(queue) = <<>>)
    BY <1>13 DEF Holds
  <2>6. ~Closes(r, m)
    BY <1>0, <1>2, <2>5, PackageEnds DEF Closes
  <2>. DEFINE body == Sent(queue)
              inbox == client.inbox \o body
              p == Removed(ch, pending)
  <2>7. /\ body \in Seq(Entries) /\ Rest(queue) \in Seq(Entries) /\ inbox \in Seq(Entries)
        /\ Exact(inbox \o Rest(queue), Total(phase), owed)
        /\ Items(body) \cup Items(Rest(queue)) = Items(entries)
    <3>1. /\ body \in Seq(Entries) /\ Rest(queue) \in Seq(Entries) /\ inbox \in Seq(Entries)
          /\ inbox \o Rest(queue) = client.inbox \o queue /\ body \o Rest(queue) = queue
      BY <1>0, <1>2, <1>5, Halves
    <3>2. Items(body \o Rest(queue)) = Items(body) \cup Items(Rest(queue))
      BY <3>1, JoinItems
    <3>. QED
      BY <1>6, <1>7, <3>1, <3>2
  <2>8. Ph(s) = phase /\ Left(s, p) = Rest(queue)
    <3>1. Ph(s) = phase
      BY <1>3, <1>12 DEF Ph
    <3>2. CASE Rest(queue) = <<>>
      <4>1. p = None
        BY <1>8, <1>11, <3>2 DEF Removed, Replaced, Dropped
      <4>. QED
        BY <3>1, <3>2, <4>1 DEF Left, Mine
    <3>3. CASE Rest(queue) # <<>>
      <4>1. p = rest
        BY <1>11, <2>1, <3>3 DEF Removed, Replaced
      <4>. QED
        BY <2>1, <3>1, <3>3, <4>1 DEF Left, Mine
    <3>. QED
      BY <3>1, <3>2, <3>3
  <2>9. Gapless(inbox)
    <3>1. Total(phase) \in Nat
      BY Sizes DEF Total, All
    <3>. HIDE DEF inbox
    <3>. QED
      BY <2>7, <3>1, GaplessFront
  <2>10. ASSUME phase = "configure"
         PROVE  /\ Of("get", body) = {} /\ 1 .. N_GET \subseteq Items(inbox)
                /\ s.failures + Failing(Of("conf", body)) >= Failing(Confs(inbox))
    <3>1. Items(client.inbox) = 1 .. N_GET /\ N_GET \in Nat /\ N_CONF \in Nat
      BY <2>10, Sizes DEF Exact
    <3>2. Items(inbox) = Items(client.inbox) \cup Items(body) /\ Confs(inbox) = Confs(client.inbox) \cup Confs(body)
      BY <1>5, <2>7, JoinItems, ConfsJoin
    <3>3. Items(body) \subseteq N_GET + 1 .. Total(phase)
      BY <2>7, <2>10
    <3>4. Of("get", body) = Items(body) \cap 1 .. N_GET /\ Of("conf", body) = Confs(body)
      BY <2>7, OfItems
    <3>5. Of("get", body) = {}
      BY <3>1, <3>3, <3>4
    <3>6. Confs(client.inbox) = {}
      BY <3>1 DEF Confs
    <3>7. Failing(Confs(inbox)) = Failing(Of("conf", body)) /\ Failing(Of("conf", body)) \in Nat
      BY <3>2, <3>4, <3>6, FailingShape
    <3>. QED
      BY <1>3, <3>1, <3>2, <3>5, <3>7
  <2>11. Then(m, r) = View(inbox, owed, Of("get", body), Failing(Of("conf", body)))
    BY <2>5 DEF Then
  <2>12. OnTrack(s, p, Then(m, r))
    <3>. HIDE DEF inbox, body, p, owed
    <3>1. OnTrack(s, p, View(inbox, owed, Of("get", body), Failing(Of("conf", body))))
      BY <2>7, <2>8, <2>10, OnTrackView
    <3>. QED
      BY <2>11, <3>1
  <2>13. Ends(Commit(ch), session, pending, Then(m, r))
    <3>1. Closed(ch, session) = s
      BY <1>11, <1>12 DEF Closed, Saved
    <3>. QED
      BY <1>11, <2>12, <3>1, SessionLast
  <2>14. GoesOnWith(m, Commit(ch), r)
    BY <2>5, <2>9, <2>13 DEF GoesOnWith
  <2>. QED
    BY <2>2, <2>3, <2>4, <2>5, <2>6, <2>14 DEF Due
<1>. QED
  BY <1>0, <1>2, <1>4, <1>11, <1>13, EmitDue

\* A session with more failures counted is in the same place.
LEMMA SamePlace ==
    ASSUME NEW s, NEW t, NEW p, NEW inbox, NEW owed, NEW results, NEW failed \in Nat,
           OnTrack(s, p, View(inbox, owed, results, failed)), Ph(s) = Ph(t),
           Ph(s) # "init" => s.failures \in Nat /\ t.failures \in Nat /\ s.failures <= t.failures
    PROVE  OnTrack(t, p, View(inbox, owed, results, failed))
<1>1. Left(s, p) = Left(t, p) /\ (Mine(s, p) <=> Mine(t, p))
  BY DEF Left, Mine
<1>2. Failing(Confs(inbox)) \in Nat
  BY FailingShape
<1>3. ASSUME Ph(t) \in {"configure", "done"}
      PROVE  results = {} /\ 1 .. N_GET \subseteq Items(inbox) /\ t.failures + failed >= Failing(Confs(inbox))
  <2>1. results = {} /\ 1 .. N_GET \subseteq Items(inbox) /\ s.failures + failed >= Failing(Confs(inbox))
    BY <1>3, OnTrackView
  <2>2. s.failures \in Nat /\ t.failures \in Nat /\ s.failures <= t.failures
    BY <1>3
  <2>. QED
    BY <1>2, <2>1, <2>2
<1>4. Ph(t) = "done" => Mine(t, p)
  BY <1>1, OnTrackView
<1>5. Ph(t) # "init" => Exact(inbox \o Left(t, p), Total(Ph(t)), owed)
  BY <1>1, OnTrackView
<1>. QED
  BY <1>3, <1>4, <1>5, OnTrackView

\* The configuration is sent and answered: the rest is to acknowledge.
LEMMA FinishDue ==
    ASSUME NEW h, KnowsAll(h), HandleFinish(h)
    PROVE  Settled(h)
<1>. DEFINE m == handlers[h].msg
            queue == Acks(m)
            s == [Recorded(h) EXCEPT !.phase = "done"]
            c == Base(h)
            required == IF queue = <<>> THEN 0 ELSE 1
            rest == Remainder(s, queue)
            ch == IF Rest(queue) = <<>> THEN [c EXCEPT !.close = TRUE]
                                        ELSE [c EXCEPT !.session = s, !.pending = rest]
            inbox == client.inbox
            owed == client.owed \cup ToSet(queue)
<1>0. Knows(h) /\ Ready(h) /\ m \in Msgs /\ handlers[h].sess \in Sessions /\ capacity \in Nat
  BY DEF KnowsAll, Knows, Ready
<1>1. m.kind # "abort" /\ handlers[h].sess.phase \in {"configure", "done"} /\ (pending = None \/ Stale(h))
  BY <1>0, Routes DEF HandleFinish, At, Phases, KnowsAll
<1>2. Emit(h, queue, required, s.failures, ch)
  BY DEF HandleFinish
\* Where the session is.
<1>3. ~Mine(session, pending) /\ ~Mine(session, None)
  BY <1>0, <1>1 DEF Mine, Stale, KnowsAll, Knows
<1>4. OnTrack(session, pending, Now) /\ Now = View(inbox, client.owed, m.results, m.failed)
  BY <1>0, <1>1 DEF Knows
<1>5. Ph(session) = "configure"
  <2>1. Ph(session) # "done"
    BY <1>3, <1>4 DEF OnTrack
  <2>. QED
    BY <1>0, <1>1, <2>1 DEF Knows
<1>6. session \in Sessions /\ handlers[h].sess = session /\ session # None
  BY <1>0, <1>5 DEF Knows, Ph
<1>7. /\ Exact(inbox \o <<>>, All, client.owed) /\ m.results = {} /\ 1 .. N_GET \subseteq Items(inbox)
      /\ session.failures + m.failed >= Failing(Confs(inbox))
  <2>1. Total("configure") = All /\ Left(session, pending) = <<>>
    BY <1>3 DEF Total, Left
  <2>. HIDE DEF m, inbox
  <2>2. OnTrack(session, pending, View(inbox, client.owed, m.results, m.failed))
    BY <1>4
  <2>3. Exact(inbox \o Left(session, pending), Total(Ph(session)), client.owed)
    BY <1>5, <2>2, OnTrackView
  <2>4. m.results = {} /\ 1 .. N_GET \subseteq Items(inbox) /\ session.failures + m.failed >= Failing(Confs(inbox))
    BY <1>5, <2>2, OnTrackView
  <2>. QED
    BY <1>5, <2>1, <2>3, <2>4
<1>8. /\ queue \in Seq(Entries) /\ Receipts(queue) /\ AcksIn(queue) = ToSet(queue) /\ AcksIn(queue) \cap client.owed = {}
      /\ Items(queue) = {} /\ inbox \in Seq(Entries) /\ Len(queue) = m.acks /\ m.acks \in Nat /\ m.acks <= MAX_ACKS
      /\ \A i \in DOMAIN queue : queue[i].k = "ack"
  BY <1>0, AcksShape DEF Knows, Receipts, Msgs, KnowsAll
<1>9. /\ s \in Sessions /\ s.phase = "done" /\ s.life = 0
      /\ s.failures = session.failures + m.failed /\ s.failures \in Nat
  <2>1. m.failed \in Nat /\ session.failures \in Nat /\ session.life = 0
    BY <1>0, <1>6 DEF Msgs, Sessions, Knows
  <2>2. Recorded(h) = [session EXCEPT !.failures = @ + m.failed]
    BY <1>6 DEF Recorded
  <2>3. Recorded(h) \in Sessions /\ Recorded(h).failures = session.failures + m.failed /\ Recorded(h).life = 0
    BY <1>6, <2>1, <2>2 DEF Sessions
  <2>. QED
    BY <2>1, <2>3 DEF Sessions, Phases
<1>10. Bare(c) /\ (c.dropPending <=> Stale(h))
  BY BaseShape
<1>. HIDE DEF queue, s, c
<1>11. required \in Nat
  OBVIOUS
<1>12. s # None
  BY <1>9, NoneAssumption
<1>13. Exact(inbox \o queue, All, owed)
  <2>1. All \in Nat /\ <<>> \in Seq(Entries)
    BY Sizes DEF All
  <2>2. Exact(inbox \o (queue \o <<>>), All, client.owed \cup AcksIn(queue))
    BY <1>7, <1>8, <2>1, Inserted
  <2>3. queue \o <<>> = queue
    BY <1>8
  <2>. QED
    BY <1>8, <2>2, <2>3
<1>14. \A p : ~Mine(session, p) => OnTrack(session, p, Now)
  BY <1>3, <1>4, OffPackage
<1>15. Items(inbox) = 1 .. All
  <2>1. Items(inbox \o queue) = Items(inbox) \cup Items(queue)
    BY <1>8, JoinItems
  <2>. QED
    BY <1>8, <1>13, <2>1 DEF Exact
<1>16. s.failures >= Cardinality(Refused)
  BY <1>7, <1>9, <1>15, FailingAll
\* All fits: the session is closed.
<1>17. ASSUME Rest(queue) = <<>> PROVE Settled(h)
  <2>1. ch = [c EXCEPT !.close = TRUE]
    BY <1>17
  <2>. HIDE DEF ch, required
  <2>2. /\ ch \in Changes /\ ch.close = TRUE /\ (ch.dropPending <=> Stale(h))
        /\ ch.device = None /\ ch.session = None /\ ch.pending = None /\ ch.inRemainder = FALSE
    BY <1>10, <2>1, Closing
  <2>3. ASSUME NEW r, Holds(r, queue, s.failures) PROVE Due(m, Commit(ch), r)
    <3>1. Sent(queue) = queue
      BY <1>0, <1>8, <1>17, Halves
    <3>2. r.status = 200 /\ r.body = queue /\ r.final = TRUE /\ r.failures = s.failures
      BY <1>17, <2>3, <3>1 DEF Holds, Replies
    <3>3. Closes(r, m)
      BY <1>8, <3>2 DEF Closes, NoCommand
    <3>4. \A w \in ToSet(Commit(ch)) : Modest(w)
      <4>1. \A w \in ToSet(Commit(ch)) : w = [op |-> "delPending", value |-> None] \/ w = [op |-> "delSession", value |-> None]
        BY <2>2, CommitShape
      <4>. QED
        BY <4>1 DEF Modest
    <3>5. Absorbed(m, Commit(ch))
      BY <1>7 DEF Absorbed
    <3>6. Completes(m, r)
      BY <1>13, <1>16, <3>2 DEF Completes, queue
    <3>7. Stays(Commit(ch), session, pending, Now)
      <4>1. Dropped(ch, pending) \in {pending, None} /\ Replaced(ch, pending) \in {pending, None}
            /\ Removed(ch, pending) \in {pending, None}
        BY <2>2 DEF Dropped, Replaced, Removed
      <4>2. /\ OnTrack(session, Dropped(ch, pending), Now) /\ OnTrack(session, Replaced(ch, pending), Now)
            /\ OnTrack(session, Removed(ch, pending), Now)
        BY <1>3, <1>14, <4>1
      <4>. QED
        BY <1>4, <2>2, <4>2, SessionLast
    <3>. QED
      BY <1>1, <3>2, <3>3, <3>4, <3>5, <3>6, <3>7 DEF Due
  <2>. QED
    BY <1>0, <1>2, <1>8, <1>9, <1>11, <2>2, <2>3, EmitDue
\* It does not: the rest of the acknowledgements is kept.
<1>18. ASSUME Rest(queue) # <<>> PROVE Settled(h)
  <2>1. ch = [c EXCEPT !.session = s, !.pending = rest]
    BY <1>18
  <2>2. rest \in Remainders \cup {None}
    BY <1>0, <1>8, <1>9, RemainderShape
  <2>. HIDE DEF ch, rest
  <2>3. /\ ch \in Changes /\ ch.close = FALSE /\ (ch.dropPending <=> Stale(h))
        /\ ch.device = None /\ ch.session = s /\ ch.pending = rest /\ ch.inRemainder = FALSE
    BY <1>9, <1>10, <2>1, <2>2 DEF Bare, Changes
  <2>4. required = 1
    <3>1. queue # <<>>
      <4>1. Rest(queue) \in Seq(Entries) /\ Sent(queue) \o Rest(queue) = queue /\ Sent(queue) \in Seq(Entries)
        BY <1>0, <1>8, Halves
      <4>. QED
        BY <1>18, <4>1, ConcatEqualIffEmpty
    <3>. QED
      BY <3>1
  <2>. HIDE DEF required
  <2>5. ASSUME NEW r, Holds(r, queue, s.failures), required <= capacity, Len(Rest(queue)) <= MAX_STORED
        PROVE  Due(m, Commit(ch), r)
    <3>1. Few(rest) /\ rest # None /\ rest.phase = "done" /\ rest.entries = Rest(queue)
      <4>1. Len(queue) <= MAX_ACKS + IF s.phase = "devinfo" THEN N_GET ELSE N_CONF
        BY <1>8, <1>9, Sizes
      <4>2. s.phase # "init" /\ 1 <= capacity
        BY <1>9, <2>4, <2>5
      <4>. QED
        BY <1>0, <1>8, <1>9, <1>18, <2>5, <4>1, <4>2, RemainderFew DEF rest
    <3>2. r.status = 200 /\ r.body = Sent(queue) /\ r.final = FALSE
      BY <1>18, <2>5 DEF Holds, Replies
    <3>3. ~Closes(r, m)
      BY <1>1, <3>2 DEF Closes
    <3>4. \A w \in ToSet(Commit(ch)) : Modest(w)
      <4>1. ASSUME NEW w \in ToSet(Commit(ch))
            PROVE  \/ w.op = "putSession" /\ w.value = s
                   \/ w.op = "putPending" /\ w.value = rest
                   \/ w.op = "delPending"
        <5>1. \/ w = [op |-> "putSession", value |-> s]
              \/ w = [op |-> "putPending", value |-> rest]
              \/ w = [op |-> "delPending", value |-> None]
          BY <2>3, <4>1, CommitShape
        <5>. QED
          BY <5>1
      <4>. QED
        BY <1>9, <3>1, <4>1 DEF Modest
    <3>5. Absorbed(m, Commit(ch))
      BY <1>7 DEF Absorbed
    <3>6. Stays(Commit(ch), session, pending, Now)
      <4>1. Dropped(ch, pending) \in {pending, None} /\ Replaced(ch, pending) \in {rest, pending, None}
            /\ Removed(ch, pending) \in {rest, pending, None}
        BY <2>3 DEF Dropped, Replaced, Removed
      <4>2. ~Mine(session, rest)
        BY <1>5, <3>1 DEF Mine
      <4>3. /\ OnTrack(session, Dropped(ch, pending), Now) /\ OnTrack(session, Replaced(ch, pending), Now)
            /\ OnTrack(session, Removed(ch, pending), Now)
        BY <1>3, <1>14, <4>1, <4>2
      <4>. QED
        BY <1>4, <2>3, <4>3, SessionLast
    <3>. DEFINE body == Sent(queue)
                now == inbox \o body
    <3>7. /\ body \in Seq(Entries) /\ Rest(queue) \in Seq(Entries) /\ now \in Seq(Entries)
          /\ Exact(now \o Rest(queue), All, owed) /\ Items(body) = {}
      <4>1. /\ body \in Seq(Entries) /\ Rest(queue) \in Seq(Entries) /\ now \in Seq(Entries)
            /\ now \o Rest(queue) = inbox \o queue /\ body \o Rest(queue) = queue
        BY <1>0, <1>8, Halves
      <4>2. Items(body \o Rest(queue)) = Items(body) \cup Items(Rest(queue))
        BY <4>1, JoinItems
      <4>. QED
        BY <1>8, <1>13, <4>1, <4>2
    <3>8. Items(now) = Items(inbox) /\ Confs(now) = Confs(inbox)
      <4>. HIDE DEF body, inbox
      <4>1. Items(inbox \o body) = Items(inbox) \cup Items(body)
        BY <1>8, <3>7, JoinItems
      <4>2. Items(now) = Items(inbox)
        BY <3>7, <4>1
      <4>. QED
        BY <4>2 DEF Confs
    <3>9. Of("get", body) = {} /\ Failing(Of("conf", body)) \in Nat
      BY <3>7, OfItems, FailingShape
    <3>10. Ph(s) = "done" /\ Left(s, rest) = Rest(queue) /\ Mine(s, rest) /\ Total("done") = All
      BY <1>9, <1>12, <3>1 DEF Ph, Left, Mine, Total
    <3>11. s.failures + Failing(Of("conf", body)) >= Failing(Confs(now))
      <4>1. s.failures >= Failing(Confs(inbox)) /\ s.failures \in Nat /\ Failing(Confs(inbox)) \in Nat
        BY <1>7, <1>9, FailingShape
      <4>2. Failing(Confs(now)) = Failing(Confs(inbox))
        BY <3>8
      <4>. HIDE DEF body, now
      <4>. QED
        BY <3>9, <4>1, <4>2
    <3>12. Then(m, r) = View(now, owed, Of("get", body), Failing(Of("conf", body)))
      BY <3>2 DEF Then, queue
    <3>13. 1 .. N_GET \subseteq Items(now)
      BY <1>7, <3>8
    <3>. HIDE DEF body, now, owed
    <3>14. OnTrack(s, rest, Then(m, r))
      BY <3>7, <3>9, <3>10, <3>11, <3>12, <3>13, OnTrackView
    <3>15. Ends(Commit(ch), session, pending, Then(m, r))
      <4>1. Closed(ch, session) = s /\ Removed(ch, pending) = rest
        BY <1>12, <2>3, <3>1 DEF Closed, Saved, Removed, Replaced
      <4>. QED
        BY <2>3, <3>14, <4>1, SessionLast
    <3>16. Gapless(now)
      <4>1. All \in Nat
        BY Sizes DEF All
      <4>. QED
        BY <3>7, <4>1, GaplessFront
    <3>17. GoesOnWith(m, Commit(ch), r)
      BY <3>2, <3>15, <3>16 DEF GoesOnWith, now, body
    <3>. QED
      BY <1>1, <3>2, <3>3, <3>4, <3>5, <3>6, <3>17 DEF Due
  <2>. QED
    BY <1>0, <1>2, <1>8, <1>9, <1>11, <2>3, <2>5, EmitDue
<1>. QED
  BY <1>17, <1>18

\* What _continue_package knows of its session.
Continues(h) ==
    LET m == handlers[h].msg IN
    /\ session \in Sessions /\ handlers[h].sess = session /\ pending \in Remainders /\ handlers[h].pend = pending
    /\ pending.phase = session.phase /\ session.phase # "init" /\ Few(pending)
    /\ OnTrack(session, pending, Now) /\ Now = View(client.inbox, client.owed, m.results, m.failed)
    /\ Exact(client.inbox \o Queued(h), Total(session.phase), client.owed \cup ToSet(Acks(m)))
    /\ session.phase \in {"configure", "done"} =>
          /\ m.results = {} /\ 1 .. N_GET \subseteq Items(client.inbox)
          /\ session.failures + m.failed >= Failing(Confs(client.inbox))

LEMMA ContinuesTrack ==
    ASSUME NEW h, KnowsAll(h), Continue(h)
    PROVE  Continues(h)
<1>. DEFINE m == handlers[h].msg
            acks == Acks(m)
            inbox == client.inbox
<1>1. Knows(h) /\ Ready(h) /\ handlers[h].pend = pending
  BY DEF KnowsAll, Knows
<1>2. m.kind # "abort" /\ pending \in Remainders /\ pending.phase = handlers[h].sess.phase
  BY <1>1, ContinuedShape
<1>3. pending # None
  BY <1>2, NoneAssumption DEF Remainders
<1>4. Few(pending) /\ pending.phase # "init"
  BY <1>3 DEF KnowsAll, Few
<1>5. session \in Sessions /\ handlers[h].sess = session /\ session # None
  <2>1. Ph(session) # "init"
    BY <1>1, <1>2, <1>4 DEF Knows
  <2>. QED
    BY <1>1, <2>1 DEF Knows, Ph
<1>6. OnTrack(session, pending, Now) /\ Now = View(inbox, client.owed, m.results, m.failed)
  BY <1>1, <1>2 DEF Knows
<1>7. Ph(session) = session.phase /\ Left(session, pending) = pending.entries
  BY <1>2, <1>3, <1>5 DEF Ph, Left, Mine
<1>8. /\ acks \in Seq(Entries) /\ Receipts(acks) /\ AcksIn(acks) = ToSet(acks) /\ AcksIn(acks) \cap client.owed = {}
      /\ inbox \in Seq(Entries) /\ pending.entries \in Seq(Entries)
  BY <1>1, <1>2 DEF Knows, Receipts, Remainders, Packages
<1>9. Queued(h) = acks \o pending.entries
  BY <1>1 DEF Queued
<1>. HIDE DEF acks, inbox, m
<1>10. OnTrack(session, pending, View(inbox, client.owed, m.results, m.failed))
  BY <1>6
<1>11. Exact(inbox \o Left(session, pending), Total(Ph(session)), client.owed)
  <2>1. Ph(session) # "init"
    BY <1>2, <1>4, <1>5, <1>7
  <2>. QED
    BY <1>10, <2>1, OnTrackView
<1>12. Total(session.phase) \in Nat
  BY Sizes DEF Total, All
<1>13. Exact(inbox \o (acks \o pending.entries), Total(session.phase), client.owed \cup AcksIn(acks))
  BY <1>7, <1>8, <1>11, <1>12, Inserted
<1>14. ASSUME session.phase \in {"configure", "done"}
       PROVE  m.results = {} /\ 1 .. N_GET \subseteq Items(inbox) /\ session.failures + m.failed >= Failing(Confs(inbox))
  BY <1>7, <1>10, <1>14, OnTrackView
<1>15. Exact(inbox \o Queued(h), Total(session.phase), client.owed \cup ToSet(acks))
  BY <1>8, <1>9, <1>13
<1>. QED
  BY <1>1, <1>2, <1>4, <1>5, <1>6, <1>14, <1>15 DEF Continues, acks, inbox, m

\* The failures are those that are counted, and those the message brings.
LEMMA CountedFailures ==
    ASSUME NEW h, Ready(h), Continues(h)
    PROVE  /\ handlers[h].msg.failed \in Nat /\ session.failures \in Nat
           /\ Recorded(h).failures = session.failures + handlers[h].msg.failed
           /\ Counted(h).life = session.life /\ Counted(h).failures \in Nat
           /\ Counted(h).failures >= session.failures
           /\ session.phase \in {"configure", "done"} => Counted(h).failures = session.failures + handlers[h].msg.failed
<1>. DEFINE m == handlers[h].msg
<1>1. m.failed \in Nat /\ session.failures \in Nat
  BY DEF Ready, Continues, Msgs, Sessions
<1>2. Recorded(h) = [session EXCEPT !.failures = session.failures + m.failed] /\ session \in Sessions
  BY DEF Recorded, Continues
<1>3. Recorded(h).failures = session.failures + m.failed /\ Recorded(h).life = session.life
  BY <1>2 DEF Sessions
<1>4. Counted(h) = IF session.phase \in {"configure", "done"} THEN Recorded(h) ELSE session
  BY DEF Counted, Continues
<1>. QED
  BY <1>1, <1>3, <1>4

\* The remainder shrinks with every message.
LEMMA ShrunkFew ==
    ASSUME NEW h, Ready(h), Continue(h), Continues(h), Rest(Queued(h)) # <<>>,
           RequiredNow(Len(Acks(handlers[h].msg))) <= capacity
    PROVE  /\ Few(Shrunk(h)) /\ Shrunk(h) # None
           /\ Shrunk(h).phase = session.phase /\ Shrunk(h).entries = Rest(Queued(h))
<1>. DEFINE acks == Acks(handlers[h].msg)
            queue == Queued(h)
            p == Shrunk(h)
<1>1. pending \in Packages /\ pending.entries \in Seq(Entries) /\ pending.messages \in Nat
  BY DEF Continues, Remainders, Packages
<1>2. queue \in Seq(Entries) /\ acks \in Seq(Entries) /\ capacity \in Nat /\ queue = acks \o pending.entries
  BY ContinuedShape, AcksShape DEF Ready, Queued, Continues
<1>3. Len(queue) = Len(acks) + Len(pending.entries) /\ Len(acks) \in Nat /\ Len(pending.entries) \in Nat
  <2>. HIDE DEF acks, queue
  <2>1. Len(acks \o pending.entries) = Len(acks) + Len(pending.entries) /\ Len(acks) \in Nat /\ Len(pending.entries) \in Nat
    BY <1>1, <1>2, JoinIndex
  <2>. QED
    BY <1>2, <2>1
<1>4. /\ Rest(queue) \in Seq(Entries) /\ Len(Rest(queue)) = Len(queue) - Len(Sent(queue))
      /\ Len(Sent(queue)) = IF capacity < Len(queue) THEN capacity ELSE Len(queue)
  BY <1>2, Cut
<1>5. p = [pending EXCEPT !.entries = Rest(queue), !.messages = @ + 1]
  BY DEF Shrunk, Continues
<1>6. p \in Packages /\ p.entries = Rest(queue) /\ p.phase = pending.phase /\ p.life = pending.life
      /\ p.messages = pending.messages + 1
  <2>. HIDE DEF p, queue
  <2>. QED
    BY <1>1, <1>4, <1>5, ShrinkShape
<1>7. Len(acks) + 1 <= capacity
  BY DEF RequiredNow
<1>8. Len(Rest(queue)) # 0 /\ Len(Rest(queue)) \in Nat
  BY <1>4
<1>. HIDE DEF acks, queue, p
<1>9. Len(Rest(queue)) + 1 <= Len(pending.entries)
  <2>1. capacity < Len(queue) /\ Len(Sent(queue)) = capacity
    BY <1>3, <1>4, <1>8
  <2>2. Len(Rest(queue)) = Len(acks) + Len(pending.entries) - capacity
    BY <1>3, <1>4, <2>1
  <2>3. capacity \in Nat
    BY <1>2
  <2>. QED
    BY <1>3, <1>7, <1>8, <2>2, <2>3
<1>10. pending.phase = session.phase /\ Few(pending)
  BY DEF Continues
<1>11. p.messages + Len(p.entries) <= pending.messages + Len(pending.entries)
  BY <1>1, <1>3, <1>6, <1>8, <1>9
<1>12. p.messages + Len(p.entries) \in Nat /\ pending.messages + Len(pending.entries) \in Nat
  BY <1>1, <1>3, <1>6, <1>8, SMTT(40)
<1>13. MAX_STORED \in Nat /\ MAX_ACKS \in Nat /\ N_GET \in Nat /\ N_CONF \in Nat
  BY Sizes
<1>14. Few(p)
  BY <1>6, <1>10, <1>11, <1>12, <1>13 DEF Few
<1>. QED
  BY <1>6, <1>10, <1>14, NoneAssumption DEF p, queue

\* The answer to a message that asks for more.
LEMMA ContinueDue ==
    ASSUME NEW h, KnowsAll(h), Continue(h)
    PROVE  Settled(h)
<1>. DEFINE m == handlers[h].msg
            queue == Queued(h)
            s == Counted(h)
            rest == Shrunk(h)
            over == Over(h)
            inbox == client.inbox
            owed == client.owed \cup ToSet(Acks(m))
            required == RequiredNow(Len(Acks(m)))
            ph == session.phase
<1>0. Ready(h) /\ Knows(h) /\ capacity \in Nat /\ inbox \in Seq(Entries) /\ m \in Msgs
  BY DEF KnowsAll, Knows, Ready
<1>1. Continues(h)
  BY ContinuesTrack
<1>2. /\ m.kind # "abort" /\ queue \in Seq(Entries) /\ Len(queue) > 0 /\ s \in Sessions /\ s.phase = ph
      /\ ph = "done" => \A i \in DOMAIN queue : queue[i].k = "ack"
      /\ Rest(queue) = <<>> /\ NoCommand(Sent(queue)) <=> over
      /\ Recorded(h).failures \in Nat /\ required \in Nat /\ ph \in Phases
  BY <1>0, <1>1, ContinuedShape DEF Continues, Sessions
<1>3. PICK ch \in Changes :
        /\ Emit(h, queue, required, Recorded(h).failures, ch)
        /\ ch.device = Absorb(h) /\ ch.inRemainder = TRUE
        /\ ch.dropPending <=> Rest(queue) = <<>>
        /\ ch.pending = rest
        /\ ch.session = IF over THEN None ELSE s
        /\ ch.close <=> over
  BY <1>0, ContinuedShape
<1>4. ch.dropPending \in BOOLEAN /\ ch.close \in BOOLEAN
  BY DEF Changes
<1>5. over <=> Rest(queue) = <<>> /\ ph = "done"
  BY <1>2 DEF Over
<1>6. /\ m.failed \in Nat /\ session.failures \in Nat /\ Recorded(h).failures = session.failures + m.failed
      /\ s.life = 0 /\ s.failures \in Nat /\ s.failures >= session.failures
      /\ ph \in {"configure", "done"} => s.failures = session.failures + m.failed
  BY <1>0, <1>1, CountedFailures DEF Knows, Continues
<1>7. session # None /\ s # None /\ Ph(session) = ph /\ Ph(s) = ph /\ ph # "init"
  BY <1>1, <1>2, NoneAssumption DEF Continues, Ph
<1>8. Exact(inbox \o queue, Total(ph), owed) /\ Total(ph) \in Nat
  BY <1>1, Sizes DEF Continues, Total, All
<1>9. Absorb(h) \in Values /\ Absorb(h) # None /\ Known \subseteq Absorb(h) \cup erased /\ m.results \subseteq Absorb(h)
  <2>1. Route(h) = "continue"
    BY DEF Continue, At
  <2>2. Absorb(h) \in Values
    BY <1>0, ReadShape
  <2>. QED
    BY <2>1, <2>2, NoneAssumption DEF KnowsAll, Absorb, Values
<1>10. OnTrack(session, pending, Now) /\ OnTrack(s, pending, Now)
  <2>1. OnTrack(session, pending, Now) /\ Now = View(inbox, client.owed, m.results, m.failed)
    BY <1>1 DEF Continues
  <2>. HIDE DEF s, inbox, m
  <2>2. OnTrack(s, pending, View(inbox, client.owed, m.results, m.failed))
    BY <1>6, <1>7, <2>1, SamePlace
  <2>. QED
    BY <2>1, <2>2
<1>. HIDE DEF s, rest
<1>11. Stays(Commit(ch), session, pending, Now)
  <2>1. CASE over
    <3>1. Saved(ch, session) = session /\ Closed(ch, session) = None
      BY <1>3, <1>4, <2>1 DEF Saved, Closed
    <3>2. Ph(None) = "init"
      BY DEF Ph
    <3>3. \A p : OnTrack(None, p, Now)
      BY <3>2, NotBegun
    <3>. QED
      BY <1>3, <1>10, <3>1, <3>3, RemainderLast
  <2>2. CASE ~over
    <3>1. Saved(ch, session) = s /\ Closed(ch, session) = s
      BY <1>3, <1>4, <1>7, <2>2 DEF Saved, Closed
    <3>2. ch.pending # None => Dropped(ch, pending) = pending
      BY <1>3, <1>4 DEF Dropped, rest, Shrunk
    <3>3. ch.close = FALSE
      BY <1>3, <1>4, <2>2
    <3>. QED
      BY <1>3, <1>10, <3>1, <3>2, <3>3, RemainderLast
  <2>. QED
    BY <2>1, <2>2
<1>12. ASSUME Rest(queue) # <<>>, required <= capacity
       PROVE  Few(rest) /\ rest # None /\ rest.phase = ph /\ rest.entries = Rest(queue)
  BY <1>0, <1>1, <1>12, ShrunkFew DEF rest
<1>13. ASSUME required <= capacity PROVE \A w \in ToSet(Commit(ch)) : Modest(w)
  <2>1. rest # None => Few(rest)
    BY <1>12, <1>13 DEF rest, Shrunk
  <2>2. ASSUME NEW w \in ToSet(Commit(ch)) PROVE Modest(w)
    <3>1. \/ w = [op |-> "putDevice", value |-> Absorb(h)]
          \/ w = [op |-> "putSession", value |-> s]
          \/ rest # None /\ w = [op |-> "putPending", value |-> rest]
          \/ w = [op |-> "delPending", value |-> None]
          \/ w = [op |-> "delSession", value |-> None]
      BY <1>3, <2>2, CommitShape
    <3>2. \/ w.op = "putDevice" /\ w.value = Absorb(h)
          \/ w.op = "putSession" /\ w.value = s
          \/ rest # None /\ w.op = "putPending" /\ w.value = rest
          \/ w.op \in {"delPending", "delSession"}
      BY <3>1
    <3>. QED
      BY <1>6, <1>9, <2>1, <3>2 DEF Modest
  <2>. QED
    BY <2>2
<1>14. Absorbed(m, Commit(ch))
  <2>1. [op |-> "putDevice", value |-> Absorb(h)] \in ToSet(Commit(ch))
    BY <1>3, <1>9, CommitShape
  <2>2. PICK w \in ToSet(Commit(ch)) : w.op = "putDevice" /\ w.value = Absorb(h)
    BY <2>1
  <2>. QED
    BY <1>9, <2>2 DEF Absorbed
<1>15. ASSUME NEW r, Holds(r, queue, Recorded(h).failures), required <= capacity
       PROVE  Due(m, Commit(ch), r)
  <2>. DEFINE body == Sent(queue)
              now == inbox \o body
              p == Removed(ch, pending)
  <2>1. r.status = 200 /\ r.body = body /\ (r.final <=> Rest(queue) = <<>>) /\ r.failures = session.failures + m.failed
    BY <1>6, <1>15 DEF Holds
  <2>2. Closes(r, m) <=> over
    BY <1>2, <2>1 DEF Closes
  <2>3. /\ body \in Seq(Entries) /\ Rest(queue) \in Seq(Entries) /\ now \in Seq(Entries)
        /\ now \o Rest(queue) = inbox \o queue /\ body \o Rest(queue) = queue
        /\ Rest(queue) = <<>> => body = queue
    BY <1>0, <1>2, Halves
  \* The last acknowledgement is sent: all was received.
  <2>4. ASSUME over PROVE Completes(m, r)
    <3>1. body = queue /\ Total(ph) = All
      BY <1>5, <2>3, <2>4 DEF Total
    <3>2. Exact(now, All, owed)
      BY <1>8, <3>1
    <3>3. Items(queue) = {}
      <4>1. NoCommand(queue)
        BY <1>2, <1>5, <2>4 DEF NoCommand
      <4>. QED
        BY <1>2, <4>1, OfItems
    <3>4. Items(inbox) = 1 .. All
      <4>1. Items(inbox \o queue) = Items(inbox) \cup Items(queue)
        BY <1>0, <1>2, JoinItems
      <4>. QED
        BY <3>1, <3>2, <3>3, <4>1 DEF Exact
    <3>5. Failing(Confs(inbox)) = Cardinality(Refused)
      BY <3>4, FailingAll
    <3>6. r.failures >= Cardinality(Refused)
      BY <1>1, <1>5, <2>1, <2>4, <3>5 DEF Continues
    <3>. QED
      BY <2>1, <3>2, <3>6 DEF Completes
  \* It is not: the rest will follow.
  <2>5. ASSUME ~over PROVE GoesOnWith(m, Commit(ch), r)
    <3>1. Left(s, p) = Rest(queue) /\ (ph = "done" => Mine(s, p))
      <4>1. CASE Rest(queue) = <<>>
        <5>1. rest = None
          BY <4>1 DEF rest, Shrunk
        <5>2. p = None
          BY <1>3, <1>4, <2>5, <4>1, <5>1 DEF Removed, Replaced, Dropped
        <5>3. ph # "done"
          BY <1>5, <2>5, <4>1
        <5>. QED
          BY <4>1, <5>2, <5>3 DEF Left, Mine
      <4>2. CASE Rest(queue) # <<>>
        <5>1. Few(rest) /\ rest # None /\ rest.phase = ph /\ rest.entries = Rest(queue)
          BY <1>12, <1>15, <4>2
        <5>2. p = rest
          BY <1>3, <1>4, <2>5, <5>1 DEF Removed, Replaced
        <5>. QED
          BY <1>7, <5>1, <5>2 DEF Left, Mine
      <4>. QED
        BY <4>1, <4>2
    <3>2. Exact(now \o Rest(queue), Total(ph), owed)
      BY <1>8, <2>3
    <3>3. Gapless(now)
      <4>. HIDE DEF now, owed
      <4>. QED
        BY <1>8, <2>3, <3>2, GaplessFront
    <3>4. Items(now) = Items(inbox) \cup Items(body) /\ Confs(now) = Confs(inbox) \cup Confs(body)
      <4>. HIDE DEF inbox, body
      <4>. QED
        BY <1>0, <2>3, JoinItems, ConfsJoin
    <3>5. Of("get", body) = Items(body) \cap 1 .. N_GET /\ Of("conf", body) = Confs(body)
      BY <2>3, OfItems
    <3>6. ASSUME ph \in {"configure", "done"}
          PROVE  /\ Of("get", body) = {} /\ 1 .. N_GET \subseteq Items(now)
                 /\ s.failures + Failing(Of("conf", body)) >= Failing(Confs(now))
      <4>1. 1 .. N_GET \subseteq Items(inbox) /\ session.failures + m.failed >= Failing(Confs(inbox))
        BY <1>1, <3>6 DEF Continues
      <4>2. InSequence(now)
        BY <3>3 DEF Gapless
      <4>3. Before(inbox, body)
        <5>. HIDE DEF inbox, body
        <5>. QED
          BY <1>0, <2>3, <4>2, JoinInSequence
      <4>4. N_GET \in Nat \ {0} /\ N_GET \in Items(inbox) /\ Items(body) \subseteq Nat
        BY <2>3, <4>1, Sizes, ItemsShape
      <4>5. \A y \in Items(body) : N_GET < y
        BY <4>3, <4>4 DEF Before
      <4>6. Items(body) \cap 1 .. N_GET = {}
        BY <4>4, <4>5
      <4>7. Failing(Confs(inbox) \cup Confs(body)) <= Failing(Confs(inbox)) + Failing(Confs(body))
        BY FailingUnion
      <4>8. /\ Failing(Confs(inbox) \cup Confs(body)) \in Nat /\ Failing(Confs(inbox)) \in Nat
            /\ Failing(Confs(body)) \in Nat
        BY FailingShape
      <4>9. s.failures >= Failing(Confs(inbox))
        BY <1>6, <3>6, <4>1
      <4>10. s.failures + Failing(Confs(body)) >= Failing(Confs(inbox) \cup Confs(body))
        BY <1>6, <4>7, <4>8, <4>9
      <4>. QED
        BY <3>4, <3>5, <4>1, <4>6, <4>10
    <3>7. Then(m, r) = View(now, owed, Of("get", body), Failing(Of("conf", body)))
      BY <2>1 DEF Then
    <3>8. OnTrack(s, p, Then(m, r))
      <4>. HIDE DEF now, body, p, owed
      <4>1. OnTrack(s, p, View(now, owed, Of("get", body), Failing(Of("conf", body))))
        BY <1>7, <3>1, <3>2, <3>6, OnTrackView
      <4>. QED
        BY <3>7, <4>1
    <3>9. Closed(ch, session) = s
      BY <1>3, <1>4, <1>7, <2>5 DEF Closed, Saved
    <3>10. Ends(Commit(ch), session, pending, Then(m, r))
      BY <1>3, <3>8, <3>9, RemainderLast
    <3>. QED
      BY <2>1, <3>3, <3>10 DEF GoesOnWith
  <2>. QED
    BY <1>2, <1>11, <1>13, <1>14, <1>15, <2>1, <2>2, <2>4, <2>5 DEF Due
<1>. QED
  BY <1>0, <1>2, <1>3, <1>15, EmitDue

\* An abort: the session goes, whatever was left.
LEMMA EndDue ==
    ASSUME NEW h, KnowsAll(h), HandleEnd(h)
    PROVE  Settled(h)
<1>. DEFINE m == handlers[h].msg
            queue == Acks(m)
            c == Base(h)
            ch == [c EXCEPT !.close = TRUE]
<1>0. Knows(h) /\ Ready(h) /\ capacity \in Nat /\ m \in Msgs
  BY DEF KnowsAll, Knows, Ready
<1>1. m.kind = "abort"
  BY <1>0, Routes DEF HandleEnd, At
<1>2. Emit(h, queue, Len(queue), 0, ch)
  BY DEF HandleEnd
<1>3. queue \in Seq(Entries) /\ Len(queue) \in Nat /\ \A i \in DOMAIN queue : queue[i].k = "ack"
  BY <1>0, AcksShape
<1>4. Bare(c)
  BY BaseShape
<1>. HIDE DEF c, queue
<1>5. /\ ch \in Changes /\ ch.device = None /\ ch.session = None /\ ch.pending = None
  BY <1>4, Closing
<1>. HIDE DEF ch
<1>6. ASSUME NEW r, Holds(r, queue, 0) PROVE Due(m, Commit(ch), r)
  <2>1. r.body = Sent(queue)
    BY <1>6 DEF Holds
  <2>2. NoCommand(r.body)
    BY <1>0, <1>3, <2>1, PackageEnds
  <2>3. ASSUME NEW w \in ToSet(Commit(ch)) PROVE Modest(w)
    <3>1. w.op \in {"delPending", "delSession"}
      BY <1>5, <2>3, CommitShape
    <3>. QED
      BY <3>1 DEF Modest
  <2>. QED
    BY <1>1, <2>2, <2>3 DEF Due
<1>. QED
  BY <1>0, <1>2, <1>3, <1>5, <1>6, EmitDue

\* MAX_MESSAGES: out of reach, or the session is abandoned with what is left of it.
LEMMA AbandonDue ==
    ASSUME NEW h, KnowsAll(h), AbandonPackage(h)
    PROVE  Settled(h)
<1>. DEFINE m == handlers[h].msg
            c == Base(h)
            ch == [c EXCEPT !.close = TRUE]
            r == Refusal(413)
<1>0. Ready(h) /\ m \in Msgs
  BY DEF KnowsAll, Knows, Ready
<1>1. m.kind # "abort" /\ pending \in Remainders /\ pending.messages >= MAX_MESSAGES
  BY <1>0, Routes DEF AbandonPackage, At, KnowsAll
<1>2. Decided(h, r, ch)
  BY DEF AbandonPackage, Decide, Only, Step, Decided
<1>3. r \in Replies /\ r.status = 413
  BY RefusalShape
<1>4. Bare(c)
  BY BaseShape
<1>. HIDE DEF c, r
<1>5. /\ ch \in Changes /\ ch.device = None /\ ch.session = None /\ ch.pending = None
  BY <1>4, Closing
<1>. HIDE DEF ch
<1>6. ~OutOfReach
  <2>1. Few(pending) /\ pending.entries # <<>> /\ pending.entries \in Seq(Entries) /\ pending.messages \in Nat
    BY <1>1, NoneAssumption DEF KnowsAll, Remainders, Remains, Packages
  <2>2. Len(pending.entries) \in Nat /\ Len(pending.entries) # 0
    BY <2>1
  <2>3. /\ pending.messages + Len(pending.entries) <= MAX_STORED + 1
        /\ \/ pending.messages + Len(pending.entries) <= MAX_ACKS + N_GET
           \/ pending.messages + Len(pending.entries) <= MAX_ACKS + N_CONF
    BY <2>1 DEF Few
  <2>4. MAX_STORED \in Nat /\ MAX_ACKS \in Nat /\ N_GET \in Nat /\ N_CONF \in Nat /\ MAX_MESSAGES \in Nat
    BY Sizes
  <2>5. pending.messages + Len(pending.entries) > MAX_MESSAGES
    BY <1>1, <2>1, <2>2, <2>4
  <2>6. pending.messages + Len(pending.entries) \in Nat
    BY <2>1, <2>2
  <2>. QED
    BY <2>3, <2>4, <2>5, <2>6 DEF OutOfReach
<1>7. ASSUME NEW w \in ToSet(Commit(ch)) PROVE Modest(w)
  <2>1. w.op \in {"delPending", "delSession"}
    BY <1>5, <1>7, CommitShape
  <2>. QED
    BY <2>1 DEF Modest
<1>8. Due(m, Commit(ch), r)
  BY <1>1, <1>3, <1>6, <1>7 DEF Due
<1>. QED
  BY <1>2, <1>3, <1>5, <1>8 DEF Settled

\* A session that has not begun is begun with Alert 1200 only.
LEMMA RefuseInitDue ==
    ASSUME NEW h, KnowsAll(h), RefuseInit(h)
    PROVE  Settled(h)
<1>. DEFINE m == handlers[h].msg
            ch == Base(h)
            r == Refusal(400)
<1>0. Ready(h) /\ Knows(h)
  BY DEF KnowsAll, Knows
<1>1. m.kind # "abort" /\ Ph(session) = "init"
  BY <1>0, Routes DEF RefuseInit, At, Phases, Knows
<1>2. Decided(h, r, ch)
  BY DEF RefuseInit, Decide, Only, Step, Decided
<1>3. r \in Replies /\ r.status = 400
  BY RefusalShape
<1>4. ch \in Changes /\ ch.device = None /\ ch.session = None /\ ch.pending = None /\ ch.close = FALSE /\ ch.inRemainder = FALSE
  BY BaseShape DEF Bare
<1>. HIDE DEF ch, r
<1>5. ASSUME NEW w \in ToSet(Commit(ch)) PROVE Modest(w)
  <2>1. w.op = "delPending"
    BY <1>4, <1>5, CommitShape
  <2>. QED
    BY <2>1 DEF Modest
<1>6. Stays(Commit(ch), session, pending, Now) /\ Ends(Commit(ch), session, pending, Now)
  <2>1. \A p : OnTrack(session, p, Now)
    BY <1>1, NotBegun
  <2>2. Closed(ch, session) = session
    BY <1>4 DEF Closed, Saved
  <2>. QED
    BY <1>4, <2>1, <2>2, SessionLast
<1>7. Due(m, Commit(ch), r)
  BY <1>1, <1>3, <1>5, <1>6 DEF Due
<1>. QED
  BY <1>2, <1>3, <1>4, <1>7 DEF Settled

\* A challenge leaves the session where it is.
LEMMA ChallengeDue ==
    ASSUME NEW h, Knows(h), Challenge(h), used.nonces \in Nat
    PROVE  Settled(h)
<1>. DEFINE m == handlers[h].msg
            s == handlers[h].sess
            c == handlers[h].msg.cred
            nonce == IF Redraws(s, c) THEN used.nonces + 1 ELSE s.nonce
            r == [Refusal(401) EXCEPT !.nonce = nonce]
            t == [s EXCEPT !.nonce = nonce]
            ch == [NoChanges EXCEPT !.session = t]
<1>1. Ready(h) /\ s \in Sessions
  BY DEF Knows, Ready
<1>2. nonce \in Nat
  BY <1>1 DEF Sessions
<1>3. Decided(h, r, ch)
  BY DEF Challenge, Step, Decided, Challenged
<1>. HIDE DEF nonce, s
<1>4. r \in Replies /\ r.status = 401
  <2>1. Refusal(401) \in Replies /\ Refusal(401).status = 401
    BY RefusalShape
  <2>. QED
    BY <1>2, <2>1 DEF Replies
<1>5. t \in Sessions /\ t.phase = s.phase /\ t.failures = s.failures /\ t.life = s.life
  BY <1>1, <1>2 DEF Sessions
<1>. HIDE DEF t, r
<1>6. /\ ch \in Changes /\ ch.close = FALSE /\ ch.session = t /\ ch.device = None /\ ch.pending = None
      /\ ch.dropPending = FALSE /\ ch.inRemainder = FALSE
  <2>1. NoChanges \in Changes
    BY RefusalShape
  <2>2. NoChanges.device = None /\ NoChanges.pending = None /\ NoChanges.close = FALSE
        /\ NoChanges.dropPending = FALSE /\ NoChanges.inRemainder = FALSE
    BY DEF NoChanges
  <2>. QED
    BY <1>5, <2>1, <2>2 DEF Changes
<1>. HIDE DEF ch
<1>7. t # None /\ t.life = 0 /\ Ph(t) = Ph(session)
  <2>1. t # None
    BY <1>5, NoneAssumption
  <2>. QED
    BY <1>5, <2>1 DEF Ph, Knows, s
<1>8. ASSUME NEW w \in ToSet(Commit(ch)) PROVE Modest(w)
  <2>1. w.op = "putSession" /\ w.value = t
    BY <1>6, <1>8, CommitShape
  <2>. QED
    BY <1>7, <2>1 DEF Modest
<1>9. ASSUME m.kind # "abort" PROVE OnTrack(session, pending, Now) /\ OnTrack(t, pending, Now)
  <2>1. OnTrack(session, pending, Now) /\ Now = View(client.inbox, client.owed, m.results, m.failed)
    BY <1>9 DEF Knows
  <2>2. CASE Ph(session) = "init"
    BY <1>7, <2>1, <2>2, NotBegun
  <2>3. CASE Ph(session) # "init"
    <3>1. session = s /\ s \in Sessions
      BY <1>1, <2>3 DEF Knows, Ph, s
    <3>2. session.failures \in Nat /\ t.failures = session.failures /\ m.failed \in Nat
      BY <1>1, <1>5, <3>1 DEF Sessions, Ready, Msgs
    <3>. HIDE DEF m
    <3>3. OnTrack(t, pending, View(client.inbox, client.owed, m.results, m.failed))
      BY <1>7, <2>1, <3>2, SamePlace
    <3>. QED
      BY <2>1, <3>3
  <2>. QED
    BY <2>2, <2>3
<1>10. ASSUME m.kind # "abort"
       PROVE  Stays(Commit(ch), session, pending, Now) /\ Ends(Commit(ch), session, pending, Now)
  <2>1. /\ Closed(ch, session) = t /\ Removed(ch, pending) = pending
        /\ Dropped(ch, pending) = pending /\ Replaced(ch, pending) = pending
    BY <1>6, <1>7 DEF Closed, Saved, Removed, Replaced, Dropped
  <2>. QED
    BY <1>6, <1>9, <1>10, <2>1, SessionLast
<1>11. Due(m, Commit(ch), r)
  BY <1>4, <1>8, <1>10 DEF Due
<1>. QED
  BY <1>3, <1>4, <1>6, <1>11 DEF Settled

\* The first package is the inventory.
LEMMA InitDue ==
    ASSUME NEW h, KnowsAll(h), HandleInit(h)
    PROVE  Settled(h)
<1>. DEFINE m == handlers[h].msg
<1>0. Ready(h) /\ Knows(h)
  BY DEF KnowsAll, Knows
<1>1. m.kind = "init" /\ Route(h) = "init" /\ Ph(session) = "init" /\ (pending = None \/ Stale(h))
  BY <1>0, Routes DEF HandleInit, At, Phases, Knows, KnowsAll
<1>2. Start(h, "devinfo", Acks(m) \o Inventory)
  BY DEF HandleInit
<1>3. client.inbox = <<>> /\ client.owed = {}
  BY <1>0, <1>1 DEF Knows
<1>4. Exact(<<>>, 0, {})
  BY DEF Exact, Items, Commands, InSequence, AcksDiffer, AcksIn
<1>5. /\ Inventory \in Seq(Entries) /\ Len(Inventory) = N_GET /\ Inventory[N_GET].k # "ack"
      /\ Items(Inventory) = 0 + 1 .. Total("devinfo") /\ 0 <= Total("devinfo")
  <2>1. N_GET \in Nat \ {0} /\ Total("devinfo") = N_GET
    BY Sizes DEF Total
  <2>2. Inventory[N_GET] = Get(N_GET)
    BY <2>1, CommandsShape
  <2>3. Inventory[N_GET].k # "ack"
    BY <2>2 DEF Get
  <2>. QED
    BY <2>1, <2>3, CommandsShape, PackageParts
<1>6. InSequence(Inventory) /\ AcksDiffer(Inventory) /\ AcksIn(Inventory) = {}
  BY PackageParts
<1>. QED
  BY <1>1, <1>2, <1>3, <1>4, <1>5, <1>6, StartDue

\* The second is the configuration, after all of the inventory.
LEMMA DevinfoDue ==
    ASSUME NEW h, KnowsAll(h), HandleDevinfo(h)
    PROVE  Settled(h)
<1>. DEFINE m == handlers[h].msg
<1>0. Ready(h) /\ Knows(h)
  BY DEF KnowsAll, Knows
<1>1. m.kind # "abort" /\ Route(h) = "devinfo" /\ Ph(session) = "devinfo" /\ (pending = None \/ Stale(h))
  BY <1>0, Routes DEF HandleDevinfo, At, Phases, Knows, KnowsAll
<1>2. Start(h, "configure", Acks(m) \o Configuration)
  BY DEF HandleDevinfo
<1>3. Exact(client.inbox, N_GET, client.owed)
  <2>1. OnTrack(session, pending, View(client.inbox, client.owed, m.results, m.failed)) /\ client.inbox \in Seq(Entries)
    BY <1>0, <1>1 DEF Knows
  <2>2. Left(session, pending) = <<>> /\ Total("devinfo") = N_GET
    BY <1>0, <1>1 DEF Left, Mine, Stale, Total, Knows, KnowsAll
  <2>. HIDE DEF m
  <2>3. Exact(client.inbox \o <<>>, N_GET, client.owed)
    BY <1>1, <2>1, <2>2, OnTrackView
  <2>4. client.inbox \o <<>> = client.inbox
    BY <2>1
  <2>. QED
    BY <2>3, <2>4
<1>4. N_GET \in Nat /\ N_GET <= Total("configure") /\ Total("configure") = All
  BY Sizes DEF Total, All
<1>5. /\ Configuration \in Seq(Entries) /\ Len(Configuration) = N_CONF /\ Configuration[N_CONF].k # "ack"
  <2>1. N_CONF \in Nat \ {0}
    BY Sizes
  <2>2. Configuration[N_CONF] = Conf(N_CONF)
    BY <2>1, CommandsShape
  <2>3. Configuration[N_CONF].k # "ack"
    BY <2>2 DEF Conf
  <2>. QED
    BY <2>3, CommandsShape
<1>6. /\ InSequence(Configuration) /\ AcksDiffer(Configuration) /\ AcksIn(Configuration) = {}
      /\ Items(Configuration) = N_GET + 1 .. Total("configure")
  BY <1>4, PackageParts
<1>. QED
  BY <1>1, <1>2, <1>3, <1>4, <1>5, <1>6, StartDue

\* Whatever a handler decides, the session goes on from there or the device is told that it is over.
LEMMA AllDue ==
    ASSUME Types, Track, NEW h \in Handlers, Decides(h) \/ Challenge(h)
    PROVE  Settled(h)
<1>1. CASE RefuseCommands(h)
  <2>1. handlers[h].pc = "auth" /\ Decide(h, Refusal(413), NoChanges)
    BY <1>1 DEF RefuseCommands
  <2>. QED
    BY <2>1, Knowing, RefusalDue
<1>2. CASE Challenge(h)
  <2>1. handlers[h].pc = "auth" /\ used.nonces \in Nat
    BY <1>2 DEF Challenge, Types, Used
  <2>. QED
    BY <1>2, <2>1, Knowing, ChallengeDue
<1>3. CASE Decides(h) /\ ~RefuseCommands(h)
  <2>1. handlers[h].pc = "decide"
    BY <1>3 DEF Decides, HandleInit, RefuseInit, HandleDevinfo, HandleFinish, HandleEnd, Continue, AbandonPackage, At
  <2>2. KnowsAll(h)
    BY <2>1, Knowing
  <2>. QED
    BY <1>3, <2>2, InitDue, RefuseInitDue, DevinfoDue, FinishDue, EndDue, ContinueDue, AbandonDue DEF Decides
<1>. QED
  BY <1>1, <1>2, <1>3

-----------------------------------------------------------------------------
(* Every step keeps the invariant.                                           *)

\* A handler that is not at work has nothing to be right about.
LEMMA IdleRight ==
    ASSUME NEW h, handlers[h].pc = "idle"
    PROVE  Current(h) /\ Committed(h)
BY DEF Current, Committed

LEMMA BusyAlone ==
    ASSUME Single, NEW h \in Handlers, Busy(h)
    PROVE  /\ handlers[h].msg = client.msg /\ client.state = "wait" /\ handlers[h].live
           /\ \A g \in Handlers : g # h => handlers[g].pc = "idle"
BY DEF Single, Busy

\* The handler at work goes on.
LEMMA SingleGoesOn ==
    ASSUME Single, NEW h \in Handlers, GoesOn(h)
    PROVE  /\ Single' /\ Busy(h) /\ UNCHANGED client
           /\ \A g \in Handlers : g # h => handlers'[g].pc = "idle"
<1>1. Busy(h) /\ UNCHANGED client /\ \A g \in Handlers : g # h => handlers'[g] = handlers[g]
  BY DEF GoesOn, Busy
<1>2. \A g \in Handlers : g # h => handlers[g].pc = "idle"
  BY <1>1, BusyAlone
<1>3. \A g \in Handlers : g # h => handlers'[g].pc = "idle"
  BY <1>1, <1>2
<1>4. handlers'[h].live /\ handlers'[h].msg = client.msg /\ client.state = "wait"
  BY <1>1, BusyAlone DEF GoesOn
<1>5. Single'
  BY <1>1, <1>3, <1>4 DEF Single, Busy
<1>. QED
  BY <1>1, <1>3, <1>5

\* A step that leaves the device's side alone.
LEMMA ClientStays ==
    ASSUME UNCHANGED client
    PROVE  /\ Told' <=> Told
           /\ Gapless(client.inbox)' <=> Gapless(client.inbox)
           /\ Lasting' <=> Lasting
           /\ Aborting' <=> Aborting
           /\ Unreported' = Unreported /\ Now' = Now
           /\ \A m, r : Then(m, r)' = Then(m, r)
           /\ \A m, r : Completes(m, r)' <=> Completes(m, r)
<1>1. Answered' <=> Answered
  BY DEF Answered
<1>2. Lasting' <=> Lasting
  BY DEF Lasting
<1>3. Aborting' <=> Aborting
  BY DEF Aborting
<1>4. Unreported' = Unreported
  BY <1>1 DEF Unreported
<1>5. Uncounted' = Uncounted
  BY <1>1 DEF Uncounted
<1>6. Now' = Now
  BY <1>4, <1>5 DEF Now
<1>7. Told' <=> Told
  BY <1>1, <1>2, <1>3 DEF Told
<1>8. \A m, r : Then(m, r)' = Then(m, r)
  BY DEF Then
<1>9. \A m, r : Completes(m, r)' <=> Completes(m, r)
  BY DEF Completes
<1>. QED
  BY <1>2, <1>3, <1>4, <1>6, <1>7, <1>8, <1>9

\* A step that leaves the items alone too.
LEMMA AllStays ==
    ASSUME UNCHANGED <<items, life, client>>
    PROVE  /\ Young' <=> Young
           /\ Kept' <=> Kept
           /\ Finished' <=> Finished
           /\ OnTrack(session, pending, Now)' <=> OnTrack(session, pending, Now)
           /\ Known' = Known /\ Fresh' = Fresh
           /\ \A m, ops, r : Due(m, ops, r)' <=> Due(m, ops, r)
<1>1. session' = session /\ pending' = pending /\ device' = device /\ recorder' = recorder /\ erased' = erased
      /\ life' = life /\ client' = client
  BY DEF items, inventory
<1>2. Young' <=> Young
  BY <1>1 DEF Young
<1>3. Known' = Known /\ Fresh' = Fresh
  BY <1>1 DEF Known, Fresh
<1>4. Kept' <=> Kept
  BY <1>1, ClientStays DEF Kept
<1>5. Finished' <=> Finished
  BY <1>1 DEF Finished
<1>6. OnTrack(session, pending, Now)' <=> OnTrack(session, pending, Now)
  BY <1>1, ClientStays
<1>7. ASSUME NEW m, NEW ops, NEW r PROVE Due(m, ops, r)' <=> Due(m, ops, r)
  <2>1. \A w : Modest(w)' <=> Modest(w)
    BY <1>1, <1>3 DEF Modest
  <2>2. Absorbed(m, ops)' <=> Absorbed(m, ops)
    BY <1>1 DEF Absorbed
  <2>3. GoesOnWith(m, ops, r)' <=> GoesOnWith(m, ops, r)
    BY <1>1, ClientStays DEF GoesOnWith
  <2>4. Completes(m, r)' <=> Completes(m, r)
    BY <1>1, ClientStays
  <2>5. Now' = Now
    BY <1>1, ClientStays
  <2>. QED
    BY <1>1, <2>1, <2>2, <2>3, <2>4, <2>5 DEF Due
<1>. QED
  BY <1>2, <1>3, <1>4, <1>5, <1>6, <1>7

\* A handler reads what is stored.
LEMMA ReadTrack ==
    ASSUME Types, Track, ~scenario.lag, NEW h \in Handlers, Reads(h)
    PROVE  Track'
<1>. DEFINE l == handlers[h]
<1>0. GoesOn(h) /\ l.pc \notin {"idle", "commit"} /\ l \in Locals
  BY WorkGoesOn, ReadEffect DEF Types, Served
<1>1. /\ Single' /\ UNCHANGED client /\ (\A g \in Handlers : g # h => handlers'[g].pc = "idle")
  BY <1>0, SingleGoesOn DEF Track
<1>2. Young /\ Told /\ Gapless(client.inbox) /\ Kept /\ Finished /\ Tracked /\ Current(h)
  BY DEF Track
<1>3. l.pc \notin {"reapSession", "reapPending"}
  BY <1>2 DEF Current
<1>4. handlers \in [Handlers -> Locals]
  BY DEF Types, Served
<1>5. UNCHANGED <<items, life, client>> /\ handlers'[h].pc # "commit" /\ Current(h)'
  <2>1. CASE ReadSession(h)
    <3>. DEFINE s == IF session = None THEN Fresh ELSE session
                k == [l EXCEPT !.pc = "auth", !.sess = s]
    <3>1. Step(h, IF session # None /\ ~Live(session) THEN [l EXCEPT !.pc = "reapSession"] ELSE k)
          /\ UNCHANGED <<items, life, client>>
      BY <2>1 DEF ReadSession, SessionReads, Only
    <3>2. session # None => Live(session)
      BY <1>2 DEF Live, Young
    <3>3. Step(h, k)
      BY <3>1, <3>2
    <3>4. handlers'[h] = k
      BY <1>4, <3>3 DEF Step
    <3>5. k.pc = "auth" /\ k.sess = s
      BY <1>0 DEF Locals
    <3>6. session' = session /\ Fresh' = Fresh
      BY <3>1 DEF items, Fresh
    <3>. HIDE DEF k, l
    <3>7. Current(h)'
      BY <3>4, <3>5, <3>6 DEF Current
    <3>. QED
      BY <3>1, <3>4, <3>5, <3>7
  <2>2. CASE Authenticate(h)
    <3>. DEFINE k == [l EXCEPT !.pc = "pending"]
    <3>1. Step(h, k) /\ UNCHANGED <<items, life, client>> /\ l.msg.acks <= MAX_ACKS /\ l.pc = "auth"
      BY <2>2 DEF Authenticate, Only
    <3>2. handlers'[h] = k
      BY <1>4, <3>1 DEF Step
    <3>3. k.pc = "pending" /\ k.sess = l.sess /\ k.msg = l.msg
      BY <1>0 DEF Locals
    <3>4. session' = session /\ Fresh' = Fresh
      BY <3>1 DEF items, Fresh
    <3>5. l.sess = IF session = None THEN Fresh ELSE session
      BY <1>2, <3>1 DEF Current
    <3>. HIDE DEF k, l
    <3>6. Current(h)'
      BY <3>1, <3>2, <3>3, <3>4, <3>5 DEF Current
    <3>. QED
      BY <3>1, <3>2, <3>3, <3>6
  <2>3. CASE ReadPending(h)
    <3>. DEFINE k == [l EXCEPT !.pc = "device", !.pend = pending]
    <3>1. Step(h, IF pending # None /\ ~Live(pending) THEN [l EXCEPT !.pc = "reapPending"] ELSE k)
          /\ UNCHANGED <<items, life, client>> /\ l.pc = "pending"
      BY <2>3 DEF ReadPending, PendingReads, Only
    <3>2. pending # None => Live(pending)
      BY <1>2 DEF Live, Young, Few
    <3>3. Step(h, k)
      BY <3>1, <3>2
    <3>4. handlers'[h] = k
      BY <1>4, <3>3 DEF Step
    <3>5. k.pc = "device" /\ k.sess = l.sess /\ k.msg = l.msg /\ k.pend = pending
      BY <1>0 DEF Locals
    <3>6. session' = session /\ Fresh' = Fresh /\ pending' = pending
      BY <3>1 DEF items, Fresh
    <3>7. l.sess = (IF session = None THEN Fresh ELSE session) /\ l.msg.acks <= MAX_ACKS
      BY <1>2, <3>1 DEF Current
    <3>. HIDE DEF k, l
    <3>8. Current(h)'
      BY <3>1, <3>4, <3>5, <3>6, <3>7 DEF Current
    <3>. QED
      BY <3>1, <3>4, <3>5, <3>8
  <2>4. CASE ReadDevice(h)
    <3>. DEFINE d == IF Route(h) \in {"init", "devinfo", "continue"} THEN device ELSE {}
                k == [l EXCEPT !.pc = "decide", !.dev = d]
    <3>1. Step(h, k) /\ UNCHANGED <<items, life, client>> /\ l.pc = "device"
      BY <2>4 DEF ReadDevice, Only
    <3>2. handlers'[h] = k
      BY <1>4, <3>1 DEF Step
    <3>. HIDE DEF d
    <3>3. k.pc = "decide" /\ k.sess = l.sess /\ k.msg = l.msg /\ k.pend = l.pend /\ k.dev = d
      BY <1>0 DEF Locals
    <3>4. session' = session /\ Fresh' = Fresh /\ pending' = pending /\ Known' = Known /\ erased' = erased
      BY <3>1 DEF items, inventory, Fresh, Known
    <3>5. l.sess = (IF session = None THEN Fresh ELSE session) /\ l.msg.acks <= MAX_ACKS /\ l.pend = pending
      BY <1>2, <3>1 DEF Current
    <3>6. Route(h)' = Route(h)
      BY <3>2, <3>3 DEF Route, Stale
    <3>7. Route(h) \in {"init", "devinfo", "continue"} => Known \subseteq d \cup erased
      BY <1>2 DEF Known, Kept, d
    <3>. HIDE DEF k, l
    <3>8. Current(h)'
      BY <3>1, <3>2, <3>3, <3>4, <3>5, <3>6, <3>7 DEF Current
    <3>. QED
      BY <3>1, <3>2, <3>3, <3>8
  <2>. QED
    BY <1>3, <2>1, <2>2, <2>3, <2>4 DEF Reads, ReapSession, ReapPending
<1>6. Young' /\ Told' /\ Gapless(client.inbox)' /\ Kept' /\ Finished'
  BY <1>2, <1>5, ClientStays, AllStays
<1>7. Tracked'
  <2>1. \A g \in Handlers : handlers[g].pc # "commit"
    BY <1>0, BusyAlone DEF Busy, Track
  <2>2. Lasting /\ ~Aborting => OnTrack(session, pending, Now)
    BY <1>2, <2>1 DEF Tracked
  <2>. QED
    BY <1>5, <2>2, ClientStays, AllStays DEF Tracked
<1>8. ASSUME NEW g \in Handlers PROVE Current(g)' /\ Committed(g)'
  <2>1. CASE g = h
    BY <1>5, <2>1 DEF Committed
  <2>2. CASE g # h
    BY <1>1, <2>2, IdleRight DEF Current, Committed
  <2>. QED
    BY <2>1, <2>2
<1>. QED
  BY <1>1, <1>6, <1>7, <1>8 DEF Track

\* It goes on to the writes that remain and the answer.
LEMMA CommitTrack ==
    ASSUME Types, Track, NEW h \in Handlers, GoesOn(h), UNCHANGED <<items, life, client>>, handlers'[h].pc = "commit",
           Agreed(handlers'[h].ops), Due(handlers[h].msg, handlers'[h].ops, handlers'[h].reply)
    PROVE  Track'
<1>1. /\ Single' /\ (\A g \in Handlers : g # h => handlers'[g].pc = "idle")
  BY SingleGoesOn DEF Track
<1>2. Young' /\ Told' /\ Gapless(client.inbox)' /\ Kept' /\ Finished'
  BY ClientStays, AllStays DEF Track
<1>3. Tracked'
  BY DEF Tracked
<1>4. Committed(h)' /\ Current(h)'
  <2>1. handlers'[h].msg = handlers[h].msg
    BY DEF GoesOn
  <2>2. Due(handlers'[h].msg, handlers'[h].ops, handlers'[h].reply)
    BY <2>1
  <2>3. Due(handlers[h].msg, handlers[h].ops, handlers[h].reply)'
    BY <2>2, AllStays
  <2>. QED
    BY <2>3 DEF Committed, Current, Agreed
<1>5. ASSUME NEW g \in Handlers PROVE Current(g)' /\ Committed(g)'
  BY <1>1, <1>4 DEF Current, Committed
<1>. QED
  BY <1>1, <1>2, <1>3, <1>5 DEF Track

LEMMA DecideTrack ==
    ASSUME Types, Track, NEW h \in Handlers, Decides(h) \/ Challenge(h)
    PROVE  Track'
<1>1. GoesOn(h) /\ handlers[h].pc # "idle"
  BY WorkGoesOn DEF GoesOn
<1>2. UNCHANGED <<items, life, client>>
  BY DecidesOutcome, ChallengeOutcome
<1>3. PICK r \in Replies, ch \in Changes : Decided(h, r, ch) /\ Due(handlers[h].msg, Commit(ch), r)
  BY AllDue DEF Settled
<1>4. handlers'[h].pc = "commit" /\ handlers'[h].ops = Commit(ch) /\ handlers'[h].reply = r
  BY <1>1, <1>3, DecidedEffect
<1>5. Agreed(Commit(ch))
  <2>1. ASSUME NEW w \in ToSet(Commit(ch)), w.op = "putDevice" PROVE w = [op |-> "putDevice", value |-> ch.device]
    BY <2>1, CommitShape
  <2>. QED
    BY <2>1 DEF Agreed
<1>. QED
  BY <1>1, <1>2, <1>3, <1>4, <1>5, CommitTrack

\* A call that fails leaves the session where it is: nothing was written, or not the last.
LEMMA FailTrack ==
    ASSUME Types, Track, OutOfReach, NEW h \in Handlers, StoreFails(h)
    PROVE  Track'
<1>. DEFINE l == handlers[h]
            r == Refusal(500)
<1>1. GoesOn(h) /\ l.pc # "idle" /\ UNCHANGED <<items, life, client>> /\ handlers \in [Handlers -> Locals]
  <2>1. GoesOn(h) /\ l.pc # "idle"
    BY WorkGoesOn DEF Fails, GoesOn
  <2>2. UNCHANGED <<items, life, client>>
    BY DEF StoreFails
  <2>. QED
    BY <2>1, <2>2 DEF Types, Served
<1>2. r \in Replies /\ r.status = 500
  BY RefusalShape
<1>3. handlers'[h].pc = "commit" /\ handlers'[h].ops = <<>> /\ handlers'[h].reply = r
  BY FailEffect DEF Fails
<1>. HIDE DEF r
<1>4. l.msg = client.msg /\ client.state = "wait" /\ \A g \in Handlers : g # h => handlers[g].pc = "idle"
  BY <1>1, BusyAlone DEF Busy, Track
<1>5. ASSUME l.msg.kind # "abort" PROVE OnTrack(session, pending, Now)
  <2>1. CASE l.pc # "commit"
    <3>1. Lasting /\ ~Aborting /\ \A g \in Handlers : handlers[g].pc # "commit"
      BY <1>4, <1>5, <2>1 DEF Lasting, Aborting
    <3>. QED
      BY <3>1 DEF Track, Tracked
  <2>2. CASE l.pc = "commit"
    <3>. DEFINE q == l.ops
                t == Tail(l.ops)
    <3>1. Stays(q, session, pending, Now)
      BY <1>5, <2>2 DEF Track, Committed, Due
    <3>2. q \in Seq(Writes) /\ q # <<>>
      BY <1>1, <2>2 DEF StoreFails, Locals, Batches
    <3>3. t \in Seq(Writes) /\ Len(q) = Len(t) + 1 /\ \A i \in 1 .. Len(t) : q[i + 1] = t[i]
      BY <3>2, HeadTailProperties
    <3>. HIDE DEF q, t
    <3>. QED
      BY <3>1, <3>2, <3>3, FirstWrite
  <2>. QED
    BY <2>1, <2>2
<1>6. ToSet(<<>>) = {}
  BY DEF ToSet
<1>7. Due(l.msg, <<>>, r)
  BY <1>2, <1>5, <1>6, NoWrite DEF Due
<1>8. Agreed(<<>>)
  BY <1>6 DEF Agreed
<1>. QED
  BY <1>1, <1>3, <1>7, <1>8, CommitTrack

\* The next write is made: the session stays where it is, or with the last write goes where the
\* answer will take the device.
LEMMA Written ==
    ASSUME Types, Track, NEW h \in Handlers, handlers[h].pc = "commit", handlers[h].ops # <<>>,
           Apply(Head(handlers[h].ops)), UNCHANGED <<life, client>>
    PROVE  /\ Young' /\ Told' /\ Gapless(client.inbox)' /\ Kept' /\ Finished'
           /\ \A m, t, r : m = handlers[h].msg /\ t = Tail(handlers[h].ops) /\ r = handlers[h].reply
                 => Agreed(t) /\ Due(m, t, r)'
<1>0. PICK q, w, t, m, r : /\ q = handlers[h].ops /\ w = Head(q) /\ t = Tail(q)
                           /\ m = handlers[h].msg /\ r = handlers[h].reply
  OBVIOUS
<1>1. /\ handlers[h].pc = "commit" /\ q \in Seq(Writes) /\ q # <<>> /\ Apply(w) /\ UNCHANGED <<life, client>>
  BY <1>0 DEF Types, Served, Locals, Batches
<1>3. client.state = "wait"
  BY <1>1, BusyAlone DEF Track, Busy
<1>4. Young /\ Told /\ Gapless(client.inbox) /\ Kept /\ Agreed(q) /\ Due(m, q, r)
  BY <1>0, <1>1 DEF Track, Committed
<1>5. /\ w \in Writes /\ t \in Seq(Writes) /\ Len(q) = Len(t) + 1 /\ (\A i \in 1 .. Len(t) : q[i + 1] = t[i]) /\ q[1] = w
      /\ \A x : x \in ToSet(q) <=> x = w \/ x \in ToSet(t)
  <2>1. \A x : x \in ToSet(q) <=> x = w \/ x \in ToSet(t)
    BY <1>0, <1>1, WriteSplits
  <2>2. w \in Writes /\ t \in Seq(Writes)
    BY <1>0, <1>1, WriteSplits
  <2>3. Len(q) = Len(t) + 1 /\ (\A i \in 1 .. Len(t) : q[i + 1] = t[i]) /\ q[1] = w
    BY <1>0, <1>1, HeadTailProperties
  <2>. QED
    BY <2>1, <2>2, <2>3
<1>6. /\ session' = Put(w, SessionOps, session) /\ pending' = Put(w, PendingOps, pending)
      /\ device' = (IF w.op = "putDevice" THEN w.value ELSE device)
      /\ recorder' = recorder /\ erased' = erased
  <2>1. w.op = "delSession" => w.value = None
    BY <1>5 DEF Writes
  <2>2. w.op = "delPending" => w.value = None
    BY <1>5 DEF Writes
  <2>3. /\ session' = IF w.op = "putSession" THEN w.value ELSE IF w.op = "delSession" THEN None ELSE session
        /\ pending' = IF w.op = "putPending" THEN w.value ELSE IF w.op = "delPending" THEN None ELSE pending
        /\ device' = IF w.op = "putDevice" THEN w.value ELSE device
        /\ UNCHANGED <<recorder, erased>>
    BY <1>1, <1>5, Applied
  <2>. QED
    BY <2>1, <2>2, <2>3 DEF Put, SessionOps, PendingOps
<1>7. Modest(w) /\ \A x \in ToSet(t) : Modest(x)
  BY <1>4, <1>5 DEF Due
<1>8. Young'
  <2>1. session' # None => session'.life = 0
    BY <1>4, <1>5, <1>6, <1>7 DEF Young, Modest, Put, SessionOps, Writes
  <2>2. pending' # None => Few(pending')
    BY <1>4, <1>5, <1>6, <1>7 DEF Young, Modest, Put, PendingOps, Writes
  <2>3. life' = 0
    BY <1>1, <1>4 DEF Young
  <2>. QED
    BY <2>1, <2>2, <2>3 DEF Young, Few
<1>9. Known \subseteq device' \cup erased /\ Known' \subseteq Known \cup device'
  <2>1. Known' = device' \cup (IF recorder = None THEN {} ELSE recorder)
    BY <1>6 DEF Known
  <2>2. w.op = "putDevice" => Known \subseteq w.value \cup erased
    BY <1>7 DEF Modest
  <2>3. w.op # "putDevice" => Known \subseteq device \cup erased
    BY <1>4 DEF Known, Kept
  <2>. QED
    BY <1>6, <2>1, <2>2, <2>3 DEF Known
<1>10. device \cup erased \subseteq device' \cup erased
  BY <1>9 DEF Known
<1>11. Kept'
  <2>1. recorder # None => recorder \subseteq device' \cup erased
    BY <1>9 DEF Known
  <2>2. Lasting /\ ~Aborting => Items(client.inbox) \cap 1 .. N_GET \subseteq device' \cup erased \cup Unreported
    BY <1>4, <1>10 DEF Kept
  <2>3. Unreported' = Unreported /\ (Lasting' <=> Lasting) /\ (Aborting' <=> Aborting) /\ client' = client
    BY <1>1, ClientStays
  <2>. QED
    BY <1>6, <2>1, <2>2, <2>3 DEF Kept
<1>12. Finished'
  BY <1>1, <1>3 DEF Finished
<1>13. \A x \in ToSet(t) : Modest(x)'
  <2>1. ASSUME NEW x \in ToSet(t), x.op = "putDevice" PROVE Known' \subseteq x.value \cup erased
    <3>1. Known \subseteq x.value \cup erased
      BY <1>7, <2>1 DEF Modest
    <3>2. CASE w.op = "putDevice"
      <4>1. w = x
        BY <1>4, <1>5, <2>1, <3>2 DEF Agreed
      <4>. QED
        BY <1>6, <1>9, <3>1, <3>2, <4>1
    <3>3. CASE w.op # "putDevice"
      BY <1>6, <1>9, <3>1, <3>3 DEF Known
    <3>. QED
      BY <3>2, <3>3
  <2>2. ASSUME NEW x \in ToSet(t) PROVE Modest(x)'
    <3>1. Modest(x)
      BY <1>7, <2>2
    <3>. QED
      BY <1>6, <2>1, <2>2, <3>1 DEF Modest, Few
  <2>. QED
    BY <2>2
<1>14. Absorbed(m, q) => Absorbed(m, t)'
  <2>. SUFFICES ASSUME Absorbed(m, q), NEW n \in m.results
                PROVE  n \in device' \cup erased \/ \E x \in ToSet(t) : x.op = "putDevice" /\ n \in x.value
    BY <1>1, <1>6 DEF Absorbed
  <2>1. CASE n \in device \cup erased
    BY <1>10, <2>1
  <2>2. CASE \E x \in ToSet(q) : x.op = "putDevice" /\ n \in x.value
    BY <1>5, <1>6, <2>2
  <2>. QED
    BY <2>1, <2>2 DEF Absorbed
<1>15. ASSUME NEW v
       PROVE  /\ Ends(q, session, pending, v) <=> Ends(t, session', pending', v)
              /\ Stays(q, session, pending, v) => Stays(t, session', pending', v)
  BY <1>1, <1>5, <1>6, FirstWrite, SMTT(40)
<1>16. Due(m, t, r)'
  <2>1. Now' = Now /\ Then(m, r)' = Then(m, r) /\ (Completes(m, r)' <=> Completes(m, r)) /\ client' = client
    BY <1>1, ClientStays
  <2>2. Stays(q, session, pending, Now) => Stays(t, session', pending', Now')
    BY <1>15, <2>1
  <2>3. Ends(q, session, pending, Now) => Ends(t, session', pending', Now')
    BY <1>15, <2>1
  <2>4. GoesOnWith(m, q, r) => GoesOnWith(m, t, r)'
    BY <1>15, <2>1 DEF GoesOnWith
  <2>. QED
    BY <1>4, <1>13, <1>14, <2>1, <2>2, <2>3, <2>4 DEF Due
<1>17. Agreed(t)
  BY <1>4, <1>5 DEF Agreed
<1>18. Told' /\ Gapless(client.inbox)'
  BY <1>1, <1>4, ClientStays
<1>. QED
  BY <1>0, <1>8, <1>11, <1>12, <1>16, <1>17, <1>18

\* What the handler at work makes of a write that is made.
LEMMA WrittenTrack ==
    ASSUME Track, NEW h \in Handlers, GoesOn(h), handlers'[h].pc = "commit",
           Young', Told', Gapless(client.inbox)', Kept', Finished',
           NEW m, NEW t, NEW r, handlers'[h].msg = m, handlers'[h].ops = t, handlers'[h].reply = r,
           Agreed(t), Due(m, t, r)'
    PROVE  Track'
<1>1. Single' /\ \A g \in Handlers : g # h => handlers'[g].pc = "idle"
  BY SingleGoesOn DEF Track
<1>2. Tracked'
  BY DEF Tracked
<1>3. Current(h)' /\ Committed(h)'
  BY DEF Current, Committed
<1>4. ASSUME NEW g \in Handlers PROVE Current(g)' /\ Committed(g)'
  BY <1>1, <1>3 DEF Current, Committed
<1>. QED
  BY <1>1, <1>2, <1>4 DEF Track

LEMMA WriteTrack ==
    ASSUME Types, Track, NEW h \in Handlers, Write(h)
    PROVE  Track'
<1>0. PICK t, m, r : t = Tail(handlers[h].ops) /\ m = handlers[h].msg /\ r = handlers[h].reply
  OBVIOUS
<1>1. /\ handlers[h].pc = "commit" /\ handlers[h].ops # <<>> /\ Apply(Head(handlers[h].ops))
      /\ UNCHANGED <<life, client>>
      /\ handlers'[h].pc = "commit" /\ handlers'[h].msg = m /\ handlers'[h].ops = t /\ handlers'[h].reply = r
  BY <1>0, WriteEffect
<1>2. /\ Young' /\ Told' /\ Gapless(client.inbox)' /\ Kept' /\ Finished'
      /\ Agreed(t) /\ Due(m, t, r)'
  BY <1>0, <1>1, Written
<1>. QED
  BY <1>1, <1>2, WorkGoesOn, WrittenTrack

\* It is made, but reported failed: the session stays where it is unless that was all the
\* answer waited for.
LEMMA UnconfirmedTrack ==
    ASSUME Types, Track, OutOfReach, NEW h \in Handlers, WriteUnconfirmed(h),
           ~(Len(handlers[h].ops) = 1 /\ handlers[h].reply.status = 200)
    PROVE  Track'
<1>0. PICK q, t, m, r : q = handlers[h].ops /\ t = Tail(q) /\ m = handlers[h].msg /\ r = handlers[h].reply
  OBVIOUS
<1>. DEFINE f == Refusal(500)
<1>1. /\ handlers[h].pc = "commit" /\ q # <<>> /\ Apply(Head(handlers[h].ops)) /\ UNCHANGED <<life, client>>
  BY <1>0 DEF WriteUnconfirmed
<1>2. /\ handlers'[h].pc = "commit" /\ handlers'[h].msg = m /\ handlers'[h].ops = <<>> /\ handlers'[h].reply = f
  BY <1>0, FailEffect DEF Fails
<1>3. GoesOn(h)
  BY WorkGoesOn DEF Fails
<1>4. /\ Young' /\ Told' /\ Gapless(client.inbox)' /\ Kept' /\ Finished'
      /\ Agreed(t) /\ Due(m, t, r)'
  BY <1>0, <1>1, Written
<1>5. q \in Seq(Writes)
  BY <1>0, <1>1 DEF Types, Served, Locals, Batches
<1>6. t \in Seq(Writes) /\ Len(q) = Len(t) + 1 /\ (Len(t) = 0 => t = <<>>)
  <2>1. t \in Seq(Writes) /\ Len(q) = Len(t) + 1
    BY <1>0, <1>1, <1>5, HeadTailProperties
  <2>. QED
    BY <2>1
<1>7. ASSUME m.kind # "abort" PROVE OnTrack(session', pending', Now')
  <2>1. Stays(t, session', pending', Now') /\ (r.status # 200 => Ends(t, session', pending', Now'))
    BY <1>4, <1>7 DEF Due
  <2>2. CASE Len(t) = 0
    <3>1. r.status # 200 /\ t = <<>>
      BY <1>0, <1>6, <2>2
    <3>. QED
      BY <2>1, <3>1, NoWrite
  <2>3. CASE Len(t) # 0
    <3>1. t # <<>>
      BY <2>3
    <3>2. Tail(t) \in Seq(Writes) /\ Len(t) = Len(Tail(t)) + 1 /\ \A i \in 1 .. Len(Tail(t)) : t[i + 1] = Tail(t)[i]
      BY <1>6, <3>1, HeadTailProperties
    <3>. QED
      BY <1>6, <2>1, <3>2, FirstWrite
  <2>. QED
    BY <2>2, <2>3
<1>8. f \in Replies /\ f.status = 500 /\ ToSet(<<>>) = {}
  BY RefusalShape DEF ToSet
<1>. HIDE DEF f
<1>9. Due(m, <<>>, f)' /\ Agreed(<<>>)
  <2>1. Stays(<<>>, session', pending', Now') /\ (m.kind # "abort" => Ends(<<>>, session', pending', Now'))
    BY <1>7, NoWrite
  <2>. QED
    BY <1>8, <2>1 DEF Due, Agreed
<1>. QED
  BY <1>2, <1>3, <1>4, <1>9, WrittenTrack DEF f

\* What answer r to message m changes of the device's side.
Gets(r, m) ==
    /\ client'.msg = client.msg
    /\ r.status # 200 => client'.inbox = client.inbox /\ client'.owed = client.owed
    /\ r.status = 500 => client'.state = "resend" /\ client'.reply = client.reply
    /\ r.status = 401 => client'.state = "turn" /\ client'.reply = r
    /\ r.status \in {400, 413} => client'.state = "failed" /\ client'.reply = r
    /\ r.status = 200 =>
          /\ client'.reply = r /\ client'.inbox = client.inbox \o r.body
          /\ client'.owed = client.owed \cup ToSet(Acks(m))
          /\ client'.state = IF m.kind = "abort" THEN "aborted" ELSE IF Closes(r, m) THEN "done" ELSE "turn"

LEMMA ReceivesGets ==
    ASSUME client \in Clients, NEW r \in Replies, NEW m \in Msgs, client' = Receives(r, m)
    PROVE  Gets(r, m)
<1>0. r.status \in {200, 400, 401, 413, 500} /\ r.body \in Seq(Entries) /\ r.final \in BOOLEAN
  BY DEF Replies
<1>. DEFINE M == Msgs \cup {None}
            R == Replies \cup {None}
<1>a. client \in [state : States, msg : M, reply : R, inbox : Queues, owed : Owing, lost : Lost, nonce : Nat]
  BY DEF Clients
<1>. HIDE DEF M, R
<1>1. CASE r.status = 500
  <2>1. r.status # 401 /\ r.status \notin {400, 413} /\ r.status # 200
    BY <1>1
  <2>2. client' = [client EXCEPT !.state = "resend"]
    BY <1>1, <2>1, ZenonT(40) DEF Receives
  <2>. QED
    BY <1>1, <1>a, <2>1, <2>2 DEF Gets
<1>2. CASE r.status = 401
  <2>1. r.status # 500 /\ r.status \notin {400, 413} /\ r.status # 200
    BY <1>2
  <2>2. client' = [client EXCEPT !.state = "turn", !.reply = r, !.nonce = r.nonce]
    BY <1>2, <2>1, ZenonT(40) DEF Receives
  <2>. QED
    BY <1>2, <1>a, <2>1, <2>2 DEF Gets
<1>3. CASE r.status \in {400, 413}
  <2>1. r.status # 500 /\ r.status # 401 /\ r.status # 200
    BY <1>3
  <2>2. client' = [client EXCEPT !.state = "failed", !.reply = r]
    BY <1>3, <2>1, ZenonT(40) DEF Receives
  <2>. QED
    BY <1>3, <1>a, <2>1, <2>2 DEF Gets
<1>4. CASE r.status = 200
  <2>. DEFINE commands == Of("get", r.body) \cup Of("conf", r.body)
              state == IF m.kind = "abort" THEN "aborted" ELSE IF r.final /\ commands = {} THEN "done" ELSE "turn"
              nonce == IF r.nonce = 0 THEN client.nonce ELSE r.nonce
              inbox == client.inbox \o r.body
              owed  == client.owed \cup ToSet(Acks(m))
  <2>1. r.status # 500 /\ r.status # 401 /\ r.status \notin {400, 413}
    BY <1>4
  <2>2. client' = [client EXCEPT !.state = state, !.reply = r, !.nonce = nonce, !.inbox = inbox, !.owed = owed]
    BY <2>1, ZenonT(40) DEF Receives
  <2>3. state = IF m.kind = "abort" THEN "aborted" ELSE IF Closes(r, m) THEN "done" ELSE "turn"
    <3>1. commands = {} <=> NoCommand(r.body)
      BY <1>0, BodyShape, ZenonT(40)
    <3>. HIDE DEF commands
    <3>. QED
      BY <1>4, <3>1 DEF Closes
  <2>. HIDE DEF state, nonce, inbox, owed
  <2>4. client'.msg = client.msg /\ client'.reply = r /\ client'.inbox = inbox /\ client'.owed = owed /\ client'.state = state
    BY <1>a, <2>2
  <2>. QED
    BY <1>4, <2>1, <2>3, <2>4 DEF Gets, inbox, owed
<1>. QED
  BY <1>0, <1>1, <1>2, <1>3, <1>4

\* Acknowledgements leave no gap.
LEMMA GaplessMore ==
    ASSUME NEW a \in Seq(Entries), NEW b \in Seq(Entries), Gapless(a), Items(b) = {}
    PROVE  Gapless(a \o b)
<1>1. Items(a \o b) = Items(a)
  <2>1. Items(a \o b) = Items(a) \cup Items(b)
    BY JoinItems
  <2>. QED
    BY <2>1
<1>2. InSequence(b) /\ Before(a, b)
  BY DEF Items, InSequence, Before
<1>3. InSequence(a \o b)
  BY <1>2, JoinInSequence DEF Gapless
<1>. QED
  BY <1>1, <1>3 DEF Gapless

LEMMA AllGapless ==
    ASSUME NEW q, NEW n \in Nat, NEW owed, Exact(q, n, owed)
    PROVE  Gapless(q)
<1>1. \A k \in 1 .. n : 1 .. k \subseteq 1 .. n
  OBVIOUS
<1>. QED
  BY <1>1 DEF Exact, Gapless

\* The device gets the answer.
LEMMA AnswerTrack ==
    ASSUME Types, Track, NEW h \in Handlers, Answer(h)
    PROVE  Track'
<1>0. PICK m, r : m = handlers[h].msg /\ r = handlers[h].reply
  OBVIOUS
<1>1. /\ handlers[h].pc = "commit" /\ handlers[h].ops = <<>> /\ r \in Replies /\ m \in Msgs
      /\ UNCHANGED <<items, life>> /\ handlers'[h].pc = "idle"
      /\ \A g \in Handlers : g # h => handlers'[g] = handlers[g]
      /\ handlers[h].live => client' = Receives(r, m)
  BY <1>0, AnswerEffect
<1>2. /\ m = client.msg /\ client.state = "wait" /\ client' = Receives(r, m)
      /\ \A g \in Handlers : g # h => handlers[g].pc = "idle"
  BY <1>0, <1>1, BusyAlone DEF Busy, Track
<1>3. \A g \in Handlers : handlers'[g].pc = "idle"
  BY <1>1, <1>2
<1>4. session' = session /\ pending' = pending /\ device' = device /\ recorder' = recorder /\ erased' = erased /\ life' = life
  BY <1>1 DEF items, inventory
<1>5. Young /\ Told /\ Gapless(client.inbox) /\ Kept /\ Due(m, <<>>, r)
  BY <1>0, <1>1 DEF Track, Committed
<1>6. Single' /\ Young' /\ \A g \in Handlers : Current(g)' /\ Committed(g)'
  BY <1>3, <1>4, <1>5 DEF Single, Busy, Young, Current, Committed
<1>7. client \in Clients /\ client.inbox \in Seq(Entries) /\ client.msg # None
  BY <1>1, <1>2, NoneAssumption DEF Types, Clients, Queues
<1>8. Gets(r, m)
  BY <1>1, <1>2, <1>7, ReceivesGets
<1>9. r.status \in {200, 400, 401, 413, 500} /\ r.body \in Seq(Entries) /\ r # None
  BY <1>1, NoneAssumption DEF Replies
<1>10. Lasting /\ ~Answered /\ Unreported = m.results /\ Uncounted = m.failed /\ (Aborting <=> m.kind = "abort")
  BY <1>2, <1>7 DEF Lasting, Answered, Unreported, Uncounted, Aborting
<1>11. /\ \A e \in client.owed : e.id < m.id
       /\ m.kind = "init" => client.inbox = <<>> /\ client.owed = {}
  BY <1>2, <1>5, <1>10 DEF Told
<1>12. Aborting' <=> m.kind = "abort"
  BY <1>2, <1>7, <1>8 DEF Gets, Aborting
<1>13. recorder' # None => recorder' \subseteq device' \cup erased'
  BY <1>4, <1>5 DEF Kept
<1>14. m.id \in Nat /\ client.owed \subseteq Entries /\ \A e \in Entries : e.id \in Nat
  <2>1. m.id \in Nat /\ client.owed \subseteq Entries
    BY <1>1, <1>7 DEF Msgs, Clients, Owing
  <2>2. ASSUME NEW e \in Entries PROVE e.id \in Nat
    BY DEF Entries
  <2>. QED
    BY <2>1, <2>2
<1>15. \A e \in client.owed : e.id <= m.id
  BY <1>11, <1>14
\* Refused, for the last time.
<1>16. CASE r.status \in {400, 413}
  <2>1. client'.state = "failed" /\ client'.inbox = client.inbox /\ client'.owed = client.owed /\ client'.msg = m
    BY <1>2, <1>8, <1>16 DEF Gets
  <2>2. ~Lasting' /\ ~Answered'
    BY <2>1 DEF Lasting, Answered
  <2>3. Told'
    BY <1>2, <1>7, <1>15, <2>1, <2>2 DEF Told
  <2>4. Gapless(client.inbox)'
    BY <1>5, <2>1
  <2>5. Kept' /\ Finished' /\ Tracked'
    BY <1>13, <2>1, <2>2 DEF Kept, Finished, Tracked
  <2>. QED
    BY <1>6, <2>3, <2>4, <2>5 DEF Track
\* Challenged, or to be sent again.
<1>17. CASE r.status \in {401, 500}
  <2>1. client'.state \in {"turn", "resend"} /\ client'.inbox = client.inbox /\ client'.owed = client.owed /\ client'.msg = m
    BY <1>2, <1>8, <1>17 DEF Gets
  <2>2. client'.state = "turn" => client'.reply = r /\ r.status = 401
    BY <1>8, <1>17 DEF Gets
  <2>3. Lasting' /\ ~Answered'
    BY <2>1, <2>2 DEF Lasting, Answered
  <2>4. Told'
    BY <1>2, <1>7, <1>9, <1>11, <1>15, <2>1, <2>2, <2>3 DEF Told
  <2>5. Unreported' = m.results /\ Uncounted' = m.failed
    BY <1>2, <1>7, <2>1, <2>3 DEF Unreported, Uncounted
  <2>6. Now' = Now
    BY <1>10, <2>1, <2>5 DEF Now
  <2>7. Gapless(client.inbox)'
    BY <1>5, <2>1
  <2>8. Kept'
    BY <1>4, <1>5, <1>10, <1>12, <1>13, <2>1, <2>5 DEF Kept
  <2>9. Finished'
    BY <2>1 DEF Finished
  <2>10. Tracked'
    <3>1. m.kind # "abort" => OnTrack(session, pending, Now)
      BY <1>5, <1>17, NoWrite DEF Due
    <3>. QED
      BY <1>4, <1>12, <2>6, <3>1 DEF Tracked
  <2>. QED
    BY <1>6, <2>4, <2>7, <2>8, <2>9, <2>10 DEF Track
<1>. DEFINE inbox == client.inbox \o r.body
            owed == client.owed \cup ToSet(Acks(m))
<1>18. \A e \in owed : e.id <= m.id
  BY <1>1, <1>14, <1>15, AcksParts
<1>19. /\ inbox \in Seq(Entries) /\ Items(inbox) = Items(client.inbox) \cup Items(r.body)
       /\ Of("get", r.body) = Items(r.body) \cap 1 .. N_GET /\ (NoCommand(r.body) <=> Items(r.body) = {})
  BY <1>7, <1>9, JoinItems, OfItems
\* The session is over: aborted,
<1>20. CASE r.status = 200 /\ m.kind = "abort"
  <2>1. client'.state = "aborted" /\ client'.inbox = inbox /\ client'.owed = owed /\ client'.msg = m
    BY <1>2, <1>8, <1>20 DEF Gets
  <2>2. ~Lasting' /\ ~Answered'
    BY <2>1 DEF Lasting, Answered
  <2>. HIDE DEF inbox, owed
  <2>3. Told'
    BY <1>2, <1>7, <1>18, <2>1, <2>2 DEF Told
  <2>4. Gapless(inbox)
    BY <1>5, <1>7, <1>9, <1>19, <1>20, GaplessMore DEF Due, inbox
  <2>5. Gapless(client.inbox)'
    BY <2>1, <2>4
  <2>6. Kept' /\ Finished' /\ Tracked'
    BY <1>13, <2>1, <2>2 DEF Kept, Finished, Tracked
  <2>. QED
    BY <1>6, <2>3, <2>5, <2>6 DEF Track
<1>21. ASSUME r.status = 200, m.kind # "abort"
       PROVE  /\ m.results \subseteq device \cup erased
              /\ Items(client.inbox) \cap 1 .. N_GET \subseteq device \cup erased
  <2>1. m.results \subseteq device \cup erased
    <3>1. Absorbed(m, <<>>) /\ ToSet(<<>>) = {}
      BY <1>5, <1>21 DEF Due, ToSet
    <3>. QED
      BY <3>1 DEF Absorbed
  <2>. QED
    BY <1>5, <1>10, <1>21, <2>1 DEF Kept
\* or complete,
<1>22. CASE r.status = 200 /\ m.kind # "abort" /\ Closes(r, m)
  <2>1. client'.state = "done" /\ client'.inbox = inbox /\ client'.owed = owed /\ client'.msg = m /\ client'.reply = r
    BY <1>2, <1>8, <1>22 DEF Gets
  <2>2. ~Lasting' /\ ~Answered'
    BY <2>1 DEF Lasting, Answered
  <2>3. Exact(inbox, All, owed) /\ r.failures >= Cardinality(Refused)
    BY <1>5, <1>22 DEF Due, Completes
  <2>4. Items(inbox) = Items(client.inbox)
    BY <1>19, <1>22 DEF Closes
  <2>. HIDE DEF inbox, owed
  <2>5. Told'
    BY <1>2, <1>7, <1>18, <2>1, <2>2 DEF Told
  <2>6. All \in Nat /\ 1 .. N_GET \subseteq 1 .. All
    BY Sizes DEF All
  <2>7. Gapless(client.inbox)'
    <3>1. Gapless(inbox)
      BY <2>3, <2>6, AllGapless
    <3>. QED
      BY <2>1, <3>1
  <2>8. 1 .. N_GET \subseteq device \cup erased
    BY <1>21, <1>22, <2>3, <2>4, <2>6 DEF Exact
  <2>9. Finished'
    BY <1>4, <2>1, <2>3, <2>8 DEF Finished
  <2>10. Kept' /\ Tracked'
    BY <1>13, <2>2 DEF Kept, Tracked
  <2>. QED
    BY <1>6, <2>5, <2>7, <2>9, <2>10 DEF Track
\* or it goes on.
<1>23. CASE r.status = 200 /\ m.kind # "abort" /\ ~Closes(r, m)
  <2>1. client'.state = "turn" /\ client'.inbox = inbox /\ client'.owed = owed /\ client'.msg = m /\ client'.reply = r
    BY <1>2, <1>8, <1>23 DEF Gets
  <2>2. Lasting' /\ Answered' /\ ~Aborting'
    BY <1>9, <1>12, <1>23, <2>1 DEF Lasting, Answered
  <2>3. Unreported' = Of("get", r.body) /\ Uncounted' = Failing(Of("conf", r.body))
    BY <2>1, <2>2 DEF Unreported, Uncounted
  <2>4. Now' = Then(m, r)
    BY <2>1, <2>3 DEF Now, Then
  <2>5. GoesOnWith(m, <<>>, r)
    BY <1>5, <1>23 DEF Due
  <2>. HIDE DEF inbox, owed
  <2>6. Told'
    BY <1>2, <1>7, <1>9, <1>18, <1>23, <2>1, <2>2 DEF Told
  <2>7. Gapless(client.inbox)'
    <3>1. Gapless(inbox)
      BY <2>5 DEF GoesOnWith, inbox
    <3>. QED
      BY <2>1, <3>1
  <2>8. Kept'
    <3>1. Items(inbox) \cap 1 .. N_GET \subseteq device \cup erased \cup Of("get", r.body)
      BY <1>19, <1>21, <1>23
    <3>. QED
      BY <1>4, <1>13, <2>1, <2>3, <3>1 DEF Kept
  <2>9. Finished'
    BY <2>1 DEF Finished
  <2>10. Tracked'
    <3>1. OnTrack(session, pending, Then(m, r))
      BY <2>5, NoWrite DEF GoesOnWith
    <3>. QED
      BY <1>4, <2>4, <3>1 DEF Tracked
  <2>. QED
    BY <1>6, <2>6, <2>7, <2>8, <2>9, <2>10 DEF Track
<1>. QED
  BY <1>9, <1>16, <1>17, <1>20, <1>22, <1>23

\* A message reports what was last received, and is numbered after all that came before it.
Follows(m) ==
    /\ m.results = Unreported /\ m.failed = Uncounted
    /\ \A e \in client.owed : e.id < m.id
    /\ m.kind = "init" => ~Answered /\ (client.msg = None \/ client.msg.kind = "init")
    /\ m.kind # "abort" => ~Aborting

LEMMA NextFollows ==
    ASSUME Types, Told, client.state = "turn", NEW m \in NextMessages
    PROVE  Follows(m)
<1>. DEFINE id == IF client.msg = None THEN 1 ELSE client.msg.id + 1
            body == IF client.reply = None THEN <<>> ELSE client.reply.body
<1>1. /\ client \in Clients /\ (client.msg # None => client.msg \in Msgs)
      /\ (client.reply # None => client.msg # None /\ client.reply.status \in {200, 401} /\ client.reply.final \in BOOLEAN)
      /\ (client.msg # None => client.reply # None)
  BY DEF Types, Clients, Told, Replies
<1>2. client.owed \subseteq Entries
  BY <1>1 DEF Clients, Owing
<1>3. id \in Nat /\ \A e \in client.owed : e.id < id
  <2>1. client.msg # None => client.msg.id \in Nat
    BY <1>1 DEF Msgs
  <2>2. \A e \in client.owed : client.msg # None /\ e.id <= client.msg.id
    BY DEF Told
  <2>3. \A e \in Entries : e.id \in Nat
    <3>1. ASSUME NEW e \in Entries PROVE e.id \in Nat
      BY DEF Entries
    <3>. QED
      BY <3>1
  <2>. QED
    BY <1>2, <2>1, <2>2, <2>3
<1>. HIDE DEF id
\* The same message again, with credentials.
<1>4. CASE client.reply # None /\ client.reply.status = 401
  <2>1. m = [client.msg EXCEPT !.id = id, !.cred = OwnCredentials]
    BY <1>4 DEF NextMessages, id
  <2>2. client.msg \in Msgs /\ client.msg # None
    BY <1>1, <1>4
  <2>3. m.kind = client.msg.kind /\ m.id = id /\ m.results = client.msg.results /\ m.failed = client.msg.failed
    BY <2>1, <2>2 DEF Msgs
  <2>4. ~Answered
    BY <1>4 DEF Answered
  <2>5. Unreported = client.msg.results /\ Uncounted = client.msg.failed
    BY <2>2, <2>4 DEF Unreported, Uncounted
  <2>. QED
    BY <1>3, <2>2, <2>3, <2>4, <2>5 DEF Follows, Aborting
\* A message of its own.
<1>5. CASE ~(client.reply # None /\ client.reply.status = 401)
  <2>1. \/ \E a \in OwnCommands(client.reply, EXTRA_ACKS) : m = Message(NextKind(client.reply), id, a, body, OwnCredentials)
        \/ id # 1 /\ m = Message("abort", id, 1, body, OwnCredentials)
    BY <1>5 DEF NextMessages, id
  <2>2. PICK kind, a : /\ m = Message(kind, id, a, body, OwnCredentials)
                       /\ kind = NextKind(client.reply) \/ (kind = "abort" /\ id # 1)
    BY <2>1
  <2>3. m.kind = kind /\ m.id = id /\ m.results = Of("get", body) /\ m.failed = Failing(Of("conf", body))
    BY <2>2 DEF Message, Failing
  <2>4. CASE client.reply = None
    <3>1. client.msg = None /\ body = <<>> /\ id = 1
      BY <1>1, <2>4 DEF id
    <3>2. kind = "init"
      BY <2>2, <2>4, <3>1 DEF NextKind
    <3>3. Of("get", body) = {} /\ Of("conf", body) = {}
      BY <3>1 DEF Of
    <3>4. Failing({}) = 0
      <4>1. {} \cap Refused = {}
        OBVIOUS
      <4>. QED
        BY <4>1, FS_EmptySet DEF Failing
    <3>5. ~Answered
      BY <2>4 DEF Answered
    <3>6. Unreported = {} /\ Uncounted = 0 /\ ~Aborting
      BY <3>1, <3>5 DEF Unreported, Uncounted, Aborting
    <3>. QED
      BY <1>3, <2>3, <3>1, <3>2, <3>3, <3>4, <3>5, <3>6 DEF Follows
  <2>5. CASE client.reply # None
    <3>1. client.reply.status = 200 /\ body = client.reply.body
      BY <1>1, <1>5, <2>5
    <3>2. Answered /\ ~Aborting
      BY <2>5, <3>1 DEF Answered, Told
    <3>3. Unreported = Of("get", body) /\ Uncounted = Failing(Of("conf", body))
      BY <3>1, <3>2 DEF Unreported, Uncounted
    <3>4. kind # "init"
      BY <2>2, <2>5 DEF NextKind
    <3>. QED
      BY <1>3, <2>3, <3>2, <3>3, <3>4 DEF Follows
  <2>. QED
    BY <2>4, <2>5
<1>. QED
  BY <1>4, <1>5

\* The device sends one message more, or the last one again.
LEMMA SendSays ==
    ASSUME Types, Told, NEW h \in Handlers, Sends(h)
    PROVE  /\ client'.inbox = client.inbox /\ client'.owed = client.owed /\ client'.state = "wait"
           /\ client.state = "resend" => client'.msg = client.msg
           /\ client.state = "turn" => Follows(client'.msg)
           /\ client.state \in {"turn", "resend"}
<1>1. client \in Clients
  BY DEF Types
<1>2. CASE Resend(h)
  <2>1. client.state = "resend" /\ client' = [client EXCEPT !.state = "wait"]
    BY <1>2 DEF Resend
  <2>. QED
    BY <1>1, <2>1 DEF Clients
<1>3. ASSUME client.state = "turn", NEW m \in NextMessages, NEW n, client' = [client EXCEPT !.state = "wait", !.msg = n],
             n.kind = m.kind, n.id = m.id, n.results = m.results, n.failed = m.failed
      PROVE  /\ client'.inbox = client.inbox /\ client'.owed = client.owed /\ client'.state = "wait"
             /\ Follows(client'.msg)
  <2>1. client'.inbox = client.inbox /\ client'.owed = client.owed /\ client'.state = "wait" /\ client'.msg = n
    BY <1>1, <1>3 DEF Clients
  <2>2. Follows(m)
    BY <1>3, NextFollows
  <2>3. Follows(n)
    BY <1>3, <2>2 DEF Follows
  <2>. QED
    BY <2>1, <2>3
<1>4. CASE Send(h)
  <2>1. PICK m \in NextMessages : client' = [client EXCEPT !.state = "wait", !.msg = m]
    BY <1>4 DEF Send
  <2>. QED
    BY <1>3, <1>4, <2>1 DEF Send
<1>5. CASE SendUnauthenticated(h)
  <2>1. PICK m \in NextMessages, c \in BadCredentials : client' = [client EXCEPT !.state = "wait", !.msg = [m EXCEPT !.cred = c]]
    BY <1>5 DEF SendUnauthenticated
  <2>2. PICK n : n = [m EXCEPT !.cred = c]
    OBVIOUS
  <2>3. m \in Msgs
    BY SentShape
  <2>4. n.kind = m.kind /\ n.id = m.id /\ n.results = m.results /\ n.failed = m.failed
    BY <2>2, <2>3 DEF Msgs
  <2>. QED
    BY <1>3, <1>5, <2>1, <2>2, <2>4, ZenonT(40) DEF SendUnauthenticated
<1>. QED
  BY <1>2, <1>4, <1>5 DEF Sends

LEMMA SendTrack ==
    ASSUME Types, Track, NEW h \in Handlers, Sends(h)
    PROVE  Track'
<1>1. Single /\ Young /\ Told /\ Gapless(client.inbox) /\ Kept /\ Finished /\ Tracked
  BY DEF Track
<1>2. /\ handlers[h].pc = "idle" /\ UNCHANGED <<items, life>> /\ client'.msg \in Msgs
      /\ handlers'[h].pc = "session" /\ handlers'[h].live = TRUE /\ handlers'[h].msg = client'.msg
      /\ \A g \in Handlers : g # h => handlers'[g] = handlers[g]
  BY SendEffect
<1>3. /\ client'.inbox = client.inbox /\ client'.owed = client.owed /\ client'.state = "wait"
      /\ client.state = "resend" => client'.msg = client.msg
      /\ client.state = "turn" => Follows(client'.msg)
      /\ client.state \in {"turn", "resend"}
  BY <1>1, SendSays
<1>4. \A g \in Handlers : handlers[g].pc = "idle"
  BY <1>1, <1>3 DEF Single, Busy
<1>5. \A g \in Handlers : g # h => handlers'[g].pc = "idle"
  BY <1>2, <1>4
<1>6. Single'
  BY <1>2, <1>3, <1>5 DEF Single, Busy
<1>7. session' = session /\ pending' = pending /\ device' = device /\ recorder' = recorder /\ erased' = erased /\ life' = life
  BY <1>2 DEF items, inventory
<1>8. Young'
  BY <1>1, <1>7 DEF Young
<1>9. ASSUME NEW g \in Handlers PROVE Current(g)' /\ Committed(g)'
  BY <1>2, <1>5 DEF Current, Committed
<1>10. client'.msg # None
  BY <1>2, NoneAssumption
<1>11. Lasting /\ Lasting' /\ ~Answered' /\ Unreported' = client'.msg.results /\ Uncounted' = client'.msg.failed
       /\ (Aborting' <=> client'.msg.kind = "abort")
  BY <1>3, <1>10 DEF Lasting, Answered, Unreported, Uncounted, Aborting
<1>12. Follows(client'.msg)
  <2>1. CASE client.state = "turn"
    BY <1>3, <2>1
  <2>2. CASE client.state = "resend"
    <3>1. client'.msg = client.msg /\ ~Answered
      BY <1>3, <2>2 DEF Answered
    <3>2. Unreported = client.msg.results /\ Uncounted = client.msg.failed /\ (Aborting <=> client.msg.kind = "abort")
      BY <1>10, <3>1 DEF Unreported, Uncounted, Aborting
    <3>3. \A e \in client.owed : e.id < client.msg.id
      BY <1>1, <2>2 DEF Told
    <3>. QED
      BY <3>1, <3>2, <3>3 DEF Follows
  <2>. QED
    BY <1>3, <2>1, <2>2
<1>13. Unreported' = Unreported /\ Uncounted' = Uncounted /\ (~Aborting' => ~Aborting)
  BY <1>11, <1>12 DEF Follows
<1>14. Now' = Now
  BY <1>3, <1>13 DEF Now
<1>15. Told'
  <2>1. client'.msg.kind = "init" => client.inbox = <<>> /\ client.owed = {}
    BY <1>1, <1>11, <1>12 DEF Follows, Told
  <2>2. \A e \in client.owed : e.id < client'.msg.id
    BY <1>12 DEF Follows
  <2>. QED
    BY <1>3, <1>10, <1>11, <2>1, <2>2 DEF Told
<1>16. Gapless(client.inbox)'
  BY <1>1, <1>3
<1>17. Kept'
  BY <1>1, <1>3, <1>7, <1>11, <1>13 DEF Kept
<1>18. Finished'
  BY <1>3 DEF Finished
<1>19. Tracked'
  <2>1. ~Aborting => OnTrack(session, pending, Now)
    BY <1>1, <1>4, <1>11 DEF Tracked
  <2>. QED
    BY <1>7, <1>13, <1>14, <2>1 DEF Tracked
<1>. QED
  BY <1>6, <1>8, <1>9, <1>15, <1>16, <1>17, <1>18, <1>19 DEF Track

\* A configuration request that records the device takes nothing off the item unseen.
LEMMA RecordTrack ==
    ASSUME Types, Track, RecordRead \/ RecordWrite
    PROVE  Track'
<1>1. Single /\ Young /\ Told /\ Gapless(client.inbox) /\ Kept /\ Finished /\ Tracked
  BY DEF Track
<1>2. UNCHANGED <<session, pending, life, handlers, client>>
  BY DEF RecordRead, RecordWrite
<1>3. /\ Known' \subseteq Known /\ erased \subseteq erased' /\ device \cup erased \subseteq device' \cup erased'
      /\ recorder' # None => recorder' \subseteq device' \cup erased'
  <2>1. CASE RecordRead
    BY <2>1 DEF RecordRead, Known
  <2>2. CASE RecordWrite
    BY <2>2 DEF RecordWrite, Known
  <2>. QED
    BY <2>1, <2>2
<1>4. Single' /\ Young'
  BY <1>1, <1>2 DEF Single, Busy, Young
<1>5. /\ Told' /\ Gapless(client.inbox)' /\ Now' = Now /\ Unreported' = Unreported
      /\ (Lasting' <=> Lasting) /\ (Aborting' <=> Aborting)
      /\ (\A m, r : Then(m, r)' = Then(m, r)) /\ (\A m, r : Completes(m, r)' <=> Completes(m, r))
  BY <1>1, <1>2, ClientStays
<1>6. Kept'
  <2>1. Lasting /\ ~Aborting => Items(client.inbox) \cap 1 .. N_GET \subseteq device' \cup erased' \cup Unreported
    BY <1>1, <1>3 DEF Kept
  <2>. QED
    BY <1>2, <1>3, <1>5, <2>1 DEF Kept
<1>7. Finished'
  BY <1>1, <1>2, <1>3 DEF Finished
<1>8. Tracked'
  BY <1>1, <1>2, <1>5 DEF Tracked
<1>9. ASSUME NEW h \in Handlers PROVE Current(h)'
  <2>1. Current(h) /\ Route(h)' = Route(h) /\ Fresh' = Fresh /\ handlers'[h] = handlers[h]
    BY <1>2 DEF Track, Route, Stale, Fresh
  <2>. QED
    BY <1>2, <1>3, <2>1 DEF Current
<1>10. ASSUME NEW h \in Handlers PROVE Committed(h)'
  <2>0. PICK m, q, r : m = handlers[h].msg /\ q = handlers[h].ops /\ r = handlers[h].reply
    OBVIOUS
  <2>. SUFFICES ASSUME handlers[h].pc = "commit" PROVE Agreed(q) /\ Due(m, q, r)'
    BY <1>2, <2>0 DEF Committed, Agreed
  <2>1. Agreed(q) /\ Due(m, q, r)
    BY <2>0 DEF Track, Committed
  <2>2. \A w \in ToSet(q) : Modest(w)'
    BY <1>3, <2>1 DEF Due, Modest
  <2>3. Absorbed(m, q) => Absorbed(m, q)'
    BY <1>3 DEF Absorbed
  <2>4. GoesOnWith(m, q, r) => GoesOnWith(m, q, r)'
    BY <1>2, <1>5 DEF GoesOnWith
  <2>. QED
    BY <1>2, <1>5, <2>1, <2>2, <2>3, <2>4 DEF Due
<1>. QED
  BY <1>4, <1>5, <1>6, <1>7, <1>8, <1>9, <1>10 DEF Track

Counts(h, k, n) ==
    /\ k = used.faults + 1 /\ used.missed <= n /\ used' = [used EXCEPT !.faults = k, !.missed = n]
    /\ Len(handlers[h].ops) = 1 /\ handlers[h].reply.status = 200 => n = used.missed + 1

LEMMA UnconfirmedCounts ==
    ASSUME Used, NEW h, WriteUnconfirmed(h)
    PROVE  \E k \in Nat, n \in Nat : Counts(h, k, n)
<1>. DEFINE n == IF Len(handlers[h].ops) = 1 /\ handlers[h].reply.status = 200
                 THEN used.missed + 1 ELSE used.missed
<1>1. used.faults \in Nat /\ used.missed \in Nat
  BY DEF Used
<1>2. used.faults + 1 \in Nat /\ used.faults <= used.faults + 1 /\ n \in Nat /\ used.missed <= n
  BY <1>1
<1>3. used' = [used EXCEPT !.faults = used.faults + 1, !.missed = n]
  BY DEF WriteUnconfirmed, Used
<1>4. Len(handlers[h].ops) = 1 /\ handlers[h].reply.status = 200 => n = used.missed + 1
  OBVIOUS
<1>. HIDE DEF n
<1>5. Counts(h, used.faults + 1, n)
  BY <1>2, <1>3, <1>4 DEF Counts
<1>. QED
  BY <1>2, <1>5

\* What went wrong is counted, and never forgotten.
LEMMA UsedGrows ==
    ASSUME Types, [Next]_vars
    PROVE  /\ UNCHANGED fixed /\ Used
           /\ used.faults <= used'.faults /\ used.resends <= used'.resends /\ used.expiries <= used'.expiries
           /\ used.missed <= used'.missed
<1>0. Used
  BY DEF Types
<1>1. ASSUME \/ UNCHANGED used
             \/ \E n : used' = [used EXCEPT !.nonces = n]
             \/ used' = [used EXCEPT !.challenges = @ + 1]
             \/ used' = [used EXCEPT !.faults = @ + 1]
             \/ \E h \in Handlers, k \in Nat, n \in Nat : Counts(h, k, n)
             \/ used' = [used EXCEPT !.resends = @ + 1]
             \/ used' = [used EXCEPT !.expiries = @ + 1]
             \/ used' = [used EXCEPT !.records = @ + 1]
      PROVE  /\ used.faults <= used'.faults /\ used.resends <= used'.resends /\ used.expiries <= used'.expiries
             /\ used.missed <= used'.missed
  <2>1. CASE \E h \in Handlers, k \in Nat, n \in Nat : Counts(h, k, n)
    <3>1. PICK h \in Handlers, k \in Nat, n \in Nat : Counts(h, k, n)
      BY <2>1
    <3>2. /\ used'.faults = k /\ used'.missed = n
          /\ used'.resends = used.resends /\ used'.expiries = used.expiries
      BY <1>0, <3>1 DEF Used, Counts
    <3>. QED
      BY <1>0, <3>1, <3>2 DEF Used, Counts
  <2>2. CASE ~\E h \in Handlers, k \in Nat, n \in Nat : Counts(h, k, n)
    <3>1. \/ UNCHANGED used
          \/ \E n : used' = [used EXCEPT !.nonces = n]
          \/ used' = [used EXCEPT !.challenges = @ + 1]
          \/ used' = [used EXCEPT !.faults = @ + 1]
          \/ used' = [used EXCEPT !.resends = @ + 1]
          \/ used' = [used EXCEPT !.expiries = @ + 1]
          \/ used' = [used EXCEPT !.records = @ + 1]
      BY <1>1, <2>2
    <3>. QED
      BY <1>0, <3>1 DEF Used
  <2>. QED
    BY <2>1, <2>2
<1>2. ASSUME NEW h \in Handlers, Reads(h) PROVE UNCHANGED <<fixed, used>>
  BY <1>2, ReadEffect
<1>3. ASSUME NEW h \in Handlers, Challenge(h) PROVE UNCHANGED fixed /\ \E n : used' = [used EXCEPT !.nonces = n]
  <2>1. UNCHANGED fixed
    BY <1>3, ChallengeOutcome
  <2>2. used' = [used EXCEPT !.nonces = IF Redraws(handlers[h].sess, handlers[h].msg.cred) THEN @ + 1 ELSE @]
    BY <1>3 DEF Challenge
  <2>. QED
    BY <2>1, <2>2
<1>4. ASSUME NEW h \in Handlers, Decides(h) \/ Write(h) \/ Answer(h) PROVE UNCHANGED <<fixed, used>>
  BY <1>4, DecidesOutcome, WriteEffect, AnswerEffect
<1>5. ASSUME NEW h \in Handlers, Sends(h)
      PROVE  UNCHANGED fixed /\ (UNCHANGED used \/ used' = [used EXCEPT !.challenges = @ + 1])
  BY <1>5 DEF Sends, Send, Resend, SendUnauthenticated
<1>6. ASSUME NEW h \in Handlers, Fails(h)
      PROVE  /\ UNCHANGED fixed
             /\ used' = [used EXCEPT !.faults = @ + 1] \/ \E k \in Nat, n \in Nat : Counts(h, k, n)
  <2>1. CASE StoreFails(h)
    BY <2>1 DEF StoreFails
  <2>2. CASE WriteUnconfirmed(h)
    <3>1. UNCHANGED fixed
      BY <2>2 DEF WriteUnconfirmed
    <3>2. \E k \in Nat, n \in Nat : Counts(h, k, n)
      BY <1>0, <2>2, UnconfirmedCounts
    <3>. QED
      BY <3>1, <3>2
  <2>. QED
    BY <1>6, <2>1, <2>2 DEF Fails
<1>7. ASSUME Timeout PROVE UNCHANGED fixed /\ used' = [used EXCEPT !.resends = @ + 1]
  BY <1>7 DEF Timeout
<1>8. ASSUME Background
      PROVE  /\ UNCHANGED fixed
             /\ \/ UNCHANGED used \/ used' = [used EXCEPT !.expiries = @ + 1]
                \/ used' = [used EXCEPT !.records = @ + 1]
  BY <1>8 DEF Background, Expire, RecordRead, RecordWrite, ReplicateSession, ReplicatePending, vars
<1>. QED
  BY <1>0, <1>1, <1>2, <1>3, <1>4, <1>5, <1>6, <1>7, <1>8, NextSplits

LEMMA UndisturbedBefore ==
    ASSUME Types, [Next]_vars, Undisturbed'
    PROVE  Undisturbed
<1>1. scenario' = scenario /\ Used
  BY UsedGrows DEF fixed
<1>2. used.faults \in Nat /\ used.resends \in Nat /\ used.expiries \in Nat /\ used.missed \in Nat
  BY <1>1 DEF Used
<1>3. used'.resends = 0 /\ used'.expiries = 0 /\ used'.missed = 0 /\ ~scenario.lag /\ (OutOfReach \/ used'.faults = 0)
  BY <1>1 DEF Undisturbed
<1>4. used.resends = 0 /\ used.expiries = 0 /\ used.missed = 0 /\ (used'.faults = 0 => used.faults = 0)
  BY <1>2, <1>3, UsedGrows
<1>. QED
  BY <1>3, <1>4 DEF Undisturbed

LEMMA StutterTrack ==
    ASSUME Track, UNCHANGED vars
    PROVE  Track'
<1>1. UNCHANGED <<items, life, client>> /\ handlers' = handlers
  BY DEF vars
<1>2. Single' /\ Tracked'
  <2>1. (Lasting' <=> Lasting) /\ (Aborting' <=> Aborting) /\ (OnTrack(session, pending, Now)' <=> OnTrack(session, pending, Now))
    BY <1>1, ClientStays, AllStays
  <2>. QED
    BY <1>1, <2>1 DEF Track, Single, Busy, Tracked
<1>3. Young' /\ Told' /\ Gapless(client.inbox)' /\ Kept' /\ Finished'
  BY <1>1, ClientStays, AllStays DEF Track
<1>4. ASSUME NEW h \in Handlers PROVE Current(h)'
  <2>1. Current(h) /\ Route(h)' = Route(h) /\ session' = session /\ pending' = pending /\ erased' = erased
    BY <1>1 DEF Track, Route, Stale, items, inventory
  <2>2. Known' = Known /\ Fresh' = Fresh
    BY <1>1, AllStays
  <2>. QED
    BY <1>1, <2>1, <2>2 DEF Current
<1>5. ASSUME NEW h \in Handlers PROVE Committed(h)'
  <2>0. PICK m, q, r : m = handlers[h].msg /\ q = handlers[h].ops /\ r = handlers[h].reply
    OBVIOUS
  <2>1. Due(m, q, r)' <=> Due(m, q, r)
    BY <1>1, AllStays
  <2>. QED
    BY <1>1, <2>0, <2>1 DEF Track, Committed, Agreed
<1>. QED
  BY <1>2, <1>3, <1>4, <1>5 DEF Track

LEMMA TrackKept ==
    ASSUME Types, Undisturbed, Undisturbed', Track, [Next]_vars
    PROVE  Track'
<1>1. ~scenario.lag /\ used.faults \in Nat /\ used.resends \in Nat /\ used.expiries \in Nat /\ used.missed \in Nat
  BY DEF Undisturbed, Types, Used
<1>2. /\ used'.resends = 0 /\ used'.expiries = 0 /\ used'.missed = 0 /\ (OutOfReach \/ used'.faults = 0)
      /\ used \in [faults : Nat, resends : Nat, challenges : Nat, expiries : Nat, records : Nat, nonces : Nat,
                   missed : Nat]
  BY DEF Undisturbed, Types, Used
<1>3. ASSUME NEW h \in Handlers, StoreFails(h) PROVE Track'
  <2>1. used' = [used EXCEPT !.faults = @ + 1]
    BY <1>3 DEF StoreFails
  <2>2. used'.faults # 0
    BY <1>1, <1>2, <2>1
  <2>. QED
    BY <1>2, <1>3, <2>2, FailTrack
<1>a. ASSUME NEW h \in Handlers, WriteUnconfirmed(h) PROVE Track'
  <2>1. PICK k \in Nat, n \in Nat : Counts(h, k, n)
    <3>1. Used
      BY DEF Types
    <3>. QED
      BY <1>a, <3>1, UnconfirmedCounts
  <2>2. used'.faults = k /\ used'.missed = n
    BY <1>2, <2>1 DEF Counts
  <2>3. used'.faults # 0 /\ ~(Len(handlers[h].ops) = 1 /\ handlers[h].reply.status = 200)
    BY <1>1, <1>2, <2>1, <2>2 DEF Counts
  <2>. QED
    BY <1>2, <1>a, <2>3, UnconfirmedTrack
<1>4. ~Timeout
  <2>1. ASSUME Timeout PROVE FALSE
    <3>1. used' = [used EXCEPT !.resends = @ + 1]
      BY <2>1 DEF Timeout
    <3>. QED
      BY <1>1, <1>2, <3>1
  <2>. QED
    BY <2>1
<1>5. ~Expire
  <2>1. ASSUME Expire PROVE FALSE
    <3>1. used' = [used EXCEPT !.expiries = @ + 1]
      BY <2>1 DEF Expire
    <3>. QED
      BY <1>1, <1>2, <3>1
  <2>. QED
    BY <2>1
<1>6. ASSUME Background PROVE Track'
  BY <1>1, <1>5, <1>6, RecordTrack, StutterTrack DEF Background, ReplicateSession, ReplicatePending
<1>. QED
  BY <1>1, <1>3, <1>a, <1>4, <1>6, NextSplits, ReadTrack, DecideTrack, WriteTrack, AnswerTrack, SendTrack DEF Fails

LEMMA TrackInit == Init => Track
<1>. SUFFICES ASSUME Init PROVE Track
  OBVIOUS
<1>1. session = None /\ pending = None /\ recorder = None /\ life = 0 /\ handlers = [h \in Handlers |-> Idle]
  BY DEF Init
<1>2. client.state = "turn" /\ client.msg = None /\ client.reply = None /\ client.inbox = <<>> /\ client.owed = {}
  BY DEF Init
<1>3. \A h \in Handlers : handlers[h].pc = "idle"
  BY <1>1 DEF Idle
<1>4. Single /\ Young
  BY <1>1, <1>3 DEF Single, Busy, Young
<1>5. ~Answered /\ ~Aborting
  BY <1>2 DEF Answered, Aborting
<1>6. Told
  BY <1>2, <1>5 DEF Told
<1>7. Items(<<>>) = {} /\ InSequence(<<>>)
  BY DEF Items, Commands, InSequence
<1>8. Gapless(client.inbox) /\ Kept
  BY <1>1, <1>2, <1>7 DEF Gapless, Kept
<1>9. Finished
  BY <1>2 DEF Finished
<1>10. Tracked
  <2>1. Ph(session) = "init"
    BY <1>1 DEF Ph
  <2>. QED
    BY <2>1, NotBegun DEF Tracked
<1>11. \A h \in Handlers : Current(h) /\ Committed(h)
  BY <1>3, IdleRight
<1>. QED
  BY <1>4, <1>6, <1>8, <1>9, <1>10, <1>11 DEF Track

DeliveryInv == Types /\ (Undisturbed => Track)

LEMMA DeliveryKept == DeliveryInv /\ [Next]_vars => DeliveryInv'
<1>. SUFFICES ASSUME DeliveryInv, [Next]_vars PROVE DeliveryInv'
  OBVIOUS
<1>1. Types'
  BY TypesKept DEF DeliveryInv
<1>2. ASSUME Undisturbed' PROVE Track'
  BY <1>2, UndisturbedBefore, TrackKept DEF DeliveryInv
<1>. QED
  BY <1>1, <1>2 DEF DeliveryInv

LEMMA DeliveryInit == Init => DeliveryInv
BY TypesInit, TrackInit DEF DeliveryInv

-----------------------------------------------------------------------------

\* _DmChanges.commit and _next_message: although a package is split over any number of messages,
\* and although store calls fail, before or after they took effect, and their messages are sent
\* again, in a session that is not disturbed (the last write for an answer may fail too, but not
\* after it took effect) the device gets the inventory and then the configuration in sequence, with nothing
\* skipped or repeated, and all of both before it is told that the session is complete.
THEOREM ItemsDelivered == Spec => [](Undisturbed => DeliveredInOrder)
<1>1. DeliveryInv => (Undisturbed => DeliveredInOrder)
  <2>. SUFFICES ASSUME Track PROVE DeliveredInOrder
    BY DEF DeliveryInv
  <2>1. Gapless(client.inbox) /\ Finished
    BY DEF Track
  <2>. QED
    BY <2>1 DEF Gapless, Finished, Exact, All, DeliveredInOrder, NothingSkipped
<1>. QED
  BY <1>1, DeliveryInit, DeliveryKept, PTL DEF Spec

\* _acks and the remainder: in such a session each command of each message of the device is
\* acknowledged, and none twice, although acknowledgements wait in the remainder and are rewritten
\* with every part of it that is sent.
THEOREM AcksDelivered == Spec => [](Undisturbed => AcksExact)
<1>1. DeliveryInv => (Undisturbed => AcksExact)
  BY DEF DeliveryInv, Track, Finished, Exact, AcksExact
<1>. QED
  BY <1>1, DeliveryInit, DeliveryKept, PTL DEF Spec

\* _absorb_device_values and _record_failures: in such a session all that the device reports is
\* stored before it is told that the session is complete, whichever of its messages brought it and
\* whatever of the answers failed, unless a configuration request wrote the item back meanwhile.
THEOREM ReportsKept == Spec => [](Undisturbed => ReportsRecorded)
<1>1. DeliveryInv => (Undisturbed => ReportsRecorded)
  BY DEF DeliveryInv, Track, Finished, ReportsRecorded
<1>. QED
  BY <1>1, DeliveryInit, DeliveryKept, PTL DEF Spec
=============================================================================
