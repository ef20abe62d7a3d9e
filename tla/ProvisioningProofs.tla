------------------------- MODULE ProvisioningProofs -------------------------
(***************************************************************************)
(* Theorems about Provisioning for any number of requests and operator calls *)
(* in flight, any number of tokens, revisions and forceable values, and any  *)
(* workload.                                                                 *)
(***************************************************************************)
EXTENDS Provisioning, FiniteSetTheorems, TLAPS

\* The steps of a configuration request, and of an operator call.
RequestPcs == {"token", "identity", "otp", "serve", "secret", "document"}
CallPcs    == {"load", "write", "query", "revoke", "mint"}

Locals  == [pc : RequestPcs \cup CallPcs \cup {"idle"}, op : Calls \cup {"config", None},
            arg : Asks \cup {"otp", "network", None}, holds : 0 .. MAX_VERSION,
            tok : Tokens \cup {None}, sub : Records \cup {None},
            list : SUBSET Tokens, before : SUBSET Tokens, late : BOOLEAN]
Answers == [kind : {"none", "511", "403", "disabled", "unchanged", "served"}, version : Int,
            secret : 0 .. N_SECRETS, token : Tokens \cup {None}, late : BOOLEAN]

\* What an actor holds at each of its steps: a request past resolve_identity has read a
\* record; one that issued a token serves an unforced, positive revision; an operator
\* call is about what it was asked for, and create about a subscriber that was not there.
LocalsOK(r) ==
    /\ r \in Locals
    /\ r.pc = "idle" => r = Rested
    /\ r.pc \in RequestPcs => r.op = "config"
    /\ r.pc \in CallPcs => r.op \in Calls
    /\ r.pc \in {"load", "write"} => r.arg \in Asks /\ r.arg.op = r.op
    /\ r.pc \in {"otp", "serve", "secret", "document", "mint"} => r.sub \in Records
    /\ r.pc \in {"secret", "document"} => r.sub.version > 0 /\ r.sub.forced = None /\ r.tok # None
    /\ r.pc = "write" =>
          /\ r.op \in Writers
          /\ r.op = "create" => r.sub = None
          /\ r.op \notin {"put", "create"} => r.sub \in Records
    /\ r.pc \in {"query", "revoke"} => r.op \in Revokers

\* The tokens that an actor has in hand were issued.
HeldBy(a) ==
    /\ actor[a].list \subseteq Issued /\ actor[a].before \subseteq Issued
    /\ actor[a].tok \in Issued \cup {None}

Types ==
    /\ sub \in Records \cup {None}
    /\ tokens \in [Tokens -> {"unused", "active", "revoked"}]
    /\ indexed \subseteq Issued
    /\ \E n \in Nat : Issued = 1 .. n
    /\ actor \in [Actors -> Locals]
    /\ \A a \in Actors : LocalsOK(actor[a]) /\ HeldBy(a)
    /\ drawn \in 0 .. N_SECRETS
    /\ last \in Answers
    /\ last.kind \in {"served", "unchanged"} => last.version > 0
    /\ last.kind = "served" => last.token \in Issued
    /\ barred \in BOOLEAN /\ clobbered \in BOOLEAN
    /\ workload \in Workloads

-----------------------------------------------------------------------------
(* The inductive invariants.                                                 *)

\* A revocation has on its list every token that the index showed when it began and
\* that is still active.
ListCovers ==
    \A a \in Actors :
        /\ actor[a].before \subseteq indexed
        /\ actor[a].pc = "revoke" => actor[a].before \cap Active \subseteq actor[a].list

\* The call goes by the record that it read: a disable no longer does once it wrote.
GoesBy(r) ==
    /\ r.pc \in {"otp", "serve", "secret", "document", "write", "mint", "query", "revoke"}
    /\ r.pc \in {"query", "revoke"} => r.op # "disable"

\* One call after the other: at most one is in flight, and what it read is what is stored.
Alone ==
    ~workload.overlap =>
        /\ \A a, b \in Actors : actor[a].pc # "idle" /\ actor[b].pc # "idle" => a = b
        /\ \A a \in Actors : GoesBy(actor[a]) => actor[a].sub = sub

\* Then no token outlives its subscriber: the index shows every token, and a revocation
\* has every active one on its list.
NoneLeft ==
    ~workload.overlap =>
        /\ sub = None => Active = {}
        /\ indexed = Issued
        /\ \A a \in Actors :
              actor[a].pc = "revoke" => Active \subseteq actor[a].list

\* A disable that stands, or is written and about to be answered.
Standing ==
    barred \/ \E a \in Actors : actor[a].pc \in {"query", "revoke"} /\ actor[a].op = "disable" /\ actor[a].late

\* While a disable stands no call that may lift it is in flight and the record is forced
\* or gone; a request that began since then holds a forced record if it holds one.
DisableInv ==
    /\ Standing => \A a \in Actors : actor[a].op \notin Lifters
    /\ Standing /\ ~clobbered => sub = None \/ sub.forced # None
    /\ \A a \in Actors : actor[a].op = "config" /\ actor[a].late =>
          /\ barred
          /\ actor[a].pc \in {"otp", "serve", "secret", "document"} /\ ~clobbered
                => actor[a].sub.forced # None
    /\ last.kind = "served" /\ last.late => clobbered

-----------------------------------------------------------------------------
(* Types.                                                                    *)

USE DEF RequestPcs, CallPcs

LEMMA RestedOK == LocalsOK(Rested)
BY ProvisioningAssumption, NoneAssumption DEF LocalsOK, Locals, Rested

LEMMA NewSubscriberOK == NewSubscriber \in Records
BY ProvisioningAssumption DEF NewSubscriber, Records, ForcedValues

\* An answer that carries nothing but its kind.
LEMMA RefusalOK ==
    \A k \in {"none", "511", "403", "disabled", "unchanged"}, v \in Int :
        /\ [NoAnswer EXCEPT !.kind = k] \in Answers
        /\ [NoAnswer EXCEPT !.kind = k, !.version = v] \in Answers
        /\ [NoAnswer EXCEPT !.kind = k].kind = k
        /\ [NoAnswer EXCEPT !.kind = k, !.version = v].kind = k
        /\ [NoAnswer EXCEPT !.kind = k, !.version = v].version = v
<1>1. 0 \in 0 .. N_SECRETS /\ 0 \in Int /\ FALSE \in BOOLEAN /\ None \in Tokens \cup {None}
  BY ProvisioningAssumption
<1>2. NoAnswer \in Answers
  BY <1>1, Zenon DEF Answers, NoAnswer
<1>3. ASSUME NEW r \in Answers, NEW k \in {"none", "511", "403", "disabled", "unchanged"}, NEW v \in Int
      PROVE  /\ [r EXCEPT !.kind = k] \in Answers
             /\ [r EXCEPT !.kind = k, !.version = v] \in Answers
             /\ [r EXCEPT !.kind = k].kind = k
             /\ [r EXCEPT !.kind = k, !.version = v].kind = k
             /\ [r EXCEPT !.kind = k, !.version = v].version = v
  BY DEF Answers
<1>. QED
  BY <1>2, <1>3

\* The tokens are numbered in the order they are issued in: one that is minted was not
\* issued before.
LEMMA MintEffect ==
    ASSUME Types, NEW t \in Tokens, Mint(t)
    PROVE  /\ tokens' \in [Tokens -> {"unused", "active", "revoked"}]
           /\ t \notin Issued /\ Issued' = Issued \cup {t} /\ Active' = Active \cup {t}
           /\ \E n \in Nat : Issued' = 1 .. n
           /\ indexed \subseteq indexed' /\ indexed' \subseteq Issued'
           /\ indexed = Issued /\ ~workload.lag => indexed' = Issued'
<1>1. PICK n \in Nat : Issued = 1 .. n
  BY DEF Types
<1>2. Cardinality(1 .. n) = n
  BY FS_Interval
<1>3. t = n + 1
  BY <1>1, <1>2 DEF Mint
<1>4. t \notin Issued
  BY <1>1, <1>3
<1>5. /\ tokens \in [Tokens -> {"unused", "active", "revoked"}] /\ tokens' = [tokens EXCEPT ![t] = "active"]
      /\ indexed' = indexed \/ indexed' = indexed \cup {t}
      /\ ~workload.lag => indexed' = indexed \cup {t}
      /\ indexed \subseteq Issued
  BY DEF Types, Mint
<1>6. Issued' = Issued \cup {t} /\ Active' = Active \cup {t}
  BY <1>5 DEF Issued, Active
<1>7. Issued' = 1 .. (n + 1)
  BY <1>1, <1>3, <1>6
<1>8. tokens' \in [Tokens -> {"unused", "active", "revoked"}]
  BY <1>5
<1>9. indexed \subseteq indexed' /\ indexed' \subseteq Issued'
  BY <1>5, <1>6
<1>10. indexed = Issued /\ ~workload.lag => indexed' = Issued'
  BY <1>5, <1>6
<1>11. \E m \in Nat : Issued' = 1 .. m
  BY <1>7
<1>. QED
  BY <1>4, <1>6, <1>8, <1>9, <1>10, <1>11

\* The record that an operator call writes is a record, when it has what it was asked
\* for and, unless it creates one, a record that it read.
LEMMA ChangedOK ==
    ASSUME NEW ask \in Asks, ask.op \in Writers, NEW s \in Records \cup {None},
           ask.op \notin {"put", "create"} => s \in Records,
           Changed(ask, s).version <= MAX_VERSION
    PROVE  /\ Changed(ask, s) \in Records
           /\ ask.op \in {"update", "override", "disable"} => Changed(ask, s).version = s.version
           /\ ask.op \in {"invalidate", "enable"} => Changed(ask, s).version > s.version
           /\ ask.op = "override" => Changed(ask, s) = s
           /\ ask.op = "disable" => Changed(ask, s).forced # None
<1>0. PUT_VERSIONS \subseteq 0 .. MAX_VERSION /\ MAX_VERSION \in Nat /\ N_SECRETS \in Nat
  BY ProvisioningAssumption
<1>1. CASE ask.op = "put"
  <2>1. ask.entitled \in BOOLEAN /\ ask.forced \in ForcedValues /\ ask.version \in PUT_VERSIONS
    BY <1>1 DEF Asks
  <2>2. Changed(ask, s) = [entitled |-> ask.entitled, forced |-> ask.forced,
                           version |-> ask.version, secret |-> IF s = None THEN 0 ELSE s.secret]
    BY <1>1 DEF Changed
  <2>3. (IF s = None THEN 0 ELSE s.secret) \in 0 .. N_SECRETS
    BY <1>0 DEF Records
  <2>4. ask.version \in 0 .. MAX_VERSION
    BY <1>0, <2>1
  <2>. QED
    BY <1>1, <2>1, <2>2, <2>3, <2>4 DEF Records
<1>2. CASE ask.op = "create"
  <2>1. ask.entitled \in BOOLEAN
    BY <1>2 DEF Asks
  <2>2. Changed(ask, s) = [NewSubscriber EXCEPT !.entitled = ask.entitled]
    BY <1>2 DEF Changed
  <2>. QED
    BY <1>2, <2>1, <2>2, NewSubscriberOK DEF Records
<1>3. CASE ask.op = "update"
  <2>1. ask.entitled \in BOOLEAN /\ ask.forced \in ForcedValues
    BY <1>3 DEF Asks
  <2>2. Changed(ask, s) = [s EXCEPT !.entitled = ask.entitled, !.forced = ask.forced]
    BY <1>3 DEF Changed
  <2>. QED
    BY <1>3, <2>1, <2>2 DEF Records
<1>4. CASE ask.op = "override"
  BY <1>4 DEF Changed
<1>5. CASE ask.op = "disable"
  <2>1. ask.forced \in Forceable
    BY <1>5 DEF Asks
  <2>2. Changed(ask, s) = [s EXCEPT !.forced = ask.forced]
    BY <1>5 DEF Changed
  <2>. QED
    BY <1>5, <2>1, <2>2, NoneAssumption DEF Records, ForcedValues
<1>6. CASE ask.op \in {"invalidate", "enable"}
  <2>1. s \in Records /\ s.version \in 0 .. MAX_VERSION
    BY <1>6 DEF Records
  <2>2. /\ Changed(ask, s).version = NextVersion(s.version)
        /\ Changed(ask, s) \in [entitled : BOOLEAN, forced : {None}, version : {NextVersion(s.version)},
                                secret : {s.secret}]
    BY <1>6, <2>1 DEF Changed, Records
  <2>3. NextVersion(s.version) \in Nat /\ NextVersion(s.version) > s.version
    BY <1>0, <2>1 DEF NextVersion
  <2>4. Changed(ask, s) \in Records
    BY <1>0, <2>1, <2>2, <2>3 DEF Records, ForcedValues
  <2>. QED
    BY <1>6, <2>2, <2>3, <2>4
<1>. QED
  BY <1>1, <1>2, <1>3, <1>4, <1>5, <1>6 DEF Writers

-----------------------------------------------------------------------------
(* What the steps do to an actor's locals.                                   *)

\* Only a's locals change.
OnlyActor(a) ==
    /\ actor' \in [Actors -> Locals]
    /\ \A b \in Actors \ {a} : actor'[b] = actor[b]

LEMMA SetEffect ==
    ASSUME Types, NEW a \in Actors, NEW r \in Locals, Set(a, r)
    PROVE  OnlyActor(a) /\ actor'[a] = r
BY DEF Types, Set, OnlyActor

LEMMA RestedFields ==
    /\ Rested.pc = "idle" /\ Rested.op = None /\ Rested.before = {} /\ Rested.list = {}
    /\ Rested.late = FALSE /\ Rested.sub = None /\ Rested.tok = None
<1>1. Rested.late = FALSE
  BY Zenon DEF Rested
<1>. QED
  BY <1>1 DEF Rested

LEMMA RestEffect ==
    ASSUME Types, NEW a \in Actors, Set(a, Rested)
    PROVE  OnlyActor(a) /\ actor'[a] = Rested /\ LocalsOK(actor'[a]) /\ HeldBy(a)'
<1>1. Rested \in Locals
  BY RestedOK DEF LocalsOK
<1>2. OnlyActor(a) /\ actor'[a] = Rested
  BY <1>1, SetEffect
<1>3. HeldBy(a)'
  BY <1>2, RestedFields DEF HeldBy
<1>. QED
  BY <1>2, <1>3, RestedOK

LEMMA StartConfigEffect ==
    ASSUME Types, NEW a \in Actors, StartConfig(a)
    PROVE  /\ OnlyActor(a) /\ LocalsOK(actor'[a]) /\ HeldBy(a)'
           /\ actor'[a].pc \in {"token", "identity"} /\ actor'[a].op = "config"
           /\ actor'[a].before = {} /\ actor'[a].late = barred
<1>. DEFINE A(r, t, h, l) == [r EXCEPT !.pc = "token", !.op = "config", !.tok = t, !.holds = h, !.late = l]
            B(r, g, h, l) == [r EXCEPT !.pc = "identity", !.op = "config", !.arg = g, !.holds = h, !.late = l]
<1>1. ASSUME NEW r \in Locals, NEW h \in 0 .. MAX_VERSION, NEW l \in BOOLEAN, NEW t \in Tokens
      PROVE  /\ A(r, t, h, l) \in Locals
             /\ A(r, t, h, l).pc = "token" /\ A(r, t, h, l).op = "config"
             /\ A(r, t, h, l).before = r.before /\ A(r, t, h, l).late = l
             /\ A(r, t, h, l).list = r.list /\ A(r, t, h, l).tok = t
  BY DEF Locals
<1>2. ASSUME NEW r \in Locals, NEW h \in 0 .. MAX_VERSION, NEW l \in BOOLEAN,
             NEW g \in {"otp", "network"}
      PROVE  /\ B(r, g, h, l) \in Locals
             /\ B(r, g, h, l).pc = "identity" /\ B(r, g, h, l).op = "config"
             /\ B(r, g, h, l).before = r.before /\ B(r, g, h, l).late = l
             /\ B(r, g, h, l).list = r.list /\ B(r, g, h, l).tok = r.tok
  BY DEF Locals
<1>3. ASSUME NEW r \in Locals, r.pc \in {"token", "identity"}, r.op = "config"
      PROVE  LocalsOK(r)
  BY <1>3 DEF LocalsOK
<1>4. Rested \in Locals /\ barred \in BOOLEAN
  BY RestedOK DEF LocalsOK, Types
<1>5. PICK r \in Locals : Set(a, r) /\ r.pc \in {"token", "identity"} /\ r.op = "config"
                          /\ r.before = Rested.before /\ r.late = barred
                          /\ r.list = Rested.list /\ r.tok \in Issued \cup {None}
  <2>1. PICK h \in workload.holds :
           \/ \E t \in Issued : Set(a, A(Rested, t, h, barred))
           \/ \E g \in {"otp", "network"} : Set(a, B(Rested, g, h, barred))
    BY DEF StartConfig
  <2>2. h \in 0 .. MAX_VERSION
    BY <2>1, ProvisioningAssumption DEF Types
  <2>3. Issued \subseteq Tokens
    BY DEF Issued
  <2>. HIDE DEF A, B
  <2>. QED
    BY <1>1, <1>2, <1>4, <2>1, <2>2, <2>3, RestedFields
<1>6. OnlyActor(a) /\ actor'[a] = r
  BY <1>5, SetEffect
<1>7. HeldBy(a)'
  <2>1. Issued' = Issued
    BY DEF StartConfig, Quiet, store, Issued
  <2>. QED
    BY <1>5, <1>6, <2>1, RestedFields DEF HeldBy
<1>. QED
  BY <1>3, <1>5, <1>6, <1>7, RestedFields

\* a goes on with its call, at step p: only there may the rest of its locals change.
Moves(a, p) ==
    /\ OnlyActor(a) /\ LocalsOK(actor'[a]) /\ HeldBy(a)'
    /\ actor'[a].pc = p
    /\ actor'[a].op = actor[a].op /\ actor'[a].arg = actor[a].arg
    /\ actor'[a].before = actor[a].before /\ actor'[a].late = actor[a].late

Rests(a) == OnlyActor(a) /\ actor'[a] = Rested /\ LocalsOK(actor'[a]) /\ HeldBy(a)'

\* The answer carries no document.
Replies ==
    /\ last' \in Answers /\ last'.kind # "served"
    /\ last'.kind = "unchanged" => last'.version > 0

LEMMA RepliesOK ==
    ASSUME NEW k \in {"none", "511", "403"}, last' = [NoAnswer EXCEPT !.kind = k]
    PROVE  Replies
<1>1. 0 \in Int
  OBVIOUS
<1>. QED
  BY <1>1, RefusalOK DEF Replies

\* Locals with another step, record, token or list are the old ones otherwise.
Kept(r, q) ==
    q \in Locals /\ q.op = r.op /\ q.arg = r.arg /\ q.before = r.before /\ q.late = r.late

LEMMA AtPc ==
    ASSUME NEW r \in Locals, NEW p \in RequestPcs \cup CallPcs, NEW q, q = [r EXCEPT !.pc = p]
    PROVE  Kept(r, q) /\ q.pc = p /\ q.sub = r.sub /\ q.list = r.list /\ q.tok = r.tok
BY DEF Locals, Kept

LEMMA MovesOK ==
    ASSUME Types, NEW a \in Actors, NEW q, Set(a, q), Kept(actor[a], q), LocalsOK(q),
           Issued \subseteq Issued', q.list \subseteq Issued', q.tok \in Issued' \cup {None}
    PROVE  Moves(a, q.pc) /\ actor'[a] = q
<1>1. OnlyActor(a) /\ actor'[a] = q
  BY SetEffect DEF Kept
<1>2. actor[a].before \subseteq Issued /\ q.before = actor[a].before
  BY DEF Types, HeldBy, Kept
<1>3. HeldBy(a)'
  BY <1>1, <1>2 DEF HeldBy
<1>. QED
  BY <1>1, <1>3 DEF Moves, Kept

LEMMA QuietMovesOK ==
    ASSUME Types, NEW a \in Actors, NEW q, Set(a, q), Kept(actor[a], q), LocalsOK(q),
           tokens' = tokens, q.list = actor[a].list, q.tok = actor[a].tok
    PROVE  Moves(a, q.pc) /\ actor'[a] = q
<1>1. Issued' = Issued
  BY DEF Issued
<1>2. actor[a].list \subseteq Issued /\ actor[a].tok \in Issued \cup {None}
  BY DEF Types, HeldBy
<1>. QED
  BY <1>1, <1>2, MovesOK

\* A step of a request to another step that needs no more than a record.
LEMMA RequestMovesOK ==
    ASSUME NEW r, LocalsOK(r), r.pc \in RequestPcs, NEW q, Kept(r, q),
           q.pc \in {"identity", "otp", "serve", "secret", "document"},
           q.pc # "identity" => q.sub \in Records,
           q.pc \in {"secret", "document"} =>
              q.sub.version > 0 /\ q.sub.forced = None /\ q.tok # None
    PROVE  LocalsOK(q)
BY DEF LocalsOK, Kept

LEMMA VerifyTokenEffect ==
    ASSUME Types, NEW a \in Actors, VerifyToken(a)
    PROVE  \/ Moves(a, "identity") /\ last' = last
           \/ Rests(a) /\ Replies
<1>0. actor[a] \in Locals /\ LocalsOK(actor[a]) /\ actor[a].pc = "token" /\ tokens' = tokens
  BY DEF Types, VerifyToken, store
<1>1. ASSUME NEW q, q = [actor[a] EXCEPT !.pc = "identity"], Set(a, q), last' = last
      PROVE  Moves(a, "identity") /\ last' = last
  <2>1. Kept(actor[a], q) /\ q.pc = "identity" /\ q.list = actor[a].list /\ q.tok = actor[a].tok
    BY <1>0, <1>1, AtPc
  <2>2. LocalsOK(q)
    BY <1>0, <2>1, RequestMovesOK
  <2>. QED
    BY <1>0, <1>1, <2>1, <2>2, QuietMovesOK
<1>2. CASE Set(a, Rested) /\ last' = [NoAnswer EXCEPT !.kind = "511"]
  BY <1>2, RestEffect, RepliesOK DEF Rests
<1>. QED
  BY <1>1, <1>2 DEF VerifyToken

LEMMA IdentifyEffect ==
    ASSUME Types, NEW a \in Actors, Identify(a)
    PROVE  \/ Rests(a) /\ Replies
           \/ /\ Moves(a, "otp") \/ Moves(a, "serve")
              /\ sub \in Records /\ actor'[a].sub = sub /\ last' = last
<1>0. actor[a] \in Locals /\ LocalsOK(actor[a]) /\ actor[a].pc = "identity" /\ tokens' = tokens
  BY DEF Types, Identify, store
<1>1. CASE sub = None \/ ~sub.entitled
  <2>1. Set(a, Rested) /\ last' = [NoAnswer EXCEPT !.kind = IF sub = None THEN "511" ELSE "403"]
    BY <1>1 DEF Identify
  <2>. QED
    <3>1. Rests(a)
      BY <2>1, RestEffect DEF Rests
    <3>2. (IF sub = None THEN "511" ELSE "403") \in {"none", "511", "403"}
      OBVIOUS
    <3>3. Replies
      BY <2>1, <3>2, RepliesOK
    <3>. QED
      BY <3>1, <3>3
<1>2. CASE ~(sub = None \/ ~sub.entitled)
  <2>1. sub \in Records
    BY <1>2 DEF Types
  <2>2. PICK q : /\ q = [actor[a] EXCEPT !.pc = IF actor[a].arg = "otp" THEN "otp" ELSE "serve", !.sub = sub]
                 /\ Set(a, q) /\ last' = last
    BY <1>2 DEF Identify
  <2>3. Kept(actor[a], q) /\ q.pc \in {"otp", "serve"} /\ q.sub = sub
         /\ q.list = actor[a].list /\ q.tok = actor[a].tok
    <3>. DEFINE p == IF actor[a].arg = "otp" THEN "otp" ELSE "serve"
    <3>1. p \in {"otp", "serve"}
      OBVIOUS
    <3>2. q = [actor[a] EXCEPT !.pc = p, !.sub = sub]
      BY <2>2
    <3>. HIDE DEF p
    <3>3. sub \in Records \cup {None} /\ p \in RequestPcs \cup CallPcs
      BY <2>1, <3>1
    <3>4. Kept(actor[a], q) /\ q.pc = p /\ q.sub = sub /\ q.list = actor[a].list /\ q.tok = actor[a].tok
      BY <1>0, <3>2, <3>3 DEF Locals, Kept
    <3>. QED
      BY <3>1, <3>4
  <2>4. LocalsOK(q)
    BY <1>0, <2>1, <2>3, RequestMovesOK
  <2>5. Moves(a, q.pc) /\ actor'[a] = q
    BY <1>0, <2>2, <2>3, <2>4, QuietMovesOK
  <2>. QED
    BY <2>1, <2>2, <2>3, <2>5
<1>. QED
  BY <1>1, <1>2

LEMMA OtpOutcomeEffect ==
    ASSUME Types, NEW a \in Actors, OtpOutcome(a)
    PROVE  \/ Rests(a) /\ Replies
           \/ Moves(a, "serve") /\ actor'[a].sub = actor[a].sub /\ last' = last
<1>0. actor[a] \in Locals /\ LocalsOK(actor[a]) /\ actor[a].pc = "otp" /\ tokens' = tokens /\ actor[a].sub \in Records
  BY DEF Types, OtpOutcome, LocalsOK, store
<1>1. ASSUME NEW q, q = [actor[a] EXCEPT !.pc = "serve"], Set(a, q), last' = last
      PROVE  Moves(a, "serve") /\ actor'[a].sub = actor[a].sub /\ last' = last
  <2>1. Kept(actor[a], q) /\ q.pc = "serve" /\ q.sub = actor[a].sub /\ q.list = actor[a].list /\ q.tok = actor[a].tok
    BY <1>0, <1>1, AtPc
  <2>2. LocalsOK(q)
    BY <1>0, <2>1, RequestMovesOK
  <2>. QED
    BY <1>0, <1>1, <2>1, <2>2, QuietMovesOK
<1>2. CASE Set(a, Rested) /\ \E kind \in {"403", "511"} : last' = [NoAnswer EXCEPT !.kind = kind]
  BY <1>2, RestEffect, RepliesOK DEF Rests
<1>. QED
  BY <1>1, <1>2 DEF OtpOutcome

LEMMA ServeForcedEffect ==
    ASSUME Types, NEW a \in Actors, ServeForced(a)
    PROVE  Rests(a) /\ Replies
<1>1. actor[a].sub.forced \in Int
  <2>1. actor[a].sub \in Records
    BY DEF Types, ServeForced, LocalsOK
  <2>. QED
    BY <2>1, ProvisioningAssumption DEF ServeForced, IsForced, Records, ForcedValues
<1>2. last' = [NoAnswer EXCEPT !.kind = "disabled", !.version = actor[a].sub.forced] /\ Set(a, Rested)
  BY DEF ServeForced
<1>3. last' \in Answers /\ last'.kind = "disabled"
  BY <1>1, <1>2, RefusalOK
<1>. QED
  BY <1>2, <1>3, RestEffect DEF Rests, Replies

LEMMA ServeUnchangedEffect ==
    ASSUME Types, NEW a \in Actors, ServeUnchanged(a)
    PROVE  Rests(a) /\ Replies
<1>1. actor[a].sub.version \in Int /\ actor[a].sub.version > 0
  <2>1. actor[a].sub \in Records /\ actor[a].sub.version > 0
    BY DEF Types, ServeUnchanged, Ready, LocalsOK
  <2>. QED
    BY <2>1 DEF Records
<1>2. last' = [NoAnswer EXCEPT !.kind = "unchanged", !.version = actor[a].sub.version] /\ Set(a, Rested)
  BY DEF ServeUnchanged
<1>3. last' \in Answers /\ last'.kind = "unchanged" /\ last'.version = actor[a].sub.version
  BY <1>1, <1>2, RefusalOK
<1>. QED
  BY <1>1, <1>2, <1>3, RestEffect DEF Rests, Replies

LEMMA RepairVersionEffect ==
    ASSUME Types, NEW a \in Actors, RepairVersion(a)
    PROVE  /\ Moves(a, "serve") /\ actor[a].sub \in Records
           /\ sub' \in Records /\ sub' = actor'[a].sub
           /\ sub'.forced = None /\ actor[a].sub.forced = None
           /\ sub'.version > actor[a].sub.version /\ sub'.secret = actor[a].sub.secret
           /\ clobbered' = (clobbered \/ sub # actor[a].sub)
<1>0. /\ actor[a] \in Locals /\ LocalsOK(actor[a]) /\ actor[a].pc = "serve" /\ actor[a].sub \in Records
      /\ actor[a].sub.forced = None /\ actor[a].sub.version <= 0 /\ tokens' = tokens
  BY DEF Types, RepairVersion, LocalsOK, IsForced
<1>1. PICK s : /\ s = [actor[a].sub EXCEPT !.version = NextVersion(actor[a].sub.version)]
               /\ Put(a, s) /\ Set(a, [actor[a] EXCEPT !.sub = s])
  BY DEF RepairVersion
<1>2. NextVersion(actor[a].sub.version) = 1 /\ 1 \in 0 .. MAX_VERSION /\ actor[a].sub.version = 0
  BY <1>0, ProvisioningAssumption DEF NextVersion, Records
<1>3. s \in Records /\ s.version = 1 /\ s.forced = None /\ s.secret = actor[a].sub.secret
  BY <1>0, <1>1, <1>2 DEF Records
<1>4. PICK q : q = [actor[a] EXCEPT !.sub = s] /\ Set(a, q)
  BY <1>1
<1>5. Kept(actor[a], q) /\ q.pc = actor[a].pc /\ q.sub = s /\ q.list = actor[a].list /\ q.tok = actor[a].tok
  BY <1>0, <1>3, <1>4 DEF Locals, Kept
<1>6. LocalsOK(q)
  BY <1>0, <1>3, <1>5, RequestMovesOK
<1>7. Moves(a, "serve") /\ actor'[a] = q
  BY <1>0, <1>4, <1>5, <1>6, QuietMovesOK
<1>8. sub' = s /\ clobbered' = (clobbered \/ sub # actor[a].sub)
  BY <1>1 DEF Put
<1>9. sub'.version > actor[a].sub.version
  BY <1>2, <1>3, <1>8
<1>. QED
  BY <1>0, <1>3, <1>5, <1>7, <1>8, <1>9

LEMMA IssueTokenEffect ==
    ASSUME Types, NEW a \in Actors, IssueToken(a)
    PROVE  /\ Moves(a, "secret") /\ actor'[a].sub = actor[a].sub
           /\ \E t \in Tokens : Mint(t)
<1>0. /\ actor[a] \in Locals /\ LocalsOK(actor[a]) /\ actor[a].pc = "serve" /\ actor[a].sub \in Records
      /\ actor[a].sub.forced = None /\ actor[a].sub.version > 0
  BY DEF Types, IssueToken, Ready, LocalsOK, IsForced
<1>1. PICK t \in Tokens : Mint(t) /\ Set(a, [actor[a] EXCEPT !.pc = "secret", !.tok = t])
  BY DEF IssueToken
<1>2. Issued' = Issued \cup {t}
  BY <1>1, MintEffect
<1>3. actor[a].list \subseteq Issued
  BY DEF Types, HeldBy
<1>4. PICK q : q = [actor[a] EXCEPT !.pc = "secret", !.tok = t] /\ Set(a, q)
  BY <1>1
<1>5. Kept(actor[a], q) /\ q.pc = "secret" /\ q.sub = actor[a].sub /\ q.list = actor[a].list /\ q.tok = t
  BY <1>0, <1>4 DEF Locals, Kept
<1>6. LocalsOK(q)
  BY <1>0, <1>5, NoneAssumption, RequestMovesOK
<1>7. Moves(a, "secret") /\ actor'[a] = q
  <2>1. /\ Issued \subseteq Issued' /\ q.list \subseteq Issued' /\ q.tok \in Issued' \cup {None}
        /\ Set(a, q)
    BY <1>2, <1>3, <1>4, <1>5
  <2>. QED
    BY <1>5, <1>6, <2>1, MovesOK
<1>. QED
  BY <1>1, <1>5, <1>7

LEMMA DrawSecretEffect ==
    ASSUME Types, NEW a \in Actors, DrawSecret(a)
    PROVE  /\ Moves(a, "document") /\ actor[a].sub \in Records
           /\ sub' \in Records /\ sub' = actor'[a].sub
           /\ sub'.forced = None /\ actor[a].sub.forced = None
           /\ sub'.version = actor[a].sub.version /\ sub'.secret \in 0 .. N_SECRETS
           /\ clobbered' = (clobbered \/ sub # actor[a].sub)
           /\ drawn' \in 0 .. N_SECRETS
<1>0. /\ actor[a] \in Locals /\ LocalsOK(actor[a]) /\ actor[a].pc = "secret" /\ actor[a].sub \in Records
      /\ actor[a].sub.forced = None /\ actor[a].sub.version > 0 /\ actor[a].tok # None /\ tokens' = tokens
  BY DEF Types, DrawSecret, LocalsOK
<1>1. PICK s : /\ s = [actor[a].sub EXCEPT !.secret = drawn + 1]
               /\ Put(a, s) /\ Set(a, [actor[a] EXCEPT !.pc = "document", !.sub = s])
  BY DEF DrawSecret
<1>2. drawn + 1 \in 0 .. N_SECRETS /\ drawn' = drawn + 1
  BY ProvisioningAssumption DEF DrawSecret, Types
<1>3. s \in Records /\ s.version = actor[a].sub.version /\ s.forced = None /\ s.secret \in 0 .. N_SECRETS
  BY <1>0, <1>1, <1>2 DEF Records
<1>4. PICK q : q = [actor[a] EXCEPT !.pc = "document", !.sub = s] /\ Set(a, q)
  BY <1>1
<1>5. Kept(actor[a], q) /\ q.pc = "document" /\ q.sub = s /\ q.list = actor[a].list /\ q.tok = actor[a].tok
  BY <1>0, <1>3, <1>4 DEF Locals, Kept
<1>6. LocalsOK(q)
  BY <1>0, <1>3, <1>5, RequestMovesOK
<1>7. Moves(a, "document") /\ actor'[a] = q
  BY <1>0, <1>4, <1>5, <1>6, QuietMovesOK
<1>8. sub' = s /\ clobbered' = (clobbered \/ sub # actor[a].sub)
  BY <1>1 DEF Put
<1>. QED
  BY <1>0, <1>2, <1>3, <1>5, <1>7, <1>8

LEMMA HasSecretEffect ==
    ASSUME Types, NEW a \in Actors, HasSecret(a)
    PROVE  Moves(a, "document") /\ actor'[a].sub = actor[a].sub
<1>0. /\ actor[a] \in Locals /\ LocalsOK(actor[a]) /\ actor[a].pc = "secret" /\ actor[a].sub \in Records
      /\ actor[a].sub.forced = None /\ actor[a].sub.version > 0 /\ actor[a].tok # None /\ tokens' = tokens
  BY DEF Types, HasSecret, LocalsOK, Quiet, store
<1>1. PICK q : q = [actor[a] EXCEPT !.pc = "document"] /\ Set(a, q)
  BY DEF HasSecret
<1>2. Kept(actor[a], q) /\ q.pc = "document" /\ q.sub = actor[a].sub /\ q.list = actor[a].list /\ q.tok = actor[a].tok
  BY <1>0, <1>1, AtPc
<1>3. LocalsOK(q)
  BY <1>0, <1>2, RequestMovesOK
<1>. QED
  BY <1>0, <1>1, <1>2, <1>3, QuietMovesOK

LEMMA ServeDocumentEffect ==
    ASSUME Types, NEW a \in Actors, ServeDocument(a)
    PROVE  /\ Rests(a) /\ last' \in Answers /\ last'.kind = "served"
           /\ last'.version = actor[a].sub.version /\ last'.version > 0
           /\ last'.secret = actor[a].sub.secret
           /\ last'.late = actor[a].late /\ last'.token \in Issued
<1>0. /\ actor[a] \in Locals /\ actor[a].sub \in Records /\ actor[a].sub.version > 0
      /\ actor[a].tok \in Issued
  BY DEF Types, ServeDocument, LocalsOK, HeldBy
<1>1. /\ actor[a].late \in BOOLEAN /\ actor[a].tok \in Tokens \cup {None}
      /\ actor[a].sub.version \in Int /\ actor[a].sub.secret \in 0 .. N_SECRETS
  BY <1>0 DEF Locals, Records
<1>2. last' = [kind |-> "served", version |-> actor[a].sub.version,
               secret |-> actor[a].sub.secret, token |-> actor[a].tok, late |-> actor[a].late]
  BY DEF ServeDocument
<1>3. last' \in Answers
  BY <1>1, <1>2 DEF Answers
<1>4. Rests(a)
  BY RestEffect DEF ServeDocument, Rests
<1>. QED
  BY <1>0, <1>2, <1>3, <1>4

\* A new call lifts what stands at most, in barred and in the others' locals.
LEMMA StartOpEffect ==
    ASSUME Types, NEW a \in Actors, StartOp(a)
    PROVE  /\ actor' \in [Actors -> Locals] /\ \A b \in Actors : LocalsOK(actor'[b]) /\ HeldBy(b)'
           /\ actor'[a].pc = "load" /\ actor'[a].op \in Calls
           /\ actor'[a].before = indexed /\ ~actor'[a].late
           /\ \A b \in Actors \ {a} :
                 /\ actor'[b].pc = actor[b].pc /\ actor'[b].op = actor[b].op
                 /\ actor'[b].sub = actor[b].sub /\ actor'[b].list = actor[b].list
                 /\ actor'[b].before = actor[b].before
                 /\ actor'[b].late => actor[b].late
                 /\ actor'[a].op \in Lifters => ~actor'[b].late
                 /\ actor'[a].op \notin Lifters => actor'[b].late = actor[b].late
           /\ barred' \in BOOLEAN /\ (barred' => barred)
           /\ actor'[a].op \in Lifters => ~barred'
           /\ actor'[a].op \notin Lifters => barred' = barred
<1>1. PICK ask \in Asks :
         /\ ask.op \in workload.calls
         /\ barred' = (barred /\ ~(ask.op \in Lifters))
         /\ actor' = [b \in Actors |->
               IF b = a THEN [Rested EXCEPT !.pc = "load", !.op = ask.op, !.arg = ask, !.before = indexed]
               ELSE [actor[b] EXCEPT !.late = @ /\ ~(ask.op \in Lifters)]]
  BY DEF StartOp
<1>2. ask.op \in Calls
  BY <1>1, ProvisioningAssumption DEF Types
<1>3. barred \in BOOLEAN /\ actor \in [Actors -> Locals] /\ indexed \subseteq Tokens
  BY DEF Types, Issued
<1>4. ASSUME NEW r \in Locals, NEW q, q = [r EXCEPT !.pc = "load", !.op = ask.op, !.arg = ask, !.before = indexed]
      PROVE  /\ q \in Locals /\ q.pc = "load" /\ q.op = ask.op /\ q.arg = ask /\ q.before = indexed
             /\ q.late = r.late /\ q.list = r.list /\ q.tok = r.tok
  BY <1>2, <1>3, <1>4 DEF Locals
<1>5. Rested \in Locals
  BY RestedOK DEF LocalsOK
<1>6. PICK q : q = [Rested EXCEPT !.pc = "load", !.op = ask.op, !.arg = ask, !.before = indexed]
  OBVIOUS
<1>7. /\ q \in Locals /\ q.pc = "load" /\ q.op = ask.op /\ q.arg = ask /\ q.before = indexed
      /\ q.late = Rested.late /\ q.list = Rested.list /\ q.tok = Rested.tok
  BY <1>4, <1>5, <1>6
<1>8. LocalsOK(q)
  BY <1>2, <1>7 DEF LocalsOK
<1>9. actor'[a] = q
  BY <1>1, <1>6
<1>10. ASSUME NEW b \in Actors \ {a}
       PROVE  /\ actor'[b] \in Locals
              /\ actor'[b].pc = actor[b].pc /\ actor'[b].op = actor[b].op
              /\ actor'[b].sub = actor[b].sub /\ actor'[b].list = actor[b].list
              /\ actor'[b].before = actor[b].before /\ actor'[b].arg = actor[b].arg /\ actor'[b].tok = actor[b].tok
              /\ actor'[b].late = (actor[b].late /\ ~(ask.op \in Lifters))
              /\ LocalsOK(actor'[b])
  <2>1. actor'[b] = [actor[b] EXCEPT !.late = actor[b].late /\ ~(ask.op \in Lifters)]
    BY <1>1
  <2>2. actor[b] \in Locals /\ actor[b].late \in BOOLEAN
    BY <1>3 DEF Locals
  <2>. DEFINE l == actor[b].late /\ ~(ask.op \in Lifters)
  <2>3. l \in BOOLEAN
    OBVIOUS
  <2>4. actor[b].late = FALSE => l = FALSE
    OBVIOUS
  <2>5. actor'[b] = [actor[b] EXCEPT !.late = l]
    BY <2>1
  <2>. HIDE DEF l
  <2>6. /\ actor'[b] \in Locals
        /\ actor'[b].pc = actor[b].pc /\ actor'[b].op = actor[b].op
        /\ actor'[b].sub = actor[b].sub /\ actor'[b].list = actor[b].list
        /\ actor'[b].before = actor[b].before /\ actor'[b].arg = actor[b].arg /\ actor'[b].tok = actor[b].tok
        /\ actor'[b].late = l
    BY <2>2, <2>3, <2>5 DEF Locals
  <2>7. actor[b] = Rested => actor'[b] = actor[b]
    <3>1. ASSUME NEW r \in Locals, r.late = l PROVE [r EXCEPT !.late = l] = r
      BY <3>1 DEF Locals
    <3>. QED
      BY <2>2, <2>4, <2>5, <3>1, RestedFields
  <2>8. LocalsOK(actor[b])
    BY DEF Types
  <2>9. LocalsOK(actor'[b])
    BY <2>6, <2>7, <2>8 DEF LocalsOK
  <2>. QED
    BY <2>6, <2>9 DEF l
<1>11. actor' \in [Actors -> Locals]
  <2>1. \A b \in Actors : actor'[b] \in Locals
    BY <1>7, <1>9, <1>10
  <2>2. actor' = [b \in Actors |-> actor'[b]]
    BY <1>1
  <2>. QED
    BY <2>1, <2>2
<1>12. ~actor'[a].late
  BY <1>7, <1>9, RestedFields
<1>13. /\ barred' \in BOOLEAN /\ (barred' => barred)
       /\ actor'[a].op \in Lifters => ~barred'
       /\ actor'[a].op \notin Lifters => barred' = barred
  <2>1. actor'[a].op = ask.op
    BY <1>7, <1>9
  <2>. QED
    BY <1>1, <1>3, <2>1
<1>14. ASSUME NEW b \in Actors \ {a}
       PROVE  /\ actor'[b].late => actor[b].late
              /\ actor'[a].op \in Lifters => ~actor'[b].late
              /\ actor'[a].op \notin Lifters => actor'[b].late = actor[b].late
  <2>1. actor'[a].op = ask.op /\ actor[b].late \in BOOLEAN
    BY <1>3, <1>7, <1>9 DEF Locals
  <2>2. actor'[b].late = (actor[b].late /\ ~(ask.op \in Lifters))
    BY <1>10
  <2>. QED
    BY <2>1, <2>2
<1>15. LocalsOK(actor'[a]) /\ actor'[a].pc = "load" /\ actor'[a].op \in Calls /\ actor'[a].before = indexed
  BY <1>2, <1>7, <1>8, <1>9
<1>16. ASSUME NEW b \in Actors PROVE LocalsOK(actor'[b]) /\ HeldBy(b)'
  <2>1. Issued' = Issued /\ indexed \subseteq Issued /\ HeldBy(b)
    BY DEF Types, StartOp, store, Issued
  <2>2. CASE b = a
    BY <1>7, <1>8, <1>9, <2>1, <2>2, RestedFields DEF HeldBy
  <2>3. CASE b # a
    BY <1>10, <2>1, <2>3 DEF HeldBy
  <2>. QED
    BY <2>2, <2>3
<1>. QED
  BY <1>10, <1>11, <1>12, <1>13, <1>14, <1>15, <1>16

LEMMA LoadEffect ==
    ASSUME Types, NEW a \in Actors, Load(a)
    PROVE  \/ Rests(a)
           \/ /\ Moves(a, "write") \/ Moves(a, "query") \/ Moves(a, "mint")
              /\ Moves(a, "query") => actor[a].op \in {"revoke", "delete"}
              /\ actor'[a].sub = sub
<1>0. /\ actor[a] \in Locals /\ LocalsOK(actor[a]) /\ actor[a].pc = "load" /\ actor[a].op \in Calls
      /\ sub \in Records \cup {None} /\ tokens' = tokens
  BY DEF Types, Load, LocalsOK, Quiet, store
<1>1. CASE Refused(actor[a].op)
  BY <1>1, RestEffect DEF Load, Rests
<1>2. CASE ~Refused(actor[a].op)
  <2>. DEFINE p == IF actor[a].op \in Writers THEN "write" ELSE IF actor[a].op \in Revokers THEN "query" ELSE "mint"
  <2>1. PICK q : q = [actor[a] EXCEPT !.pc = p, !.sub = sub] /\ Set(a, q)
    BY <1>2 DEF Load
  <2>2. /\ p \in {"write", "query", "mint"}
        /\ p = "write" => actor[a].op \in Writers
        /\ p = "query" => actor[a].op \in Revokers
        /\ p # "write" => actor[a].op \notin Writers
    OBVIOUS
  <2>. HIDE DEF p
  <2>3. Kept(actor[a], q) /\ q.pc = p /\ q.sub = sub /\ q.list = actor[a].list /\ q.tok = actor[a].tok
    BY <1>0, <2>1, <2>2 DEF Locals, Kept
  <2>4. /\ actor[a].op = "create" => sub = None
        /\ actor[a].op \notin {"put", "create"} => sub \in Records
    BY <1>0, <1>2 DEF Refused
  <2>5. LocalsOK(q)
    BY <1>0, <2>2, <2>3, <2>4 DEF LocalsOK, Kept, Writers
  <2>6. Moves(a, p) /\ actor'[a] = q
    BY <1>0, <2>1, <2>3, <2>5, QuietMovesOK
  <2>. QED
    BY <2>2, <2>3, <2>6 DEF Moves, Writers, Revokers
<1>. QED
  BY <1>1, <1>2

\* The record that an operator call writes.
LEMMA WriteBackEffect ==
    ASSUME Types, NEW a \in Actors, WriteBack(a)
    PROVE  /\ sub' \in Records /\ sub' = Changed(actor[a].arg, actor[a].sub)
           /\ actor[a].op = actor[a].arg.op /\ actor[a].op \in Writers
           /\ actor[a].op = "create" => actor[a].sub = None
           /\ actor[a].op \in {"update", "override", "disable"} => sub'.version = actor[a].sub.version
           /\ actor[a].op \in {"invalidate", "enable"} => sub'.version > actor[a].sub.version
           /\ actor[a].op = "override" => sub' = actor[a].sub
           /\ actor[a].op = "disable" => sub'.forced # None
           /\ clobbered' = (clobbered \/ sub # actor[a].sub)
           /\ IF actor[a].op = "disable"
              THEN /\ OnlyActor(a) /\ LocalsOK(actor'[a]) /\ HeldBy(a)' /\ actor'[a].pc = "query"
                   /\ actor'[a].op = "disable" /\ actor'[a].before = actor[a].before
                   /\ actor'[a].late = (\A b \in Actors : actor[b].op \notin Lifters)
              ELSE Rests(a)
<1>0. /\ actor[a] \in Locals /\ LocalsOK(actor[a]) /\ actor[a].pc = "write"
  BY DEF Types, WriteBack
<1>1. /\ actor[a].arg \in Asks /\ actor[a].arg.op = actor[a].op /\ actor[a].op \in Writers
      /\ actor[a].sub \in Records \cup {None}
      /\ actor[a].op = "create" => actor[a].sub = None
      /\ actor[a].op \notin {"put", "create"} => actor[a].sub \in Records
  BY <1>0 DEF LocalsOK, Locals
<1>2. /\ sub' = Changed(actor[a].arg, actor[a].sub)
      /\ Changed(actor[a].arg, actor[a].sub).version <= MAX_VERSION
      /\ clobbered' = (clobbered \/ sub # actor[a].sub)
  BY DEF WriteBack, Put
<1>3. /\ sub' \in Records
      /\ actor[a].op \in {"update", "override", "disable"} => sub'.version = actor[a].sub.version
      /\ actor[a].op \in {"invalidate", "enable"} => sub'.version > actor[a].sub.version
      /\ actor[a].op = "override" => sub' = actor[a].sub
      /\ actor[a].op = "disable" => sub'.forced # None
  BY <1>1, <1>2, ChangedOK
<1>4. CASE actor[a].op = "disable"
  <2>. DEFINE l == \A b \in Actors : actor[b].op \notin Lifters
  <2>1. l \in BOOLEAN
    OBVIOUS
  <2>2. PICK q : q = [actor[a] EXCEPT !.pc = "query", !.late = l] /\ Set(a, q)
    BY <1>4 DEF WriteBack
  <2>. HIDE DEF l
  <2>3. /\ q \in Locals /\ q.pc = "query" /\ q.op = actor[a].op /\ q.before = actor[a].before /\ q.late = l
        /\ q.list = actor[a].list /\ q.tok = actor[a].tok
    BY <1>0, <2>1, <2>2 DEF Locals
  <2>4. LocalsOK(q)
    BY <1>4, <2>3 DEF LocalsOK, Calls, Writers, Revokers
  <2>5. OnlyActor(a) /\ actor'[a] = q
    BY <2>2, <2>3, SetEffect
  <2>6. Issued' = Issued /\ HeldBy(a)
    BY DEF WriteBack, Issued, Types
  <2>7. HeldBy(a)'
    BY <2>3, <2>5, <2>6 DEF HeldBy
  <2>. QED
    BY <1>1, <1>2, <1>3, <1>4, <2>3, <2>4, <2>5, <2>7 DEF l
<1>5. CASE actor[a].op # "disable"
  <2>1. Rests(a)
    BY <1>5, RestEffect DEF WriteBack, Rests
  <2>. QED
    BY <1>1, <1>2, <1>3, <1>5, <2>1
<1>. QED
  BY <1>4, <1>5

LEMMA QueryTokensEffect ==
    ASSUME Types, NEW a \in Actors, QueryTokens(a)
    PROVE  Moves(a, "revoke") /\ actor'[a].sub = actor[a].sub /\ actor'[a].list = Oldest \cap Active
<1>0. /\ actor[a] \in Locals /\ LocalsOK(actor[a]) /\ actor[a].pc = "query" /\ tokens' = tokens
      /\ actor[a].tok \in Issued \cup {None}
  BY DEF Types, QueryTokens, Quiet, store, HeldBy
<1>1. Issued' = Issued /\ Active \subseteq Issued /\ Oldest \cap Active \in SUBSET Tokens
  BY <1>0 DEF Active, Issued
<1>2. PICK l \in SUBSET Tokens : l = Oldest \cap Active /\ Set(a, [actor[a] EXCEPT !.pc = "revoke", !.list = l])
  BY <1>1 DEF QueryTokens
<1>3. PICK q : q = [actor[a] EXCEPT !.pc = "revoke", !.list = l] /\ Set(a, q)
  BY <1>2
<1>4. Kept(actor[a], q) /\ q.pc = "revoke" /\ q.sub = actor[a].sub /\ q.list = l /\ q.tok = actor[a].tok
  BY <1>0, <1>3 DEF Locals, Kept
<1>5. LocalsOK(q)
  BY <1>0, <1>4 DEF LocalsOK, Kept
<1>6. Moves(a, "revoke") /\ actor'[a] = q
  BY <1>0, <1>1, <1>2, <1>3, <1>4, <1>5, MovesOK
<1>. QED
  BY <1>2, <1>4, <1>6

LEMMA MinOK == ASSUME NEW S \in SUBSET Nat, S # {} PROVE Min(S) \in S
<1>. DEFINE R == {ss \in Nat \X Nat : ss[1] < ss[2]}
<1>1. IsWellFoundedOn(R, Nat)
  BY NatLessThanWellFounded DEF OpToRel
<1>2. PICK x \in S : \A y \in S : ~(<<y, x>> \in R)
  <2>. HIDE DEF R
  <2>. QED
    BY <1>1, WFMin
<1>3. ASSUME NEW y \in S PROVE x <= y
  <2>1. x \in Nat /\ y \in Nat
    OBVIOUS
  <2>2. ~(<<y, x>> \in R)
    BY <1>2
  <2>3. ~(y < x)
    BY <2>1, <2>2
  <2>. QED
    BY <2>1, <2>3
<1>. QED
  BY <1>3 DEF Min

\* The token that is revoked leaves the list and the active ones, and stays issued.
LEMMA RevokeOneEffect ==
    ASSUME Types, NEW a \in Actors, RevokeOne(a)
    PROVE  /\ Moves(a, "revoke") /\ actor'[a].sub = actor[a].sub
           /\ tokens' \in [Tokens -> {"unused", "active", "revoked"}]
           /\ \E t \in Issued : /\ actor'[a].list = actor[a].list \ {t}
                                /\ Active' = Active \ {t}
           /\ Issued' = Issued
<1>0. /\ actor[a] \in Locals /\ LocalsOK(actor[a]) /\ actor[a].pc = "revoke"
      /\ actor[a].list \subseteq Issued /\ actor[a].list # {} /\ actor[a].tok \in Issued \cup {None}
  BY DEF Types, RevokeOne, HeldBy
<1>1. PICK t : /\ t = Min(actor[a].list) /\ tokens' = [tokens EXCEPT ![t] = "revoked"]
               /\ Set(a, [actor[a] EXCEPT !.list = @ \ {t}])
  BY DEF RevokeOne
<1>2. PICK l \in SUBSET Tokens : l = actor[a].list \ {t} /\ Set(a, [actor[a] EXCEPT !.list = l])
  BY <1>0, <1>1 DEF Locals
<1>3. PICK q : q = [actor[a] EXCEPT !.list = l] /\ Set(a, q)
  BY <1>2
<1>4. /\ Kept(actor[a], q) /\ q.pc = "revoke" /\ q.sub = actor[a].sub /\ q.list = l
      /\ q.tok = actor[a].tok
  BY <1>0, <1>3 DEF Locals, Kept
<1>5. LocalsOK(q)
  BY <1>0, <1>4 DEF LocalsOK, Kept
<1>6. tokens \in [Tokens -> {"unused", "active", "revoked"}]
  BY DEF Types
<1>7. actor[a].list \in SUBSET Nat
  BY <1>0, ProvisioningAssumption DEF Issued, Tokens
<1>8. t \in Issued
  BY <1>0, <1>1, <1>7, MinOK
<1>9. tokens' \in [Tokens -> {"unused", "active", "revoked"}] /\ Active' = Active \ {t} /\ Issued' = Issued
  BY <1>1, <1>6, <1>8 DEF Active, Issued
<1>10. Moves(a, "revoke") /\ actor'[a] = q
  <2>1. /\ Issued \subseteq Issued' /\ q.list \subseteq Issued' /\ q.tok \in Issued' \cup {None}
        /\ Set(a, q)
    BY <1>0, <1>2, <1>3, <1>4, <1>9
  <2>. QED
    BY <1>4, <1>5, <2>1, MovesOK
<1>. QED
  BY <1>2, <1>4, <1>8, <1>9, <1>10

-----------------------------------------------------------------------------
(* Types is inductive.                                                       *)

LEMMA TypesInit == Init => Types
<1>. SUFFICES ASSUME Init PROVE Types
  OBVIOUS
<1>1. sub \in Records \cup {None} /\ drawn \in 0 .. N_SECRETS /\ workload \in Workloads
  BY NewSubscriberOK, ProvisioningAssumption DEF Init
<1>2. tokens \in [Tokens -> {"unused", "active", "revoked"}] /\ Issued = {}
  BY DEF Init, Issued
<1>3. indexed \subseteq Issued
  BY DEF Init
<1>4. Issued = 1 .. 0
  BY <1>2
<1>5. actor \in [Actors -> Locals] /\ \A a \in Actors : LocalsOK(actor[a])
  BY RestedOK DEF Init, LocalsOK
<1>6. \A a \in Actors : HeldBy(a)
  BY <1>2, RestedFields DEF Init, HeldBy
<1>7. last \in Answers /\ last.kind = "none"
  <2>1. 0 \in 0 .. N_SECRETS /\ 0 \in Int /\ FALSE \in BOOLEAN /\ None \in Tokens \cup {None}
    BY ProvisioningAssumption
  <2>2. NoAnswer \in Answers
    BY <2>1, Zenon DEF Answers, NoAnswer
  <2>. QED
    BY <2>2 DEF Init, NoAnswer
<1>8. barred \in BOOLEAN /\ clobbered \in BOOLEAN
  BY DEF Init
<1>9. \E n \in Nat : Issued = 1 .. n
  BY <1>4
<1>. QED
  BY <1>1, <1>2, <1>3, <1>5, <1>6, <1>7, <1>8, <1>9 DEF Types

\* The actors other than a hold what they held.
LEMMA ActorsOK ==
    ASSUME Types, NEW a \in Actors, OnlyActor(a), LocalsOK(actor'[a]), HeldBy(a)', Issued \subseteq Issued'
    PROVE  /\ actor' \in [Actors -> Locals]
           /\ \A b \in Actors : LocalsOK(actor'[b]) /\ HeldBy(b)'
<1>. SUFFICES ASSUME NEW b \in Actors, b # a PROVE LocalsOK(actor'[b]) /\ HeldBy(b)'
  BY DEF OnlyActor
<1>1. actor'[b] = actor[b] /\ LocalsOK(actor[b]) /\ HeldBy(b)
  BY DEF OnlyActor, Types
<1>. QED
  BY <1>1 DEF HeldBy

\* A step that touches no token.
LEMMA QuietTypes ==
    ASSUME Types, NEW a \in Actors, OnlyActor(a), LocalsOK(actor'[a]), HeldBy(a)',
           UNCHANGED <<tokens, indexed, workload>>,
           sub' \in Records \cup {None}, drawn' \in 0 .. N_SECRETS,
           last' = last \/ Replies, barred' \in BOOLEAN, clobbered' \in BOOLEAN
    PROVE  Types'
<1>1. Issued' = Issued
  BY DEF Issued
<1>2. actor' \in [Actors -> Locals] /\ \A b \in Actors : LocalsOK(actor'[b]) /\ HeldBy(b)'
  BY <1>1, ActorsOK
<1>3. /\ last' \in Answers
      /\ last'.kind \in {"served", "unchanged"} => last'.version > 0
      /\ last'.kind = "served" => last'.token \in Issued'
  BY <1>1 DEF Types, Replies
<1>. QED
  BY <1>1, <1>2, <1>3 DEF Types

\* A step that issues a token.
LEMMA MintTypes ==
    ASSUME Types, NEW a \in Actors, OnlyActor(a), LocalsOK(actor'[a]), HeldBy(a)',
           NEW t \in Tokens, Mint(t), UNCHANGED <<sub, drawn, last, barred, clobbered, workload>>
    PROVE  Types'
<1>1. /\ tokens' \in [Tokens -> {"unused", "active", "revoked"}]
      /\ Issued \subseteq Issued'
      /\ \E n \in Nat : Issued' = 1 .. n
      /\ indexed' \subseteq Issued'
  BY MintEffect
<1>2. actor' \in [Actors -> Locals] /\ \A b \in Actors : LocalsOK(actor'[b]) /\ HeldBy(b)'
  BY <1>1, ActorsOK
<1>. QED
  BY <1>1, <1>2 DEF Types

LEMMA TypesStep == Types /\ [Next]_vars => Types'
<1>. SUFFICES ASSUME Types, [Next]_vars PROVE Types'
  OBVIOUS
<1>0. /\ sub \in Records \cup {None} /\ drawn \in 0 .. N_SECRETS
      /\ barred \in BOOLEAN /\ clobbered \in BOOLEAN
  BY DEF Types
<1>1. ASSUME NEW a \in Actors, StartConfig(a) PROVE Types'
  <2>1. OnlyActor(a) /\ LocalsOK(actor'[a]) /\ HeldBy(a)'
    BY <1>1, StartConfigEffect
  <2>. QED
    BY <1>0, <1>1, <2>1, QuietTypes DEF StartConfig, Quiet, store
<1>2. ASSUME NEW a \in Actors, VerifyToken(a) PROVE Types'
  <2>1. OnlyActor(a) /\ LocalsOK(actor'[a]) /\ HeldBy(a)' /\ (last' = last \/ Replies)
    BY <1>2, VerifyTokenEffect DEF Moves, Rests
  <2>. QED
    BY <1>0, <1>2, <2>1, QuietTypes DEF VerifyToken, store
<1>3. ASSUME NEW a \in Actors, Identify(a) PROVE Types'
  <2>1. OnlyActor(a) /\ LocalsOK(actor'[a]) /\ HeldBy(a)' /\ (last' = last \/ Replies)
    BY <1>3, IdentifyEffect DEF Moves, Rests
  <2>. QED
    BY <1>0, <1>3, <2>1, QuietTypes DEF Identify, store
<1>4. ASSUME NEW a \in Actors, OtpOutcome(a) PROVE Types'
  <2>1. OnlyActor(a) /\ LocalsOK(actor'[a]) /\ HeldBy(a)' /\ (last' = last \/ Replies)
    BY <1>4, OtpOutcomeEffect DEF Moves, Rests
  <2>. QED
    BY <1>0, <1>4, <2>1, QuietTypes DEF OtpOutcome, store
<1>5. ASSUME NEW a \in Actors, ServeForced(a) PROVE Types'
  <2>1. OnlyActor(a) /\ LocalsOK(actor'[a]) /\ HeldBy(a)' /\ Replies
    BY <1>5, ServeForcedEffect DEF Rests
  <2>. QED
    BY <1>0, <1>5, <2>1, QuietTypes DEF ServeForced, store
<1>6. ASSUME NEW a \in Actors, RepairVersion(a) PROVE Types'
  <2>1. /\ OnlyActor(a) /\ LocalsOK(actor'[a]) /\ HeldBy(a)' /\ sub' \in Records
        /\ clobbered' \in BOOLEAN
    BY <1>6, RepairVersionEffect DEF Moves
  <2>. QED
    BY <1>0, <1>6, <2>1, QuietTypes DEF RepairVersion
<1>7. ASSUME NEW a \in Actors, ServeUnchanged(a) PROVE Types'
  <2>1. OnlyActor(a) /\ LocalsOK(actor'[a]) /\ HeldBy(a)' /\ Replies
    BY <1>7, ServeUnchangedEffect DEF Rests
  <2>. QED
    BY <1>0, <1>7, <2>1, QuietTypes DEF ServeUnchanged, store
<1>8. ASSUME NEW a \in Actors, IssueToken(a) PROVE Types'
  <2>1. OnlyActor(a) /\ LocalsOK(actor'[a]) /\ HeldBy(a)' /\ \E t \in Tokens : Mint(t)
    BY <1>8, IssueTokenEffect DEF Moves
  <2>. QED
    BY <1>8, <2>1, MintTypes DEF IssueToken
<1>9. ASSUME NEW a \in Actors, DrawSecret(a) PROVE Types'
  <2>1. /\ OnlyActor(a) /\ LocalsOK(actor'[a]) /\ HeldBy(a)' /\ sub' \in Records
        /\ clobbered' \in BOOLEAN /\ drawn' \in 0 .. N_SECRETS
    BY <1>9, DrawSecretEffect DEF Moves
  <2>. QED
    BY <1>0, <1>9, <2>1, QuietTypes DEF DrawSecret
<1>10. ASSUME NEW a \in Actors, HasSecret(a) PROVE Types'
  <2>1. OnlyActor(a) /\ LocalsOK(actor'[a]) /\ HeldBy(a)'
    BY <1>10, HasSecretEffect DEF Moves
  <2>. QED
    BY <1>0, <1>10, <2>1, QuietTypes DEF HasSecret, Quiet, store
<1>11. ASSUME NEW a \in Actors, ServeDocument(a) PROVE Types'
  <2>1. Rests(a) /\ last' \in Answers /\ last'.version > 0 /\ last'.token \in Issued
    BY <1>11, ServeDocumentEffect
  <2>2. Issued' = Issued /\ UNCHANGED <<sub, tokens, indexed, drawn, barred, clobbered, workload>>
    BY <1>11 DEF ServeDocument, store, Issued
  <2>3. actor' \in [Actors -> Locals] /\ \A b \in Actors : LocalsOK(actor'[b]) /\ HeldBy(b)'
    BY <2>1, <2>2, ActorsOK DEF Rests
  <2>. QED
    BY <2>1, <2>2, <2>3 DEF Types
<1>12. ASSUME NEW a \in Actors, StartOp(a) PROVE Types'
  <2>1. /\ actor' \in [Actors -> Locals] /\ \A b \in Actors : LocalsOK(actor'[b]) /\ HeldBy(b)'
        /\ barred' \in BOOLEAN
    BY <1>12, StartOpEffect
  <2>2. Issued' = Issued /\ UNCHANGED <<sub, tokens, indexed, drawn, last, clobbered, workload>>
    BY <1>12 DEF StartOp, store, Issued
  <2>. QED
    BY <2>1, <2>2 DEF Types
<1>13. ASSUME NEW a \in Actors, Load(a) PROVE Types'
  <2>1. OnlyActor(a) /\ LocalsOK(actor'[a]) /\ HeldBy(a)'
    BY <1>13, LoadEffect DEF Moves, Rests
  <2>. QED
    BY <1>0, <1>13, <2>1, QuietTypes DEF Load, Quiet, store
<1>14. ASSUME NEW a \in Actors, WriteBack(a) PROVE Types'
  <2>1. /\ OnlyActor(a) /\ LocalsOK(actor'[a]) /\ HeldBy(a)' /\ sub' \in Records
        /\ clobbered' \in BOOLEAN
    BY <1>14, WriteBackEffect DEF Rests
  <2>. QED
    BY <1>0, <1>14, <2>1, QuietTypes DEF WriteBack
<1>15. ASSUME NEW a \in Actors, OperatorToken(a) PROVE Types'
  <2>1. Rests(a)
    BY <1>15, RestEffect DEF OperatorToken, Rests
  <2>. QED
    BY <1>15, <2>1, MintTypes DEF OperatorToken, Rests
<1>16. ASSUME NEW a \in Actors, QueryTokens(a) PROVE Types'
  <2>1. OnlyActor(a) /\ LocalsOK(actor'[a]) /\ HeldBy(a)'
    BY <1>16, QueryTokensEffect DEF Moves
  <2>. QED
    BY <1>0, <1>16, <2>1, QuietTypes DEF QueryTokens, Quiet, store
<1>17. ASSUME NEW a \in Actors, RevokeOne(a) PROVE Types'
  <2>1. /\ OnlyActor(a) /\ LocalsOK(actor'[a]) /\ HeldBy(a)' /\ Issued' = Issued
        /\ tokens' \in [Tokens -> {"unused", "active", "revoked"}]
    BY <1>17, RevokeOneEffect DEF Moves
  <2>2. actor' \in [Actors -> Locals] /\ \A b \in Actors : LocalsOK(actor'[b]) /\ HeldBy(b)'
    BY <2>1, ActorsOK
  <2>. QED
    BY <1>17, <2>1, <2>2 DEF Types, RevokeOne
<1>18. ASSUME NEW a \in Actors, FinishRevoke(a) PROVE Types'
  <2>1. Rests(a)
    BY <1>18, RestEffect DEF FinishRevoke, Rests
  <2>2. barred' \in BOOLEAN
    BY <1>18 DEF FinishRevoke
  <2>. QED
    BY <1>0, <1>18, <2>1, <2>2, QuietTypes DEF FinishRevoke, Rests, store
<1>19. ASSUME NEW a \in Actors, Drop(a) PROVE Types'
  <2>1. Rests(a)
    BY <1>19, RestEffect DEF Drop, Rests
  <2>. QED
    BY <1>0, <1>19, <2>1, QuietTypes DEF Drop, Rests
<1>20. ASSUME NEW a \in Actors, Crash(a) PROVE Types'
  <2>1. Rests(a)
    BY <1>20, RestEffect DEF Crash, Rests
  <2>. QED
    BY <1>0, <1>20, <2>1, QuietTypes DEF Crash, Rests, Quiet, store
<1>21. CASE CatchUp
  <2>1. Issued' = Issued /\ indexed' \subseteq Issued' /\ UNCHANGED <<sub, tokens, actor, drawn, last, barred, clobbered, workload>>
    BY <1>21 DEF CatchUp, Issued, Types
  <2>2. \A a \in Actors : HeldBy(a) => HeldBy(a)'
    BY <2>1 DEF HeldBy
  <2>. QED
    BY <2>1, <2>2 DEF Types
<1>22. CASE UNCHANGED vars
  <2>1. Issued' = Issued /\ UNCHANGED <<sub, tokens, indexed, actor, drawn, last, barred, clobbered, workload>>
    BY <1>22 DEF vars, store, Issued
  <2>2. \A a \in Actors : HeldBy(a) => HeldBy(a)'
    BY <2>1 DEF HeldBy
  <2>. QED
    BY <2>1, <2>2 DEF Types
<1>. QED
  BY <1>1, <1>2, <1>3, <1>4, <1>5, <1>6, <1>7, <1>8, <1>9, <1>10, <1>11, <1>12, <1>13, <1>14,
     <1>15, <1>16, <1>17, <1>18, <1>19, <1>20, <1>21, <1>22 DEF Next

\* Every record, token and answer has its type in every reachable state, a served revision
\* is positive and a served document carries a token that was issued (TypeOK).
THEOREM TypesHold == Spec => []TypeOK
<1>1. Types => TypeOK
  BY DEF Types, TypeOK, LocalsOK, Locals, HeldBy
<1>. QED
  BY <1>1, TypesInit, TypesStep, PTL DEF Spec

-----------------------------------------------------------------------------
(* A revocation covers the tokens it set out to revoke.                      *)

\* Below _query_gsi1's limit the query returns every entry of the index.
LEMMA OldestAll == ASSUME Types, N_TOKENS <= LIMIT PROVE Oldest = indexed
<1>. SUFFICES ASSUME NEW t \in indexed
              PROVE  Cardinality({u \in indexed : u <= t}) <= LIMIT
  BY DEF Oldest
<1>. DEFINE S == {u \in indexed : u <= t}
<1>1. S \subseteq 1 .. N_TOKENS
  BY DEF Types, Issued, Tokens
<1>2. IsFiniteSet(1 .. N_TOKENS) /\ Cardinality(1 .. N_TOKENS) = N_TOKENS
  BY ProvisioningAssumption, FS_Interval
<1>. HIDE DEF S
<1>3. IsFiniteSet(S) /\ Cardinality(S) <= N_TOKENS
  BY <1>1, <1>2, FS_Subset
<1>4. Cardinality(S) \in Nat
  BY <1>3, FS_CardinalityType
<1>5. Cardinality(S) <= LIMIT
  BY <1>3, <1>4, ProvisioningAssumption
<1>. QED
  BY <1>5 DEF S

\* A step that leaves a's revocation, if it has one, with the list it needs.
LEMMA ListKept ==
    ASSUME Types, ListCovers, NEW a \in Actors, OnlyActor(a),
           indexed \subseteq indexed', Active' \cap Issued \subseteq Active,
           actor'[a].before \subseteq indexed',
           actor'[a].pc = "revoke" => actor'[a].before \cap Active' \subseteq actor'[a].list
    PROVE  ListCovers'
<1>. SUFFICES ASSUME NEW b \in Actors, b # a
              PROVE  /\ actor'[b].before \subseteq indexed'
                     /\ actor'[b].pc = "revoke" => actor'[b].before \cap Active' \subseteq actor'[b].list
  BY DEF ListCovers
<1>1. actor'[b] = actor[b] /\ actor[b].before \subseteq indexed
  BY DEF OnlyActor, ListCovers
<1>2. indexed \subseteq Issued
  BY DEF Types
<1>3. actor[b].before \cap Active' \subseteq actor[b].before \cap Active
  BY <1>1, <1>2
<1>. QED
  BY <1>1, <1>3 DEF ListCovers

\* A step to any other step of a call, or to its end.
LEMMA ListKeptQuiet ==
    ASSUME Types, ListCovers, NEW a \in Actors, UNCHANGED <<tokens, indexed>>,
           Rests(a) \/ \E p \in (RequestPcs \cup CallPcs) \ {"revoke"} : Moves(a, p)
    PROVE  ListCovers'
<1>1. Active' = Active /\ indexed' = indexed
  BY DEF Active
<1>2. actor[a].before \subseteq indexed
  BY DEF ListCovers
<1>3. OnlyActor(a) /\ actor'[a].before \subseteq indexed' /\ actor'[a].pc # "revoke"
  BY <1>1, <1>2, RestedFields DEF Rests, Moves
<1>. QED
  BY <1>1, <1>3, ListKept

LEMMA ListInit == Init => ListCovers
BY RestedFields DEF Init, ListCovers

LEMMA ListStep ==
    ASSUME N_TOKENS <= LIMIT, Types, ListCovers, [Next]_vars
    PROVE  ListCovers'
<1>1. ASSUME NEW a \in Actors, StartConfig(a) PROVE ListCovers'
  <2>1. OnlyActor(a) /\ actor'[a].before = {} /\ actor'[a].pc # "revoke"
    BY <1>1, StartConfigEffect
  <2>2. Active' = Active /\ indexed' = indexed
    BY <1>1 DEF StartConfig, Quiet, store, Active
  <2>. QED
    BY <2>1, <2>2, ListKept
<1>2. ASSUME NEW a \in Actors, VerifyToken(a) PROVE ListCovers'
  <2>1. Moves(a, "identity") \/ Rests(a)
    BY <1>2, VerifyTokenEffect
  <2>. QED
    BY <1>2, <2>1, ListKeptQuiet DEF VerifyToken, store
<1>3. ASSUME NEW a \in Actors, Identify(a) PROVE ListCovers'
  <2>1. Moves(a, "otp") \/ Moves(a, "serve") \/ Rests(a)
    BY <1>3, IdentifyEffect
  <2>. QED
    BY <1>3, <2>1, ListKeptQuiet DEF Identify, store
<1>4. ASSUME NEW a \in Actors, OtpOutcome(a) PROVE ListCovers'
  <2>1. Moves(a, "serve") \/ Rests(a)
    BY <1>4, OtpOutcomeEffect
  <2>. QED
    BY <1>4, <2>1, ListKeptQuiet DEF OtpOutcome, store
<1>5. ASSUME NEW a \in Actors, ServeForced(a) PROVE ListCovers'
  <2>1. Rests(a)
    BY <1>5, ServeForcedEffect
  <2>. QED
    BY <1>5, <2>1, ListKeptQuiet DEF ServeForced, store
<1>6. ASSUME NEW a \in Actors, RepairVersion(a) PROVE ListCovers'
  <2>1. Moves(a, "serve")
    BY <1>6, RepairVersionEffect
  <2>. QED
    BY <1>6, <2>1, ListKeptQuiet DEF RepairVersion
<1>7. ASSUME NEW a \in Actors, ServeUnchanged(a) PROVE ListCovers'
  <2>1. Rests(a)
    BY <1>7, ServeUnchangedEffect
  <2>. QED
    BY <1>7, <2>1, ListKeptQuiet DEF ServeUnchanged, store
<1>8. ASSUME NEW a \in Actors, IssueToken(a) PROVE ListCovers'
  <2>1. Moves(a, "secret") /\ \E t \in Tokens : Mint(t)
    BY <1>8, IssueTokenEffect
  <2>2. indexed \subseteq indexed' /\ Active' \cap Issued \subseteq Active
    BY <2>1, MintEffect
  <2>3. OnlyActor(a) /\ actor'[a].before \subseteq indexed' /\ actor'[a].pc # "revoke"
    BY <2>1, <2>2 DEF Moves, ListCovers
  <2>. QED
    BY <2>2, <2>3, ListKept
<1>9. ASSUME NEW a \in Actors, DrawSecret(a) PROVE ListCovers'
  <2>1. Moves(a, "document")
    BY <1>9, DrawSecretEffect
  <2>. QED
    BY <1>9, <2>1, ListKeptQuiet DEF DrawSecret
<1>10. ASSUME NEW a \in Actors, HasSecret(a) PROVE ListCovers'
  <2>1. Moves(a, "document")
    BY <1>10, HasSecretEffect
  <2>. QED
    BY <1>10, <2>1, ListKeptQuiet DEF HasSecret, Quiet, store
<1>11. ASSUME NEW a \in Actors, ServeDocument(a) PROVE ListCovers'
  <2>1. Rests(a)
    BY <1>11, ServeDocumentEffect
  <2>. QED
    BY <1>11, <2>1, ListKeptQuiet DEF ServeDocument, store
<1>12. ASSUME NEW a \in Actors, StartOp(a) PROVE ListCovers'
  <2>1. actor'[a].pc = "load" /\ actor'[a].before = indexed
    BY <1>12, StartOpEffect
  <2>2. \A b \in Actors \ {a} : /\ actor'[b].pc = actor[b].pc /\ actor'[b].list = actor[b].list
                                /\ actor'[b].before = actor[b].before
    BY <1>12, StartOpEffect
  <2>3. Active' = Active /\ indexed' = indexed
    BY <1>12 DEF StartOp, store, Active
  <2>. QED
    BY <2>1, <2>2, <2>3 DEF ListCovers
<1>13. ASSUME NEW a \in Actors, Load(a) PROVE ListCovers'
  <2>1. Moves(a, "write") \/ Moves(a, "query") \/ Moves(a, "mint") \/ Rests(a)
    BY <1>13, LoadEffect
  <2>. QED
    BY <1>13, <2>1, ListKeptQuiet DEF Load, Quiet, store
<1>14. ASSUME NEW a \in Actors, WriteBack(a) PROVE ListCovers'
  <2>1. CASE actor[a].op = "disable"
    <3>1. OnlyActor(a) /\ actor'[a].pc = "query" /\ actor'[a].before = actor[a].before
      BY <1>14, <2>1, WriteBackEffect
    <3>2. Active' = Active /\ indexed' = indexed
      BY <1>14 DEF WriteBack, Active
    <3>3. actor[a].before \subseteq indexed
      BY DEF ListCovers
    <3>. QED
      BY <3>1, <3>2, <3>3, ListKept
  <2>2. CASE actor[a].op # "disable"
    <3>1. Rests(a)
      BY <1>14, <2>2, WriteBackEffect
    <3>. QED
      BY <1>14, <3>1, ListKeptQuiet DEF WriteBack
  <2>. QED
    BY <2>1, <2>2
<1>15. ASSUME NEW a \in Actors, OperatorToken(a) PROVE ListCovers'
  <2>1. Rests(a) /\ \E t \in Tokens : Mint(t)
    BY <1>15, RestEffect DEF OperatorToken, Rests
  <2>2. indexed \subseteq indexed' /\ Active' \cap Issued \subseteq Active
    BY <2>1, MintEffect
  <2>3. OnlyActor(a) /\ actor'[a].before \subseteq indexed' /\ actor'[a].pc # "revoke"
    BY <2>1, RestedFields DEF Rests
  <2>. QED
    BY <2>2, <2>3, ListKept
<1>16. ASSUME NEW a \in Actors, QueryTokens(a) PROVE ListCovers'
  <2>1. Moves(a, "revoke") /\ actor'[a].list = Oldest \cap Active
    BY <1>16, QueryTokensEffect
  <2>2. Oldest = indexed
    BY OldestAll
  <2>3. Active' = Active /\ indexed' = indexed
    BY <1>16 DEF QueryTokens, Quiet, store, Active
  <2>4. /\ OnlyActor(a) /\ actor'[a].before \subseteq indexed'
        /\ actor'[a].before \cap Active' \subseteq actor'[a].list
    BY <2>1, <2>2, <2>3 DEF Moves, ListCovers
  <2>. QED
    BY <2>3, <2>4, ListKept
<1>17. ASSUME NEW a \in Actors, RevokeOne(a) PROVE ListCovers'
  <2>1. PICK t \in Issued : actor'[a].list = actor[a].list \ {t} /\ Active' = Active \ {t}
    BY <1>17, RevokeOneEffect
  <2>2. Moves(a, "revoke")
    BY <1>17, RevokeOneEffect
  <2>3. indexed' = indexed /\ actor[a].pc = "revoke"
    BY <1>17 DEF RevokeOne
  <2>4. actor[a].before \subseteq indexed /\ actor[a].before \cap Active \subseteq actor[a].list
    BY <2>3 DEF ListCovers
  <2>5. /\ OnlyActor(a) /\ actor'[a].before \subseteq indexed'
        /\ actor'[a].before \cap Active' \subseteq actor'[a].list
    BY <2>1, <2>2, <2>3, <2>4 DEF Moves
  <2>6. Active' \cap Issued \subseteq Active
    BY <2>1
  <2>. QED
    BY <2>3, <2>5, <2>6, ListKept
<1>18. ASSUME NEW a \in Actors, FinishRevoke(a) PROVE ListCovers'
  <2>1. Rests(a)
    BY <1>18, RestEffect DEF FinishRevoke, Rests
  <2>. QED
    BY <1>18, <2>1, ListKeptQuiet DEF FinishRevoke, store
<1>19. ASSUME NEW a \in Actors, Drop(a) PROVE ListCovers'
  <2>1. Rests(a)
    BY <1>19, RestEffect DEF Drop, Rests
  <2>. QED
    BY <1>19, <2>1, ListKeptQuiet DEF Drop
<1>20. ASSUME NEW a \in Actors, Crash(a) PROVE ListCovers'
  <2>1. Rests(a)
    BY <1>20, RestEffect DEF Crash, Rests
  <2>. QED
    BY <1>20, <2>1, ListKeptQuiet DEF Crash, Quiet, store
<1>21. CASE CatchUp
  BY <1>21 DEF CatchUp, ListCovers, Active
<1>22. CASE UNCHANGED vars
  BY <1>22 DEF vars, store, ListCovers, Active
<1>. QED
  BY <1>1, <1>2, <1>3, <1>4, <1>5, <1>6, <1>7, <1>8, <1>9, <1>10, <1>11, <1>12, <1>13, <1>14,
     <1>15, <1>16, <1>17, <1>18, <1>19, <1>20, <1>21, <1>22 DEF Next

\* While no more tokens are issued than one query of gsi1 returns, a revocation revokes
\* every token that the index showed when it began, whatever is issued, revoked or
\* indexed meanwhile (revoke_tokens_for_imsi).
THEOREM RevocationCovers ==
    ASSUME N_TOKENS <= LIMIT
    PROVE  Spec => []RevokeCovers
<1>1. Init => Types /\ ListCovers
  BY TypesInit, ListInit
<1>2. Types /\ ListCovers /\ [Next]_vars => (Types /\ ListCovers)'
  BY TypesStep, ListStep
<1>3. Types /\ ListCovers => RevokeCovers
  BY DEF ListCovers, RevokeCovers, Revoked
<1>. QED
  BY <1>1, <1>2, <1>3, PTL DEF Spec

-----------------------------------------------------------------------------
(* Calls that do not overlap.                                                *)

\* A step of the only call in flight, or of the first one.
LEMMA AloneKept ==
    ASSUME Types, Alone, NEW a \in Actors, OnlyActor(a), workload' = workload,
           actor[a].pc # "idle" \/ MayStart(a),
           GoesBy(actor'[a]) => actor'[a].sub = sub'
    PROVE  Alone'
<1>. SUFFICES ASSUME ~workload.overlap
              PROVE  /\ \A b, c \in Actors : actor'[b].pc # "idle" /\ actor'[c].pc # "idle" => b = c
                     /\ \A b \in Actors : GoesBy(actor'[b]) => actor'[b].sub = sub'
  BY DEF Alone
<1>1. \A b \in Actors \ {a} : actor[b].pc = "idle"
  BY DEF Alone, MayStart
<1>2. \A b \in Actors \ {a} : actor'[b].pc = "idle"
  BY <1>1 DEF OnlyActor
<1>3. \A b \in Actors \ {a} : ~GoesBy(actor'[b])
  BY <1>2 DEF GoesBy
<1>. QED
  BY <1>2, <1>3

\* The end of the only call in flight.
LEMMA AloneRests ==
    ASSUME Types, Alone, NEW a \in Actors, Rests(a), workload' = workload, actor[a].pc # "idle"
    PROVE  Alone'
<1>1. OnlyActor(a) /\ ~GoesBy(actor'[a])
  BY RestedFields DEF Rests, GoesBy
<1>. QED
  BY <1>1, AloneKept

LEMMA AloneInit == Init => Alone
<1>. SUFFICES ASSUME Init PROVE Alone
  OBVIOUS
<1>1. \A a \in Actors : actor[a].pc = "idle"
  BY RestedFields DEF Init
<1>. QED
  BY <1>1 DEF Alone, GoesBy

LEMMA AloneStep ==
    ASSUME Types, Alone, [Next]_vars
    PROVE  Alone'
<1>1. ASSUME NEW a \in Actors, StartConfig(a) PROVE Alone'
  <2>1. OnlyActor(a) /\ actor'[a].pc \in {"token", "identity"}
    BY <1>1, StartConfigEffect
  <2>2. ~GoesBy(actor'[a])
    BY <2>1 DEF GoesBy
  <2>. QED
    BY <1>1, <2>1, <2>2, AloneKept DEF StartConfig, Quiet
<1>2. ASSUME NEW a \in Actors, VerifyToken(a) PROVE Alone'
  <2>0. workload' = workload /\ actor[a].pc # "idle"
    BY <1>2 DEF VerifyToken
  <2>1. Moves(a, "identity") \/ Rests(a)
    BY <1>2, VerifyTokenEffect
  <2>2. CASE Moves(a, "identity")
    BY <2>0, <2>2, AloneKept DEF Moves, GoesBy
  <2>. QED
    BY <2>0, <2>1, <2>2, AloneRests
<1>3. ASSUME NEW a \in Actors, Identify(a) PROVE Alone'
  <2>0. workload' = workload /\ actor[a].pc # "idle" /\ sub' = sub
    BY <1>3 DEF Identify, store
  <2>1. Rests(a) \/ (OnlyActor(a) /\ actor'[a].sub = sub)
    BY <1>3, IdentifyEffect DEF Moves
  <2>. QED
    BY <2>0, <2>1, AloneKept, AloneRests
<1>4. ASSUME NEW a \in Actors, OtpOutcome(a) PROVE Alone'
  <2>0. workload' = workload /\ actor[a].pc = "otp" /\ sub' = sub
    BY <1>4 DEF OtpOutcome, store
  <2>1. Rests(a) \/ (OnlyActor(a) /\ actor'[a].sub = actor[a].sub)
    BY <1>4, OtpOutcomeEffect DEF Moves
  <2>2. ~workload.overlap => actor[a].sub = sub
    BY <2>0 DEF Alone, GoesBy
  <2>3. CASE workload.overlap
    BY <2>0, <2>3 DEF Alone
  <2>. QED
    BY <2>0, <2>1, <2>2, <2>3, AloneKept, AloneRests
<1>5. ASSUME NEW a \in Actors, ServeForced(a) PROVE Alone'
  <2>1. Rests(a)
    BY <1>5, ServeForcedEffect
  <2>. QED
    BY <1>5, <2>1, AloneRests DEF ServeForced
<1>6. ASSUME NEW a \in Actors, RepairVersion(a) PROVE Alone'
  <2>1. OnlyActor(a) /\ sub' = actor'[a].sub
    BY <1>6, RepairVersionEffect DEF Moves
  <2>2. workload' = workload /\ actor[a].pc # "idle"
    BY <1>6 DEF RepairVersion
  <2>. QED
    BY <2>1, <2>2, AloneKept
<1>7. ASSUME NEW a \in Actors, ServeUnchanged(a) PROVE Alone'
  <2>1. Rests(a)
    BY <1>7, ServeUnchangedEffect
  <2>. QED
    BY <1>7, <2>1, AloneRests DEF ServeUnchanged, Ready
<1>8. ASSUME NEW a \in Actors, IssueToken(a) PROVE Alone'
  <2>0. workload' = workload /\ actor[a].pc = "serve" /\ sub' = sub
    BY <1>8 DEF IssueToken, Ready
  <2>1. OnlyActor(a) /\ actor'[a].sub = actor[a].sub
    BY <1>8, IssueTokenEffect DEF Moves
  <2>2. ~workload.overlap => actor[a].sub = sub
    BY <2>0 DEF Alone, GoesBy
  <2>3. CASE workload.overlap
    BY <2>0, <2>3 DEF Alone
  <2>. QED
    BY <2>0, <2>1, <2>2, <2>3, AloneKept
<1>9. ASSUME NEW a \in Actors, DrawSecret(a) PROVE Alone'
  <2>1. OnlyActor(a) /\ sub' = actor'[a].sub
    BY <1>9, DrawSecretEffect DEF Moves
  <2>2. workload' = workload /\ actor[a].pc # "idle"
    BY <1>9 DEF DrawSecret
  <2>. QED
    BY <2>1, <2>2, AloneKept
<1>10. ASSUME NEW a \in Actors, HasSecret(a) PROVE Alone'
  <2>0. workload' = workload /\ actor[a].pc = "secret" /\ sub' = sub
    BY <1>10 DEF HasSecret, Quiet, store
  <2>1. OnlyActor(a) /\ actor'[a].sub = actor[a].sub
    BY <1>10, HasSecretEffect DEF Moves
  <2>2. ~workload.overlap => actor[a].sub = sub
    BY <2>0 DEF Alone, GoesBy
  <2>3. CASE workload.overlap
    BY <2>0, <2>3 DEF Alone
  <2>. QED
    BY <2>0, <2>1, <2>2, <2>3, AloneKept
<1>11. ASSUME NEW a \in Actors, ServeDocument(a) PROVE Alone'
  <2>1. Rests(a)
    BY <1>11, ServeDocumentEffect
  <2>. QED
    BY <1>11, <2>1, AloneRests DEF ServeDocument
<1>12. ASSUME NEW a \in Actors, StartOp(a) PROVE Alone'
  <2>1. actor'[a].pc = "load" /\ \A b \in Actors \ {a} : actor'[b].pc = actor[b].pc
    BY <1>12, StartOpEffect
  <2>2. ~workload.overlap => \A b \in Actors : actor[b].pc = "idle"
    BY <1>12 DEF StartOp, MayStart
  <2>3. workload' = workload
    BY <1>12 DEF StartOp
  <2>4. ~workload.overlap => \A b \in Actors : ~GoesBy(actor'[b])
    BY <2>1, <2>2 DEF GoesBy
  <2>. QED
    BY <2>1, <2>2, <2>3, <2>4 DEF Alone
<1>13. ASSUME NEW a \in Actors, Load(a) PROVE Alone'
  <2>0. workload' = workload /\ actor[a].pc # "idle" /\ sub' = sub
    BY <1>13 DEF Load, Quiet, store
  <2>1. Rests(a) \/ (OnlyActor(a) /\ actor'[a].sub = sub)
    BY <1>13, LoadEffect DEF Moves
  <2>. QED
    BY <2>0, <2>1, AloneKept, AloneRests
<1>14. ASSUME NEW a \in Actors, WriteBack(a) PROVE Alone'
  <2>0. workload' = workload /\ actor[a].pc # "idle"
    BY <1>14 DEF WriteBack
  <2>1. Rests(a) \/ (OnlyActor(a) /\ actor'[a].pc = "query" /\ actor'[a].op = "disable")
    BY <1>14, WriteBackEffect
  <2>2. CASE OnlyActor(a) /\ actor'[a].pc = "query" /\ actor'[a].op = "disable"
    BY <2>0, <2>2, AloneKept DEF GoesBy
  <2>. QED
    BY <2>0, <2>1, <2>2, AloneRests
<1>15. ASSUME NEW a \in Actors, OperatorToken(a) PROVE Alone'
  <2>1. Rests(a)
    BY <1>15, RestEffect DEF OperatorToken, Rests
  <2>. QED
    BY <1>15, <2>1, AloneRests DEF OperatorToken
<1>16. ASSUME NEW a \in Actors, QueryTokens(a) PROVE Alone'
  <2>0. workload' = workload /\ actor[a].pc = "query" /\ sub' = sub
    BY <1>16 DEF QueryTokens, Quiet, store
  <2>1. /\ OnlyActor(a) /\ actor'[a].sub = actor[a].sub /\ actor'[a].pc = "revoke"
        /\ actor'[a].op = actor[a].op
    BY <1>16, QueryTokensEffect DEF Moves
  <2>2. ~workload.overlap => (GoesBy(actor'[a]) => actor'[a].sub = sub')
    BY <2>0, <2>1 DEF Alone, GoesBy
  <2>3. CASE workload.overlap
    BY <2>0, <2>3 DEF Alone
  <2>. QED
    BY <2>0, <2>1, <2>2, <2>3, AloneKept
<1>17. ASSUME NEW a \in Actors, RevokeOne(a) PROVE Alone'
  <2>0. workload' = workload /\ actor[a].pc = "revoke" /\ sub' = sub
    BY <1>17 DEF RevokeOne
  <2>1. /\ OnlyActor(a) /\ actor'[a].sub = actor[a].sub /\ actor'[a].pc = "revoke"
        /\ actor'[a].op = actor[a].op
    BY <1>17, RevokeOneEffect DEF Moves
  <2>2. ~workload.overlap => (GoesBy(actor'[a]) => actor'[a].sub = sub')
    BY <2>0, <2>1 DEF Alone, GoesBy
  <2>3. CASE workload.overlap
    BY <2>0, <2>3 DEF Alone
  <2>. QED
    BY <2>0, <2>1, <2>2, <2>3, AloneKept
<1>18. ASSUME NEW a \in Actors, FinishRevoke(a) PROVE Alone'
  <2>1. Rests(a)
    BY <1>18, RestEffect DEF FinishRevoke, Rests
  <2>. QED
    BY <1>18, <2>1, AloneRests DEF FinishRevoke, Revoked
<1>19. ASSUME NEW a \in Actors, Drop(a) PROVE Alone'
  <2>1. Rests(a)
    BY <1>19, RestEffect DEF Drop, Rests
  <2>. QED
    BY <1>19, <2>1, AloneRests DEF Drop, Revoked
<1>20. ASSUME NEW a \in Actors, Crash(a) PROVE Alone'
  <2>1. Rests(a)
    BY <1>20, RestEffect DEF Crash, Rests
  <2>. QED
    BY <1>20, <2>1, AloneRests DEF Crash, Quiet
<1>21. CASE CatchUp
  BY <1>21 DEF CatchUp, Alone
<1>22. CASE UNCHANGED vars
  BY <1>22 DEF vars, store, Alone
<1>. QED
  BY <1>1, <1>2, <1>3, <1>4, <1>5, <1>6, <1>7, <1>8, <1>9, <1>10, <1>11, <1>12, <1>13, <1>14,
     <1>15, <1>16, <1>17, <1>18, <1>19, <1>20, <1>21, <1>22 DEF Next

\* A step that touches no token, and leaves the subscriber there if it was.
LEMMA NoneKept ==
    ASSUME Types, NoneLeft, NEW a \in Actors, OnlyActor(a), UNCHANGED <<tokens, indexed, workload>>,
           sub' # None \/ sub' = sub, actor'[a].pc # "revoke"
    PROVE  NoneLeft'
<1>1. Active' = Active /\ Issued' = Issued
  BY DEF Active, Issued
<1>. QED
  BY <1>1 DEF NoneLeft, OnlyActor

\* A token is issued for a subscriber that is there, while nobody revokes.
LEMMA NoneMint ==
    ASSUME \A wl \in Workloads : ~wl.overlap => ~wl.lag,
           Types, Alone, NoneLeft, NEW a \in Actors, OnlyActor(a), NEW t \in Tokens, Mint(t),
           UNCHANGED <<sub, workload>>, GoesBy(actor[a]), actor[a].sub # None, actor'[a].pc # "revoke"
    PROVE  NoneLeft'
<1>. SUFFICES ASSUME ~workload.overlap
              PROVE  sub' # None /\ indexed' = Issued' /\ \A b \in Actors : actor'[b].pc # "revoke"
  BY DEF NoneLeft
<1>1. sub # None
  BY DEF Alone
<1>2. indexed = Issued /\ ~workload.lag
  BY DEF NoneLeft, Types
<1>3. indexed' = Issued'
  BY <1>2, MintEffect
<1>4. actor[a].pc # "idle"
  BY DEF GoesBy
<1>5. \A b \in Actors \ {a} : actor[b].pc = "idle"
  BY <1>4 DEF Alone
<1>. QED
  BY <1>1, <1>3, <1>5 DEF OnlyActor

LEMMA NoneInit == Init => NoneLeft
<1>. SUFFICES ASSUME Init PROVE NoneLeft
  OBVIOUS
<1>1. Active = {} /\ Issued = {} /\ indexed = {}
  BY DEF Init, Active, Issued
<1>2. \A a \in Actors : actor[a].pc = "idle"
  BY RestedFields DEF Init
<1>. QED
  BY <1>1, <1>2 DEF NoneLeft

LEMMA NoneStep ==
    ASSUME N_TOKENS <= LIMIT, \A wl \in Workloads : ~wl.overlap => ~wl.lag,
           Types, Alone, NoneLeft, [Next]_vars
    PROVE  NoneLeft'
<1>1. ASSUME NEW a \in Actors, StartConfig(a) PROVE NoneLeft'
  <2>1. OnlyActor(a) /\ actor'[a].pc # "revoke"
    BY <1>1, StartConfigEffect DEF Moves, Rests
  <2>. QED
    BY <1>1, <2>1, NoneKept DEF StartConfig, Quiet, store
<1>2. ASSUME NEW a \in Actors, VerifyToken(a) PROVE NoneLeft'
  <2>1. OnlyActor(a) /\ actor'[a].pc # "revoke"
    BY <1>2, VerifyTokenEffect, RestedFields DEF Moves, Rests
  <2>. QED
    BY <1>2, <2>1, NoneKept DEF VerifyToken, store
<1>3. ASSUME NEW a \in Actors, Identify(a) PROVE NoneLeft'
  <2>1. OnlyActor(a) /\ actor'[a].pc # "revoke"
    BY <1>3, IdentifyEffect, RestedFields DEF Moves, Rests
  <2>. QED
    BY <1>3, <2>1, NoneKept DEF Identify, store
<1>4. ASSUME NEW a \in Actors, OtpOutcome(a) PROVE NoneLeft'
  <2>1. OnlyActor(a) /\ actor'[a].pc # "revoke"
    BY <1>4, OtpOutcomeEffect, RestedFields DEF Moves, Rests
  <2>. QED
    BY <1>4, <2>1, NoneKept DEF OtpOutcome, store
<1>5. ASSUME NEW a \in Actors, ServeForced(a) PROVE NoneLeft'
  <2>1. OnlyActor(a) /\ actor'[a].pc # "revoke"
    BY <1>5, ServeForcedEffect, RestedFields DEF Moves, Rests
  <2>. QED
    BY <1>5, <2>1, NoneKept DEF ServeForced, store
<1>6. ASSUME NEW a \in Actors, RepairVersion(a) PROVE NoneLeft'
  <2>1. OnlyActor(a) /\ actor'[a].pc # "revoke" /\ sub' # None
    BY <1>6, RepairVersionEffect, NoneAssumption DEF Moves
  <2>. QED
    BY <1>6, <2>1, NoneKept DEF RepairVersion
<1>7. ASSUME NEW a \in Actors, ServeUnchanged(a) PROVE NoneLeft'
  <2>1. OnlyActor(a) /\ actor'[a].pc # "revoke"
    BY <1>7, ServeUnchangedEffect, RestedFields DEF Moves, Rests
  <2>. QED
    BY <1>7, <2>1, NoneKept DEF ServeUnchanged, store
<1>8. ASSUME NEW a \in Actors, IssueToken(a) PROVE NoneLeft'
  <2>1. Moves(a, "secret") /\ \E t \in Tokens : Mint(t)
    BY <1>8, IssueTokenEffect
  <2>2. actor[a].pc = "serve" /\ actor[a].sub # None
    BY <1>8, NoneAssumption DEF IssueToken, Ready, Types, LocalsOK
  <2>. QED
    BY <1>8, <2>1, <2>2, NoneMint DEF IssueToken, Moves, GoesBy
<1>9. ASSUME NEW a \in Actors, DrawSecret(a) PROVE NoneLeft'
  <2>1. OnlyActor(a) /\ actor'[a].pc # "revoke" /\ sub' # None
    BY <1>9, DrawSecretEffect, NoneAssumption DEF Moves
  <2>. QED
    BY <1>9, <2>1, NoneKept DEF DrawSecret
<1>10. ASSUME NEW a \in Actors, HasSecret(a) PROVE NoneLeft'
  <2>1. OnlyActor(a) /\ actor'[a].pc # "revoke"
    BY <1>10, HasSecretEffect DEF Moves, Rests
  <2>. QED
    BY <1>10, <2>1, NoneKept DEF HasSecret, Quiet, store
<1>11. ASSUME NEW a \in Actors, ServeDocument(a) PROVE NoneLeft'
  <2>1. OnlyActor(a) /\ actor'[a].pc # "revoke"
    BY <1>11, ServeDocumentEffect, RestedFields DEF Moves, Rests
  <2>. QED
    BY <1>11, <2>1, NoneKept DEF ServeDocument, store
<1>12. ASSUME NEW a \in Actors, StartOp(a) PROVE NoneLeft'
  <2>1. actor'[a].pc = "load"
    BY <1>12, StartOpEffect
  <2>2. \A b \in Actors \ {a} : actor'[b].pc = actor[b].pc /\ actor'[b].list = actor[b].list
    BY <1>12, StartOpEffect
  <2>3. Active' = Active /\ Issued' = Issued /\ UNCHANGED <<sub, indexed, workload>>
    BY <1>12 DEF StartOp, store, Active, Issued
  <2>. QED
    BY <2>1, <2>2, <2>3 DEF NoneLeft
<1>13. ASSUME NEW a \in Actors, Load(a) PROVE NoneLeft'
  <2>1. OnlyActor(a) /\ actor'[a].pc # "revoke"
    BY <1>13, LoadEffect, RestedFields DEF Moves, Rests
  <2>. QED
    BY <1>13, <2>1, NoneKept DEF Load, Quiet, store
<1>14. ASSUME NEW a \in Actors, WriteBack(a) PROVE NoneLeft'
  <2>1. OnlyActor(a) /\ actor'[a].pc # "revoke" /\ sub' # None
    BY <1>14, WriteBackEffect, NoneAssumption, RestedFields DEF Rests
  <2>. QED
    BY <1>14, <2>1, NoneKept DEF WriteBack
<1>15. ASSUME NEW a \in Actors, OperatorToken(a) PROVE NoneLeft'
  <2>1. OnlyActor(a) /\ actor'[a].pc # "revoke" /\ \E t \in Tokens : Mint(t)
    BY <1>15, RestEffect, RestedFields DEF OperatorToken
  <2>2. actor[a].pc = "mint" /\ actor[a].sub # None
    BY <1>15, NoneAssumption DEF OperatorToken, Types, LocalsOK
  <2>. QED
    BY <1>15, <2>1, <2>2, NoneMint DEF OperatorToken, GoesBy
<1>16. ASSUME NEW a \in Actors, QueryTokens(a) PROVE NoneLeft'
  <2>1. OnlyActor(a) /\ actor'[a].list = Oldest \cap Active
    BY <1>16, QueryTokensEffect DEF Moves
  <2>2. Oldest = indexed /\ Active \subseteq Issued
    BY OldestAll DEF Active, Issued
  <2>3. Active' = Active /\ Issued' = Issued /\ UNCHANGED <<sub, indexed, workload>>
    BY <1>16 DEF QueryTokens, Quiet, store, Active, Issued
  <2>. QED
    BY <2>1, <2>2, <2>3 DEF NoneLeft, OnlyActor
<1>17. ASSUME NEW a \in Actors, RevokeOne(a) PROVE NoneLeft'
  <2>1. PICK t \in Issued : actor'[a].list = actor[a].list \ {t} /\ Active' = Active \ {t}
    BY <1>17, RevokeOneEffect
  <2>2. OnlyActor(a) /\ Issued' = Issued
    BY <1>17, RevokeOneEffect DEF Moves
  <2>3. UNCHANGED <<sub, indexed, workload>> /\ actor[a].pc = "revoke"
    BY <1>17 DEF RevokeOne
  <2>. QED
    BY <2>1, <2>2, <2>3 DEF NoneLeft, OnlyActor
<1>18. ASSUME NEW a \in Actors, FinishRevoke(a) PROVE NoneLeft'
  <2>1. OnlyActor(a) /\ actor'[a].pc # "revoke"
    BY <1>18, RestEffect, RestedFields DEF FinishRevoke
  <2>. QED
    BY <1>18, <2>1, NoneKept DEF FinishRevoke, store
<1>19. ASSUME NEW a \in Actors, Drop(a) PROVE NoneLeft'
  <2>1. OnlyActor(a) /\ actor'[a].pc # "revoke"
    BY <1>19, RestEffect, RestedFields DEF Drop
  <2>2. ~workload.overlap => Active = {}
    BY <1>19 DEF Drop, Revoked, NoneLeft
  <2>3. Active' = Active /\ Issued' = Issued /\ UNCHANGED <<indexed, workload>>
    BY <1>19 DEF Drop, Active, Issued
  <2>. QED
    BY <2>1, <2>2, <2>3 DEF NoneLeft, OnlyActor
<1>20. ASSUME NEW a \in Actors, Crash(a) PROVE NoneLeft'
  <2>1. OnlyActor(a) /\ actor'[a].pc # "revoke"
    BY <1>20, RestEffect, RestedFields DEF Crash
  <2>. QED
    BY <1>20, <2>1, NoneKept DEF Crash, Quiet, store
<1>21. CASE CatchUp
  <2>1. Active' = Active /\ Issued' = Issued /\ indexed # Issued /\ UNCHANGED workload
    BY <1>21 DEF CatchUp, Active, Issued
  <2>. QED
    BY <2>1 DEF NoneLeft
<1>22. CASE UNCHANGED vars
  <2>1. Active' = Active /\ Issued' = Issued /\ UNCHANGED <<sub, indexed, actor, workload>>
    BY <1>22 DEF vars, store, Active, Issued
  <2>. QED
    BY <2>1 DEF NoneLeft
<1>. QED
  BY <1>1, <1>2, <1>3, <1>4, <1>5, <1>6, <1>7, <1>8, <1>9, <1>10, <1>11, <1>12, <1>13, <1>14,
     <1>15, <1>16, <1>17, <1>18, <1>19, <1>20, <1>21, <1>22 DEF Next

\* As long as the calls do not overlap, the index keeps up with them and no more tokens
\* are issued than one query returns, a subscriber that is deleted has no active token
\* left: delete_subscriber revokes them before the record goes.
THEOREM DeletedHasNoToken ==
    ASSUME N_TOKENS <= LIMIT, \A wl \in Workloads : ~wl.overlap => ~wl.lag
    PROVE  Spec => []DeleteLeavesNoToken
<1>. DEFINE Inv == Types /\ Alone /\ NoneLeft
<1>1. Init => Inv
  BY TypesInit, AloneInit, NoneInit
<1>2. Inv /\ [Next]_vars => Inv'
  BY TypesStep, AloneStep, NoneStep
<1>3. Inv => DeleteLeavesNoToken
  BY DEF NoneLeft, DeleteLeavesNoToken
<1>. QED
  BY <1>1, <1>2, <1>3, PTL DEF Spec

-----------------------------------------------------------------------------
(* What a step may not do.                                                   *)

\* The record changes in four steps only: two of a request, two of an operator call.
LEMMA SubSteps ==
    ASSUME [Next]_vars, sub' # sub
    PROVE  \E a \in Actors : RepairVersion(a) \/ DrawSecret(a) \/ WriteBack(a) \/ Drop(a)
<1>1. CASE UNCHANGED vars
  BY <1>1 DEF vars, store
<1>2. CASE CatchUp
  BY <1>2 DEF CatchUp
<1>3. ASSUME NEW a \in Actors,
             \/ StartConfig(a) \/ VerifyToken(a) \/ Identify(a) \/ OtpOutcome(a)
             \/ ServeForced(a) \/ ServeUnchanged(a) \/ IssueToken(a)
      PROVE  FALSE
  BY <1>3 DEF StartConfig, VerifyToken, Identify, OtpOutcome, ServeForced, ServeUnchanged, IssueToken,
              Quiet, store
<1>4. ASSUME NEW a \in Actors,
             \/ HasSecret(a) \/ ServeDocument(a) \/ StartOp(a) \/ Load(a) \/ OperatorToken(a)
             \/ QueryTokens(a) \/ RevokeOne(a) \/ FinishRevoke(a) \/ Crash(a)
      PROVE  FALSE
  BY <1>4 DEF HasSecret, ServeDocument, StartOp, Load, OperatorToken, QueryTokens, RevokeOne,
              FinishRevoke, Crash, Quiet, store
<1>. QED
  BY <1>1, <1>2, <1>3, <1>4 DEF Next

\* A document is sent in one step only.
LEMMA ServedStep ==
    ASSUME Types, [Next]_vars, last' # last, last'.kind = "served"
    PROVE  \E a \in Actors : ServeDocument(a)
<1>1. CASE UNCHANGED vars
  BY <1>1 DEF vars
<1>2. CASE CatchUp
  BY <1>2 DEF CatchUp
<1>3. ASSUME NEW a \in Actors,
             \/ StartConfig(a) \/ RepairVersion(a) \/ IssueToken(a) \/ DrawSecret(a) \/ HasSecret(a)
             \/ StartOp(a) \/ Load(a) \/ WriteBack(a) \/ OperatorToken(a) \/ QueryTokens(a)
             \/ RevokeOne(a) \/ FinishRevoke(a) \/ Drop(a) \/ Crash(a)
      PROVE  FALSE
  BY <1>3 DEF StartConfig, RepairVersion, IssueToken, DrawSecret, HasSecret, StartOp, Load, WriteBack,
              OperatorToken, QueryTokens, RevokeOne, FinishRevoke, Drop, Crash, Quiet
<1>4. ASSUME NEW a \in Actors,
             VerifyToken(a) \/ Identify(a) \/ OtpOutcome(a) \/ ServeForced(a) \/ ServeUnchanged(a)
      PROVE  FALSE
  <2>1. Replies
    BY <1>4, VerifyTokenEffect, IdentifyEffect, OtpOutcomeEffect, ServeForcedEffect, ServeUnchangedEffect
  <2>. QED
    BY <2>1 DEF Replies
<1>. QED
  BY <1>1, <1>2, <1>3, <1>4 DEF Next

\* A stored revision goes down only when an operator puts a lower one, or in a write-back
\* of a record that its call had read before another wrote it; one below 1 is never served.
THEOREM RevisionsMonotonic == Spec => VersMonotonic
<1>1. ASSUME Types, Types', [Next]_vars
      PROVE  /\ last'.kind \in {"served", "unchanged"} => last'.version > 0
             /\ sub # None /\ sub' # None /\ sub'.version < sub.version =>
                   \/ clobbered'
                   \/ \E a \in Actors : actor[a].op = "put" /\ actor'[a] # actor[a]
  <2>0. last'.kind \in {"served", "unchanged"} => last'.version > 0
    BY <1>1 DEF Types
  <2>. SUFFICES ASSUME sub # None, sub' # None, sub'.version < sub.version, ~clobbered'
                PROVE  \E a \in Actors : actor[a].op = "put" /\ actor'[a] # actor[a]
    BY <2>0
  <2>1. sub \in Records /\ sub' \in Records /\ sub.version \in Int /\ sub'.version \in Int
    BY <1>1 DEF Types, Records
  <2>2. sub' # sub
    BY <2>1
  <2>3. PICK a \in Actors : RepairVersion(a) \/ DrawSecret(a) \/ WriteBack(a) \/ Drop(a)
    BY <1>1, <2>2, SubSteps
  <2>4. CASE RepairVersion(a)
    <3>1. sub' = actor'[a].sub /\ sub'.version > actor[a].sub.version /\ sub = actor[a].sub
      BY <1>1, <2>4, RepairVersionEffect
    <3>. QED
      BY <2>1, <3>1
  <2>5. CASE DrawSecret(a)
    <3>1. sub'.version = actor[a].sub.version /\ sub = actor[a].sub
      BY <1>1, <2>5, DrawSecretEffect
    <3>. QED
      BY <2>1, <3>1
  <2>6. CASE WriteBack(a)
    <3>1. /\ actor[a].op \in Writers /\ sub = actor[a].sub
          /\ actor[a].op = "create" => actor[a].sub = None
          /\ actor[a].op \in {"update", "override", "disable"} => sub'.version = actor[a].sub.version
          /\ actor[a].op \in {"invalidate", "enable"} => sub'.version > actor[a].sub.version
          /\ actor[a].op # "disable" => Rests(a)
      BY <1>1, <2>6, WriteBackEffect
    <3>2. actor[a].op = "put"
      BY <2>1, <3>1 DEF Writers
    <3>3. actor'[a].pc = "idle" /\ actor[a].pc = "write"
      BY <2>6, <3>1, <3>2, RestedFields DEF Rests, WriteBack
    <3>. QED
      BY <3>2, <3>3
  <2>7. CASE Drop(a)
    BY <2>7 DEF Drop
  <2>. QED
    BY <2>3, <2>4, <2>5, <2>6, <2>7
<1>. QED
  BY <1>1, TypesInit, TypesStep, PTL DEF Spec, VersMonotonic

\* As long as the calls do not overlap, the dm_password in a document is the one that is
\* stored when it is sent, a fresh one included.
THEOREM ServedPasswordIsStored == Spec => DmPasswordStable
<1>. DEFINE Inv == Types /\ Alone
<1>1. Init => Inv
  BY TypesInit, AloneInit
<1>2. Inv /\ [Next]_vars => Inv'
  BY TypesStep, AloneStep
<1>3. ASSUME Inv, [Next]_vars
      PROVE  ~workload.overlap /\ last' # last /\ last'.kind = "served"
                => sub # None /\ sub.secret = last'.secret
  <2>. SUFFICES ASSUME ~workload.overlap, last' # last, last'.kind = "served"
                PROVE  sub # None /\ sub.secret = last'.secret
    OBVIOUS
  <2>0. Types /\ Alone
    BY <1>3
  <2>1. PICK a \in Actors : ServeDocument(a)
    BY <1>3, <2>0, ServedStep
  <2>2. actor[a].pc = "document" /\ actor[a].sub \in Records
    BY <2>0, <2>1 DEF ServeDocument, Types, LocalsOK
  <2>3. actor[a].sub = sub
    BY <2>0, <2>2 DEF Alone, GoesBy
  <2>4. last'.secret = actor[a].sub.secret
    BY <2>0, <2>1, ServeDocumentEffect
  <2>. QED
    BY <2>2, <2>3, <2>4, NoneAssumption
<1>. QED
  BY <1>1, <1>2, <1>3, PTL DEF Spec, DmPasswordStable

-----------------------------------------------------------------------------
(* A disable stands.                                                         *)

\* The steps of a request that holds a record.
Holding == {"otp", "serve", "secret", "document"}

\* A step that lifts nothing, writes no enabled record while a disable stands and sends
\* no document.
LEMMA DisableKept ==
    ASSUME Types, DisableInv, NEW a \in Actors, OnlyActor(a),
           Standing' => Standing, barred => barred', clobbered => clobbered',
           actor'[a].op = actor[a].op \/ actor'[a].op \notin Lifters,
           Standing /\ ~clobbered' => (sub' = None \/ sub'.forced # None),
           actor'[a].op = "config" /\ actor'[a].late =>
              /\ barred'
              /\ actor'[a].pc \in Holding /\ ~clobbered' => actor'[a].sub.forced # None,
           last' = last \/ last'.kind # "served"
    PROVE  DisableInv'
<1>1. \A b \in Actors \ {a} : actor'[b] = actor[b]
  BY DEF OnlyActor
<1>2. Standing' => \A b \in Actors : actor'[b].op \notin Lifters
  BY <1>1 DEF DisableInv
<1>3. Standing' /\ ~clobbered' => sub' = None \/ sub'.forced # None
  OBVIOUS
<1>4. ASSUME NEW b \in Actors, actor'[b].op = "config" /\ actor'[b].late
      PROVE  /\ barred'
             /\ actor'[b].pc \in Holding /\ ~clobbered' => actor'[b].sub.forced # None
  <2>1. CASE b = a
    BY <1>4, <2>1
  <2>2. CASE b # a
    BY <1>1, <1>4, <2>2 DEF DisableInv, Holding
  <2>. QED
    BY <2>1, <2>2
<1>5. last'.kind = "served" /\ last'.late => clobbered'
  BY DEF DisableInv
<1>. QED
  BY <1>2, <1>3, <1>4, <1>5 DEF DisableInv, Holding

\* Whether a disable stands depends on a only where a wrote one.
LEMMA StandingKept ==
    ASSUME NEW a \in Actors, OnlyActor(a), barred' => Standing,
           actor'[a].pc \in {"query", "revoke"} /\ actor'[a].op = "disable" /\ actor'[a].late =>
              actor[a].pc \in {"query", "revoke"} /\ actor[a].op = "disable" /\ actor[a].late
    PROVE  Standing' => Standing
BY DEF Standing, OnlyActor

\* The end of a call that wrote no record.
LEMMA DisableRests ==
    ASSUME Types, DisableInv, NEW a \in Actors, Rests(a), UNCHANGED <<sub, barred, clobbered>>,
           last' = last \/ Replies
    PROVE  DisableInv'
<1>1. /\ OnlyActor(a) /\ actor'[a].pc = "idle" /\ actor'[a].op = None /\ ~actor'[a].late
  BY RestedFields DEF Rests
<1>2. actor'[a].op \notin Lifters
  BY <1>1, NoneAssumption DEF Lifters, Calls, Writers
<1>3. Standing' => Standing
  <2>1. barred' => Standing
    BY DEF Standing
  <2>. QED
    BY <1>1, <2>1, StandingKept
<1>4. Standing /\ ~clobbered' => (sub' = None \/ sub'.forced # None)
  BY DEF DisableInv
<1>5. last' = last \/ last'.kind # "served"
  BY DEF Replies
<1>. QED
  BY <1>1, <1>2, <1>3, <1>4, <1>5, DisableKept

\* Another step of a call, that writes no record.
LEMMA DisableMoves ==
    ASSUME Types, DisableInv, NEW a \in Actors, NEW p, Moves(a, p), UNCHANGED <<sub, barred, clobbered, last>>,
           p \in {"query", "revoke"} /\ actor[a].op = "disable" => actor[a].pc \in {"query", "revoke"},
           p \in Holding => \/ actor'[a].sub = actor[a].sub /\ actor[a].pc \in Holding
                            \/ actor'[a].sub = sub /\ sub # None
    PROVE  DisableInv'
<1>1. /\ OnlyActor(a) /\ actor'[a].pc = p /\ actor'[a].op = actor[a].op
      /\ actor'[a].late = actor[a].late
  BY DEF Moves
<1>2. Standing' => Standing
  <2>1. barred' => Standing
    BY DEF Standing
  <2>. QED
    BY <1>1, <2>1, StandingKept
<1>3. Standing /\ ~clobbered' => (sub' = None \/ sub'.forced # None)
  BY DEF DisableInv
<1>4. ASSUME actor'[a].op = "config" /\ actor'[a].late
      PROVE  /\ barred'
             /\ actor'[a].pc \in Holding /\ ~clobbered' => actor'[a].sub.forced # None
  <2>1. barred /\ Standing
    BY <1>1, <1>4 DEF DisableInv, Standing
  <2>2. ASSUME p \in Holding, ~clobbered PROVE actor'[a].sub.forced # None
    BY <1>1, <1>4, <2>1, <2>2 DEF DisableInv, Holding
  <2>. QED
    BY <1>1, <2>1, <2>2
<1>. QED
  BY <1>1, <1>2, <1>3, <1>4, DisableKept

LEMMA DisableInit == Init => DisableInv
<1>. SUFFICES ASSUME Init PROVE DisableInv
  OBVIOUS
<1>1. \A a \in Actors : actor[a].pc = "idle" /\ ~actor[a].late
  BY RestedFields DEF Init
<1>2. ~Standing
  BY <1>1 DEF Init, Standing
<1>3. last.kind = "none"
  BY DEF Init, NoAnswer
<1>. QED
  BY <1>1, <1>2, <1>3 DEF DisableInv

\* A request writes its record back: it is not forced, so that no disable stood when it
\* was read, or another call wrote meanwhile.
LEMMA DisableRequestWrites ==
    ASSUME Types, DisableInv, NEW a \in Actors, NEW p, Moves(a, p), UNCHANGED <<barred, last>>,
           p \in Holding, actor[a].pc \in Holding, actor[a].sub \in Records, actor[a].sub.forced = None,
           clobbered' = (clobbered \/ sub # actor[a].sub)
    PROVE  DisableInv'
<1>1. /\ OnlyActor(a) /\ actor'[a].pc = p /\ actor'[a].op = actor[a].op
      /\ actor'[a].late = actor[a].late
  BY DEF Moves
<1>2. Standing' => Standing
  <2>1. barred' => Standing
    BY DEF Standing
  <2>. QED
    BY <1>1, <2>1, StandingKept DEF Holding
<1>3. (clobbered => clobbered') /\ (~clobbered' => sub = actor[a].sub)
  OBVIOUS
<1>4. Standing => clobbered'
  BY <1>3, NoneAssumption DEF DisableInv
<1>5. actor'[a].op = "config" /\ actor'[a].late => barred'
  BY <1>1 DEF DisableInv
<1>6. actor'[a].op = "config" /\ actor'[a].late => clobbered'
  BY <1>1, <1>3 DEF DisableInv, Holding
<1>. QED
  BY <1>1, <1>2, <1>3, <1>4, <1>5, <1>6, DisableKept

LEMMA DisableStep ==
    ASSUME Types, DisableInv, [Next]_vars
    PROVE  DisableInv'
<1>1. ASSUME NEW a \in Actors, StartConfig(a) PROVE DisableInv'
  <2>1. /\ OnlyActor(a) /\ actor'[a].pc \in {"token", "identity"} /\ actor'[a].op = "config"
        /\ actor'[a].late = barred
    BY <1>1, StartConfigEffect
  <2>2. UNCHANGED <<sub, barred, clobbered, last>>
    BY <1>1 DEF StartConfig, Quiet, store
  <2>3. barred' => Standing
    BY <2>2 DEF Standing
  <2>4. Standing' => Standing
    BY <2>1, <2>3, StandingKept
  <2>5. Standing /\ ~clobbered' => (sub' = None \/ sub'.forced # None)
    BY <2>2 DEF DisableInv
  <2>6. actor'[a].op \notin Lifters
    BY <2>1 DEF Lifters
  <2>7. actor'[a].late => barred'
    BY <2>1, <2>2
  <2>8. actor'[a].pc \notin Holding
    BY <2>1 DEF Holding
  <2>. QED
    BY <2>1, <2>2, <2>4, <2>5, <2>6, <2>7, <2>8, DisableKept
<1>2. ASSUME NEW a \in Actors, VerifyToken(a) PROVE DisableInv'
  <2>1. UNCHANGED <<sub, barred, clobbered>>
    BY <1>2 DEF VerifyToken, store
  <2>2. CASE Moves(a, "identity") /\ last' = last
    BY <2>1, <2>2, DisableMoves DEF Holding
  <2>3. CASE Rests(a) /\ Replies
    BY <2>1, <2>3, DisableRests
  <2>. QED
    BY <1>2, <2>2, <2>3, VerifyTokenEffect
<1>3. ASSUME NEW a \in Actors, Identify(a) PROVE DisableInv'
  <2>1. UNCHANGED <<sub, barred, clobbered>>
    BY <1>3 DEF Identify, store
  <2>2. ASSUME NEW p \in {"otp", "serve"}, Moves(a, p), sub \in Records, actor'[a].sub = sub, last' = last
        PROVE  DisableInv'
    BY <2>1, <2>2, NoneAssumption, DisableMoves
  <2>3. CASE Rests(a) /\ Replies
    BY <2>1, <2>3, DisableRests
  <2>. QED
    BY <1>3, <2>2, <2>3, IdentifyEffect
<1>4. ASSUME NEW a \in Actors, OtpOutcome(a) PROVE DisableInv'
  <2>1. UNCHANGED <<sub, barred, clobbered>> /\ actor[a].pc \in Holding
    BY <1>4 DEF OtpOutcome, store, Holding
  <2>2. CASE Moves(a, "serve") /\ actor'[a].sub = actor[a].sub /\ last' = last
    BY <2>1, <2>2, DisableMoves
  <2>3. CASE Rests(a) /\ Replies
    BY <2>1, <2>3, DisableRests
  <2>. QED
    BY <1>4, <2>2, <2>3, OtpOutcomeEffect
<1>5. ASSUME NEW a \in Actors, ServeForced(a) PROVE DisableInv'
  <2>1. Rests(a) /\ Replies
    BY <1>5, ServeForcedEffect
  <2>. QED
    BY <1>5, <2>1, DisableRests DEF ServeForced, store
<1>6. ASSUME NEW a \in Actors, RepairVersion(a) PROVE DisableInv'
  <2>1. /\ Moves(a, "serve") /\ actor[a].sub \in Records /\ actor[a].sub.forced = None
        /\ clobbered' = (clobbered \/ sub # actor[a].sub)
    BY <1>6, RepairVersionEffect
  <2>2. UNCHANGED <<barred, last>> /\ actor[a].pc = "serve"
    BY <1>6 DEF RepairVersion
  <2>. QED
    BY <2>1, <2>2, DisableRequestWrites DEF Holding
<1>7. ASSUME NEW a \in Actors, ServeUnchanged(a) PROVE DisableInv'
  <2>1. Rests(a) /\ Replies
    BY <1>7, ServeUnchangedEffect
  <2>. QED
    BY <1>7, <2>1, DisableRests DEF ServeUnchanged, store
<1>8. ASSUME NEW a \in Actors, IssueToken(a) PROVE DisableInv'
  <2>1. Moves(a, "secret") /\ actor'[a].sub = actor[a].sub
    BY <1>8, IssueTokenEffect
  <2>2. UNCHANGED <<sub, barred, clobbered, last>> /\ actor[a].pc \in Holding
    BY <1>8 DEF IssueToken, Ready, Holding
  <2>. QED
    BY <2>1, <2>2, DisableMoves DEF Holding
<1>9. ASSUME NEW a \in Actors, DrawSecret(a) PROVE DisableInv'
  <2>1. /\ Moves(a, "document") /\ actor[a].sub \in Records /\ actor[a].sub.forced = None
        /\ clobbered' = (clobbered \/ sub # actor[a].sub)
    BY <1>9, DrawSecretEffect
  <2>2. UNCHANGED <<barred, last>> /\ actor[a].pc = "secret"
    BY <1>9 DEF DrawSecret
  <2>. QED
    BY <2>1, <2>2, DisableRequestWrites DEF Holding
<1>10. ASSUME NEW a \in Actors, HasSecret(a) PROVE DisableInv'
  <2>1. Moves(a, "document") /\ actor'[a].sub = actor[a].sub
    BY <1>10, HasSecretEffect
  <2>2. UNCHANGED <<sub, barred, clobbered, last>> /\ actor[a].pc \in Holding
    BY <1>10 DEF HasSecret, Quiet, store, Holding
  <2>. QED
    BY <2>1, <2>2, DisableMoves DEF Holding
<1>11. ASSUME NEW a \in Actors, ServeDocument(a) PROVE DisableInv'
  <2>1. Rests(a) /\ last'.late = actor[a].late
    BY <1>11, ServeDocumentEffect
  <2>2. UNCHANGED <<sub, barred, clobbered>> /\ actor[a].pc = "document"
    BY <1>11 DEF ServeDocument, store
  <2>3. actor[a].op = "config" /\ actor[a].sub.forced = None
    BY <2>2 DEF Types, LocalsOK
  <2>4. actor[a].late => clobbered
    BY <2>2, <2>3 DEF DisableInv
  <2>5. OnlyActor(a) /\ actor'[a].pc = "idle" /\ actor'[a].op = None /\ ~actor'[a].late
    BY <2>1, RestedFields DEF Rests
  <2>6. Standing' => Standing
    <3>1. barred' => Standing
      BY <2>2 DEF Standing
    <3>. QED
      BY <2>5, <3>1, StandingKept
  <2>7. actor'[a].op \notin Lifters
    BY <2>5, NoneAssumption DEF Lifters, Calls, Writers
  <2>8. \A b \in Actors \ {a} : actor'[b] = actor[b]
    BY <2>5 DEF OnlyActor
  <2>9. Standing' => \A b \in Actors : actor'[b].op \notin Lifters
    BY <2>6, <2>7, <2>8 DEF DisableInv
  <2>10. Standing' /\ ~clobbered' => sub' = None \/ sub'.forced # None
    BY <2>2, <2>6 DEF DisableInv
  <2>11. \A b \in Actors : actor'[b].op = "config" /\ actor'[b].late => b # a
    BY <2>5
  <2>12. last'.late => clobbered'
    BY <2>1, <2>2, <2>4
  <2>. QED
    BY <2>2, <2>8, <2>9, <2>10, <2>11, <2>12 DEF DisableInv
<1>12. ASSUME NEW a \in Actors, StartOp(a) PROVE DisableInv'
  <2>1. actor'[a].pc = "load" /\ actor'[a].op \in Calls /\ ~actor'[a].late
    BY <1>12, StartOpEffect
  <2>2. ASSUME NEW b \in Actors \ {a}
        PROVE  /\ actor'[b].pc = actor[b].pc /\ actor'[b].op = actor[b].op /\ actor'[b].sub = actor[b].sub
               /\ actor'[b].late => actor[b].late
               /\ actor'[a].op \in Lifters => ~actor'[b].late
    BY <1>12, StartOpEffect
  <2>3. (barred' => barred) /\ (actor'[a].op \in Lifters => ~barred') /\ (actor'[a].op \notin Lifters => barred' = barred)
    BY <1>12, StartOpEffect
  <2>4. UNCHANGED <<sub, last, clobbered>>
    BY <1>12 DEF StartOp, store
  <2>5. CASE actor'[a].op \in Lifters
    <3>1. \A b \in Actors : ~actor'[b].late
      BY <2>1, <2>2, <2>5
    <3>2. ~Standing'
      BY <2>3, <2>5, <3>1 DEF Standing
    <3>. QED
      BY <2>4, <3>1, <3>2 DEF DisableInv
  <2>6. CASE actor'[a].op \notin Lifters
    <3>1. Standing' => Standing
      BY <2>1, <2>2, <2>3 DEF Standing
    <3>2. barred' = barred
      BY <2>3, <2>6
    <3>3. Standing' => \A b \in Actors : actor'[b].op \notin Lifters
      BY <2>2, <2>6, <3>1 DEF DisableInv
    <3>4. Standing' /\ ~clobbered' => sub' = None \/ sub'.forced # None
      BY <2>4, <3>1 DEF DisableInv
    <3>5. ASSUME NEW b \in Actors, actor'[b].op = "config", actor'[b].late
          PROVE  /\ barred'
                 /\ actor'[b].pc \in Holding /\ ~clobbered' => actor'[b].sub.forced # None
      <4>1. b # a
        BY <2>1, <3>5
      <4>. QED
        BY <2>2, <2>4, <3>2, <3>5, <4>1 DEF DisableInv, Holding
    <3>. QED
      BY <2>4, <3>3, <3>4, <3>5 DEF DisableInv, Holding
  <2>. QED
    BY <2>5, <2>6
<1>13. ASSUME NEW a \in Actors, Load(a) PROVE DisableInv'
  <2>1. UNCHANGED <<sub, barred, clobbered, last>>
    BY <1>13 DEF Load, Quiet, store
  <2>2. CASE Rests(a)
    BY <2>1, <2>2, DisableRests
  <2>3. ASSUME NEW p \in {"write", "query", "mint"}, Moves(a, p), p = "query" => actor[a].op # "disable"
        PROVE  DisableInv'
    BY <2>1, <2>3, DisableMoves DEF Holding
  <2>. QED
    BY <1>13, <2>2, <2>3, LoadEffect
<1>14. ASSUME NEW a \in Actors, WriteBack(a) PROVE DisableInv'
  <2>1. UNCHANGED <<barred, last>>
    BY <1>14 DEF WriteBack
  <2>2. /\ actor[a].op \in Writers /\ clobbered' = (clobbered \/ sub # actor[a].sub)
        /\ actor[a].op = "override" => sub' = actor[a].sub
        /\ actor[a].op = "disable" => sub'.forced # None
    BY <1>14, WriteBackEffect
  <2>3. clobbered => clobbered'
    BY <2>2
  <2>4. CASE actor[a].op = "disable"
    <3>1. /\ OnlyActor(a) /\ actor'[a].pc = "query" /\ actor'[a].op = "disable"
          /\ actor'[a].late = (\A b \in Actors : actor[b].op \notin Lifters)
      BY <1>14, <2>4, WriteBackEffect
    <3>2. \A b \in Actors \ {a} : actor'[b] = actor[b]
      BY <3>1 DEF OnlyActor
    <3>3. Standing' => Standing \/ \A b \in Actors : actor[b].op \notin Lifters
      BY <2>1, <3>1, <3>2 DEF Standing
    <3>4. Standing' => \A b \in Actors : actor'[b].op \notin Lifters
      BY <2>4, <3>1, <3>2, <3>3 DEF DisableInv
    <3>5. \A b \in Actors : actor'[b].op = "config" => b # a
      BY <3>1
    <3>. QED
      BY <2>1, <2>2, <2>3, <2>4, <3>2, <3>4, <3>5 DEF DisableInv
  <2>5. CASE actor[a].op # "disable"
    <3>1. OnlyActor(a) /\ actor'[a].pc = "idle" /\ actor'[a].op = None /\ ~actor'[a].late
      BY <1>14, <2>5, WriteBackEffect, RestedFields DEF Rests
    <3>2. actor'[a].op \notin Lifters
      BY <3>1, NoneAssumption DEF Lifters, Calls, Writers
    <3>3. Standing' => Standing
      <4>1. barred' => Standing
        BY <2>1 DEF Standing
      <4>. QED
        BY <3>1, <4>1, StandingKept
    <3>4. ASSUME Standing, ~clobbered' PROVE sub' = None \/ sub'.forced # None
      <4>1. actor[a].op = "override"
        BY <2>2, <2>5, <3>4 DEF DisableInv, Writers, Lifters
      <4>2. sub' = sub /\ ~clobbered
        BY <2>2, <3>4, <4>1
      <4>. QED
        BY <3>4, <4>2 DEF DisableInv
    <3>. QED
      BY <2>1, <2>3, <3>1, <3>2, <3>3, <3>4, DisableKept
  <2>. QED
    BY <2>4, <2>5
<1>15. ASSUME NEW a \in Actors, OperatorToken(a) PROVE DisableInv'
  <2>1. Rests(a)
    BY <1>15, RestEffect DEF OperatorToken, Rests
  <2>. QED
    BY <1>15, <2>1, DisableRests DEF OperatorToken
<1>16. ASSUME NEW a \in Actors, QueryTokens(a) PROVE DisableInv'
  <2>1. Moves(a, "revoke")
    BY <1>16, QueryTokensEffect
  <2>2. UNCHANGED <<sub, barred, clobbered, last>> /\ actor[a].pc = "query"
    BY <1>16 DEF QueryTokens, Quiet, store
  <2>. QED
    BY <2>1, <2>2, DisableMoves DEF Holding
<1>17. ASSUME NEW a \in Actors, RevokeOne(a) PROVE DisableInv'
  <2>1. Moves(a, "revoke")
    BY <1>17, RevokeOneEffect
  <2>2. UNCHANGED <<sub, barred, clobbered, last>> /\ actor[a].pc = "revoke"
    BY <1>17 DEF RevokeOne
  <2>. QED
    BY <2>1, <2>2, DisableMoves DEF Holding
<1>18. ASSUME NEW a \in Actors, FinishRevoke(a) PROVE DisableInv'
  <2>1. UNCHANGED <<sub, last, clobbered>> /\ actor[a].pc = "revoke"
    BY <1>18 DEF FinishRevoke, Revoked, store
  <2>2. barred' = (barred \/ (actor[a].op = "disable" /\ actor[a].late))
    BY <1>18 DEF FinishRevoke
  <2>3. barred' => Standing
    BY <2>1, <2>2 DEF Standing
  <2>4. OnlyActor(a) /\ actor'[a].pc = "idle" /\ actor'[a].op = None /\ ~actor'[a].late
    BY <1>18, RestEffect, RestedFields DEF FinishRevoke
  <2>5. actor'[a].op \notin Lifters
    BY <2>4, NoneAssumption DEF Lifters, Calls, Writers
  <2>6. Standing' => Standing
    BY <2>3, <2>4, StandingKept
  <2>7. Standing /\ ~clobbered' => (sub' = None \/ sub'.forced # None)
    BY <2>1 DEF DisableInv
  <2>8. barred => barred'
    BY <2>2
  <2>. QED
    BY <2>1, <2>4, <2>5, <2>6, <2>7, <2>8, DisableKept
<1>19. ASSUME NEW a \in Actors, Drop(a) PROVE DisableInv'
  <2>1. UNCHANGED <<last, clobbered, barred>> /\ sub' = None
    BY <1>19 DEF Drop
  <2>2. OnlyActor(a) /\ actor'[a].pc = "idle" /\ actor'[a].op = None /\ ~actor'[a].late
    BY <1>19, RestEffect, RestedFields DEF Drop
  <2>3. actor'[a].op \notin Lifters
    BY <2>2, NoneAssumption DEF Lifters, Calls, Writers
  <2>4. barred' => Standing
    BY <2>1 DEF Standing
  <2>5. Standing' => Standing
    BY <2>2, <2>4, StandingKept
  <2>. QED
    BY <2>1, <2>2, <2>3, <2>5, DisableKept
<1>20. ASSUME NEW a \in Actors, Crash(a) PROVE DisableInv'
  <2>1. Rests(a)
    BY <1>20, RestEffect DEF Crash, Rests
  <2>. QED
    BY <1>20, <2>1, DisableRests DEF Crash, Quiet, store
<1>21. CASE CatchUp
  BY <1>21 DEF CatchUp, DisableInv, Standing
<1>22. CASE UNCHANGED vars
  BY <1>22 DEF vars, store, DisableInv, Standing
<1>. QED
  BY <1>1, <1>2, <1>3, <1>4, <1>5, <1>6, <1>7, <1>8, <1>9, <1>10, <1>11, <1>12, <1>13, <1>14,
     <1>15, <1>16, <1>17, <1>18, <1>19, <1>20, <1>21, <1>22 DEF Next

\* Once a disable is answered, and until an operator call that may lift it begins, no
\* request that starts later is served a document, unless a write-back overwrote what its
\* call had not read: crashes, repairs, fresh passwords and overrides lift no disable.
THEOREM DisableStands == Spec => []DisableSticks
<1>. DEFINE Inv == Types /\ DisableInv
<1>1. Init => Inv
  BY TypesInit, DisableInit
<1>2. Inv /\ [Next]_vars => Inv'
  BY TypesStep, DisableStep
<1>3. Inv => DisableSticks
  BY DEF DisableInv, DisableSticks
<1>. QED
  BY <1>1, <1>2, <1>3, PTL DEF Spec

=============================================================================
