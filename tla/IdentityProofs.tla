--------------------------- MODULE IdentityProofs ---------------------------
(***************************************************************************)
(* Theorems about who a request is taken to come from, for any subscribers,  *)
(* numbers, settings and requests, any changes the operator makes while a     *)
(* request is in flight, and any copies of an item that lag behind.           *)
(***************************************************************************)
EXTENDS Identity, WellFoundedInduction, NaturalsInduction, TLAPS

-----------------------------------------------------------------------------
(* What the parameters of a request say.                                     *)

\* A set of positions has a first one.
LEMMA FirstOf ==
    ASSUME NEW S \in SUBSET Nat, S # {}
    PROVE  (CHOOSE i \in S : \A j \in S : i <= j) \in S
<1>. DEFINE R == {ss \in Nat \X Nat : ss[1] < ss[2]}
<1>1. IsWellFoundedOn(R, Nat)
  BY NatLessThanWellFounded DEF OpToRel
<1>2. PICK x \in S : \A y \in S : ~(<<y, x>> \in R)
  <2>. HIDE DEF R
  <2>. QED
    BY <1>1, WFMin
<1>3. ASSUME NEW y \in S PROVE x <= y
  <2>1. x \in Nat /\ y \in Nat
    OBVIOUS
  <2>2. ~(<<y, x>> \in R)
    BY <1>2
  <2>3. ~(y < x)
    BY <2>1, <2>2
  <2>. QED
    BY <2>1, <2>3
<1>. QED
  BY <1>3

\* What a request says in a field is what one of its parameters says.
LEMMA RawIsSent ==
    ASSUME NEW V, NEW params \in Seq(V), NEW field, Raw(params, field) # None
    PROVE  \E p \in ToSet(params) : Field(p[1]) = field /\ Raw(params, field) = p[2]
<1>. DEFINE sent == {i \in DOMAIN params : Field(params[i][1]) = field}
            first == CHOOSE i \in sent : \A j \in sent : i <= j
<1>1. sent # {} /\ Raw(params, field) = params[first][2]
  BY DEF Raw
<1>2. sent \in SUBSET Nat
  OBVIOUS
<1>3. first \in sent
  <2>. HIDE DEF sent
  <2>. QED
    BY <1>1, <1>2, FirstOf
<1>. HIDE DEF first
<1>4. first \in DOMAIN params /\ Field(params[first][1]) = field
  BY <1>3
<1>. QED
  BY <1>1, <1>4 DEF ToSet

\* The parameters of a request are a sequence.
LEMMA ParamsSeq ==
    ASSUME NEW c \in Configs, NEW d \in Subs, NEW r \in Requests(c, d)
    PROVE  \E V : Params(r) \in Seq(V)
<1>. DEFINE V == ToSet(r.query) \cup ToSet(r.form)
<1>1. r.query \in Seq(V) /\ r.form \in Seq(V)
  BY IdentityAssumption
<1>2. Params(r) \in Seq(V)
  <2>. HIDE DEF V
  <2>. QED
    BY <1>1 DEF Params
<1>. QED
  BY <1>2

-----------------------------------------------------------------------------
(* How a number is read.                                                     *)

\* No trunk prefix goes on where the country code ends: a number that starts with the
\* trunk prefix would count as international and be left as it is.
TrunkApart == \A c \in Configs : c.cc # <<>> /\ IsPrefix(c.cc, c.trunk) => c.cc = c.trunk

\* No two subscribers have one number.
NumbersDiffer == \A s, t \in Subs : Number[s] = Number[t] => s = t

\* A prefix agrees position by position, and the rest follows it.
LEMMA PrefixSplits ==
    ASSUME NEW D, NEW a \in Seq(D), NEW b \in Seq(D)
    PROVE  /\ IsPrefix(a, b) <=> Len(a) <= Len(b) /\ \A i \in 1 .. Len(a) : a[i] = b[i]
           /\ IsPrefix(a, b) => b = a \o SubSeq(b, Len(a) + 1, Len(b))
           /\ IsPrefix(a, a \o b) /\ SubSeq(a \o b, Len(a) + 1, Len(a \o b)) = b
<1>1. IsPrefix(a, b) <=> Len(a) <= Len(b) /\ \A i \in 1 .. Len(a) : a[i] = b[i]
  <2>1. ASSUME IsPrefix(a, b), NEW i \in 1 .. Len(a) PROVE a[i] = b[i]
    <3>1. SubSeq(a, 1, Len(a))[i] = SubSeq(b, 1, Len(a))[i]
      BY <2>1 DEF IsPrefix
    <3>2. Len(a) <= Len(b)
      BY <2>1 DEF IsPrefix
    <3>. QED
      BY <3>1, <3>2
  <2>2. ASSUME Len(a) <= Len(b), \A i \in 1 .. Len(a) : a[i] = b[i] PROVE IsPrefix(a, b)
    BY <2>2 DEF IsPrefix
  <2>. QED
    BY <2>1, <2>2 DEF IsPrefix
<1>2. ASSUME IsPrefix(a, b) PROVE b = a \o SubSeq(b, Len(a) + 1, Len(b))
  <2>. DEFINE rest == SubSeq(b, Len(a) + 1, Len(b))
  <2>1. Len(a) <= Len(b) /\ \A i \in 1 .. Len(a) : a[i] = b[i]
    BY <1>1, <1>2
  <2>2. rest \in Seq(D) /\ Len(rest) = Len(b) - Len(a)
        /\ \A i \in 1 .. Len(rest) : rest[i] = b[Len(a) + i]
    BY <2>1
  <2>. HIDE DEF rest
  <2>3. a \o rest \in Seq(D) /\ Len(a \o rest) = Len(b)
    BY <2>1, <2>2
  <2>4. \A i \in 1 .. Len(b) : (a \o rest)[i] = b[i]
    BY <2>1, <2>2, <2>3
  <2>. QED
    BY <2>3, <2>4 DEF rest
<1>3. IsPrefix(a, a \o b) /\ SubSeq(a \o b, Len(a) + 1, Len(a \o b)) = b
  BY DEF IsPrefix
<1>. QED
  BY <1>1, <1>2, <1>3

\* What settings and numbers are made of.
LEMMA Digits ==
    ASSUME NEW c \in Configs, NEW s \in Subs
    PROVE  c.cc \in Seq(0 .. 9) /\ c.trunk \in Seq(0 .. 9) /\ Number[s] \in Seq(0 .. 9)
BY IdentityAssumption

\* A spelling is digits with or without a plus.
LEMMA SpellingsShape ==
    ASSUME NEW c \in Configs, NEW s \in Subs, NEW w \in Spellings(c, s)
    PROVE  w \in [plus : BOOLEAN, digits : Seq(0 .. 9)]
<1>. DEFINE n == Number[s]
            rest == SubSeq(n, Len(c.cc) + 1, Len(n))
<1>1. c.cc \in Seq(0 .. 9) /\ c.trunk \in Seq(0 .. 9) /\ n \in Seq(0 .. 9)
  BY Digits
<1>2. ASSUME IsPrefix(c.cc, n) PROVE c.trunk \o rest \in Seq(0 .. 9)
  <2>. HIDE DEF n
  <2>1. Len(c.cc) <= Len(n)
    BY <1>2 DEF IsPrefix
  <2>2. rest \in Seq(0 .. 9)
    BY <1>1, <2>1
  <2>. HIDE DEF rest
  <2>. QED
    BY <1>1, <2>2
<1>3. \/ w = [plus |-> TRUE, digits |-> n] \/ w = [plus |-> FALSE, digits |-> n]
      \/ IsPrefix(c.cc, n) /\ w = [plus |-> FALSE, digits |-> c.trunk \o rest]
  BY Zenon DEF Spellings
<1>. HIDE DEF n, rest
<1>4. ASSUME NEW plus \in BOOLEAN, NEW digits \in Seq(0 .. 9)
      PROVE  [plus |-> plus, digits |-> digits] \in [plus : BOOLEAN, digits : Seq(0 .. 9)]
  BY Zenon
<1>5. TRUE \in BOOLEAN /\ FALSE \in BOOLEAN
  OBVIOUS
<1>. QED
  BY <1>1, <1>2, <1>3, <1>4, <1>5, Zenon

\* The number of a subscriber in whichever spelling is read as that number, unless it
\* is written without the plus that would tell it from a national one.
LEMMA SpellingsRead ==
    ASSUME TrunkApart, NEW c \in Configs, NEW s \in Subs, NEW w \in Spellings(c, s),
           ~Misread(c, [plus |-> w.plus, digits |-> Number[s]])
    PROVE  Normalise(c, w) = IF Len(Number[s]) \in MIN_DIGITS .. MAX_DIGITS /\ Number[s][1] # 0
                             THEN Number[s] ELSE None
<1>. DEFINE n == Number[s]
            rest == SubSeq(n, Len(c.cc) + 1, Len(n))
            read == IF National(c, w)
                    THEN c.cc \o SubSeq(w.digits, Len(c.trunk) + 1, Len(w.digits))
                    ELSE w.digits
<1>0. c.cc \in Seq(0 .. 9) /\ c.trunk \in Seq(0 .. 9) /\ n \in Seq(0 .. 9)
  BY Digits
<1>1. ~w.plus => c.trunk = <<>> \/ ~IsPrefix(c.trunk, n)
  BY DEF Misread
<1>2. CASE w.digits = n
  <2>1. ~National(c, w)
    BY <1>1, <1>2 DEF National
  <2>. QED
    BY <1>2, <2>1 DEF Normalise
<1>3. CASE /\ c.cc # <<>> /\ c.trunk # <<>> /\ IsPrefix(c.cc, n)
           /\ w.plus = FALSE /\ w.digits = c.trunk \o rest
  <2>1. n = c.cc \o rest /\ rest \in Seq(0 .. 9)
    <3>. HIDE DEF n
    <3>1. n = c.cc \o SubSeq(n, Len(c.cc) + 1, Len(n))
      <4>1. IsPrefix(c.cc, n)
        BY <1>3
      <4>. QED
        BY <1>0, <4>1, PrefixSplits, Zenon
    <3>2. Len(c.cc) <= Len(n)
      BY <1>3 DEF IsPrefix
    <3>3. SubSeq(n, Len(c.cc) + 1, Len(n)) \in Seq(0 .. 9)
      BY <1>0, <3>2
    <3>. QED
      BY <3>1, <3>3
  <2>. HIDE DEF rest
  <2>2. IsPrefix(c.trunk, w.digits) /\ SubSeq(w.digits, Len(c.trunk) + 1, Len(w.digits)) = rest
    <3>1. /\ IsPrefix(c.trunk, c.trunk \o rest)
          /\ SubSeq(c.trunk \o rest, Len(c.trunk) + 1, Len(c.trunk \o rest)) = rest
      BY <1>0, <2>1, PrefixSplits, Zenon
    <3>. QED
      BY <1>3, <3>1
  <2>3. w.digits \in Seq(0 .. 9) /\ c.trunk \o rest \in Seq(0 .. 9)
    BY <1>0, <1>3, <2>1
  <2>4. ~IsPrefix(c.cc, w.digits)
    <3>. SUFFICES ASSUME IsPrefix(c.cc, w.digits) PROVE FALSE
      OBVIOUS
    <3>1. Len(c.cc) \in Nat /\ Len(c.trunk) \in Nat
      BY <1>0
    <3>2. Len(c.cc) <= Len(w.digits) /\ \A i \in 1 .. Len(c.cc) : c.cc[i] = w.digits[i]
      BY <1>0, <2>3, PrefixSplits
    <3>3. \A i \in 1 .. Len(c.trunk) : c.trunk[i] = w.digits[i]
      BY <1>0, <2>2, <2>3, PrefixSplits
    <3>4. CASE Len(c.cc) <= Len(c.trunk)
      <4>1. \A i \in 1 .. Len(c.cc) : c.cc[i] = c.trunk[i]
        BY <3>1, <3>2, <3>3, <3>4
      <4>2. IsPrefix(c.cc, c.trunk)
        BY <1>0, <3>4, <4>1, PrefixSplits
      <4>3. c.cc = c.trunk
        BY <1>3, <4>2 DEF TrunkApart
      <4>. QED
        BY <1>1, <1>3, <4>3
    <3>5. CASE Len(c.trunk) < Len(c.cc)
      <4>1. Len(c.cc) <= Len(n) /\ \A i \in 1 .. Len(c.cc) : c.cc[i] = n[i]
        BY <1>0, <1>3, PrefixSplits
      <4>2. \A i \in 1 .. Len(c.trunk) : c.trunk[i] = n[i]
        BY <3>1, <3>2, <3>3, <3>5, <4>1
      <4>3. Len(c.trunk) <= Len(n)
        <5>1. Len(n) \in Nat
          BY <1>0
        <5>. QED
          BY <3>1, <3>5, <4>1, <5>1
      <4>4. IsPrefix(c.trunk, n)
        BY <1>0, <4>2, <4>3, PrefixSplits
      <4>. QED
        BY <1>1, <1>3, <4>4
    <3>. QED
      BY <3>1, <3>4, <3>5
  <2>5. National(c, w)
    BY <1>3, <2>2, <2>4 DEF National
  <2>6. read = n
    BY <2>1, <2>2, <2>5
  <2>. QED
    BY <2>6 DEF Normalise
<1>4. \/ w.digits = n
      \/ /\ c.cc # <<>> /\ c.trunk # <<>> /\ IsPrefix(c.cc, n)
         /\ w.plus = FALSE /\ w.digits = c.trunk \o rest
  <2>1. CASE w \in {[plus |-> TRUE, digits |-> n], [plus |-> FALSE, digits |-> n]}
    <3>. HIDE DEF n, rest
    <3>1. w.digits = n
      BY <2>1
    <3>. QED
      BY <3>1
  <2>2. CASE /\ c.cc # <<>> /\ c.trunk # <<>> /\ IsPrefix(c.cc, n)
             /\ w = [plus |-> FALSE, digits |-> c.trunk \o rest]
    <3>. HIDE DEF n, rest
    <3>1. w.plus = FALSE /\ w.digits = c.trunk \o rest
      BY <2>2
    <3>. QED
      BY <2>2, <3>1
  <2>. QED
    BY <2>1, <2>2, Zenon DEF Spellings
<1>. QED
  BY <1>2, <1>3, <1>4

-----------------------------------------------------------------------------
(* What each step of the chain does.                                         *)

\* A request in the chain, written out.
IsReq(r) ==
    r = [pc |-> r.pc, device |-> r.device, task |-> r.task, sent |-> r.sent,
         nonce |-> r.nonce, sub |-> r.sub]

\* A step never touches what was sent, by whom and to which task.
Kept ==
    /\ IsReq(req')
    /\ req'.device = req.device /\ req'.task = req.task
    /\ req'.sent = req.sent /\ req'.nonce = req.nonce

Moved(pc, s) == Kept /\ req'.pc = pc /\ req'.sub = s /\ answer' = answer

Answered(kind, as, method, detail) ==
    /\ Kept /\ req'.pc = "done"
    /\ answer'.kind = kind /\ answer'.as = as
    /\ answer'.method = method /\ answer'.detail = detail

Fails(detail) == \E kind \in {"511", "401"} : Answered(kind, None, "none", detail)

Proving(s, method, orphan) ==
    \/ "absent" \in Records(s) /\ Fails(orphan)
    \/ "barred" \in Records(s) /\ Answered("403", s, method, "not_entitled")
    \/ "entitled" \in Records(s) /\ Moved(method, s)

Considering(s) ==
    \/ "barred" \in Records(s) /\ Answered("403", s, "claim", "not_entitled")
    \/ Answered("403", s, "claim", "imei_not_allowed")
    \/ "entitled" \in Records(s) /\ Moved("candidate-known", s)

LEMMA GoMoves == ASSUME IsReq(req), NEW pc, Go(pc) PROVE Moved(pc, req.sub)
<1>. DEFINE r == req
<1>1. r = [pc |-> r.pc, device |-> r.device, task |-> r.task, sent |-> r.sent,
           nonce |-> r.nonce, sub |-> r.sub]
  BY DEF IsReq
<1>2. req' = [r EXCEPT !.pc = pc] /\ answer' = answer
  BY DEF Go
<1>3. req' = [pc |-> pc, device |-> r.device, task |-> r.task, sent |-> r.sent,
              nonce |-> r.nonce, sub |-> r.sub]
  <2>. HIDE DEF r
  <2>. QED
    BY <1>1, <1>2
<1>. QED
  BY <1>2, <1>3 DEF Moved, Kept, IsReq

LEMMA GoAsMoves == ASSUME IsReq(req), NEW pc, NEW s, GoAs(pc, s) PROVE Moved(pc, s)
<1>. DEFINE r == req
<1>1. r = [pc |-> r.pc, device |-> r.device, task |-> r.task, sent |-> r.sent,
           nonce |-> r.nonce, sub |-> r.sub]
  BY DEF IsReq
<1>2. req' = [r EXCEPT !.pc = pc, !.sub = s] /\ answer' = answer
  BY DEF GoAs
<1>3. req' = [pc |-> pc, device |-> r.device, task |-> r.task, sent |-> r.sent,
              nonce |-> r.nonce, sub |-> s]
  <2>. HIDE DEF r
  <2>. QED
    BY <1>1, <1>2
<1>. QED
  BY <1>2, <1>3 DEF Moved, Kept, IsReq

LEMMA AnswerAnswers ==
    ASSUME IsReq(req), NEW kind, NEW as, NEW method, NEW detail, Answer(kind, as, method, detail)
    PROVE  Answered(kind, as, method, detail)
<1>. DEFINE r == req
<1>1. r = [pc |-> r.pc, device |-> r.device, task |-> r.task, sent |-> r.sent,
           nonce |-> r.nonce, sub |-> r.sub]
  BY DEF IsReq
<1>2. req' = [r EXCEPT !.pc = "done"]
  BY DEF Answer
<1>3. req' = [pc |-> "done", device |-> r.device, task |-> r.task, sent |-> r.sent,
              nonce |-> r.nonce, sub |-> r.sub]
  <2>. HIDE DEF r
  <2>. QED
    BY <1>1, <1>2
<1>4. Kept /\ req'.pc = "done"
  BY <1>3 DEF Kept, IsReq
<1>. QED
  BY <1>4 DEF Answer, Answered

LEMMA UnresolvedFails == ASSUME IsReq(req), NEW detail, Unresolved(detail) PROVE Fails(detail)
BY AnswerAnswers DEF Unresolved, Fails

RecordStates == {"absent", "barred", "entitled"}

\* The items that lookups read.
lines == <<records, listed, pastRecords, pastListed>>

RecordsOK ==
    /\ records \in [Subs -> RecordStates] /\ pastRecords \in [Subs -> SUBSET RecordStates]
    /\ listed \in [Subs -> BOOLEAN] /\ pastListed \in [Subs -> SUBSET BOOLEAN]

\* What a read of an MSISDN item can say of a subscriber.
Names(s) == {listed[s]} \cup pastListed[s]

LEMMA RecordsRead == ASSUME RecordsOK, NEW s \in Subs PROVE Records(s) \subseteq RecordStates
BY DEF RecordsOK, Records

\* The subscriber that was proven is looked at once more.
LEMMA ProveProves ==
    ASSUME IsReq(req), NEW s, NEW method, NEW orphan, Prove(s, method, orphan)
    PROVE  Proving(s, method, orphan)
<1>1. PICK record \in Records(s) :
         \/ record = "absent" /\ Unresolved(orphan)
         \/ record = "barred" /\ Answer("403", s, method, "not_entitled")
         \/ record = "entitled" /\ GoAs(method, s)
  BY DEF Prove
<1>. QED
  BY <1>1, UnresolvedFails, AnswerAnswers, GoAsMoves DEF Proving

LEMMA ConsiderConsiders ==
    ASSUME IsReq(req), RecordsOK, NEW s \in Subs, NEW record \in Records(s), record # "absent",
           Consider(s, record)
    PROVE  Considering(s)
<1>1. record \in {"barred", "entitled"}
  BY RecordsRead DEF RecordStates
<1>2. CASE record = "barred"
  BY <1>2, AnswerAnswers DEF Consider, Considering
<1>3. CASE record # "barred" /\ ~ImeiAllowed(s)
  BY <1>3, AnswerAnswers DEF Consider, Considering
<1>4. CASE record # "barred" /\ ImeiAllowed(s)
  BY <1>1, <1>4, GoAsMoves DEF Consider, Considering
<1>. QED
  BY <1>2, <1>3, <1>4

\* An MSISDN item names a subscriber with the number, or a read can miss them all.
LEMMA HoldersHold ==
    ASSUME NEW digits, NEW s \in Holders(digits)
    PROVE  \/ s = None /\ \A t \in Subs : Number[t] = digits => FALSE \in Names(t)
           \/ s # None /\ s \in Subs /\ Number[s] = digits
BY IdentityAssumption DEF Holders, Names

LEMMA TokenEffect ==
    ASSUME IsReq(req), CheckToken
    PROVE  \/ query.token = None /\ Moved("enrichment", req.sub)
           \/ query.token # None /\ query.token \in Subs /\ Moved("token-holder", query.token)
           \/ query.token # None /\ Fails("token_invalid")
<1>1. CASE query.token = None
  BY <1>1, GoMoves DEF CheckToken
<1>2. CASE query.token # None
  <2>1. PICK token \in Tokens(query.token) :
           IF TokenValid(token) THEN GoAs("token-holder", query.token) ELSE TokenRefused
    BY <1>2 DEF CheckToken
  <2>2. TokenValid(token) => query.token \in Subs
    BY DEF TokenValid, Tokens
  <2>. QED
    BY <1>2, <2>1, <2>2, GoAsMoves, UnresolvedFails DEF TokenRefused
<1>. QED
  BY <1>1, <1>2

LEMMA EnrichmentEffect ==
    ASSUME IsReq(req), CheckEnrichment
    PROVE  \/ Enriched(config, req.sent) = None /\ Moved("gba", req.sub)
           \/ Fails("enriched_msisdn_unknown")
           \/ \E s \in Subs : /\ Enriched(config, req.sent) # None
                              /\ Number[s] = Enriched(config, req.sent)
                              /\ Moved("line-holder", s)
<1>. DEFINE digits == Enriched(config, req.sent)
<1>1. CASE digits = None
  BY <1>1, GoMoves DEF CheckEnrichment
<1>2. CASE digits # None
  <2>1. PICK s \in Holders(digits) : IF s = None THEN Unresolved("enriched_msisdn_unknown")
                                     ELSE GoAs("line-holder", s)
    BY <1>2 DEF CheckEnrichment
  <2>. HIDE DEF digits
  <2>. QED
    BY <1>2, <2>1, HoldersHold, UnresolvedFails, GoAsMoves DEF digits
<1>. QED
  BY <1>1, <1>2

\* What a header that does not verify is answered with.
GbaRefusals == {"not_digest", "incomplete", "nonce_invalid", "btid_unknown", "response_mismatch"}

LEMMA VerdictCases ==
    ASSUME NEW a, NEW n, NEW task
    PROVE  /\ Verdict(a, n, task) \in GbaRefusals \cup {"verified"}
           /\ Verdict(a, n, task) = "verified" => a.btid = a.key
<1>1. CASE ~a.digest \/ ~a.complete \/ n = None \/ ~NonceAge(Clock(task) - n.stamp)
  BY <1>1 DEF Verdict, GbaRefusals
<1>2. CASE a.digest /\ a.complete /\ ~(n = None \/ ~NonceAge(Clock(task) - n.stamp))
  BY <1>2 DEF Verdict, GbaRefusals
<1>. QED
  BY <1>1, <1>2

LEMMA GbaEffect ==
    ASSUME IsReq(req), CheckGba
    PROVE  \/ (config.gba = "off" \/ req.sent.auth = None) /\ Moved("candidate", req.sub)
           \/ /\ config.gba # "off" /\ req.sent.auth # None
              /\ \/ \E detail \in GbaRefusals : Fails(detail)
                 \/ Answered("500", None, "none", "unconfigured")
                 \/ req.sent.auth.btid = req.sent.auth.key /\ Moved("gba-holder", req.sent.auth.btid)
<1>. DEFINE a == req.sent.auth
            verdict == Verdict(a, req.nonce, req.task)
<1>1. CASE config.gba = "off" \/ a = None
  BY <1>1, GoMoves DEF CheckGba
<1>2. CASE config.gba # "off" /\ a # None
  <2>1. verdict \in GbaRefusals \cup {"verified"} /\ (verdict = "verified" => a.btid = a.key)
    BY VerdictCases
  <2>2. IF verdict \in {"not_digest", "incomplete", "nonce_invalid"} THEN Unresolved(verdict)
        ELSE IF config.gba = "unconfigured"
             THEN Answer("500", None, "none", "unconfigured")
             ELSE IF verdict = "verified" THEN GoAs("gba-holder", a.btid)
                  ELSE Unresolved(verdict)
    BY <1>2 DEF CheckGba
  <2>. HIDE DEF verdict, a
  <2>3. \/ verdict \in GbaRefusals /\ Unresolved(verdict)
        \/ Answer("500", None, "none", "unconfigured")
        \/ a.btid = a.key /\ GoAs("gba-holder", a.btid)
    BY <2>1, <2>2 DEF GbaRefusals
  <2>4. \/ \E detail \in GbaRefusals : Fails(detail)
        \/ Answered("500", None, "none", "unconfigured")
        \/ a.btid = a.key /\ Moved("gba-holder", a.btid)
    BY <2>3, UnresolvedFails, AnswerAnswers, GoAsMoves
  <2>. QED
    BY <1>2, <2>4 DEF a
<1>. QED
  BY <1>1, <1>2

LEMMA ByImsiEffect ==
    ASSUME IsReq(req), RecordsOK, ByImsi
    PROVE  \/ query.imsi \in Subs /\ Considering(query.imsi)
           \/ /\ query.imsi \in Subs => "absent" \in Records(query.imsi)
              /\ Moved("by-number", req.sub)
<1>1. ASSUME query.imsi \in Subs, NEW record \in Records(query.imsi) \ {"absent"},
             Consider(query.imsi, record)
      PROVE  Considering(query.imsi)
  BY <1>1, ConsiderConsiders
<1>. QED
  BY <1>1, GoMoves DEF ByImsi

LEMMA ByNumberEffect ==
    ASSUME IsReq(req), ByNumber
    PROVE  \/ /\ query.msisdn # None =>
                    \A s \in Subs : Number[s] = query.msisdn => FALSE \in Names(s)
              /\ Fails("subscriber_unknown")
           \/ \E s \in Subs : /\ query.msisdn # None /\ Number[s] = query.msisdn
                              /\ Moved("number-holder", s)
<1>1. PICK s \in IF query.msisdn = None THEN {None} ELSE Holders(query.msisdn) :
         IF s = None THEN Unresolved("subscriber_unknown") ELSE GoAs("number-holder", s)
  BY DEF ByNumber
<1>2. CASE query.msisdn = None
  BY <1>1, <1>2, UnresolvedFails
<1>3. CASE query.msisdn # None
  BY <1>1, <1>3, HoldersHold, UnresolvedFails, GoAsMoves
<1>. QED
  BY <1>2, <1>3

LEMMA NumberHolderEffect ==
    ASSUME IsReq(req), RecordsOK, req.sub \in Subs, NumberHolder
    PROVE  \/ "absent" \in Records(req.sub) /\ Fails("subscriber_unknown")
           \/ Considering(req.sub)
<1>1. PICK record \in Records(req.sub) :
         IF record = "absent" THEN Unresolved("subscriber_unknown") ELSE Consider(req.sub, record)
  BY DEF NumberHolder
<1>. QED
  BY <1>1, UnresolvedFails, ConsiderConsiders

LEMMA CodeEffect ==
    ASSUME IsReq(req), CheckCode
    PROVE  \/ query.otp = req.sub /\ Moved("by-otp", req.sub)
           \/ Fails("otp")
<1>1. CASE CodeMatches(req.sub) /\ Go("by-otp")
  BY <1>1, GoMoves DEF CodeMatches
<1>2. CASE Unresolved("otp")
  BY <1>2, UnresolvedFails
<1>. QED
  BY <1>1, <1>2 DEF CheckCode

LEMMA LastEffect ==
    ASSUME IsReq(req), Challenge \/ Serve
    PROVE  \/ Challenge /\ \E kind \in {"pending", "later"} : Answered(kind, req.sub, "claim", "none")
           \/ Serve /\ Answered("served", req.sub, req.pc, "none")
<1>1. CASE Challenge
  <2>1. \E kind \in {"pending", "later"} : Answer(kind, req.sub, "claim", "none")
    BY <1>1 DEF Challenge
  <2>. QED
    BY <1>1, <2>1, AnswerAnswers
<1>2. CASE Serve
  BY <1>2, AnswerAnswers DEF Serve
<1>. QED
  BY <1>1, <1>2

\* A request that a device sends is refused while it is parsed, or enters the chain.
Entered(d, r) ==
    /\ r \in Requests(config, d) /\ Holds(d, r)
    /\ IsReq(req') /\ req'.device = d /\ req'.sent = r /\ req'.task \in DOMAIN config.ahead
    /\ req'.nonce = IF r.auth # None /\ r.auth.answers THEN nonce ELSE None
    /\ \/ /\ Malformed(config, Params(r)) /\ req'.pc = "done"
          /\ answer'.kind = "400" /\ answer'.as = None
          /\ answer'.method = "none" /\ answer'.detail = "none"
       \/ ~Malformed(config, Params(r)) /\ req'.pc = "token" /\ answer' = NoAnswer

LEMMA SendEffect ==
    ASSUME NEW d \in Subs, Send(d)
    PROVE  \E r : Entered(d, r)
<1>1. PICK r \in {sent \in Requests(config, d) : Holds(d, sent)}, task \in DOMAIN config.ahead :
         LET q == [pc |-> "token", device |-> d, task |-> task, sent |-> r, sub |-> None,
                   nonce |-> IF r.auth # None /\ r.auth.answers THEN nonce ELSE None]
         IN  IF Malformed(config, Params(r))
             THEN /\ req' = [q EXCEPT !.pc = "done"]
                  /\ answer' = [NoAnswer EXCEPT !.kind = "400"]
             ELSE /\ req' = q
                  /\ answer' = NoAnswer
  BY DEF Send
<1>. DEFINE drawn == IF r.auth # None /\ r.auth.answers THEN nonce ELSE None
            q(pc) == [pc |-> pc, device |-> d, task |-> task, sent |-> r, sub |-> None, nonce |-> drawn]
<1>2. \A pc : /\ IsReq(q(pc)) /\ q(pc).device = d /\ q(pc).sent = r /\ q(pc).task = task
              /\ q(pc).nonce = drawn /\ q(pc).pc = pc
              /\ [q(pc) EXCEPT !.pc = "done"] = q("done")
  <2>. HIDE DEF drawn
  <2>. QED
    BY DEF IsReq
<1>3. [NoAnswer EXCEPT !.kind = "400"].kind = "400" /\ [NoAnswer EXCEPT !.kind = "400"].as = None
      /\ [NoAnswer EXCEPT !.kind = "400"].method = "none"
      /\ [NoAnswer EXCEPT !.kind = "400"].detail = "none"
  BY DEF NoAnswer
<1>4. CASE Malformed(config, Params(r))
  <2>1. req' = q("done") /\ answer' = [NoAnswer EXCEPT !.kind = "400"]
    BY <1>1, <1>2, <1>4
  <2>. HIDE DEF q
  <2>2. Entered(d, r)
    BY <1>2, <1>3, <1>4, <2>1 DEF Entered
  <2>. QED
    BY <2>2
<1>5. CASE ~Malformed(config, Params(r))
  <2>1. req' = q("token") /\ answer' = NoAnswer
    BY <1>1, <1>5
  <2>. HIDE DEF q
  <2>2. Entered(d, r)
    BY <1>2, <1>5, <2>1 DEF Entered
  <2>. QED
    BY <2>2
<1>. QED
  BY <1>4, <1>5

\* The steps of the chain.
Chain ==
    \/ CheckToken \/ TokenHolder \/ CheckEnrichment \/ LineHolder \/ CheckGba \/ GbaHolder
    \/ ByImsi \/ ByNumber \/ NumberHolder \/ CheckCode \/ Challenge \/ Serve

LEMMA ChainRest == ASSUME Chain PROVE UNCHANGED <<config, lines, was, shown, now>>
BY DEF Chain, CheckToken, TokenHolder, CheckEnrichment, LineHolder, CheckGba, GbaHolder, ByImsi, ByNumber,
       NumberHolder, CheckCode, Challenge, Serve, Rest, store, lines

\* A write to the store, or copies of it that catch up.
StoreStep(s) == Change(s) \/ Reindex(s) \/ CatchUp(s)

LEMMA StoreRest ==
    ASSUME NEW s \in Subs, StoreStep(s)
    PROVE  UNCHANGED <<config, req, answer, nonce, shown, now>>
BY DEF StoreStep, Change, Reindex, CatchUp

LEMMA StepCases ==
    ASSUME [Next]_vars
    PROVE  \/ \E d \in Subs : Send(d)
           \/ Chain
           \/ Finish
           \/ (\E s \in Subs : StoreStep(s)) /\ UNCHANGED <<config, req, answer, nonce, shown>>
           \/ UNCHANGED <<config, lines, was, shown, req, answer, nonce>>
<1>1. ASSUME NEW s \in Subs, StoreStep(s) PROVE UNCHANGED <<config, req, answer, nonce, shown>>
  BY <1>1, StoreRest
<1>2. ASSUME NEW s \in Subs, Invalidate(s)
      PROVE  UNCHANGED <<config, lines, was, shown, req, answer, nonce>>
  BY <1>2 DEF Invalidate, lines
<1>3. ASSUME Tick PROVE UNCHANGED <<config, lines, was, shown, req, answer, nonce>>
  BY <1>3 DEF Tick, world, store, lines
<1>4. ASSUME UNCHANGED vars PROVE UNCHANGED <<config, lines, was, shown, req, answer, nonce>>
  BY <1>4 DEF vars, world, store, lines
<1>. QED
  BY <1>1, <1>2, <1>3, <1>4 DEF Next, Chain, StoreStep

LEMMA StoreTypes == ASSUME RecordsOK, NEW s \in Subs, StoreStep(s) PROVE RecordsOK'
<1>1. CASE Change(s)
  BY <1>1 DEF Change, RecordsOK, RecordStates
<1>2. CASE Reindex(s)
  <2>1. (records[s] # "absent") \in BOOLEAN
    OBVIOUS
  <2>. QED
    BY <1>2, <2>1 DEF Reindex, RecordsOK
<1>3. CASE CatchUp(s)
  BY <1>3 DEF CatchUp, RecordsOK
<1>. QED
  BY <1>1, <1>2, <1>3 DEF StoreStep

-----------------------------------------------------------------------------
(* What is known of a request at each step of the chain.                     *)

\* The subscriber that the chain has found so far, before its record is read and after.
Holding == {"token-holder", "line-holder", "gba-holder", "number-holder"}

Found == Holding \cup {"candidate-known", "by-token", "by-enrichment", "by-gba", "by-otp"}

Pcs == {"idle", "token", "enrichment", "gba", "candidate", "by-number", "done"} \cup Found

\* The shape of the state. The sender holds what it shows, and an answer is there
\* when the request is done.
Types ==
    /\ config \in Configs
    /\ RecordsOK
    /\ IsReq(req) /\ req.pc \in Pcs
    /\ req.pc # "idle" => /\ req.device \in Subs /\ req.sent \in Requests(config, req.device)
                          /\ Holds(req.device, req.sent)
    /\ req.pc \notin {"idle", "done"} => ~Malformed(config, Params(req.sent))
    /\ req.pc # "done" => answer = NoAnswer
    /\ req.pc \in Found => req.sub \in Subs

\* A step of the chain leaves what was sent as it is, and moves to a step or answers.
LEMMA ChainKeeps ==
    ASSUME Types, Chain
    PROVE  /\ Kept /\ req.pc \notin {"idle", "done"}
           /\ req'.pc \in Pcs \ {"idle"}
           /\ req'.pc # "done" => answer' = answer
           /\ req'.pc \in Found => req'.sub \in Subs
<1>. DEFINE Goal == /\ Kept
                    /\ req'.pc \in Pcs \ {"idle"}
                    /\ req'.pc # "done" => answer' = answer
                    /\ req'.pc \in Found => req'.sub \in Subs
<1>0. IsReq(req) /\ RecordsOK /\ (req.pc \in Found => req.sub \in Subs) /\ (req.pc # "idle" => req.device \in Subs)
      /\ (req.pc # "idle" => Holds(req.device, req.sent))
  BY DEF Types
<1>1. ASSUME NEW pc \in Pcs \ {"idle"}, NEW s, pc \in Found => s \in Subs, Moved(pc, s) PROVE Goal
  BY <1>1 DEF Moved
<1>2. ASSUME NEW kind, NEW as, NEW method, NEW detail, Answered(kind, as, method, detail) PROVE Goal
  BY <1>2 DEF Answered, Pcs, Found, Holding
<1>3. ASSUME NEW detail, Fails(detail) PROVE Goal
  BY <1>2, <1>3 DEF Fails
<1>4. ASSUME NEW s \in Subs, NEW method \in Found, NEW orphan, Proving(s, method, orphan) PROVE Goal
  BY <1>1, <1>2, <1>3, <1>4 DEF Proving, Pcs, Found, Holding
<1>5. ASSUME NEW s \in Subs, Considering(s) PROVE Goal
  BY <1>1, <1>2, <1>5 DEF Considering, Pcs, Found, Holding
<1>. HIDE DEF Goal
<1>a. /\ {"enrichment", "gba", "candidate", "by-number"} \subseteq Pcs \ {"idle"}
      /\ \A pc \in {"enrichment", "gba", "candidate", "by-number"} : pc \notin Found
      /\ Found \subseteq Pcs \ {"idle"}
      /\ {"token-holder", "line-holder", "gba-holder", "number-holder", "by-otp"} \subseteq Found
  BY DEF Pcs, Found, Holding
<1>6. ASSUME CheckToken PROVE Goal
  BY <1>0, <1>1, <1>3, <1>6, TokenEffect, <1>a
<1>7. ASSUME TokenHolder \/ LineHolder \/ GbaHolder PROVE Goal
  <2>1. req.sub \in Subs
    BY <1>0, <1>7 DEF TokenHolder, LineHolder, GbaHolder, At, Found, Holding
  <2>2. \E method \in Found : \E orphan : Proving(req.sub, method, orphan)
    BY <1>0, <1>7, ProveProves DEF TokenHolder, LineHolder, GbaHolder, Found
  <2>. QED
    BY <1>4, <2>1, <2>2
<1>8. ASSUME CheckEnrichment PROVE Goal
  BY <1>0, <1>1, <1>3, <1>8, EnrichmentEffect, <1>a
<1>9. ASSUME CheckGba PROVE Goal
  <2>1. req.pc = "gba"
    BY <1>9 DEF CheckGba, At
  <2>2. req.device \in Subs /\ (req.sent.auth # None => req.sent.auth.key = req.device)
    BY <1>0, <2>1 DEF Holds
  <2>. QED
    BY <1>0, <1>1, <1>2, <1>3, <1>9, <2>2, GbaEffect, <1>a
<1>10. ASSUME ByImsi PROVE Goal
  BY <1>0, <1>1, <1>5, <1>10, ByImsiEffect, <1>a
<1>11. ASSUME ByNumber \/ NumberHolder PROVE Goal
  <2>1. NumberHolder => req.sub \in Subs
    BY <1>0 DEF NumberHolder, At, Found, Holding
  <2>. QED
    BY <1>0, <1>1, <1>3, <1>5, <1>11, <2>1, ByNumberEffect, NumberHolderEffect, <1>a
<1>12. ASSUME CheckCode PROVE Goal
  <2>1. req.sub \in Subs
    BY <1>0, <1>12 DEF CheckCode, At, Found
  <2>. QED
    BY <1>0, <1>1, <1>3, <1>12, <2>1, CodeEffect, <1>a
<1>13. ASSUME Challenge \/ Serve PROVE Goal
  BY <1>0, <1>2, <1>13, LastEffect
<1>14. req.pc \notin {"idle", "done"}
  BY DEF Chain, CheckToken, TokenHolder, CheckEnrichment, LineHolder, CheckGba, GbaHolder, ByImsi, ByNumber,
       NumberHolder, CheckCode, Challenge, Serve, At
<1>. QED
  BY <1>6, <1>7, <1>8, <1>9, <1>10, <1>11, <1>12, <1>13, <1>14 DEF Chain, Goal

LEMMA SendRest ==
    ASSUME NEW d \in Subs, Send(d)
    PROVE  /\ UNCHANGED <<config, lines, nonce>>
           /\ was' = [s \in Subs |-> Facts({records[s]}, {listed[s]})]
           /\ shown' = [s \in Subs |-> Facts(pastRecords[s], pastListed[s])]
BY DEF Send, world, store, lines

LEMMA FinishRest ==
    ASSUME Finish
    PROVE  /\ UNCHANGED <<config, lines, nonce>>
           /\ was' = [s \in Subs |-> {}] /\ shown' = [s \in Subs |-> {}]
           /\ req' = NoRequest /\ answer' = NoAnswer
BY DEF Finish, world, store, lines

\* What a request asks for does not change while it is in the chain.
LEMMA QueryKept == ASSUME Kept, config' = config PROVE query' = query
BY DEF Kept, query

LEMMA NoRequestIdle == IsReq(NoRequest) /\ NoRequest.pc = "idle"
BY DEF NoRequest, IsReq

LEMMA TypesStep == Types /\ [Next]_vars => Types'
<1>. SUFFICES ASSUME Types, [Next]_vars PROVE Types'
  OBVIOUS
<1>1. ASSUME NEW d \in Subs, Send(d) PROVE Types'
  <2>1. PICK r : Entered(d, r)
    BY <1>1, SendEffect
  <2>2. config' = config /\ lines' = lines
    BY <1>1, SendRest
  <2>3. Holds(d, r)' = Holds(d, r)
    BY <2>2 DEF Holds, Spellings
  <2>. QED
    BY <2>1, <2>2, <2>3 DEF Types, Entered, RecordsOK, lines, Pcs, Found, Holding, Holds
<1>2. CASE Chain
  <2>1. config' = config /\ lines' = lines
    BY <1>2, ChainRest
  <2>2. /\ Kept /\ req.pc \notin {"idle", "done"}
        /\ req'.pc \in Pcs \ {"idle"}
        /\ req'.pc # "done" => answer' = answer
        /\ req'.pc \in Found => req'.sub \in Subs
    BY <1>2, ChainKeeps
  <2>3. Holds(req.device, req.sent)' = Holds(req.device, req.sent)
    BY <2>1, <2>2 DEF Holds, Spellings, Kept
  <2>. QED
    BY <2>1, <2>2, <2>3 DEF Types, Kept, RecordsOK, lines
<1>3. CASE Finish
  BY <1>3, FinishRest, NoRequestIdle DEF Types, RecordsOK, lines, Pcs, Found, Holding
<1>4. ASSUME NEW s \in Subs, StoreStep(s), UNCHANGED <<config, req, answer>> PROVE Types'
  <2>1. RecordsOK'
    BY <1>4, StoreTypes DEF Types
  <2>2. Holds(req.device, req.sent)' = Holds(req.device, req.sent)
    BY <1>4 DEF Holds, Spellings
  <2>. QED
    BY <1>4, <2>1, <2>2 DEF Types
<1>5. CASE UNCHANGED <<config, lines, was, shown, req, answer, nonce>>
  <2>1. Holds(req.device, req.sent)' = Holds(req.device, req.sent)
    BY <1>5 DEF Holds, Spellings
  <2>. QED
    BY <1>5, <2>1 DEF Types, RecordsOK, lines
<1>. QED
  BY <1>1, <1>2, <1>3, <1>4, <1>5, StepCases

LEMMA TypesInit == Init => Types
BY NoRequestIdle DEF Init, Types, RecordsOK, RecordStates, Pcs, Found, Holding

-----------------------------------------------------------------------------
(* Evidence that is refused is not made up for.                              *)

\* A step past the token is taken without one, and one past GBA where it is off or no
\* header was sent: every refusal on the way is an answer.
EvidenceKept ==
    /\ req.pc \in {"token-holder", "by-token"} => query.token # None
    /\ req.pc \in Pcs \ {"idle", "done", "token", "token-holder", "by-token"} => query.token = None
    /\ req.pc \in {"candidate", "by-number", "number-holder", "candidate-known", "by-otp"} =>
          config.gba = "off" \/ req.sent.auth = None

EvidenceInv == Types /\ EvidenceKept /\ NeverWeaker

\* An answer other than a configuration or a code is never the weaker one.
LEMMA EvidenceChain == ASSUME EvidenceInv, Chain PROVE EvidenceKept' /\ NeverWeaker'
<1>0. IsReq(req) /\ RecordsOK /\ config' = config /\ query' = query /\ req'.sent = req.sent
      /\ (req.pc \in Found => req.sub \in Subs) /\ req.pc \notin {"idle", "done"}
  BY ChainKeeps, ChainRest, QueryKept DEF EvidenceInv, Types, Kept
<1>. DEFINE Goal == EvidenceKept' /\ NeverWeaker'
            Given == /\ req.pc \in {"token-holder", "by-token"} => query.token # None
                     /\ req.pc \in Pcs \ {"idle", "done", "token", "token-holder", "by-token"}
                           => query.token = None
                     /\ req.pc \in {"candidate", "by-number", "number-holder", "candidate-known", "by-otp"} =>
                           config.gba = "off" \/ req.sent.auth = None
<1>1. Given /\ answer = NoAnswer
  BY <1>0 DEF EvidenceInv, EvidenceKept, Types
<1>2. ASSUME NEW kind, kind \notin {"served", "pending", "later"}, NEW as, NEW method, NEW detail,
             Answered(kind, as, method, detail)
      PROVE  Goal
  BY <1>2 DEF Answered, EvidenceKept, NeverWeaker
<1>3. ASSUME NEW detail, Fails(detail) PROVE Goal
  BY <1>2, <1>3 DEF Fails
<1>4. ASSUME NEW pc, NEW s, Moved(pc, s),
             pc \in {"token-holder", "by-token"} => query.token # None,
             pc \notin {"token-holder", "by-token"} => query.token = None,
             pc \in {"candidate", "by-number", "number-holder", "candidate-known", "by-otp"} =>
                 config.gba = "off" \/ req.sent.auth = None
      PROVE  Goal
  <2>1. answer' = NoAnswer /\ req'.pc = pc
    BY <1>1, <1>4 DEF Moved
  <2>. QED
    BY <1>0, <1>4, <2>1 DEF EvidenceKept, NeverWeaker, NoAnswer
<1>5. ASSUME NEW s, NEW method, NEW orphan, Proving(s, method, orphan),
             method \in {"token-holder", "by-token"} => query.token # None,
             method \notin {"token-holder", "by-token"} => query.token = None,
             method \in {"candidate", "by-number", "number-holder", "candidate-known", "by-otp"} =>
                 config.gba = "off" \/ req.sent.auth = None
      PROVE  Goal
  BY <1>2, <1>3, <1>4, <1>5 DEF Proving
<1>6. ASSUME NEW s, Considering(s), query.token = None, config.gba = "off" \/ req.sent.auth = None
      PROVE  Goal
  BY <1>2, <1>4, <1>6 DEF Considering
<1>. HIDE DEF Goal
<1>7. ASSUME req.pc \in {"enrichment", "line-holder", "gba", "gba-holder", "candidate", "by-number",
                         "number-holder", "candidate-known", "by-enrichment", "by-gba", "by-otp"}
      PROVE  query.token = None
  BY <1>1, <1>7 DEF Pcs, Found, Holding
<1>8. ASSUME CheckToken PROVE Goal
  BY <1>0, <1>3, <1>4, <1>8, TokenEffect
<1>9. ASSUME TokenHolder PROVE Goal
  <2>1. req.pc = "token-holder" /\ Prove(req.sub, "by-token", "token_orphaned")
    BY <1>9 DEF TokenHolder, At
  <2>2. Proving(req.sub, "by-token", "token_orphaned")
    BY <1>0, <2>1, ProveProves
  <2>. QED
    BY <1>1, <1>5, <2>1, <2>2
<1>10. ASSUME LineHolder \/ GbaHolder PROVE Goal
  <2>1. /\ req.pc \in {"line-holder", "gba-holder"}
        /\ \/ Prove(req.sub, "by-enrichment", "enriched_msisdn_unknown")
           \/ Prove(req.sub, "by-gba", "gba_subscriber_unknown")
    BY <1>10 DEF LineHolder, GbaHolder, At
  <2>2. \E method \in {"by-enrichment", "by-gba"} : \E orphan : Proving(req.sub, method, orphan)
    BY <1>0, <2>1, ProveProves
  <2>. QED
    BY <1>5, <1>7, <2>1, <2>2
<1>11. ASSUME CheckEnrichment PROVE Goal
  <2>1. query.token = None
    BY <1>7, <1>11 DEF CheckEnrichment, At
  <2>. QED
    BY <1>0, <1>3, <1>4, <1>11, <2>1, EnrichmentEffect
<1>12. ASSUME CheckGba PROVE Goal
  <2>1. query.token = None
    BY <1>7, <1>12 DEF CheckGba, At
  <2>. QED
    BY <1>0, <1>2, <1>3, <1>4, <1>12, <2>1, GbaEffect
<1>13. ASSUME ByImsi \/ ByNumber \/ NumberHolder \/ CheckCode PROVE Goal
  <2>1. query.token = None /\ (config.gba = "off" \/ req.sent.auth = None)
    BY <1>1, <1>7, <1>13 DEF ByImsi, ByNumber, NumberHolder, CheckCode, At
  <2>2. CASE ByImsi
    BY <1>0, <1>4, <1>6, <2>1, <2>2, ByImsiEffect
  <2>3. CASE ByNumber
    BY <1>0, <1>3, <1>4, <2>1, <2>3, ByNumberEffect
  <2>4. CASE NumberHolder
    <3>1. req.sub \in Subs
      BY <1>0, <2>4 DEF NumberHolder, At, Found, Holding
    <3>. QED
      BY <1>0, <1>3, <1>6, <2>1, <2>4, <3>1, NumberHolderEffect
  <2>5. CASE CheckCode
    BY <1>0, <1>3, <1>4, <2>1, <2>5, CodeEffect
  <2>. QED
    BY <1>13, <2>2, <2>3, <2>4, <2>5
<1>14. ASSUME Challenge PROVE Goal
  <2>1. query.token = None /\ (config.gba = "off" \/ req.sent.auth = None)
    BY <1>1, <1>7, <1>14 DEF Challenge, At
  <2>2. req'.pc = "done"
    BY <1>0, <1>14, LastEffect DEF Answered, Serve, Challenge, At
  <2>. QED
    BY <1>0, <2>1, <2>2 DEF Goal, EvidenceKept, NeverWeaker
<1>15. ASSUME Serve PROVE Goal
  <2>1. req'.pc = "done" /\ answer'.method = req.pc
    BY <1>0, <1>15, LastEffect DEF Answered, Serve, Challenge, At
  <2>2. req.pc \in {"by-token", "by-enrichment", "by-gba", "by-otp"}
    BY <1>15 DEF Serve
  <2>. QED
    BY <1>0, <1>1, <1>7, <2>1, <2>2 DEF Goal, EvidenceKept, NeverWeaker
<1>. QED
  BY <1>8, <1>9, <1>10, <1>11, <1>12, <1>13, <1>14, <1>15 DEF Chain, Goal

LEMMA EvidenceStep == EvidenceInv /\ [Next]_vars => EvidenceInv'
<1>. SUFFICES ASSUME EvidenceInv, [Next]_vars PROVE EvidenceKept' /\ NeverWeaker'
  BY TypesStep DEF EvidenceInv
<1>1. ASSUME NEW d \in Subs, Send(d) PROVE EvidenceKept' /\ NeverWeaker'
  <2>1. PICK r : Entered(d, r)
    BY <1>1, SendEffect
  <2>. QED
    BY <2>1 DEF Entered, EvidenceKept, NeverWeaker, NoAnswer
<1>2. CASE Chain
  BY <1>2, EvidenceChain
<1>3. CASE Finish
  BY <1>3, FinishRest, NoRequestIdle DEF EvidenceKept, NeverWeaker, NoAnswer
<1>4. CASE UNCHANGED <<config, req, answer>>
  BY <1>4 DEF EvidenceInv, EvidenceKept, NeverWeaker, query
<1>. QED
  BY <1>1, <1>2, <1>3, <1>4, StepCases

\* A request that shows a token is served by it or not at all, and one that shows an
\* Authorization header while GBA is on falls back on no code, whatever else it says.
THEOREM NoFallback == Spec => []NeverWeaker
<1>1. Init => EvidenceInv
  BY TypesInit, NoRequestIdle DEF Init, EvidenceInv, EvidenceKept, NeverWeaker, NoAnswer
<1>2. EvidenceInv => NeverWeaker
  BY DEF EvidenceInv
<1>. QED
  BY <1>1, <1>2, EvidenceStep, PTL DEF Spec

-----------------------------------------------------------------------------
(* A claim is never proof.                                                   *)

\* A token or a code that stands for a subscriber is the sender's own.
LEMMA OwnEvidence ==
    ASSUME Types, req.pc # "idle", NEW field \in {"token", "otp"},
           Raw(Params(req.sent), field) \in Subs
    PROVE  Raw(Params(req.sent), field) = req.device
<1>1. /\ config \in Configs /\ req.device \in Subs /\ req.sent \in Requests(config, req.device)
      /\ Holds(req.device, req.sent)
  BY DEF Types
<1>2. PICK V : Params(req.sent) \in Seq(V)
  BY <1>1, ParamsSeq
<1>3. Raw(Params(req.sent), field) # None
  BY IdentityAssumption
<1>4. PICK p \in ToSet(Params(req.sent)) : Field(p[1]) = field /\ Raw(Params(req.sent), field) = p[2]
  BY <1>2, <1>3, RawIsSent
<1>5. p[2] \in {req.device, Stranger, "malformed"}
  BY <1>1, <1>4 DEF Holds
<1>. QED
  BY <1>4, <1>5, IdentityAssumption

\* The sender's own line, or a line whose number the gateway wrote ambiguously.
OwnLine(s) ==
    \/ s = req.device
    \/ Misread(config, [plus |-> req.sent.header.plus, digits |-> Number[req.device]])

\* A number that enrichment is trusted with is that of the sender's line.
LEMMA OwnNumber ==
    ASSUME TrunkApart, NumbersDiffer, Types, req.pc # "idle", NEW s \in Subs,
           Enriched(config, req.sent) # None, Number[s] = Enriched(config, req.sent)
    PROVE  OwnLine(s)
<1>. DEFINE r == req.sent
            d == req.device
<1>1. config \in Configs /\ d \in Subs /\ r \in Requests(config, d) /\ Holds(d, r)
  BY DEF Types
<1>2. r.header # None /\ ClientAddress(r) = "gateway" /\ Number[s] = Normalise(config, r.header)
  BY DEF Enriched
<1>3. ClientAddress(r) = r.path
  <2>1. r.forwarded \in Seq({"gateway", "caller"})
    BY <1>1, IdentityAssumption
  <2>2. Len(Append(r.forwarded, r.path)) = Len(r.forwarded) + 1
        /\ Append(r.forwarded, r.path)[Len(r.forwarded) + 1] = r.path
    <3>. HIDE DEF r
    <3>. QED
      BY <2>1
  <2>. QED
    BY <2>2 DEF ClientAddress, Forwarded, Last
<1>4. r.header \in Spellings(config, d)
  BY <1>1, <1>2, <1>3 DEF Holds
<1>5. CASE ~Misread(config, [plus |-> r.header.plus, digits |-> Number[d]])
  <2>1. Normalise(config, r.header) \in {Number[d], None}
    BY <1>1, <1>4, <1>5, SpellingsRead
  <2>2. Number[s] = Number[d]
    BY <1>2, <2>1
  <2>. QED
    BY <1>1, <2>2 DEF NumbersDiffer, OwnLine
<1>. QED
  BY <1>5 DEF OwnLine

\* Whoever the chain has proven sent the request.
OwnKept ==
    /\ req.pc \in {"token-holder", "by-token", "gba-holder", "by-gba", "by-otp"} => req.sub = req.device
    /\ req.pc \in {"line-holder", "by-enrichment"} => OwnLine(req.sub)

OwnInv == Types /\ OwnKept /\ OnlyOwn

LEMMA OwnChain ==
    ASSUME TrunkApart, NumbersDiffer, OwnInv, Chain
    PROVE  OwnKept' /\ OnlyOwn'
<1>0. Types /\ IsReq(req) /\ RecordsOK /\ config' = config
      /\ req'.sent = req.sent /\ req'.device = req.device
      /\ (req.pc \in Found => req.sub \in Subs) /\ req.pc \notin {"idle", "done"} /\ answer = NoAnswer
  BY ChainKeeps, ChainRest DEF OwnInv, Types, Kept
<1>. DEFINE Goal == OwnKept' /\ OnlyOwn'
<1>1. \A s : OwnLine(s)' = OwnLine(s)
  BY <1>0 DEF OwnLine, Misread
<1>2. ASSUME NEW kind, kind # "served", NEW as, NEW method, NEW detail,
             Answered(kind, as, method, detail)
      PROVE  Goal
  BY <1>2 DEF Answered, OwnKept, OnlyOwn
<1>3. ASSUME NEW detail, Fails(detail) PROVE Goal
  BY <1>2, <1>3 DEF Fails
<1>4. ASSUME NEW pc, NEW s, Moved(pc, s),
             pc \in {"token-holder", "by-token", "gba-holder", "by-gba", "by-otp"} => s = req.device,
             pc \in {"line-holder", "by-enrichment"} => OwnLine(s)
      PROVE  Goal
  <2>1. answer' = NoAnswer /\ req'.pc = pc /\ req'.sub = s
    BY <1>0, <1>4 DEF Moved
  <2>2. OnlyOwn'
    BY <2>1 DEF OnlyOwn, NoAnswer
  <2>3. pc \in {"line-holder", "by-enrichment"} => OwnLine(req.sub)'
    BY <1>0, <1>4, <2>1 DEF OwnLine, Misread
  <2>. QED
    BY <1>0, <1>4, <2>1, <2>2, <2>3 DEF OwnKept
<1>5. ASSUME NEW s, NEW method, NEW orphan, Proving(s, method, orphan),
             method \in {"token-holder", "by-token", "gba-holder", "by-gba", "by-otp"}
                 => s = req.device,
             method \in {"line-holder", "by-enrichment"} => OwnLine(s)
      PROVE  Goal
  BY <1>2, <1>3, <1>4, <1>5 DEF Proving
<1>6. ASSUME NEW s, Considering(s) PROVE Goal
  BY <1>2, <1>4, <1>6 DEF Considering
<1>. HIDE DEF Goal
<1>7. query.token = Raw(Params(req.sent), "token") /\ query.otp = Raw(Params(req.sent), "otp")
  BY DEF query, Query
<1>8. ASSUME CheckToken PROVE Goal
  <2>1. query.token \in Subs => query.token = req.device
    BY <1>0, <1>7, OwnEvidence
  <2>. QED
    BY <1>0, <1>3, <1>4, <1>8, <2>1, TokenEffect
<1>9. ASSUME TokenHolder \/ LineHolder \/ GbaHolder PROVE Goal
  <2>1. CASE TokenHolder \/ GbaHolder
    <3>1. \E method \in {"by-token", "by-gba"} : \E orphan : Proving(req.sub, method, orphan)
      BY <1>0, <2>1, ProveProves DEF TokenHolder, GbaHolder
    <3>2. req.sub = req.device
      BY <2>1 DEF OwnInv, OwnKept, TokenHolder, GbaHolder, At
    <3>. QED
      BY <1>5, <3>1, <3>2
  <2>2. CASE LineHolder
    <3>1. \E orphan : Proving(req.sub, "by-enrichment", orphan)
      BY <1>0, <2>2, ProveProves DEF LineHolder
    <3>2. OwnLine(req.sub)
      BY <2>2 DEF OwnInv, OwnKept, LineHolder, At
    <3>. QED
      BY <1>5, <3>1, <3>2
  <2>. QED
    BY <1>9, <2>1, <2>2
<1>10. ASSUME CheckEnrichment PROVE Goal
  <2>1. ASSUME NEW s \in Subs, Enriched(config, req.sent) # None, Number[s] = Enriched(config, req.sent)
        PROVE  OwnLine(s)
    BY <1>0, <2>1, OwnNumber
  <2>. QED
    BY <1>0, <1>3, <1>4, <1>10, <2>1, EnrichmentEffect
<1>11. ASSUME CheckGba PROVE Goal
  <2>1. req.sent.auth # None => req.sent.auth.key = req.device
    BY <1>0 DEF Types, Holds
  <2>. QED
    BY <1>0, <1>2, <1>3, <1>4, <1>11, <2>1, GbaEffect
<1>12. ASSUME ByImsi \/ ByNumber \/ NumberHolder PROVE Goal
  <2>1. NumberHolder => req.sub \in Subs
    BY <1>0 DEF NumberHolder, At, Found, Holding
  <2>. QED
    BY <1>0, <1>3, <1>4, <1>6, <1>12, <2>1, ByImsiEffect, ByNumberEffect, NumberHolderEffect
<1>13. ASSUME CheckCode PROVE Goal
  <2>1. req.sub \in Subs
    BY <1>0, <1>13 DEF CheckCode, At, Found
  <2>2. query.otp = req.sub => req.sub = req.device
    BY <1>0, <1>7, <2>1, OwnEvidence
  <2>. QED
    BY <1>0, <1>3, <1>4, <1>13, <2>2, CodeEffect
<1>14. ASSUME Challenge PROVE Goal
  <2>1. \E kind \in {"pending", "later"} : Answered(kind, req.sub, "claim", "none")
    BY <1>0, <1>14, LastEffect DEF Serve, Challenge, At
  <2>. QED
    BY <1>2, <2>1
<1>15. ASSUME Serve PROVE Goal
  <2>1. req'.pc = "done" /\ answer'.method = req.pc /\ answer'.as = req.sub
    BY <1>0, <1>15, LastEffect DEF Answered, Serve, Challenge, At
  <2>2. req.pc \in {"by-token", "by-enrichment", "by-gba", "by-otp"}
    BY <1>15 DEF Serve
  <2>3. \/ req.sub = req.device
        \/ req.pc = "by-enrichment" /\
             Misread(config, [plus |-> req.sent.header.plus, digits |-> Number[req.device]])
    BY <2>2 DEF OwnInv, OwnKept, OwnLine
  <2>. QED
    BY <1>0, <2>1, <2>3 DEF Goal, OwnKept, OnlyOwn, Misread
<1>. QED
  BY <1>8, <1>9, <1>10, <1>11, <1>12, <1>13, <1>14, <1>15 DEF Chain, Goal

LEMMA OwnLineStep == TrunkApart /\ NumbersDiffer /\ OwnInv /\ [Next]_vars => OwnInv'
<1>. SUFFICES ASSUME TrunkApart, NumbersDiffer, OwnInv, [Next]_vars PROVE OwnKept' /\ OnlyOwn'
  BY TypesStep DEF OwnInv
<1>1. ASSUME NEW d \in Subs, Send(d) PROVE OwnKept' /\ OnlyOwn'
  <2>1. PICK r : Entered(d, r)
    BY <1>1, SendEffect
  <2>. QED
    BY <2>1 DEF Entered, OwnKept, OnlyOwn, NoAnswer
<1>2. CASE Chain
  BY <1>2, OwnChain
<1>3. CASE Finish
  BY <1>3, FinishRest, NoRequestIdle DEF OwnKept, OnlyOwn, NoAnswer
<1>4. CASE UNCHANGED <<config, req, answer>>
  BY <1>4 DEF OwnInv, OwnKept, OwnLine, OnlyOwn, Misread
<1>. QED
  BY <1>1, <1>2, <1>3, <1>4, StepCases

\* A request is served as the subscriber whose device sent it, by whichever method and
\* whatever it claims, provided that no two subscribers have one number and that no
\* trunk prefix starts with a shorter country code; where the gateway leaves out a plus,
\* the number it means is another.
THEOREM ServedAsSender ==
    ASSUME TrunkApart, NumbersDiffer
    PROVE  Spec => []OnlyOwn
<1>1. Init => OwnInv
  BY TypesInit, NoRequestIdle DEF Init, OwnInv, OwnKept, OnlyOwn, NoAnswer
<1>2. OwnInv => OnlyOwn
  BY DEF OwnInv
<1>3. OwnInv /\ [Next]_vars => OwnInv'
  BY OwnLineStep
<1>. QED
  BY <1>1, <1>2, <1>3, PTL DEF Spec

-----------------------------------------------------------------------------
(* The answer is about the record that the claims name, as it was.           *)

\* The claims of the request name the subscriber.
Named(s) == s = query.imsi \/ (query.msisdn # None /\ Number[s] = query.msisdn)

\* What a read could return in the time the request was in flight.
Seen(s) == was[s] \cup shown[s]

FactNames == RecordStates \cup {"unlisted"}

\* What a read of the items of a subscriber can return now.
Returned(s) == Facts(Records(s), Names(s))

UnknownToClaims ==
    /\ query.imsi \in Subs => "absent" \in Seen(query.imsi)
    /\ NumbersDiffer /\ query.msisdn # None =>
          \A s \in Subs : Number[s] = query.msisdn => {"absent", "unlisted"} \cap Seen(s) # {}

\* The history holds all that a read can return now; what was read of a record is there.
Watched ==
    /\ was \in [Subs -> SUBSET FactNames] /\ shown \in [Subs -> SUBSET FactNames]
    /\ req.pc # "idle" => \A s \in Subs : Returned(s) \subseteq Seen(s)
    /\ req.pc \in Found \ Holding => "entitled" \in Seen(req.sub)
    /\ req.pc \in {"by-number", "number-holder"} /\ query.imsi \in Subs => "absent" \in Seen(query.imsi)
    /\ req.pc = "number-holder" => query.msisdn # None /\ Number[req.sub] = query.msisdn
    /\ req.pc = "candidate-known" => Named(req.sub)

\* What an answer says of a record, a read could return.
Decided ==
    /\ answer.kind \in {"served", "pending"} => answer.as \in Subs /\ "entitled" \in Seen(answer.as)
    /\ answer.detail = "not_entitled" => answer.as \in Subs /\ "barred" \in Seen(answer.as)
    /\ answer.detail = "subscriber_unknown" => UnknownToClaims
    /\ answer.method = "claim" => answer.as \in Subs /\ Named(answer.as)
    /\ answer.kind = "400" => Malformed(config, Params(req.sent))

RecordInv == Types /\ Watched /\ Decided

\* What is read of a record or of an MSISDN item goes into the history.
LEMMA ReturnedHolds ==
    ASSUME NEW s
    PROVE  Records(s) \subseteq Returned(s) /\ (FALSE \in Names(s) => "unlisted" \in Returned(s))
BY DEF Returned, Facts

\* Whatever a write to the store makes of an item is watched.
LEMMA StoreWatched ==
    ASSUME RecordsOK, was \in [Subs -> SUBSET FactNames], NEW s \in Subs, StoreStep(s)
    PROVE  /\ was' \in [Subs -> SUBSET FactNames]
           /\ \A t \in Subs : was[t] \subseteq was'[t]
           /\ req.pc # "idle" => \A t \in Subs : Returned(t)' \subseteq Returned(t) \cup was'[t]
<1>1. CASE Change(s)
  <2>1. PICK to \in RecordStates :
           /\ records' = [records EXCEPT ![s] = to]
           /\ pastRecords' = [pastRecords EXCEPT ![s] = (@ \cup {records[s]}) \ {to}]
           /\ was' = IF req.pc = "idle" THEN was ELSE [was EXCEPT ![s] = @ \cup {to}]
    BY <1>1 DEF Change, Witness, At, RecordStates
  <2>2. UNCHANGED <<listed, pastListed>>
    BY <1>1 DEF Change
  <2>3. was' \in [Subs -> SUBSET FactNames] /\ \A t \in Subs : was[t] \subseteq was'[t]
    BY <2>1 DEF FactNames
  <2>4. ASSUME req.pc # "idle", NEW t \in Subs PROVE Returned(t)' \subseteq Returned(t) \cup was'[t]
    <3>1. Names(t)' = Names(t)
      BY <2>2 DEF Names
    <3>2. Records(t)' \subseteq Records(t) \cup was'[t]
      BY <2>1, <2>4 DEF Records, RecordsOK
    <3>. QED
      BY <3>1, <3>2 DEF Returned, Facts
  <2>. QED
    BY <2>3, <2>4
<1>2. CASE Reindex(s)
  <2>. DEFINE names == records[s] # "absent"
  <2>1. /\ listed' = [listed EXCEPT ![s] = names]
        /\ pastListed' = [pastListed EXCEPT ![s] = (@ \cup {listed[s]}) \ {names}]
        /\ was' = IF req.pc = "idle" THEN was ELSE [was EXCEPT ![s] = @ \cup Facts({}, {names})]
    BY <1>2 DEF Reindex, Witness, At
  <2>2. UNCHANGED <<records, pastRecords>>
    BY <1>2 DEF Reindex
  <2>3. names \in BOOLEAN
    OBVIOUS
  <2>. HIDE DEF names
  <2>4. Facts({}, {names}) \subseteq FactNames /\ (names = FALSE => "unlisted" \in Facts({}, {names}))
    BY DEF Facts, FactNames
  <2>5. was' \in [Subs -> SUBSET FactNames] /\ \A t \in Subs : was[t] \subseteq was'[t]
    BY <2>1, <2>4
  <2>6. ASSUME req.pc # "idle", NEW t \in Subs PROVE Returned(t)' \subseteq Returned(t) \cup was'[t]
    <3>1. Records(t)' = Records(t)
      BY <2>2 DEF Records
    <3>2. FALSE \in Names(t)' => FALSE \in Names(t) \/ "unlisted" \in was'[t]
      <4>1. CASE t = s
        <5>1. was'[s] = was[s] \cup Facts({}, {names})
          BY <2>1, <2>6
        <5>2. listed'[s] = names /\ pastListed'[s] = (pastListed[s] \cup {listed[s]}) \ {names}
          BY <2>1 DEF RecordsOK
        <5>3. Names(s)' \subseteq Names(s) \cup {names}
          BY <5>2 DEF Names
        <5>. QED
          BY <2>3, <2>4, <4>1, <5>1, <5>3
      <4>2. CASE t # s
        BY <2>1, <4>2 DEF Names, RecordsOK
      <4>. QED
        BY <4>1, <4>2
    <3>. QED
      BY <3>1, <3>2 DEF Returned, Facts
  <2>. QED
    BY <2>5, <2>6
<1>3. CASE CatchUp(s)
  <2>1. UNCHANGED <<records, listed, was>>
    BY <1>3 DEF CatchUp
  <2>2. \A t \in Subs : pastRecords'[t] \subseteq pastRecords[t] /\ pastListed'[t] \subseteq pastListed[t]
    BY <1>3 DEF CatchUp, RecordsOK
  <2>3. \A t \in Subs : Returned(t)' \subseteq Returned(t)
    BY <2>1, <2>2 DEF Returned, Facts, Records, Names
  <2>. QED
    BY <2>1, <2>3
<1>. QED
  BY <1>1, <1>2, <1>3 DEF StoreStep

LEMMA RecordChain == ASSUME RecordInv, Chain PROVE Watched' /\ Decided'
<1>0. Types /\ IsReq(req) /\ RecordsOK /\ config' = config /\ lines' = lines
      /\ was' = was /\ shown' = shown /\ query' = query /\ req'.sent = req.sent
      /\ (req.pc \in Found => req.sub \in Subs) /\ req.pc \notin {"idle", "done"} /\ answer = NoAnswer
  BY ChainKeeps, ChainRest, QueryKept DEF RecordInv, Types, Kept
<1>. DEFINE Goal == Watched' /\ Decided'
<1>1. /\ was \in [Subs -> SUBSET FactNames] /\ shown \in [Subs -> SUBSET FactNames]
      /\ \A s \in Subs : Returned(s) \subseteq Seen(s)
      /\ req.pc \in Found \ Holding => "entitled" \in Seen(req.sub)
      /\ req.pc \in {"by-number", "number-holder"} /\ query.imsi \in Subs => "absent" \in Seen(query.imsi)
      /\ req.pc = "number-holder" => query.msisdn # None /\ Number[req.sub] = query.msisdn
      /\ req.pc = "candidate-known" => Named(req.sub)
  BY <1>0 DEF RecordInv, Watched
<1>r. /\ \A s \in Subs : Records(s) \subseteq Seen(s) /\ (FALSE \in Names(s) => "unlisted" \in Seen(s))
      /\ \A s : Seen(s)' = Seen(s) /\ Returned(s)' = Returned(s)
  BY <1>0, <1>1, ReturnedHolds DEF Seen, Returned, Records, Names, lines
<1>2. ASSUME NEW kind, NEW as, NEW method, NEW detail, Answered(kind, as, method, detail),
             kind \in {"served", "pending"} => as \in Subs /\ "entitled" \in Seen(as),
             detail = "not_entitled" => as \in Subs /\ "barred" \in Seen(as),
             detail = "subscriber_unknown" => UnknownToClaims,
             method = "claim" => as \in Subs /\ Named(as),
             kind # "400"
      PROVE  Goal
  <2>1. /\ req'.pc = "done" /\ answer'.kind = kind /\ answer'.as = as
        /\ answer'.method = method /\ answer'.detail = detail
    BY <1>2 DEF Answered
  <2>2. Watched'
    BY <1>0, <1>1, <1>r, <2>1 DEF Watched, Found, Holding
  <2>3. Decided'
    <3>1. UnknownToClaims' = UnknownToClaims /\ \A s : Named(s)' = Named(s)
      BY <1>0, <1>r DEF UnknownToClaims, Named
    <3>. QED
      BY <1>0, <1>2, <1>r, <2>1, <3>1 DEF Decided
  <2>. QED
    BY <2>2, <2>3
<1>3. ASSUME NEW detail, Fails(detail), detail # "not_entitled",
             detail = "subscriber_unknown" => UnknownToClaims
      PROVE  Goal
  BY <1>2, <1>3 DEF Fails
<1>4. ASSUME NEW pc, NEW s, Moved(pc, s), pc # "done",
             pc \in Found \ Holding => "entitled" \in Seen(s),
             pc \in {"by-number", "number-holder"} /\ query.imsi \in Subs => "absent" \in Seen(query.imsi),
             pc = "number-holder" => query.msisdn # None /\ Number[s] = query.msisdn,
             pc = "candidate-known" => Named(s)
      PROVE  Goal
  <2>1. answer' = NoAnswer /\ req'.pc = pc /\ req'.sub = s
    BY <1>0, <1>4 DEF Moved
  <2>2. Decided'
    BY <2>1 DEF Decided, NoAnswer
  <2>3. Watched'
    <3>1. Named(s)' = Named(s)
      BY <1>0 DEF Named
    <3>. QED
      BY <1>0, <1>1, <1>r, <1>4, <2>1, <3>1 DEF Watched
  <2>. QED
    BY <2>2, <2>3
<1>5. ASSUME NEW s \in Subs, NEW method \in {"by-token", "by-gba", "by-enrichment"},
             NEW orphan, orphan \notin {"not_entitled", "subscriber_unknown"},
             Proving(s, method, orphan)
      PROVE  Goal
  <2>1. CASE "absent" \in Records(s) /\ Fails(orphan)
    BY <1>3, <1>5, <2>1
  <2>2. CASE "barred" \in Records(s) /\ Answered("403", s, method, "not_entitled")
    <3>1. "barred" \in Seen(s)
      BY <1>r, <2>2
    <3>. HIDE DEF Goal
    <3>. QED
      BY <1>2, <1>5, <2>2, <3>1
  <2>3. CASE "entitled" \in Records(s) /\ Moved(method, s)
    <3>1. "entitled" \in Seen(s)
      BY <1>r, <2>3
    <3>. HIDE DEF Goal
    <3>. QED
      BY <1>4, <1>5, <2>3, <3>1
  <2>. QED
    BY <1>5, <2>1, <2>2, <2>3 DEF Proving
<1>6. ASSUME NEW s \in Subs, Named(s), Considering(s) PROVE Goal
  <2>2. CASE "barred" \in Records(s) /\ Answered("403", s, "claim", "not_entitled")
    <3>1. "barred" \in Seen(s)
      BY <1>r, <2>2
    <3>. HIDE DEF Goal
    <3>. QED
      BY <1>2, <1>6, <2>2, <3>1
  <2>3. CASE Answered("403", s, "claim", "imei_not_allowed")
    BY <1>2, <1>6, <2>3
  <2>4. CASE "entitled" \in Records(s) /\ Moved("candidate-known", s)
    BY <1>r, <1>4, <1>6, <2>4
  <2>. QED
    BY <1>6, <2>2, <2>3, <2>4 DEF Considering
<1>. HIDE DEF Goal
<1>7. ({"enrichment", "gba", "candidate", "by-number"} \cup Holding) \cap (Found \ Holding) = {}
      /\ Holding = {"token-holder", "line-holder", "gba-holder", "number-holder"}
  BY DEF Found, Holding
<1>8. ASSUME CheckToken PROVE Goal
  BY <1>0, <1>3, <1>4, <1>7, <1>8, TokenEffect
<1>9. ASSUME TokenHolder \/ LineHolder \/ GbaHolder PROVE Goal
  <2>1. /\ req.pc \in Holding
        /\ \/ Prove(req.sub, "by-token", "token_orphaned")
           \/ Prove(req.sub, "by-enrichment", "enriched_msisdn_unknown")
           \/ Prove(req.sub, "by-gba", "gba_subscriber_unknown")
    BY <1>9 DEF TokenHolder, LineHolder, GbaHolder, At, Holding
  <2>2. req.sub \in Subs
    BY <1>0, <2>1 DEF Found
  <2>3. \/ Proving(req.sub, "by-token", "token_orphaned")
        \/ Proving(req.sub, "by-enrichment", "enriched_msisdn_unknown")
        \/ Proving(req.sub, "by-gba", "gba_subscriber_unknown")
    BY <1>0, <2>1, ProveProves
  <2>. QED
    BY <1>5, <2>2, <2>3
<1>10. ASSUME CheckEnrichment PROVE Goal
  BY <1>0, <1>3, <1>4, <1>7, <1>10, EnrichmentEffect
<1>11. ASSUME CheckGba PROVE Goal
  <2>1. GbaRefusals \cap {"not_entitled", "subscriber_unknown"} = {}
    BY DEF GbaRefusals
  <2>. QED
    BY <1>0, <1>2, <1>3, <1>4, <1>7, <1>11, <2>1, GbaEffect
<1>12. ASSUME ByImsi PROVE Goal
  <2>1. CASE query.imsi \in Subs /\ Considering(query.imsi)
    BY <1>6, <2>1 DEF Named
  <2>2. CASE (query.imsi \in Subs => "absent" \in Records(query.imsi)) /\ Moved("by-number", req.sub)
    BY <1>r, <1>4, <1>7, <2>2
  <2>. QED
    BY <1>0, <1>12, <2>1, <2>2, ByImsiEffect
<1>13. ASSUME ByNumber PROVE Goal
  <2>1. CASE /\ query.msisdn # None =>
                    \A s \in Subs : Number[s] = query.msisdn => FALSE \in Names(s)
             /\ Fails("subscriber_unknown")
    <3>1. UnknownToClaims
      BY <1>1, <1>r, <1>13, <2>1 DEF UnknownToClaims, ByNumber, At
    <3>. QED
      BY <1>3, <2>1, <3>1
  <2>2. ASSUME NEW s \in Subs, query.msisdn # None, Number[s] = query.msisdn,
               Moved("number-holder", s)
        PROVE  Goal
    BY <1>1, <1>4, <1>7, <1>13, <2>2 DEF ByNumber, At
  <2>. QED
    BY <1>0, <1>13, <2>1, <2>2, ByNumberEffect
<1>n. ASSUME NumberHolder PROVE Goal
  <2>1. /\ req.pc = "number-holder" /\ req.sub \in Subs
        /\ query.msisdn # None /\ Number[req.sub] = query.msisdn
    BY <1>0, <1>1, <1>n DEF NumberHolder, At, Found, Holding
  <2>2. CASE "absent" \in Records(req.sub) /\ Fails("subscriber_unknown")
    <3>1. "absent" \in Seen(req.sub)
      BY <1>r, <2>1, <2>2
    <3>2. UnknownToClaims
      BY <1>1, <2>1, <3>1 DEF UnknownToClaims, NumbersDiffer
    <3>. QED
      BY <1>3, <2>2, <3>2
  <2>3. CASE Considering(req.sub)
    BY <1>6, <2>1, <2>3 DEF Named
  <2>. QED
    BY <1>0, <1>n, <2>1, <2>2, <2>3, NumberHolderEffect
<1>14. ASSUME CheckCode \/ Challenge PROVE Goal
  <2>1. req.sub \in Subs /\ "entitled" \in Seen(req.sub) /\ Named(req.sub)
    BY <1>0, <1>1, <1>14 DEF CheckCode, Challenge, At, Found, Holding
  <2>2. CASE CheckCode
    BY <1>0, <1>3, <1>4, <2>1, <2>2, CodeEffect
  <2>3. CASE Challenge
    <3>1. \E kind \in {"pending", "later"} : Answered(kind, req.sub, "claim", "none")
      BY <1>0, <2>3, LastEffect DEF Serve, Challenge, At
    <3>. QED
      BY <1>2, <2>1, <3>1
  <2>. QED
    BY <1>14, <2>2, <2>3
<1>15. ASSUME Serve PROVE Goal
  <2>1. Answered("served", req.sub, req.pc, "none")
    BY <1>0, <1>15, LastEffect DEF Serve, Challenge, At
  <2>2. req.pc \in {"by-token", "by-enrichment", "by-gba", "by-otp"}
    BY <1>15 DEF Serve
  <2>3. req.sub \in Subs /\ "entitled" \in Seen(req.sub)
    BY <1>0, <1>1, <2>2 DEF Found, Holding
  <2>. QED
    BY <1>2, <2>1, <2>2, <2>3
<1>. QED
  BY <1>8, <1>9, <1>10, <1>11, <1>12, <1>13, <1>n, <1>14, <1>15 DEF Chain, Goal

LEMMA RecordStep == RecordInv /\ [Next]_vars => RecordInv'
<1>. SUFFICES ASSUME RecordInv, [Next]_vars PROVE Watched' /\ Decided'
  BY TypesStep DEF RecordInv
<1>0. Types /\ RecordsOK /\ Watched /\ Decided
  BY DEF RecordInv, Types
<1>1. ASSUME NEW d \in Subs, Send(d) PROVE Watched' /\ Decided'
  <2>1. PICK r : Entered(d, r)
    BY <1>1, SendEffect
  <2>2. /\ lines' = lines /\ config' = config
        /\ was' = [s \in Subs |-> Facts({records[s]}, {listed[s]})]
        /\ shown' = [s \in Subs |-> Facts(pastRecords[s], pastListed[s])]
    BY <1>1, SendRest
  <2>3. /\ was' \in [Subs -> SUBSET FactNames] /\ shown' \in [Subs -> SUBSET FactNames]
        /\ \A s \in Subs : Returned(s)' \subseteq was'[s] \cup shown'[s]
    <3>1. \A s \in Subs : /\ was'[s] = Facts({records[s]}, {listed[s]})
                          /\ shown'[s] = Facts(pastRecords[s], pastListed[s])
                          /\ was'[s] \subseteq FactNames /\ shown'[s] \subseteq FactNames
      BY <1>0, <2>2 DEF RecordsOK, Facts, FactNames
    <3>2. \A s : Returned(s)' = Returned(s)
      BY <2>2 DEF Returned, Records, Names, lines
    <3>3. \A s \in Subs : Returned(s) \subseteq Facts({records[s]}, {listed[s]}) \cup Facts(pastRecords[s], pastListed[s])
      BY DEF Returned, Records, Names, Facts
    <3>4. was' = [s \in Subs |-> was'[s]] /\ shown' = [s \in Subs |-> shown'[s]]
      BY <2>2
    <3>. QED
      BY <3>1, <3>2, <3>3, <3>4
  <2>4. req'.sent = r /\ req'.pc \in {"done", "token"}
    BY <2>1 DEF Entered
  <2>5. Watched'
    BY <2>3, <2>4 DEF Watched, Seen, Found, Holding
  <2>6. Decided'
    BY <2>1, <2>2, <2>4 DEF Entered, Decided, NoAnswer
  <2>. QED
    BY <2>5, <2>6
<1>2. CASE Chain
  BY <1>2, RecordChain
<1>3. CASE Finish
  <2>1. was' \in [Subs -> SUBSET FactNames] /\ shown' \in [Subs -> SUBSET FactNames]
    BY <1>3, FinishRest
  <2>2. req'.pc = "idle" /\ answer' = NoAnswer
    BY <1>3, FinishRest, NoRequestIdle
  <2>. QED
    BY <2>1, <2>2 DEF Watched, Decided, Found, Holding, NoAnswer
<1>4. ASSUME NEW s \in Subs, StoreStep(s), UNCHANGED <<config, req, answer, shown>> PROVE Watched' /\ Decided'
  <2>1. /\ was' \in [Subs -> SUBSET FactNames]
        /\ \A t \in Subs : was[t] \subseteq was'[t]
        /\ req.pc # "idle" => \A t \in Subs : Returned(t)' \subseteq Returned(t) \cup was'[t]
    BY <1>0, <1>4, StoreWatched DEF Watched
  <2>2. query' = query /\ (\A t : Named(t)' = Named(t)) /\ (\A t \in Subs : Seen(t) \subseteq Seen(t)' /\ was'[t] \subseteq Seen(t)')
    BY <1>4, <2>1 DEF query, Named, Seen
  <2>3. UnknownToClaims => UnknownToClaims'
    BY <2>2 DEF UnknownToClaims
  <2>4. Watched'
    <3>1. req.pc \in Found => req.sub \in Subs
      BY <1>0 DEF Types
    <3>2. req.pc # "idle" => \A t \in Subs : Returned(t)' \subseteq Seen(t)'
      BY <1>0, <2>1, <2>2 DEF Watched
    <3>. QED
      BY <1>0, <1>4, <2>1, <2>2, <3>1, <3>2 DEF Watched
  <2>5. Decided'
    BY <1>0, <1>4, <2>2, <2>3 DEF Decided
  <2>. QED
    BY <2>4, <2>5
<1>5. CASE UNCHANGED <<config, lines, was, shown, req, answer>>
  <2>1. query' = query /\ \A t : Named(t)' = Named(t) /\ Seen(t)' = Seen(t) /\ Returned(t)' = Returned(t)
    BY <1>5 DEF query, Named, Seen, Returned, Records, Names, lines
  <2>2. UnknownToClaims' = UnknownToClaims
    BY <2>1 DEF UnknownToClaims
  <2>. QED
    BY <1>0, <1>5, <2>1, <2>2 DEF Watched, Decided
<1>. QED
  BY <1>1, <1>2, <1>3, <1>4, <1>5, StepCases

LEMMA RecordInit == Init => RecordInv
<1>. SUFFICES ASSUME Init PROVE Watched /\ Decided
  BY TypesInit DEF RecordInv
<1>1. req.pc = "idle" /\ answer = NoAnswer /\ was = [s \in Subs |-> {}] /\ shown = [s \in Subs |-> {}]
  BY NoRequestIdle DEF Init
<1>. QED
  BY <1>1 DEF Watched, Decided, Found, Holding, NoAnswer

\* Whoever is served or sent a code was entitled while the request was in flight, and
\* whoever is refused as unknown or not entitled was absent or barred in that time,
\* however the operator changes the records between the reads, or else some copy of the
\* record still was when the request was sent.
THEOREM AnswersFollowRecords == Spec => []DecidedOnTheRecord
<1>1. RecordInv => DecidedOnTheRecord
  BY DEF RecordInv, Decided, UnknownToClaims, DecidedOnTheRecord, Seen
<1>. QED
  BY <1>1, RecordInit, RecordStep, PTL DEF Spec

\* The numbers of the subscribers are E.164 numbers.
NumbersWhole == \A s \in Subs : Len(Number[s]) \in MIN_DIGITS .. MAX_DIGITS /\ Number[s][1] # 0

\* A request that claims a number only is about the subscriber with that number, in
\* whichever spelling, or finds nobody because there was none, because none was listed under
\* the number, or because a copy of the record or of the MSISDN item still was as it had
\* been before; and it is not refused for the number, under the same two provisos and for numbers that are E.164 numbers.
THEOREM SpellingsLead ==
    ASSUME TrunkApart, NumbersDiffer, NumbersWhole
    PROVE  Spec => []SpellingsFind
<1>1. RecordInv => SpellingsFind
  <2>. DEFINE w == Raw(Params(req.sent), "msisdn")
  <2>. SUFFICES ASSUME RecordInv, NEW s \in Subs, At("done"), query.imsi = None,
                       w \in Spellings(config, s), ~Misread(config, [w EXCEPT !.digits = Number[s]])
                PROVE  /\ answer.method = "claim" => answer.as = s
                       /\ answer.detail = "subscriber_unknown" => {"absent", "unlisted"} \cap (was[s] \cup shown[s]) # {}
                       /\ answer.kind = "400" => BadFields(Params(req.sent))
    BY DEF SpellingsFind
  <2>1. config \in Configs /\ Decided
    BY DEF RecordInv, Types
  <2>2. config.cc \in Seq(0 .. 9) /\ config.trunk \in Seq(0 .. 9) /\ Number[s] \in Seq(0 .. 9)
    BY <2>1, Digits
  <2>3. w \in [plus : BOOLEAN, digits : Seq(0 .. 9)]
    BY <2>1, SpellingsShape
  <2>. HIDE DEF w
  <2>4. [w EXCEPT !.digits = Number[s]] = [plus |-> w.plus, digits |-> Number[s]]
    BY <2>3
  <2>5. Normalise(config, w) = Number[s]
    BY <2>1, <2>4, SpellingsRead DEF NumbersWhole
  <2>6. w # None /\ Number[s] # None
    BY <2>2, <2>3, IdentityAssumption
  <2>7. query.msisdn = Number[s]
    BY <2>5, <2>6 DEF query, Query, w
  <2>8. answer.method = "claim" => answer.as = s
    BY <2>1, <2>7, IdentityAssumption DEF Decided, Named, NumbersDiffer
  <2>9. answer.detail = "subscriber_unknown" => {"absent", "unlisted"} \cap (was[s] \cup shown[s]) # {}
    BY <2>1, <2>6, <2>7 DEF Decided, UnknownToClaims, Seen
  <2>10. answer.kind = "400" => BadFields(Params(req.sent))
    BY <2>1, <2>5, <2>6 DEF Decided, Malformed, w
  <2>. QED
    BY <2>8, <2>9, <2>10
<1>2. RecordInv /\ [Next]_vars => RecordInv'
  BY RecordStep
<1>. QED
  BY <1>1, <1>2, RecordInit, PTL DEF Spec

-----------------------------------------------------------------------------
(* The window of a nonce.                                                    *)

\* Seconds are ticks rounded down.
LEMMA Rounding ==
    ASSUME NEW x \in Int
    PROVE  /\ x \div TICKS \in Int
           /\ TICKS * (x \div TICKS) <= x /\ x < TICKS * (x \div TICKS) + TICKS
BY IdentityAssumption

LEMMA Cancel ==
    ASSUME NEW p \in Int, NEW q \in Int, TICKS * p < TICKS * q
    PROVE  p < q
BY IdentityAssumption

\* The difference of two rounded times, by the difference of the times.
LEMMA AgeRounded ==
    ASSUME NEW t \in Int, NEW at \in Int
    PROVE  LET age == (t \div TICKS) - (at \div TICKS) IN
           /\ t - at \in 0 .. (MAX_AGE * TICKS) => NonceAge(age)
           /\ t - at >= (MAX_AGE + 1) * TICKS \/ t - at <= -TICKS => ~NonceAge(age)
<1>. DEFINE p == t \div TICKS
            q == at \div TICKS
<1>1. /\ p \in Int /\ TICKS * p <= t /\ t < TICKS * p + TICKS
      /\ q \in Int /\ TICKS * q <= at /\ at < TICKS * q + TICKS
  BY Rounding
<1>2. TICKS \in Nat \ {0} /\ MAX_AGE \in Nat
  BY IdentityAssumption
<1>. HIDE DEF p, q
<1>3. /\ TICKS * (q - 1) = TICKS * q - TICKS /\ TICKS * (q + 1) = TICKS * q + TICKS
      /\ TICKS * (p + 1) = TICKS * p + TICKS
      /\ TICKS * (q + MAX_AGE + 1) = TICKS * q + MAX_AGE * TICKS + TICKS
      /\ TICKS * (q + MAX_AGE) = TICKS * q + MAX_AGE * TICKS
      /\ (MAX_AGE + 1) * TICKS = MAX_AGE * TICKS + TICKS
  BY <1>1, <1>2
<1>. DEFINE tp == TICKS * p
            tq == TICKS * q
            mt == MAX_AGE * TICKS
<1>4. tp \in Int /\ tq \in Int /\ mt \in Nat
  BY <1>1, <1>2
<1>5. ASSUME t - at \in 0 .. mt PROVE p - q \in 0 .. MAX_AGE
  <2>1. TICKS * q < TICKS * (p + 1) /\ TICKS * p < TICKS * (q + MAX_AGE + 1)
    <3>1. tq < tp + TICKS /\ tp < tq + mt + TICKS
      <4>. HIDE DEF tp, tq, mt
      <4>1. tp <= t /\ t < tp + TICKS /\ tq <= at /\ at < tq + TICKS
        BY <1>1 DEF tp, tq
      <4>. QED
        BY <1>2, <1>4, <1>5, <4>1
    <3>. QED
      BY <1>3, <3>1
  <2>2. q < p + 1
    BY <1>1, <2>1, Cancel
  <2>3. p < q + MAX_AGE + 1
    <3>1. q + MAX_AGE + 1 \in Int
      BY <1>1, <1>2
    <3>. QED
      BY <1>1, <2>1, <3>1, Cancel
  <2>. QED
    BY <1>1, <1>2, <2>2, <2>3
<1>6. ASSUME t - at >= mt + TICKS PROVE p - q > MAX_AGE
  <2>1. TICKS * (q + MAX_AGE) < TICKS * p
    <3>1. tq + mt < tp
      <4>. HIDE DEF tp, tq, mt
      <4>1. tp <= t /\ t < tp + TICKS /\ tq <= at /\ at < tq + TICKS
        BY <1>1 DEF tp, tq
      <4>. QED
        BY <1>2, <1>4, <1>6, <4>1
    <3>. QED
      BY <1>3, <3>1
  <2>2. q + MAX_AGE \in Int
    BY <1>1, <1>2
  <2>3. q + MAX_AGE < p
    BY <1>1, <2>1, <2>2, Cancel
  <2>. QED
    BY <1>1, <1>2, <2>3
<1>7. ASSUME t - at <= -TICKS PROVE p - q < 0
  <2>1. TICKS * p < TICKS * q
    <3>1. tp < tq
      <4>. HIDE DEF tp, tq
      <4>1. tp <= t /\ t < tp + TICKS /\ tq <= at /\ at < tq + TICKS
        BY <1>1 DEF tp, tq
      <4>. QED
        BY <1>2, <1>4, <1>7, <4>1
    <3>. QED
      BY <3>1
  <2>2. p < q
    BY <1>1, <2>1, Cancel
  <2>. QED
    BY <1>1, <2>2
<1>8. p - q \in Int
  BY <1>1
<1>9. /\ t - at \in 0 .. mt => 0 <= p - q /\ p - q <= MAX_AGE
      /\ t - at >= mt + TICKS \/ t - at <= -TICKS => ~(0 <= p - q /\ p - q <= MAX_AGE)
  BY <1>2, <1>5, <1>6, <1>7, <1>8
<1>. QED
  BY <1>3, <1>9 DEF NonceAge, p, q

\* What a nonce says of the time is the second it was made in.
Stamped(n) == n # None => n.at \in Int /\ n.stamp = n.at \div TICKS

Stamps ==
    /\ now \in Nat
    /\ Stamped(nonce) /\ Stamped(req.nonce)
    /\ req.nonce # None => req.sent.auth # None
    /\ req.pc # "idle" => req.task \in DOMAIN config.ahead

\* A nonce is handed out as it is made, and only then.
LEMMA NonceMade ==
    ASSUME Types, Chain
    PROVE  nonce' = nonce \/ nonce' = MakeNonce(req.task)
<1>1. ASSUME NEW detail, Unresolved(detail) PROVE nonce' = nonce \/ nonce' = MakeNonce(req.task)
  BY <1>1 DEF Unresolved
<1>2. ASSUME NEW s, NEW method, NEW orphan, Prove(s, method, orphan)
      PROVE  nonce' = nonce \/ nonce' = MakeNonce(req.task)
  BY <1>1, <1>2 DEF Prove
<1>3. CASE CheckToken
  BY <1>1, <1>3 DEF CheckToken, TokenRefused
<1>4. CASE TokenHolder \/ LineHolder \/ GbaHolder
  BY <1>2, <1>4 DEF TokenHolder, LineHolder, GbaHolder
<1>5. CASE CheckEnrichment
  BY <1>1, <1>5 DEF CheckEnrichment
<1>6. CASE CheckGba
  BY <1>1, <1>6 DEF CheckGba
<1>7. CASE ByImsi \/ ByNumber \/ NumberHolder
  BY <1>1, <1>7 DEF ByImsi, ByNumber, NumberHolder
<1>8. CASE CheckCode \/ Challenge \/ Serve
  BY <1>1, <1>8 DEF CheckCode, Challenge, Serve
<1>. QED
  BY <1>3, <1>4, <1>5, <1>6, <1>7, <1>8 DEF Chain

LEMMA StampsStep == Types /\ Stamps /\ [Next]_vars => Stamps'
<1>. SUFFICES ASSUME Types, Stamps, [Next]_vars PROVE Stamps'
  OBVIOUS
<1>0. /\ now \in Nat /\ Stamped(nonce) /\ Stamped(req.nonce)
      /\ req.nonce # None => req.sent.auth # None
      /\ req.pc # "idle" => req.task \in DOMAIN config.ahead
  BY DEF Stamps
<1>1. now' \in Nat
  <2>1. now' = now \/ now' = now + 1
    <3>1. Chain => now' = now
      BY ChainRest
    <3>2. \A s \in Subs : StoreStep(s) => now' = now
      BY StoreRest
    <3>. QED
      BY <3>1, <3>2 DEF Next, Chain, StoreStep, Send, Invalidate, Finish, Tick, vars
  <2>. QED
    BY <1>0, <2>1
<1>2. ASSUME NEW d \in Subs, Send(d) PROVE Stamps'
  <2>1. PICK r : Entered(d, r)
    BY <1>2, SendEffect
  <2>2. nonce' = nonce /\ config' = config
    BY <1>2, SendRest
  <2>. QED
    BY <1>0, <1>1, <2>1, <2>2 DEF Entered, Stamps, Stamped
<1>3. CASE Chain
  <2>1. Kept /\ req.pc \notin {"idle", "done"} /\ config' = config
    BY <1>3, ChainKeeps, ChainRest
  <2>2. nonce' = nonce \/ nonce' = MakeNonce(req.task)
    BY <1>3, NonceMade
  <2>3. Stamped(MakeNonce(req.task))
    <3>1. config.ahead[req.task] \in Int
      BY <1>0, <2>1, IdentityAssumption DEF Types
    <3>2. now + config.ahead[req.task] \in Int
      BY <1>0, <3>1
    <3>. QED
      BY <3>2 DEF Stamped, MakeNonce, Clock
  <2>4. Stamped(nonce')
    BY <1>0, <2>2, <2>3
  <2>. QED
    BY <1>0, <1>1, <2>1, <2>4 DEF Kept, Stamps
<1>4. CASE Finish
  <2>1. nonce' = nonce /\ req' = NoRequest
    BY <1>4, FinishRest
  <2>2. req'.pc = "idle" /\ req'.nonce = None
    BY <2>1 DEF NoRequest
  <2>. QED
    BY <1>0, <1>1, <2>1, <2>2 DEF Stamps, Stamped
<1>5. CASE UNCHANGED <<config, req, nonce>>
  BY <1>0, <1>1, <1>5 DEF Stamps
<1>. QED
  BY <1>2, <1>3, <1>4, <1>5, StepCases

\* Of a complete digest with a nonce that was handed out only the age of it decides whether the
\* nonce is refused.
LEMMA VerdictOnAge ==
    ASSUME NEW a, NEW n, NEW task, a.digest, a.complete, n # None
    PROVE  /\ NonceAge(Clock(task) - n.stamp) => Verdict(a, n, task) \in (GbaRefusals \cup {"verified"}) \ {"nonce_invalid"}
           /\ ~NonceAge(Clock(task) - n.stamp) => Verdict(a, n, task) = "nonce_invalid"
<1>1. CASE NonceAge(Clock(task) - n.stamp)
  BY <1>1 DEF Verdict, GbaRefusals
<1>2. CASE ~NonceAge(Clock(task) - n.stamp)
  BY <1>2 DEF Verdict
<1>. QED
  BY <1>1, <1>2

\* A nonce that the device was given is accepted until it is MAX_AGE old and refused a second
\* later, as old as the clocks of the two tasks make it, however far they are apart and however
\* many ticks a second has.
THEOREM NonceAccepted == Spec => NonceWindow
<1>. DEFINE Inv == Types /\ Stamps
<1>1. Init => Inv
  <2>1. Init => req.pc = "idle" /\ req.nonce = None /\ nonce = None /\ now \in Nat
    BY DEF Init, NoRequest
  <2>. QED
    BY <2>1, TypesInit DEF Stamps, Stamped
<1>2. Inv /\ [Next]_vars => Inv'
  BY TypesStep, StampsStep
<1>3. ASSUME Inv, [Next]_vars,
             At("gba"), ~(req.pc' = "gba"), config.gba # "off",
             req.nonce # None, req.sent.auth.digest, req.sent.auth.complete
      PROVE  LET age == now + config.ahead[req.task] - req.nonce.at IN
             /\ age \in 0 .. (MAX_AGE * TICKS) => answer'.detail # "nonce_invalid"
             /\ age >= (MAX_AGE + 1) * TICKS \/ age <= -TICKS => answer'.detail = "nonce_invalid"
  <2>. DEFINE t == now + config.ahead[req.task]
              at == req.nonce.at
              a == req.sent.auth
              verdict == Verdict(a, req.nonce, req.task)
              ok == NonceAge(Clock(req.task) - req.nonce.stamp)
  <2>1. /\ IsReq(req) /\ req.pc = "gba" /\ answer = NoAnswer
        /\ now \in Nat /\ Stamped(req.nonce) /\ req.task \in DOMAIN config.ahead /\ a # None
    BY <1>3 DEF Types, Stamps, At
  <2>2. /\ t \in Int /\ at \in Int /\ req.nonce.stamp = at \div TICKS
        /\ now + config.ahead[req.task] - req.nonce.at = t - at
    <3>1. config.ahead[req.task] \in Int
      BY <1>3, <2>1, IdentityAssumption DEF Types
    <3>. QED
      BY <1>3, <2>1, <3>1 DEF Stamped
  <2>3. Clock(req.task) = t \div TICKS
    BY DEF Clock
  <2>4. /\ t - at \in 0 .. (MAX_AGE * TICKS) => ok
        /\ t - at >= (MAX_AGE + 1) * TICKS \/ t - at <= -TICKS => ~ok
    <3>. HIDE DEF t, at
    <3>1. LET age == (t \div TICKS) - (at \div TICKS) IN
          /\ t - at \in 0 .. (MAX_AGE * TICKS) => NonceAge(age)
          /\ t - at >= (MAX_AGE + 1) * TICKS \/ t - at <= -TICKS => ~NonceAge(age)
      BY <2>2, AgeRounded
    <3>. QED
      BY <2>2, <2>3, <3>1
  <2>5. CheckGba
    BY <1>3, <2>1, StepCases DEF Send, Finish, At, Chain, CheckToken, TokenHolder, CheckEnrichment,
       LineHolder, GbaHolder, ByImsi, ByNumber, NumberHolder, CheckCode, Challenge, Serve
  <2>6. IF verdict \in {"not_digest", "incomplete", "nonce_invalid"} THEN Unresolved(verdict)
        ELSE IF config.gba = "unconfigured"
             THEN Answer("500", None, "none", "unconfigured")
             ELSE IF verdict = "verified" THEN GoAs("gba-holder", a.btid)
                  ELSE Unresolved(verdict)
    BY <1>3, <2>1, <2>5 DEF CheckGba
  <2>7. /\ ok => verdict \in (GbaRefusals \cup {"verified"}) \ {"nonce_invalid"}
        /\ ~ok => verdict = "nonce_invalid"
    BY <1>3, VerdictOnAge
  <2>8. \A detail : Unresolved(detail) => answer'.detail = detail
    BY <2>1, UnresolvedFails DEF Fails, Answered
  <2>9. Answer("500", None, "none", "unconfigured") => answer'.detail = "unconfigured"
    BY <2>1, AnswerAnswers DEF Answered
  <2>10. GoAs("gba-holder", a.btid) => answer'.detail = "none"
    BY <2>1 DEF GoAs, NoAnswer
  <2>. HIDE DEF ok, verdict, a
  <2>11. ~ok => answer'.detail = "nonce_invalid"
    BY <2>6, <2>7, <2>8
  <2>12. ok => answer'.detail # "nonce_invalid"
    BY <2>6, <2>7, <2>8, <2>9, <2>10 DEF GbaRefusals
  <2>13. /\ t - at \in 0 .. (MAX_AGE * TICKS) => answer'.detail # "nonce_invalid"
         /\ t - at >= (MAX_AGE + 1) * TICKS \/ t - at <= -TICKS => answer'.detail = "nonce_invalid"
    <3>. HIDE DEF t, at
    <3>. QED
      BY <2>4, <2>11, <2>12
  <2>. QED
    BY <2>2, <2>13, Zenon
<1>4. Inv /\ [Next]_vars =>
        [(/\ At("gba") /\ ~(req.pc' = "gba") /\ config.gba # "off"
          /\ req.nonce # None /\ req.sent.auth.digest /\ req.sent.auth.complete)
         => LET age == now + config.ahead[req.task] - req.nonce.at IN
            /\ age \in 0 .. (MAX_AGE * TICKS) => answer'.detail # "nonce_invalid"
            /\ age >= (MAX_AGE + 1) * TICKS \/ age <= -TICKS => answer'.detail = "nonce_invalid"]_vars
  BY <1>3
<1>. QED
  BY <1>1, <1>2, <1>4, PTL DEF Spec, NonceWindow
=============================================================================
