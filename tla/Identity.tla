------------------------------ MODULE Identity ------------------------------
(***************************************************************************)
(* Who a configuration request is taken to come from.                       *)
(*                                                                         *)
(*   acs/protocol/request.py   parse_config_query                           *)
(*   acs/security/pii.py       normalise_msisdn                             *)
(*   acs/auth/enrichment.py    resolve_enriched_identity                    *)
(*   acs/auth/gba.py           make_nonce, verify_nonce, verify_authorization*)
(*   acs/auth/token.py         verify_token                                 *)
(*   acs/domain/service.py     resolve_identity and the outcomes            *)
(*                                                                         *)
(* One request is in flight; between its reads of the store an operator      *)
(* changes what they return, and a read may still return what an item was     *)
(* (acs/store/dynamodb.py, get_item without ConsistentRead). Requests reach a *)
(* task through the operator's gateway or directly, in both cases over the    *)
(* load balancer. An IMSI, an IMEI, a B-TID, a code and a token are each      *)
(* named by the subscriber they belong to. A subscriber keeps its number: one *)
(* that changes it is in Subscribers. How a code is drawn, sent and counted   *)
(* is in OtpFlow, what a document holds in Document, and how it is served and *)
(* the record put back in Provisioning.                                      *)
(***************************************************************************)
EXTENDS Integers, Sequences, SequencesExt

CONSTANTS
    Subs,           \* subscribers, each with one device and one line
    None,
    Stranger,       \* an IMSI, IMEI, B-TID, code or token that is nobody's
    Number,         \* digits of the MSISDN, by subscriber
    MIN_DIGITS,     \* length of an MSISDN, 6 and 15 in the code
    MAX_DIGITS,
    TICKS,          \* steps of the clock in a second
    MAX_AGE,        \* max_nonce_age_seconds, 300 in the code
    Tasks,
    Requests(_, _), \* what a device sends, by configuration and device
    Configs         \* settings and surroundings, one record for each:
                    \*   cc, trunk   default_country_code, national_trunk_prefix
                    \*   proxies     trusted_proxy_list names the gateway
                    \*   gba         "off", "mock" or "unconfigured" (the BSF client)
                    \*   ahead       ticks by which the clock of each task is ahead
                    \*   until       bound: the clock of the run
                    \*   changes     bound: changes the operator makes
                    \*   listed      subscribers with an IMEI allowlist, of their own

ASSUME IdentityAssumption ==
    /\ {None, Stranger, "malformed"} \cap Subs = {}
    /\ None \notin Seq(0 .. 9) \cup [plus : BOOLEAN, digits : Seq(0 .. 9)]
    /\ Number \in [Subs -> Seq(0 .. 9)]
    /\ {MIN_DIGITS, MAX_DIGITS, MAX_AGE} \subseteq Nat /\ TICKS \in Nat \ {0}
    /\ \A c \in Configs :
          /\ {c.cc, c.trunk} \subseteq Seq(0 .. 9) /\ c.proxies \in BOOLEAN
          /\ c.gba \in {"off", "mock", "unconfigured"}
          /\ DOMAIN c.ahead \subseteq Tasks /\ \A t \in DOMAIN c.ahead : c.ahead[t] \in Int
          /\ c.until \in Nat /\ c.changes \in Nat /\ c.listed \subseteq Subs
          /\ \A d \in Subs : \A r \in Requests(c, d) :
                /\ {r.query, r.form} \subseteq Seq(ToSet(r.query) \cup ToSet(r.form))
                /\ r.forwarded \in Seq({"gateway", "caller"})

VARIABLES
    config,
    records,    \* item SUB#<imsi>: "absent", "barred" (not entitled) or "entitled"
    listed,     \* whether item MSISDN#<number> names the subscriber
    due,        \* subscribers whose record is written and whose MSISDN item is not yet
    tokens,     \* the token a device holds: None, or the IMEI it is bound to
                \* (None for none) and whether it is valid
    pastRecords, pastListed, pastTokens,
                \* what each item was before and a read may still return
    codes,      \* the codes that were sent and not used, by the line they went to
    nonce,      \* the newest nonce that was handed out: its stamp, and the issuer's clock
    now,
    changed,    \* changes the operator made
    req,        \* the request in flight
    answer,     \* its answer
    was,        \* history: the states of every record while it was in flight, and
                \* "unlisted" where the MSISDN item did not name the subscriber
    shown       \* history: the same, of what a read could still return when it was sent

store == <<records, listed, due, tokens, pastRecords, pastListed, pastTokens>>
world == <<store, codes, nonce, changed>>
vars  == <<config, world, now, req, answer, was, shown>>

-----------------------------------------------------------------------------
(* Parsing.                                                                  *)

\* PARAMETER_ALIASES, for the parameters that decide who asks.
Field(wire) ==
    CASE wire \in {"IMSI", "imsi"}     -> "imsi"
      [] wire \in {"IMEI", "imei"}     -> "imei"
      [] wire \in {"msisdn", "MSISDN"} -> "msisdn"
      [] wire \in {"OTP", "otp"}       -> "otp"
      [] OTHER                         -> wire

SINGLE_VALUE_ONLY == {"vers", "IMSI", "imsi", "IMEI", "imei", "msisdn", "token", "OTP", "otp"}

\* _multi_items: the query string, then the body of a form that is posted.
Params(r) == IF r.posted THEN r.query \o r.form ELSE r.query

\* _one: a name that stands for one value has one.
Repeated(params) ==
    \E i, j \in DOMAIN params : i < j /\ params[i][1] = params[j][1] /\ params[i][1] \in SINGLE_VALUE_ONLY

\* The first spelling of a field that was sent counts (setdefault).
Raw(params, field) ==
    LET sent == {i \in DOMAIN params : Field(params[i][1]) = field}
    IN  IF sent = {} THEN None ELSE params[CHOOSE i \in sent : \A j \in sent : i <= j][2]

\* Mutant: the number is converted although it says that it is international.
NationalAnyway(c, spelling) ==
    c.cc # <<>> /\ c.trunk # <<>> /\ IsPrefix(c.trunk, spelling.digits) /\ ~IsPrefix(c.cc, spelling.digits)

\* A number in national form, which the settings say how to complete.
National(c, spelling) ==
    /\ ~spelling.plus
    /\ c.cc # <<>> /\ c.trunk # <<>>
    /\ IsPrefix(c.trunk, spelling.digits)
    /\ ~IsPrefix(c.cc, spelling.digits)

\* normalise_msisdn: the digits of the E.164 number, or None.
Normalise(c, spelling) ==
    LET digits == IF National(c, spelling)
                  THEN c.cc \o SubSeq(spelling.digits, Len(c.trunk) + 1, Len(spelling.digits))
                  ELSE spelling.digits
    IN  IF Len(digits) \in MIN_DIGITS .. MAX_DIGITS /\ digits[1] # 0 THEN digits ELSE None

\* The fields other than the number. A field is None where it is not sent; an IMSI, an
\* IMEI or a code of the wrong shape is "malformed".
BadFields(params) ==
    \/ Repeated(params)
    \/ Raw(params, "vers") # None /\ Raw(params, "vers") \notin -99 .. 10000000
    \/ \E field \in {"imsi", "imei", "otp"} : Raw(params, field) = "malformed"

\* parse_config_query.
Malformed(c, params) ==
    \/ BadFields(params)
    \/ Raw(params, "msisdn") # None /\ Normalise(c, Raw(params, "msisdn")) = None

Query(c, r) ==
    LET params == Params(r) IN
    [imsi   |-> Raw(params, "imsi"), imei |-> Raw(params, "imei"),
     msisdn |-> IF Raw(params, "msisdn") = None THEN None ELSE Normalise(c, Raw(params, "msisdn")),
     token  |-> Raw(params, "token"), otp |-> Raw(params, "otp")]

\* How a client or a gateway writes the number of a subscriber: with a plus, without
\* it, or in national form.
Spellings(c, s) ==
    {[plus |-> TRUE, digits |-> Number[s]], [plus |-> FALSE, digits |-> Number[s]]}
    \cup IF c.cc # <<>> /\ c.trunk # <<>> /\ IsPrefix(c.cc, Number[s])
         THEN {[plus |-> FALSE, digits |-> c.trunk \o SubSeq(Number[s], Len(c.cc) + 1, Len(Number[s]))]}
         ELSE {}

\* Written without its plus, a number that starts with the trunk prefix is taken for a
\* national one.
Misread(c, w) == ~w.plus /\ c.trunk # <<>> /\ IsPrefix(c.trunk, w.digits)

-----------------------------------------------------------------------------
(* The store. A read returns what an item is, or what it was.                *)

Records(s) == {records[s]} \cup pastRecords[s]

\* Item MSISDN#<digits> names a subscriber, or is not there.
Holders(digits) ==
    LET names(s) == {listed[s]} \cup pastListed[s]
        those    == {s \in Subs : Number[s] = digits}
    IN  {s \in those : TRUE \in names(s)} \cup {x \in {None} : \A s \in those : FALSE \in names(s)}

Tokens(t) == IF t \in Subs THEN {tokens[t]} \cup pastTokens[t] ELSE {None}

\* What a record and its MSISDN item say of a subscriber.
Facts(states, names) == states \cup {u \in {"unlisted"} : FALSE \in names}

-----------------------------------------------------------------------------
(* Header enrichment.                                                        *)

\* The load balancer appends the address it saw; the device wrote the rest.
Forwarded(r) == Append(r.forwarded, r.path)

\* Mutant: the address the caller wrote first.
ClientAddressFirst(r) == Head(Forwarded(r))

\* client_address: the right-most entry of X-Forwarded-For.
ClientAddress(r) == Last(Forwarded(r))

\* resolve_enriched_identity: the number of the header, from a trusted peer only.
\* None where it is disabled, absent, untrusted or malformed.
Enriched(c, r) ==
    IF c.proxies /\ r.header # None /\ ClientAddress(r) = "gateway" THEN Normalise(c, r.header) ELSE None

-----------------------------------------------------------------------------
(* GBA.                                                                      *)

\* int(time.time()) of a task.
Clock(task) == (now + config.ahead[task]) \div TICKS

\* make_nonce: the second of issue, signed.
MakeNonce(task) == [stamp |-> Clock(task), at |-> now + config.ahead[task]]

\* Mutant: a nonce is good for one second less.
NonceAgeShort(age) == 0 <= age /\ age < MAX_AGE

\* verify_nonce, of a nonce that is signed.
NonceAge(age) == 0 <= age /\ age <= MAX_AGE

\* verify_authorization: why a header is refused, or "verified". A device computes
\* the response with its own Ks_NAF, over the method it uses.
Verdict(a, n, task) ==
    CASE ~a.digest -> "not_digest"
      [] a.digest /\ ~a.complete -> "incomplete"
      [] a.digest /\ a.complete /\ (n = None \/ ~NonceAge(Clock(task) - n.stamp)) -> "nonce_invalid"
      [] OTHER -> IF a.btid = Stranger THEN "btid_unknown"
                  ELSE IF a.btid # a.key \/ ~a.method THEN "response_mismatch" ELSE "verified"

-----------------------------------------------------------------------------
(* The chain.                                                                *)

NoRequest == [pc |-> "idle", device |-> None, task |-> None, sent |-> None, nonce |-> None, sub |-> None]
NoAnswer  == [kind |-> "none", as |-> None, method |-> "none", detail |-> "none"]

Init ==
    /\ config \in Configs
    /\ records = [s \in Subs |-> "entitled"]
    /\ listed = [s \in Subs |-> TRUE]
    /\ due = {}
    /\ tokens = [s \in Subs |-> None]
    /\ pastRecords = [s \in Subs |-> {}]
    /\ pastListed = [s \in Subs |-> {}]
    /\ pastTokens = [s \in Subs |-> {}]
    /\ codes = {}
    /\ nonce = None
    /\ now = 0
    /\ changed = 0
    /\ req = NoRequest
    /\ answer = NoAnswer
    /\ was = [s \in Subs |-> {}]
    /\ shown = [s \in Subs |-> {}]

query == Query(config, req.sent)

At(pc) == req.pc = pc

Go(pc)      == req' = [req EXCEPT !.pc = pc] /\ UNCHANGED answer
GoAs(pc, s) == req' = [req EXCEPT !.pc = pc, !.sub = s] /\ UNCHANGED answer

Answer(kind, as, method, detail) ==
    /\ req' = [req EXCEPT !.pc = "done"]
    /\ answer' = [kind |-> kind, as |-> as, method |-> method, detail |-> detail]

\* _unresolved_outcome: 511, or a challenge with a fresh nonce where GBA is on.
Unresolved(detail) ==
    IF config.gba = "off"
    THEN Answer("511", None, "none", detail) /\ UNCHANGED nonce
    ELSE Answer("401", None, "none", detail) /\ nonce' = MakeNonce(req.task)

\* Mutant: a subscriber that is proven is served.
ProveAnyway(s, method, orphan) ==
    \E record \in Records(s) :
        IF record = "absent" THEN Unresolved(orphan) ELSE GoAs(method, s) /\ UNCHANGED nonce

\* A subscriber that is proven by a method is served if the record that is read is entitled.
Prove(s, method, orphan) ==
    \E record \in Records(s) :
        \/ record = "absent" /\ Unresolved(orphan)
        \/ record = "barred" /\ Answer("403", s, method, "not_entitled") /\ UNCHANGED nonce
        \/ record = "entitled" /\ GoAs(method, s) /\ UNCHANGED nonce

Rest == UNCHANGED <<config, store, codes, changed, now, was, shown>>

\* A device holds its own token, the codes that came to its line, and its own key.
\* The gateway writes the header itself, from the line the request came over.
Holds(d, r) ==
    /\ \A p \in ToSet(Params(r)) : Field(p[1]) \in {"token", "otp"} => p[2] \in {d, Stranger, "malformed"}
    /\ r.auth # None => r.auth.key = d
    /\ r.path = "gateway" => r.header \in Spellings(config, d) \cup {None}

\* A device sends a request: it is refused while it is parsed, or looked at by a task.
Send(d) ==
    /\ At("idle")
    /\ \E r \in {sent \in Requests(config, d) : Holds(d, sent)}, task \in DOMAIN config.ahead :
          LET q == [pc |-> "token", device |-> d, task |-> task, sent |-> r, sub |-> None,
                    nonce |-> IF r.auth # None /\ r.auth.answers THEN nonce ELSE None]
          IN  IF Malformed(config, Params(r))
              THEN /\ req' = [q EXCEPT !.pc = "done"]
                   /\ answer' = [NoAnswer EXCEPT !.kind = "400"]
              ELSE /\ req' = q
                   /\ answer' = NoAnswer
    /\ was' = [s \in Subs |-> Facts({records[s]}, {listed[s]})]
    /\ shown' = [s \in Subs |-> Facts(pastRecords[s], pastListed[s])]
    /\ UNCHANGED <<config, world, now>>

\* Mutant: a token that is not valid is ignored.
TokenRefusedQuietly == Go("enrichment") /\ UNCHANGED nonce

\* An invalid token sends the client back to bootstrapping.
TokenRefused == Unresolved("token_invalid")

\* verify_token: the token that is read is there, valid, and bound to no other IMEI.
TokenValid(token) == token # None /\ token.valid /\ token.imei \in {None, query.imei}

CheckToken ==
    /\ At("token")
    /\ \/ /\ query.token = None
          /\ Go("enrichment")
          /\ UNCHANGED nonce
       \/ /\ query.token # None
          /\ \E token \in Tokens(query.token) :
                IF TokenValid(token) THEN GoAs("token-holder", query.token) /\ UNCHANGED nonce
                ELSE TokenRefused
    /\ Rest

TokenHolder ==
    /\ At("token-holder")
    /\ Prove(req.sub, "by-token", "token_orphaned")
    /\ Rest

CheckEnrichment ==
    /\ At("enrichment")
    /\ LET digits == Enriched(config, req.sent) IN
       \/ digits = None /\ Go("gba") /\ UNCHANGED nonce
       \/ /\ digits # None
          /\ \E s \in Holders(digits) :
                IF s = None THEN Unresolved("enriched_msisdn_unknown")
                ELSE GoAs("line-holder", s) /\ UNCHANGED nonce
    /\ Rest

\* The MSISDN item is read first, then the record that it names.
LineHolder ==
    /\ At("line-holder")
    /\ Prove(req.sub, "by-enrichment", "enriched_msisdn_unknown")
    /\ Rest

\* _resolve_gba: the B-TID of a header that verifies is looked up; a header that does
\* not is answered with a fresh challenge. Without a BSF client fetch_keys raises.
CheckGba ==
    /\ At("gba")
    /\ LET a == req.sent.auth IN
       \/ (config.gba = "off" \/ a = None) /\ Go("candidate") /\ UNCHANGED nonce
       \/ /\ config.gba # "off" /\ a # None
          /\ LET verdict == Verdict(a, req.nonce, req.task) IN
             IF verdict \in {"not_digest", "incomplete", "nonce_invalid"} THEN Unresolved(verdict)
             ELSE IF config.gba = "unconfigured"
                  THEN Answer("500", None, "none", "unconfigured") /\ UNCHANGED nonce
                  ELSE IF verdict = "verified" THEN GoAs("gba-holder", a.btid) /\ UNCHANGED nonce
                       ELSE Unresolved(verdict)
    /\ Rest

GbaHolder ==
    /\ At("gba-holder")
    /\ Prove(req.sub, "by-gba", "gba_subscriber_unknown")
    /\ Rest

\* imei_allowed: an allowlist names the IMEI of the subscriber's own device.
ImeiAllowed(s) == s \in config.listed => query.imei = s

\* The candidate that the claims name must be entitled, with an IMEI that is allowed.
Consider(s, record) ==
    IF record = "barred" \/ ~ImeiAllowed(s)
    THEN Answer("403", s, "claim", IF record = "barred" THEN "not_entitled" ELSE "imei_not_allowed")
    ELSE GoAs("candidate-known", s)

\* _lookup_candidate: by IMSI first.
ByImsi ==
    /\ At("candidate")
    /\ \/ /\ query.imsi \in Subs
          /\ \E record \in Records(query.imsi) \ {"absent"} : Consider(query.imsi, record)
       \/ (query.imsi \in Subs => "absent" \in Records(query.imsi)) /\ Go("by-number")
    /\ UNCHANGED nonce
    /\ Rest

\* Then by MSISDN.
ByNumber ==
    /\ At("by-number")
    /\ \E s \in IF query.msisdn = None THEN {None} ELSE Holders(query.msisdn) :
          IF s = None THEN Unresolved("subscriber_unknown")
          ELSE GoAs("number-holder", s) /\ UNCHANGED nonce
    /\ Rest

NumberHolder ==
    /\ At("number-holder")
    /\ \E record \in Records(req.sub) :
          IF record = "absent" THEN Unresolved("subscriber_unknown")
          ELSE Consider(req.sub, record) /\ UNCHANGED nonce
    /\ Rest

\* verify_challenge, for the number of the candidate.
CodeMatches(s) == query.otp \in codes /\ query.otp = s

\* A code that verifies is used up; one that matches may have expired, or lost its
\* attempts.
CheckCode ==
    /\ At("candidate-known")
    /\ query.otp # None
    /\ \/ /\ CodeMatches(req.sub)
          /\ codes' = codes \ {req.sub}
          /\ Go("by-otp")
          /\ UNCHANGED nonce
       \/ /\ UNCHANGED codes
          /\ Unresolved("otp")
    /\ UNCHANGED <<config, store, changed, now, was, shown>>

\* _issue_otp: a code is on its way to the candidate's line, or sending was refused
\* (429, 503) or failed, and the code that was stored for it is discarded.
Challenge ==
    /\ At("candidate-known")
    /\ query.otp = None
    /\ \/ codes' = codes \cup {req.sub} /\ Answer("pending", req.sub, "claim", "none")
       \/ codes' \in {codes, codes \ {req.sub}} /\ Answer("later", req.sub, "claim", "none")
    /\ UNCHANGED <<config, store, nonce, changed, now, was, shown>>

\* The configuration, with a token bound to the IMEI of the request, or a forced or
\* current revision, without one. The device that asked has the answer.
Serve ==
    /\ req.pc \in {"by-token", "by-enrichment", "by-gba", "by-otp"}
    /\ \/ /\ tokens' = [tokens EXCEPT ![req.sub] = [imei |-> query.imei, valid |-> TRUE]]
          /\ pastTokens' = [pastTokens EXCEPT ![req.sub] = {None}]
       \/ UNCHANGED <<tokens, pastTokens>>
    /\ Answer("served", req.sub, req.pc, "none")
    /\ UNCHANGED <<config, records, listed, due, pastRecords, pastListed, codes, nonce, changed, now, was, shown>>

\* The exchange is over.
Finish ==
    /\ At("done")
    /\ req' = NoRequest
    /\ answer' = NoAnswer
    /\ was' = [s \in Subs |-> {}]
    /\ shown' = [s \in Subs |-> {}]
    /\ UNCHANGED <<config, world, now>>

\* A request in flight sees what becomes of a subscriber.
Witness(s, facts) == was' = IF At("idle") THEN was ELSE [was EXCEPT ![s] = @ \cup facts]

\* The operator creates, deletes, entitles or bars a subscriber: its record is put or
\* deleted, and the MSISDN item is due.
Change(s) ==
    /\ changed < config.changes
    /\ changed' = changed + 1
    /\ \E to \in {"absent", "barred", "entitled"} \ {records[s]} :
          /\ records' = [records EXCEPT ![s] = to]
          /\ pastRecords' = [pastRecords EXCEPT ![s] = (@ \cup {records[s]}) \ {to}]
          /\ Witness(s, {to})
    /\ due' = due \cup {s}
    /\ UNCHANGED <<config, listed, tokens, pastListed, pastTokens, codes, nonce, now, req, answer, shown>>

\* The MSISDN item is put or deleted after the record. It is not if the task stops or the
\* write fails, nor where the read that a deletion starts with returned no record.
Reindex(s) ==
    /\ s \in due
    /\ due' = due \ {s}
    /\ LET names == records[s] # "absent" IN
          /\ listed' = [listed EXCEPT ![s] = names]
          /\ pastListed' = [pastListed EXCEPT ![s] = (@ \cup {listed[s]}) \ {names}]
          /\ Witness(s, Facts({}, {names}))
    /\ UNCHANGED <<config, records, tokens, pastRecords, pastTokens, codes, nonce, changed, now, req, answer, shown>>

\* A token is revoked, or expires; a code expires.
Invalidate(s) ==
    /\ changed < config.changes
    /\ changed' = changed + 1
    /\ \/ /\ tokens[s] # None
          /\ tokens' = [tokens EXCEPT ![s].valid = FALSE]
          /\ pastTokens' = [pastTokens EXCEPT ![s] = @ \cup {tokens[s]}]
          /\ UNCHANGED codes
       \/ s \in codes /\ codes' = codes \ {s} /\ UNCHANGED <<tokens, pastTokens>>
    /\ UNCHANGED <<config, records, listed, due, pastRecords, pastListed, nonce, now, req, answer, was, shown>>

\* Every copy of an item has its last write.
CatchUp(s) ==
    /\ \/ pastRecords' = [pastRecords EXCEPT ![s] = {}] /\ UNCHANGED <<pastListed, pastTokens>>
       \/ pastListed' = [pastListed EXCEPT ![s] = {}] /\ UNCHANGED <<pastRecords, pastTokens>>
       \/ pastTokens' = [pastTokens EXCEPT ![s] = {}] /\ UNCHANGED <<pastRecords, pastListed>>
    /\ UNCHANGED <<config, records, listed, due, tokens, codes, nonce, changed, now, req, answer, was, shown>>

Tick ==
    /\ now < config.until
    /\ now' = now + 1
    /\ UNCHANGED <<config, world, req, answer, was, shown>>

Next ==
    \/ \E d \in Subs : Send(d) \/ Change(d) \/ Reindex(d) \/ Invalidate(d) \/ CatchUp(d)
    \/ CheckToken \/ TokenHolder \/ CheckEnrichment \/ LineHolder \/ CheckGba \/ GbaHolder
    \/ ByImsi \/ ByNumber \/ NumberHolder \/ CheckCode \/ Challenge \/ Serve \/ Finish
    \/ Tick

Spec == Init /\ [][Next]_vars

-----------------------------------------------------------------------------
(* Properties.                                                               *)

\* A request is served as the subscriber whose device sent it, whatever it claims in
\* parameters and headers: a claim is never proof (acs/auth/identity.py). The gateway
\* must write the plus of a number that its absence would turn into another.
OnlyOwn ==
    answer.kind = "served" =>
        \/ answer.as = req.device
        \/ answer.method = "by-enrichment" /\ Misread(config, [plus |-> req.sent.header.plus, digits |-> Number[req.device]])

\* A request that shows a token is served by it or not at all, and one that shows an
\* Authorization header while GBA is on falls back on no code: evidence that is refused
\* is not made up for by a weaker method.
NeverWeaker ==
    answer.kind \in {"served", "pending", "later"} =>
        /\ query.token # None => answer.method = "by-token"
        /\ query.token = None /\ config.gba # "off" /\ req.sent.auth # None =>
              answer.method \in {"by-enrichment", "by-gba"}

\* Whoever is served was entitled while the request was in flight, and whoever is
\* refused as unknown or not entitled was absent or barred in that time, although the
\* record is changed between the reads; or else a read could still return that when the
\* request was sent. Once every copy has a change, what is sent after it is decided on it.
DecidedOnTheRecord ==
    LET seen(s) == was[s] \cup shown[s] IN
    /\ answer.kind \in {"served", "pending"} => "entitled" \in seen(answer.as)
    /\ answer.detail = "not_entitled" => "barred" \in seen(answer.as)
    /\ answer.detail = "subscriber_unknown" /\ query.imsi \in Subs => "absent" \in seen(query.imsi)

\* Nobody is served who was barred all the time that the request was in flight: the
\* documentation says that a subscriber who is not entitled is answered with 403.
BarHolds == answer.kind = "served" => was[answer.as] \ {"unlisted"} # {"barred"}

\* A request that claims a number only, in whichever way it is written, is about the
\* subscriber with that number. It finds nobody because the subscriber was absent, or not
\* listed under its number, or because a read could still return that.
SpellingsFind ==
    \A s \in Subs :
        (/\ At("done") /\ req.sent # None
         /\ query.imsi = None
         /\ LET w == Raw(Params(req.sent), "msisdn") IN
            w \in Spellings(config, s) /\ ~Misread(config, [w EXCEPT !.digits = Number[s]]))
        => /\ answer.method = "claim" => answer.as = s
           /\ answer.detail = "subscriber_unknown" => {"absent", "unlisted"} \cap (was[s] \cup shown[s]) # {}
           /\ answer.kind = "400" => BadFields(Params(req.sent))

\* A nonce that the device was given is accepted until it is MAX_AGE old and refused a
\* second later, as old as the clocks of the two tasks make it.
NonceWindow ==
    [][(/\ At("gba") /\ ~(req.pc' = "gba") /\ config.gba # "off"
        /\ req.nonce # None /\ req.sent.auth.digest /\ req.sent.auth.complete)
       => LET age == now + config.ahead[req.task] - req.nonce.at IN
          /\ age \in 0 .. (MAX_AGE * TICKS) => answer'.detail # "nonce_invalid"
          /\ age >= (MAX_AGE + 1) * TICKS \/ age <= -TICKS => answer'.detail = "nonce_invalid"]_vars

\* A nonce that a device was given less than MAX_AGE ago is accepted, whichever task it
\* reaches (acs/auth/gba.py, make_nonce).
NonceHonoured ==
    At("done") /\ req.nonce # None /\ now <= MAX_AGE * TICKS => answer.detail # "nonce_invalid"

\* The documentation says that an IMEI off the allowlist is refused; only a request that
\* claims who it is meets the list.
AllowlistHolds == answer.kind = "served" => ImeiAllowed(answer.as)
=============================================================================
