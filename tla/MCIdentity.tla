----------------------------- MODULE MCIdentity -----------------------------
(* Identity with two subscribers, whose numbers are each other's national form  *)
(* under one of the numbering plans, and the requests that their devices send. *)
EXTENDS Identity, TLC

CONSTANTS s1, s2, t1, t2

MCNumber == s1 :> <<8, 2, 1>> @@ s2 :> <<7, 2, 1>>

Other(d) == CHOOSE s \in Subs : s # d

Written(n, plus) == [plus |-> plus, digits |-> n]
Numbers == {Written(Number[s], plus) : s \in Subs, plus \in BOOLEAN}
           \cup {Written(<<0, 1>>, FALSE), Written(<<0, 2, 1>>, FALSE), Written(<<1>>, FALSE)}

Plain == [query |-> <<>>, form |-> <<>>, posted |-> FALSE, path |-> "caller", forwarded |-> <<>>,
          header |-> None, auth |-> None]

\* What a request says of who sends it, and the proof that it carries.
Claims(d) ==
    {<<>>, <<<<"IMSI", Other(d)>>>>, <<<<"IMSI", d>>, <<"imsi", Other(d)>>>>,
     <<<<"IMSI", d>>, <<"IMEI", d>>>>, <<<<"imsi", Stranger>>, <<"msisdn", Written(Number[d], TRUE)>>>>,
     <<<<"IMSI", d>>, <<"IMSI", Other(d)>>>>, <<<<"imei", "malformed">>>>,
     <<<<"vers", -99>>, <<"IMSI", d>>, <<"app", "ap2002">>>>, <<<<"vers", -100>>, <<"IMSI", d>>>>}
Proofs(d) == {<<>>, <<<<"token", d>>>>, <<<<"token", Stranger>>>>, <<<<"OTP", d>>>>, <<<<"otp", Stranger>>>>}

Claiming(d) ==
    {[Plain EXCEPT !.query = c \o p] : c \in Claims(d), p \in Proofs(d)}
    \cup {[Plain EXCEPT !.query = c, !.form = p, !.posted = TRUE] : c \in {<<<<"IMSI", d>>>>}, p \in Proofs(d)}
    \cup {[Plain EXCEPT !.query = <<<<"OTP", Stranger>>>>, !.form = <<<<"OTP", d>>>>, !.posted = TRUE]}

Spelling(d) == {[Plain EXCEPT !.query = q] : q \in UNION {{<<<<"MSISDN", n>>>>, <<<<"msisdn", n>>, <<"OTP", d>>>>} : n \in Numbers}}

\* Requests of devices that tell no lies.
Honest(d) == {[Plain EXCEPT !.query = c \o p] :
                  c \in {<<<<"IMSI", d>>, <<"msisdn", Written(Number[d], TRUE)>>>>,
                         <<<<"msisdn", Written(Number[d], TRUE)>>>>},
                  p \in {<<>>, <<<<"token", d>>>>, <<<<"OTP", d>>>>}}

\* Requests over the gateway, and requests that say they came over it.
Enriching(d) ==
    {[Plain EXCEPT !.path = path, !.forwarded = f, !.header = n, !.query = q] :
        path \in {"gateway", "caller"}, f \in {<<>>, <<"gateway">>}, n \in Numbers \cup {None},
        q \in {<<>>, <<<<"IMSI", Other(d)>>>>, <<<<"token", Stranger>>>>}}

Answering(d) ==
    {[Plain EXCEPT !.query = q, !.auth = a] :
        q \in {<<>>, <<<<"IMSI", d>>>>},
        a \in {[digest |-> TRUE, complete |-> TRUE, btid |-> b, key |-> d, method |-> m, answers |-> w] :
                  b \in Subs \cup {Stranger}, m \in BOOLEAN, w \in BOOLEAN}
              \cup {[digest |-> form[1], complete |-> form[2], btid |-> d, key |-> d, method |-> TRUE, answers |-> w] :
                  form \in {<<TRUE, FALSE>>, <<FALSE, TRUE>>}, w \in BOOLEAN}}

\* Without a country code; with the operator at work; with a country code, behind a gateway; with
\* another, whose trunk prefix starts a foreign number; with GBA, where time passes, on
\* one task and on two whose clocks differ, where a record changes, and without a BSF.
Bare     == [cc |-> <<>>, trunk |-> <<0>>, proxies |-> FALSE, gba |-> "off",
             ahead |-> t1 :> 0, until |-> 0, changes |-> 0, listed |-> {s1}]
Busy     == [Bare EXCEPT !.changes = 2]
Gateway  == [Bare EXCEPT !.cc = <<8, 2>>, !.proxies = TRUE, !.changes = 1]
Trunk8   == [Gateway EXCEPT !.cc = <<7>>, !.trunk = <<8>>, !.changes = 0]
InStep   == [Bare EXCEPT !.gba = "mock", !.until = 7]
Drifting == [InStep EXCEPT !.ahead = t1 :> 0 @@ t2 :> 2]
Proving  == [InStep EXCEPT !.until = 1, !.changes = 1]
Unready  == [Bare EXCEPT !.gba = "unconfigured"]

MCConfigs == {Bare, Busy, Gateway, Trunk8, InStep, Drifting, Proving, Unready}

MCRequests(c, d) ==
    IF c.gba # "off" THEN Answering(d)
    ELSE IF c.proxies THEN Spelling(d) \cup Enriching(d)
    ELSE IF c.changes = 2 THEN Honest(d)
    ELSE Claiming(d) \cup Spelling(d)
=============================================================================
