---------------------------- MODULE Provisioning ----------------------------
(***************************************************************************)
(* One subscriber's record and provisioning tokens, used by configuration     *)
(* requests, the admin API and the admin console at the same time, on any     *)
(* task.                                                                    *)
(*                                                                         *)
(*   acs/domain/service.py     resolve_identity, _serve_configuration        *)
(*   acs/auth/token.py         issue_token, verify_token                     *)
(*   acs/protocol/vers.py      next_version, client_holds_current            *)
(*   acs/api/admin.py          the operations on a subscriber                *)
(*   acs/api/console.py        the same ones, and update                     *)
(*   acs/store/dynamodb.py     subscriber and token items, gsi1              *)
(*                                                                         *)
(* A subscriber is read, changed in memory and written back whole, without a  *)
(* condition. A store call is one step. The MSISDN index is in Subscribers,   *)
(* the one-time password in OtpFlow: here a request has a verified code or    *)
(* not. Profile, allowlist and overrides decide what a document holds, not    *)
(* whether one is sent, and are left out.                                    *)
(***************************************************************************)
EXTENDS Integers, FiniteSets, FiniteSetsExt, Functions

CONSTANTS
    Actors,         \* requests and operator calls in flight
    None,
    N_TOKENS,       \* bound: tokens issued
    MAX_VERSION,    \* bound: configuration revisions
    N_SECRETS,      \* bound: dm_password values drawn
    Forceable,      \* FORCEABLE_VERSIONS, 0 .. -4 in the code
    PUT_VERSIONS,   \* revisions an operator may put explicitly
    LIMIT,          \* _query_gsi1's limit, 100 in the code
    Workloads       \* what is going on, one record for each workload:
                    \*   overlap     calls overlap, or each ends before the next
                    \*   calls       the operator calls that are made
                    \*   holds       revisions that clients hold
                    \*   tokens      tokens issued at most
                    \*   lag         gsi1 may lack the newest tokens

\* The operator calls, of the admin API and the console.
Writers == {"put", "update", "create", "disable", "override", "invalidate", "enable"}
Calls   == Writers \cup {"revoke", "admin-token", "console-token", "delete"}

ASSUME ProvisioningAssumption ==
    /\ N_TOKENS \in Nat /\ MAX_VERSION \in Nat \ {0} /\ N_SECRETS \in Nat /\ LIMIT \in Nat
    /\ Forceable \subseteq Int /\ PUT_VERSIONS \subseteq 0 .. MAX_VERSION
    /\ Workloads \subseteq [overlap : BOOLEAN, calls : SUBSET Calls, holds : SUBSET (0 .. MAX_VERSION),
                             tokens : 0 .. N_TOKENS, lag : BOOLEAN]

Tokens == 1 .. N_TOKENS

\* A subscriber's record.
ForcedValues == Forceable \cup {None}
Records == [entitled : BOOLEAN, forced : ForcedValues, version : 0 .. MAX_VERSION,
            secret : 0 .. N_SECRETS]

ASSUME NoneAssumption ==
    None \notin Records /\ None \notin Forceable /\ None \notin Calls /\ None \notin Tokens

VARIABLES
    sub,        \* item SUB#<imsi>
    tokens,     \* items TOKEN#<sha256>, by the order they were issued in
    indexed,    \* the tokens that gsi1 shows
    actor,      \* the locals of every actor
    drawn,      \* dm_password values drawn so far
    last,       \* the last answer to a configuration request
    barred,     \* history: a completed disable stands, no operator undid it
    clobbered,  \* history: a record was overwritten that the writer had not read
    workload    \* what is going on

store == <<sub, tokens, indexed>>
vars  == <<store, actor, drawn, last, barred, clobbered, workload>>

Issued == {t \in Tokens : tokens[t] # "unused"}
Active == {t \in Tokens : tokens[t] = "active"}

\* A subscriber as console and admin create it; dm_password "" is 0.
NewSubscriber == [entitled |-> TRUE, forced |-> None, version |-> 1, secret |-> 0]
NoAnswer == [kind |-> "none", version |-> 0, secret |-> 0, token |-> None, late |-> FALSE]
Rested   == [pc |-> "idle", op |-> None, arg |-> None, holds |-> 0, tok |-> None, sub |-> None,
             list |-> {}, before |-> {}, late |-> FALSE]

Init ==
    /\ sub = NewSubscriber
    /\ tokens = [t \in Tokens |-> "unused"]
    /\ indexed = {}
    /\ actor = [a \in Actors |-> Rested]
    /\ drawn = 0
    /\ last = NoAnswer
    /\ barred = FALSE
    /\ clobbered = FALSE
    /\ workload \in Workloads

\* An actor takes up a call.
MayStart(a) ==
    /\ actor[a].pc = "idle"
    /\ ~workload.overlap => \A b \in Actors : actor[b].pc = "idle"

\* Mutant: a bump restarts the revisions.
NextVersionReset(current) == 1

\* next_version: monotonic, restarting at 1 from a non-positive value.
NextVersion(current) == IF current > 0 THEN current + 1 ELSE 1

Set(a, r) == actor' = [actor EXCEPT ![a] = r]

\* put_subscriber: the whole record, whatever was written since a read it.
Put(a, s) ==
    /\ sub' = s
    /\ clobbered' = (clobbered \/ sub # actor[a].sub)

Quiet == UNCHANGED <<store, drawn, last, barred, clobbered, workload>>

-----------------------------------------------------------------------------
(* Configuration requests.                                                   *)

\* The client holds revision "holds" and proves who it is with a token, with a
\* one-time password, or through the network (enrichment header, GBA).
StartConfig(a) ==
    /\ MayStart(a)
    /\ \E holds \in workload.holds :
          \/ \E t \in Issued : Set(a, [Rested EXCEPT !.pc = "token", !.op = "config", !.tok = t,
                                         !.holds = holds, !.late = barred])
          \/ \E arg \in {"otp", "network"} :
                Set(a, [Rested EXCEPT !.pc = "identity", !.op = "config", !.arg = arg,
                           !.holds = holds, !.late = barred])
    /\ Quiet

\* verify_token: a token that is revoked, expired or bound to another IMEI sends
\* the client back to bootstrap.
VerifyToken(a) ==
    /\ actor[a].pc = "token"
    /\ \/ /\ actor[a].tok \in Active
          /\ Set(a, [actor[a] EXCEPT !.pc = "identity"])
          /\ UNCHANGED last
       \/ /\ Set(a, Rested)
          /\ last' = [NoAnswer EXCEPT !.kind = "511"]
    /\ UNCHANGED <<store, drawn, barred, clobbered, workload>>

\* resolve_identity: unknown is 511, not entitled 403. The code of a one-time
\* password is verified after the subscriber was read.
Identify(a) ==
    /\ actor[a].pc = "identity"
    /\ IF sub = None \/ ~sub.entitled
       THEN /\ Set(a, Rested)
            /\ last' = [NoAnswer EXCEPT !.kind = IF sub = None THEN "511" ELSE "403"]
       ELSE /\ Set(a, [actor[a] EXCEPT !.pc = IF actor[a].arg = "otp" THEN "otp" ELSE "serve",
                                       !.sub = sub])
            /\ UNCHANGED last
    /\ UNCHANGED <<store, drawn, barred, clobbered, workload>>

\* imei_allowed and verify_challenge: an IMEI off the allowlist is 403, a missing
\* or wrong code is a new challenge or 511.
OtpOutcome(a) ==
    /\ actor[a].pc = "otp"
    /\ \/ Set(a, [actor[a] EXCEPT !.pc = "serve"]) /\ UNCHANGED last
       \/ Set(a, Rested) /\ \E kind \in {"403", "511"} : last' = [NoAnswer EXCEPT !.kind = kind]
    /\ UNCHANGED <<store, drawn, barred, clobbered, workload>>

\* Mutant: "if subscriber.forced_vers".
IsForcedTruthy(s) == s.forced \notin {None, 0}

\* The operator forced a value, which may be 0.
IsForced(s) == s.forced # None

\* A forced value is served alone.
ServeForced(a) ==
    /\ actor[a].pc = "serve"
    /\ IsForced(actor[a].sub)
    /\ Set(a, Rested)
    /\ last' = [NoAnswer EXCEPT !.kind = "disabled", !.version = actor[a].sub.forced]
    /\ UNCHANGED <<store, drawn, barred, clobbered, workload>>

\* A revision below 1 is repaired, and the whole record is written back.
RepairVersion(a) ==
    /\ actor[a].pc = "serve"
    /\ ~IsForced(actor[a].sub)
    /\ actor[a].sub.version <= 0
    /\ LET s == [actor[a].sub EXCEPT !.version = NextVersion(@)] IN
       /\ Put(a, s)
       /\ Set(a, [actor[a] EXCEPT !.sub = s])
    /\ UNCHANGED <<tokens, indexed, drawn, last, barred, workload>>

\* The revision to serve is settled.
Ready(a) == actor[a].pc = "serve" /\ ~IsForced(actor[a].sub) /\ actor[a].sub.version > 0

\* client_holds_current, for the revision of the record that was read.
HoldsCurrent(a) == actor[a].holds = actor[a].sub.version

\* VERS only, no token.
ServeUnchanged(a) ==
    /\ Ready(a)
    /\ HoldsCurrent(a)
    /\ Set(a, Rested)
    /\ last' = [NoAnswer EXCEPT !.kind = "unchanged", !.version = actor[a].sub.version]
    /\ UNCHANGED <<store, drawn, barred, clobbered, workload>>

\* issue_token; tokens are numbered in the order of issued_at.
Mint(t) ==
    /\ t = Cardinality(Issued) + 1
    /\ t <= workload.tokens
    /\ tokens' = [tokens EXCEPT ![t] = "active"]
    /\ indexed' = IF workload.lag THEN indexed ELSE indexed \cup {t}

IssueToken(a) ==
    /\ Ready(a)
    /\ ~HoldsCurrent(a)
    /\ \E t \in Tokens :
          /\ Mint(t)
          /\ Set(a, [actor[a] EXCEPT !.pc = "secret", !.tok = t])
    /\ UNCHANGED <<sub, drawn, last, barred, clobbered, workload>>

\* Mutant: the drawn dm_password is not written back.
DrawSecretUnsaved(a) ==
    /\ actor[a].pc = "secret"
    /\ actor[a].sub.secret = 0
    /\ drawn < N_SECRETS
    /\ drawn' = drawn + 1
    /\ Set(a, [actor[a] EXCEPT !.pc = "document", !.sub.secret = drawn + 1])
    /\ UNCHANGED <<store, last, barred, clobbered, workload>>

\* A subscriber without a dm_password gets one, and is written back whole.
DrawSecret(a) ==
    /\ actor[a].pc = "secret"
    /\ actor[a].sub.secret = 0
    /\ drawn < N_SECRETS
    /\ drawn' = drawn + 1
    /\ LET s == [actor[a].sub EXCEPT !.secret = drawn + 1] IN
       /\ Put(a, s)
       /\ Set(a, [actor[a] EXCEPT !.pc = "document", !.sub = s])
    /\ UNCHANGED <<tokens, indexed, last, barred, workload>>

HasSecret(a) ==
    /\ actor[a].pc = "secret"
    /\ actor[a].sub.secret # 0
    /\ Set(a, [actor[a] EXCEPT !.pc = "document"])
    /\ Quiet

\* The document, with the token and the dm_password.
ServeDocument(a) ==
    /\ actor[a].pc = "document"
    /\ last' = [kind |-> "served", version |-> actor[a].sub.version,
                secret |-> actor[a].sub.secret, token |-> actor[a].tok, late |-> actor[a].late]
    /\ Set(a, Rested)
    /\ UNCHANGED <<store, drawn, barred, clobbered, workload>>

-----------------------------------------------------------------------------
(* Operator calls. Each loads the record, and writes it back or touches the   *)
(* tokens.                                                                   *)

\* What the operator asks for, by call.
Asks ==
    [op : {"put"}, entitled : BOOLEAN, forced : ForcedValues, version : PUT_VERSIONS]
    \cup [op : {"update"}, entitled : BOOLEAN, forced : ForcedValues]
    \cup [op : {"create"}, entitled : BOOLEAN]
    \cup [op : {"disable"}, forced : Forceable]
    \cup [op : {"override", "invalidate", "enable", "revoke", "admin-token", "console-token",
               "delete"}]

\* The calls that an operator makes to lift a disable, or that may.
Lifters  == {"put", "update", "create", "invalidate", "enable", "delete"}
Revokers == {"disable", "revoke", "delete"}

\* The record an operator call writes, from the one it read. put keeps the
\* dm_password only; override changes what a document holds.
Changed(ask, s) ==
    CASE ask.op = "put" -> [entitled |-> ask.entitled, forced |-> ask.forced,
                            version |-> ask.version, secret |-> IF s = None THEN 0 ELSE s.secret]
      [] ask.op = "create" -> [NewSubscriber EXCEPT !.entitled = ask.entitled]
      [] ask.op = "update" -> [s EXCEPT !.entitled = ask.entitled, !.forced = ask.forced]
      [] ask.op = "override" -> s
      [] ask.op = "disable" -> [s EXCEPT !.forced = ask.forced]
      [] ask.op = "invalidate" -> [s EXCEPT !.version = NextVersion(@), !.forced = None]
      [] ask.op = "enable" -> [s EXCEPT !.version = NextVersion(@), !.forced = None,
                                        !.entitled = TRUE]

\* From here on a disable that stood may be undone on purpose, also one that is
\* written and not yet answered (its "late").
StartOp(a) ==
    /\ MayStart(a)
    /\ \E ask \in {asked \in Asks : asked.op \in workload.calls} :
          LET lifts == ask.op \in Lifters IN
          /\ barred' = (barred /\ ~lifts)
          /\ actor' = [b \in Actors |->
                IF b = a THEN [Rested EXCEPT !.pc = "load", !.op = ask.op, !.arg = ask,
                                             !.before = indexed]
                ELSE [actor[b] EXCEPT !.late = @ /\ ~lifts]]
    /\ UNCHANGED <<store, drawn, last, clobbered, workload>>

\* _load, and the refusals that follow it (404, 409, "already exists").
Refused(op) ==
    \/ sub = None /\ op \notin {"put", "create"}
    \/ sub # None /\ op = "create"
    \/ sub # None /\ op = "admin-token" /\ ~sub.entitled

Load(a) ==
    /\ actor[a].pc = "load"
    /\ LET op == actor[a].op
           next == IF op \in Writers THEN "write" ELSE IF op \in Revokers THEN "query" ELSE "mint" IN
       Set(a, IF Refused(op) THEN Rested ELSE [actor[a] EXCEPT !.pc = next, !.sub = sub])
    /\ Quiet

WriteBack(a) ==
    /\ actor[a].pc = "write"
    /\ LET s == Changed(actor[a].arg, actor[a].sub) IN
       /\ s.version <= MAX_VERSION
       /\ Put(a, s)
    /\ Set(a, IF actor[a].op = "disable"
              THEN [actor[a] EXCEPT !.pc = "query", !.late = \A b \in Actors : actor[b].op \notin Lifters]
              ELSE Rested)
    /\ UNCHANGED <<tokens, indexed, drawn, last, barred, workload>>

OperatorToken(a) ==
    /\ actor[a].pc = "mint"
    /\ \E t \in Tokens : Mint(t)
    /\ Set(a, Rested)
    /\ UNCHANGED <<sub, drawn, last, barred, clobbered, workload>>

\* Mutant: the query for the tokens takes every entry but the newest.
OldestButOne == {t \in indexed : Cardinality({u \in indexed : u <= t}) <= LIMIT - 1}

\* _query_gsi1: the oldest entries of the index, revoked ones included.
Oldest == {t \in indexed : Cardinality({u \in indexed : u <= t}) <= LIMIT}

QueryTokens(a) ==
    /\ actor[a].pc = "query"
    /\ Set(a, [actor[a] EXCEPT !.pc = "revoke", !.list = Oldest \cap Active])
    /\ Quiet

\* revoke_token, one token at a time.
RevokeOne(a) ==
    /\ actor[a].pc = "revoke"
    /\ actor[a].list # {}
    /\ LET t == Min(actor[a].list) IN
       /\ tokens' = [tokens EXCEPT ![t] = "revoked"]
       /\ Set(a, [actor[a] EXCEPT !.list = @ \ {t}])
    /\ UNCHANGED <<sub, indexed, drawn, last, barred, clobbered, workload>>

Revoked(a) == actor[a].pc = "revoke" /\ actor[a].list = {}

\* A revocation or a disable is answered.
FinishRevoke(a) ==
    /\ Revoked(a)
    /\ actor[a].op # "delete"
    /\ Set(a, Rested)
    /\ barred' = (barred \/ (actor[a].op = "disable" /\ actor[a].late))
    /\ UNCHANGED <<store, drawn, last, clobbered, workload>>

\* Mutant: the record goes before its tokens.
DropFirst(a) ==
    /\ actor[a].pc = "query"
    /\ actor[a].op = "delete"
    /\ sub' = None
    /\ UNCHANGED <<tokens, indexed, actor, drawn, last, barred, clobbered, workload>>

\* delete_subscriber, after the tokens.
Drop(a) ==
    /\ Revoked(a)
    /\ actor[a].op = "delete"
    /\ sub' = None
    /\ Set(a, Rested)
    /\ UNCHANGED <<tokens, indexed, drawn, last, barred, clobbered, workload>>

\* A store call raises, or the task stops: nothing written so far is undone.
Crash(a) ==
    /\ actor[a].pc # "idle"
    /\ Set(a, Rested)
    /\ Quiet

\* gsi1 catches up with the table.
CatchUp ==
    /\ indexed # Issued
    /\ \E t \in Issued \ indexed : indexed' = indexed \cup {t}
    /\ UNCHANGED <<sub, tokens, actor, drawn, last, barred, clobbered, workload>>

Next ==
    \/ \E a \in Actors :
          \/ StartConfig(a) \/ VerifyToken(a) \/ Identify(a) \/ OtpOutcome(a)
          \/ ServeForced(a) \/ RepairVersion(a) \/ ServeUnchanged(a)
          \/ IssueToken(a) \/ DrawSecret(a) \/ HasSecret(a) \/ ServeDocument(a)
          \/ StartOp(a) \/ Load(a) \/ WriteBack(a) \/ OperatorToken(a)
          \/ QueryTokens(a) \/ RevokeOne(a) \/ FinishRevoke(a) \/ Drop(a)
          \/ Crash(a)
    \/ CatchUp

Spec == Init /\ [][Next]_vars

-----------------------------------------------------------------------------
(* Properties.                                                               *)

\* Every record and answer has the shape the code gives it; a served revision is
\* positive and a served document carries a token.
TypeOK ==
    /\ sub \in Records \cup {None}
    /\ tokens \in [Tokens -> {"unused", "active", "revoked"}]
    /\ indexed \subseteq Issued
    /\ \A a \in Actors :
          /\ actor[a].sub \in Records \cup {None}
          /\ actor[a].list \cup actor[a].before \subseteq Issued
          /\ actor[a].tok \in Issued \cup {None}
    /\ drawn \in 0 .. N_SECRETS
    /\ last.kind \in {"served", "unchanged"} => last.version > 0
    /\ last.kind = "served" => last.token \in Issued
    /\ barred \in BOOLEAN

\* A revocation revokes every token that the index showed when it began, though
\* tokens are issued and other revocations run meanwhile.
RevokeCovers == \A a \in Actors : Revoked(a) => actor[a].before \cap Active = {}

\* After a revocation no token of the subscriber is left (revoke_tokens_for_imsi).
RevokesAll == \A a \in Actors : Revoked(a) => Active = {}

\* A stored revision decreases only because an operator put a lower one, or because
\* of a write-back that overwrote what its request had not read; one below 1 is never
\* served.
VersMonotonic ==
    [][/\ last'.kind \in {"served", "unchanged"} => last'.version > 0
       /\ sub # None /\ sub' # None /\ sub'.version < sub.version =>
             \/ clobbered'
             \/ \E a \in Actors : actor[a].op = "put" /\ actor'[a] # actor[a]]_vars

\* Once a disable is answered, and until an operator lifts it, no request that
\* starts later is served a configuration, except after such a write-back: crashes,
\* the repair of a revision and the falsy 0 lift no disable.
DisableSticks == last.kind = "served" /\ ~clobbered => ~last.late

\* The same, without exception.
DisableHolds == last.kind = "served" => ~last.late

\* The dm_password a document carries is the one that is stored when it is sent:
\* the DM plane will accept the device.
DmPasswordStable ==
    [][~workload.overlap /\ last' # last /\ last'.kind = "served" => sub # None /\ sub.secret = last'.secret]_vars

\* A deleted subscriber has no usable token: an operator who adds the IMSI again
\* does not hand the new record to the old holder.
DeleteLeavesNoToken == sub = None /\ ~workload.overlap => Active = {}
=============================================================================
