# Verification of the auto-configuration server

TLA+ models of the server's stateful parts, TLC configurations that check them
on small instances, and TLAPS proofs for the parts whose correctness has to hold
for any number of requests. Paths below are relative to the repository.

## 1. Inventory

The service answers RCS configuration requests (RCC.14), authenticates clients by
token, network or SMS one-time password, manages devices over OMA-DM, and gives
operators an admin API and a console. It runs as several identical tasks that share
one DynamoDB table; a single-process memory store exists beside it. There is no lock across tasks:
what is consistent is so because of a condition on a write or the order of writes. Every read but the two
of `issue_otp` (`dynamodb.py:228-230`) is eventually consistent (142-145), and a write that raises may have taken effect (129-138).

| Part | Source | State | Operations | Hard because |
|---|---|---|---|---|
| One-time passwords | `auth/otp.py`, `domain/service.py`, `api/msisdn_ui.py`, `store/*` | challenge item, quota item | create, send, discard, verify | requests on several tasks, eventually consistent reads, resent writes, TTL |
| OMA-DM sessions | `protocol/omadm/session.py`, `api/dm.py` | session item, remainder item, device item | init, device information, configure, finish, continue, abort | two writes per message that may fail with or without effect, retries, resends, expiry between reads |
| DM credentials | `protocol/omadm/auth.py` | the nonce of the session item | accept, challenge | a nonce drawn, stored and sent, with writes that fail |
| WBXML codec | `protocol/omadm/wbxml.py` | locals of one call | build the tree, encode, decode | code pages, offsets and lengths that two sides must agree on, limits, damaged input |
| DM package filling | `protocol/omadm/package.py` | locals of one call | `fill` | doubling and bisecting at a limit |
| Configuration requests | `domain/service.py`, `auth/token.py`, `protocol/vers.py` | subscriber record, tokens | identify, repair, issue token, draw DM password, serve | whole-record write-back, operators in between |
| Operator operations | `api/admin.py`, `api/console.py` | the same | put, create, update, override, invalidate, disable, enable, revoke, issue token, delete | the same |
| Subscriber index | `store/dynamodb.py`, `store/memory.py` | subscriber item, index item per number | put, delete, look up by number | three calls without a transaction, based on a read that may lag |
| Identity chain | `domain/service.py`, `auth/token.py`, `auth/enrichment.py`, `auth/gba.py`, `protocol/request.py`, `security/pii.py` | tokens, records, codes; a signed nonce that is not stored | parse, then token, header, GBA, claim with code, in this order | fall-through between methods, several spellings, proxies, clocks of several tasks, records that change between reads, each of which may lag |
| OMA-CP document | `protocol/omacp/*` | locals of one call | load base and overlay, build | precedence and order of entries, empty values |
| DM management tree | `protocol/omadm/motree.py`, `session.py`, `package.py` | the device's tree, device item | load, inventory, push, failures | parents before children over split packages |
| SMPP sender | `sms/smpp.py` | one connection | bind, submit, unbind | the SMSC answers late, out of turn, or not at all |

How they interact: a configuration request or the MSISDN page calls the one-time
password flow, which calls an SMS sender; both it and the configuration request use
the subscriber lookup. `/msisdn`, the admin API and the console are plain functions
run in a thread pool, and the configuration handler hands its work to a thread, so
any two of them overlap inside one task. `/dm` runs on the event loop: serial in a task, concurrent across tasks.
The DM password a configuration request draws is what the DM plane
authenticates the device with.

What makes each part correct: at most so many sends a day and guesses a challenge,
one verification per code, no challenge for an SMS that was not sent; every DM item
delivered once and in order before the session closes, every session ends and a
challenge can be answered; what is encoded is decoded to the same; the
largest message that fits; a disable that stays, revisions that do not fall, one DM password,
revocation that reaches the tokens; a number that leads to its holder; the outcome
of a send being the SMSC's; a request served as the subscriber whose device sent it; a document
and a device tree with the values that the catalogue and the subscriber's record say.

The hazards, each at its line, are in `PROJECT.json`.

## 2. Modules

| Module | Models | Composes |
|---|---|---|
| `OtpFlow` | the DynamoDB flow of one MSISDN, one store call a step | instantiates `OtpContract` |
| `OtpContract` | what the store promises: the memory store under its lock | |
| `MCOtpFlow` | symmetry for TLC | extends `OtpFlow` |
| `OtpFlowProofs` | theorems about `OtpFlow` | extends `OtpFlow` |
| `DmSession`, `MCDmSession` | one session: device, handlers, the items; what may go wrong in a run | |
| `DmSessionProofs` | theorems about `DmSession`: challenges, and what a closed session leaves | extends `DmSession` |
| `DmDeliveryProofs` | theorems about `DmSession`: what a session delivers and records | extends `DmSessionProofs` |
| `PackageFill`, `PackageFillProofs` | `package.fill`, and its correctness | |
| `Provisioning`, `MCProvisioning` | one subscriber and its tokens under requests and operators | |
| `ProvisioningProofs` | theorems about `Provisioning` | extends `Provisioning` |
| `Identity`, `MCIdentity` | one request through the identity chain, several devices, tasks and settings | |
| `IdentityProofs` | theorems about `Identity` | extends `Identity` |
| `Document` | the catalogue and the document built from it | |
| `DmTree` | the management tree, pushed to a device | |
| `MCContent` | both, with small catalogues and trees | extends `Document`, `DmTree` |
| `Subscribers` | records and the reverse index | |
| `MCSubscribers` | symmetry for TLC | extends `Subscribers` |
| `SubscribersProofs` | theorems about `Subscribers` | extends `Subscribers` |
| `Smpp`, `SmppProofs` | one send over one connection, and theorems about it | |
| `Wbxml`, `MCWbxml` | a document through the tree builder, the encoder and the decoder | |

**OtpFlow.** `otp` and `quota` are the items, `replica` a lagging copy of the
challenge, `req[p]` the locals of a request; `issued`, `tried` and `verified` are
history. Issue is `StartIssue`, `ReadQuota`, the refusals, `AllowIssue`, then the
transaction (`CommitIssue`/`LoseIssue`), then `SmsAccepted` or `SmsFailed` with the
two steps of `discard_challenge`; verify is read, drop if spent, swap. A request can
`Crash` between any two steps; throttling and any other fault of a call ends the
request the same way. A challenge without an id (written by release 1.3) and the
`consumed` flag, which this release never sets, are left out.

**DmSession.** `session` and `pending` are the items, with a lagging copy of each.
`client` is the device (external): what it received, owes and last sent. A handler
reads the session, checks credentials, reads the remainder and the device, decides (one action per
branch of `_handle_message`), and performs the writes of `_DmChanges.commit` in their order, each a step that
may fail: without effect (`StoreFails`), or having taken effect (`WriteUnconfirmed`), when the answers to all attempts
were lost. In the second case it takes effect before the failure is answered; a write that reaches the table
after the client has given up on it is left out. Sizes are counted in entries; that a byte limit amounts to a number of entries is
what `PackageFill` shows. Credentials have a type, a password that is right, wrong or
of nobody, and the nonce a digest was made with; nonces are numbered as they are drawn, so
no two are equal. `scheme` is the setting. A challenge, which has no entries, is taken to fit. The values of a node are left out. `recorder` is a configuration request of the same device that
has read the device item and will write it back, `erased` what that took away. `scenario` says what
may go wrong: failing calls, wrong credentials, resends, expiries, write-backs, lagging reads.

**PackageFill.** One `build` call a step, for every count, required part, limit and
every size function that never shrinks.

**Provisioning.** `sub` is the record, `tokens` the tokens in the order of issue,
`indexed` those the secondary index shows, `actor[a]` a request or an operator call:
load, change, write back whole, revoke one by one. Expiry and IMEI binding of a token
are a refusal that may happen. DM and its bootstrap in the document are taken as
enabled, which is when the record is written back. Reads see the latest write here;
what an older read would show is what overlapping requests already hold (`Subscribers` and `Identity` have reads that lag).

`clobbered` remembers that some write-back overwrote what its writer had not read. `workload`
says which calls are made and whether they overlap.

**Identity.** `req` is the request in flight, with the device that sent it, the task that serves
it and how far the chain is; `records`, `listed` (the MSISDN items), `tokens`, `codes` are what the store holds, `nonce` the
newest challenge. One step a store read, so a lookup by number is two (`CheckEnrichment` or `ByNumber`, then `LineHolder` or
`NumberHolder`). Between two the operator may create, delete, bar or entitle a subscriber, or a token or code may
end. A change writes the record and leaves the MSISDN item `due`; `Reindex` writes that one later, or never, as when the task
stops between the two. A read of any of the three items may return what the item was before (`pastRecords`, `pastListed`,
`pastTokens`) until `CatchUp`, which nothing forces. `was` has the states of each record while the request ran,
`shown` what a read could still return when it was sent. A code is read and spent by conditional writes, which `OtpFlow` is about;
here it is there or not. The number of a subscriber does not change (`Subscribers` is about that), and the write-back of a
record by a request is in `Provisioning`. Parsing is exact on names, repetitions and the order of query and body; a number is its
digits and a plus. A device holds its own token, codes and key only, and the gateway writes the
header from the line; these are the assumptions under which "served as the sender" makes sense.
The load balancer appends to X-Forwarded-For. Tokens are bound to the IMEI (the default). The code's
details such as `gba_not_entitled` are merged by what they mean.

**Document.** One step an entry of a file or of the merged catalogue. Paths are sequences, where
an APPLICATION is known by its AppID; values are a few strings, of which some are placeholders.
Of `_coerce_entry` the type and the default of a `bool01` are checked, of the DM account two
parameters are kept.

**DmTree.** Loading, the two packages and the reports, with messages that take any number of
entries, so every split is covered. The device (external) adds a node below one it has, writes a leaf
below one it has, refuses some leaves, and reports on each item. Formats and types are left out; a file
with other errors is one that is not sound.

**Subscribers.** `item` and `index`, the steps of put and delete, one lookup. With `LAG` a read of either, that of the record
about to be replaced included, returns what the item is or whatever it was before (`pastItem`, `pastIndex`): DynamoDB gives no bound.
`torn` remembers the IMSIs whose last call stopped half way, `scarred` those of
which some call did or read an outdated record, `lost` the numbers whose entry a call dropped after such a read and no
call wrote since. A put comes from an operator or from a configuration request that writes a record back
(`service.py:408`); `Exclusive` says that the number it has is nobody else's at that time, the write-back's included.

**Wbxml.** XML is the sequence of its parser's events (open, text, close) and the
wire a sequence of bytes with the code's token values; a tag is its page and token. One
step a parser callback, an encoded event, or a decoded token; between the two one byte
may be replaced or the end cut off. The carriage return keeps its escape, since XML
would turn a plain one into a line feed. The version byte is always 1.3, the order of the string table is some order, and
characters of several bytes are left out.

**Smpp.** Two queues of PDUs, the sender's stage, the deadline, and an SMSC that may
serve, refuse, stay silent, ask, stray or close.

## 3. Runs

Runs that pass:

| Run | Shows |
|---|---|
| `otp_flow` | cap, cooldown, discard and the refinement of `OtpContract`, with two requests, three issues, crashes, failing sends and resent writes |
| `otp_flow_lag` | single use, attempt limit, discard of the own challenge only, with stale reads and both items swept |
| `dm_session` | order, completeness, acknowledgements, reports, answerable challenges and a clean end, under each scheme, with two failing store calls, with effect or without, and one message with bad credentials, or a write-back of the device item, or lagging reads; no delivery is claimed after a last write that took effect and was reported failed |
| `dm_session_ends` | every session ends, with digests, a resend, two handlers, an expiry and the message limit |
| `package_fill` | largest message, right refusal, near probes, termination |
| `provisioning` | one call at a time with crashes, and overlapping ones over a lagging index: disable, revisions, password, delete, revocation |
| `identity` | served as the sender, never by weaker evidence, on the record as it was or could still be read; every spelling finds its holder, if it is listed; the window of a nonce |
| `content` | the document that precedence says; every leaf within reach written, true failures, complete inventory |
| `subscribers` | numbers are found after crashes and repair, over lagging reads, but for entries dropped because of one; entries and lookups name the holder |
| `smpp` | verdict, success, end of the send |
| `wbxml` | round trip, refusals only for a limit, well-formed output from damaged bytes, bounded output |

One run states what a document of the repository says and TLC refutes it (quoted
under `findings` in `PROJECT.json`): `provisioning_disable`, `DisableHolds`. A
configuration request that read the record before a disable writes it back after,
which lifts the disable.

### What the passing runs leave out, and why

A passing run fixes some constants, and some properties name an exception, because
otherwise TLC refutes them for a reason that lies in the code. Each line can be reproduced by
changing the configuration (or the scenario or workload in its MC module) as named, or by checking
the definition named, which is in the module.

| Statement | Configuration and change | What happens |
|---|---|---|
| `DailyCap` | `OtpFlow`, `Sweeps = {"quota"}`, `MAX_SENDS = 1`, `DAY = 2`, `MAX_CLOCK = 4` | the quota's version restarts at 1 after a TTL sweep, so a write based on the old item succeeds and a send is forgotten (`dynamodb.py:241`; `docs/adr/0002-datastore.md:138` says every cap holds across tasks) |
| `FailedSendDiscarded` | `OtpFlow`, `StaleReads = TRUE` | discard reads a replica that does not show the challenge yet and deletes nothing (`dynamodb.py:142`; `docs/protocol.md:82` says the challenge is deleted) |
| `OneAttemptPerGuess` | `OtpFlow`, `MAX_ATTEMPTS = 3` | a resent write fails on its own effect and the guess is charged twice (`dynamodb.py:289`; `docs/adr/0002-datastore.md:105`) |
| `DeliveredInOrder` | `DmSession`, without its exception for `scenario.lag` | a stale read of the remainder skips its entries (`dynamodb.py:387`; `docs/oma-dm.md:113`) |
| `DeliveredInOrder` | `DmSession`, a scenario with `expiries = 1` | expiry between the read of the session and of its remainder skips the rest of a package (`session.py:271`; `docs/oma-dm.md:103`) |
| `DeliveredInOrder` | `DmSession`, `MAX_MESSAGES = 2` | abandoning a package deletes the remainder and fails on the session; the retry goes on to the next phase (`session.py:445`; `docs/oma-dm.md:156`) |
| `DeliveredInOrder`, `AcksExact`, `ReportsRecorded` | `DmSession`, two handlers and a scenario with `resends = 1` | the message is handled twice and the answer to the first is lost: what that one carried is skipped, or what it would have made the device report is never asked for (`docs/oma-dm.md:395` lists this as a limitation) |
| `ClosedLeavesNothing`, `ChallengeAnswerable` | `DmSession`, two handlers and a scenario with `resends = 1` (the second also with `challenges = 1`) | the handler of the message that was resent writes its session after the new one deleted or replaced it (`session.py:115`) |
| `NothingSkipped`, that is `DeliveredInOrder` without its exception for `used.missed` | `DmSession`, a scenario with `faults = 1` | the last write of a message takes effect and raises, the answers to all of botocore's attempts being lost (`dynamodb.py:129-138`); the device is answered 500, and its retry is handled in the phase already advanced, so the items of the answer it never got are skipped (`session.py:220`; `docs/oma-dm.md:156` says that a device that retries gets the same answer again, with nothing skipped or repeated, and `session.py:106` the same) |
| `AcksExact`, `ReportsRecorded` | `DmSession`, a scenario with `faults = 1`, without their exception for `used.missed` | in the same case the acknowledgements of the lost answer are never repeated, and an inventory it asked for is not requested again |
| `FailuresExact` | `DmSession` as it is | a retry counts the failures of its message again (`session.py:115`, `models.py:183`) |
| `ResendStaysInPackage` | `DmSession`, two handlers and a scenario with `resends = 1` | a resend after a package of one message starts the next phase (`docs/oma-dm.md:395`) |
| `ReportsRecorded` | `DmSession`, without `erased` | a configuration request that read the device item before a DM message writes it back after, and the inventory values are gone (`service.py:455`) |
| `NonceRotates` | `DmSession` as it is | a message that is answered does not change the nonce, only a challenge does (`session.py:704`; its comment at 701-703 says it rotates on every authenticated message) |
| `VersMonotonic`, `DmPasswordStable` | `Provisioning`, without their exceptions for an overlap | the write-back of an overlapping request lowers the revision, or replaces a DM password that was served (`service.py:408`; `docs/conformance.md:332`, `docs/adr/0004-oma-dm-in-the-same-service.md:45`) |
| `DeleteLeavesNoToken` | `Provisioning`, without its exception for an overlap, or `LIMIT = 1` | a request identified before the delete issues its token after the revocation query, or the query stops at its limit; whoever re-creates the IMSI hands the record to the old token (`admin.py:157-162`) |
| `RevokesAll` | `Provisioning`, `LIMIT = 1` | the revocation query stops at its limit, revoked tokens included (`dynamodb.py:332`; `docs/runbook.md:113`) |
| `FoundByNumber` | `Subscribers`, `Exclusive = FALSE` | a number given to a second IMSI loses its entry when the first one changes (`dynamodb.py:203`) |
| `NumbersLead`, `FoundByNumber`, `IndexSound` | `Subscribers`, two writers, `LAG = FALSE`, also with one IMSI | two calls move one subscriber, one of them perhaps the write-back of a configuration request (`service.py:408`); the later one drops the entry of the number it read at first, which the earlier one has just written, or leaves one behind (`dynamodb.py:197`; `docs/adr/0002-datastore.md:73` says that nothing in the current flows needs a cross-item transaction) |
| `NumbersLead`, that is `FoundByNumber` without `lost` | `Subscribers` as it is | of three calls, one after the other, the first moves i1 from n1 to n2, the second gives n1 to i2, and the third writes i1 again; its read of the previous record still shows n1, and it drops the entry of i2 (`dynamodb.py:175`, `197`) |
| `IndexSound`, with `torn` for `scarred` | `Subscribers` as it is | i1 moves from n1 to n2 and then on; the read of the last call still shows n1, so the entry of n2 stays and leads to a subscriber that has another number (`dynamodb.py:175`, 196) |
| `BarHolds` | `Identity` as it is | a request sent after a bar reads a copy of the record that is still entitled, and is served, with a new token (`dynamodb.py:143`; `docs/runbook.md:36` says that `entitled: false` produces 403, `docs/protocol.md:78` the same) |
| `DecidedOnTheRecord`, `SpellingsFind` | `Identity`, without `shown` | the same; and a subscriber created before the request is answered as unknown |
| `AllowlistHolds` | `Identity` as it is | only a request that claims who it is meets the IMEI allowlist; one with a token, an enriched header or GBA does not (`service.py:174`; `docs/protocol.md:78`, `docs/runbook.md:62` say 403 without that restriction) |
| `NonceHonoured` | `Identity` as it is | a nonce issued by a task whose clock is ahead is refused by another for being from the future (`gba.py:112`; `make_nonce` says a challenge is validated statelessly) |
| `OnlyOwn`, `SpellingsFind` | `Identity`, without `Misread` | with a trunk prefix such as 8 and country code 7, an international number sent without its plus is taken for a national one and names another subscriber (`pii.py:119`) |
| `NothingAbandoned` | `Content` as it is | a leaf below a node that no object declares is answered 404 and never written (`session.py:404`; `./RCS/Services/*` and `./3GPP_IMS/1/Public_User_Identity_List/1/*` are such; the comment at 362-364 is about avoiding this) |
| `OnlyWantedApps` | `Content` as it is | the DM account is added whatever `app=` asks for (`builder.py:235`; 202-203 and `docs/protocol.md:38` say other APPLICATION blocks are omitted) |
| `FailedIsNotSent` | `Smpp` as it is | the SMSC took the message and answered after the deadline (`smpp.py:417`; `sms/base.py:34`) |

Besides, `docs/oma-dm.md:154-156` gives the order of the two writes at the start and
in the middle of a package the other way round than `commit` performs it
(`session.py:114-119`); the model follows the code. `request.py:172` says that repeats of
identity parameters are rejected; `IMSI` together with `imsi`, or `MSISDN` twice, are accepted and the first
counts. `pii.py:97` says that a badly encoded plus arrives as a space; a leading one is stripped (113)
before spaces become a plus.

Each passing property has a mutant (the definitions commented "Mutant:") that TLC
must refute.

**Bounds.** The OTP flow has two requests that are reused, so any number of requests
run, two of them at a time; three ids let a challenge be replaced twice. `ROUNDS` is
2 where the code has 5: both limits only decide how often a loser tries again, and
the code's `ROUNDS >= max_attempts` (5 and 3), which the discard needs because each
lost round is another attempt spent, is kept. The clock reaches past a day, a cooldown and a TTL in the runs about
them. In the DM session, capacities 2 to 12 entries against 7 items make packages of one,
two and many messages; `MAX_STORED`, `MAX_ACKS` and `MAX_MESSAGES` are scaled so that each limit
is reached in some run. A scenario's `messages` is larger than a session needs and an end
at the bound is explicit. `wbxml` has documents of up to seven events; integers in
base 4 need up to three digits, and every limit is reached, those of the decoder below those of the
encoder as in the code. `package_fill` needs two sizes only: a count fits or does
not. `provisioning` issues up to two tokens, which the query's limit of two just covers, and has
revisions 0, for the repair, to 2; `Forceable` is `{0}`, the one value that is falsy in Python. Where
calls overlap they are those that revoke, issue and delete, or those that disable and enable. `identity`
has two subscribers whose numbers are each other's national form, half seconds and a
window of one second, and one change by the operator behind the gateway and under GBA, or two where the requests are those of devices that tell no lies; a request is followed by others, so a code or token
of one is used by the next. `content` has catalogues of five entries over four paths, one of
them nested, and trees of up to three objects, one inside another. In `subscribers` two IMSIs and two numbers
let a number change hands and an outdated record show another's, and one crash leaves one thing undone; how often calls follow each other
is not bounded. In `smpp`, `MAX_SEQUENCE` is 2, so that the sequence wraps
within one send.

**Fairness.** `OtpFlow` has no liveness property: its loops are bounded by
`ROUNDS`. `DmSession`: handlers run to their
answer and the device goes on with its session; expiry and resends are not fair.
`PackageFill`: a loop in one call. `Smpp`: the clock and the sender's thread, nothing
of the SMSC. Deadlock is not checked in `Smpp`, where `send()` returns; everywhere
else it is.

## 4. Proofs

The theorems hold for every value of the constants: any number of requests, handlers,
items, subscribers and PDUs, any limits, any settings, under the assumptions stated with
the constants and the hypotheses named here. `PROJECT.json` lists them, each with the run that checks
the same property on a small instance. Each has an inductive invariant of named parts, a lemma for every kind of step,
and a last step that puts them together.

**One-time passwords** (`OtpFlowProofs`).

- `TypeCorrect`: the type invariant, inductive by itself.
- `GuessesBounded` and `VerifiesOnce` (attempt limit and single use), with no hypothesis on
  reads, replies or sweeps. The invariant needs `CopiesAgree`: two copies of a challenge
  with the same id, in the item, the replica or a request's locals, agree in all but
  the attempts, since ids are never reused; and `GuessesCounted`: the attempts in
  the stored challenge bound the guesses answered, and a request about to swap holds
  a challenge that is not spent. A swap succeeds only when id and attempts are those
  read, so each one answers a guess not yet counted. `VerifiedWhenCurrent` follows from the
  same condition of the swap.
- `DiscardsOwn`: `OwnChallenge` says that the challenge a discarding request holds is the one it issued,
  and a delete is conditional on its id.
- `FailedSendIsDiscarded`, for current reads (`~StaleReads`) and no more attempts than
  rounds. `RoundsCounted`: every round lost was lost to a guess, which spent an attempt, so the challenge is spent or gone
  before the rounds run out. TLC refutes the property without either hypothesis; the code has 3 attempts and 5 rounds.
- `DailyCapHolds` and `CooldownHolds`, assuming that the quota item is not swept (the
  table above shows that the assumption is needed). `ReadsAllow`: a request about to write read items that allowed it, and a quota
  of the version it read is the quota it read; `QuotaComplete`: the quota item lists every
  send that still counts. When both conditions of the transaction hold, the decision
  made on what was read is valid for what is stored.
- `FlowImplementsContract`, the refinement, with the same assumption: initial states
  map to initial states and every step to one operation of `OtpContract` or a stutter.

**DM sessions, their end and their challenges** (`DmSessionProofs`). Both theorems are for any packages, capacities and limits, any
store calls that fail, with effect or without, items that expire and reads that lag, and assume `Alone`: there is
one handler, or no device gives up waiting and sends again. The table above shows what happens otherwise. `OneAtATime` says that then
a handler at work is the only one, serves the message the device waits for, and the device is not at its turn.

- `ClosedSessionsLeaveNothing`. `Clearing`: before an answer after which the device counts the session as over,
  the writes that remain delete whatever of the two items is left, and put none back. That the answer ends the session
  just when the code closes it rests on the shape of the packages: a remainder ends in a command unless the
  session is done (`Remains`), so a final message without a command is the last one.
- `ChallengesAnswerable`. `DigestSent`: what the device sends under md5 is made with the nonce it holds or
  is not acceptable. `Passed`, `Confirms`: a message that got past the credentials was made with the nonce
  of the session that was read, which is the nonce of the answer. `Keeps`: the writes that remain before an answer that goes on leave a
  session with the nonce of the answer.

**DM sessions, what they deliver** (`DmDeliveryProofs`). For any packages, capacities, limits and handlers, any store calls
that fail, with effect or without, with the retries after them, any challenges and any configuration requests meanwhile:

- `ItemsDelivered`: the items arrive in sequence, with no gap, and all of them before the session completes;
- `AcksDelivered`: when it completes, each command of the device has been acknowledged exactly once;
- `ReportsKept`: when it completes, the inventory is stored and every failure counted.

They hold in every state up to which the session was `Undisturbed`: the device did not send a message again before its answer
came, nothing expired, reads are current, and no last write of a message took effect and was reported failed
(`used.missed`); and either no store call failed or no package can run into `MAX_MESSAGES`
(`OutOfReach`: every message after the first takes an entry off the remainder, so a bound on the first remainder, by `MAX_STORED` or by
the acknowledgements and items of a package, is a bound on the messages). The table above has the counterexample for each of
these conditions. A retry after any other failed write is not a disturbance: it is what the theorems are about.

The invariant is `Track`. Its centre is `OnTrack(s, p, v)`: what the device has, followed by the remainder where that is of the
session's phase, is the first items of the packages up to that phase, in sequence, and each acknowledgement owed once; from
"configure" on the inventory came in and the failures are counted or on their way. It is not enough to say this of
states without a handler at work, since a batch of writes can fail in the middle and the message comes again. So a
handler about to write has `Stays`: after every write of its batch but the last the stored items are on track for what the device has
now (a failure there, or of the last write if that has no effect, loses nothing, and the retry is decided as the first attempt was); and, when its answer is 200, `Ends`: after the last
one they are on track for what the device has with the answer. `CommitInOrder` proves the two for the order in which `commit` writes: of the session and the remainder,
the one that carries the progress comes last (`SessionLast`, `RemainderLast`). Around it: `Single` (one handler at work), `Young` and `Few` (nothing
expired, remainders short), `Current` (what a handler read is what is stored), `Told` (the numbers of the device's messages, so that
new acknowledgements differ from old ones), `Kept` (what was reported is in the item, or on its way), `Finished`.
What a sequence of entries holds is stated without recursion (`Items`, `AcksIn`, `InSequence`, `AcksDiffer`), so
lemmas on concatenation and on the two halves of a queue take the place of an induction over it
(`JoinItems`, `JoinInSequence`, `JoinAcksDiffer`, `Halves`).

**Package filling** (`PackageFillProofs`). `FillIsRight` and `FillStaysNear`: `FillInv` says that everything up to `fits` fits
and nothing from `tooMany` on does, and ties the step of the doubling to the distance covered.

**Requests and operators** (`ProvisioningProofs`).

- `TypesHold`: the type invariant. Its strengthening `Types` says what the locals of each call hold at each step.
- `RevocationCovers`: a revocation has on its list every token that the index showed when it began and
  that is still active (`ListCovers`). It assumes that no more tokens are issued than the query returns
  (`N_TOKENS <= LIMIT`); the query stops there, and past it the property is false.
- `DeletedHasNoToken`: the same hypothesis, and an index that keeps up where calls do not overlap. `NoneLeft`: the index shows every
  token, a revocation under way has every active one on its list, and a subscriber that is gone has none.
- `RevisionsMonotonic`, `ServedPasswordIsStored`: where calls do not overlap, what a call read is what is stored (`Alone`);
  where they do, the property's own exception applies to each write-back that overwrites.
- `DisableStands`: `DisableInv` says that while a disable stands no call that may lift it is in flight, and that the stored record and what later requests have
  read are disabled unless some write-back overwrote what its call had not read (`clobbered`).

**Identity** (`IdentityProofs`).

- `NoFallback`: `EvidenceKept` says which evidence a request can still have at each step of the chain.
- `ServedAsSender`: `OwnKept`, that the subscriber found by proof is the sender; that a number read from a header is the one written
  needs that the country code is no proper beginning of the trunk prefix (`TrunkApart`) and that numbers differ.
- `AnswersFollowRecords`: `Watched`, that all that a read can still return is in `was` or `shown`, and so is what was read of the subscriber that the
  request is about; `Decided`, that an answer says what was read. `StoreWatched` shows that no write to the store, and no copy that
  catches up, adds anything to what a read can return that `was` does not get.
- `SpellingsLead`: from the same invariant, in which nobody is found by a number unless its MSISDN item or its record was missing in what a read
  could return (`UnknownToClaims`), and the lemma `SpellingsRead` that `Normalise` turns every spelling
  of a number into it, for numbers that are E.164 numbers (`NumbersWhole`) under the two conditions.
- `NonceAccepted`: `Stamps`, that a nonce carries the second it was made in, and `AgeRounded`, on differences of rounded times.

**Index** (`SubscribersProofs`). All three are for calls one after the other (`OneWriter`), any number of which stop half way.

- `IndexStaysSound`, whatever numbers are given out and however old what a read returns: a call holds the number it read until
  it writes the item, unless what it read was outdated (`ReadsItem`); a lookup and the copies of an entry hold the holder
  (`LookupSound`, `PastSound`).
- `NumbersLeadToSubscribers`, also for numbers given out once (`Exclusive`): `NumbersApart`, and `EntryRight`, by which the number of
  a subscriber whose last call ended leads to it unless its entry is `lost`, that is, was dropped by a call that had read an outdated record.
- `NumbersLeadWithoutLag`: with current reads nothing is lost (`Current`), so the exception goes.

Two writers refute all three, a number given out twice the last two, and an outdated read the second without its exception.

**SMPP** (`SmppProofs`). `HeardIsVerdict`, `ReportsAreRight`, with no hypothesis. `SentOnce`: one submit is sent, after the bind, with its number; `RespIsVerdict`:
a response that would be taken for the answer carries the verdict; `HeardRight`: what was heard decides what each stage reports.

What stays with TLC:

- liveness: `SessionEnds`, `Ends`, `SendEnds`;
- `RoundTrip`, `OnlyLimitsRefuse`, `AcceptedWellFormed` (`Wbxml`), `DocumentRight` (`Document`), `LeavesWritten`, `FailuresTrue`,
  `InventoryRight` (`DmTree`): what they compare is computed by recursion over events, entries and paths, and proving
  what a recursion computes for every input needs an induction over data that the provers do not do.

## 5. Not modelled

The AWS SMS client (one stateless call); the parameters of a request that only describe the client;
the XML writers and parsers, and the VERS-only and MSG documents (layout); the identities derived from an IMSI;
the conformance reports, settings, pages, login, logging; `tools/` and `scripts/`, which are clients and
release helpers. `PROJECT.json` gives the reason for each.

## 6. Plan

1. The order of the modules: the one-time password first, as it guards
   every bootstrap; then DM sessions with package filling; configuration requests and operators; the index;
   SMPP; the WBXML codec. These are written.
2. The second round added the identity chain with GBA, header enrichment and parsing, the OMA-CP document
   and the management tree, and the device item that configuration requests and DM sessions share. What
   could still be modelled: the console's login and its CSRF cookies; an
   abstract specification of a DM session (a list of items delivered in order, then closed) that
   `DmSession` implements.
3. The proofs came in the order of section 4; delivery in a DM session was the last, and every invariant of a protocol module is
   now a theorem. What could still be proved: the refinement by the abstract session just named, of which
   `OnTrack` is the mapping; delivery after a resend, for the weaker claim that the documentation makes (the next message of the package).
