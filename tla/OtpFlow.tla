------------------------------ MODULE OtpFlow ------------------------------
(***************************************************************************)
(* The SMS one-time-password flow of one MSISDN, run by concurrent requests *)
(* on any number of ECS tasks that share one DynamoDB table.               *)
(*                                                                         *)
(*   acs/auth/otp.py         create_challenge, verify_challenge,           *)
(*                           discard_challenge                             *)
(*   acs/store/dynamodb.py   issue_otp, replace_otp, get_otp               *)
(*   acs/domain/service.py   _issue_otp (send, and discard on failure)     *)
(*   acs/api/msisdn_ui.py    msisdn_submit, msisdn_verify (same calls)     *)
(*                                                                         *)
(* Every store key of the flow carries the MSISDN and every request touches *)
(* one MSISDN, so one MSISDN is the whole state space: others are disjoint. *)
(* One DynamoDB call is one step; a request can be overtaken between any    *)
(* two of its calls.                                                       *)
(***************************************************************************)
EXTENDS Integers, FiniteSets

CONSTANTS
    Requests,       \* request slots (threads of all tasks), reused
    Ids,            \* challenge_id values, random per issue
    Codes,          \* OTP codes
    None,           \* Python's None, and DynamoDB's "no such item"
    TTL,            \* policy.ttl_seconds
    MAX_ATTEMPTS,   \* policy.max_attempts
    COOLDOWN,       \* policy.resend_cooldown_seconds
    MAX_SENDS,      \* policy.max_sends_per_day
    DAY,            \* the rolling window, 86400 s in the code
    ROUNDS,         \* _VERIFY_ROUNDS = _OTP_WRITE_ROUNDS = 5 in the code
    MAX_CLOCK,      \* bound: the clock stops here
    StaleReads,     \* TRUE: get_otp may read a lagging replica
    LostReplies,    \* TRUE: a conditional write may be applied and reported
                    \*       as lost (botocore resends it after a timeout)
    Sweeps          \* the items the table's TTL may delete

Challenge == [id : Ids, code : Codes, created : Nat, expires : Nat, attempts : Nat]
Send      == [id : Ids, at : Nat]
Quota     == [sends : SUBSET Send, version : Nat, expires : Nat]

ASSUME PolicyAssumption ==
    /\ TTL \in Nat /\ MAX_ATTEMPTS \in Nat /\ COOLDOWN \in Nat
    /\ MAX_SENDS \in Nat /\ DAY \in Nat
    /\ ROUNDS \in Nat \ {0} /\ MAX_CLOCK \in Nat \ {0}
    /\ StaleReads \in BOOLEAN /\ LostReplies \in BOOLEAN
    /\ Sweeps \subseteq {"otp", "quota"}
ASSUME NoneAssumption ==
    None \notin Challenge /\ None \notin Ids /\ None \notin Codes

VARIABLES
    clock,      \* int(time.time())
    otp,        \* item OTP#<msisdn> CHAL
    replica,    \* a replica of that item, read by get_otp
    quota,      \* item OTPQUOTA#<msisdn> SENDS; version 0 when it is absent
    req,        \* the locals of every request in flight
    issued,     \* history: every send that issue_otp let through
    tried,      \* history: guesses answered from each challenge
    verified    \* history: guesses answered "verified" from each challenge

table   == <<otp, replica, quota>>
history == <<issued, tried, verified>>
vars    == <<clock, table, req, history>>

NoQuota == [sends |-> {}, version |-> 0, expires |-> 0]

\* The locals of no request. "idle": its request was answered; "crashed": it
\* ended with the task or with a store fault, unanswered.
Blank == [pc |-> "idle", now |-> 0, quota |-> NoQuota, chal |-> None,
          mine |-> None, guess |-> None, round |-> 0, spent |-> 0]
Rest  == {"idle", "crashed"}
Issuing   == {"i_quota", "i_chal", "i_write"}
Sending   == {"send", "d_read", "d_write"}
Verifying == {"v_read", "v_drop", "v_write"}

Init ==
    /\ clock = 1
    /\ otp = None
    /\ replica = None
    /\ quota = NoQuota
    /\ req = [p \in Requests |-> Blank]
    /\ issued = {}
    /\ tried = [i \in Ids |-> 0]
    /\ verified = [i \in Ids |-> 0]

-----------------------------------------------------------------------------
(* What the code computes from the items it has read.                        *)

\* issue_otp refuses with "cooldown": an unexpired challenge is too young.
Cooling(c, now) ==
    /\ c # None
    /\ now < c.expires
    /\ now - c.created < COOLDOWN

\* The sends that still count against the daily cap.
RecentSends(sends, now) == {s \in sends : s.at >= now - DAY}

CapReached(sends, now) == Cardinality(RecentSends(sends, now)) >= MAX_SENDS

\* Mutants of SameChallenge: no condition; the id alone; the attempts alone.
SameChallengeUnconditional(stored, expected) == TRUE
SameChallengeById(stored, expected) == stored # None /\ stored.id = expected.id
SameChallengeByAttempts(stored, expected) ==
    stored # None /\ stored.attempts = expected.attempts

\* _same_challenge: the stored challenge is the one read, attempts included.
\* No release this one can run beside stores a challenge without an id.
SameChallenge(stored, expected) ==
    /\ stored # None
    /\ stored.id = expected.id
    /\ stored.attempts = expected.attempts

\* Mutant: the put of the quota item without its condition.
QuotaUnconditional(p) == TRUE

\* The condition of each put of issue_otp's transaction.
QuotaUnchanged(p) == quota.version = req[p].quota.version
ChallengeUnchanged(p) ==
    IF req[p].chal = None THEN otp = None ELSE SameChallenge(otp, req[p].chal)

\* verify_challenge deletes such a challenge instead of comparing the code.
Spent(c, now) == now >= c.expires \/ c.attempts >= MAX_ATTEMPTS

\* What verify_challenge swaps the challenge for; None deletes it.
Replacement(c, guess) ==
    IF guess = c.code \/ c.attempts + 1 >= MAX_ATTEMPTS
    THEN None
    ELSE [c EXCEPT !.attempts = @ + 1]

\* What an eventually consistent get_otp may return.
Visible == IF StaleReads THEN {otp, replica} ELSE {otp}

\* Mutant: what was read is dropped, and the write is tried again at once.
RereadNothing(r, start) == [r EXCEPT !.chal = None, !.quota = NoQuota]

\* A lost round: read again from "start", or give up after ROUNDS of them.
Reread(r, start) == [r EXCEPT !.pc = start, !.chal = None, !.quota = NoQuota]

NextRound(r, start) ==
    IF r.round + 1 < ROUNDS
    THEN [Reread(r, start) EXCEPT !.round = @ + 1]
    ELSE Blank

Set(p, r) == req' = [req EXCEPT ![p] = r]

-----------------------------------------------------------------------------
(* create_challenge and issue_otp.                                           *)

\* Bound: no more issues start than there are ids left to draw.
IdsLeft == Cardinality(issued) + Cardinality({p \in Requests : req[p].pc \in Issuing})
               < Cardinality(Ids)

StartIssue(p) ==
    /\ req[p].pc \in Rest
    /\ IdsLeft
    /\ Set(p, [Blank EXCEPT !.pc = "i_quota", !.now = clock])
    /\ UNCHANGED <<clock, table, history>>

ReadQuota(p) ==
    /\ req[p].pc = "i_quota"
    /\ Set(p, [req[p] EXCEPT !.pc = "i_chal", !.quota = quota])
    /\ UNCHANGED <<clock, table, history>>

\* SendBlocked("cooldown"): answered 200 and empty, the pending signal.
RefuseCooldown(p) ==
    /\ req[p].pc = "i_chal"
    /\ Cooling(otp, req[p].now)
    /\ Set(p, Blank)
    /\ UNCHANGED <<clock, table, history>>

\* SendBlocked("daily_quota"): answered 429.
RefuseQuota(p) ==
    /\ req[p].pc = "i_chal"
    /\ ~Cooling(otp, req[p].now)
    /\ CapReached(req[p].quota.sends, req[p].now)
    /\ Set(p, Blank)
    /\ UNCHANGED <<clock, table, history>>

AllowIssue(p) ==
    /\ req[p].pc = "i_chal"
    /\ ~Cooling(otp, req[p].now)
    /\ ~CapReached(req[p].quota.sends, req[p].now)
    /\ Set(p, [req[p] EXCEPT !.pc = "i_write", !.chal = otp])
    /\ UNCHANGED <<clock, table, history>>

\* transact_write_items with both conditions met. The id and the code were
\* drawn by create_challenge; nothing shows them before they are stored.
\* botocore resends the call with its ClientRequestToken, so a lost reply does
\* not turn a committed transaction into a conflict.
CommitIssue(p) ==
    /\ req[p].pc = "i_write"
    /\ QuotaUnchanged(p)
    /\ ChallengeUnchanged(p)
    /\ LET now == req[p].now IN
       \E i \in Ids \ {s.id : s \in issued}, k \in Codes :
          LET send == [id |-> i, at |-> now] IN
          /\ otp' = [id |-> i, code |-> k, created |-> now,
                     expires |-> now + TTL, attempts |-> 0]
          /\ quota' = [sends |-> RecentSends(req[p].quota.sends, now) \cup {send},
                       version |-> req[p].quota.version + 1,
                       expires |-> now + DAY]
          /\ issued' = issued \cup {send}
          /\ Set(p, [Blank EXCEPT !.pc = "send", !.mine = i])
    /\ UNCHANGED <<clock, replica, tried, verified>>

\* Mutant: the items are read again and written without the cooldown check.
LoseIssueUnchecked(p) ==
    /\ req[p].pc = "i_write"
    /\ ~(QuotaUnchanged(p) /\ ChallengeUnchanged(p))
    /\ Set(p, [req[p] EXCEPT !.quota = quota, !.chal = otp])
    /\ UNCHANGED <<clock, table, history>>

\* Cancelled by a condition: the next round, or OtpStoreContention (503).
LoseIssue(p) ==
    /\ req[p].pc = "i_write"
    /\ ~(QuotaUnchanged(p) /\ ChallengeUnchanged(p))
    /\ Set(p, NextRound(req[p], "i_quota"))
    /\ UNCHANGED <<clock, table, history>>

-----------------------------------------------------------------------------
(* The send, and discard_challenge when it fails.                            *)

SmsAccepted(p) ==
    /\ req[p].pc = "send"
    /\ Set(p, Blank)
    /\ UNCHANGED <<clock, table, history>>

\* UnsupportedDelivery or its subclass SmsDeliveryFailed; a timeout may hide
\* a message that the SMSC took.
SmsFailed(p) ==
    /\ req[p].pc = "send"
    /\ Set(p, [req[p] EXCEPT !.pc = "d_read"])
    /\ UNCHANGED <<clock, table, history>>

\* Mutant: deletes whatever challenge is stored for the MSISDN.
DiscardReadAny(p) ==
    /\ req[p].pc = "d_read"
    /\ \E c \in Visible :
          Set(p, IF c = None THEN Blank ELSE [req[p] EXCEPT !.pc = "d_write", !.chal = c])
    /\ UNCHANGED <<clock, table, history>>

\* same_issue compares ids, whatever the attempts.
DiscardRead(p) ==
    /\ req[p].pc = "d_read"
    /\ \E c \in Visible :
          Set(p, IF c = None \/ c.id # req[p].mine
                 THEN Blank
                 ELSE [req[p] EXCEPT !.pc = "d_write", !.chal = c])
    /\ UNCHANGED <<clock, table, history>>

\* Mutant: one attempt at the delete, no further round.
DiscardWriteOnce(p) ==
    /\ req[p].pc = "d_write"
    /\ otp' = IF SameChallenge(otp, req[p].chal) THEN None ELSE otp
    /\ Set(p, Blank)
    /\ UNCHANGED <<clock, replica, quota, history>>

DiscardWrite(p) ==
    /\ req[p].pc = "d_write"
    /\ \/ /\ SameChallenge(otp, req[p].chal)
          /\ otp' = None
          /\ \/ Set(p, Blank)
             \/ LostReplies /\ Set(p, NextRound(req[p], "d_read"))
       \/ /\ ~SameChallenge(otp, req[p].chal)
          /\ Set(p, NextRound(req[p], "d_read"))
          /\ UNCHANGED otp
    /\ UNCHANGED <<clock, replica, quota, history>>

-----------------------------------------------------------------------------
(* verify_challenge.                                                         *)

StartVerify(p) ==
    /\ req[p].pc \in Rest
    /\ \E k \in Codes : Set(p, [Blank EXCEPT !.pc = "v_read", !.now = clock, !.guess = k])
    /\ UNCHANGED <<clock, table, history>>

VerifyRead(p) ==
    /\ req[p].pc = "v_read"
    /\ \E c \in Visible :
          \/ c = None /\ Set(p, Blank)                          \* NO_CHALLENGE
          \/ /\ c # None
             /\ Set(p, [req[p] EXCEPT
                          !.chal = c,
                          !.pc = IF Spent(c, req[p].now) THEN "v_drop" ELSE "v_write"])
    /\ UNCHANGED <<clock, table, history>>

\* EXPIRED or EXHAUSTED; whether the delete took effect is not looked at.
VerifyDrop(p) ==
    /\ req[p].pc = "v_drop"
    /\ otp' = IF SameChallenge(otp, req[p].chal) THEN None ELSE otp
    /\ Set(p, Blank)
    /\ UNCHANGED <<clock, replica, quota, history>>

\* The swap took effect and the guess is answered VERIFIED, EXHAUSTED or MISMATCH.
VerifyAnswer(p) ==
    /\ req[p].pc = "v_write"
    /\ SameChallenge(otp, req[p].chal)
    /\ otp' = Replacement(req[p].chal, req[p].guess)
    /\ tried' = [tried EXCEPT ![req[p].chal.id] = @ + 1]
    /\ verified' = IF req[p].guess = req[p].chal.code
                   THEN [verified EXCEPT ![req[p].chal.id] = @ + 1]
                   ELSE verified
    /\ Set(p, Blank)
    /\ UNCHANGED <<clock, replica, quota, issued>>

\* The swap took effect, its reply was lost and the resent write met its own
\* effect: replace_otp returns False.
VerifyReplyLost(p) ==
    /\ LostReplies
    /\ req[p].pc = "v_write"
    /\ SameChallenge(otp, req[p].chal)
    /\ otp' = Replacement(req[p].chal, req[p].guess)
    /\ Set(p, NextRound([req[p] EXCEPT !.spent = @ + 1], "v_read"))
    /\ UNCHANGED <<clock, replica, quota, history>>

\* Another request changed the challenge first. After ROUNDS: MISMATCH.
VerifyLose(p) ==
    /\ req[p].pc = "v_write"
    /\ ~SameChallenge(otp, req[p].chal)
    /\ Set(p, NextRound(req[p], "v_read"))
    /\ UNCHANGED <<clock, table, history>>

-----------------------------------------------------------------------------
(* The environment.                                                          *)

\* The task stops, or a store call raises (throttling, a timeout after the
\* last resend): whatever was written stays.
Crash(p) ==
    /\ req[p].pc \notin Rest
    /\ Set(p, [Blank EXCEPT !.pc = "crashed"])
    /\ UNCHANGED <<clock, table, history>>

Tick ==
    /\ clock < MAX_CLOCK
    /\ clock' = clock + 1
    /\ UNCHANGED <<table, req, history>>

Replicate ==
    /\ StaleReads
    /\ replica # otp
    /\ replica' = otp
    /\ UNCHANGED <<clock, otp, quota, req, history>>

SweepOtp ==
    /\ "otp" \in Sweeps
    /\ otp # None /\ otp.expires < clock
    /\ otp' = None
    /\ UNCHANGED <<clock, replica, quota, req, history>>

SweepQuota ==
    /\ "quota" \in Sweeps
    /\ quota.version > 0 /\ quota.expires < clock
    /\ quota' = NoQuota
    /\ UNCHANGED <<clock, otp, replica, req, history>>

-----------------------------------------------------------------------------

\* The steps a running request takes by itself.
Step(p) ==
    \/ ReadQuota(p) \/ RefuseCooldown(p) \/ RefuseQuota(p) \/ AllowIssue(p)
    \/ CommitIssue(p) \/ LoseIssue(p)
    \/ SmsAccepted(p) \/ SmsFailed(p) \/ DiscardRead(p) \/ DiscardWrite(p)
    \/ VerifyRead(p) \/ VerifyDrop(p)
    \/ VerifyAnswer(p) \/ VerifyReplyLost(p) \/ VerifyLose(p)

Next ==
    \/ \E p \in Requests : StartIssue(p) \/ StartVerify(p) \/ Step(p) \/ Crash(p)
    \/ Tick \/ Replicate \/ SweepOtp \/ SweepQuota

Spec == Init /\ [][Next]_vars

-----------------------------------------------------------------------------
(* Properties.                                                               *)

\* The shape of the stored items, of the locals of a request at each step, and
\* of the history. A request that is about to write holds the challenge it read.
TypeOK ==
    /\ clock \in Nat
    /\ otp \in Challenge \cup {None}
    /\ replica \in Challenge \cup {None}
    /\ quota \in Quota
    /\ issued \subseteq Send
    /\ tried \in [Ids -> Nat]
    /\ verified \in [Ids -> Nat]
    /\ req \in [Requests -> [pc : Rest \cup Issuing \cup Sending \cup Verifying,
                            now : Nat, quota : Quota, chal : Challenge \cup {None},
                            mine : Ids \cup {None}, guess : Codes \cup {None},
                            round : Nat, spent : Nat]]
    /\ \A p \in Requests :
          /\ req[p].pc \in Sending => req[p].mine \in Ids
          /\ req[p].pc \in Verifying => req[p].guess \in Codes
          /\ req[p].pc \in {"d_write", "v_drop", "v_write"} => req[p].chal \in Challenge

\* verify_challenge: concurrent requests cannot verify one code twice. However
\* many requests hold the right code of a challenge, one is answered "verified".
SingleUse == \A i \in Ids : verified[i] <= 1

\* verify_challenge: concurrent requests cannot spend the same attempt twice, so
\* no challenge answers more than max_attempts guesses, right or wrong.
AttemptLimit == \A i \in Ids : tried[i] <= MAX_ATTEMPTS

\* issue_otp: of the sends it let through for the MSISDN, those of the day that
\* ends at the newest one number at most max_sends_per_day, although requests
\* carry the "now" they started with and commit in another order.
DailyCap ==
    Cardinality({t \in issued : \A s \in issued : t.at >= s.at - DAY}) <= MAX_SENDS

\* create_challenge: a valid challenge is replaced only after the cooldown, so a
\* code the subscriber was just sent is not made useless by a second request
\* that was already under way when the first one issued it.
CooldownRespected ==
    [][(otp # None /\ otp' # None /\ otp'.id # otp.id)
          => (otp'.created >= otp.expires \/ otp'.created - otp.created >= COOLDOWN)]_vars

\* discard_challenge: a request whose SMS failed deletes the challenge it issued
\* and never a newer one, whose code is on its way.
DiscardOwnOnly ==
    [][\A p \in Requests :
         (req[p].pc \in Sending /\ req'[p] # req[p] /\ otp' # otp)
            => (otp.id = req[p].mine /\ otp' = None)]_vars

\* _issue_otp: a client told that the send failed is not left with a challenge
\* for a message that was never sent: when discard_challenge returns, the failed
\* challenge is no longer stored.
FailedSendDiscarded ==
    [][\A p \in Requests :
         (req[p].pc \in {"d_read", "d_write"} /\ req'[p].pc = "idle")
            => (otp' = None \/ otp'.id # req[p].mine)]_vars

\* verify_challenge: a request is answered "verified" only with the code of the
\* challenge stored at that moment, and that challenge is then gone: not with
\* the code of one that was replaced, consumed or swept since it was read.
VerifiedIsCurrent ==
    [][\A p \in Requests :
         (req[p].pc = "v_write" /\ req'[p] # req[p] /\ verified' # verified)
            => (otp # None /\ otp.code = req[p].guess /\ otp' = None)]_vars

\* verify_challenge: one guess spends one attempt. Once a swap of a request took
\* effect, the request changes the stored challenge no more.
OneAttemptPerGuess ==
    [][\A p \in Requests :
         (req[p].pc = "v_write" /\ req'[p] # req[p] /\ otp' # otp) => req[p].spent = 0]_vars

\* The DynamoDB loops implement the atomic store: whatever the interleaving, the
\* replica lag and the resent writes, each write that takes effect is one whole
\* operation of OtpContract. The abstract list of sends is the quota item's.
Contract == INSTANCE OtpContract WITH sends <- quota.sends, Times <- 0 .. MAX_CLOCK
ImplementsContract == Contract!Spec
=============================================================================
