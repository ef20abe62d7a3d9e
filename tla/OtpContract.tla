---------------------------- MODULE OtpContract ----------------------------
(***************************************************************************)
(* What the Store protocol promises of the one-time passwords of one        *)
(* MSISDN: every operation takes effect at once, as in MemoryStore, which    *)
(* holds its lock for the whole of issue_otp and replace_otp.                *)
(*                                                                         *)
(*   acs/store/memory.py   _unchanged, issue_otp, replace_otp               *)
(*   acs/store/base.py     the Store protocol                               *)
(*   acs/auth/otp.py       verify_challenge, with nobody in between         *)
(*                                                                         *)
(* OtpFlow, where the same operations are several DynamoDB calls that other  *)
(* requests interleave with, implements this module.                        *)
(***************************************************************************)
EXTENDS Integers, FiniteSets

CONSTANTS Ids, Codes, None, TTL, MAX_ATTEMPTS, COOLDOWN, MAX_SENDS, DAY,
          Times     \* the seconds at which a request may have started

VARIABLES
    otp,        \* _otp[msisdn]
    sends,      \* _otp_sends[msisdn]
    issued,     \* history: every send that issue_otp let through
    tried,      \* history: guesses answered from each challenge
    verified    \* history: guesses answered "verified" from each challenge

vars == <<otp, sends, issued, tried, verified>>

Init ==
    /\ otp = None
    /\ sends = {}
    /\ issued = {}
    /\ tried = [i \in Ids |-> 0]
    /\ verified = [i \in Ids |-> 0]

Expired(c, now) == now >= c.expires

Recent(now) == {s \in sends : s.at >= now - DAY}

\* issue_otp returns no refusal: neither the cooldown nor the daily cap applies.
Allowed(now) ==
    /\ ~(otp # None /\ ~Expired(otp, now) /\ now - otp.created < COOLDOWN)
    /\ Cardinality(Recent(now)) < MAX_SENDS

Issue(now) ==
    /\ Allowed(now)
    /\ \E i \in Ids \ {s.id : s \in issued}, k \in Codes :
          /\ otp' = [id |-> i, code |-> k, created |-> now,
                     expires |-> now + TTL, attempts |-> 0]
          /\ sends' = Recent(now) \cup {[id |-> i, at |-> now]}
          /\ issued' = issued \cup {[id |-> i, at |-> now]}
    /\ UNCHANGED <<tried, verified>>

\* The swap of verify_challenge, read and written in one step: the right code
\* and the last attempt delete the challenge, any other guess is counted.
Swap(now, guess) ==
    /\ otp # None
    /\ ~Expired(otp, now)
    /\ otp.attempts < MAX_ATTEMPTS
    /\ otp' = IF guess = otp.code \/ otp.attempts + 1 >= MAX_ATTEMPTS
              THEN None
              ELSE [otp EXCEPT !.attempts = @ + 1]
    /\ UNCHANGED <<sends, issued>>

Guess(now, guess) ==
    /\ Swap(now, guess)
    /\ tried' = [tried EXCEPT ![otp.id] = @ + 1]
    /\ verified' = [verified EXCEPT ![otp.id] = IF guess = otp.code THEN @ + 1 ELSE @]

\* The swap is made and the caller does not learn of it.
GuessUnanswered(now, guess) ==
    /\ Swap(now, guess)
    /\ UNCHANGED <<tried, verified>>

\* The challenge goes: discarded after a failed send, expired or exhausted.
Withdraw ==
    /\ otp # None
    /\ otp' = None
    /\ UNCHANGED <<sends, issued, tried, verified>>

Next ==
    \/ \E now \in Times :
          \/ Issue(now)
          \/ \E guess \in Codes : Guess(now, guess) \/ GuessUnanswered(now, guess)
    \/ Withdraw

Spec == Init /\ [][Next]_vars
=============================================================================
