---------------------------- MODULE MCDmSession ----------------------------
(* What may go wrong in the sessions that TLC explores.                      *)
EXTENDS DmSession

Calm == [faults |-> 0, resends |-> 0, challenges |-> 0, expiries |-> 0, records |-> 0,
         messages |-> 20, lag |-> FALSE]

\* Failing store calls and bad credentials; a configuration request meanwhile;
\* lagging reads.
MCFaulty == {[Calm EXCEPT !.faults = 2, !.challenges = 1],
             [Calm EXCEPT !.records = 1, !.faults = 1],
             [Calm EXCEPT !.lag = TRUE, !.messages = 6]}

\* A resent message and an expiry.
MCLate == {[Calm EXCEPT !.resends = 1, !.expiries = 1, !.messages = 14]}
=============================================================================
