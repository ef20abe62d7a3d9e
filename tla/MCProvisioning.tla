--------------------------- MODULE MCProvisioning ---------------------------
(* Provisioning with interchangeable actors, and the workloads of TLC's runs. *)
EXTENDS Provisioning, TLC

ActorSymmetry == Permutations(Actors)

\* One call after the other; revocations and token issues that overlap, over an
\* index that lags; disables that overlap with requests.
OneByOne == [overlap |-> FALSE, calls |-> Calls, holds |-> 0 .. MAX_VERSION,
             tokens |-> N_TOKENS, lag |-> FALSE]
Revoking == [overlap |-> TRUE, calls |-> {"revoke", "delete", "create", "console-token"},
             holds |-> {0}, tokens |-> 2, lag |-> TRUE]
Disabling == [overlap |-> TRUE, calls |-> {"disable", "enable"}, holds |-> {0}, tokens |-> 2,
              lag |-> FALSE]

MCWorkloads == {OneByOne, Revoking, Disabling}
MCDisabling == {Disabling}
=============================================================================
