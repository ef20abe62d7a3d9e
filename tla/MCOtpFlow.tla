----------------------------- MODULE MCOtpFlow -----------------------------
(* The instance of OtpFlow that TLC checks.                                  *)
EXTENDS OtpFlow, TLC

\* Requests, ids and codes are interchangeable: nothing orders them.
Symmetry == Permutations(Requests) \cup Permutations(Ids) \cup Permutations(Codes)
=============================================================================
