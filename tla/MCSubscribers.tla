--------------------------- MODULE MCSubscribers ---------------------------
EXTENDS Subscribers, TLC

\* Subscribers and numbers are interchangeable: the properties are invariants.
Symmetry == Permutations(Imsis) \cup Permutations(Numbers)
=============================================================================
