---------------------------- MODULE PackageFill ----------------------------
(***************************************************************************)
(* How much of a queued DM package fits the next message: the search of      *)
(* package.fill in acs/protocol/omadm/package.py, one build() call a step.   *)
(* build(n) is the encoded message with the first n entries; only its size   *)
(* is compared, and it does not shrink when an entry is appended.            *)
(***************************************************************************)
EXTENDS Integers

CONSTANTS MAX_COUNT,    \* bound: entries in the queue
          MAX_SIZE      \* bound: bytes of a message, and of the limit

ASSUME BoundsAssumption == MAX_COUNT \in Nat /\ MAX_SIZE \in Nat

VARIABLES
    count, required, limit,     \* the arguments of fill
    size,                       \* size[n] = len(build(n))
    pc,
    fits,                       \* the most entries known to fit
    best,                       \* the message kept: build(best)
    tooMany,                    \* the smallest count known not to fit
    step,
    probed                      \* history: the largest count the search built

args == <<count, required, limit, size>>
vars == <<args, pc, fits, best, tooMany, step, probed>>

NeverShrinks(f) == \A m, n \in DOMAIN f : m <= n => f[m] <= f[n]

Init ==
    /\ count \in 0 .. MAX_COUNT
    /\ required \in 0 .. count
    /\ limit \in 0 .. MAX_SIZE
    /\ size \in [0 .. count -> 0 .. MAX_SIZE]
    /\ NeverShrinks(size)
    /\ pc = "whole"
    /\ fits = 0 /\ best = 0 /\ tooMany = 0 /\ step = 0 /\ probed = 0

Fits(n) == size[n] <= limit

\* The whole queue, when more than the required part is queued.
TryWhole ==
    /\ pc = "whole"
    /\ IF count > required /\ Fits(count)
       THEN pc' = "done" /\ fits' = count /\ best' = count
       ELSE pc' = "required" /\ UNCHANGED <<fits, best>>
    /\ UNCHANGED <<args, tooMany, step, probed>>

\* Even the required entries may not fit: MessageTooLarge.
TryRequired ==
    /\ pc = "required"
    /\ IF Fits(required)
       THEN /\ pc' = "gallop" /\ fits' = required /\ best' = required
            /\ tooMany' = IF count > required THEN count ELSE count + 1
            /\ step' = 1 /\ probed' = required
       ELSE pc' = "too_large" /\ UNCHANGED <<fits, best, tooMany, step, probed>>
    /\ UNCHANGED args

MaxOf(a, b) == IF a >= b THEN a ELSE b

\* Mutant: the step grows fourfold.
GallopWide ==
    /\ pc = "gallop"
    /\ fits + step < tooMany
    /\ LET probe == fits + step IN
       /\ probed' = MaxOf(probed, probe)
       /\ IF Fits(probe)
          THEN /\ fits' = probe /\ best' = probe /\ step' = step * 4
               /\ UNCHANGED <<pc, tooMany>>
          ELSE /\ tooMany' = probe /\ pc' = "bisect"
               /\ UNCHANGED <<fits, best, step>>
    /\ UNCHANGED args

\* One turn of the first loop.
Gallop ==
    /\ pc = "gallop"
    /\ fits + step < tooMany
    /\ LET probe == fits + step IN
       /\ probed' = MaxOf(probed, probe)
       /\ IF Fits(probe)
          THEN /\ fits' = probe /\ best' = probe /\ step' = step * 2
               /\ UNCHANGED <<pc, tooMany>>
          ELSE /\ tooMany' = probe /\ pc' = "bisect"
               /\ UNCHANGED <<fits, best, step>>
    /\ UNCHANGED args

StopGallop ==
    /\ pc = "gallop"
    /\ fits + step >= tooMany
    /\ pc' = "bisect"
    /\ UNCHANGED <<args, fits, best, tooMany, step, probed>>

\* Mutant: the probe that does not fit replaces the message kept.
BisectKeepsLast ==
    /\ pc = "bisect"
    /\ tooMany - fits > 1
    /\ LET probe == (fits + tooMany) \div 2 IN
       /\ probed' = MaxOf(probed, probe)
       /\ best' = probe
       /\ IF Fits(probe)
          THEN fits' = probe /\ UNCHANGED tooMany
          ELSE tooMany' = probe /\ UNCHANGED fits
    /\ UNCHANGED <<args, pc, step>>

\* Mutant: the count that fits is not kept.
BisectForgets ==
    /\ pc = "bisect"
    /\ tooMany - fits > 1
    /\ LET probe == (fits + tooMany) \div 2 IN
       /\ probed' = MaxOf(probed, probe)
       /\ IF Fits(probe)
          THEN best' = probe /\ UNCHANGED <<fits, tooMany>>
          ELSE tooMany' = probe /\ UNCHANGED <<fits, best>>
    /\ UNCHANGED <<args, pc, step>>

\* One turn of the second loop.
Bisect ==
    /\ pc = "bisect"
    /\ tooMany - fits > 1
    /\ LET probe == (fits + tooMany) \div 2 IN
       /\ probed' = MaxOf(probed, probe)
       /\ IF Fits(probe)
          THEN fits' = probe /\ best' = probe /\ UNCHANGED tooMany
          ELSE tooMany' = probe /\ UNCHANGED <<fits, best>>
    /\ UNCHANGED <<args, pc, step>>

Return ==
    /\ pc = "bisect"
    /\ tooMany - fits <= 1
    /\ pc' = "done"
    /\ UNCHANGED <<args, fits, best, tooMany, step, probed>>

Finished == pc \in {"done", "too_large"} /\ UNCHANGED vars

Next == TryWhole \/ TryRequired \/ Gallop \/ StopGallop \/ Bisect \/ Return \/ Finished

Spec == Init /\ [][Next]_vars

\* A loop in one call: nothing suspends it.
FairSpec == Spec /\ WF_vars(Next)

-----------------------------------------------------------------------------

\* fill's variables stay within the queue: the required part fits, and the count
\* taken not to fit lies past everything that fits.
TypeOK ==
    /\ count \in Nat /\ required \in 0 .. count /\ limit \in Nat
    /\ size \in [0 .. count -> Nat] /\ NeverShrinks(size)
    /\ pc \in {"whole", "required", "gallop", "bisect", "done", "too_large"}
    /\ fits \in 0 .. count /\ best \in 0 .. count /\ probed \in 0 .. count
    /\ tooMany \in Nat /\ step \in Nat
    /\ pc \in {"gallop", "bisect"} => required <= fits /\ fits < tooMany

\* fill: the message holds as many of the queued entries as fit the limit, at
\* least the required ones, and the body returned is the one built for them;
\* MessageTooLarge is raised only when no message the server may send fits.
Largest ==
    /\ pc = "done" =>
          /\ fits \in required .. count
          /\ size[fits] <= limit
          /\ \A n \in 0 .. count : n > fits => size[n] > limit
          /\ best = fits
    /\ pc = "too_large" => \A n \in required .. count : size[n] > limit

\* fill: a long queue is serialised only around the size that fits. After the
\* whole queue was tried, no build is more than twice as far past the required
\* part as the result, plus one entry.
ProbesNear ==
    pc \in {"gallop", "bisect", "done"} => probed - required <= 2 * (fits - required) + 1

\* fill: the search ends, for every size function that never shrinks.
Ends == <>(pc \in {"done", "too_large"})
=============================================================================
