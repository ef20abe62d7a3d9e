------------------------- MODULE PackageFillProofs -------------------------
(***************************************************************************)
(* package.fill is right for every queue, every required part, every limit    *)
(* and every size function that never shrinks.                               *)
(***************************************************************************)
EXTENDS PackageFill, TLAPS

\* What the search knows: "fits" entries fit and "tooMany" do not, or lie past
\* the queue; the step and the probes are as far from the required part as the
\* entries known to fit. Largest and ProbesNear only speak of the result.
Searching ==
    /\ size[fits] <= limit
    /\ best = fits
    /\ tooMany <= count + 1
    /\ tooMany <= count => size[tooMany] > limit

FillInv ==
    /\ TypeOK
    /\ pc = "required" => (count > required => size[count] > limit)
    /\ pc \in {"gallop", "bisect"} => Searching
    /\ pc = "gallop" => step = fits - required + 1 /\ probed <= fits
    /\ pc = "bisect" => tooMany <= 2 * (fits - required) + required + 2
    /\ Largest
    /\ ProbesNear

\* The search starts with nothing known.
LEMMA FillInvInit == Init => FillInv
BY BoundsAssumption DEF Init, FillInv, TypeOK, Searching, Largest, ProbesNear

\* Every step of the search keeps what it knows true.
LEMMA FillInvStep == FillInv /\ [Next]_vars => FillInv'
<1>. SUFFICES ASSUME FillInv, [Next]_vars PROVE FillInv'
  OBVIOUS
<1>. USE DEF FillInv, TypeOK, Searching, Fits, MaxOf, args
<1>1. CASE TryWhole
  BY <1>1 DEF TryWhole, Largest, ProbesNear
<1>2. CASE TryRequired
  <2>1. CASE Fits(required)
    BY <1>2, <2>1 DEF TryRequired, Largest, ProbesNear
  <2>2. CASE ~Fits(required)
    <3>1. \A n \in required .. count : size[n] > limit
      BY <2>2 DEF NeverShrinks
    <3>. QED
      BY <1>2, <2>2, <3>1 DEF TryRequired, Largest, ProbesNear
  <2>. QED
    BY <2>1, <2>2
<1>3. CASE Gallop
  <2>. DEFINE probe == fits + step
  <2>1. probe \in 0 .. count /\ required <= probe /\ fits < probe /\ probe < tooMany
    BY <1>3 DEF Gallop
  <2>2. CASE Fits(probe)
    BY <1>3, <2>1, <2>2 DEF Gallop, Largest, ProbesNear
  <2>3. CASE ~Fits(probe)
    BY <1>3, <2>1, <2>3 DEF Gallop, Largest, ProbesNear
  <2>. QED
    BY <2>2, <2>3
<1>4. CASE StopGallop
  BY <1>4 DEF StopGallop, Largest, ProbesNear
<1>5. CASE Bisect
  <2>. DEFINE probe == (fits + tooMany) \div 2
  <2>1. probe \in 0 .. count /\ fits < probe /\ probe < tooMany
    BY <1>5 DEF Bisect
  <2>2. CASE Fits(probe)
    BY <1>5, <2>1, <2>2 DEF Bisect, Largest, ProbesNear
  <2>3. CASE ~Fits(probe)
    BY <1>5, <2>1, <2>3 DEF Bisect, Largest, ProbesNear
  <2>. QED
    BY <2>2, <2>3
<1>6. CASE Return
  <2>1. tooMany = fits + 1
    BY <1>6 DEF Return
  <2>2. \A n \in 0 .. count : n > fits => size[n] > limit
    BY <1>6, <2>1 DEF Return, NeverShrinks
  <2>. QED
    BY <1>6, <2>1, <2>2 DEF Return, Largest, ProbesNear
<1>7. CASE Finished \/ UNCHANGED vars
  BY <1>7 DEF Finished, vars, Largest, ProbesNear
<1>. QED
  BY <1>1, <1>2, <1>3, <1>4, <1>5, <1>6, <1>7 DEF Next

\* package.fill returns the largest message that fits, with the body that belongs
\* to it, and refuses only when not even the required entries fit.
THEOREM FillIsRight == Spec => []Largest
<1>1. FillInv => Largest
  BY DEF FillInv
<1>. QED
  BY FillInvInit, FillInvStep, <1>1, PTL DEF Spec

\* package.fill serialises a queue only around the size that fits, whatever the
\* length of the queue.
THEOREM FillStaysNear == Spec => []ProbesNear
<1>1. FillInv => ProbesNear
  BY DEF FillInv
<1>. QED
  BY FillInvInit, FillInvStep, <1>1, PTL DEF Spec
=============================================================================
