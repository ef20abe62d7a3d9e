--------------------------- MODULE OtpFlowProofs ---------------------------
(***************************************************************************)
(* Theorems about OtpFlow for any number of requests, ids, codes and rounds *)
(* and any policy.                                                         *)
(***************************************************************************)
EXTENDS OtpFlow, FiniteSetTheorems, TLAPS

Locals == [pc : Rest \cup Issuing \cup Sending \cup Verifying,
           now : Nat, quota : Quota, chal : Challenge \cup {None},
           mine : Ids \cup {None}, guess : Codes \cup {None},
           round : Nat, spent : Nat]

\* What TypeOK says of the locals of one request.
LocalsOK(r) ==
    /\ r \in Locals
    /\ r.pc \in Sending => r.mine \in Ids
    /\ r.pc \in Verifying => r.guess \in Codes
    /\ r.pc \in {"d_write", "v_drop", "v_write"} => r.chal \in Challenge

\* A request with no work, crashed or not, has the right locals.
LEMMA BlankOK == LocalsOK(Blank) /\ LocalsOK([Blank EXCEPT !.pc = "crashed"])
BY NoneAssumption DEF LocalsOK, Locals, Blank, NoQuota, Quota, Rest, Issuing, Sending, Verifying

\* A lost round keeps the locals right, from whichever step the loop starts.
LEMMA NextRoundOK ==
    ASSUME NEW r, LocalsOK(r),
           NEW start \in {"i_quota", "d_read", "v_read"},
           start = "d_read" => r.pc \in Sending,
           start = "v_read" => r.pc \in Verifying
    PROVE  LocalsOK(NextRound(r, start))
<1>. DEFINE again == Reread(r, start)
            n == [again EXCEPT !.round = @ + 1]
<1>1. CASE r.round + 1 < ROUNDS
  <2>1. NextRound(r, start) = n
    BY <1>1 DEF NextRound
  <2>2. NoQuota \in Quota
    BY DEF NoQuota, Quota
  <2>3. start \in Rest \cup Issuing \cup Sending \cup Verifying
    BY DEF Issuing, Sending, Verifying
  <2>4. again \in Locals /\ again.pc = start /\ again.mine = r.mine /\ again.guess = r.guess
    BY <2>2, <2>3 DEF LocalsOK, Locals, Reread
  <2>. HIDE DEF again
  <2>5. n \in Locals /\ n.pc = start /\ n.mine = r.mine /\ n.guess = r.guess
    BY <2>4 DEF Locals
  <2>6. /\ n.pc \in Sending => start = "d_read"
        /\ n.pc \in Verifying => start = "v_read"
        /\ n.pc \notin {"d_write", "v_drop", "v_write"}
    BY <2>5 DEF Sending, Verifying
  <2>. HIDE DEF n
  <2>. QED
    BY <2>1, <2>5, <2>6 DEF LocalsOK
<1>2. CASE ~(r.round + 1 < ROUNDS)
  BY <1>2, BlankOK DEF NextRound
<1>. QED
  BY <1>1, <1>2

\* The swap of a guess stores a challenge or deletes it.
LEMMA ReplacementOK ==
    ASSUME NEW c \in Challenge, NEW guess
    PROVE  Replacement(c, guess) \in Challenge \cup {None}
BY DEF Replacement, Challenge

\* TypeOK, with the requests' part written as LocalsOK.
LEMMA TypeOKByRequest ==
    TypeOK <=> /\ clock \in Nat
               /\ otp \in Challenge \cup {None}
               /\ replica \in Challenge \cup {None}
               /\ quota \in Quota
               /\ issued \subseteq Send
               /\ tried \in [Ids -> Nat]
               /\ verified \in [Ids -> Nat]
               /\ req \in [Requests -> Locals]
               /\ \A p \in Requests : LocalsOK(req[p])
BY DEF TypeOK, LocalsOK, Locals

\* A step that replaces the locals of one request by right ones keeps them right.
LEMMA SetOK ==
    ASSUME TypeOK, NEW p \in Requests, NEW r, LocalsOK(r), Set(p, r)
    PROVE  req' \in [Requests -> Locals] /\ \A q \in Requests : LocalsOK(req'[q])
BY TypeOKByRequest DEF Set, LocalsOK

\* Every step keeps the types: one step of the proof per action.
LEMMA TypeOKStep == TypeOK /\ [Next]_vars => TypeOK'
<1>. SUFFICES ASSUME TypeOK, [Next]_vars PROVE TypeOK'
  OBVIOUS
<1>. USE PolicyAssumption, NoneAssumption
<1>0. /\ clock \in Nat /\ quota \in Quota /\ issued \subseteq Send
      /\ otp \in Challenge \cup {None} /\ replica \in Challenge \cup {None}
      /\ tried \in [Ids -> Nat] /\ verified \in [Ids -> Nat]
      /\ \A p \in Requests : LocalsOK(req[p]) /\ req[p] \in Locals
  BY TypeOKByRequest DEF LocalsOK
<1>. DEFINE Right(p) == \E r : LocalsOK(r) /\ Set(p, r)
            Rested == /\ clock' \in Nat /\ quota' \in Quota /\ issued' \subseteq Send
                      /\ otp' \in Challenge \cup {None} /\ replica' \in Challenge \cup {None}
                      /\ tried' \in [Ids -> Nat] /\ verified' \in [Ids -> Nat]
<1>1. ASSUME NEW p \in Requests, Right(p), Rested PROVE TypeOK'
  BY <1>1, SetOK, TypeOKByRequest DEF TypeOK, LocalsOK, Locals
<1>2. ASSUME Rested, UNCHANGED req PROVE TypeOK'
  BY <1>2 DEF TypeOK
<1>3. ASSUME UNCHANGED <<clock, table, history>> PROVE Rested
  BY <1>0, <1>3 DEF table, history
<1>. HIDE DEF Right, Rested
<1>4. ASSUME NEW p \in Requests, StartIssue(p) \/ StartVerify(p) PROVE TypeOK'
  <2>1. CASE StartIssue(p)
    <3>1. LocalsOK([Blank EXCEPT !.pc = "i_quota", !.now = clock])
      BY BlankOK, <1>0 DEF LocalsOK, Locals, Blank, Issuing, Sending, Verifying
    <3>. QED
      BY <1>1, <1>3, <2>1, <3>1 DEF StartIssue, Right
  <2>2. CASE StartVerify(p)
    <3>1. \A k \in Codes : LocalsOK([Blank EXCEPT !.pc = "v_read", !.now = clock, !.guess = k])
      BY BlankOK, <1>0 DEF LocalsOK, Locals, Blank, Issuing, Sending, Verifying
    <3>. QED
      BY <1>1, <1>3, <2>2, <3>1 DEF StartVerify, Right
  <2>. QED
    BY <1>4, <2>1, <2>2
<1>5. ASSUME NEW p \in Requests, Step(p) PROVE TypeOK'
  <2>. DEFINE r == req[p]
  <2>0. LocalsOK(r) /\ r \in Locals
    BY <1>0
  <2>1. CASE ReadQuota(p)
    <3>1. LocalsOK([r EXCEPT !.pc = "i_chal", !.quota = quota])
      BY <2>0, <1>0 DEF LocalsOK, Locals, Issuing, Sending, Verifying
    <3>. QED
      BY <1>1, <1>3, <2>1, <3>1 DEF ReadQuota, Right
  <2>2. CASE RefuseCooldown(p) \/ RefuseQuota(p) \/ SmsAccepted(p)
    BY <1>1, <1>3, <2>2, BlankOK DEF RefuseCooldown, RefuseQuota, SmsAccepted, Right
  <2>3. CASE AllowIssue(p)
    <3>1. LocalsOK([r EXCEPT !.pc = "i_write", !.chal = otp])
      BY <2>0, <1>0 DEF LocalsOK, Locals, Issuing, Sending, Verifying
    <3>. QED
      BY <1>1, <1>3, <2>3, <3>1 DEF AllowIssue, Right
  <2>4. CASE CommitIssue(p)
    <3>. DEFINE now == r.now
                send(i) == [id |-> i, at |-> now]
    <3>1. PICK i \in Ids \ {s.id : s \in issued}, k \in Codes :
             /\ otp' = [id |-> i, code |-> k, created |-> now,
                        expires |-> now + TTL, attempts |-> 0]
             /\ quota' = [sends |-> RecentSends(r.quota.sends, now) \cup {send(i)},
                          version |-> r.quota.version + 1,
                          expires |-> now + DAY]
             /\ issued' = issued \cup {send(i)}
             /\ Set(p, [Blank EXCEPT !.pc = "send", !.mine = i])
      BY <2>4 DEF CommitIssue
    <3>2. LocalsOK([Blank EXCEPT !.pc = "send", !.mine = i])
      BY BlankOK DEF LocalsOK, Locals, Blank, Issuing, Sending, Verifying
    <3>3. now \in Nat /\ r.quota \in Quota
      BY <2>0 DEF Locals
    <3>4. send(i) \in Send /\ RecentSends(r.quota.sends, now) \subseteq Send
      BY <3>3 DEF Send, Quota, RecentSends
    <3>5. otp' \in Challenge
      BY <3>1, <3>3 DEF Challenge
    <3>6. quota' \in Quota
      BY <3>1, <3>3, <3>4 DEF Quota
    <3>7. issued' \subseteq Send
      BY <1>0, <3>1, <3>4
    <3>8. UNCHANGED <<clock, replica, tried, verified>>
      BY <2>4 DEF CommitIssue
    <3>9. Rested
      BY <1>0, <3>5, <3>6, <3>7, <3>8 DEF Rested
    <3>. QED
      BY <1>1, <3>1, <3>2, <3>9 DEF Right
  <2>5. CASE LoseIssue(p)
    <3>1. LocalsOK(NextRound(r, "i_quota"))
      BY <2>0, NextRoundOK
    <3>. QED
      BY <1>1, <1>3, <2>5, <3>1 DEF LoseIssue, Right
  <2>6. CASE SmsFailed(p)
    <3>1. LocalsOK([r EXCEPT !.pc = "d_read"])
      BY <2>0, <2>6 DEF SmsFailed, LocalsOK, Locals, Issuing, Sending, Verifying
    <3>. QED
      BY <1>1, <1>3, <2>6, <3>1 DEF SmsFailed, Right
  <2>7. CASE DiscardRead(p)
    <3>1. PICK c \in Visible : Set(p, IF c = None \/ c.id # r.mine THEN Blank
                                      ELSE [r EXCEPT !.pc = "d_write", !.chal = c])
      BY <2>7 DEF DiscardRead
    <3>2. c \in Challenge \cup {None}
      BY <1>0 DEF Visible
    <3>3. ASSUME c # None PROVE LocalsOK([r EXCEPT !.pc = "d_write", !.chal = c])
      BY <2>0, <2>7, <3>2, <3>3 DEF DiscardRead, LocalsOK, Locals, Issuing, Sending, Verifying
    <3>4. Right(p)
      BY <3>1, <3>3, BlankOK DEF Right
    <3>. QED
      BY <1>1, <1>3, <2>7, <3>4 DEF DiscardRead
  <2>8. CASE DiscardWrite(p)
    <3>1. LocalsOK(NextRound(r, "d_read"))
      BY <2>0, <2>8, NextRoundOK DEF DiscardWrite, Sending
    <3>2. Right(p)
      BY <2>8, <3>1, BlankOK DEF DiscardWrite, Right
    <3>3. otp' \in Challenge \cup {None} /\ UNCHANGED <<clock, replica, quota, history>>
      BY <1>0, <2>8 DEF DiscardWrite
    <3>4. Rested
      BY <1>0, <3>3 DEF Rested, history
    <3>. QED
      BY <1>1, <3>2, <3>4
  <2>9. CASE VerifyRead(p)
    <3>1. PICK c \in Visible :
             \/ c = None /\ Set(p, Blank)
             \/ c # None /\ Set(p, [r EXCEPT !.chal = c,
                     !.pc = IF Spent(c, r.now) THEN "v_drop" ELSE "v_write"])
      BY <2>9 DEF VerifyRead
    <3>2. c \in Challenge \cup {None}
      BY <1>0 DEF Visible
    <3>3. ASSUME c # None, NEW pc \in {"v_drop", "v_write"}
          PROVE  LocalsOK([r EXCEPT !.chal = c, !.pc = pc])
      BY <2>0, <2>9, <3>2, <3>3 DEF VerifyRead, LocalsOK, Locals, Issuing, Sending, Verifying
    <3>4. Right(p)
      BY <3>1, <3>3, BlankOK DEF Right
    <3>. QED
      BY <1>1, <1>3, <2>9, <3>4 DEF VerifyRead
  <2>10. CASE VerifyDrop(p)
    <3>1. otp' \in Challenge \cup {None} /\ UNCHANGED <<clock, replica, quota, history>>
      BY <1>0, <2>10 DEF VerifyDrop
    <3>2. Rested
      BY <1>0, <3>1 DEF Rested, history
    <3>. QED
      BY <1>1, <2>10, <3>2, BlankOK DEF VerifyDrop, Right
  <2>11. ASSUME VerifyAnswer(p) \/ VerifyReplyLost(p)
         PROVE  otp' \in Challenge \cup {None} /\ r.chal \in Challenge
    <3>1. r.chal \in Challenge
      BY <2>0, <2>11 DEF VerifyAnswer, VerifyReplyLost, LocalsOK
    <3>. QED
      BY <2>11, <3>1, ReplacementOK DEF VerifyAnswer, VerifyReplyLost
  <2>12. CASE VerifyAnswer(p)
    <3>1. r.chal.id \in Ids
      BY <2>11, <2>12 DEF Challenge
    <3>2. tried' \in [Ids -> Nat] /\ verified' \in [Ids -> Nat]
      BY <1>0, <2>12, <3>1 DEF VerifyAnswer
    <3>3. Rested
      BY <1>0, <2>11, <2>12, <3>2 DEF Rested, VerifyAnswer
    <3>. QED
      BY <1>1, <2>12, <3>3, BlankOK DEF VerifyAnswer, Right
  <2>13. CASE VerifyReplyLost(p)
    <3>1. LocalsOK([r EXCEPT !.spent = @ + 1]) /\ [r EXCEPT !.spent = @ + 1].pc = "v_write"
      BY <2>0, <2>13 DEF VerifyReplyLost, LocalsOK, Locals
    <3>2. LocalsOK(NextRound([r EXCEPT !.spent = @ + 1], "v_read"))
      BY <3>1, NextRoundOK DEF Verifying
    <3>3. Rested
      BY <1>0, <2>11, <2>13 DEF Rested, VerifyReplyLost, history
    <3>. QED
      BY <1>1, <2>13, <3>2, <3>3 DEF VerifyReplyLost, Right
  <2>14. CASE VerifyLose(p)
    <3>1. LocalsOK(NextRound(r, "v_read"))
      BY <2>0, <2>14, NextRoundOK DEF VerifyLose, Verifying
    <3>. QED
      BY <1>1, <1>3, <2>14, <3>1 DEF VerifyLose, Right
  <2>. QED
    BY <1>5, <2>1, <2>2, <2>3, <2>4, <2>5, <2>6, <2>7, <2>8, <2>9, <2>10, <2>12, <2>13, <2>14
    DEF Step
<1>6. ASSUME NEW p \in Requests, Crash(p) PROVE TypeOK'
  BY <1>1, <1>3, <1>6, BlankOK DEF Crash, Right
<1>7. CASE Tick
  BY <1>0, <1>2, <1>7 DEF Tick, Rested, table, history
<1>8. CASE Replicate \/ SweepOtp
  BY <1>0, <1>2, <1>8 DEF Replicate, SweepOtp, Rested, history
<1>9. CASE SweepQuota
  <2>1. NoQuota \in Quota
    BY DEF NoQuota, Quota
  <2>. QED
    BY <1>0, <1>2, <1>9, <2>1 DEF SweepQuota, Rested, history
<1>10. CASE UNCHANGED vars
  BY <1>10 DEF vars, table, history, TypeOK
<1>. QED
  BY <1>4, <1>5, <1>6, <1>7, <1>8, <1>9, <1>10 DEF Next

\* An empty table and no request in flight have the right types.
LEMMA TypeInit == Init => TypeOK
<1>. SUFFICES ASSUME Init PROVE TypeOK
  OBVIOUS
<1>1. NoQuota \in Quota
  BY DEF NoQuota, Quota
<1>2. req \in [Requests -> Locals] /\ \A p \in Requests : LocalsOK(req[p])
  BY BlankOK DEF Init, LocalsOK
<1>. QED
  BY <1>1, <1>2, TypeOKByRequest DEF Init

\* The stored items, the locals of every request at each step and the history
\* keep their shape in every behaviour of the flow.
THEOREM TypeCorrect == Spec => []TypeOK
BY TypeInit, TypeOKStep, PTL DEF Spec

-----------------------------------------------------------------------------
(* The inductive invariant behind the safety theorems.                       *)

IssuedIds == {s.id : s \in issued}

\* Every copy of a challenge that the flow still holds.
Copies == ({otp, replica} \cup {req[p].chal : p \in Requests}) \ {None}

\* Two copies of one issue differ in their attempts at most, so the id and the
\* attempts that a condition compares stand for the whole challenge.
CopiesAgree ==
    /\ \A c \in Copies : c.id \in IssuedIds
    /\ \A c, d \in Copies : c.id = d.id =>
          c.code = d.code /\ c.created = d.created /\ c.expires = d.expires

\* A stored challenge has answered no more guesses than it counts, none of them
\* with "verified", and a request is about to swap only an unspent challenge.
GuessesCounted ==
    /\ \A i \in Ids \ IssuedIds : tried[i] = 0 /\ verified[i] = 0
    /\ otp # None => tried[otp.id] <= otp.attempts /\ verified[otp.id] = 0
    /\ \A p \in Requests :
          req[p].pc = "v_write" => ~Spent(req[p].chal, req[p].now)

\* A request that is about to issue was allowed to by what it read, and a copy
\* of the quota item whose version is current is current.
ReadsAllow ==
    \A p \in Requests :
       /\ req[p].pc \in {"i_chal", "i_write"} =>
             /\ req[p].quota.version <= quota.version
             /\ req[p].quota.version = quota.version => req[p].quota = quota
       /\ req[p].pc = "i_write" =>
             /\ ~Cooling(req[p].chal, req[p].now)
             /\ ~CapReached(req[p].quota.sends, req[p].now)

\* The quota item forgets only sends that are out of the window.
QuotaComplete ==
    /\ IsFiniteSet(quota.sends) /\ Cardinality(quota.sends) <= MAX_SENDS
    /\ \A t \in issued : (\A s \in issued : t.at >= s.at - DAY) => t \in quota.sends

\* The requests run on the one clock of the model.
TimesOK == clock \in 0 .. MAX_CLOCK /\ \A p \in Requests : req[p].now \in 0 .. MAX_CLOCK

-----------------------------------------------------------------------------
(* What a step does to the copies of the challenges.                         *)

\* Two challenges of one issue.
Kin(c, d) ==
    c.id = d.id /\ c.code = d.code /\ c.created = d.created /\ c.expires = d.expires

\* A lost round forgets what was read.
LEMMA NextRoundForgets ==
    ASSUME NEW r \in Locals, NEW start
    PROVE  /\ NextRound(r, start).chal = None
           /\ NextRound(r, start).pc \in {"idle", start}
           /\ NextRound(r, start).now \in {0, r.now}
<1>1. /\ Reread(r, start).chal = None /\ Reread(r, start).pc = start
      /\ Reread(r, start).now = r.now
      /\ Reread(r, start) = [r EXCEPT !.pc = start, !.chal = None, !.quota = NoQuota]
  BY DEF Reread, Locals
<1>2. [Reread(r, start) EXCEPT !.round = @ + 1].chal = None
  BY <1>1 DEF Locals
<1>3. [Reread(r, start) EXCEPT !.round = @ + 1].pc = start
  BY <1>1 DEF Locals
<1>4. [Reread(r, start) EXCEPT !.round = @ + 1].now = r.now
  BY <1>1 DEF Locals
<1>. QED
  BY <1>2, <1>3, <1>4 DEF NextRound, Blank

\* The swap keeps the issue.
LEMMA ReplacementKin ==
    ASSUME NEW c \in Challenge, NEW guess, Replacement(c, guess) # None
    PROVE  /\ Kin(Replacement(c, guess), c)
           /\ Replacement(c, guess).attempts = c.attempts + 1
           /\ guess # c.code
BY DEF Replacement, Kin, Challenge

\* Only CommitIssue creates a challenge; every other step copies, swaps or drops.
LEMMA CopiesMove ==
    ASSUME TypeOK, [Next]_vars, \A p \in Requests : ~CommitIssue(p)
    PROVE  /\ \/ otp' \in {None, otp}
              \/ \E p \in Requests : req[p].chal \in Challenge /\ Kin(otp', req[p].chal)
           /\ replica' \in {replica, otp}
           /\ \A q \in Requests : req'[q].chal \in {None, otp, replica, req[q].chal}
           /\ issued' = issued
<1>0. req \in [Requests -> Locals] /\ \A p \in Requests : LocalsOK(req[p]) /\ req[p] \in Locals
  BY TypeOKByRequest DEF LocalsOK
<1>. DEFINE Moved(q) == req'[q].chal \in {None, otp, replica, req[q].chal}
<1>1. ASSUME NEW p \in Requests, NEW r, Set(p, r), r.chal \in {None, otp, replica, req[p].chal}
      PROVE  \A q \in Requests : Moved(q)
  BY <1>0, <1>1 DEF Set
<1>2. Blank.chal = None /\ [Blank EXCEPT !.pc = "crashed"].chal = None
  BY DEF Blank
<1>3. ASSUME NEW p \in Requests, StartIssue(p) \/ StartVerify(p) \/ Crash(p)
      PROVE  (\A q \in Requests : Moved(q)) /\ UNCHANGED <<table, issued>>
  <2>1. CASE StartIssue(p)
    <3>1. [Blank EXCEPT !.pc = "i_quota", !.now = clock].chal = None
      BY DEF Blank
    <3>. QED
      BY <1>1, <2>1, <3>1 DEF StartIssue, history
  <2>2. CASE StartVerify(p)
    <3>1. \A k : [Blank EXCEPT !.pc = "v_read", !.now = clock, !.guess = k].chal = None
      BY DEF Blank
    <3>. QED
      BY <1>1, <2>2, <3>1 DEF StartVerify, history
  <2>3. CASE Crash(p)
    BY <1>1, <1>2, <2>3 DEF Crash, history
  <2>. QED
    BY <1>3, <2>1, <2>2, <2>3
<1>4. ASSUME NEW p \in Requests, Step(p)
      PROVE  /\ \A q \in Requests : Moved(q)
             /\ UNCHANGED <<replica, issued>>
             /\ otp' \in {None, otp} \/ (req[p].chal \in Challenge /\ Kin(otp', req[p].chal))
  <2>1. CASE RefuseCooldown(p) \/ RefuseQuota(p) \/ SmsAccepted(p)
    BY <1>1, <1>2, <2>1 DEF RefuseCooldown, RefuseQuota, SmsAccepted, table, history
  <2>2. CASE ReadQuota(p)
    <3>1. [req[p] EXCEPT !.pc = "i_chal", !.quota = quota].chal = req[p].chal
      BY <1>0 DEF Locals
    <3>. QED
      BY <1>1, <2>2, <3>1 DEF ReadQuota, table, history
  <2>3. CASE AllowIssue(p)
    <3>1. [req[p] EXCEPT !.pc = "i_write", !.chal = otp].chal = otp
      BY <1>0 DEF Locals
    <3>. QED
      BY <1>1, <2>3, <3>1 DEF AllowIssue, table, history
  <2>4. CASE LoseIssue(p)
    BY <1>0, <1>1, <2>4, NextRoundForgets DEF LoseIssue, table, history
  <2>5. CASE SmsFailed(p)
    <3>1. [req[p] EXCEPT !.pc = "d_read"].chal = req[p].chal
      BY <1>0 DEF Locals
    <3>. QED
      BY <1>1, <2>5, <3>1 DEF SmsFailed, table, history
  <2>6. CASE DiscardRead(p)
    <3>1. PICK c \in Visible : Set(p, IF c = None \/ c.id # req[p].mine THEN Blank
                                      ELSE [req[p] EXCEPT !.pc = "d_write", !.chal = c])
      BY <2>6 DEF DiscardRead
    <3>2. [req[p] EXCEPT !.pc = "d_write", !.chal = c].chal = c
      BY <1>0 DEF Locals
    <3>3. c \in {otp, replica}
      BY DEF Visible
    <3>. QED
      BY <1>1, <1>2, <2>6, <3>1, <3>2, <3>3 DEF DiscardRead, table, history
  <2>7. CASE DiscardWrite(p)
    BY <1>0, <1>1, <1>2, <2>7, NextRoundForgets DEF DiscardWrite, history
  <2>8. CASE VerifyRead(p)
    <3>1. PICK c \in Visible :
             \/ c = None /\ Set(p, Blank)
             \/ c # None /\ Set(p, [req[p] EXCEPT !.chal = c,
                     !.pc = IF Spent(c, req[p].now) THEN "v_drop" ELSE "v_write"])
      BY <2>8 DEF VerifyRead
    <3>2. \A pc : [req[p] EXCEPT !.chal = c, !.pc = pc].chal = c
      BY <1>0 DEF Locals
    <3>3. c \in {otp, replica}
      BY DEF Visible
    <3>. QED
      BY <1>1, <1>2, <2>8, <3>1, <3>2, <3>3 DEF VerifyRead, table, history
  <2>9. CASE VerifyDrop(p)
    BY <1>1, <1>2, <2>9 DEF VerifyDrop, history
  <2>10. CASE VerifyAnswer(p)
    BY <1>0, <1>1, <1>2, <2>10, ReplacementKin DEF VerifyAnswer, LocalsOK
  <2>11. CASE VerifyReplyLost(p)
    <3>1. [req[p] EXCEPT !.spent = @ + 1] \in Locals
      BY <1>0 DEF Locals
    <3>. QED
      BY <1>0, <1>1, <2>11, <3>1, NextRoundForgets, ReplacementKin
      DEF VerifyReplyLost, LocalsOK, history
  <2>12. CASE VerifyLose(p)
    BY <1>0, <1>1, <2>12, NextRoundForgets DEF VerifyLose, table, history
  <2>. QED
    BY <1>4, <2>1, <2>2, <2>3, <2>4, <2>5, <2>6, <2>7, <2>8, <2>9, <2>10, <2>11, <2>12 DEF Step
<1>5. CASE Tick \/ Replicate \/ SweepOtp \/ SweepQuota \/ UNCHANGED vars
  BY <1>5 DEF Tick, Replicate, SweepOtp, SweepQuota, vars, table, history
<1>. QED
  BY <1>3, <1>4, <1>5 DEF Next, table

\* What CommitIssue writes, with the id and the code it draws.
Committed(p, i, k) ==
    LET now == req[p].now
        send == [id |-> i, at |-> now]
    IN  /\ otp' = [id |-> i, code |-> k, created |-> now,
                   expires |-> now + TTL, attempts |-> 0]
        /\ quota' = [sends |-> RecentSends(req[p].quota.sends, now) \cup {send},
                     version |-> req[p].quota.version + 1,
                     expires |-> now + DAY]
        /\ issued' = issued \cup {send}
        /\ Set(p, [Blank EXCEPT !.pc = "send", !.mine = i])

\* What a committed issue_otp transaction writes, with its fresh id named.
LEMMA CommitEffect ==
    ASSUME NEW p \in Requests, CommitIssue(p)
    PROVE  \E i \in Ids \ IssuedIds, k \in Codes :
              Committed(p, i, k) /\ IssuedIds' = IssuedIds \cup {i}
<1>1. PICK i \in Ids \ {s.id : s \in issued}, k \in Codes : Committed(p, i, k)
  BY DEF CommitIssue, Committed
<1>. DEFINE send == [id |-> i, at |-> req[p].now]
<1>2. issued' = issued \cup {send} /\ send.id = i
  BY <1>1 DEF Committed
<1>. HIDE DEF send
<1>3. IssuedIds' = IssuedIds \cup {i}
  BY <1>2, Zenon DEF IssuedIds
<1>. QED
  BY <1>1, <1>3 DEF IssuedIds

\* Every step keeps the copies of an issue in agreement.
LEMMA CopiesAgreeStep == TypeOK /\ CopiesAgree /\ [Next]_vars => CopiesAgree'
<1>. SUFFICES ASSUME TypeOK, CopiesAgree, [Next]_vars PROVE CopiesAgree'
  OBVIOUS
<1>1. CASE \A p \in Requests : ~CommitIssue(p)
  <2>1. ASSUME NEW c \in Copies' PROVE \E d \in Copies : Kin(c, d)
    BY <1>1, <2>1, CopiesMove, NoneAssumption DEF Copies, Kin
  <2>2. IssuedIds' = IssuedIds
    BY <1>1, CopiesMove DEF IssuedIds
  <2>. QED
    BY <2>1, <2>2 DEF CopiesAgree, Kin
<1>2. ASSUME NEW p \in Requests, CommitIssue(p) PROVE CopiesAgree'
  <2>0. req \in [Requests -> Locals]
    BY TypeOKByRequest
  <2>1. PICK i \in Ids \ IssuedIds, k \in Codes :
           Committed(p, i, k) /\ IssuedIds' = IssuedIds \cup {i}
    BY <1>2, CommitEffect
  <2>2. otp'.id = i /\ Set(p, [Blank EXCEPT !.pc = "send", !.mine = i]) /\ replica' = replica
    BY <1>2, <2>1 DEF Committed, CommitIssue
  <2>3. [Blank EXCEPT !.pc = "send", !.mine = i].chal = None
    BY DEF Blank
  <2>4. \A q \in Requests : req'[q].chal \in {None, req[q].chal}
    BY <2>0, <2>2, <2>3 DEF Set
  <2>5. ASSUME NEW c \in Copies' PROVE c \in Copies \/ (c = otp' /\ c # None)
    BY <2>2, <2>4, <2>5 DEF Copies
  <2>. QED
    BY <2>1, <2>2, <2>5 DEF CopiesAgree
<1>. QED
  BY <1>1, <1>2

-----------------------------------------------------------------------------
(* What a step does to the locals of the request that takes it.              *)

\* A request is about to write only what its own reads allowed it to.
Justified(r, n) ==
    /\ n.now \in {0, clock, r.now}
    /\ n.pc = "v_write" => ~Spent(n.chal, n.now)
    /\ n.pc = "i_chal" => n.quota = quota
    /\ n.pc = "i_write" =>
          /\ r.pc = "i_chal" /\ n.quota = r.quota
          /\ ~Cooling(n.chal, n.now) /\ ~CapReached(n.quota.sends, n.now)

\* How one step changes the locals of a request: kept, forgotten, or read anew.
LEMMA LocalsMove ==
    ASSUME TypeOK, [Next]_vars, NEW q \in Requests
    PROVE  req'[q] = req[q] \/ Justified(req[q], req'[q])
<1>0. req \in [Requests -> Locals] /\ \A p \in Requests : req[p] \in Locals
  BY TypeOKByRequest
<1>1. ASSUME NEW p \in Requests, NEW n, Set(p, n), Justified(req[p], n)
      PROVE  req'[q] = req[q] \/ Justified(req[q], req'[q])
  BY <1>0, <1>1 DEF Set
<1>2. ASSUME NEW r PROVE Justified(r, Blank) /\ Justified(r, [Blank EXCEPT !.pc = "crashed"])
  BY DEF Justified, Blank
<1>3. ASSUME NEW r \in Locals, NEW start \in {"i_quota", "d_read", "v_read"}, NEW b,
             b \in Locals, b.now = r.now
      PROVE  Justified(r, NextRound(b, start))
  BY <1>3, NextRoundForgets DEF Justified
<1>4. ASSUME NEW p \in Requests, StartIssue(p)
      PROVE  req'[q] = req[q] \/ Justified(req[q], req'[q])
  <2>1. Justified(req[p], [Blank EXCEPT !.pc = "i_quota", !.now = clock])
    BY DEF Justified, Blank
  <2>. QED
    BY <1>1, <1>4, <2>1 DEF StartIssue
<1>5. ASSUME NEW p \in Requests, StartVerify(p)
      PROVE  req'[q] = req[q] \/ Justified(req[q], req'[q])
  <2>1. \A k : Justified(req[p], [Blank EXCEPT !.pc = "v_read", !.now = clock, !.guess = k])
    BY DEF Justified, Blank
  <2>. QED
    BY <1>1, <1>5, <2>1 DEF StartVerify
<1>6. ASSUME NEW p \in Requests, Step(p)
      PROVE  req'[q] = req[q] \/ Justified(req[q], req'[q])
  <2>. DEFINE r == req[p]
  <2>0. r \in Locals
    BY <1>0
  <2>1. CASE RefuseCooldown(p) \/ RefuseQuota(p) \/ SmsAccepted(p) \/ VerifyDrop(p) \/ VerifyAnswer(p)
    BY <1>1, <1>2, <2>1 DEF RefuseCooldown, RefuseQuota, SmsAccepted, VerifyDrop, VerifyAnswer
  <2>2. CASE ReadQuota(p)
    <3>1. Justified(r, [r EXCEPT !.pc = "i_chal", !.quota = quota])
      BY <2>0 DEF Justified, Locals
    <3>. QED
      BY <1>1, <2>2, <3>1 DEF ReadQuota
  <2>3. CASE AllowIssue(p)
    <3>1. Justified(r, [r EXCEPT !.pc = "i_write", !.chal = otp])
      BY <2>0, <2>3 DEF AllowIssue, Justified, Locals
    <3>. QED
      BY <1>1, <2>3, <3>1 DEF AllowIssue
  <2>4. CASE CommitIssue(p)
    <3>1. \A i : Justified(r, [Blank EXCEPT !.pc = "send", !.mine = i])
      BY DEF Justified, Blank
    <3>. QED
      BY <1>1, <2>4, <3>1, CommitEffect DEF Committed
  <2>5. CASE LoseIssue(p) \/ VerifyLose(p)
    BY <1>1, <1>3, <2>0, <2>5 DEF LoseIssue, VerifyLose
  <2>6. CASE SmsFailed(p)
    <3>1. Justified(r, [r EXCEPT !.pc = "d_read"])
      BY <2>0 DEF Justified, Locals
    <3>. QED
      BY <1>1, <2>6, <3>1 DEF SmsFailed
  <2>7. CASE DiscardRead(p)
    <3>1. \A c : Justified(r, [r EXCEPT !.pc = "d_write", !.chal = c])
      BY <2>0 DEF Justified, Locals
    <3>. QED
      BY <1>1, <1>2, <2>7, <3>1 DEF DiscardRead
  <2>8. CASE DiscardWrite(p)
    BY <1>1, <1>2, <1>3, <2>0, <2>8 DEF DiscardWrite
  <2>9. CASE VerifyRead(p)
    <3>1. ASSUME NEW c PROVE Justified(r, [r EXCEPT !.chal = c,
                     !.pc = IF Spent(c, r.now) THEN "v_drop" ELSE "v_write"])
      BY <2>0 DEF Justified, Locals
    <3>. QED
      BY <1>1, <1>2, <2>9, <3>1 DEF VerifyRead
  <2>10. CASE VerifyReplyLost(p)
    <3>1. [r EXCEPT !.spent = @ + 1] \in Locals /\ [r EXCEPT !.spent = @ + 1].now = r.now
      BY <2>0 DEF Locals
    <3>. QED
      BY <1>1, <1>3, <2>0, <2>10, <3>1 DEF VerifyReplyLost
  <2>. QED
    BY <1>6, <2>1, <2>2, <2>3, <2>4, <2>5, <2>6, <2>7, <2>8, <2>9, <2>10 DEF Step
<1>7. ASSUME NEW p \in Requests, Crash(p)
      PROVE  req'[q] = req[q] \/ Justified(req[q], req'[q])
  BY <1>1, <1>2, <1>7 DEF Crash
<1>8. CASE Tick \/ Replicate \/ SweepOtp \/ SweepQuota \/ UNCHANGED vars
  BY <1>8 DEF Tick, Replicate, SweepOtp, SweepQuota, vars
<1>. QED
  BY <1>4, <1>5, <1>6, <1>7, <1>8 DEF Next

-----------------------------------------------------------------------------
(* Guesses.                                                                  *)

\* The steps that answer a guess, and those that change the stored challenge.
LEMMA HistoryMoves ==
    ASSUME [Next]_vars, \A p \in Requests : ~VerifyAnswer(p)
    PROVE  UNCHANGED <<tried, verified>>
<1>. SUFFICES ASSUME Next PROVE UNCHANGED <<tried, verified>>
  BY DEF vars, history
<1>1. ASSUME NEW p \in Requests, Step(p) PROVE UNCHANGED <<tried, verified>>
  BY <1>1 DEF Step, ReadQuota, RefuseCooldown, RefuseQuota, AllowIssue, CommitIssue, LoseIssue,
    SmsAccepted, SmsFailed, DiscardRead, DiscardWrite, VerifyRead, VerifyDrop, VerifyReplyLost,
    VerifyLose, history
<1>2. ASSUME NEW p \in Requests, StartIssue(p) \/ StartVerify(p) \/ Crash(p)
      PROVE  UNCHANGED <<tried, verified>>
  BY <1>2 DEF StartIssue, StartVerify, Crash, history
<1>. QED
  BY <1>1, <1>2 DEF Next, Tick, Replicate, SweepOtp, SweepQuota, history

\* How one step changes the stored challenge: kept, deleted, swapped or issued.
LEMMA StoredMoves ==
    ASSUME [Next]_vars,
           \A p \in Requests : ~(CommitIssue(p) \/ VerifyAnswer(p) \/ VerifyReplyLost(p))
    PROVE  otp' \in {None, otp}
<1>. SUFFICES ASSUME Next PROVE otp' \in {None, otp}
  BY DEF vars, table
<1>1. ASSUME NEW p \in Requests, Step(p) PROVE otp' \in {None, otp}
  BY <1>1 DEF Step, ReadQuota, RefuseCooldown, RefuseQuota, AllowIssue, LoseIssue,
    SmsAccepted, SmsFailed, DiscardRead, DiscardWrite, VerifyRead, VerifyDrop, VerifyLose, table
<1>2. ASSUME NEW p \in Requests, StartIssue(p) \/ StartVerify(p) \/ Crash(p)
      PROVE  otp' \in {None, otp}
  BY <1>2 DEF StartIssue, StartVerify, Crash, table
<1>. QED
  BY <1>1, <1>2 DEF Next, Tick, Replicate, SweepOtp, SweepQuota, table

\* The guesses' invariant: TypeOK and CopiesAgree make the conditions of
\* replace_otp mean what they say, GuessesCounted makes the limits inductive.
GuessInv == TypeOK /\ CopiesAgree /\ GuessesCounted /\ SingleUse /\ AttemptLimit

\* Every step keeps the guesses counted in the challenge or the challenge gone.
LEMMA GuessInvStep == GuessInv /\ [Next]_vars => GuessInv'
<1>. SUFFICES ASSUME GuessInv, [Next]_vars PROVE GuessInv'
  OBVIOUS
<1>. USE PolicyAssumption, NoneAssumption
<1>0. /\ TypeOK /\ TypeOK' /\ CopiesAgree'
      /\ tried \in [Ids -> Nat] /\ verified \in [Ids -> Nat]
      /\ otp \in Challenge \cup {None}
  BY TypeOKStep, CopiesAgreeStep DEF GuessInv, TypeOK
<1>1. \A p \in Requests : req'[p].pc = "v_write" => ~Spent(req'[p].chal, req'[p].now)
  BY <1>0, LocalsMove DEF GuessInv, GuessesCounted, Justified
<1>2. IssuedIds \subseteq IssuedIds'
  <2>1. CASE \A p \in Requests : ~CommitIssue(p)
    BY <1>0, <2>1, CopiesMove DEF IssuedIds
  <2>2. CASE \E p \in Requests : CommitIssue(p)
    BY <2>2, CommitEffect
  <2>. QED
    BY <2>1, <2>2
<1>3. ASSUME UNCHANGED <<tried, verified>>, otp' # None =>
                tried[otp'.id] <= otp'.attempts /\ verified[otp'.id] = 0
      PROVE  GuessInv'
  BY <1>0, <1>1, <1>2, <1>3 DEF GuessInv, GuessesCounted, SingleUse, AttemptLimit
<1>4. CASE \A p \in Requests : ~(CommitIssue(p) \/ VerifyAnswer(p) \/ VerifyReplyLost(p))
  <2>1. UNCHANGED <<tried, verified>> /\ otp' \in {None, otp}
    BY <1>4, HistoryMoves, StoredMoves
  <2>. QED
    BY <1>3, <2>1 DEF GuessInv, GuessesCounted
<1>5. ASSUME NEW p \in Requests, CommitIssue(p) PROVE GuessInv'
  <2>1. PICK i \in Ids \ IssuedIds, k \in Codes : Committed(p, i, k)
    BY <1>5, CommitEffect
  <2>2. otp'.id = i /\ otp'.attempts = 0
    BY <2>1 DEF Committed
  <2>3. UNCHANGED <<tried, verified>>
    BY <1>5 DEF CommitIssue
  <2>. QED
    BY <1>3, <2>1, <2>2, <2>3 DEF GuessInv, GuessesCounted
<1>6. ASSUME NEW p \in Requests, VerifyAnswer(p) \/ VerifyReplyLost(p)
      PROVE  /\ req[p].chal \in Challenge /\ otp \in Challenge
             /\ otp.id = req[p].chal.id /\ otp.attempts = req[p].chal.attempts
             /\ otp' = Replacement(req[p].chal, req[p].guess)
             /\ req[p].chal.attempts < MAX_ATTEMPTS /\ otp.id \in IssuedIds
             /\ tried[otp.id] <= otp.attempts /\ verified[otp.id] = 0
             /\ otp' # None => /\ otp'.id = otp.id /\ otp'.attempts = otp.attempts + 1
                               /\ req[p].guess # req[p].chal.code
  <2>1. req[p].pc = "v_write" /\ SameChallenge(otp, req[p].chal)
        /\ otp' = Replacement(req[p].chal, req[p].guess)
    BY <1>6 DEF VerifyAnswer, VerifyReplyLost
  <2>2. req[p].chal \in Challenge /\ otp \in Challenge
    BY <1>0, <2>1 DEF TypeOK, SameChallenge
  <2>3. req[p].chal.attempts \in Nat /\ ~Spent(req[p].chal, req[p].now)
    BY <2>1, <2>2 DEF Challenge, GuessInv, GuessesCounted
  <2>4. req[p].chal.attempts < MAX_ATTEMPTS
    BY <2>3 DEF Spent
  <2>5. otp.id \in IssuedIds
    BY <2>2 DEF GuessInv, CopiesAgree, Copies
  <2>6. tried[otp.id] <= otp.attempts /\ verified[otp.id] = 0
    BY <2>2 DEF GuessInv, GuessesCounted
  <2>7. otp' # None => /\ otp'.id = otp.id /\ otp'.attempts = otp.attempts + 1
                       /\ req[p].guess # req[p].chal.code
    BY <2>1, <2>2, ReplacementKin DEF SameChallenge, Kin
  <2>. QED
    BY <2>1, <2>2, <2>4, <2>5, <2>6, <2>7 DEF SameChallenge
<1>7. ASSUME NEW p \in Requests, VerifyReplyLost(p) PROVE GuessInv'
  <2>1. UNCHANGED <<tried, verified>>
    BY <1>7 DEF VerifyReplyLost, history
  <2>2. otp.id \in Ids /\ otp.attempts \in Nat
    BY <1>6, <1>7 DEF Challenge
  <2>. QED
    BY <1>0, <1>3, <1>6, <1>7, <2>1, <2>2
<1>8. ASSUME NEW p \in Requests, VerifyAnswer(p) PROVE GuessInv'
  <2>. DEFINE c == req[p].chal
              hit == req[p].guess = c.code
  <2>1. c \in Challenge /\ c.id \in Ids /\ c.attempts \in Nat /\ c.id \in IssuedIds
    BY <1>6, <1>8 DEF Challenge
  <2>2. /\ tried' = [tried EXCEPT ![c.id] = @ + 1]
        /\ verified' = IF hit THEN [verified EXCEPT ![c.id] = @ + 1] ELSE verified
        /\ issued' = issued
    BY <1>8 DEF VerifyAnswer
  <2>3. /\ tried[c.id] <= c.attempts /\ verified[c.id] = 0 /\ c.attempts < MAX_ATTEMPTS
        /\ otp' # None => otp'.id = c.id /\ otp'.attempts = c.attempts + 1 /\ ~hit
    BY <1>6, <1>8
  <2>. HIDE DEF c, hit
  <2>4. tried'[c.id] <= c.attempts + 1 /\ tried'[c.id] <= MAX_ATTEMPTS
    BY <1>0, <2>1, <2>2, <2>3
  <2>5. verified'[c.id] <= 1 /\ (~hit => verified'[c.id] = 0)
    BY <1>0, <2>1, <2>2, <2>3
  <2>6. \A i \in Ids \ {c.id} : tried'[i] = tried[i] /\ verified'[i] = verified[i]
    BY <1>0, <2>1, <2>2
  <2>7. IssuedIds' = IssuedIds
    BY <2>2 DEF IssuedIds
  <2>8. SingleUse' /\ AttemptLimit'
    BY <2>4, <2>5, <2>6 DEF GuessInv, SingleUse, AttemptLimit
  <2>9. \A i \in Ids \ IssuedIds' : tried'[i] = 0 /\ verified'[i] = 0
    BY <2>1, <2>6, <2>7 DEF GuessInv, GuessesCounted
  <2>10. otp' # None => tried'[otp'.id] <= otp'.attempts /\ verified'[otp'.id] = 0
    BY <2>3, <2>4, <2>5
  <2>11. GuessesCounted'
    BY <1>1, <2>9, <2>10 DEF GuessesCounted
  <2>. QED
    BY <1>0, <2>8, <2>11 DEF GuessInv
<1>. QED
  BY <1>4, <1>5, <1>7, <1>8

\* Nothing is issued and nothing tried at the start.
LEMMA GuessInvInit == Init => GuessInv
<1>. SUFFICES ASSUME Init PROVE GuessInv
  OBVIOUS
<1>1. TypeOK
  BY TypeInit
<1>2. CopiesAgree
  BY DEF Init, CopiesAgree, Copies, Blank
<1>3. GuessesCounted /\ SingleUse /\ AttemptLimit
  BY PolicyAssumption DEF Init, GuessesCounted, SingleUse, AttemptLimit, Blank
<1>. QED
  BY <1>1, <1>2, <1>3 DEF GuessInv

\* verify_challenge answers at most max_attempts guesses of a challenge, for any number
\* of concurrent requests, whatever the reads of get_otp return, the writes resent and
\* the items swept.
THEOREM GuessesBounded == Spec => []AttemptLimit
<1>1. GuessInv => AttemptLimit
  BY DEF GuessInv
<1>. QED
  BY <1>1, GuessInvInit, GuessInvStep, PTL DEF Spec

\* Of the requests that hold the right code of a challenge one at most is answered
\* "verified", under the same circumstances.
THEOREM VerifiesOnce == Spec => []SingleUse
<1>1. GuessInv => SingleUse
  BY DEF GuessInv
<1>. QED
  BY <1>1, GuessInvInit, GuessInvStep, PTL DEF Spec

\* Only the request's own step changes its locals.
LEMMA OwnStep ==
    ASSUME TypeOK, [Next]_vars, NEW p \in Requests, req'[p] # req[p]
    PROVE  StartIssue(p) \/ StartVerify(p) \/ Step(p) \/ Crash(p)
<1>0. req \in [Requests -> Locals]
  BY TypeOKByRequest
<1>1. ASSUME NEW q \in Requests, NEW r, Set(q, r) PROVE q = p
  BY <1>0, <1>1 DEF Set
<1>2. ASSUME NEW q \in Requests, StartIssue(q) PROVE q = p
  BY <1>1, <1>2 DEF StartIssue
<1>3. ASSUME NEW q \in Requests, StartVerify(q) PROVE q = p
  BY <1>1, <1>3 DEF StartVerify
<1>4. ASSUME NEW q \in Requests, Crash(q) PROVE q = p
  BY <1>1, <1>4 DEF Crash
<1>5. ASSUME NEW q \in Requests, Step(q) PROVE q = p
  <2>1. CASE ReadQuota(q) \/ RefuseCooldown(q) \/ RefuseQuota(q) \/ AllowIssue(q)
    BY <1>1, <2>1 DEF ReadQuota, RefuseCooldown, RefuseQuota, AllowIssue
  <2>2. CASE CommitIssue(q)
    BY <1>1, <2>2, CommitEffect DEF Committed
  <2>3. CASE LoseIssue(q) \/ SmsAccepted(q) \/ SmsFailed(q)
    BY <1>1, <2>3 DEF LoseIssue, SmsAccepted, SmsFailed
  <2>4. CASE DiscardRead(q)
    BY <1>1, <2>4 DEF DiscardRead
  <2>5. CASE DiscardWrite(q)
    BY <1>1, <2>5 DEF DiscardWrite
  <2>6. CASE VerifyRead(q)
    BY <1>1, <2>6 DEF VerifyRead
  <2>7. CASE VerifyDrop(q) \/ VerifyAnswer(q) \/ VerifyReplyLost(q) \/ VerifyLose(q)
    BY <1>1, <2>7 DEF VerifyDrop, VerifyAnswer, VerifyReplyLost, VerifyLose
  <2>. QED
    BY <1>5, <2>1, <2>2, <2>3, <2>4, <2>5, <2>6, <2>7 DEF Step
<1>6. CASE Tick \/ Replicate \/ SweepOtp \/ SweepQuota \/ UNCHANGED vars
  BY <1>6 DEF Tick, Replicate, SweepOtp, SweepQuota, vars
<1>. QED
  BY <1>2, <1>3, <1>4, <1>5, <1>6 DEF Next

\* A request is answered "verified" with the code of the challenge that is stored at that
\* moment, and that challenge is then gone.
THEOREM VerifiedWhenCurrent == Spec => VerifiedIsCurrent
<1>1. ASSUME GuessInv, [Next]_vars
      PROVE  \A p \in Requests :
                (req[p].pc = "v_write" /\ req'[p] # req[p] /\ verified' # verified)
                   => (otp # None /\ otp.code = req[p].guess /\ otp' = None)
  <2>0. TypeOK /\ CopiesAgree
    BY <1>1 DEF GuessInv
  <2>. SUFFICES ASSUME NEW p \in Requests, req[p].pc = "v_write", req'[p] # req[p], verified' # verified
                PROVE  otp # None /\ otp.code = req[p].guess /\ otp' = None
    OBVIOUS
  <2>1. PICK q \in Requests : VerifyAnswer(q)
    BY <1>1, HistoryMoves
  <2>2. q = p
    BY <2>0, <2>1, TypeOKByRequest DEF VerifyAnswer, Set
  <2>3. /\ SameChallenge(otp, req[p].chal) /\ otp' = Replacement(req[p].chal, req[p].guess)
        /\ req[p].guess = req[p].chal.code
    BY <2>1, <2>2 DEF VerifyAnswer
  <2>4. req[p].chal \in Challenge /\ otp # None
    BY <2>0, <2>3, TypeOKByRequest DEF LocalsOK, SameChallenge
  <2>5. otp.code = req[p].chal.code
    <3>1. otp \in Copies /\ req[p].chal \in Copies
      BY <2>4, NoneAssumption DEF Copies
    <3>. QED
      BY <2>0, <2>3, <3>1 DEF CopiesAgree, SameChallenge
  <2>6. otp' = None
    BY <2>3 DEF Replacement
  <2>. QED
    BY <2>3, <2>4, <2>5, <2>6
<1>. QED
  BY <1>1, GuessInvInit, GuessInvStep, PTL DEF Spec, VerifiedIsCurrent

-----------------------------------------------------------------------------
(* Failed sends.                                                             *)

\* What discard_challenge is about to delete is the challenge its request issued.
OwnChallenge ==
    \A p \in Requests :
        /\ req[p].pc \in Sending => req[p].mine \in IssuedIds
        /\ req[p].pc = "d_write" => req[p].chal.id = req[p].mine

\* The steps of a request whose SMS is sent or failed.
LEMMA SendingSteps ==
    ASSUME TypeOK, [Next]_vars, NEW p \in Requests, req'[p] # req[p],
           req[p].pc \in Sending \/ req'[p].pc \in Sending
    PROVE  \/ CommitIssue(p) \/ SmsAccepted(p) \/ SmsFailed(p) \/ DiscardRead(p) \/ DiscardWrite(p)
           \/ Crash(p)
<1>0. req[p] \in Locals /\ req \in [Requests -> Locals]
  BY TypeOKByRequest
<1>1. ASSUME NEW r, Set(p, r) PROVE req'[p] = r
  BY <1>0, <1>1 DEF Set
<1>2. Blank.pc \notin Sending
  BY DEF Blank, Sending
<1>3. StartIssue(p) \/ StartVerify(p) \/ Step(p) \/ Crash(p)
  BY OwnStep
<1>4. ASSUME StartIssue(p) PROVE FALSE
  <2>1. [Blank EXCEPT !.pc = "i_quota", !.now = clock].pc = "i_quota"
    BY DEF Blank
  <2>. QED
    BY <1>1, <1>4, <2>1 DEF StartIssue, Sending, Rest
<1>5. ASSUME StartVerify(p) PROVE FALSE
  <2>1. \A k : [Blank EXCEPT !.pc = "v_read", !.now = clock, !.guess = k].pc = "v_read"
    BY DEF Blank
  <2>. QED
    BY <1>1, <1>5, <2>1 DEF StartVerify, Sending, Rest
<1>6. ASSUME ReadQuota(p) \/ AllowIssue(p) PROVE FALSE
  <2>1. /\ [req[p] EXCEPT !.pc = "i_chal", !.quota = quota].pc = "i_chal"
        /\ [req[p] EXCEPT !.pc = "i_write", !.chal = otp].pc = "i_write"
    BY <1>0 DEF Locals
  <2>. QED
    BY <1>1, <1>6, <2>1 DEF ReadQuota, AllowIssue, Sending
<1>7. ASSUME RefuseCooldown(p) \/ RefuseQuota(p) \/ VerifyDrop(p) \/ VerifyAnswer(p) PROVE FALSE
  BY <1>1, <1>2, <1>7 DEF RefuseCooldown, RefuseQuota, VerifyDrop, VerifyAnswer, Sending
<1>8. ASSUME LoseIssue(p) \/ VerifyLose(p) PROVE FALSE
  <2>1. \A start \in {"i_quota", "v_read"} : NextRound(req[p], start).pc \notin Sending
    BY <1>0, NextRoundForgets DEF Sending
  <2>. QED
    BY <1>1, <1>8, <2>1 DEF LoseIssue, VerifyLose, Sending
<1>9. ASSUME VerifyReplyLost(p) PROVE FALSE
  <2>1. [req[p] EXCEPT !.spent = @ + 1] \in Locals
    BY <1>0 DEF Locals
  <2>2. NextRound([req[p] EXCEPT !.spent = @ + 1], "v_read").pc \notin Sending
    BY <2>1, NextRoundForgets DEF Sending
  <2>. QED
    BY <1>1, <1>9, <2>2 DEF VerifyReplyLost, Sending
<1>10. ASSUME VerifyRead(p) PROVE FALSE
  <2>1. \A c, x : [req[p] EXCEPT !.chal = c, !.pc = x].pc = x
    BY <1>0 DEF Locals
  <2>2. req'[p].pc \in {"idle", "v_drop", "v_write"}
    <3>1. PICK c \in Visible :
             \/ c = None /\ Set(p, Blank)
             \/ c # None /\ Set(p, [req[p] EXCEPT !.chal = c,
                     !.pc = IF Spent(c, req[p].now) THEN "v_drop" ELSE "v_write"])
      BY <1>10 DEF VerifyRead
    <3>2. CASE Set(p, Blank)
      BY <1>1, <3>2 DEF Blank
    <3>3. CASE Set(p, [req[p] EXCEPT !.chal = c,
                 !.pc = IF Spent(c, req[p].now) THEN "v_drop" ELSE "v_write"])
      BY <1>1, <2>1, <3>3
    <3>. QED
      BY <3>1, <3>2, <3>3
  <2>. QED
    BY <1>10, <2>2 DEF VerifyRead, Sending
<1>. QED
  BY <1>3, <1>4, <1>5, <1>6, <1>7, <1>8, <1>9, <1>10 DEF Step

\* What discard_challenge's steps leave in the locals: its own challenge, one round on.
LEMMA SendingLocals ==
    ASSUME TypeOK, [Next]_vars, NEW p \in Requests, req'[p] # req[p], req'[p].pc \in Sending
    PROVE  \/ \E i \in Ids \ IssuedIds :
                 /\ IssuedIds' = IssuedIds \cup {i} /\ req'[p].mine = i
                 /\ req'[p].pc = "send" /\ req'[p].round = 0
           \/ /\ SmsFailed(p) /\ req'[p].mine = req[p].mine
              /\ req'[p].pc = "d_read" /\ req'[p].round = req[p].round
           \/ /\ DiscardRead(p) /\ req'[p].mine = req[p].mine /\ req'[p].round = req[p].round
              /\ req'[p].pc = "d_write" /\ req'[p].chal \in Visible \ {None}
              /\ req'[p].chal.id = req[p].mine
           \/ /\ DiscardWrite(p) /\ req'[p].mine = req[p].mine /\ req'[p].round = req[p].round + 1
              /\ req'[p].pc = "d_read"
<1>0. req[p] \in Locals /\ req \in [Requests -> Locals]
  BY TypeOKByRequest
<1>1. ASSUME NEW r, Set(p, r) PROVE req'[p] = r
  BY <1>0, <1>1 DEF Set
<1>2. Blank.pc \notin Sending /\ [Blank EXCEPT !.pc = "crashed"].pc \notin Sending
  BY DEF Blank, Sending
<1>3. CASE CommitIssue(p)
  <2>1. PICK i \in Ids \ IssuedIds, k \in Codes :
           Committed(p, i, k) /\ IssuedIds' = IssuedIds \cup {i}
    BY <1>3, CommitEffect
  <2>2. /\ [Blank EXCEPT !.pc = "send", !.mine = i].mine = i
        /\ [Blank EXCEPT !.pc = "send", !.mine = i].pc = "send"
        /\ [Blank EXCEPT !.pc = "send", !.mine = i].round = 0
    BY DEF Blank
  <2>3. req'[p] = [Blank EXCEPT !.pc = "send", !.mine = i]
    BY <1>1, <2>1 DEF Committed
  <2>. QED
    BY <2>1, <2>2, <2>3
<1>4. CASE SmsAccepted(p) \/ Crash(p)
  BY <1>1, <1>2, <1>4 DEF SmsAccepted, Crash
<1>5. CASE SmsFailed(p)
  <2>1. /\ [req[p] EXCEPT !.pc = "d_read"].mine = req[p].mine
        /\ [req[p] EXCEPT !.pc = "d_read"].round = req[p].round
        /\ [req[p] EXCEPT !.pc = "d_read"].pc = "d_read"
    BY <1>0 DEF Locals
  <2>. QED
    BY <1>1, <1>5, <2>1 DEF SmsFailed
<1>6. CASE DiscardRead(p)
  <2>1. PICK c \in Visible : Set(p, IF c = None \/ c.id # req[p].mine THEN Blank
                                    ELSE [req[p] EXCEPT !.pc = "d_write", !.chal = c])
    BY <1>6 DEF DiscardRead
  <2>2. /\ [req[p] EXCEPT !.pc = "d_write", !.chal = c].mine = req[p].mine
        /\ [req[p] EXCEPT !.pc = "d_write", !.chal = c].round = req[p].round
        /\ [req[p] EXCEPT !.pc = "d_write", !.chal = c].pc = "d_write"
        /\ [req[p] EXCEPT !.pc = "d_write", !.chal = c].chal = c
    BY <1>0 DEF Locals
  <2>3. c # None /\ c.id = req[p].mine
    BY <1>1, <1>2, <2>1
  <2>4. req'[p] = [req[p] EXCEPT !.pc = "d_write", !.chal = c]
    BY <1>1, <2>1, <2>3
  <2>. QED
    BY <1>6, <2>2, <2>3, <2>4
<1>7. CASE DiscardWrite(p)
  <2>1. req'[p] = NextRound(req[p], "d_read")
    BY <1>1, <1>2, <1>7 DEF DiscardWrite
  <2>. DEFINE again == Reread(req[p], "d_read")
              n == [again EXCEPT !.round = @ + 1]
  <2>2. req'[p] = n
    BY <1>2, <2>1 DEF NextRound
  <2>3. again \in Locals /\ again.mine = req[p].mine /\ again.round = req[p].round /\ again.pc = "d_read"
    <3>1. NoQuota \in Quota
      BY DEF NoQuota, Quota
    <3>. QED
      BY <1>0, <3>1 DEF Reread, Locals, Sending
  <2>. HIDE DEF again
  <2>4. n.mine = again.mine /\ n.round = again.round + 1 /\ n.pc = again.pc
    BY <2>3 DEF Locals
  <2>. HIDE DEF n
  <2>. QED
    BY <1>7, <2>2, <2>3, <2>4
<1>. QED
  BY <1>3, <1>4, <1>5, <1>6, <1>7, SendingSteps

\* The ids that were issued stay issued.
LEMMA IssuedGrows == ASSUME TypeOK, [Next]_vars PROVE IssuedIds \subseteq IssuedIds'
<1>1. CASE \A p \in Requests : ~CommitIssue(p)
  BY <1>1, CopiesMove DEF IssuedIds
<1>2. ASSUME NEW p \in Requests, CommitIssue(p) PROVE IssuedIds \subseteq IssuedIds'
  BY <1>2, CommitEffect
<1>. QED
  BY <1>1, <1>2

LEMMA OwnStepOK == ASSUME TypeOK, OwnChallenge, [Next]_vars PROVE OwnChallenge'
<1>. SUFFICES ASSUME NEW p \in Requests
              PROVE  /\ req'[p].pc \in Sending => req'[p].mine \in IssuedIds'
                     /\ req'[p].pc = "d_write" => req'[p].chal.id = req'[p].mine
  BY DEF OwnChallenge
<1>1. IssuedIds \subseteq IssuedIds'
  BY IssuedGrows
<1>2. CASE req'[p] = req[p]
  BY <1>1, <1>2 DEF OwnChallenge
<1>3. CASE req'[p] # req[p] /\ req'[p].pc \in Sending
  <2>1. SmsFailed(p) \/ DiscardRead(p) \/ DiscardWrite(p) => req[p].mine \in IssuedIds
    BY DEF OwnChallenge, SmsFailed, DiscardRead, DiscardWrite, Sending
  <2>. QED
    BY <1>1, <1>3, <2>1, SendingLocals
<1>. QED
  BY <1>2, <1>3 DEF Sending

LEMMA OwnInit == Init => OwnChallenge
BY DEF Init, OwnChallenge, Blank, Sending

\* A request whose SMS failed deletes the challenge that it issued and never a newer
\* one, however its reads lag and its writes are resent.
THEOREM DiscardsOwn == Spec => DiscardOwnOnly
<1>. DEFINE Inv == TypeOK /\ OwnChallenge
<1>1. Init => Inv
  BY TypeInit, OwnInit
<1>2. Inv /\ [Next]_vars => Inv'
  BY TypeOKStep, OwnStepOK
<1>3. ASSUME Inv, [Next]_vars
      PROVE  \A p \in Requests : (req[p].pc \in Sending /\ req'[p] # req[p] /\ otp' # otp)
                                    => (otp.id = req[p].mine /\ otp' = None)
  <2>. SUFFICES ASSUME NEW p \in Requests, req[p].pc \in Sending, req'[p] # req[p], otp' # otp
                PROVE  otp.id = req[p].mine /\ otp' = None
    OBVIOUS
  <2>0. TypeOK /\ OwnChallenge
    BY <1>3
  <2>1. \/ CommitIssue(p) \/ SmsAccepted(p) \/ SmsFailed(p) \/ DiscardRead(p) \/ DiscardWrite(p)
        \/ Crash(p)
    BY <1>3, <2>0, SendingSteps
  <2>2. DiscardWrite(p)
    BY <2>1 DEF CommitIssue, SmsAccepted, SmsFailed, DiscardRead, Crash, table, Sending
  <2>3. req[p].pc = "d_write" /\ SameChallenge(otp, req[p].chal) /\ otp' = None
    BY <2>2 DEF DiscardWrite
  <2>. QED
    BY <2>0, <2>3 DEF OwnChallenge, SameChallenge
<1>. QED
  BY <1>1, <1>2, <1>3, PTL DEF Spec, DiscardOwnOnly

-----------------------------------------------------------------------------
(* The rounds of discard_challenge are enough. Its reads are current.        *)

\* A stored challenge has an attempt left, unless it is new.
Unspent == otp # None => otp.attempts = 0 \/ otp.attempts < MAX_ATTEMPTS

\* discard_challenge loses a round only to a guess that spent an attempt of its
\* challenge, so while that challenge is stored it counts the rounds lost.
RoundsCounted ==
    \A p \in Requests :
        /\ req[p].pc = "send" => req[p].round = 0
        /\ req[p].pc = "d_write" => req[p].chal.attempts >= req[p].round
        /\ (otp # None /\ otp.id = req[p].mine /\ req[p].pc \in {"d_read", "d_write"})
              => /\ otp.attempts >= req[p].round
                 /\ req[p].pc = "d_write" => otp.attempts >= req[p].chal.attempts

\* A step deletes the stored challenge, issues a new one, or spends one attempt of it.
LEMMA StoredSpends ==
    ASSUME TypeOK, [Next]_vars
    PROVE  \/ otp' \in {None, otp}
           \/ otp' # None /\ otp'.id \notin IssuedIds /\ otp'.attempts = 0
           \/ /\ otp # None /\ otp'.id = otp.id
              /\ otp'.attempts = otp.attempts + 1 /\ otp'.attempts < MAX_ATTEMPTS
<1>1. CASE \A p \in Requests : ~(CommitIssue(p) \/ VerifyAnswer(p) \/ VerifyReplyLost(p))
  BY <1>1, StoredMoves
<1>2. ASSUME NEW p \in Requests, CommitIssue(p)
      PROVE  otp' # None /\ otp'.id \notin IssuedIds /\ otp'.attempts = 0
  <2>1. PICK i \in Ids \ IssuedIds, k \in Codes : Committed(p, i, k)
    BY <1>2, CommitEffect
  <2>2. otp'.id = i /\ otp'.attempts = 0
    BY <2>1 DEF Committed
  <2>3. otp' \in Challenge
    <3>1. req[p].now \in Nat
      BY TypeOKByRequest DEF Locals
    <3>. QED
      BY <2>1, <3>1, PolicyAssumption DEF Committed, Challenge
  <2>. QED
    BY <2>2, <2>3, NoneAssumption
<1>3. ASSUME NEW p \in Requests, VerifyAnswer(p) \/ VerifyReplyLost(p), otp' # None
      PROVE  /\ otp # None /\ otp'.id = otp.id
             /\ otp'.attempts = otp.attempts + 1 /\ otp'.attempts < MAX_ATTEMPTS
  <2>1. /\ req[p].pc = "v_write" /\ SameChallenge(otp, req[p].chal)
        /\ otp' = Replacement(req[p].chal, req[p].guess)
    BY <1>3 DEF VerifyAnswer, VerifyReplyLost
  <2>2. req[p].chal \in Challenge
    BY <2>1 DEF TypeOK
  <2>3. Kin(otp', req[p].chal) /\ otp'.attempts = req[p].chal.attempts + 1
    BY <1>3, <2>1, <2>2, ReplacementKin
  <2>4. ~(req[p].chal.attempts + 1 >= MAX_ATTEMPTS)
    BY <1>3, <2>1 DEF Replacement
  <2>5. req[p].chal.attempts \in Nat
    BY <2>2 DEF Challenge
  <2>. QED
    BY <2>1, <2>3, <2>4, <2>5, PolicyAssumption DEF Kin, SameChallenge
<1>. QED
  BY <1>1, <1>2, <1>3

\* The challenge that a request issued is stored after a step only if it was before.
LEMMA OwnStored ==
    ASSUME TypeOK, OwnChallenge, [Next]_vars, NEW p \in Requests, req[p].pc \in Sending,
           otp' # None, otp'.id = req[p].mine
    PROVE  /\ otp # None /\ otp.id = req[p].mine
           /\ otp.attempts \in Nat /\ otp'.attempts >= otp.attempts
<1>1. req[p].mine \in IssuedIds
  BY DEF OwnChallenge
<1>2. otp # None /\ otp.id = req[p].mine
        /\ (otp' = otp \/ otp'.attempts = otp.attempts + 1)
  BY <1>1, StoredSpends
<1>3. otp.attempts \in Nat
  BY <1>2 DEF TypeOK, Challenge
<1>. QED
  BY <1>2, <1>3

LEMMA UnspentStep == ASSUME TypeOK, Unspent, [Next]_vars PROVE Unspent'
BY StoredSpends DEF Unspent

\* A lost write of discard_challenge found more attempts than it had read.
LEMMA LostToAGuess ==
    ASSUME TypeOK, OwnChallenge, RoundsCounted, NEW p \in Requests, DiscardWrite(p),
           otp' # None, otp'.id = req[p].mine
    PROVE  /\ otp' = otp /\ ~SameChallenge(otp, req[p].chal)
           /\ otp.attempts \in Nat /\ req[p].round \in Nat
           /\ otp.attempts >= req[p].round + 1
<1>1. ~SameChallenge(otp, req[p].chal) /\ otp' = otp /\ req[p].pc = "d_write"
  BY DEF DiscardWrite
<1>2. req[p].chal.id = req[p].mine
  BY <1>1 DEF OwnChallenge
<1>3. otp.attempts # req[p].chal.attempts
  BY <1>1, <1>2 DEF SameChallenge
<1>4. /\ otp.attempts \in Nat /\ req[p].chal.attempts \in Nat /\ req[p].round \in Nat
  <2>1. req[p].chal \in Challenge
    BY <1>1 DEF TypeOK
  <2>2. req[p].round \in Nat
    BY TypeOKByRequest DEF Locals
  <2>3. otp \in Challenge
    BY <1>1 DEF TypeOK
  <2>. QED
    BY <2>1, <2>2, <2>3 DEF Challenge
<1>5. /\ otp.attempts >= req[p].chal.attempts /\ req[p].chal.attempts >= req[p].round
  BY <1>1 DEF RoundsCounted
<1>. QED
  BY <1>1, <1>3, <1>4, <1>5

LEMMA RoundsCountedStep ==
    ASSUME ~StaleReads, TypeOK, OwnChallenge, RoundsCounted, [Next]_vars
    PROVE  RoundsCounted'
<1>. SUFFICES ASSUME NEW p \in Requests
              PROVE  /\ req'[p].pc = "send" => req'[p].round = 0
                     /\ req'[p].pc = "d_write" => req'[p].chal.attempts >= req'[p].round
                     /\ (otp' # None /\ otp'.id = req'[p].mine
                           /\ req'[p].pc \in {"d_read", "d_write"})
                           => /\ otp'.attempts >= req'[p].round
                              /\ req'[p].pc = "d_write" => otp'.attempts >= req'[p].chal.attempts
  BY DEF RoundsCounted
<1>0. req[p].round \in Nat /\ (otp # None => otp \in Challenge)
      /\ (req[p].pc = "d_write" => req[p].chal \in Challenge)
  BY TypeOKByRequest DEF Locals, LocalsOK
<1>1. CASE req'[p] = req[p]
  <2>1. CASE req[p].pc \in {"d_read", "d_write"} /\ otp' # None /\ otp'.id = req[p].mine
    <3>1. /\ otp # None /\ otp.id = req[p].mine
          /\ otp.attempts \in Nat /\ otp'.attempts >= otp.attempts
      BY <2>1, OwnStored DEF Sending
    <3>2. otp'.attempts \in Nat
      BY <2>1, TypeOKStep DEF TypeOK, Challenge
    <3>3. req[p].pc = "d_write" => req[p].chal.attempts \in Nat
      BY <1>0 DEF Challenge
    <3>. QED
      BY <1>0, <1>1, <2>1, <3>1, <3>2, <3>3 DEF RoundsCounted
  <2>. QED
    BY <1>1, <2>1 DEF RoundsCounted
<1>2. CASE req'[p] # req[p] /\ req'[p].pc \in Sending
  <2>1. CASE req'[p].pc = "send" /\ req'[p].round = 0
    BY <2>1
  <2>2. CASE /\ SmsFailed(p) /\ req'[p].mine = req[p].mine
             /\ req'[p].pc = "d_read" /\ req'[p].round = req[p].round
    <3>1. req[p].round = 0 /\ req[p].pc = "send" /\ otp' = otp
      BY <2>2 DEF RoundsCounted, SmsFailed, table
    <3>2. otp # None => otp.attempts >= 0
      BY <1>0 DEF Challenge
    <3>. QED
      BY <2>2, <3>1, <3>2
  <2>3. CASE /\ DiscardRead(p) /\ req'[p].mine = req[p].mine /\ req'[p].round = req[p].round
             /\ req'[p].pc = "d_write" /\ req'[p].chal \in Visible \ {None}
             /\ req'[p].chal.id = req[p].mine
    <3>1. req'[p].chal = otp /\ otp # None /\ otp' = otp /\ req[p].pc = "d_read"
      BY <2>3 DEF Visible, DiscardRead, table
    <3>2. otp.attempts >= req[p].round /\ otp.attempts \in Nat
      BY <1>0, <2>3, <3>1 DEF RoundsCounted, Challenge
    <3>. QED
      BY <2>3, <3>1, <3>2
  <2>4. CASE /\ DiscardWrite(p) /\ req'[p].mine = req[p].mine /\ req'[p].round = req[p].round + 1
             /\ req'[p].pc = "d_read"
    BY <2>4, LostToAGuess
  <2>. QED
    BY <1>2, <2>1, <2>2, <2>3, <2>4, SendingLocals
<1>3. CASE req'[p].pc \notin Sending
  BY <1>3 DEF Sending
<1>. QED
  BY <1>1, <1>2, <1>3

\* A client told that the send failed is not left with a challenge whose message was
\* never sent: when discard_challenge returns, that challenge is gone. A round is lost
\* only to a guess that spends an attempt, so a policy of no more attempts than rounds
\* (3 and 5 in the code) cannot exhaust the rounds. Reads have to be current: a lagging
\* get_otp may show no challenge where there is one.
THEOREM FailedSendIsDiscarded ==
    ASSUME ~StaleReads, MAX_ATTEMPTS <= ROUNDS
    PROVE  Spec => FailedSendDiscarded
<1>. DEFINE Inv == TypeOK /\ OwnChallenge /\ Unspent /\ RoundsCounted
<1>1. Init => Inv
  <2>1. Init => Unspent /\ RoundsCounted
    BY DEF Init, Unspent, RoundsCounted, Blank
  <2>. QED
    BY <2>1, TypeInit, OwnInit
<1>2. Inv /\ [Next]_vars => Inv'
  BY TypeOKStep, OwnStepOK, UnspentStep, RoundsCountedStep
<1>3. ASSUME Inv, [Next]_vars
      PROVE  \A p \in Requests : (req[p].pc \in {"d_read", "d_write"} /\ req'[p].pc = "idle")
                                    => (otp' = None \/ otp'.id # req[p].mine)
  <2>. SUFFICES ASSUME NEW p \in Requests, req[p].pc \in {"d_read", "d_write"},
                       req'[p].pc = "idle", otp' # None, otp'.id = req[p].mine
                PROVE  FALSE
    OBVIOUS
  <2>0. TypeOK /\ OwnChallenge /\ Unspent /\ RoundsCounted
    BY <1>3
  <2>1. req'[p] # req[p] /\ req[p].pc \in Sending
    BY DEF Sending
  <2>2. \/ CommitIssue(p) \/ SmsAccepted(p) \/ SmsFailed(p) \/ DiscardRead(p) \/ DiscardWrite(p)
        \/ Crash(p)
    BY <1>3, <2>0, <2>1, SendingSteps
  <2>3. req \in [Requests -> Locals] /\ req[p] \in Locals
    BY <2>0, TypeOKByRequest
  <2>4. ASSUME NEW r, Set(p, r) PROVE req'[p] = r
    BY <2>3, <2>4 DEF Set
  <2>5. ~Crash(p)
    <3>1. [Blank EXCEPT !.pc = "crashed"].pc = "crashed"
      BY DEF Blank
    <3>. QED
      BY <2>4, <3>1 DEF Crash
  <2>6. ~DiscardRead(p)
    <3>. SUFFICES ASSUME DiscardRead(p) PROVE FALSE
      OBVIOUS
    <3>1. Set(p, IF otp = None \/ otp.id # req[p].mine THEN Blank
                 ELSE [req[p] EXCEPT !.pc = "d_write", !.chal = otp])
      BY DEF DiscardRead, Visible
    <3>2. otp' = otp
      BY DEF DiscardRead, table
    <3>3. [req[p] EXCEPT !.pc = "d_write", !.chal = otp].pc = "d_write"
      BY <2>3 DEF Locals
    <3>. QED
      BY <2>4, <3>1, <3>2, <3>3
  <2>7. DiscardWrite(p)
    BY <2>2, <2>5, <2>6 DEF CommitIssue, SmsAccepted, SmsFailed
  <2>8. /\ otp' = otp /\ ~SameChallenge(otp, req[p].chal)
        /\ otp.attempts \in Nat /\ req[p].round \in Nat
        /\ otp.attempts >= req[p].round + 1
    BY <2>0, <2>7, LostToAGuess
  <2>9. req'[p] = NextRound(req[p], "d_read")
    BY <2>4, <2>7, <2>8 DEF DiscardWrite
  <2>10. ~(req[p].round + 1 < ROUNDS)
    <3>. SUFFICES ASSUME req[p].round + 1 < ROUNDS PROVE FALSE
      OBVIOUS
    <3>. DEFINE again == Reread(req[p], "d_read")
    <3>1. req'[p] = [again EXCEPT !.round = @ + 1]
      BY <2>9 DEF NextRound
    <3>2. again \in Locals /\ again.pc = "d_read"
      <4>1. NoQuota \in Quota
        BY DEF NoQuota, Quota
      <4>. QED
        BY <2>3, <4>1 DEF Reread, Locals, Sending
    <3>. HIDE DEF again
    <3>3. [again EXCEPT !.round = @ + 1].pc = "d_read"
      BY <3>2 DEF Locals
    <3>. QED
      BY <3>1, <3>3
  <2>11. otp.attempts = 0 \/ otp.attempts < MAX_ATTEMPTS
    BY <2>0, <2>8 DEF Unspent
  <2>. QED
    BY <2>8, <2>10, <2>11, PolicyAssumption
<1>. QED
  BY <1>1, <1>2, <1>3, PTL DEF Spec, FailedSendDiscarded

-----------------------------------------------------------------------------
(* Issues. The quota item is kept: the table's TTL does not delete it.       *)

\* Only CommitIssue writes the quota item, unless it is swept.
LEMMA QuotaMoves ==
    ASSUME [Next]_vars, "quota" \notin Sweeps, \A p \in Requests : ~CommitIssue(p)
    PROVE  UNCHANGED <<quota, issued>>
<1>. SUFFICES ASSUME Next PROVE UNCHANGED <<quota, issued>>
  BY DEF vars, table, history
<1>1. ASSUME NEW p \in Requests, Step(p) PROVE UNCHANGED <<quota, issued>>
  BY <1>1 DEF Step, ReadQuota, RefuseCooldown, RefuseQuota, AllowIssue, LoseIssue,
    SmsAccepted, SmsFailed, DiscardRead, DiscardWrite, VerifyRead, VerifyDrop, VerifyAnswer,
    VerifyReplyLost, VerifyLose, table, history
<1>2. ASSUME NEW p \in Requests, StartIssue(p) \/ StartVerify(p) \/ Crash(p)
      PROVE  UNCHANGED <<quota, issued>>
  BY <1>2 DEF StartIssue, StartVerify, Crash, table, history
<1>. QED
  BY <1>1, <1>2 DEF Next, Tick, Replicate, SweepOtp, SweepQuota, table, history

IssueInv == TypeOK /\ CopiesAgree /\ ReadsAllow /\ QuotaComplete

\* When the conditions of the transaction hold, what the request decided from
\* its two reads is what it would decide from the items as they are stored.
LEMMA ReadsCurrent ==
    ASSUME IssueInv, NEW p \in Requests, CommitIssue(p)
    PROVE  /\ req[p].quota = quota /\ ~CapReached(quota.sends, req[p].now)
           /\ ~Cooling(otp, req[p].now)
<1>1. req[p].pc = "i_write" /\ QuotaUnchanged(p) /\ ChallengeUnchanged(p)
  BY DEF CommitIssue
<1>2. req[p].quota = quota
  BY <1>1 DEF IssueInv, ReadsAllow, QuotaUnchanged
<1>3. ~CapReached(quota.sends, req[p].now) /\ ~Cooling(req[p].chal, req[p].now)
  BY <1>1, <1>2 DEF IssueInv, ReadsAllow
<1>4. otp = None <=> req[p].chal = None
  BY <1>1 DEF ChallengeUnchanged, SameChallenge
<1>5. ASSUME otp # None PROVE Kin(otp, req[p].chal)
  BY <1>1, <1>4, <1>5 DEF ChallengeUnchanged, SameChallenge, IssueInv, CopiesAgree, Copies, Kin
<1>. QED
  BY <1>2, <1>3, <1>4, <1>5 DEF Cooling, Kin

\* A request about to write has read items that allowed the issue.
LEMMA ReadsAllowStep ==
    ASSUME "quota" \notin Sweeps, IssueInv, [Next]_vars
    PROVE  ReadsAllow'
<1>. SUFFICES ASSUME NEW q \in Requests
              PROVE /\ req'[q].pc \in {"i_chal", "i_write"} =>
                         /\ req'[q].quota.version <= quota'.version
                         /\ req'[q].quota.version = quota'.version => req'[q].quota = quota'
                    /\ req'[q].pc = "i_write" =>
                         /\ ~Cooling(req'[q].chal, req'[q].now)
                         /\ ~CapReached(req'[q].quota.sends, req'[q].now)
  BY DEF ReadsAllow
<1>0. /\ TypeOK /\ quota.version \in Nat /\ req \in [Requests -> Locals]
      /\ \A p \in Requests : req[p].quota.version \in Nat
  BY TypeOKByRequest DEF IssueInv, Quota, Locals
<1>1. CASE \A p \in Requests : ~CommitIssue(p)
  <2>1. quota' = quota
    BY <1>1, QuotaMoves
  <2>. QED
    BY <1>0, <2>1, LocalsMove DEF IssueInv, ReadsAllow, Justified
<1>2. ASSUME NEW p \in Requests, CommitIssue(p)
      PROVE /\ req'[q].pc \in {"i_chal", "i_write"} =>
                 /\ req'[q].quota.version <= quota'.version
                 /\ req'[q].quota.version = quota'.version => req'[q].quota = quota'
            /\ req'[q].pc = "i_write" =>
                 /\ ~Cooling(req'[q].chal, req'[q].now)
                 /\ ~CapReached(req'[q].quota.sends, req'[q].now)
  <2>1. PICK i \in Ids \ IssuedIds, k \in Codes : Committed(p, i, k)
    BY <1>2, CommitEffect
  <2>2. quota'.version = quota.version + 1
    BY <1>2, <2>1, ReadsCurrent DEF Committed
  <2>3. [Blank EXCEPT !.pc = "send", !.mine = i].pc = "send"
    BY DEF Blank
  <2>4. req'[q] = IF q = p THEN [Blank EXCEPT !.pc = "send", !.mine = i] ELSE req[q]
    BY <1>0, <2>1 DEF Committed, Set
  <2>. QED
    BY <1>0, <2>2, <2>3, <2>4 DEF IssueInv, ReadsAllow
<1>. QED
  BY <1>1, <1>2

\* The quota item keeps every send that can still count against the cap.
LEMMA QuotaCompleteStep ==
    ASSUME "quota" \notin Sweeps, IssueInv, [Next]_vars
    PROVE  QuotaComplete'
<1>1. CASE \A p \in Requests : ~CommitIssue(p)
  BY <1>1, QuotaMoves DEF IssueInv, QuotaComplete
<1>2. ASSUME NEW p \in Requests, CommitIssue(p) PROVE QuotaComplete'
  <2>. DEFINE now == req[p].now
              recent == RecentSends(quota.sends, now)
  <2>1. PICK i \in Ids \ IssuedIds, k \in Codes : Committed(p, i, k)
    BY <1>2, CommitEffect
  <2>. DEFINE send == [id |-> i, at |-> now]
  <2>2. quota'.sends = recent \cup {send} /\ issued' = issued \cup {send}
    BY <1>2, <2>1, ReadsCurrent DEF Committed
  <2>3. recent \subseteq quota.sends /\ IsFiniteSet(quota.sends)
    BY DEF RecentSends, IssueInv, QuotaComplete
  <2>4. IsFiniteSet(recent) /\ Cardinality(recent) \in Nat
    BY <2>3, FS_Subset, FS_CardinalityType
  <2>5. Cardinality(recent) < MAX_SENDS
    BY <1>2, <2>4, ReadsCurrent, PolicyAssumption DEF CapReached
  <2>6. IsFiniteSet(quota'.sends) /\ Cardinality(quota'.sends) <= MAX_SENDS
    <3>1. /\ IsFiniteSet(recent \cup {send})
          /\ Cardinality(recent \cup {send})
               = IF send \in recent THEN Cardinality(recent) ELSE Cardinality(recent) + 1
      BY <2>4, FS_AddElement
    <3>. HIDE DEF recent, send
    <3>2. Cardinality(recent \cup {send}) <= MAX_SENDS
      BY <2>4, <2>5, <3>1, PolicyAssumption
    <3>. QED
      BY <2>2, <3>1, <3>2
  <2>7. now \in Nat /\ quota.sends \in SUBSET Send /\ issued \subseteq Send
    BY TypeOKByRequest DEF IssueInv, Locals, Quota
  <2>8. ASSUME NEW t \in issued', \A s \in issued' : t.at >= s.at - DAY
        PROVE  t \in quota'.sends
    <3>1. CASE t \in issued
      <4>1. t \in quota.sends
        BY <2>2, <2>8, <3>1 DEF IssueInv, QuotaComplete
      <4>2. send \in issued' /\ send.at = now
        BY <2>2
      <4>3. t.at >= now - DAY
        BY <2>8, <4>2
      <4>. QED
        BY <2>2, <4>1, <4>3 DEF RecentSends
    <3>2. CASE t = send
      BY <2>2, <3>2
    <3>. QED
      BY <2>2, <2>8, <3>1, <3>2
  <2>. QED
    BY <2>6, <2>8 DEF QuotaComplete
<1>. QED
  BY <1>1, <1>2

\* Nothing is issued at the start.
LEMMA IssueInvInit == Init => IssueInv
<1>. SUFFICES ASSUME Init PROVE IssueInv
  OBVIOUS
<1>1. TypeOK /\ CopiesAgree
  BY GuessInvInit DEF GuessInv
<1>2. ReadsAllow
  BY DEF Init, ReadsAllow, Blank
<1>3. QuotaComplete
  <2>1. quota.sends = {} /\ issued = {}
    BY DEF Init, NoQuota
  <2>. QED
    BY <2>1, FS_EmptySet, PolicyAssumption DEF QuotaComplete
<1>. QED
  BY <1>1, <1>2, <1>3 DEF IssueInv

\* Every step keeps the invariant of issue_otp while the quota item is kept.
LEMMA IssueInvStep == "quota" \notin Sweeps /\ IssueInv /\ [Next]_vars => IssueInv'
BY TypeOKStep, CopiesAgreeStep, ReadsAllowStep, QuotaCompleteStep DEF IssueInv

\* The daily cap of issue_otp holds for any number of concurrent requests, with
\* the "now" each of them started with, as long as the quota item is kept.
THEOREM DailyCapHolds ==
    ASSUME "quota" \notin Sweeps
    PROVE  Spec => []DailyCap
<1>1. IssueInv => DailyCap
  <2>. SUFFICES ASSUME IssueInv PROVE DailyCap
    OBVIOUS
  <2>. DEFINE window == {t \in issued : \A s \in issued : t.at >= s.at - DAY}
  <2>1. window \subseteq quota.sends /\ IsFiniteSet(quota.sends)
        /\ Cardinality(quota.sends) <= MAX_SENDS
    BY DEF IssueInv, QuotaComplete
  <2>. HIDE DEF window
  <2>2. Cardinality(window) <= Cardinality(quota.sends) /\ Cardinality(window) \in Nat
        /\ Cardinality(quota.sends) \in Nat
    BY <2>1, FS_Subset, FS_CardinalityType
  <2>3. Cardinality(window) <= MAX_SENDS
    BY <2>1, <2>2, PolicyAssumption
  <2>. QED
    BY <2>3 DEF DailyCap, window
<1>2. IssueInv /\ [Next]_vars => IssueInv'
  BY IssueInvStep
<1>. QED
  BY <1>1, <1>2, IssueInvInit, PTL DEF Spec

-----------------------------------------------------------------------------
(* The flow implements the atomic store.                                     *)

RefineInv == GuessInv /\ IssueInv /\ TimesOK

\* The seconds that requests and items carry stay within the clock's range.
LEMMA TimesOKStep == TypeOK /\ TimesOK /\ [Next]_vars => TimesOK'
<1>. SUFFICES ASSUME TypeOK, TimesOK, [Next]_vars PROVE TimesOK'
  OBVIOUS
<1>1. clock' = clock \/ (clock < MAX_CLOCK /\ clock' = clock + 1)
  <2>1. ASSUME NEW p \in Requests, Step(p) PROVE clock' = clock
    BY <2>1 DEF Step, ReadQuota, RefuseCooldown, RefuseQuota, AllowIssue, CommitIssue, LoseIssue,
      SmsAccepted, SmsFailed, DiscardRead, DiscardWrite, VerifyRead, VerifyDrop, VerifyAnswer,
      VerifyReplyLost, VerifyLose
  <2>2. ASSUME NEW p \in Requests, StartIssue(p) \/ StartVerify(p) \/ Crash(p)
        PROVE  clock' = clock
    BY <2>2 DEF StartIssue, StartVerify, Crash
  <2>. QED
    BY <2>1, <2>2 DEF Next, Tick, Replicate, SweepOtp, SweepQuota, vars
<1>2. clock' \in 0 .. MAX_CLOCK
  BY <1>1, PolicyAssumption DEF TimesOK
<1>3. \A q \in Requests : req'[q].now \in 0 .. MAX_CLOCK
  BY LocalsMove, PolicyAssumption DEF TimesOK, Justified
<1>. QED
  BY <1>2, <1>3 DEF TimesOK

\* A request whose condition on the stored challenge holds has that challenge.
LEMMA ChallengeCurrent ==
    ASSUME TypeOK, CopiesAgree, NEW p \in Requests, req[p].pc = "v_write",
           SameChallenge(otp, req[p].chal)
    PROVE  otp = req[p].chal /\ otp \in Challenge /\ otp # None
<1>1. otp \in Challenge /\ req[p].chal \in Challenge /\ otp # None
  BY NoneAssumption DEF TypeOK, SameChallenge
<1>2. otp.id = req[p].chal.id /\ otp.attempts = req[p].chal.attempts
  BY DEF SameChallenge
<1>3. Kin(otp, req[p].chal)
  BY <1>1, <1>2, NoneAssumption DEF CopiesAgree, Copies, Kin
<1>. QED
  BY <1>1, <1>2, <1>3 DEF Kin, Challenge

\* The contract's FiniteSets is this module's.
LEMMA SameCardinality == \A S : Contract!Cardinality(S) = Cardinality(S)
BY DEF Contract!Cardinality, Cardinality

\* Each step of the flow is an operation of the contract, or changes nothing in it.
LEMMA ContractStep ==
    ASSUME "quota" \notin Sweeps, RefineInv, [Next]_vars
    PROVE  [Contract!Next]_(Contract!vars)
<1>0. TypeOK /\ CopiesAgree /\ TimesOK /\ IssueInv /\ GuessesCounted
  BY DEF RefineInv, GuessInv
<1>1. ASSUME NEW p \in Requests, CommitIssue(p) PROVE Contract!Next
  <2>. DEFINE now == req[p].now
  <2>1. PICK i \in Ids \ IssuedIds, k \in Codes : Committed(p, i, k)
    BY <1>1, CommitEffect
  <2>2. req[p].quota = quota /\ ~CapReached(quota.sends, now) /\ ~Cooling(otp, now)
    BY <1>0, <1>1, ReadsCurrent
  <2>3. RecentSends(quota.sends, now) = Contract!Recent(now)
    BY DEF RecentSends, Contract!Recent
  <2>4. now \in Nat /\ now \in 0 .. MAX_CLOCK /\ otp \in Challenge \cup {None}
    BY <1>0, TypeOKByRequest DEF TimesOK, Locals
  <2>5. IsFiniteSet(RecentSends(quota.sends, now))
    BY <1>0, FS_Subset DEF IssueInv, QuotaComplete, RecentSends
  <2>6. Cardinality(RecentSends(quota.sends, now)) \in Nat
    BY <2>5, FS_CardinalityType
  <2>7. Cardinality(Contract!Recent(now)) < MAX_SENDS
    BY <2>2, <2>3, <2>6, PolicyAssumption DEF CapReached
  <2>8. ~(otp # None /\ ~Contract!Expired(otp, now) /\ now - otp.created < COOLDOWN)
    BY <2>2, <2>4 DEF Cooling, Contract!Expired, Challenge
  <2>9. Contract!Allowed(now)
    BY <2>7, <2>8, SameCardinality DEF Contract!Allowed
  <2>10. UNCHANGED <<tried, verified>>
    BY <1>1 DEF CommitIssue
  <2>11. quota'.sends = Contract!Recent(now) \cup {[id |-> i, at |-> now]}
    BY <2>1, <2>2, <2>3 DEF Committed
  <2>12. Contract!Issue(now)
    BY <2>1, <2>9, <2>10, <2>11 DEF Contract!Issue, Committed, IssuedIds
  <2>. QED
    BY <2>4, <2>12 DEF Contract!Next
<1>2. ASSUME NEW p \in Requests, VerifyAnswer(p) \/ VerifyReplyLost(p)
      PROVE  /\ otp = req[p].chal /\ otp \in Challenge
             /\ Contract!Swap(req[p].now, req[p].guess)
             /\ req[p].now \in 0 .. MAX_CLOCK /\ req[p].guess \in Codes
  <2>1. req[p].pc = "v_write" /\ SameChallenge(otp, req[p].chal)
        /\ otp' = Replacement(req[p].chal, req[p].guess) /\ UNCHANGED <<quota, issued>>
    BY <1>2 DEF VerifyAnswer, VerifyReplyLost, history
  <2>2. otp = req[p].chal /\ otp \in Challenge /\ otp # None
    BY <1>0, <2>1, ChallengeCurrent
  <2>3. ~Spent(otp, req[p].now) /\ otp.attempts \in Nat
    BY <1>0, <2>1, <2>2 DEF GuessesCounted, Challenge
  <2>4. ~Contract!Expired(otp, req[p].now) /\ otp.attempts < MAX_ATTEMPTS
    BY <2>3, PolicyAssumption DEF Spent, Contract!Expired
  <2>5. Contract!Swap(req[p].now, req[p].guess)
    BY <2>1, <2>2, <2>4 DEF Contract!Swap, Replacement
  <2>. QED
    BY <1>0, <2>1, <2>2, <2>5 DEF TimesOK, TypeOK, Verifying
<1>3. ASSUME NEW p \in Requests, VerifyAnswer(p) PROVE Contract!Next
  <2>1. /\ tried' = [tried EXCEPT ![otp.id] = @ + 1]
        /\ verified' = IF req[p].guess = otp.code THEN [verified EXCEPT ![otp.id] = @ + 1]
                       ELSE verified
    BY <1>2, <1>3 DEF VerifyAnswer
  <2>2. verified \in [Ids -> Nat] /\ otp.id \in Ids
    BY <1>0, <1>2, <1>3 DEF TypeOK, Challenge
  <2>3. verified' = [verified EXCEPT ![otp.id] =
                       IF req[p].guess = otp.code THEN @ + 1 ELSE @]
    BY <2>1, <2>2
  <2>4. Contract!Guess(req[p].now, req[p].guess)
    BY <1>2, <1>3, <2>1, <2>3 DEF Contract!Guess
  <2>. QED
    BY <1>2, <1>3, <2>4 DEF Contract!Next
<1>4. ASSUME NEW p \in Requests, VerifyReplyLost(p) PROVE Contract!Next
  <2>1. Contract!GuessUnanswered(req[p].now, req[p].guess)
    BY <1>2, <1>4 DEF VerifyReplyLost, history, Contract!GuessUnanswered
  <2>. QED
    BY <1>2, <1>4, <2>1 DEF Contract!Next
<1>5. CASE \A p \in Requests : ~(CommitIssue(p) \/ VerifyAnswer(p) \/ VerifyReplyLost(p))
  <2>1. UNCHANGED <<tried, verified, quota, issued>> /\ otp' \in {None, otp}
    BY <1>5, HistoryMoves, StoredMoves, QuotaMoves
  <2>2. CASE otp' = otp
    BY <2>1, <2>2 DEF Contract!vars
  <2>3. CASE otp' # otp
    BY <2>1, <2>3 DEF Contract!Next, Contract!Withdraw
  <2>. QED
    BY <2>2, <2>3
<1>. QED
  BY <1>1, <1>3, <1>4, <1>5

\* Whatever the interleaving, the replica lag, the lost replies and the crashes,
\* the DynamoDB flow is the atomic store of OtpContract, whose sends are those
\* of the quota item, as long as that item is kept.
THEOREM FlowImplementsContract ==
    ASSUME "quota" \notin Sweeps
    PROVE  Spec => ImplementsContract
<1>1. Init => RefineInv /\ Contract!Init
  <2>. SUFFICES ASSUME Init PROVE RefineInv /\ Contract!Init
    OBVIOUS
  <2>1. TimesOK
    BY PolicyAssumption DEF Init, TimesOK, Blank
  <2>2. Contract!Init
    BY DEF Init, Contract!Init, NoQuota
  <2>. QED
    BY <2>1, <2>2, GuessInvInit, IssueInvInit DEF RefineInv
<1>2. RefineInv /\ [Next]_vars => RefineInv'
  BY GuessInvStep, IssueInvStep, TimesOKStep DEF RefineInv, GuessInv
<1>3. RefineInv /\ [Next]_vars => [Contract!Next]_(Contract!vars)
  BY ContractStep
<1>. QED
  BY <1>1, <1>2, <1>3, PTL DEF Spec, ImplementsContract, Contract!Spec

\* A valid challenge is replaced by another only after the cooldown, however the
\* requests that issue are interleaved.
THEOREM CooldownHolds ==
    ASSUME "quota" \notin Sweeps
    PROVE  Spec => CooldownRespected
<1>. DEFINE Cooled == (otp # None /\ otp' # None /\ otp'.id # otp.id)
               => (otp'.created >= otp.expires \/ otp'.created - otp.created >= COOLDOWN)
<1>1. ASSUME IssueInv, [Next]_vars PROVE Cooled
  <2>0. TypeOK /\ CopiesAgree
    BY <1>1 DEF IssueInv
  <2>1. ASSUME NEW p \in Requests, CommitIssue(p) PROVE Cooled
    <3>1. PICK i \in Ids \ IssuedIds, k \in Codes : Committed(p, i, k)
      BY <2>1, CommitEffect
    <3>2. otp'.created = req[p].now /\ req[p].now \in Nat
      BY <2>0, <3>1, TypeOKByRequest DEF Committed, Locals
    <3>3. ~Cooling(otp, req[p].now)
      BY <1>1, <2>1, ReadsCurrent
    <3>4. otp # None => otp.created \in Nat /\ otp.expires \in Nat
      BY <2>0 DEF TypeOK, Challenge
    <3>. QED
      BY <3>2, <3>3, <3>4, PolicyAssumption DEF Cooling
  <2>2. CASE \A p \in Requests : ~(CommitIssue(p) \/ VerifyAnswer(p) \/ VerifyReplyLost(p))
    BY <1>1, <2>2, StoredMoves
  <2>3. ASSUME NEW p \in Requests, VerifyAnswer(p) \/ VerifyReplyLost(p)
        PROVE  otp' # None => otp'.id = otp.id
    <3>1. req[p].pc = "v_write" /\ SameChallenge(otp, req[p].chal)
          /\ otp' = Replacement(req[p].chal, req[p].guess)
      BY <2>3 DEF VerifyAnswer, VerifyReplyLost
    <3>2. otp = req[p].chal /\ otp \in Challenge
      BY <2>0, <3>1, ChallengeCurrent
    <3>. QED
      BY <3>1, <3>2, ReplacementKin DEF Kin
  <2>. QED
    BY <2>1, <2>2, <2>3
<1>2. IssueInv /\ [Next]_vars => [Cooled]_vars
  BY <1>1
<1>3. IssueInv /\ [Next]_vars => IssueInv'
  BY IssueInvStep
<1>. QED
  BY <1>2, <1>3, IssueInvInit, PTL DEF Spec, CooldownRespected
=============================================================================
