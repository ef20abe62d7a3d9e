-------------------------- MODULE SubscribersProofs --------------------------
(***************************************************************************)
(* Theorems about Subscribers for any number of IMSIs and MSISDNs and any     *)
(* number of calls that stop half way.                                       *)
(***************************************************************************)
EXTENDS Subscribers, TLAPS

\* The calls come one after the other: a single operator, or acs/store/memory.py,
\* whose lock a call holds throughout.
OneWriter == \A v, w \in Writers : v = w

Calls   == [pc : {"idle", "read", "item", "index", "old", "delete", "drop"},
            imsi : Imsis \cup {None}, number : Numbers \cup {None},
            previous : Numbers \cup {None}, old : BOOLEAN]
Lookups == [pc : {"idle", "record"}, imsi : Imsis \cup {None}, found : Imsis \cup {None},
            owner : BOOLEAN]
Shown   == [imsi : Imsis \cup {None}, owner : BOOLEAN]

\* What the locals of a call hold at each of its steps.
CallOK(r) ==
    /\ r \in Calls
    /\ r.pc = "idle" => r = Idle
    /\ r.pc # "idle" => r.imsi \in Imsis
    /\ r.pc \in {"read", "item", "index"} => r.number \in Numbers
    /\ r.pc \in {"delete", "drop"} => r.number = None
    /\ r.pc \in {"read", "delete"} => r.previous = None
    /\ r.pc = "old" => r.previous \in Numbers /\ r.previous # r.number

Types ==
    /\ item \in [Imsis -> Numbers \cup {None}]
    /\ index \in [Numbers -> Imsis \cup {None}]
    /\ pastItem \in [Imsis -> SUBSET (Numbers \cup {None})]
    /\ pastIndex \in [Numbers -> SUBSET Shown]
    /\ torn \subseteq scarred /\ scarred \subseteq Imsis
    /\ lookup \in Lookups
    /\ lookup.pc = "record" => lookup.imsi \in Imsis
    /\ lookup.found \in {None, lookup.imsi}
    /\ writer \in [Writers -> Calls]
    /\ \A w \in Writers : CallOK(writer[w])

\* A call holds the number it read until it writes the item, unless what it read was
\* outdated, and has written the one it was given from there on.
ReadsItem ==
    \A w \in Writers : LET r == writer[w] IN
        /\ r.old => r.imsi \in scarred
        /\ r.pc \in {"item", "drop"} => r.old \/ item[r.imsi] = r.previous
        /\ r.pc \in {"index", "old"} => item[r.imsi] = r.number

\* The subscriber that a lookup holds was the number's when its entry was stored.
LookupSound == lookup.imsi # None => lookup.owner \/ lookup.imsi \in scarred

\* So is the one that a replica still shows for the number.
PastSound ==
    \A n \in Numbers : \A entry \in pastIndex[n] :
        entry.imsi # None => entry.owner \/ entry.imsi \in scarred

IndexInv == Types /\ ReadsItem /\ IndexSound /\ LookupSound /\ PastSound

\* What IndexSound says of the entries.
EntriesSound ==
    \A n \in Numbers : index[n] # None => Holds(index[n], n) \/ index[n] \in scarred

\* A number that a subscriber has, or that a call gives to it, or takes from it and did
\* not read in an outdated record, is no other subscriber's.
NumbersApart ==
    /\ \A i, j \in Imsis : item[i] = item[j] /\ item[i] # None => i = j
    /\ \A w \in Writers, j \in Imsis :
          j # writer[w].imsi /\ item[j] # None =>
             item[j] # writer[w].number /\ (writer[w].old \/ item[j] # writer[w].previous)

\* The number of a subscriber that no call is about, and whose last call ended, leads
\* to it, unless its entry was lost; so does the number a call is moving it to, once the
\* entry is written.
EntryRight ==
    /\ \A i \in Imsis : Settled(i) /\ item[i] \notin lost => index[item[i]] = i
    /\ \A w \in Writers : writer[w].pc = "old" /\ writer[w].number # None
          => index[writer[w].number] = writer[w].imsi

FoundInv == Types /\ ReadsItem /\ NumbersApart /\ EntryRight

-----------------------------------------------------------------------------
(* Types.                                                                    *)

LEMMA IdleOK == CallOK(Idle)
BY SubscribersAssumption DEF CallOK, Idle, Calls

\* A step that replaces the locals of one call by right ones keeps them right.
LEMMA SetOK ==
    ASSUME Types, NEW w \in Writers, NEW r, CallOK(r), Set(w, r)
    PROVE  /\ writer' \in [Writers -> Calls] /\ writer'[w] = r
           /\ \A v \in Writers : CallOK(writer'[v])
BY DEF Types, Set, CallOK

\* What each step of a call writes, and that its locals stay right.
LEMMA CallSteps ==
    ASSUME Types, NEW w \in Writers
    PROVE  /\ \A i \in Imsis, n \in Numbers : CallOK([Idle EXCEPT !.pc = "read", !.imsi = i, !.number = n])
           /\ \A i \in Imsis : CallOK([Idle EXCEPT !.pc = "delete", !.imsi = i])
           /\ writer[w].pc = "read" =>
                 \A n \in Records(writer[w].imsi), b \in BOOLEAN :
                    CallOK([writer[w] EXCEPT !.pc = "item", !.previous = n, !.old = b])
           /\ writer[w].pc = "item" => CallOK([writer[w] EXCEPT !.pc = "index"])
           /\ writer[w].pc = "index" /\ Moves(w) => CallOK([writer[w] EXCEPT !.pc = "old"])
           /\ writer[w].pc = "delete" =>
                 \A n \in Records(writer[w].imsi), b \in BOOLEAN :
                    CallOK([writer[w] EXCEPT !.pc = "drop", !.previous = n, !.old = b])
           /\ writer[w].pc = "drop" /\ writer[w].previous # None =>
                 CallOK([writer[w] EXCEPT !.pc = "old"])
<1>. DEFINE r == writer[w]
<1>0. /\ CallOK(r) /\ r \in Calls /\ item \in [Imsis -> Numbers \cup {None}]
      /\ pastItem \in [Imsis -> SUBSET (Numbers \cup {None})]
  BY DEF Types, CallOK
<1>1. r.pc # "idle" => r.imsi \in Imsis /\ Records(r.imsi) \subseteq Numbers \cup {None}
  BY <1>0 DEF CallOK, Records
<1>. HIDE DEF r
<1>2. \A i \in Imsis, n \in Numbers : CallOK([Idle EXCEPT !.pc = "read", !.imsi = i, !.number = n])
  BY DEF CallOK, Idle, Calls
<1>3. \A i \in Imsis : CallOK([Idle EXCEPT !.pc = "delete", !.imsi = i])
  BY DEF CallOK, Idle, Calls
<1>4. r.pc = "read" => \A n \in Records(r.imsi), b \in BOOLEAN :
         CallOK([r EXCEPT !.pc = "item", !.previous = n, !.old = b])
  BY <1>0, <1>1 DEF CallOK, Calls
<1>5. r.pc = "item" => CallOK([r EXCEPT !.pc = "index"])
  BY <1>0, <1>1 DEF CallOK, Calls
<1>6. r.pc = "index" /\ r.previous \notin {None, r.number} => CallOK([r EXCEPT !.pc = "old"])
  BY <1>0, <1>1 DEF CallOK, Calls
<1>7. r.pc = "delete" => \A n \in Records(r.imsi), b \in BOOLEAN :
         CallOK([r EXCEPT !.pc = "drop", !.previous = n, !.old = b])
  BY <1>0, <1>1 DEF CallOK, Calls
<1>8. r.pc = "drop" /\ r.previous # None => CallOK([r EXCEPT !.pc = "old"])
  BY <1>0, <1>1, SubscribersAssumption DEF CallOK, Calls
<1>. QED
  BY <1>2, <1>3, <1>4, <1>5, <1>6, <1>7, <1>8 DEF r, Moves

\* A write keeps the shape of what it writes, and of what the replicas may show.
LEMMA WriteTypes ==
    ASSUME Types
    PROVE  /\ \A i \in Imsis, n \in Numbers \cup {None} : WriteItem(i, n) =>
                 /\ item' \in [Imsis -> Numbers \cup {None}]
                 /\ pastItem' \in [Imsis -> SUBSET (Numbers \cup {None})]
           /\ \A n \in Numbers, i \in Imsis \cup {None} : WriteIndex(n, i) =>
                 /\ index' \in [Numbers -> Imsis \cup {None}]
                 /\ pastIndex' \in [Numbers -> SUBSET Shown]
<1>0. /\ item \in [Imsis -> Numbers \cup {None}] /\ index \in [Numbers -> Imsis \cup {None}]
      /\ pastItem \in [Imsis -> SUBSET (Numbers \cup {None})]
      /\ pastIndex \in [Numbers -> SUBSET Shown]
  BY DEF Types
<1>1. ASSUME NEW i \in Imsis, NEW n \in Numbers \cup {None}, WriteItem(i, n)
      PROVE  /\ item' \in [Imsis -> Numbers \cup {None}]
             /\ pastItem' \in [Imsis -> SUBSET (Numbers \cup {None})]
  BY <1>0, <1>1 DEF WriteItem
<1>2. ASSUME NEW n \in Numbers, NEW i \in Imsis \cup {None}, WriteIndex(n, i)
      PROVE  /\ index' \in [Numbers -> Imsis \cup {None}]
             /\ pastIndex' \in [Numbers -> SUBSET Shown]
  <2>1. Entry(n) \in Shown
    BY <1>0 DEF Entry, Shown, Holds, Moving
  <2>. QED
    BY <1>0, <1>2, <2>1 DEF WriteIndex
<1>. QED
  BY <1>1, <1>2

\* Every step keeps the types, whatever the number of calls that overlap.
LEMMA TypesStep == Types /\ [Next]_vars => Types'
<1>. SUFFICES ASSUME Types, [Next]_vars PROVE Types'
  OBVIOUS
<1>0. /\ item \in [Imsis -> Numbers \cup {None}] /\ index \in [Numbers -> Imsis \cup {None}]
      /\ pastItem \in [Imsis -> SUBSET (Numbers \cup {None})]
      /\ pastIndex \in [Numbers -> SUBSET Shown]
      /\ torn \subseteq scarred /\ scarred \subseteq Imsis
      /\ \A w \in Writers : CallOK(writer[w])
  BY DEF Types
<1>1. ASSUME NEW w \in Writers, NEW r, CallOK(r), Set(w, r), UNCHANGED lookup,
             item' \in [Imsis -> Numbers \cup {None}], index' \in [Numbers -> Imsis \cup {None}],
             pastItem' \in [Imsis -> SUBSET (Numbers \cup {None})],
             pastIndex' \in [Numbers -> SUBSET Shown],
             torn' \subseteq scarred', scarred' \subseteq Imsis
      PROVE  Types'
  BY <1>1, SetOK DEF Types
<1>2. ASSUME NEW w \in Writers, StartPut(w) \/ StartDelete(w) PROVE Types'
  BY <1>0, <1>1, <1>2, CallSteps DEF StartPut, StartDelete, past, traces
<1>3. ASSUME NEW w \in Writers, ReadPrevious(w) \/ ReadForDelete(w) PROVE Types'
  <2>1. torn' \subseteq scarred' /\ scarred' \subseteq Imsis
    BY <1>0, <1>3 DEF ReadPrevious, ReadForDelete, ReadRecord, CallOK
  <2>2. CASE ReadPrevious(w)
    <3>1. PICK n \in Records(writer[w].imsi) :
             Set(w, [writer[w] EXCEPT !.pc = "item", !.previous = n,
                                      !.old = n # item[writer[w].imsi]])
      BY <2>2 DEF ReadPrevious, ReadRecord
    <3>2. CallOK([writer[w] EXCEPT !.pc = "item", !.previous = n, !.old = n # item[writer[w].imsi]])
      BY <2>2, CallSteps DEF ReadPrevious
    <3>. QED
      BY <1>0, <1>1, <2>1, <2>2, <3>1, <3>2 DEF ReadPrevious, past
  <2>3. CASE ReadForDelete(w)
    <3>1. PICK n \in Records(writer[w].imsi) :
             Set(w, [writer[w] EXCEPT !.pc = "drop", !.previous = n,
                                      !.old = n # item[writer[w].imsi]])
      BY <2>3 DEF ReadForDelete, ReadRecord
    <3>2. CallOK([writer[w] EXCEPT !.pc = "drop", !.previous = n, !.old = n # item[writer[w].imsi]])
      BY <2>3, CallSteps DEF ReadForDelete
    <3>. QED
      BY <1>0, <1>1, <2>1, <2>3, <3>1, <3>2 DEF ReadForDelete, past
  <2>. QED
    BY <1>3, <2>2, <2>3
<1>4. ASSUME NEW w \in Writers, PutItem(w) PROVE Types'
  <2>1. /\ item' \in [Imsis -> Numbers \cup {None}]
        /\ pastItem' \in [Imsis -> SUBSET (Numbers \cup {None})]
    BY <1>0, <1>4, WriteTypes DEF PutItem, CallOK
  <2>. QED
    BY <1>0, <1>1, <1>4, <2>1, CallSteps DEF PutItem, traces
<1>5. ASSUME NEW w \in Writers, PutIndex(w) PROVE Types'
  <2>1. writer[w].imsi \in Imsis /\ writer[w].number \in Numbers
    BY <1>0, <1>5 DEF PutIndex, CallOK
  <2>2. /\ index' \in [Numbers -> Imsis \cup {None}] /\ pastIndex' \in [Numbers -> SUBSET Shown]
    BY <1>5, <2>1, WriteTypes DEF PutIndex
  <2>3. torn' \subseteq scarred'
    BY <1>0, <1>5 DEF PutIndex
  <2>. QED
    BY <1>0, <1>1, <1>5, <2>2, <2>3, CallSteps, IdleOK DEF PutIndex
<1>6. ASSUME NEW w \in Writers, DropOld(w) PROVE Types'
  <2>1. writer[w].previous \in Numbers
    BY <1>0, <1>6 DEF DropOld, CallOK
  <2>2. /\ index' \in [Numbers -> Imsis \cup {None}] /\ pastIndex' \in [Numbers -> SUBSET Shown]
        /\ torn' \subseteq scarred'
    BY <1>0, <1>6, <2>1, WriteTypes DEF DropOld
  <2>. QED
    BY <1>0, <1>1, <1>6, <2>2, IdleOK DEF DropOld
<1>8. ASSUME NEW w \in Writers, DropItem(w) PROVE Types'
  <2>1. /\ item' \in [Imsis -> Numbers \cup {None}]
        /\ pastItem' \in [Imsis -> SUBSET (Numbers \cup {None})]
    BY <1>0, <1>8, WriteTypes DEF DropItem, CallOK
  <2>. QED
    BY <1>0, <1>1, <1>8, <2>1, CallSteps, IdleOK DEF DropItem, traces
<1>9. ASSUME NEW w \in Writers, Crash(w) PROVE Types'
  <2>1. torn' \subseteq scarred' /\ scarred' \subseteq Imsis
    BY <1>0, <1>9 DEF Crash, CallOK
  <2>. QED
    BY <1>0, <1>1, <1>9, <2>1, IdleOK DEF Crash, past
<1>10. ASSUME UNCHANGED <<item, index, past, writer, torn, scarred>>,
              lookup' \in Lookups, lookup'.pc = "record" => lookup'.imsi \in Imsis,
              lookup'.found \in {None, lookup'.imsi}
       PROVE  Types'
  BY <1>10 DEF Types, past
<1>11. CASE LookupIndex
  <2>0. PICK n \in Numbers : \E entry \in Entries(n) :
          lookup' = IF entry.imsi = None THEN NoLookup
                    ELSE [NoLookup EXCEPT !.pc = "record", !.imsi = entry.imsi, !.owner = entry.owner]
    BY <1>11 DEF LookupIndex
  <2>1. PICK entry \in Entries(n) :
          lookup' = IF entry.imsi = None THEN NoLookup
                    ELSE [NoLookup EXCEPT !.pc = "record", !.imsi = entry.imsi, !.owner = entry.owner]
    BY <2>0
  <2>2. entry \in Shown
    <3>1. Entry(n) \in Shown
      BY <1>0 DEF Entry, Shown, Holds, Moving
    <3>. QED
      BY <1>0, <2>1, <3>1 DEF Entries
  <2>3. /\ lookup' \in Lookups
        /\ lookup'.pc = "record" => lookup'.imsi \in Imsis
        /\ lookup'.found \in {None, lookup'.imsi}
    BY <2>1, <2>2 DEF NoLookup, Lookups, Shown
  <2>. QED
    BY <1>10, <1>11, <2>3 DEF LookupIndex, traces
<1>12. CASE LookupRecord
  <2>1. lookup \in Lookups /\ lookup.pc = "record" /\ lookup.imsi \in Imsis
    BY <1>12 DEF LookupRecord, Types
  <2>2. /\ lookup' \in Lookups
        /\ lookup'.pc = "record" => lookup'.imsi \in Imsis
        /\ lookup'.found \in {None, lookup'.imsi}
    <3>1. CASE lookup' = NoLookup
      BY <3>1 DEF Lookups, NoLookup
    <3>2. CASE lookup' = [lookup EXCEPT !.pc = "idle", !.found = lookup.imsi]
      BY <2>1, <3>2 DEF Lookups
    <3>. QED
      BY <1>12, <3>1, <3>2 DEF LookupRecord
  <2>. QED
    BY <1>10, <1>12, <2>2 DEF LookupRecord, traces
<1>13. CASE UNCHANGED vars
  BY <1>13 DEF vars, past, traces, Types
<1>. QED
  BY <1>2, <1>3, <1>4, <1>5, <1>6, <1>8, <1>9, <1>11, <1>12, <1>13 DEF Next

LEMMA TypesInit == Init => Types /\ ReadsItem
<1>. SUFFICES ASSUME Init PROVE Types /\ ReadsItem
  OBVIOUS
<1>1. item \in [Imsis -> Numbers \cup {None}] /\ index \in [Numbers -> Imsis \cup {None}]
  BY DEF Init
<1>6. pastItem \in [Imsis -> SUBSET (Numbers \cup {None})] /\ pastIndex \in [Numbers -> SUBSET Shown]
  BY DEF Init
<1>2. \A w \in Writers : writer[w] = Idle /\ CallOK(writer[w])
  BY IdleOK DEF Init
<1>3. writer \in [Writers -> Calls]
  BY IdleOK DEF Init, CallOK
<1>4. NoLookup \in Lookups /\ NoLookup.pc = "idle" /\ NoLookup.found = None
  BY DEF NoLookup, Lookups
<1>5. Types
  BY <1>1, <1>2, <1>3, <1>4, <1>6 DEF Init, Types
<1>7. ReadsItem
  BY <1>2 DEF ReadsItem, Idle
<1>. QED
  BY <1>5, <1>7

-----------------------------------------------------------------------------
(* One call at a time.                                                       *)

\* Before and after a step, what is said of some call is said of the only one.
LEMMA OneCall ==
    ASSUME OneWriter, NEW w \in Writers
    PROVE  /\ \A i : Busy(i) <=> writer[w].imsi = i
           /\ \A i : Busy(i)' <=> writer'[w].imsi = i
           /\ \A i, n : Holds(i, n) <=>
                 item[i] = n \/ (writer[w].imsi = i /\ n \in {writer[w].number, writer[w].previous})
           /\ \A i, n : Holds(i, n)' <=>
                 item'[i] = n \/ (writer'[w].imsi = i /\ n \in {writer'[w].number, writer'[w].previous})
<1>1. \A v \in Writers : v = w
  BY DEF OneWriter
<1>. QED
  BY <1>1 DEF Busy, Holds, Moving

\* The locals of a call with another step to take.
After(r, pc, previous, old) ==
    [pc |-> pc, imsi |-> r.imsi, number |-> r.number, previous |-> previous, old |-> old]

\* The locals after a step replace those before it.
LEMMA SetEffect ==
    ASSUME Types, NEW w \in Writers, NEW t, Set(w, t)
    PROVE  writer'[w] = t
BY DEF Types, Set

LEMMA StartPutEffect ==
    ASSUME Types, NEW w \in Writers, StartPut(w)
    PROVE  \E i \in Imsis, n \in Numbers :
              /\ Exclusive => \A j \in Imsis \ {i} : ~Holds(j, n)
              /\ writer'[w] = [pc |-> "read", imsi |-> i, number |-> n, previous |-> None, old |-> FALSE]
<1>1. PICK i \in Imsis, n \in Numbers :
         /\ Exclusive => \A j \in Imsis \ {i} : ~Holds(j, n)
         /\ Set(w, [Idle EXCEPT !.pc = "read", !.imsi = i, !.number = n])
  BY DEF StartPut
<1>2. writer'[w] = [Idle EXCEPT !.pc = "read", !.imsi = i, !.number = n]
  BY <1>1, SetEffect
<1>. QED
  BY <1>1, <1>2 DEF Idle

LEMMA StartDeleteEffect ==
    ASSUME Types, NEW w \in Writers, StartDelete(w)
    PROVE  \E i \in Imsis :
              writer'[w] = [pc |-> "delete", imsi |-> i, number |-> None, previous |-> None, old |-> FALSE]
BY SetEffect DEF StartDelete, Idle

LEMMA ReadEffect ==
    ASSUME Types, NEW w \in Writers, ReadPrevious(w) \/ ReadForDelete(w)
    PROVE  \E pc \in {"item", "drop"}, n \in Numbers \cup {None} :
              /\ writer'[w] = After(writer[w], pc, n, n # item[writer[w].imsi])
              /\ scarred' = IF n # item[writer[w].imsi] THEN scarred \cup {writer[w].imsi}
                            ELSE scarred
<1>0. /\ CallOK(writer[w]) /\ writer[w] \in Calls /\ item \in [Imsis -> Numbers \cup {None}]
      /\ pastItem \in [Imsis -> SUBSET (Numbers \cup {None})]
  BY DEF Types
<1>1. ASSUME NEW pc \in {"item", "drop"}, ReadRecord(w, pc), writer[w].pc # "idle"
      PROVE  \E n \in Numbers \cup {None} :
                /\ writer'[w] = After(writer[w], pc, n, n # item[writer[w].imsi])
                /\ scarred' = IF n # item[writer[w].imsi] THEN scarred \cup {writer[w].imsi}
                              ELSE scarred
  <2>1. PICK n \in Records(writer[w].imsi) :
           /\ Set(w, [writer[w] EXCEPT !.pc = pc, !.previous = n, !.old = n # item[writer[w].imsi]])
           /\ scarred' = IF n # item[writer[w].imsi] THEN scarred \cup {writer[w].imsi} ELSE scarred
    BY <1>1 DEF ReadRecord
  <2>2. writer'[w] = [writer[w] EXCEPT !.pc = pc, !.previous = n, !.old = n # item[writer[w].imsi]]
    BY <2>1, SetEffect
  <2>3. writer'[w] = After(writer[w], pc, n, n # item[writer[w].imsi])
    BY <1>0, <2>2 DEF Calls, After
  <2>4. n \in Numbers \cup {None}
    BY <1>0, <1>1, <2>1 DEF Records, CallOK
  <2>. QED
    BY <2>1, <2>3, <2>4
<1>. QED
  BY <1>1 DEF ReadPrevious, ReadForDelete

LEMMA PutItemEffect ==
    ASSUME Types, NEW w \in Writers, PutItem(w)
    PROVE  writer'[w] = After(writer[w], "index", writer[w].previous, writer[w].old)
<1>0. writer[w] \in Calls
  BY DEF Types
<1>. QED
  BY <1>0, SetEffect DEF PutItem, Calls, After

LEMMA WriteEffect ==
    ASSUME Types, NEW w \in Writers, PutIndex(w) \/ DropItem(w)
    PROVE  /\ \/ writer'[w] = Idle
              \/ writer'[w] = After(writer[w], "old", writer[w].previous, writer[w].old)
           /\ PutIndex(w) /\ Moves(w) => writer'[w] = After(writer[w], "old", writer[w].previous, writer[w].old)
           /\ PutIndex(w) /\ ~Moves(w) => writer'[w] = Idle
           /\ DropItem(w) /\ writer[w].previous # None =>
                 writer'[w] = After(writer[w], "old", writer[w].previous, writer[w].old)
<1>0. writer[w] \in Calls
  BY DEF Types
<1>1. [writer[w] EXCEPT !.pc = "old"] = After(writer[w], "old", writer[w].previous, writer[w].old)
  BY <1>0 DEF Calls, After
<1>2. PutIndex(w) => writer'[w] = IF Moves(w) THEN [writer[w] EXCEPT !.pc = "old"] ELSE Idle
  BY SetEffect DEF PutIndex
<1>3. DropItem(w) => writer'[w] = IF writer[w].previous = None THEN Idle
                                  ELSE [writer[w] EXCEPT !.pc = "old"]
  BY SetEffect DEF DropItem
<1>. QED
  BY <1>1, <1>2, <1>3

LEMMA EndEffect ==
    ASSUME Types, NEW w \in Writers, DropOld(w) \/ Crash(w)
    PROVE  writer'[w] = Idle
BY SetEffect DEF DropOld, Crash

\* The steps of a call.
CallStep(w) ==
    \/ StartPut(w) \/ ReadPrevious(w) \/ PutItem(w) \/ PutIndex(w) \/ DropOld(w)
    \/ StartDelete(w) \/ ReadForDelete(w) \/ DropItem(w) \/ Crash(w)

\* A call that runs alone finds the item as it read or wrote it.
LEMMA ReadsItemStep ==
    ASSUME OneWriter, Types, ReadsItem, NEW w \in Writers, CallStep(w)
    PROVE  ReadsItem'
<1>. DEFINE r == writer[w] s == writer'[w]
<1>0. /\ CallOK(r) /\ item \in [Imsis -> Numbers \cup {None}]
      /\ pastItem \in [Imsis -> SUBSET (Numbers \cup {None})]
      /\ r.old => r.imsi \in scarred
      /\ r.pc \in {"item", "drop"} => r.old \/ item[r.imsi] = r.previous
      /\ r.pc \in {"index", "old"} => item[r.imsi] = r.number
  BY DEF Types, ReadsItem
<1>1. SUFFICES /\ s.old => s.imsi \in scarred'
               /\ s.pc \in {"item", "drop"} => s.old \/ item'[s.imsi] = s.previous
               /\ s.pc \in {"index", "old"} => item'[s.imsi] = s.number
  <2>1. \A v \in Writers : v = w
    BY DEF OneWriter
  <2>. QED
    BY <1>1, <2>1 DEF ReadsItem
<1>2. Idle.pc = "idle" /\ Idle.old = FALSE
  BY DEF Idle
<1>3. CASE StartPut(w) \/ StartDelete(w)
  <2>1. ASSUME StartPut(w) PROVE s.pc = "read" /\ s.old = FALSE
    <3>1. PICK i \in Imsis, n \in Numbers :
             s = [pc |-> "read", imsi |-> i, number |-> n, previous |-> None, old |-> FALSE]
      BY <2>1, StartPutEffect
    <3>. QED
      BY <3>1
  <2>2. ASSUME StartDelete(w) PROVE s.pc = "delete" /\ s.old = FALSE
    <3>1. PICK i \in Imsis :
             s = [pc |-> "delete", imsi |-> i, number |-> None, previous |-> None, old |-> FALSE]
      BY <2>2, StartDeleteEffect
    <3>. QED
      BY <3>1
  <2>. QED
    BY <1>3, <2>1, <2>2
<1>4. CASE ReadPrevious(w) \/ ReadForDelete(w)
  <2>1. PICK pc \in {"item", "drop"}, n \in Numbers \cup {None} :
           /\ s = After(r, pc, n, n # item[r.imsi])
           /\ scarred' = IF n # item[r.imsi] THEN scarred \cup {r.imsi} ELSE scarred
    BY <1>4, ReadEffect
  <2>2. /\ s.pc \in {"item", "drop"} /\ s.imsi = r.imsi /\ s.previous = n
        /\ s.old = (n # item[r.imsi])
    BY <2>1 DEF After
  <2>. QED
    BY <1>4, <2>1, <2>2 DEF ReadPrevious, ReadForDelete
<1>5. CASE PutItem(w)
  <2>1. s.pc = "index" /\ s.imsi = r.imsi /\ s.number = r.number /\ s.old = r.old
    <3>1. s = After(r, "index", r.previous, r.old)
      BY <1>5, PutItemEffect
    <3>. QED
      BY <3>1 DEF After
  <2>2. r.imsi \in Imsis /\ item' = [item EXCEPT ![r.imsi] = r.number]
        /\ UNCHANGED scarred
    BY <1>0, <1>5 DEF PutItem, CallOK, WriteItem, traces
  <2>. QED
    BY <1>0, <2>1, <2>2
<1>6. CASE PutIndex(w)
  <2>1. \/ s.pc = "idle" /\ s.old = FALSE
        \/ s.pc = "old" /\ s.imsi = r.imsi /\ s.number = r.number /\ s.old = r.old
    <3>1. s = Idle \/ s = After(r, "old", r.previous, r.old)
      BY <1>6, WriteEffect
    <3>. QED
      BY <1>2, <3>1 DEF After
  <2>. QED
    BY <1>0, <1>6, <2>1 DEF PutIndex
<1>7. CASE DropItem(w)
  <2>1. \/ s.pc = "idle" /\ s.old = FALSE
        \/ s.pc = "old" /\ s.imsi = r.imsi /\ s.number = r.number /\ s.old = r.old
    <3>1. s = Idle \/ s = After(r, "old", r.previous, r.old)
      BY <1>7, WriteEffect
    <3>. QED
      BY <1>2, <3>1 DEF After
  <2>2. r.number = None /\ r.imsi \in Imsis /\ item' = [item EXCEPT ![r.imsi] = None]
        /\ UNCHANGED scarred
    BY <1>0, <1>7 DEF DropItem, CallOK, WriteItem, traces
  <2>. QED
    BY <1>0, <2>1, <2>2
<1>8. CASE DropOld(w) \/ Crash(w)
  BY <1>0, <1>2, <1>8, EndEffect DEF DropOld, Crash
<1>. QED
  BY <1>3, <1>4, <1>5, <1>6, <1>7, <1>8 DEF CallStep

\* What a lookup holds was sound when it began, and stays so: the IMSIs with a call
\* that stopped half way only grow in number.
LEMMA LookupStep ==
    ASSUME IndexInv, [Next]_vars, Types'
    PROVE  /\ LookupSound'
           /\ lookup'.found # None => lookup'.owner \/ lookup'.found \in scarred'
<1>0. /\ lookup \in Lookups /\ lookup.found \in {None, lookup.imsi}
      /\ lookup' \in Lookups /\ lookup'.found \in {None, lookup'.imsi}
      /\ LookupSound /\ IndexSound /\ PastSound
      /\ index \in [Numbers -> Imsis \cup {None}]
  BY DEF IndexInv, Types
<1>1. SUFFICES LookupSound'
  BY <1>0, <1>1 DEF LookupSound
<1>2. scarred \subseteq scarred'
  BY DEF Next, vars, traces, StartPut, ReadPrevious, PutItem, PutIndex, DropOld, StartDelete,
         ReadForDelete, ReadRecord, DropItem, Crash, LookupIndex, LookupRecord
<1>3. CASE UNCHANGED lookup
  BY <1>0, <1>2, <1>3 DEF LookupSound
<1>4. CASE LookupIndex
  <2>0. PICK n \in Numbers : \E entry \in Entries(n) :
          lookup' = IF entry.imsi = None THEN NoLookup
                    ELSE [NoLookup EXCEPT !.pc = "record", !.imsi = entry.imsi, !.owner = entry.owner]
    BY <1>4 DEF LookupIndex
  <2>1. PICK entry \in Entries(n) :
          lookup' = IF entry.imsi = None THEN NoLookup
                    ELSE [NoLookup EXCEPT !.pc = "record", !.imsi = entry.imsi, !.owner = entry.owner]
    BY <2>0
  <2>2. entry.imsi # None => entry.owner \/ entry.imsi \in scarred
    <3>1. Entry(n).imsi # None => Entry(n).owner \/ Entry(n).imsi \in scarred
      BY <1>0 DEF IndexSound, Entry
    <3>. QED
      BY <1>0, <2>1, <3>1 DEF PastSound, Entries
  <2>3. CASE entry.imsi = None
    BY <2>1, <2>3 DEF NoLookup, LookupSound
  <2>4. CASE entry.imsi # None
    <3>1. lookup'.imsi = entry.imsi /\ lookup'.owner = entry.owner
      BY <2>1, <2>4 DEF NoLookup
    <3>. QED
      BY <1>2, <2>2, <2>4, <3>1 DEF LookupSound
  <2>. QED
    BY <2>3, <2>4
<1>5. CASE LookupRecord
  <2>1. CASE lookup' = NoLookup
    BY <2>1 DEF NoLookup, LookupSound
  <2>2. CASE lookup' = [lookup EXCEPT !.pc = "idle", !.found = lookup.imsi]
    <3>1. lookup'.imsi = lookup.imsi /\ lookup'.owner = lookup.owner
      BY <1>0, <2>2 DEF Lookups
    <3>. QED
      BY <1>0, <1>2, <3>1 DEF LookupSound
  <2>. QED
    BY <1>5, <2>1, <2>2 DEF LookupRecord
<1>6. UNCHANGED lookup \/ LookupIndex \/ LookupRecord
  BY DEF Next, vars, StartPut, ReadPrevious, PutItem, PutIndex, DropOld, StartDelete, ReadForDelete,
         DropItem, Crash
<1>. QED
  BY <1>3, <1>4, <1>5, <1>6

\* What a replica may still show was sound when it was stored, and stays so.
LEMMA PastStep ==
    ASSUME IndexInv, [Next]_vars
    PROVE  PastSound'
<1>0. /\ PastSound /\ IndexSound /\ pastIndex \in [Numbers -> SUBSET Shown]
      /\ index \in [Numbers -> Imsis \cup {None}]
  BY DEF IndexInv, Types
<1>1. scarred \subseteq scarred'
  BY DEF Next, vars, traces, StartPut, ReadPrevious, PutItem, PutIndex, DropOld, StartDelete,
         ReadForDelete, ReadRecord, DropItem, Crash, LookupIndex, LookupRecord
<1>2. CASE UNCHANGED pastIndex
  BY <1>0, <1>1, <1>2 DEF PastSound
<1>3. ASSUME NEW n, NEW i, WriteIndex(n, i) PROVE PastSound'
  <2>1. n \in Numbers => (Entry(n).imsi # None => Entry(n).owner \/ Entry(n).imsi \in scarred)
    BY <1>0 DEF IndexSound, Entry
  <2>2. \A m \in Numbers : pastIndex'[m] \subseteq pastIndex[m] \cup (IF m = n THEN {Entry(n)} ELSE {})
    BY <1>0, <1>3 DEF WriteIndex
  <2>. QED
    BY <1>0, <1>1, <2>1, <2>2 DEF PastSound
<1>4. UNCHANGED pastIndex \/ \E n, i : WriteIndex(n, i)
  BY DEF Next, vars, past, StartPut, ReadPrevious, PutItem, PutIndex, DropOld, StartDelete,
         ReadForDelete, DropItem, Crash, LookupIndex, LookupRecord
<1>. QED
  BY <1>2, <1>3, <1>4

\* A call that runs alone leaves no entry behind for a number that its subscriber has
\* no more, unless it stops half way.
LEMMA EntriesStep ==
    ASSUME OneWriter, IndexInv, NEW w \in Writers, CallStep(w)
    PROVE  EntriesSound'
<1>. DEFINE r == writer[w] s == writer'[w]
            Has(i, n)   == item[i] = n \/ (r.imsi = i /\ n \in {r.number, r.previous})
            HasNow(i, n) == item'[i] = n \/ (s.imsi = i /\ n \in {s.number, s.previous})
            Sound == \A n \in Numbers : index'[n] # None => HasNow(index'[n], n) \/ index'[n] \in scarred'
<1>0. /\ Types /\ CallOK(r)
      /\ item \in [Imsis -> Numbers \cup {None}] /\ index \in [Numbers -> Imsis \cup {None}]
      /\ r.old => r.imsi \in scarred
      /\ r.pc \in {"item", "drop"} => r.old \/ item[r.imsi] = r.previous
      /\ r.pc \in {"index", "old"} => item[r.imsi] = r.number
      /\ None \notin Imsis /\ None \notin Numbers
  BY SubscribersAssumption DEF IndexInv, Types, ReadsItem
<1>1. /\ \A i, n : Holds(i, n) <=> Has(i, n)
      /\ \A i, n : Holds(i, n)' <=> HasNow(i, n)
  BY OneCall
<1>2. \A n \in Numbers : index[n] # None => Has(index[n], n) \/ index[n] \in scarred
  BY <1>1 DEF IndexInv, IndexSound
<1>3. SUFFICES Sound
  BY <1>1, <1>3 DEF EntriesSound
<1>4. Idle.imsi = None /\ Idle.number = None /\ Idle.previous = None
  BY DEF Idle
<1>5. CASE StartPut(w) \/ StartDelete(w)
  <2>1. r.imsi = None /\ r.number = None /\ r.previous = None
    BY <1>0, <1>4, <1>5 DEF StartPut, StartDelete, CallOK
  <2>2. UNCHANGED <<item, index, scarred>>
    BY <1>5 DEF StartPut, StartDelete, traces
  <2>. QED
    BY <1>0, <1>2, <2>1, <2>2
<1>6. CASE ReadPrevious(w) \/ ReadForDelete(w)
  <2>1. PICK pc \in {"item", "drop"}, n \in Numbers \cup {None} :
           /\ s = After(r, pc, n, n # item[r.imsi])
           /\ scarred' = IF n # item[r.imsi] THEN scarred \cup {r.imsi} ELSE scarred
    BY <1>0, <1>6, ReadEffect
  <2>2. s.imsi = r.imsi /\ s.number = r.number
    BY <2>1 DEF After
  <2>3. UNCHANGED <<item, index>> /\ r.previous = None /\ scarred \subseteq scarred'
    BY <1>0, <1>6, <2>1 DEF ReadPrevious, ReadForDelete, CallOK
  <2>. QED
    BY <1>0, <1>2, <2>2, <2>3
<1>7. CASE PutItem(w)
  <2>1. s = After(r, "index", r.previous, r.old)
    BY <1>0, <1>7, PutItemEffect
  <2>2. s.imsi = r.imsi /\ s.number = r.number /\ s.previous = r.previous
    BY <2>1 DEF After
  <2>3. UNCHANGED <<index, scarred>> /\ item' = [item EXCEPT ![r.imsi] = r.number]
    BY <1>7 DEF PutItem, WriteItem, traces
  <2>4. r.imsi \in Imsis /\ (item[r.imsi] = r.previous \/ r.imsi \in scarred)
    BY <1>0, <1>7 DEF PutItem, CallOK
  <2>. QED
    BY <1>0, <1>2, <2>2, <2>3, <2>4
<1>8. CASE PutIndex(w)
  <2>1. UNCHANGED <<item, scarred>> /\ index' = [index EXCEPT ![r.number] = r.imsi]
    BY <1>8 DEF PutIndex, WriteIndex
  <2>2. r.imsi \in Imsis /\ r.number \in Numbers /\ item[r.imsi] = r.number
    BY <1>0, <1>8 DEF PutIndex, CallOK
  <2>3. CASE Moves(w)
    <3>1. s = After(r, "old", r.previous, r.old)
      BY <1>0, <1>8, <2>3, WriteEffect
    <3>2. s.imsi = r.imsi /\ s.number = r.number /\ s.previous = r.previous
      BY <3>1 DEF After
    <3>. QED
      BY <1>0, <1>2, <2>1, <2>2, <3>2
  <2>4. CASE ~Moves(w)
    <3>1. r.previous \in {None, r.number}
      BY <2>4 DEF Moves
    <3>. QED
      BY <1>0, <1>2, <2>1, <2>2, <3>1
  <2>. QED
    BY <2>3, <2>4
<1>9. CASE DropOld(w)
  <2>1. UNCHANGED <<item, scarred>> /\ index' = [index EXCEPT ![r.previous] = None]
    BY <1>9 DEF DropOld, WriteIndex
  <2>2. r.previous \in Numbers /\ item[r.imsi] = r.number
    BY <1>0, <1>9 DEF DropOld, CallOK
  <2>. QED
    BY <1>0, <1>2, <2>1, <2>2
<1>10. CASE DropItem(w)
  <2>1. UNCHANGED <<index, scarred>> /\ item' = [item EXCEPT ![r.imsi] = None]
    BY <1>10 DEF DropItem, WriteItem, traces
  <2>2. /\ r.imsi \in Imsis /\ r.number = None
        /\ item[r.imsi] = r.previous \/ r.imsi \in scarred
    BY <1>0, <1>10 DEF DropItem, CallOK
  <2>3. r.previous # None => s.imsi = r.imsi /\ s.previous = r.previous
    <3>1. r.previous # None => s = After(r, "old", r.previous, r.old)
      BY <1>0, <1>10, WriteEffect
    <3>. QED
      BY <3>1 DEF After
  <2>. QED
    BY <1>0, <1>2, <2>1, <2>2, <2>3
<1>11. CASE Crash(w)
  BY <1>2, <1>11 DEF Crash
<1>. QED
  BY <1>5, <1>6, <1>7, <1>8, <1>9, <1>10, <1>11 DEF CallStep

LEMMA IndexInvStep == OneWriter /\ IndexInv /\ [Next]_vars => IndexInv'
<1>. SUFFICES ASSUME OneWriter, IndexInv, [Next]_vars PROVE IndexInv'
  OBVIOUS
<1>1. Types'
  BY TypesStep DEF IndexInv
<1>2. LookupSound' /\ (lookup'.found # None => lookup'.owner \/ lookup'.found \in scarred')
  BY <1>1, LookupStep
<1>5. PastSound'
  BY PastStep
<1>3. ASSUME NEW w \in Writers, CallStep(w) PROVE IndexInv'
  <2>1. ReadsItem'
    BY <1>3, ReadsItemStep DEF IndexInv
  <2>2. EntriesSound'
    BY <1>3, EntriesStep
  <2>3. IndexSound'
    BY <1>2, <2>2 DEF IndexSound, EntriesSound
  <2>. QED
    BY <1>1, <1>2, <1>5, <2>1, <2>3 DEF IndexInv
<1>4. CASE UNCHANGED <<item, index, writer, torn, scarred>>
  <2>1. ReadsItem' /\ IndexSound'
    BY <1>2, <1>4 DEF IndexInv, ReadsItem, IndexSound, Holds, Moving
  <2>. QED
    BY <1>1, <1>2, <1>5, <2>1 DEF IndexInv
<1>. QED
  BY <1>3, <1>4 DEF Next, CallStep, LookupIndex, LookupRecord, vars, traces

\* With calls that come one after the other, whatever numbers operators give out,
\* wherever calls stop half way and however old what they read is, an index entry names
\* a subscriber that has the number or is being moved, or one of which a call stopped
\* half way or read an outdated record; and what get_subscriber_by_msisdn returns had
\* the number, or was being moved, when the entry it read was stored, or is such a one.
THEOREM IndexStaysSound ==
    ASSUME OneWriter
    PROVE  Spec => []IndexSound
<1>1. Init => IndexInv
  <2>. SUFFICES ASSUME Init PROVE IndexSound /\ LookupSound /\ PastSound
    BY TypesInit DEF IndexInv
  <2>1. lookup.imsi = None /\ lookup.found = None
    BY DEF Init, NoLookup
  <2>2. \A n \in Numbers : index[n] = None /\ pastIndex[n] = {}
    BY DEF Init
  <2>. QED
    BY <2>1, <2>2 DEF IndexSound, LookupSound, PastSound
<1>2. IndexInv /\ [Next]_vars => IndexInv'
  BY IndexInvStep
<1>3. IndexInv => IndexSound
  BY DEF IndexInv
<1>. QED
  BY <1>1, <1>2, <1>3, PTL DEF Spec

\* Calls that run alone, and give out free numbers only, keep the numbers of the
\* subscribers apart and the entry of each where it leads to it.
LEMMA FoundInvCall ==
    ASSUME OneWriter, Exclusive, FoundInv, NEW w \in Writers, CallStep(w), Types', ReadsItem'
    PROVE  NumbersApart' /\ EntryRight'
<1>. DEFINE r == writer[w] s == writer'[w]
            Apart == /\ \A i, j \in Imsis : item'[i] = item'[j] /\ item'[i] # None => i = j
                     /\ \A j \in Imsis : j # s.imsi /\ item'[j] # None =>
                           item'[j] # s.number /\ (s.old \/ item'[j] # s.previous)
            Right == /\ \A i \in Imsis : item'[i] # None /\ s.imsi # i /\ i \notin torn' /\ item'[i] \notin lost'
                           => index'[item'[i]] = i
                     /\ s.pc = "old" /\ s.number # None => index'[s.number] = s.imsi
<1>0. /\ Types /\ CallOK(r) /\ CallOK(s)
      /\ item \in [Imsis -> Numbers \cup {None}] /\ index \in [Numbers -> Imsis \cup {None}]
      /\ r.pc \in {"item", "drop"} => r.old \/ item[r.imsi] = r.previous
      /\ r.pc \in {"index", "old"} => item[r.imsi] = r.number
      /\ None \notin Imsis /\ None \notin Numbers
  BY SubscribersAssumption DEF FoundInv, Types, ReadsItem
<1>1. \A v \in Writers : v = w
  BY DEF OneWriter
<1>2. /\ \A i : Busy(i) <=> r.imsi = i
      /\ \A i : Busy(i)' <=> s.imsi = i
      /\ \A i, n : Holds(i, n) <=> item[i] = n \/ (r.imsi = i /\ n \in {r.number, r.previous})
  BY OneCall
<1>3. /\ \A i, j \in Imsis : item[i] = item[j] /\ item[i] # None => i = j
      /\ \A j \in Imsis : j # r.imsi /\ item[j] # None =>
             item[j] # r.number /\ (r.old \/ item[j] # r.previous)
      /\ \A i \in Imsis : item[i] # None /\ r.imsi # i /\ i \notin torn /\ item[i] \notin lost
             => index[item[i]] = i
      /\ r.pc = "old" /\ r.number # None => index[r.number] = r.imsi
  BY <1>2 DEF FoundInv, NumbersApart, EntryRight, Settled
<1>4. SUFFICES Apart /\ Right
  <2>1. NumbersApart'
    BY <1>1, <1>4 DEF NumbersApart
  <2>2. EntryRight'
    BY <1>1, <1>2, <1>4 DEF EntryRight, Settled
  <2>. QED
    BY <2>1, <2>2
<1>5. /\ Idle.imsi = None /\ Idle.number = None /\ Idle.previous = None /\ Idle.pc = "idle"
      /\ Idle.old = FALSE
  BY DEF Idle
<1>6. CASE StartPut(w)
  <2>1. PICK i \in Imsis, n \in Numbers :
           /\ \A j \in Imsis \ {i} : ~Holds(j, n)
           /\ s = [pc |-> "read", imsi |-> i, number |-> n, previous |-> None, old |-> FALSE]
    BY <1>0, <1>6, StartPutEffect
  <2>2. s.imsi = i /\ s.number = n /\ s.previous = None /\ s.pc = "read"
    BY <2>1
  <2>3. r.imsi = None /\ UNCHANGED <<item, index, torn, lost>>
    BY <1>0, <1>5, <1>6 DEF StartPut, CallOK, traces
  <2>4. \A j \in Imsis : j # i => item[j] # n
    BY <1>2, <2>1
  <2>. QED
    BY <1>0, <1>3, <2>2, <2>3, <2>4
<1>7. CASE StartDelete(w)
  <2>1. PICK i \in Imsis : s = [pc |-> "delete", imsi |-> i, number |-> None, previous |-> None, old |-> FALSE]
    BY <1>0, <1>7, StartDeleteEffect
  <2>2. s.imsi = i /\ s.number = None /\ s.previous = None /\ s.pc = "delete"
    BY <2>1
  <2>3. r.imsi = None /\ UNCHANGED <<item, index, torn, lost>>
    BY <1>0, <1>5, <1>7 DEF StartDelete, CallOK, traces
  <2>. QED
    BY <1>0, <1>3, <2>2, <2>3
<1>8. CASE ReadPrevious(w) \/ ReadForDelete(w)
  <2>1. PICK pc \in {"item", "drop"}, n \in Numbers \cup {None} :
           s = After(r, pc, n, n # item[r.imsi])
    BY <1>0, <1>8, ReadEffect
  <2>4. s.imsi = r.imsi /\ s.number = r.number /\ s.previous = n /\ s.pc = pc
    BY <2>1 DEF After
  <2>5. s.old = (n # item[r.imsi])
    BY ONLY <2>1 DEF After
  <2>2. /\ s.imsi = r.imsi /\ s.number = r.number /\ s.previous = n /\ s.pc # "old"
        /\ s.old \/ n = item[r.imsi]
    BY <2>4, <2>5
  <2>3. UNCHANGED <<item, index, torn, lost>> /\ r.imsi \in Imsis
    BY <1>0, <1>8 DEF ReadPrevious, ReadForDelete, CallOK
  <2>. QED
    BY <1>0, <1>3, <2>2, <2>3
<1>9. CASE PutItem(w)
  <2>1. s = After(r, "index", r.previous, r.old)
    BY <1>0, <1>9, PutItemEffect
  <2>2. /\ s.imsi = r.imsi /\ s.number = r.number /\ s.previous = r.previous /\ s.pc = "index"
        /\ s.old = r.old
    BY <2>1 DEF After
  <2>3. UNCHANGED <<index, torn, lost>> /\ item' = [item EXCEPT ![r.imsi] = r.number]
    BY <1>9 DEF PutItem, WriteItem, traces
  <2>4. r.imsi \in Imsis /\ r.number \in Numbers
    BY <1>0, <1>9 DEF PutItem, CallOK
  <2>. QED
    BY <1>0, <1>3, <2>2, <2>3, <2>4
<1>10. CASE PutIndex(w)
  <2>1. /\ UNCHANGED item /\ index' = [index EXCEPT ![r.number] = r.imsi]
        /\ lost' = lost \ {r.number}
    BY <1>10 DEF PutIndex, WriteIndex
  <2>2. r.imsi \in Imsis /\ r.number \in Numbers /\ item[r.imsi] = r.number
    BY <1>0, <1>10 DEF PutIndex, CallOK
  <2>3. \A i \in Imsis : item[i] # None /\ i # r.imsi /\ i \notin torn /\ item[i] \notin lost'
           => index'[item[i]] = i
    BY <1>0, <1>3, <2>1, <2>2
  <2>4. CASE Moves(w)
    <3>1. s = After(r, "old", r.previous, r.old) /\ UNCHANGED torn
      BY <1>0, <1>10, <2>4, WriteEffect DEF PutIndex
    <3>2. s.imsi = r.imsi /\ s.number = r.number /\ s.previous = r.previous /\ s.old = r.old
      BY <3>1 DEF After
    <3>. QED
      BY <1>0, <1>3, <2>1, <2>2, <2>3, <3>1, <3>2
  <2>5. CASE ~Moves(w)
    <3>1. s = Idle /\ torn' = torn \ {r.imsi}
      BY <1>0, <1>10, <2>5, WriteEffect DEF PutIndex
    <3>. QED
      BY <1>0, <1>3, <1>5, <2>1, <2>2, <2>3, <3>1
  <2>. QED
    BY <2>4, <2>5
<1>11. CASE DropOld(w)
  <2>1. /\ UNCHANGED item /\ index' = [index EXCEPT ![r.previous] = None] /\ torn' = torn \ {r.imsi}
        /\ lost' = IF r.old THEN lost \cup {r.previous} ELSE lost
    BY <1>11 DEF DropOld, WriteIndex
  <2>2. /\ r.previous \in Numbers /\ r.previous # r.number /\ item[r.imsi] = r.number
        /\ r.imsi \in Imsis /\ r.pc = "old"
    BY <1>0, <1>11 DEF DropOld, CallOK
  <2>3. s = Idle
    BY <1>0, <1>11, EndEffect
  <2>. QED
    BY <1>0, <1>3, <1>5, <2>1, <2>2, <2>3
<1>12. CASE DropItem(w)
  <2>1. UNCHANGED <<index, torn, lost>> /\ item' = [item EXCEPT ![r.imsi] = None]
    BY <1>12 DEF DropItem, WriteItem, traces
  <2>2. r.imsi \in Imsis /\ r.number = None
    BY <1>0, <1>12 DEF DropItem, CallOK
  <2>3. s = Idle \/ s = After(r, "old", r.previous, r.old)
    BY <1>0, <1>12, WriteEffect
  <2>4. \/ s.imsi = None /\ s.number = None /\ s.previous = None
        \/ s.imsi = r.imsi /\ s.number = None /\ s.previous = r.previous /\ s.old = r.old
    BY <1>5, <2>2, <2>3 DEF After
  <2>. QED
    BY <1>0, <1>3, <2>1, <2>2, <2>4
<1>13. CASE Crash(w)
  <2>1. UNCHANGED <<item, index, lost>> /\ torn' = torn \cup {r.imsi}
    BY <1>13 DEF Crash
  <2>2. s = Idle
    BY <1>0, <1>13, EndEffect
  <2>. QED
    BY <1>0, <1>3, <1>5, <2>1, <2>2
<1>. QED
  BY <1>6, <1>7, <1>8, <1>9, <1>10, <1>11, <1>12, <1>13 DEF CallStep

LEMMA FoundInvStep == OneWriter /\ Exclusive /\ FoundInv /\ [Next]_vars => FoundInv'
<1>. SUFFICES ASSUME OneWriter, Exclusive, FoundInv, [Next]_vars PROVE FoundInv'
  OBVIOUS
<1>1. Types'
  BY TypesStep DEF FoundInv
<1>2. ASSUME NEW w \in Writers, CallStep(w) PROVE FoundInv'
  <2>1. ReadsItem'
    BY <1>2, ReadsItemStep DEF FoundInv
  <2>2. NumbersApart' /\ EntryRight'
    BY <1>1, <1>2, <2>1, FoundInvCall
  <2>. QED
    BY <1>1, <2>1, <2>2 DEF FoundInv
<1>3. CASE UNCHANGED <<item, index, writer, torn, scarred, lost>>
  BY <1>1, <1>3 DEF FoundInv, ReadsItem, NumbersApart, EntryRight, Settled, Busy
<1>. QED
  BY <1>2, <1>3 DEF Next, CallStep, LookupIndex, LookupRecord, vars, traces

\* With calls that come one after the other and operators that give out free numbers
\* only, the number of a subscriber whose last call ended leads to a subscriber with
\* that number, however many calls stopped half way before: a repeated put_subscriber
\* or delete_subscriber repairs what they left. A number is lost only where a call that
\* read an outdated record dropped its entry.
THEOREM NumbersLeadToSubscribers ==
    ASSUME OneWriter, Exclusive
    PROVE  Spec => []FoundByNumber
<1>1. Init => FoundInv
  <2>. SUFFICES ASSUME Init PROVE NumbersApart /\ EntryRight
    BY TypesInit DEF FoundInv
  <2>1. \A i \in Imsis : item[i] = None
    BY DEF Init
  <2>2. \A w \in Writers : writer[w].pc = "idle"
    BY DEF Init, Idle
  <2>. QED
    BY <2>1, <2>2 DEF NumbersApart, EntryRight, Settled
<1>2. FoundInv /\ [Next]_vars => FoundInv'
  BY FoundInvStep
<1>3. FoundInv => FoundByNumber
  BY SubscribersAssumption DEF FoundInv, EntryRight, FoundByNumber, Settled, Found, Holds
<1>. QED
  BY <1>1, <1>2, <1>3, PTL DEF Spec

\* No read is outdated.
Current ==
    /\ \A i \in Imsis : pastItem[i] = {}
    /\ \A w \in Writers : writer[w].old = FALSE
    /\ lost = {}

\* Without lag no call reads an outdated record.
LEMMA CurrentStep == ~LAG /\ Types /\ Current /\ [Next]_vars => Current'
<1>. SUFFICES ASSUME ~LAG, Types, Current, [Next]_vars PROVE Current'
  OBVIOUS
<1>0. writer \in [Writers -> Calls] /\ \A w \in Writers : CallOK(writer[w])
  BY DEF Types
<1>1. UNCHANGED pastItem
  BY DEF Next, vars, past, StartPut, ReadPrevious, PutItem, WriteItem, PutIndex, DropOld,
         StartDelete, ReadForDelete, DropItem, Crash, LookupIndex, LookupRecord
<1>2. lost' = {}
  BY DEF Current, Next, vars, traces, StartPut, ReadPrevious, PutItem, PutIndex, DropOld,
         StartDelete, ReadForDelete, DropItem, Crash, LookupIndex, LookupRecord
<1>5. \A w \in Writers : writer[w].old = FALSE
  BY DEF Current
<1>3. ASSUME NEW w \in Writers, CallStep(w) PROVE \A v \in Writers : writer'[v].old = FALSE
  <2>1. writer'[w].old = FALSE
    <3>1. CASE StartPut(w) \/ StartDelete(w)
      <4>1. \E pc, i, n : writer'[w] = [pc |-> pc, imsi |-> i, number |-> n, previous |-> None, old |-> FALSE]
        BY <3>1, StartPutEffect, StartDeleteEffect
      <4>. QED
        BY <4>1
    <3>2. CASE ReadPrevious(w) \/ ReadForDelete(w)
      <4>1. writer[w].imsi \in Imsis
        BY <1>0, <3>2 DEF ReadPrevious, ReadForDelete, CallOK
      <4>2. PICK pc \in {"item", "drop"} : ReadRecord(w, pc)
        BY <3>2 DEF ReadPrevious, ReadForDelete
      <4>3. Set(w, [writer[w] EXCEPT !.pc = pc, !.previous = item[writer[w].imsi], !.old = FALSE])
        BY <4>1, <4>2 DEF ReadRecord, Records, Current
      <4>4. writer'[w] = [writer[w] EXCEPT !.pc = pc, !.previous = item[writer[w].imsi], !.old = FALSE]
        BY <4>3, SetEffect
      <4>. QED
        BY <1>0, <4>4 DEF Calls
    <3>3. CASE PutItem(w) \/ PutIndex(w) \/ DropItem(w)
      <4>1. \/ writer'[w] = Idle
            \/ writer'[w] = After(writer[w], "index", writer[w].previous, writer[w].old)
            \/ writer'[w] = After(writer[w], "old", writer[w].previous, writer[w].old)
        BY <3>3, PutItemEffect, WriteEffect
      <4>. QED
        BY <4>1, <1>5 DEF Idle, After
    <3>4. CASE DropOld(w) \/ Crash(w)
      BY <3>4, EndEffect DEF Idle
    <3>. QED
      BY <1>3, <3>1, <3>2, <3>3, <3>4 DEF CallStep
  <2>2. \E r : Set(w, r)
    BY <1>3 DEF CallStep, StartPut, ReadPrevious, ReadRecord, PutItem, PutIndex, DropOld, StartDelete,
           ReadForDelete, DropItem, Crash
  <2>. QED
    BY <1>0, <2>1, <2>2 DEF Set, Current
<1>4. CASE UNCHANGED writer
  BY <1>1, <1>2, <1>4 DEF Current
<1>. QED
  BY <1>1, <1>2, <1>3, <1>4 DEF Current, Next, CallStep, LookupIndex, LookupRecord, vars

\* Where no read is outdated, as in acs/store/memory.py, there is no exception: calls
\* that come one after the other and give out free numbers only need no transaction over
\* the two items.
THEOREM NumbersLeadWithoutLag ==
    ASSUME OneWriter, Exclusive, ~LAG
    PROVE  Spec => []NumbersLead
<1>1. Init => Types /\ Current
  BY TypesInit DEF Init, Current, Idle
<1>2. Types /\ Current /\ [Next]_vars => Types' /\ Current'
  BY TypesStep, CurrentStep
<1>3. FoundByNumber /\ Types /\ Current => NumbersLead
  BY DEF Current, FoundByNumber, NumbersLead
<1>. QED
  BY <1>1, <1>2, <1>3, NumbersLeadToSubscribers, PTL DEF Spec
=============================================================================
