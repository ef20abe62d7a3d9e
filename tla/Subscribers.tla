---------------------------- MODULE Subscribers ----------------------------
(***************************************************************************)
(* Subscribers by IMSI and the reverse index by MSISDN.                      *)
(*                                                                         *)
(*   acs/store/dynamodb.py   put_subscriber, delete_subscriber,              *)
(*                           get_subscriber_by_msisdn                        *)
(*                                                                         *)
(* The two are separate items, written one after the other: a store call is   *)
(* one step. _get reads without ConsistentRead: it may return what an item     *)
(* held before. acs/store/memory.py does the same under one lock, so its      *)
(* behaviours are those with one writer, no lag and no crash. Of a record     *)
(* only the number is kept.                                                  *)
(***************************************************************************)
EXTENDS Integers, FiniteSets

CONSTANTS
    Imsis, Numbers, None,
    Writers,        \* put and delete calls that may overlap
    CRASHES,        \* bound: calls that stop half way
    Exclusive,      \* TRUE: operators give out a number only when it is free
    LAG             \* TRUE: a read may return what the item held before

ASSUME SubscribersAssumption ==
    CRASHES \in Nat /\ Exclusive \in BOOLEAN /\ LAG \in BOOLEAN /\ None \notin Imsis \cup Numbers

VARIABLES
    item,       \* SUB#<imsi>: the subscriber's number
    index,      \* MSISDN#<number>: the subscriber's IMSI
    pastItem,   \* what a replica may still show of the record: nothing bounds the lag
    pastIndex,  \* and of the entry, with whether the subscriber it names held the number
    writer,     \* the locals of every put or delete
    torn,       \* history: the IMSIs whose last call stopped half way
    scarred,    \* history: the IMSIs of which some call did, or read an outdated record
    lost,       \* history: the numbers whose entry a call dropped after such a read
    lookup,     \* a get_subscriber_by_msisdn in flight
    crashes

past   == <<pastItem, pastIndex>>
traces == <<torn, scarred, lost>>
vars   == <<item, index, past, writer, traces, lookup, crashes>>

Idle     == [pc |-> "idle", imsi |-> None, number |-> None, previous |-> None,
             old |-> FALSE]
NoLookup == [pc |-> "idle", imsi |-> None, found |-> None, owner |-> FALSE]

Init ==
    /\ item = [i \in Imsis |-> None]
    /\ index = [n \in Numbers |-> None]
    /\ pastItem = [i \in Imsis |-> {}]
    /\ pastIndex = [n \in Numbers |-> {}]
    /\ writer = [w \in Writers |-> Idle]
    /\ torn = {} /\ scarred = {} /\ lost = {}
    /\ lookup = NoLookup
    /\ crashes = 0

Set(w, r) == writer' = [writer EXCEPT ![w] = r]

\* The subscribers that hold a number, or are being moved from it or to it.
Moving(i, n) == \E w \in Writers : writer[w].imsi = i /\ n \in {writer[w].number, writer[w].previous}
Holds(i, n)  == item[i] = n \/ Moving(i, n)

\* What a read of a record, or of an index entry, may return.
Entry(n)   == [imsi |-> index[n], owner |-> index[n] # None /\ Holds(index[n], n)]
Records(i) == {item[i]} \cup pastItem[i]
Entries(n) == {Entry(n)} \cup pastIndex[n]

\* The two writes of an item; what it held stays with the replicas that lag.
WriteItem(i, n) ==
    /\ item' = [item EXCEPT ![i] = n]
    /\ pastItem' = IF LAG THEN [pastItem EXCEPT ![i] = @ \cup {item[i]}] ELSE pastItem

WriteIndex(n, i) ==
    /\ index' = [index EXCEPT ![n] = i]
    /\ pastIndex' = IF LAG THEN [pastIndex EXCEPT ![n] = @ \cup {Entry(n)}] ELSE pastIndex

\* A call reads the record that it is about to replace or delete.
ReadRecord(w, pc) ==
    \E n \in Records(writer[w].imsi) : LET r == writer[w] IN
        /\ Set(w, [r EXCEPT !.pc = pc, !.previous = n, !.old = n # item[r.imsi]])
        /\ scarred' = IF n # item[r.imsi] THEN scarred \cup {r.imsi} ELSE scarred

-----------------------------------------------------------------------------
(* put_subscriber                                                            *)

\* An operator, or a configuration request that writes a record back.
StartPut(w) ==
    /\ writer[w].pc = "idle"
    /\ \E i \in Imsis, n \in Numbers :
          /\ Exclusive => \A j \in Imsis \ {i} : ~Holds(j, n)
          /\ Set(w, [Idle EXCEPT !.pc = "read", !.imsi = i, !.number = n])
    /\ UNCHANGED <<item, index, past, traces, lookup, crashes>>

ReadPrevious(w) ==
    /\ writer[w].pc = "read"
    /\ ReadRecord(w, "item")
    /\ UNCHANGED <<item, index, past, torn, lost, lookup, crashes>>

PutItem(w) ==
    /\ writer[w].pc = "item"
    /\ WriteItem(writer[w].imsi, writer[w].number)
    /\ Set(w, [writer[w] EXCEPT !.pc = "index"])
    /\ UNCHANGED <<index, pastIndex, traces, lookup, crashes>>

\* The number changed, as far as the call knows.
Moves(w) == writer[w].previous \notin {None, writer[w].number}

PutIndex(w) ==
    /\ writer[w].pc = "index"
    /\ WriteIndex(writer[w].number, writer[w].imsi)
    /\ Set(w, IF Moves(w) THEN [writer[w] EXCEPT !.pc = "old"] ELSE Idle)
    /\ torn' = IF Moves(w) THEN torn ELSE torn \ {writer[w].imsi}
    /\ lost' = lost \ {writer[w].number}
    /\ UNCHANGED <<item, pastItem, scarred, lookup, crashes>>

\* Mutant: the entry of the old number stays.
DropOldNever(w) ==
    /\ writer[w].pc = "old"
    /\ Set(w, Idle)
    /\ torn' = torn \ {writer[w].imsi}
    /\ UNCHANGED <<item, index, past, scarred, lost, lookup, crashes>>

\* Mutant: the entry of the new number goes.
DropOldNew(w) ==
    /\ writer[w].pc = "old"
    /\ IF writer[w].number # None THEN WriteIndex(writer[w].number, None)
       ELSE WriteIndex(writer[w].previous, None)
    /\ Set(w, Idle)
    /\ torn' = torn \ {writer[w].imsi}
    /\ UNCHANGED <<item, pastItem, scarred, lost, lookup, crashes>>

\* The entry of the old number goes, whoever it points to.
DropOld(w) ==
    /\ writer[w].pc = "old"
    /\ WriteIndex(writer[w].previous, None)
    /\ Set(w, Idle)
    /\ torn' = torn \ {writer[w].imsi}
    /\ lost' = IF writer[w].old THEN lost \cup {writer[w].previous} ELSE lost
    /\ UNCHANGED <<item, pastItem, scarred, lookup, crashes>>

-----------------------------------------------------------------------------
(* delete_subscriber                                                         *)

StartDelete(w) ==
    /\ writer[w].pc = "idle"
    /\ \E i \in Imsis : Records(i) # {None} /\ Set(w, [Idle EXCEPT !.pc = "delete", !.imsi = i])
    /\ UNCHANGED <<item, index, past, traces, lookup, crashes>>

ReadForDelete(w) ==
    /\ writer[w].pc = "delete"
    /\ ReadRecord(w, "drop")
    /\ UNCHANGED <<item, index, past, torn, lost, lookup, crashes>>

DropItem(w) ==
    /\ writer[w].pc = "drop"
    /\ WriteItem(writer[w].imsi, None)
    /\ Set(w, IF writer[w].previous = None THEN Idle ELSE [writer[w] EXCEPT !.pc = "old"])
    /\ UNCHANGED <<index, pastIndex, traces, lookup, crashes>>

\* A store call raises, or the task stops, between two writes.
Crash(w) ==
    /\ crashes < CRASHES
    /\ writer[w].pc # "idle"
    /\ crashes' = crashes + 1
    /\ torn' = torn \cup {writer[w].imsi}
    /\ scarred' = scarred \cup {writer[w].imsi}
    /\ Set(w, Idle)
    /\ UNCHANGED <<item, index, past, lost, lookup>>

-----------------------------------------------------------------------------
(* get_subscriber_by_msisdn: the index, then the record it names, whose       *)
(* number is not compared.                                                   *)

LookupIndex ==
    /\ lookup.pc = "idle"
    /\ \E n \in Numbers : \E entry \in Entries(n) :
          lookup' = IF entry.imsi = None THEN NoLookup
                    ELSE [NoLookup EXCEPT !.pc = "record", !.imsi = entry.imsi,
                                          !.owner = entry.owner]
    /\ UNCHANGED <<item, index, past, writer, traces, crashes>>

LookupRecord ==
    /\ lookup.pc = "record"
    /\ \E n \in Records(lookup.imsi) :
          lookup' = IF n = None THEN NoLookup
                    ELSE [lookup EXCEPT !.pc = "idle", !.found = lookup.imsi]
    /\ UNCHANGED <<item, index, past, writer, traces, crashes>>

Next ==
    \/ \E w \in Writers :
          \/ StartPut(w) \/ ReadPrevious(w) \/ PutItem(w) \/ PutIndex(w) \/ DropOld(w)
          \/ StartDelete(w) \/ ReadForDelete(w) \/ DropItem(w)
          \/ Crash(w)
    \/ LookupIndex \/ LookupRecord

Spec == Init /\ [][Next]_vars

-----------------------------------------------------------------------------
(* Properties.                                                               *)

Busy(i) == \E w \in Writers : writer[w].imsi = i

\* The items, the calls and the lookup have the shape the code gives them; a call
\* drops an index entry only for a number it read.
TypeOK ==
    /\ item \in [Imsis -> Numbers \cup {None}]
    /\ index \in [Numbers -> Imsis \cup {None}]
    /\ torn \subseteq scarred /\ scarred \subseteq Imsis
    /\ lookup.found \in {None, lookup.imsi}
    /\ \A w \in Writers :
          /\ writer[w].imsi \in Imsis <=> writer[w].pc # "idle"
          /\ writer[w].pc = "old" => writer[w].previous \in Numbers

\* The number of this subscriber leads to a subscriber with that number.
Found(i) == index[item[i]] # None /\ Holds(index[item[i]], item[i])

\* A subscriber with a number, none of whose calls is in flight, and whose last call
\* ended.
Settled(i) == item[i] # None /\ ~Busy(i) /\ i \notin torn

\* The number of a settled subscriber leads to a subscriber with that number: repeating
\* a call repairs what a crash left. The one exception is a number whose entry a call
\* dropped, and no call wrote since, because it had read an outdated record, which gave
\* it a number that its subscriber had before.
FoundByNumber == \A i \in Imsis : Settled(i) /\ item[i] \notin lost => Found(i)

\* The same with no exception: docs/adr/0002-datastore.md:73 holds that no current flow
\* needs a transaction over several items.
NumbersLead == \A i \in Imsis : Settled(i) => Found(i)

\* An index entry names a subscriber that holds the number or is being moved: a
\* network-asserted number authenticates by this entry alone. A call that stopped
\* half way, or that read an outdated record, may leave an entry behind, of its own
\* subscriber only. So the subscriber that get_subscriber_by_msisdn returns held the
\* number, or was being moved, when the entry it read was stored, whatever is put or
\* deleted between its two reads and however old what they return is.
IndexSound ==
    /\ \A n \in Numbers : index[n] # None => Holds(index[n], n) \/ index[n] \in scarred
    /\ lookup.found # None => lookup.owner \/ lookup.found \in scarred
=============================================================================
