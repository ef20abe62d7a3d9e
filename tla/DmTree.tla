------------------------------- MODULE DmTree -------------------------------
(***************************************************************************)
(* The OMA-DM management tree: the objects that are loaded, the nodes that    *)
(* are pushed to a device in messages of any size, and what the device makes  *)
(* of them.                                                                  *)
(*                                                                         *)
(*   acs/protocol/omadm/motree.py    load_tree, server_nodes, render        *)
(*   acs/protocol/omadm/session.py   _handle_init, _handle_devinfo,          *)
(*                                   _interior_nodes_for, _record_failures   *)
(*   acs/protocol/omadm/package.py   apply                                  *)
(*   acs/protocol/omadm/syncml.py    SyncMlBuilder, parse                    *)
(*                                                                         *)
(* A URI is the sequence of its segments after ".". The size of a message is  *)
(* in PackageFill and the session's items in the store are in DmSession: here *)
(* a message takes any number of queued entries, and nothing fails.          *)
(***************************************************************************)
EXTENDS Integers, Sequences, SequencesExt, FiniteSets

CONSTANTS
    Pushes      \* what is pushed where, one record for each case:
                \*   objects     the management objects, in the order of their files, each
                \*               with its root, nodes, and whether it is sound: it names
                \*               itself, and every format, source and default is valid
                \*   volte       the subscriber is unknown or has volte_enabled
                \*   overrides   of the subscriber, by URI
                \*   context     what the known placeholders stand for
                \*   has         the nodes the device has
                \*   refuses     the leaves the device does not let be written (425)
                \*   says        the commands of the device's first message

VARIABLES
    push,       \* the case
    phase,      \* of the session; "load" before, "closed" at the end
    nodes,      \* MoTree.all_nodes
    loaded,     \* objects that are loaded
    queue,      \* the unsent part of the package
    message,    \* the commands of the message that the device has got
    present,    \* the device's tree
    held,       \* the values the device was given
    statuses,   \* what the device reports on the message
    mo_values,  \* Device.mo_values
    failures    \* reported_failures

treeVars == <<push, phase, nodes, loaded, queue, message, present, held, statuses, mo_values, failures>>
tree     == <<push, nodes, loaded>>

TreeInit ==
    /\ push \in Pushes
    /\ phase = "load"
    /\ nodes = <<>>
    /\ loaded = 0
    /\ queue = <<>>
    /\ message = <<>>
    /\ present = push.has
    /\ held = {}
    /\ statuses = <<>>
    /\ mo_values = <<>>
    /\ failures = 0

-----------------------------------------------------------------------------
(* load_tree.                                                                *)

Uris(ns) == {ns[i].uri : i \in DOMAIN ns}

\* _load_object and _coerce_node: a node outside the root, or twice in a file, is an
\* error, and so is a file that is not sound.
Loads(o) ==
    /\ o.sound /\ o.nodes # <<>>
    /\ \A i \in DOMAIN o.nodes : IsPrefix(o.root, o.nodes[i].uri)
    /\ Cardinality(Uris(o.nodes)) = Len(o.nodes)

LoadObject ==
    /\ phase = "load"
    /\ loaded < Len(push.objects)
    /\ LET o == push.objects[loaded + 1] IN
       IF Loads(o) THEN nodes' = nodes \o o.nodes /\ UNCHANGED phase
       ELSE phase' = "CatalogError" /\ UNCHANGED nodes
    /\ loaded' = loaded + 1
    /\ UNCHANGED <<push, queue, message, present, held, statuses, mo_values, failures>>

\* Two objects with one root are an error, which is found when all are loaded.
Roots == {push.objects[i].root : i \in DOMAIN push.objects}

LoadTree ==
    /\ phase = "load"
    /\ loaded = Len(push.objects)
    /\ phase' = IF Cardinality(Roots) = loaded THEN "init" ELSE "CatalogError"
    /\ UNCHANGED <<tree, queue, message, present, held, statuses, mo_values, failures>>

\* MoTree.node: of two nodes with one URI the last counts.
Node(uri) == nodes[SelectLastInSeq(nodes, LAMBDA n : n.uri = uri)]

-----------------------------------------------------------------------------
(* The server's packages.                                                    *)

\* _status_for: what the server does not know it has not performed either.
StatusFor(c) ==
    CASE c.name \in {"Get", "Replace", "Add"} ->
            IF c.uri # <<>> /\ c.uri \notin Uris(nodes) THEN "404" ELSE "200"
      [] c.name \in {"Alert", "Results", "Put"} -> "200"
      [] OTHER -> "406"

Status(c) == [command |-> "Status", uri |-> c.uri, data |-> StatusFor(c)]

\* _acks: of every command but a Status.
Acks(commands) ==
    LET acked == SelectSeq(commands, LAMBDA c : c.name # "Status")
    IN  [i \in DOMAIN acked |-> Status(acked[i])]

\* _absorb_device_values: what the device says of nodes that it owns.
Told(c) ==
    /\ c.name \in {"Replace", "Results", "Add"} /\ c.data # ""
    /\ c.uri \in Uris(nodes) /\ Node(c.uri).source = "device"
Absorb(commands) ==
    FoldLeft(LAMBDA values, c : [u \in DOMAIN values \cup {c.uri} |-> IF u = c.uri THEN c.data ELSE values[u]],
             mo_values, SelectSeq(commands, Told))

\* package.apply: adjacent items of a command travel as one command, a Status alone.
Joins(a, b) == a.command = b.command /\ a.command # "Status"

\* SyncMlBuilder: one more command, with the next CmdID.
NewCommand(cmds, e) == Append(cmds, [id |-> Len(cmds) + 1, items |-> <<e>>])

Grouped(entries) ==
    FoldLeft(LAMBDA cmds, e :
                IF cmds # <<>> /\ Joins(cmds[Len(cmds)].items[1], e)
                THEN [cmds EXCEPT ![Len(cmds)].items = Append(@, e)]
                ELSE NewCommand(cmds, e),
             <<>>, entries)

\* _next_message: the Status of the header, and as many entries as fit.
SyncHdr == [command |-> "Status", uri |-> <<>>, data |-> "212"]
NextMessage(entries, required) ==
    \E n \in required .. Len(entries) :
        /\ message' = Grouped(<<SyncHdr>> \o SubSeq(entries, 1, n))
        /\ queue' = SubSeq(entries, n + 1, Len(entries))

\* _start_package.
StartPackage(entries) == NextMessage(entries, IF entries = <<>> THEN 0 ELSE 1)

\* device_query_uris.
DeviceQuery == SelectSeq(nodes, LAMBDA n : n.source = "device" /\ ~n.interior)

\* _handle_init: acknowledgements, then one Get for each node that the device owns.
HandleInit ==
    /\ phase = "init"
    /\ mo_values' = Absorb(push.says)
    /\ StartPackage(Acks(push.says) \o [i \in DOMAIN DeviceQuery |->
                        [command |-> "Get", uri |-> DeviceQuery[i].uri, data |-> ""]])
    /\ phase' = "devinfo"
    /\ UNCHANGED <<tree, present, held, statuses, failures>>

Features == {"rcs"} \cup IF push.volte THEN {"volte"} ELSE {}

\* server_nodes and render: the leaves that the server owns, with their values.
ServerNodes ==
    SelectSeq(nodes, LAMBDA n : n.source = "server" /\ ~n.interior /\ n.feature \in Features \cup {""})
Rendered(n) ==
    LET raw == IF n.uri \in DOMAIN push.overrides THEN push.overrides[n.uri] ELSE n.default
    IN  IF raw \in DOMAIN push.context THEN push.context[raw] ELSE raw

\* _configuration_values: an empty value is not pushed.
Values ==
    LET pushed == SelectSeq(ServerNodes, LAMBDA n : Rendered(n) # "")
    IN  [i \in DOMAIN pushed |-> [command |-> "Replace", uri |-> pushed[i].uri, data |-> Rendered(pushed[i])]]

\* The nodes above a URI.
Above(uri) == {SubSeq(uri, 1, i) : i \in 1 .. Len(uri) - 1}

Interior == {nodes[i].uri : i \in {j \in DOMAIN nodes : nodes[j].interior}}

\* Mutant: the deepest first.
ParentFirstReversed(u, v) == Len(u) > Len(v)

\* The order in which interior nodes are created; the order of siblings is no matter.
ParentFirst(u, v) == Len(u) < Len(v)

\* _interior_nodes_for: the declared ones above the leaves.
InteriorNodesFor(values) ==
    SetToSortSeq(UNION {Above(values[i].uri) : i \in DOMAIN values} \cap Interior, ParentFirst)

\* The package is sent, and the device has answered.
Answered == message = <<>> /\ queue = <<>>

\* _handle_devinfo, on the answer to the Gets.
HandleDevinfo ==
    /\ phase = "devinfo" /\ Answered
    /\ mo_values' = Absorb(statuses)
    /\ LET interiors == InteriorNodesFor(Values) IN
       StartPackage(Acks(statuses)
                    \o [i \in DOMAIN interiors |-> [command |-> "Add", uri |-> interiors[i], data |-> ""]]
                    \o Values)
    /\ phase' = "configure"
    /\ statuses' = <<>>
    /\ UNCHANGED <<tree, present, held, failures>>

-----------------------------------------------------------------------------
(* The device.                                                               *)

Parent(uri) == SubSeq(uri, 1, Len(uri) - 1)
Reachable(uri) == Len(uri) = 1 \/ Parent(uri) \in present

\* How the device answers one item: a node is added once, below a node that is there,
\* and a leaf is written below one that is there.
Answer(item) ==
    CASE item.command = "Get" -> IF item.uri \in present THEN "200" ELSE "404"
      [] item.command = "Add" -> IF item.uri \in present THEN "418"
                                 ELSE IF Reachable(item.uri) THEN "201" ELSE "404"
      [] item.command = "Replace" -> IF ~Reachable(item.uri) THEN "404"
                                     ELSE IF item.uri \in push.refuses THEN "425" ELSE "200"

Report(name, uri, data) == [name |-> name, uri |-> uri, data |-> data]

\* The device applies the items one after the other and reports on each.
ApplyItem ==
    /\ message # <<>>
    /\ LET item == message[1].items[1] IN
       /\ \/ item.command = "Status" /\ UNCHANGED <<present, held, statuses>>
          \/ /\ item.command # "Status"
             /\ LET code == Answer(item) IN
                /\ present' = IF item.command # "Get" /\ code \in {"200", "201"}
                              THEN present \cup {item.uri} ELSE present
                /\ held' = IF item.command = "Replace" /\ code = "200"
                           THEN {h \in held : h.uri # item.uri} \cup {[uri |-> item.uri, data |-> item.data]}
                           ELSE held
                /\ statuses' = statuses \o <<Report("Status", item.uri, code)>>
                      \o IF item.command = "Get" /\ code = "200"
                         THEN <<Report("Results", item.uri, "of-device")>> ELSE <<>>
       /\ message' = IF Len(message[1].items) > 1
                     THEN [message EXCEPT ![1].items = Tail(@)] ELSE Tail(message)
    /\ UNCHANGED <<tree, phase, queue, mo_values, failures>>

-----------------------------------------------------------------------------
(* What the server makes of the reports.                                     *)

\* Mutant: a node that is there already counts as a failure.
FailedStrictly(s) == s.name = "Status" /\ s.data \notin {"200", "201"}

\* _record_failures: 418 is what an Add of a node that is there is answered.
Failed(s) == s.name = "Status" /\ s.data \notin {"200", "201", "418"}

RecordFailures == failures' = failures + Len(SelectSeq(statuses, Failed))

\* The device asks for the next message of a package (Alert 1222), with its reports.
Asks == Append(statuses, Report("Alert", <<>>, ""))

\* Mutant: what comes with the request for the next message is not kept.
ContinuePackageDeaf ==
    /\ message = <<>> /\ queue # <<>>
    /\ IF phase = "configure" THEN RecordFailures ELSE UNCHANGED failures
    /\ NextMessage(Acks(Asks) \o queue, Len(Acks(Asks)) + 1)
    /\ statuses' = <<>>
    /\ UNCHANGED <<tree, phase, present, held, mo_values>>

\* _continue_package: the rest of the package, after the acknowledgements, and one
\* entry of it at least.
ContinuePackage ==
    /\ message = <<>> /\ queue # <<>>
    /\ mo_values' = Absorb(Asks)
    /\ IF phase = "configure" THEN RecordFailures ELSE UNCHANGED failures
    /\ NextMessage(Acks(Asks) \o queue, Len(Acks(Asks)) + 1)
    /\ statuses' = <<>>
    /\ UNCHANGED <<tree, phase, present, held>>

\* _handle_finish, on reports only: the package is empty, and the session is closed.
HandleFinish ==
    /\ phase = "configure" /\ Answered
    /\ RecordFailures
    /\ statuses' = <<>>
    /\ phase' = "closed"
    /\ UNCHANGED <<tree, queue, message, present, held, mo_values>>

TreeNext ==
    \/ LoadObject \/ LoadTree \/ HandleInit \/ HandleDevinfo \/ ApplyItem
    \/ ContinuePackage \/ HandleFinish

-----------------------------------------------------------------------------
(* Properties.                                                               *)

ClosedSession == phase = "closed"

\* A leaf is within reach if the device had, or the catalogue declares, every node above.
WithinReach(uri) == Above(uri) \subseteq push.has \cup Interior

\* When the session is closed, the device has every leaf that is within its reach, with
\* the value of the subscriber, however the package was split and whatever part of the
\* tree it started with.
LeavesWritten ==
    ClosedSession => \A i \in DOMAIN Values :
        LET v == Values[i] IN
        WithinReach(v.uri) /\ v.uri \notin push.refuses => [uri |-> v.uri, data |-> v.data] \in held

\* The failures that are recorded are the leaves the device does not have: those it
\* refused and those below a node that nobody created. Adding what is there is no failure.
FailuresTrue ==
    ClosedSession => failures = Len(SelectSeq(Values, LAMBDA v : ~WithinReach(v.uri) \/ v.uri \in push.refuses))

\* The push leaves no leaf out, on any device (_handle_devinfo: "Create the interior
\* nodes first").
NothingAbandoned == ClosedSession => \A i \in DOMAIN Values : Values[i].uri \in present \cup push.refuses

\* What the device says of the nodes that it owns is kept, its newest word on each,
\* also when it comes between two messages of a package.
InventoryRight ==
    ClosedSession => \A i \in DOMAIN DeviceQuery :
        LET uri == DeviceQuery[i].uri IN
        uri \in push.has => uri \in DOMAIN mo_values /\ mo_values[uri] = "of-device"
=============================================================================
