------------------------------ MODULE Document ------------------------------
(***************************************************************************)
(* The OMA-CP document: the catalogue with the overlay of a profile, and the *)
(* document that is built from it for one request.                           *)
(*                                                                         *)
(*   acs/protocol/omacp/catalog.py    load_catalog                          *)
(*   acs/protocol/omacp/builder.py    build_document                        *)
(*   acs/protocol/omacp/document.py   Characteristic, ProvisioningDoc        *)
(*                                                                         *)
(* A characteristic is named by the path from the root, where an APPLICATION *)
(* is told from others by its AppID. Values are few: what matters is whether *)
(* one is empty, counts as true, or holds a placeholder.                     *)
(***************************************************************************)
EXTENDS Integers, Sequences, SequencesExt

CONSTANTS
    Apps,       \* AppIDs: heads of a path written "APPLICATION:<AppID>"
    Context,    \* what the known placeholders stand for
    Catalogues  \* what is built from what, one record for each case:
                \*   base, overlay   entries in the order of the files
                \*   profile         the resolved profile
                \*   overrides       of the subscriber, by path and parm
                \*   apps, smsApp    app= and default_sms_app of the request
                \*   token, account  there is a token, and a DM account to bootstrap

VARIABLES
    case,       \* the case
    stage,      \* what load_catalog and build_document do next
    index,      \* the entry that is next in that stage
    order,      \* load_catalog: the keys, in order
    merged,     \* load_catalog: the entry of each key
    doc         \* the characteristics in the order of their creation, each with its parms

docVars == <<case, stage, index, order, merged, doc>>

Key(e) == <<e.path, e.parm>>

\* The stages, with the entries each of them goes through.
Entries ==
    CASE stage = "base" -> case.base
      [] stage = "overlay" -> case.overlay
      [] stage = "build" -> [i \in DOMAIN order |-> merged[order[i]]]
      [] OTHER -> <<>>
After == [base |-> "overlay", overlay |-> "build", build |-> "policy"]

DocInit ==
    /\ case \in Catalogues
    /\ stage = "base"
    /\ index = 1
    /\ order = <<>>
    /\ merged = <<>>
    /\ doc = <<>>

InStage(s) == stage = s /\ index <= Len(Entries)
Entry == Entries[index]

Step == index' = index + 1 /\ UNCHANGED <<case, stage>>

\* A dictionary with one more or one other entry, or one less.
With(d, k, v)  == [x \in DOMAIN d \cup {k} |-> IF x = k THEN v ELSE d[x]]
Without(d, k)  == [x \in DOMAIN d \ {k} |-> d[x]]

-----------------------------------------------------------------------------
(* load_catalog.                                                             *)

\* _coerce_entry: an entry has a type that is known and a default of that type.
Valid(e) ==
    /\ e.type \in {"chr", "int", "bool01", "enum"}
    /\ e.type = "bool01" => e.default \in {"", "0", "1"}

CatalogError == stage' = "CatalogError" /\ UNCHANGED <<case, index, order, merged>>

\* An entry of base.yaml; one that repeats a key is an error.
LoadBase ==
    /\ InStage("base")
    /\ \/ /\ ~Valid(Entry) \/ Key(Entry) \in DOMAIN merged
          /\ CatalogError
       \/ /\ Valid(Entry) /\ Key(Entry) \notin DOMAIN merged
          /\ merged' = With(merged, Key(Entry), Entry)
          /\ order' = Append(order, Key(Entry))
          /\ Step
    /\ UNCHANGED doc

\* An entry of the overlay that says remove.
OverlayRemoves ==
    /\ InStage("overlay")
    /\ Entry.remove
    /\ merged' = Without(merged, Key(Entry))
    /\ order' = SelectSeq(order, LAMBDA k : k # Key(Entry))
    /\ Step
    /\ UNCHANGED doc

\* A key that is new goes to the end; one that is replaced keeps its place.
NewKeys(k) == IF k \in DOMAIN merged THEN <<>> ELSE <<k>>

OverlayPuts ==
    /\ InStage("overlay")
    /\ ~Entry.remove
    /\ \/ ~Valid(Entry) /\ CatalogError
       \/ /\ Valid(Entry)
          /\ merged' = With(merged, Key(Entry), Entry)
          /\ order' = order \o NewKeys(Key(Entry))
          /\ Step
    /\ UNCHANGED doc

\* VERS, and TOKEN where there is one, come before the entries.
Preamble(c) ==
    <<[path |-> <<"VERS">>, parms |-> <<[name |-> "version", value |-> "1"], [name |-> "validity", value |-> "1"]>>]>>
    \o IF c.token THEN <<[path |-> <<"TOKEN">>, parms |-> <<[name |-> "token", value |-> "1"]>>]>> ELSE <<>>

\* All entries of a stage are done.
NextStage ==
    /\ stage \in DOMAIN After /\ index > Len(Entries)
    /\ stage' = After[stage]
    /\ index' = 1
    /\ doc' = IF After[stage] = "build" THEN Preamble(case) ELSE doc
    /\ UNCHANGED <<case, order, merged>>

-----------------------------------------------------------------------------
(* build_document.                                                           *)

\* for_profile and _selected_entries.
Selected(c, e) ==
    /\ e.profiles = {} \/ c.profile \in e.profiles
    /\ c.apps = {} \/ Head(e.path) \notin Apps \/ Head(e.path) \in c.apps

\* Mutant: an empty override is no override.
RawOrDefault(c, e) ==
    IF Key(e) \in DOMAIN c.overrides /\ c.overrides[Key(e)] # "" THEN c.overrides[Key(e)] ELSE e.default

\* An override of the subscriber goes before the default.
RawValue(c, e) == IF Key(e) \in DOMAIN c.overrides THEN c.overrides[Key(e)] ELSE e.default

\* render: a placeholder that is not known stays.
Render(raw) == IF raw \in DOMAIN Context THEN Context[raw] ELSE raw

\* _coerce_value.
Coerce(e, value) ==
    IF e.type = "bool01" THEN IF value \in {"1", "true", "True", "yes"} THEN "1" ELSE "0" ELSE value

\* The characteristics above a path, and it, that the document lacks. An
\* APPLICATION starts with its AppID.
Missing(path) ==
    LET prefixes == [i \in 1 .. Len(path) |-> SubSeq(path, 1, i)]
        lacking  == SelectSeq(prefixes, LAMBDA p : \A i \in DOMAIN doc : doc[i].path # p)
    IN  [i \in DOMAIN lacking |->
            [path |-> lacking[i],
             parms |-> IF Len(lacking[i]) = 1 /\ Head(path) \in Apps
                       THEN <<[name |-> "AppID", value |-> Head(path)]>> ELSE <<>>]]

\* add_parm on the characteristic that _ensure_path finds or creates.
AddParm(e, value) ==
    LET all == doc \o Missing(e.path)
        at  == SelectInSeq(all, LAMBDA c : c.path = e.path)
    IN  [all EXCEPT ![at].parms = Append(@, [name |-> e.parm, value |-> value])]

Emit ==
    /\ InStage("build")
    /\ Selected(case, Entry)
    /\ RawValue(case, Entry) # "" \/ Entry.required
    /\ doc' = AddParm(Entry, Coerce(Entry, Render(RawValue(case, Entry))))
    /\ Step
    /\ UNCHANGED <<order, merged>>

\* An entry of another profile or AppID, or an empty value that nobody requires.
Skip ==
    /\ InStage("build")
    /\ ~Selected(case, Entry) \/ (RawValue(case, Entry) = "" /\ ~Entry.required)
    /\ Step
    /\ UNCHANGED <<order, merged, doc>>

SmsAppParms == {"standaloneMsgAuth", "ChatAuth", "GroupChatAuth"}

\* _apply_default_sms_app_policy, for the SERVICES of the RCS application.
Policy(c, d) ==
    IF c.smsApp # 0 THEN d
    ELSE [i \in DOMAIN d |->
            IF d[i].path # <<"ap2002", "SERVICES">> THEN d[i]
            ELSE [d[i] EXCEPT !.parms = [j \in DOMAIN @ |->
                    IF @[j].name \in SmsAppParms THEN [@[j] EXCEPT !.value = "0"] ELSE @[j]]]]

ApplyPolicy ==
    /\ stage = "policy"
    /\ doc' = Policy(case, doc)
    /\ stage' = "account"
    /\ UNCHANGED <<case, index, order, merged>>

\* dm_account_characteristic, whatever the request asks for.
Account == [path |-> <<"w7">>, parms |-> <<[name |-> "AppID", value |-> "w7"], [name |-> "AAUTHSECRET", value |-> "1"]>>]

AddAccount ==
    /\ stage = "account"
    /\ doc' = IF case.account THEN Append(doc, Account) ELSE doc
    /\ stage' = "sent"
    /\ UNCHANGED <<case, index, order, merged>>

DocNext == LoadBase \/ OverlayRemoves \/ OverlayPuts \/ NextStage \/ Emit \/ Skip \/ ApplyPolicy \/ AddAccount

-----------------------------------------------------------------------------
(* Properties.                                                               *)

\* The entry that counts for a key: the overlay's last word on it, or the base's.
Places(entries, k) == {i \in DOMAIN entries : Key(entries[i]) = k}
LastPlace(entries, k) == CHOOSE i \in Places(entries, k) : \A j \in Places(entries, k) : j <= i
Effective(k) ==
    IF Places(case.overlay, k) # {} THEN {case.overlay[LastPlace(case.overlay, k)]}
    ELSE {case.base[i] : i \in Places(case.base, k)}

Keys == {Key(e) : e \in ToSet(case.base) \cup ToSet(case.overlay)}

\* What the subscriber's override, or else the entry that counts, says.
Says(k, e) == IF k \in DOMAIN case.overrides THEN case.overrides[k] ELSE e.default

\* An entry is for the client if its profile and its AppID are asked for, or are for all.
ForClient(k, e) ==
    /\ ~e.remove
    /\ e.profiles # {} => case.profile \in e.profiles
    /\ k[1][1] \in Apps /\ case.apps # {} => k[1][1] \in case.apps
    /\ Says(k, e) = "" => e.required

\* The value that the document has to give a key; none is {}.
Expected(k) ==
    {IF case.smsApp = 0 /\ k[1] = <<"ap2002", "SERVICES">> /\ k[2] \in SmsAppParms THEN "0"
     ELSE Coerce(e, Render(Says(k, e))) : e \in {x \in Effective(k) : ForClient(k, x)}}

\* Where the document has a key: characteristic and position.
Found(k) ==
    UNION {{<<i, j>> : j \in {n \in DOMAIN doc[i].parms : doc[i].parms[n].name = k[2]}} :
              i \in {c \in DOMAIN doc : doc[c].path = k[1]}}

\* A parameter of the base that the overlay leaves or replaces keeps its place among the
\* others of its characteristic, whatever the overlay removes and adds.
OrderKept ==
    \A m, n \in DOMAIN case.base :
        LET k == Key(case.base[m])  l == Key(case.base[n]) IN
        (/\ m < n /\ k[1] = l[1]
         /\ \A e \in ToSet(case.overlay) : e.remove => Key(e) \notin {k, l})
        => \A p \in Found(k), q \in Found(l) : p[2] < q[2]

\* Every parameter is sent once, in the one characteristic of its path, with the value
\* of the override, else of the overlay, else of the base; what was removed, belongs to
\* another profile or AppID, or is empty and not required is not sent; messaging is off
\* for a client that is not the default SMS application; and the order follows the
\* catalogue (docs/protocol.md). A base that says a parameter twice, or a default that
\* its type does not have, is never served.
DocumentRight ==
    stage = "sent" =>
        /\ \A i, j \in DOMAIN doc : doc[i].path = doc[j].path => i = j
        /\ \A k \in Keys : {doc[p[1]].parms[p[2]].value : p \in Found(k)} = Expected(k)
        /\ \A k \in Keys : \A p, q \in Found(k) : p = q
        /\ doc[1].path = <<"VERS">>
        /\ OrderKept
        /\ \A m, n \in DOMAIN case.base : Key(case.base[m]) = Key(case.base[n]) => m = n
        /\ \A e \in ToSet(case.base \o case.overlay) : e.type = "bool01" /\ ~e.remove => e.default \in {"", "0", "1"}

\* Only the APPLICATION blocks that the client asks for are sent (build_document).
OnlyWantedApps ==
    stage = "sent" /\ case.apps # {} =>
        \A i \in DOMAIN doc : Head(doc[i].path) \in case.apps \cup {"VERS", "TOKEN", "OTHER"}
=============================================================================
