----------------------------- MODULE MCContent -----------------------------
(***************************************************************************)
(* What a client is given on either plane: a document of the OMA-CP plane, or *)
(* a tree of the OMA-DM plane. The planes share nothing here but the run.     *)
(***************************************************************************)
EXTENDS Document, DmTree, TLC

-----------------------------------------------------------------------------
(* Documents.                                                                *)

MCContext == "{imsi}" :> "001" @@ "{msisdn}" :> "82"

Services == <<"ap2002", "SERVICES">>
Parm(path, parm, default) ==
    [path |-> path, parm |-> parm, type |-> "chr", default |-> default, required |-> FALSE,
     profiles |-> {}, remove |-> FALSE]

Chat == [Parm(Services, "ChatAuth", "1") EXCEPT !.type = "bool01"]
Ft   == [Parm(Services, "FtAuth", "1") EXCEPT !.profiles = {"UP"}]
Size == Parm(<<"ap2002", "MESSAGING", "FT">>, "MaxSize", "9")
Impi == Parm(<<"ap2001">>, "Impi", "{imsi}")
Name == [Parm(<<"OTHER">>, "Name", "") EXCEPT !.required = TRUE]

Bases == {<<Chat, Ft, Size, Impi, Name>>, <<Impi, Name, Chat, Size, Ft>>, <<Chat, Ft, Chat>>}

Removes(e) == [e EXCEPT !.remove = TRUE]
Overlays == {<<>>, <<[Chat EXCEPT !.default = "0"]>>, <<Removes(Chat), Parm(Services, "New", "{x}")>>,
             <<Removes(Ft), Ft, [Ft EXCEPT !.default = "2", !.profiles = {}]>>,
             <<Parm(Services, "New", "n"), [Chat EXCEPT !.default = ""], Removes(Size), Removes(Size)>>,
             <<[Chat EXCEPT !.default = "yes"]>>}

OverridesOf == {<<>>, Key(Chat) :> "" @@ Key(Name) :> "{imsi}", Key(Impi) :> "{msisdn}" @@ Key(Ft) :> "7",
                Key(Chat) :> "yes"}

MCCatalogues ==
    [base : Bases, overlay : Overlays, profile : {"UP", "other"}, overrides : OverridesOf,
     apps : {{}, {"ap2002"}, {"ap2001"}}, smsApp : {0, 1}, token : {TRUE}, account : BOOLEAN]

-----------------------------------------------------------------------------
(* Trees. An object with leaves before their nodes, with a leaf below a node  *)
(* that is not declared; one that lies inside it; objects with errors.        *)

Leaf(uri, source, default, feature) ==
    [uri |-> uri, interior |-> FALSE, source |-> source, default |-> default, feature |-> feature]
Inner(uri) == [uri |-> uri, interior |-> TRUE, source |-> "server", default |-> "", feature |-> ""]

DevInfo == [root |-> <<"D">>, sound |-> TRUE,
            nodes |-> <<Inner(<<"D">>), Leaf(<<"D", "m">>, "device", "", ""),
                      Leaf(<<"D", "v">>, "device", "", "")>>]
Ims == [root |-> <<"I">>, sound |-> TRUE,
        nodes |-> <<Leaf(<<"I", "1", "t">>, "server", "5", "volte"), Inner(<<"I", "1">>), Inner(<<"I">>),
                    Leaf(<<"I", "1", "L", "u">>, "server", "6", "rcs"), Leaf(<<"I", "e">>, "server", "{msisdn}", "")>>]
Rcs == [root |-> <<"I", "R">>, sound |-> TRUE,
        nodes |-> <<Inner(<<"I", "R">>), Leaf(<<"I", "R", "c">>, "server", "1", "rcs")>>]

Trees == {<<DevInfo, Ims>>, <<DevInfo, Ims, Rcs>>, <<Rcs, DevInfo, Ims>>,
          <<DevInfo, [Ims EXCEPT !.root = <<"D">>]>>, <<Ims, [Rcs EXCEPT !.root = <<"I">>]>>,
          <<[Rcs EXCEPT !.nodes = @ \o @]>>, <<Rcs, [DevInfo EXCEPT !.sound = FALSE]>>}

Command(name, uri, data) == [name |-> name, uri |-> uri, data |-> data]
Sayings == {<<Command("Alert", <<>>, ""), Command("Replace", <<"D", "m">>, "old"), Command("Replace", <<"I", "1", "t">>, "x"),
              Command("Delete", <<"I">>, ""), Command("Search", <<>>, ""), Command("Add", <<"Q">>, "q")>>}

Owned == {<<"D">>, <<"D", "m">>, <<"D", "v">>}
Subscriber(volte, overrides) ==
    [volte |-> volte, overrides |-> overrides, context |-> "{msisdn}" :> "82"]
NoSubscriber == [volte |-> TRUE, overrides |-> <<>>, context |-> "{msisdn}" :> ""]
Whose == {NoSubscriber, Subscriber(TRUE, <<>>), Subscriber(FALSE, <<"I", "e">> :> "o"),
          Subscriber(TRUE, <<"I", "e">> :> "{msisdn}" @@ <<"I", "1", "t">> :> "9")}

MCPushes ==
    {w @@ d : w \in Whose,
              d \in [objects : Trees, says : Sayings, refuses : {{}, {<<"I", "1", "t">>}},
                     has : {Owned, Owned \cup {<<"I">>}, Owned \cup {<<"I">>, <<"I", "1">>, <<"I", "1", "L">>}}]}

-----------------------------------------------------------------------------

VARIABLE plane

\* The other plane stays at one of its initial states.
OneOf(S) == CHOOSE x \in S : TRUE

Init ==
    /\ plane \in {"cp", "dm"}
    /\ DocInit /\ TreeInit
    /\ plane = "cp" => push = OneOf(MCPushes)
    /\ plane = "dm" => case = OneOf(MCCatalogues)

\* The document is sent, the session is closed, or a catalogue is refused.
Ended == stage \in {"sent", "CatalogError"} \/ phase \in {"closed", "CatalogError"}

Next ==
    \/ plane = "cp" /\ DocNext /\ UNCHANGED <<treeVars, plane>>
    \/ plane = "dm" /\ TreeNext /\ UNCHANGED <<docVars, plane>>
    \/ Ended /\ UNCHANGED <<docVars, treeVars, plane>>

Spec == Init /\ [][Next]_<<docVars, treeVars, plane>>
=============================================================================
