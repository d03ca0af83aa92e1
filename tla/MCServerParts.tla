--------------------------- MODULE MCServerParts ---------------------------
(***************************************************************************)
(* The parts of the server that share no state, in one run: `part` is the  *)
(* one that runs, chosen at the start, so that they are explored one after *)
(* the other and never as a product.                                       *)
(***************************************************************************)
EXTENDS LogoCatalog, XmltvIndex, EpgGuide, PanelProxy, Accounts, PlaylistRows,
        CaptureLoop, SeasonPasses, RequestGate, DiskRotation, TLC

CONSTANTS c1, c2,                  \* two requests of each part
          ch, hostA, hostB, lan, alice, bob, former, fresh

VARIABLE part
partsVars == <<part, logoVars, xmlVars, epgVars, proxyVars, accVars, rowVars,
              capLoopVars, passVars, gateVars, diskVars>>

PartsInit ==
    /\ part \in {"logos", "xmltv", "epg", "proxy", "accounts",
             "playlists", "capture", "passes", "gate", "disk"}
    /\ LogoInit
    /\ XmlInit
    /\ EpgInit
    /\ ProxyInit
    /\ AccInit
    /\ RowInit
    /\ CapInit
    /\ PassInit
    /\ GateInit
    /\ DiskInit
    \* A part that does not run has one initial state.
    /\ part = "epg" \/ ~hasXmltv
    /\ part = "proxy" \/ resolves[ch] = hostA
    /\ part = "accounts" \/ user[alice].pw = former
    /\ part = "capture" \/ ~viaProxy
    /\ part = "passes" \/ airs["sd"] = {}
PartsNext ==
    \/ /\ part = "logos" /\ LogoNext
       /\ UNCHANGED <<part, xmlVars, epgVars, proxyVars, accVars, rowVars,
                      capLoopVars, passVars, gateVars, diskVars>>
    \/ /\ part = "xmltv" /\ XmlNext
       /\ UNCHANGED <<part, logoVars, epgVars, proxyVars, accVars, rowVars,
                      capLoopVars, passVars, gateVars, diskVars>>
    \/ /\ part = "epg" /\ EpgNext
       /\ UNCHANGED <<part, logoVars, xmlVars, proxyVars, accVars, rowVars,
                      capLoopVars, passVars, gateVars, diskVars>>
    \/ /\ part = "proxy" /\ ProxyNext
       /\ UNCHANGED <<part, logoVars, xmlVars, epgVars, accVars, rowVars,
                      capLoopVars, passVars, gateVars, diskVars>>
    \/ /\ part = "accounts" /\ AccNext
       /\ UNCHANGED <<part, logoVars, xmlVars, epgVars, proxyVars, rowVars,
                      capLoopVars, passVars, gateVars, diskVars>>
    \/ /\ part = "playlists" /\ RowNext
       /\ UNCHANGED <<part, logoVars, xmlVars, epgVars, proxyVars, accVars,
                      capLoopVars, passVars, gateVars, diskVars>>
    \/ /\ part = "capture" /\ CapNext
       /\ UNCHANGED <<part, logoVars, xmlVars, epgVars, proxyVars, accVars,
                      rowVars, passVars, gateVars, diskVars>>
    \/ /\ part = "passes" /\ PassNext
       /\ UNCHANGED <<part, logoVars, xmlVars, epgVars, proxyVars, accVars,
                      rowVars, capLoopVars, gateVars, diskVars>>
    \/ /\ part = "gate" /\ GateNext
       /\ UNCHANGED <<part, logoVars, xmlVars, epgVars, proxyVars, accVars,
                      rowVars, capLoopVars, passVars, diskVars>>
    \/ /\ part = "disk" /\ DiskNext
       /\ UNCHANGED <<part, logoVars, xmlVars, epgVars, proxyVars, accVars,
                      rowVars, capLoopVars, passVars, gateVars>>

Symmetric == Permutations({c1, c2})

(***************************************************************************)
(* Logos: a channel with a variant of another country, and a brand of one  *)
(* word that must not lend its logo, and a longer name that is live.       *)
(***************************************************************************)
MCLogoNames == {<<"fr", "-", "bein", "sports", "live", "1", "fhd">>, <<"rmc", "5">>}
MCFiles == { {<<"bein", "sports", "1", "french", "fr">>, <<"bein", "sports", "1", "asia">>,
              <<"rmc", "fr">>},
             {<<"bein", "sports", "fr">>, <<"rmc", "sport", "fr">>},
             {<<"bein", "sports", "live", "1", "max", "fr">>} }
MCRank == [k \in UNION Catalogues |-> IF Last(k) = "french" THEN 5 ELSE Len(k)]

(***************************************************************************)
(* XMLTV: two dumps that name the same channels differently, one channel   *)
(* that gives itself the name of another, and a "+1" channel.              *)
(***************************************************************************)
TF1Id == <<"tf1", ".", "fr">>
TF1   == <<"tf1">>
RTSId == <<"rts", ".", "ch">>
TF1HD == <<"tf1", "hd">>
Show(c, from, to) == [channel |-> c, start |-> from, stop |-> to]
Chan(id, names) == [id |-> id, names |-> names]
MCDumps ==
    { [channels |-> <<Chan(RTSId, <<TF1HD, TF1>>), Chan(TF1Id, <<TF1>>)>>,
       programmes |-> {Show(RTSId, 0, 1), Show(TF1Id, 0, 2), Show(TF1, 1, 2)}],
      [channels |-> <<Chan(TF1Id, <<TF1HD, TF1>>)>>,
       programmes |-> {Show(TF1Id, 1, 2), Show(RTSId, -3, -2), Show(RTSId, 4, 5)}] }
MCWishes == {[id |-> <<>>, name |-> <<"|", "fr", "|", "tf1", "+", "1", "*">>],
             [id |-> TF1Id, name |-> TF1HD]}

(***************************************************************************)
(* Season passes: one show on two channels, one of which repeats it; its   *)
(* first airing is shorter than the unit of time.                          *)
(***************************************************************************)
Airing(from, to) == [title |-> "show", start |-> from, end |-> to]
MCPassChannel == (1 :> "hd") @@ (2 :> "sd")
MCPassShow == (1 :> "show") @@ (2 :> "show")
MCPassGuides == ("hd" :> {{Airing(0, 0), Airing(3, 4)}}) @@ ("sd" :> {{Airing(1, 3)}, {}})
MCMatches == "show" :> {"show"}

(***************************************************************************)
(* Requests: a line of one entry at most.  lo, beside the server, sends a  *)
(* line of its own; proxy, when there is one before lo, joins the lines.   *)
(***************************************************************************)
MCWritten == {<<>>} \cup {<<h>> : h \in {"m1", Illegible, Garbled}}
MCPaths == {<<>>, <<"lo">>, <<"proxy", "lo">>}
=============================================================================
