--------------------------- MODULE MCSendPipeline ---------------------------
EXTENDS SendPipeline, TLC

CONSTANTS c1, c2, b1, b2,
          chatA, chatB, badId,               \* chat ids, one no UUID
          aliasA, aliasB, idA, broken, gone, \* names: aliases, a UUID, an alias
                                             \* with a bad id, an unknown alias
          admin, team, controller, signed    \* keys

MCChatOf == (aliasA :> chatA) @@ (aliasB :> chatB) @@ (idA :> chatA)
            @@ (broken :> badId) @@ (gone :> Unresolved)
MCBoundBot == (aliasA :> b1) @@ (aliasB :> b2) @@ (idA :> None)
              @@ (broken :> b1) @@ (gone :> None)
MCScope   == [k \in Keys |-> IF k = team THEN {chatB} ELSE {}]
MCOwnChat == [k \in Keys |-> IF k = team THEN aliasB ELSE None]
MCAuthBot == [k \in Keys |-> IF k = signed THEN b1 ELSE None]
MCPairs   == {<<b1, chatA>>, <<b2, chatB>>, <<None, chatA>>}
MCBotSets == {{b1, b2}, {b1}}
MCHookDefault == [s \in Surfaces |-> IF s = "grafana" THEN aliasB ELSE None]

Ask1(surface, key, names, bot) ==
  [surface |-> surface, key |-> key, names |-> names, bot |-> bot, valid |-> TRUE]

(* One request for each way through the checks.                            *)
MCRequests ==
  { Ask1("send", controller, <<aliasA, aliasB>>, None),
    Ask1("send", controller, <<idA>>, b1),
    Ask1("send", controller, <<broken>>, None),
    Ask1("send", controller, <<idA>>, None),
    Ask1("send", team, <<aliasB, gone>>, None),
    Ask1("send", team, <<aliasB, aliasA>>, None),
    Ask1("send", team, <<>>, None),
    Ask1("alertmanager", admin, <<aliasA, gone, aliasA, idA>>, None),
    Ask1("grafana", team, <<>>, None),
    Ask1("incidentrelay", signed, <<>>, None),
    Ask1("mattermost", admin, <<gone>>, None),
    Ask1("mattermost", signed, <<aliasB>>, None),
    Ask1("edit", admin, <<aliasB>>, None),
    Ask1("edit", team, <<aliasB>>, None),
    [Ask1("mattermost", signed, <<aliasA>>, None) EXCEPT !.valid = FALSE] }
=============================================================================
