---------------------------- MODULE MCConfigFile ----------------------------
(***************************************************************************)
(* Two commands at a time on one file: two bots that both list u1, two     *)
(* chats of one name, contents with and without a default, an alias that   *)
(* is written like an id.                                                  *)
(***************************************************************************)
EXTENDS ConfigFile

CONSTANTS b1, b2, u1, u2, u3, ops, news, k1, p1, p2

MCProcs == {p1, p2}
MCUUIDs == {u1, u2, u3}
MCSlug == [x \in {Unset, b1, b2} \X MCUUIDs |->
             <<x[1], IF x[2] = u3 THEN news ELSE ops>>]
MCAutoNames == <<b1, b2>>
MCBotOrder == <<b1, b2>>
MCListing == [b \in {b1, b2} |-> IF b = b1 THEN <<u1, u2>> ELSE <<u1, u3>>]

Ops == <<<<Unset, ops>>, 1>>
News == <<<<Unset, news>>, 1>>

Bot(id) == [id |-> id, cred |-> "secret"]
Content(bots, chats) == [bots |-> bots, chats |-> chats, keys |-> <<>>, cache |-> "file"]
TwoBots == (b1 :> Bot(b1)) @@ (b2 :> Bot(b2))

MCInitial ==
  {Content(TwoBots, <<>>),
   Content(TwoBots, (Ops :> Chat(u1, b2, FALSE)) @@ (News :> Chat(u3, b1, TRUE))),
   Content(TwoBots, (Ops :> Chat(u2, Unset, FALSE))),
   Content(b1 :> Bot(b1), (Ops :> Chat(u1, Unset, TRUE)) @@ (News :> Chat(u3, b2, FALSE)))}

Fields == [bot |-> Unset, chat |-> Unset, creds |-> FALSE, manual |-> FALSE, host |-> FALSE,
           alias |-> Unset, id |-> Unset, default |-> "keep", name |-> Unset, cred |-> "secret",
           all |-> FALSE, asks |-> FALSE, noCache |-> FALSE, onConflict |-> "fail", dryRun |-> FALSE]

Cmd(kind, given) == given @@ [kind |-> kind] @@ Fields

MCCommands ==
  {Cmd("set", [alias |-> Ops, id |-> u3, default |-> "set"]),
   Cmd("set", [alias |-> News, id |-> u2, bot |-> b2, default |-> "clear"]),
   Cmd("rm", [alias |-> News]),
   Cmd("add", [alias |-> News, id |-> u3, default |-> "set", noCache |-> TRUE]),
   Cmd("find", [id |-> u2, bot |-> b1]),
   Cmd("find", [id |-> u3, alias |-> News, default |-> "set"]),
   Cmd("import", [bot |-> b1]),
   Cmd("import", [onConflict |-> "skip"]),
   Cmd("import", [all |-> TRUE]),
   Cmd("import", [bot |-> b2, onConflict |-> "overwrite"]),
   Cmd("botAdd", [id |-> b2, cred |-> "token", asks |-> TRUE]),
   Cmd("botRm", [name |-> b2]),
   Cmd("keyAdd", [name |-> k1, chat |-> News]),
   Cmd("keyRm", [name |-> k1]),
   Cmd("edit", <<>>),
   Cmd("info", <<>>), Cmd("info", [chat |-> Ops]), Cmd("info", [chat |-> u1]),
   Cmd("send", <<>>), Cmd("send", [chat |-> News]), Cmd("send", [chat |-> u1, bot |-> b1]),
   Cmd("api", <<>>), Cmd("api", [manual |-> TRUE, host |-> TRUE])}

MCEdits == {Content(TwoBots, <<>>),
            Content(TwoBots, u1 :> Chat(u2, b1, TRUE)),
            Content(TwoBots, (Ops :> Chat(u1, Unset, TRUE)) @@ (News :> Chat(u3, b2, TRUE))),
            Content(TwoBots, (Ops :> Chat(u1, b1, FALSE)) @@ (News :> Chat(u2, b2, TRUE)))}
=============================================================================
