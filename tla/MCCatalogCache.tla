--------------------------- MODULE MCCatalogCache ---------------------------
EXTENDS CatalogCache, TLC

CONSTANTS w1, w2, old, new,
          chatA, chatB, bot1, bot2,     \* ids
          deploy, fresh, alerts, oncall,  \* aliases of chats and bots
          admin, team

(* In the new configuration deploy has moved to another chat and bot, and  *)
(* fresh is there.                                                         *)
MCConfOf == (w1 :> old) @@ (w2 :> new)
MCScope  == [k \in Keys |-> IF k = team THEN {chatA} ELSE {}]

MCChatOf ==
  [c \in Contents |-> [a \in Aliases |->
     CASE a = deploy -> IF c = old THEN chatA ELSE chatB
       [] a = fresh /\ c = new -> chatA
       [] OTHER -> Unresolved]]

MCBoundBot ==
  [c \in Contents |-> [a \in Aliases |->
     CASE a = deploy -> IF c = old THEN alerts ELSE oncall
       [] OTHER -> None]]

MCBotOf ==
  [c \in Contents |-> [a \in Aliases |->
     CASE a = alerts -> IF c = old THEN bot1 ELSE bot2
       [] a = oncall /\ c = new -> bot1
       [] OTHER -> Unresolved]]

Ask(by, key, mode, botID, bot, chats) ==
  [by |-> by, key |-> key, mode |-> mode, botID |-> botID, bot |-> bot, chats |-> chats]

MCRequests ==
  { Ask("serve", team, "mixed", None, None, <<deploy, fresh>>),
    Ask("serve", team, "mixed", None, alerts, <<fresh, deploy>>),
    Ask("serve", team, "mixed", bot1, None, <<chatA, chatB>>),
    Ask("serve", admin, "catalog", alerts, None, <<chatA, deploy>>),
    Ask("serve", admin, "direct", bot1, None, <<chatA, deploy>>),
    Ask("serve", admin, "mixed", bot1, None, <<chatB>>),
    Ask("enqueue", admin, "mixed", None, None, <<deploy, fresh>>),
    Ask("enqueue", admin, "mixed", None, alerts, <<deploy, fresh>>),
    Ask("enqueue", admin, "direct", bot1, None, <<chatA, chatB>>) }
=============================================================================
