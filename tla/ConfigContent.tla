--------------------------- MODULE ConfigContent ---------------------------
(***************************************************************************)
(* What the configuration file says and what the commands make of it:      *)
(* which bot and chat a command works with, and what a command that        *)
(* changes the file changes.  Pure functions of a content; ConfigFile lets *)
(* commands apply them to a file they share.                               *)
(*                                                                         *)
(* An id of a bot stands for host and id.  An alias is a pair of a name    *)
(* and a number: <<"ops", 2>> is written ops-2, <<"ops", 1>> ops.          *)
(* Credentials of the environment or of flags come all together or not,    *)
(* and the file was found where commands look for one.                     *)
(***************************************************************************)
EXTENDS Naturals, Sequences, SequencesExt, FiniteSets, FiniteSetsExt

CONSTANTS Unset, Error,
          UUIDs,      \* ids of chats
          Slug,       \* the alias made of a prefix and a chat's name
          AutoNames,  \* bot1, bot2, ...: a bound, bot add fails when all are taken
          Listing     \* the chats BotX lists for a bot, in the order of import

Empty == [bots |-> <<>>, chats |-> <<>>, keys |-> <<>>, cache |-> "file"]

Chat(id, bot, default) == [id |-> id, bot |-> bot, default |-> default]

(* A bot has a name, which tells the bot it is from none.                  *)
IsContent(c) ==
  /\ c = [bots |-> c.bots, chats |-> c.chats, keys |-> c.keys, cache |-> c.cache]
  /\ Unset \notin DOMAIN c.bots
  /\ \A a \in DOMAIN c.chats :
       LET x == c.chats[a] IN x = Chat(x.id, x.bot, x.default) /\ x.default \in BOOLEAN

ASSUME ContentAssumption ==
  /\ Error # Empty
  /\ Unset \notin UUIDs
  /\ AutoNames \in Seq(Range(AutoNames) \ {Unset})
  /\ \A b \in DOMAIN Listing : Listing[b] \in Seq(UUIDs)

IsUUID(ref) == ref \in UUIDs

Defaults(c) == {a \in DOMAIN c.chats : c.chats[a].default}

(* ValidateDefaultChat.                                                    *)
OneDefault(c) == \A a, b \in Defaults(c) : a = b

(* validateBotConfigs.                                                     *)
BotsValid(c) == \A n \in DOMAIN c.bots : c.bots[n].cred # "both"

(* ValidateConfig; unknown bots of chats and unknown events are tolerated. *)
ConfigValid(c) == c # Error /\ BotsValid(c) /\ OneDefault(c)

TheOnly(S) == CHOOSE x \in S : TRUE
-----------------------------------------------------------------------------
(* Which bot and which chat.                                               *)

(* Mutant: the chat given is not looked at.                                *)
BotOfDefault(c, chat) ==
  IF Cardinality(DOMAIN c.chats) = 1 THEN c.chats[TheOnly(DOMAIN c.chats)].bot
  ELSE IF Defaults(c) # {} THEN c.chats[TheOnly(Defaults(c))].bot
  ELSE Unset

(* resolveChatBotFromFlags: the bot bound to the chat a command is for.    *)
ChatBotFromFlags(c, chat) ==
  IF chat # Unset
  THEN IF chat \in DOMAIN c.chats THEN c.chats[chat].bot ELSE Unset
  ELSE IF Cardinality(DOMAIN c.chats) = 1 THEN c.chats[TheOnly(DOMAIN c.chats)].bot
  ELSE IF Defaults(c) # {} THEN c.chats[TheOnly(Defaults(c))].bot
  ELSE Unset

(* ApplyChatBot.                                                           *)
Known(c, name) == IF name \in DOMAIN c.bots THEN name ELSE Error

(* resolveBot, applyEnv, applyFlags, clearStaleBotName: a bot of the       *)
(* config, "env" for credentials given otherwise, Unset for none yet.       *)
NamedBot(c, u) ==
  IF u.bot # Unset /\ u.bot \notin DOMAIN c.bots THEN Error
  ELSE IF u.creds THEN "env"
  ELSE IF u.bot # Unset THEN u.bot
  ELSE IF Cardinality(DOMAIN c.bots) = 1 THEN TheOnly(DOMAIN c.bots)
  ELSE Unset

(* Load: one bot, by name, by credentials, by the binding of the chat.     *)
Load(c, u) ==
  IF ~ConfigValid(c) THEN Error
  ELSE IF NamedBot(c, u) # Unset THEN NamedBot(c, u)
  ELSE IF DOMAIN c.bots = {} \/ ChatBotFromFlags(c, u.chat) = Unset THEN Error
  ELSE Known(c, ChatBotFromFlags(c, u.chat))

(* LoadForServe: with several bots, Unset leaves the choice to each chat.   *)
LoadForServe(c, u) ==
  IF ~ConfigValid(c) THEN Error
  ELSE IF NamedBot(c, u) = Unset /\ DOMAIN c.bots = {} THEN Error
  ELSE NamedBot(c, u)

(* LoadForAPI: without manual authorization a bot must be named; with it   *)
(* the file matters less.                                                  *)
LoadForAPI(content, u) ==
  LET c == IF content = Error /\ u.manual THEN Empty ELSE content
  IN IF ~u.manual /\ ~ConfigValid(c) THEN Error
     ELSE IF NamedBot(c, u) # Unset THEN NamedBot(c, u)
     ELSE IF u.manual /\ u.host THEN "env" ELSE Error

AliasId(c, alias) == IF c.chats[alias].id = Unset THEN Error ELSE c.chats[alias].id

(* ResolveChatRef.                                                         *)
ChatRef(c, ref) ==
  IF IsUUID(ref) THEN ref ELSE IF ref \notin DOMAIN c.chats THEN Error ELSE AliasId(c, ref)

(* RequireChatIDWithBot: the chat given, or the alias taken without one,   *)
(* whose id is the one of its section, whatever the alias looks like.      *)
RequiredChat(c, chat) ==
  IF chat # Unset THEN chat
  ELSE IF Cardinality(DOMAIN c.chats) = 1 THEN TheOnly(DOMAIN c.chats)
  ELSE IF Defaults(c) # {} THEN TheOnly(Defaults(c))
  ELSE Error

RequiredId(c, chat) ==
  IF chat # Unset THEN ChatRef(c, chat) ELSE AliasId(c, RequiredChat(c, chat))

(* SingleOrDefaultChatAlias.                                               *)
SingleOrDefault(c) == RequiredChat(c, Unset)

(* resolveSendTarget and getExec: the bot that serves one chat of send.    *)
SendBot(c, u, chat) ==
  IF LoadForServe(c, u) # Unset THEN LoadForServe(c, u)
  ELSE IF IsUUID(chat) \/ c.chats[chat].bot = Unset THEN Error
  ELSE Known(c, c.chats[chat].bot)

Target(bot, ref, id) == [bot |-> bot, ref |-> ref, id |-> id]
NoTarget == Target(Error, Error, Error)

Made(bot, ref, id) == IF Error \in {bot, ref, id} THEN NoTarget ELSE Target(bot, ref, id)

(* chats info and the other commands about one chat: Load, RequireChatID.  *)
ChatTarget(c, u) ==
  IF Load(c, u) = Error \/ RequiredChat(c, u.chat) = Error THEN NoTarget
  ELSE Made(Load(c, u), RequiredChat(c, u.chat), RequiredId(c, u.chat))

(* send, for one of its chats.                                             *)
SendTarget(c, u) ==
  LET chat == IF u.chat = Unset THEN SingleOrDefault(c) ELSE u.chat
  IN IF LoadForServe(c, u) = Error \/ chat = Error \/ ChatRef(c, chat) = Error THEN NoTarget
     ELSE Made(SendBot(c, u, chat), chat, ChatRef(c, chat))
-----------------------------------------------------------------------------
(* What the commands change.                                               *)

With(f, k, v) == [x \in DOMAIN f \cup {k} |-> IF x = k THEN v ELSE f[x]]
Without(f, k) == [x \in DOMAIN f \ {k} |-> f[x]]

(* Mutant: only an alias that is new is compared with the default.         *)
ConflictOfNew(c, exclude) == exclude \notin DOMAIN c.chats /\ Defaults(c) # {}

(* checkDefaultConflict.                                                   *)
DefaultConflict(c, exclude) == Defaults(c) \ {exclude} # {}

(* --default sets, --no-default clears, otherwise the alias keeps its flag.*)
DefaultFlag(c, alias, wish) ==
  \/ wish = "set"
  \/ wish = "keep" /\ alias \in Defaults(c)

(* The binding an alias keeps unless another is given.                     *)
KeptBot(c, alias, bot) ==
  IF bot = Unset /\ alias \in DOMAIN c.chats THEN c.chats[alias].bot ELSE bot

PutChat(c, alias, id, bot, wish) ==
  IF wish = "set" /\ DefaultConflict(c, alias) THEN Error
  ELSE [c EXCEPT !.chats = With(@, alias, Chat(id, bot, DefaultFlag(c, alias, wish)))]

ChatSet(c, cmd) == PutChat(c, cmd.alias, cmd.id, KeptBot(c, cmd.alias, cmd.bot), cmd.default)

ChatRm(c, cmd) ==
  IF cmd.alias \notin DOMAIN c.chats THEN Error ELSE [c EXCEPT !.chats = Without(@, cmd.alias)]

(* chat add with --chat-id: the binding is not kept.                       *)
ChatAdd(c, cmd) == PutChat(c, cmd.alias, cmd.id, cmd.bot, cmd.default)

Aliased(c, id) == {a \in DOMAIN c.chats : c.chats[a].id = id}

(* generateChatAlias.                                                      *)
Generated(prefix, id, taken) ==
  <<Slug[prefix, id], Min({n \in 1 .. Cardinality(taken) + 1 : <<Slug[prefix, id], n>> \notin taken})>>

(* buildChatIDIndex: of the aliases a chat has, the one a map iterates last*)
(* stands for it.                                                          *)
FoundAliases(c, cmd) ==
  IF cmd.alias # Unset THEN {cmd.alias}
  ELSE IF Aliased(c, cmd.id) # {} THEN Aliased(c, cmd.id)
  ELSE {Generated(Unset, cmd.id, {})}

(* chat add with --name, once BotX named the chat.                         *)
ChatFound(c, cmd, alias) ==
  PutChat(c, alias, cmd.id, KeptBot(c, alias, cmd.bot), cmd.default)

Importing(chats, index, taken, added, failed) ==
  [chats |-> chats, index |-> index, taken |-> taken, added |-> added, failed |-> failed]

(* One chat of an import: which bot it is bound to, with which prefix.     *)
ImportOne(acc, id, bot, prefix, cmd) ==
  LET alias == Generated(prefix, id, acc.taken)
      old == acc.chats[alias]
      Put(chat, dropped) ==
        Importing(With(acc.chats, alias, chat), (acc.index \ {dropped}) \cup {id},
                  acc.taken \cup {alias}, TRUE, FALSE)
  IN IF acc.failed \/ id \in acc.index THEN acc
     ELSE IF alias \notin DOMAIN acc.chats THEN Put(Chat(id, bot, FALSE), Unset)
     ELSE IF old.id = id \/ cmd.onConflict = "skip" THEN acc
     ELSE IF cmd.onConflict # "overwrite" THEN [acc EXCEPT !.failed = ~cmd.all]
     ELSE Put(Chat(id, IF bot = Unset THEN old.bot ELSE bot, old.default), old.id)

(* Mutant: the ids the file has are not indexed.                           *)
StartUnindexed(c) == Importing(c.chats, {}, {}, FALSE, FALSE)

StartImport(c) ==
  Importing(c.chats, {c.chats[a].id : a \in DOMAIN c.chats}, {}, FALSE, FALSE)

EndImport(c, acc, cmd) ==
  IF acc.failed \/ ~acc.added \/ cmd.dryRun THEN Error ELSE [c EXCEPT !.chats = acc.chats]

(* What import makes of the chats of one bot, which come sorted by name.   *)
ImportChats(acc, cmd, chats, bot, prefix) ==
  FoldLeft(LAMBDA sofar, id : ImportOne(sofar, id, bot, prefix, cmd), acc, chats)

(* chat import for one bot.                                                *)
Import(c, cmd, chats) ==
  EndImport(c, ImportChats(StartImport(c), cmd, chats, cmd.bot, Unset), cmd)

(* ListChats.                                                              *)
Listed(bot) == IF bot \in DOMAIN Listing THEN Listing[bot] ELSE <<>>

(* import --all: bot after bot, those BotX answered, the name a prefix.    *)
ImportBot(acc, cmd, bot, answered) ==
  IF bot \in answered THEN ImportChats(acc, cmd, Listed(bot), bot, bot) ELSE acc

ImportAll(c, cmd, bots, answered) ==
  EndImport(c, FoldLeft(LAMBDA acc, bot : ImportBot(acc, cmd, bot, answered), StartImport(c), bots), cmd)

(* bot add: no second name for one bot; bot1, bot2, ... when none is given.*)
BotAdd(c, cmd) ==
  LET free == {i \in DOMAIN AutoNames : AutoNames[i] \notin DOMAIN c.bots}
      name == IF cmd.name # Unset THEN cmd.name
              ELSE IF free = {} THEN Error ELSE AutoNames[Min(free)]
  IN IF name = Error \/ \E n \in DOMAIN c.bots : c.bots[n].id = cmd.id /\ n # cmd.name THEN Error
     ELSE [c EXCEPT !.bots = With(@, name, [id |-> cmd.id, cred |-> cmd.cred])]

BotRm(c, cmd) ==
  IF cmd.name \notin DOMAIN c.bots THEN Error ELSE [c EXCEPT !.bots = Without(@, cmd.name)]

KeyAdd(c, cmd) ==
  IF \/ cmd.name \in DOMAIN c.keys
     \/ cmd.chat \notin UUIDs \cup {Unset} \cup DOMAIN c.chats THEN Error
  ELSE [c EXCEPT !.keys = With(@, cmd.name, cmd.chat)]

KeyRm(c, cmd) ==
  IF cmd.name \notin DOMAIN c.keys THEN Error ELSE [c EXCEPT !.keys = Without(@, cmd.name)]

(* LoadMinimal: with --no-cache the content in memory has no cache.        *)
LoadMinimal(c, cmd) == IF cmd.noCache THEN [c EXCEPT !.cache = "none"] ELSE c
=============================================================================
