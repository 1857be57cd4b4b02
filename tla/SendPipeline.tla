----------------------------- MODULE SendPipeline -----------------------------
(***************************************************************************)
(* The synchronous HTTP API of `serve': a request names chats and an API   *)
(* key, every chat is checked against the key's scope before the first is  *)
(* sent to (authorizeTargets), then each is sent to in turn, best-effort   *)
(* (fanout), and the outcomes are folded into one status (writeMultiSend). *)
(* The surfaces are /send, the three alert webhooks and the Mattermost     *)
(* endpoint; they differ in the chat they fall back to and in what they    *)
(* refuse.                                                                 *)
(*                                                                         *)
(* A key may send anywhere, to a fixed set of chats, or to the chats its   *)
(* bot is a member of.  The membership cache is abstracted to the answers  *)
(* it holds and when they run out; module Membership is its detail.  A     *)
(* send to BotX is one step that succeeds, or fails with or without having *)
(* reached the chat.                                                       *)
(***************************************************************************)
EXTENDS Integers, SequencesExt

CONSTANTS Clients, Names, Chats, Bots, Keys,
          Requests,     \* what a client may ask
          BotSets,      \* the sets of bots a server may be configured with
          None,         \* no bot, no chat given
          Unresolved,   \* the error of a resolver
          ChatOf,       \* the chat id a name stands for, or Unresolved
          UUIDs,        \* chat ids that are UUIDs
          BoundBot,     \* the bot an alias is bound to
          ScopedKeys,   \* keys with a list of chats
          Scope,        \* that list
          OwnChat,      \* its only entry, if it has one
          MemberKeys,   \* keys with chats_where_member
          AuthBot,      \* the bot a signature authenticates as
          DefaultChat,  \* the alias marked as default
          HookDefault,  \* default_chat_id of a webhook section
          FallbackChat, \* the only configured alias
          Pairs,        \* the bots and chats whose membership is asked for
          PosTTL, NegTTL,                \* lifetimes of cached answers
          MaxTime, MaxTries, MaxMoves    \* bounds

Surfaces == {"send", "alertmanager", "grafana", "incidentrelay", "mattermost",
             "edit"}

ASSUME PipelineAssumption ==
  /\ Requests \subseteq [surface : Surfaces, key : Keys, names : Seq(Names),
                         bot : Bots \cup {None}, valid : BOOLEAN]
  /\ \A r \in Requests : r.surface \in {"mattermost", "edit"} => Len(r.names) <= 1
  /\ BotSets \subseteq SUBSET Bots
  /\ None \notin Names \cup Bots
  /\ Unresolved \notin Chats \cup Bots \cup {None}
  /\ ChatOf \in [Names -> Chats \cup {Unresolved}]
  /\ BoundBot \in [Names -> Bots \cup {None}]
  /\ ScopedKeys \cup MemberKeys \subseteq Keys
  /\ ScopedKeys \cap MemberKeys = {}
  /\ Scope \in [Keys -> SUBSET Chats]
  /\ OwnChat \in [Keys -> Names \cup {None}]
  /\ \A k \in Keys : OwnChat[k] # None =>
       k \in ScopedKeys /\ ChatOf[OwnChat[k]] \in Scope[k]
  /\ AuthBot \in [Keys -> Bots \cup {None}]
  /\ {DefaultChat, FallbackChat} \subseteq Names \cup {None}
  /\ HookDefault \in [Surfaces -> Names \cup {None}]
  /\ Pairs \subseteq (Bots \cup {None}) \X UUIDs
  /\ PosTTL \in Nat \ {0} /\ NegTTL \in Nat \ {0}
  /\ {MaxTime, MaxTries, MaxMoves} \subseteq Nat

VARIABLES bots,         \* cfg.BotNames
          pc, req,      \* where each client's request is, and what it asks
          targets,      \* the chats it names, as parsed
          next,         \* the target being checked or sent to
          outs,         \* the outcomes of the targets sent to
          answer,       \* the status of the response
          tries,        \* how often the client sent the request
          since,        \* when this attempt began
          posted,       \* messages of the client that reached a chat, by name
          unsure,       \* those the server answered no success for
          entry,        \* the membership cache
          member,       \* which bot is in which chat, at BotX
          lastIn,       \* the last moment a bot was in a chat
          moves,        \* changes of membership
          now

reqVars  == <<pc, req, targets, next, outs, answer, tries, since>>
botxVars == <<member, lastIn, moves, now>>
vars     == <<bots, reqVars, posted, unsure, entry, botxVars>>

Outcomes == {"ok", "failed", "denied", "unavailable"}
Answers  == {0, 200, 400, 403, 502, 503}
PCs      == {"idle", "check", "deliver", "posting", "answered"}
Entries  == [ans : {"none", "yes", "no"}, until : Nat]

Key(c)     == req[c].key
Target(c)  == targets[c][next[c]]
IsStatic(c) == Key(c) \in ScopedKeys
IsMember(c) == Key(c) \in MemberKeys
NoReq      == [surface |-> "none"]

TypeOK ==
  /\ bots \in BotSets
  /\ pc \in [Clients -> PCs]
  /\ req \in [Clients -> Requests \cup {NoReq}]
  /\ targets \in [Clients -> Seq(Names)]
  /\ next \in [Clients -> Nat]
  /\ outs \in [Clients -> Seq(Outcomes)]
  /\ answer \in [Clients -> Answers]
  /\ tries \in [Clients -> Nat]
  /\ since \in [Clients -> Nat]
  /\ posted \in [Clients -> [Names -> Nat]]
  /\ unsure \in [Clients -> [Names -> Nat]]
  /\ entry \in [Pairs -> Entries]
  /\ member \in [Pairs -> BOOLEAN]
  /\ lastIn \in [Pairs -> Int]
  /\ moves \in Nat
  /\ now \in Nat

Init ==
  /\ bots \in BotSets
  /\ pc = [c \in Clients |-> "idle"]
  /\ req = [c \in Clients |-> NoReq]
  /\ targets = [c \in Clients |-> <<>>]
  /\ next = [c \in Clients |-> 1]
  /\ outs = [c \in Clients |-> <<>>]
  /\ answer = [c \in Clients |-> 0]
  /\ tries = [c \in Clients |-> 0]
  /\ since = [c \in Clients |-> 0]
  /\ posted = [c \in Clients |-> [n \in Names |-> 0]]
  /\ unsure = [c \in Clients |-> [n \in Names |-> 0]]
  /\ entry = [p \in Pairs |-> [ans |-> "none", until |-> 0]]
  /\ member \in [Pairs -> BOOLEAN]
  /\ lastIn = [p \in Pairs |-> IF member[p] THEN 1 ELSE -PosTTL]
  /\ moves = 0
  /\ now = 1
-----------------------------------------------------------------------------
(* Pure parts.                                                             *)

(* resolveRequestBot: the request's bot, else the chat's, else the         *)
(* signature's; with a single bot the name may only confirm it.            *)
SenderFor(names, authBot, requestBot, chatBot) ==
  LET wanted   == IF requestBot # None THEN requestBot ELSE chatBot
      multiBot == \E x, y \in names : x # y
  IN IF ~multiBot
     THEN IF wanted \in names \cup {None} THEN None ELSE Unresolved
     ELSE IF authBot # None
     THEN IF wanted \in {None, authBot} THEN authBot ELSE Unresolved
     ELSE IF wanted \in names THEN wanted ELSE Unresolved

Sender(c, n) == SenderFor(bots, AuthBot[Key(c)], req[c].bot, BoundBot[n])
Pair(c, n)   == <<Sender(c, n), ChatOf[n]>>

(* Mutant: the refusals are looked at first.                               *)
StatusRefusalFirst(os) ==
  IF "unavailable" \in ToSet(os) THEN 503
  ELSE IF "ok" \in ToSet(os) THEN 200
  ELSE IF ToSet(os) = {"denied"} THEN 403 ELSE 502

(* writeMultiSend, authorizationFailure.                                   *)
Status(os) == IF "ok" \in ToSet(os) THEN 200
              ELSE IF "unavailable" \in ToSet(os) THEN 503
              ELSE IF ToSet(os) = {"denied"} THEN 403 ELSE 502

(* ChatAllowed, for a key with a list of chats or with none.               *)
ChatAllowed(k, chat) == k \notin MemberKeys /\ (k \in ScopedKeys => chat \in Scope[k])

(* Mutant: the server's default chat goes before the key's own.            *)
DefaultGlobal(k) == IF DefaultChat # None THEN DefaultChat ELSE OwnChat[k]

(* defaultSendChat: the server's default if the key may use it, else the   *)
(* key's own.                                                              *)
DefaultSendChat(k) ==
  IF OwnChat[k] = None THEN DefaultChat
  ELSE IF DefaultChat = None THEN OwnChat[k]
  ELSE IF ChatOf[DefaultChat] # Unresolved /\ ChatAllowed(k, ChatOf[DefaultChat])
       THEN DefaultChat ELSE OwnChat[k]

(* singleChat of the webhook sections.                                     *)
SingleChat(surface) ==
  IF HookDefault[surface] # None THEN HookDefault[surface]
  ELSE IF DefaultChat # None THEN DefaultChat ELSE FallbackChat
-----------------------------------------------------------------------------
(* Steps of one request.                                                   *)

Set(f, c, v) == [f EXCEPT ![c] = v]

(* A response before anything was sent.                                    *)
Refuse(c, status) ==
  /\ pc' = Set(pc, c, "answered") /\ answer' = Set(answer, c, status)
  /\ UNCHANGED <<req, targets, next, outs, tries, since>>

Phase(c, phase) ==
  /\ pc' = Set(pc, c, phase) /\ next' = Set(next, c, 1)
  /\ UNCHANGED <<req, targets, outs, answer, tries, since>>

(* Mutant: a chat named twice is sent to twice.                            *)
ParseAll(names) == names

(* parseChatIDs: each name once, in the order of first mention.            *)
ParseChatIDs(names) ==
  FoldLeft(LAMBDA ids, n : IF n \in ToSet(ids) THEN ids ELSE Append(ids, n),
           <<>>, names)

(* The chats of the request, or the one the surface falls back to.         *)
TargetsOf(r) ==
  LET single == IF r.surface = "send" THEN DefaultSendChat(r.key)
                                      ELSE SingleChat(r.surface)
  IN IF r.names # <<>> THEN ParseChatIDs(r.names)
     ELSE IF single # None THEN <<single>> ELSE <<>>

(* Pairs has every bot and chat a lookup may be about.                     *)
ASSUME PairsAssumption ==
  \A names \in BotSets, r \in Requests : \A n \in ToSet(TargetsOf(r)) :
    LET bot == SenderFor(names, AuthBot[r.key], r.bot, BoundBot[n])
    IN r.key \in MemberKeys /\ ChatOf[n] \in UUIDs /\ bot # Unresolved
       => <<bot, ChatOf[n]>> \in Pairs

(* A request arrives for the first time, or again: up to authorizeTargets. *)
(* An invalid one (undecodable, empty, an empty chat_id) is refused, and an*)
(* edit by a key with a scope: a post id does not tell its chat.           *)
Arrive(c, r) ==
  /\ req' = Set(req, c, r)
  /\ tries' = Set(tries, c, tries[c] + 1)
  /\ since' = Set(since, c, now)
  /\ targets' = Set(targets, c, TargetsOf(r))
  /\ next' = Set(next, c, 1)
  /\ outs' = Set(outs, c, <<>>)
  /\ LET early == IF r.surface = "edit" /\ r.key \in ScopedKeys \cup MemberKeys THEN 403
                  ELSE IF ~r.valid \/ TargetsOf(r) = <<>> THEN 400 ELSE 0
     IN /\ answer' = Set(answer, c, early)
        /\ pc' = Set(pc, c, IF early = 0 THEN "check" ELSE "answered")
  /\ UNCHANGED <<bots, posted, unsure, entry, botxVars>>

Receive(c, surface) ==
  /\ pc[c] = "idle"
  /\ \E r \in Requests : r.surface = surface /\ Arrive(c, r)

Send(c)          == Receive(c, "send")
Alertmanager(c)  == Receive(c, "alertmanager")
Grafana(c)       == Receive(c, "grafana")
IncidentRelay(c) == Receive(c, "incidentrelay")
MattermostCreatePost(c) == Receive(c, "mattermost")
MattermostUpdatePost(c) == Receive(c, "edit")

(* The client repeats a request that was answered 502 or 503.              *)
Retry(c) ==
  /\ pc[c] = "answered" /\ answer[c] \in {502, 503} /\ tries[c] < MaxTries
  /\ Arrive(c, req[c])

(* checkMembership: a cached answer while it lasts, else one of BotX, which*)
(* is then cached; a failed lookup is not.                                 *)
Check(p, result) ==
  LET fresh == entry[p].ans # "none" /\ now < entry[p].until
  IN \/ fresh /\ entry[p].ans = result /\ UNCHANGED entry
     \/ /\ ~fresh /\ result = IF member[p] THEN "yes" ELSE "no"
        /\ entry' = [entry EXCEPT ![p] = [ans |-> result,
                       until |-> now + IF member[p] THEN PosTTL ELSE NegTTL]]
     \/ ~fresh /\ result = "unavailable" /\ UNCHANGED entry

(* Mutant: the sends begin when the first target passed.                   *)
FirstPassed(c) == Phase(c, "deliver")

(* One target passed: on to the next, or to the sends.                     *)
Passed(c) ==
  \/ next[c] = Len(targets[c]) /\ Phase(c, "deliver")
  \/ /\ next[c] < Len(targets[c])
     /\ next' = Set(next, c, next[c] + 1)
     /\ UNCHANGED <<pc, req, targets, outs, answer, tries, since>>

(* authorizeTargets for a key without a scope.                             *)
Unscoped(c) ==
  /\ pc[c] = "check" /\ ~IsStatic(c) /\ ~IsMember(c)
  /\ Phase(c, "deliver")
  /\ UNCHANGED <<bots, posted, unsure, entry, botxVars>>

(* ... for a key with a list of chats: an unknown chat and a chat outside  *)
(* the list are answered alike.                                            *)
InScope(c) ==
  /\ pc[c] = "check" /\ IsStatic(c)
  /\ IF ChatOf[Target(c)] # Unresolved /\ ChatAllowed(Key(c), ChatOf[Target(c)])
     THEN Passed(c) ELSE Refuse(c, 403)
  /\ UNCHANGED <<bots, posted, unsure, entry, botxVars>>

(* authorizeMembership for the target at hand.                             *)
Membership(c) ==
  LET n == Target(c)
  IN /\ pc[c] = "check" /\ IsMember(c)
     /\ \/ ChatOf[n] \notin UUIDs /\ Refuse(c, 403) /\ UNCHANGED entry
        \/ /\ ChatOf[n] \in UUIDs /\ Sender(c, n) = Unresolved
           /\ Refuse(c, 400) /\ UNCHANGED entry
        \/ /\ ChatOf[n] \in UUIDs /\ Sender(c, n) # Unresolved
           /\ \/ Check(Pair(c, n), "yes") /\ Passed(c)
              \/ Check(Pair(c, n), "no") /\ Refuse(c, 403)
              \/ Check(Pair(c, n), "unavailable") /\ Refuse(c, 503)
     /\ UNCHANGED <<bots, posted, unsure, botxVars>>

(* fanout records the outcome of a target and goes on to the next.         *)
Outcome(c, o) ==
  /\ outs' = Set(outs, c, Append(outs[c], o))
  /\ next' = Set(next, c, next[c] + 1)
  /\ pc' = Set(pc, c, "deliver")
  /\ UNCHANGED <<req, targets, answer, tries, since>>

More(c) == pc[c] = "deliver" /\ next[c] <= Len(targets[c])

(* The target's chat or bot does not resolve: an outcome of this target, or*)
(* a refusal of the only one a Mattermost post has.                        *)
Misaddressed(c) ==
  /\ More(c) /\ Unresolved \in {ChatOf[Target(c)], Sender(c, Target(c))}
  /\ IF req[c].surface \in {"mattermost", "edit"} THEN Refuse(c, 400) ELSE Outcome(c, "failed")
  /\ UNCHANGED <<bots, posted, unsure, entry, botxVars>>

(* Mutant: no check before the send.                                       *)
DeliverUngated(c) ==
  /\ More(c) /\ Unresolved \notin {ChatOf[Target(c)], Sender(c, Target(c))}
  /\ pc' = Set(pc, c, "posting")
  /\ UNCHANGED <<bots, req, targets, next, outs, answer, tries, since,
                 posted, unsure, entry, botxVars>>

(* s.send: membershipGate, then the request to BotX.                       *)
Deliver(c) ==
  LET p == Pair(c, Target(c))
      go == /\ pc' = Set(pc, c, "posting")
            /\ UNCHANGED <<req, targets, next, outs, answer, tries, since>>
  IN /\ More(c) /\ Unresolved \notin {ChatOf[Target(c)], Sender(c, Target(c))}
     /\ \/ ~IsMember(c) /\ go /\ UNCHANGED entry
        \/ IsMember(c) /\ Check(p, "yes") /\ go
        \/ IsMember(c) /\ Check(p, "no") /\ Outcome(c, "denied")
        \/ IsMember(c) /\ Check(p, "unavailable") /\ Outcome(c, "unavailable")
     /\ UNCHANGED <<bots, posted, unsure, botxVars>>

(* The chat has the message; an edit adds none.                            *)
Reached(c) ==
  IF req[c].surface = "edit" THEN posted ELSE [posted EXCEPT ![c][Target(c)] = @ + 1]

(* BotX took the message and the server learned of it.                     *)
Delivered(c) ==
  /\ pc[c] = "posting"
  /\ posted' = Reached(c)
  /\ Outcome(c, "ok")
  /\ UNCHANGED <<bots, unsure, entry, botxVars>>

(* An error, a timeout, a cancelled request; or, for Mattermost, an answer *)
(* without sync_id.  The chat may have the message.                        *)
Failed(c) ==
  /\ pc[c] = "posting"
  /\ \/ UNCHANGED <<posted, unsure>>
     \/ /\ posted' = Reached(c)
        /\ unsure' = [unsure EXCEPT ![c][Target(c)] = @ + 1]
  /\ Outcome(c, "failed")
  /\ UNCHANGED <<bots, entry, botxVars>>

(* The response.                                                           *)
Respond(c) ==
  /\ pc[c] = "deliver" /\ next[c] > Len(targets[c])
  /\ Refuse(c, Status(outs[c]))
  /\ UNCHANGED <<bots, posted, unsure, entry, botxVars>>

(* A bot enters or leaves a chat.                                          *)
Move(p) ==
  /\ moves < MaxMoves /\ moves' = moves + 1
  /\ member' = [member EXCEPT ![p] = ~@]
  /\ lastIn' = [lastIn EXCEPT ![p] = IF member[p] THEN @ ELSE now]
  /\ UNCHANGED <<bots, reqVars, posted, unsure, entry, now>>

Tick ==
  /\ now < MaxTime /\ now' = now + 1
  /\ lastIn' = [p \in Pairs |-> IF member[p] THEN now + 1 ELSE lastIn[p]]
  /\ UNCHANGED <<bots, reqVars, posted, unsure, entry, member, moves>>

Serve(c) == \/ Unscoped(c) \/ InScope(c) \/ Membership(c) \/ Misaddressed(c)
            \/ Deliver(c) \/ Delivered(c) \/ Failed(c) \/ Respond(c)

Ask(c) == \/ Send(c) \/ Alertmanager(c) \/ Grafana(c) \/ IncidentRelay(c)
          \/ MattermostCreatePost(c) \/ MattermostUpdatePost(c) \/ Retry(c)

Next == \/ \E c \in Clients : Ask(c) \/ Serve(c)
        \/ \E p \in Pairs : Move(p)
        \/ Tick

Spec == Init /\ [][Next]_vars
-----------------------------------------------------------------------------
Sent(c) == pc[c] = "posting" \/ ToSet(outs[c]) \cap {"ok", "failed"} # {}
NamedBy(c) == ToSet(targets[c])

(* Nothing is sent before every chat of the request was found to be the    *)
(* key's: in its list, or one the bot was in when this attempt was made,   *)
(* give or take the lifetime of an answer (authorizeTargets: "a request    *)
(* naming any chat outside the scope is refused whole").  An edit, whose   *)
(* chat is not known, is made for no key with a scope.                     *)
AllCheckedFirst ==
  \A c \in Clients : Sent(c) =>
    \A n \in NamedBy(c) :
      /\ req[c].surface = "edit" => ~IsStatic(c) /\ ~IsMember(c)
      /\ IsStatic(c) => ChatOf[n] \in Scope[Key(c)]
      /\ IsMember(c) => /\ Pair(c, n) \in Pairs
                        /\ since[c] < lastIn[Pair(c, n)] + PosTTL

(* Every single send of a key scoped by membership starts within one       *)
(* lifetime of a moment the bot was in that chat, however long the fan-out *)
(* took to get there (membershipGate).                                     *)
EachSendChecked ==
  [][\A c \in Clients :
       pc[c] = "deliver" /\ pc'[c] = "posting" /\ IsMember(c)
       => now < lastIn[Pair(c, Target(c))] + PosTTL]_vars

(* 200 is answered exactly when a send succeeded, and every chat reported  *)
(* delivered has the message; each target was tried once, in order, and is *)
(* reported (fanout, writeMultiSend).                                      *)
AnswerTruthful ==
  \A c \in Clients : pc[c] = "answered" /\ (answer[c] = 200 \/ outs[c] # <<>>) =>
    /\ Len(outs[c]) = Len(targets[c])
    /\ answer[c] = 200 <=> "ok" \in ToSet(outs[c])
    /\ \A i \in DOMAIN outs[c] : outs[c][i] = "ok" /\ req[c].surface # "edit" => posted[c][targets[c][i]] > 0

(* A client that repeats what was answered 502 or 503 sends the message to *)
(* no target again that an earlier attempt was known to have reached: the  *)
(* duplicates are those of sends whose outcome the server never learned.   *)
(* A target is a name in the request; a chat named by its alias and by its *)
(* id is two of them, which the handlers do not merge (fanout).            *)
RetryHarmless ==
  \A c \in Clients : \A n \in Names : posted[c][n] <= 1 + unsure[c][n]

(* A key with one chat of its own need not name it: what is sent without a *)
(* chat goes to one the key may use, and is not refused for the server's   *)
(* own default being another team's (defaultSendChat).                     *)
OwnChatReached ==
  \A c \in Clients :
    pc[c] = "answered" /\ req[c].surface = "send" /\ req[c].names = <<>>
    /\ req[c].valid /\ OwnChat[Key(c)] # None => answer[c] \in {200, 502}
=============================================================================
