---------------------------- MODULE CatalogCache ----------------------------
(***************************************************************************)
(* The routing catalog of the asynchronous mode.  Workers publish what     *)
(* their configuration says of bots and chats; a server (serve --enqueue)  *)
(* keeps the snapshot it received last, in memory and in a file, and       *)
(* resolves aliases by it; the enqueue command reads the file.  Both then  *)
(* put one message per chat on the work queue.                             *)
(*                                                                         *)
(* One server, one request.  All clocks agree.  A request's chats are      *)
(* distinct and its message is well-formed.                                *)
(***************************************************************************)
EXTENDS Integers, Sequences, SequencesExt

CONSTANTS Workers,
          Contents,   \* what a configuration says of bots and chats
          ConfOf,     \* the one each worker runs with
          UUIDs,      \* ids of bots and chats
          Aliases,    \* names of bots and chats
          Keys, ScopedKeys,
          Scope,      \* the chats a scoped key may use
          None, Unresolved,
          Torn,       \* what is left of a file half written
          ChatOf,     \* per content: the chat an alias stands for
          BoundBot,   \* the bot such a chat is bound to
          BotOf,      \* the bot an alias stands for
          Requests,
          MaxAge,     \* catalog.max_age, 0 for none
          MaxTime, MaxLog, MaxFaults   \* bounds

Modes == {"direct", "catalog", "mixed"}

Snapshots == [content : Contents, at : Nat]

ASSUME CatalogAssumption ==
  /\ ConfOf \in [Workers -> Contents]
  /\ {None, Unresolved, Torn} \cap (UUIDs \cup Aliases) = {} /\ UUIDs \cap Aliases = {}
  /\ None # Torn /\ {None, Torn} \cap Snapshots = {}
  /\ ScopedKeys \subseteq Keys /\ Scope \in [Keys -> SUBSET UUIDs]
  /\ ChatOf \in [Contents -> [Aliases -> UUIDs \cup {Unresolved}]]
  /\ BoundBot \in [Contents -> [Aliases -> Aliases \cup {None}]]
  /\ BotOf \in [Contents -> [Aliases -> UUIDs \cup {Unresolved}]]
  /\ Requests \subseteq [by : {"serve", "enqueue"}, key : Keys, mode : Modes,
                         botID : UUIDs \cup Aliases \cup {None},
                         bot : Aliases \cup {None}, chats : Seq(UUIDs \cup Aliases)]
  /\ \A r \in Requests : r.by = "enqueue" => r.key \notin ScopedKeys   \* a command has no key
  /\ {MaxAge, MaxTime, MaxLog, MaxFaults} \subseteq Nat

VARIABLES driver,     \* rabbitmq or kafka
          building,   \* the snapshot each worker is about to publish
          log,        \* snapshots published, in order
          up,         \* the server runs
          link,       \* its subscription: not yet, on, gone
          inbox,      \* snapshots on their way to it
          snapshot,   \* the one in memory
          file,       \* the one in catalog.cache_file
          saving,     \* Update holds the lock and has written the temporary file
          pc, req,    \* where the request is, and what it asks
          next,       \* its chat at hand
          pending,    \* work messages built and not published
          outs,       \* outcome of each chat
          answer,
          queued,     \* messages on the work queue
          now, faults

catalogVars == <<building, log>>
serverVars  == <<up, link, inbox, snapshot, file, saving>>
reqVars     == <<pc, req, next, pending, outs, answer, queued>>
vars == <<driver, catalogVars, serverVars, reqVars, now, faults>>

Messages  == [name : UUIDs \cup Aliases, chat : UUIDs, bot : UUIDs, at : Nat]
NoReq     == [by |-> "nobody"]

TypeOK ==
  /\ driver \in {"rabbitmq", "kafka"}
  /\ building \in [Workers -> Snapshots \cup {None}]
  /\ log \in Seq(Snapshots) /\ inbox \in Seq(Snapshots)
  /\ up \in BOOLEAN /\ saving \in BOOLEAN
  /\ link \in {"new", "on", "off"}
  /\ snapshot \in Snapshots \cup {None}
  /\ file \in Snapshots \cup {None, Torn}
  /\ pc \in {"idle", "route", "publish", "done", "lost"}
  /\ req \in Requests \cup {NoReq}
  /\ next \in Nat
  /\ pending \in Seq(Messages)
  /\ outs \in Seq({"ok", "failed", "denied"})
  /\ answer \in {"none", "accepted", "refused", "denied", "failed"}
  /\ queued \subseteq Messages
  /\ now \in 0 .. MaxTime /\ faults \in 0 .. MaxFaults

Init ==
  /\ driver \in {"rabbitmq", "kafka"}
  /\ building = [w \in Workers |-> None]
  /\ log = <<>> /\ inbox = <<>>
  /\ up = FALSE /\ saving = FALSE /\ link = "off"
  /\ snapshot = None /\ file = None
  /\ pc = "idle" /\ req = NoReq /\ next = 1
  /\ pending = <<>> /\ outs = <<>> /\ answer = "none" /\ queued = {}
  /\ now = 0 /\ faults = 0

Fault == faults < MaxFaults /\ faults' = faults + 1
-----------------------------------------------------------------------------
(* Workers: publishCatalogSnapshot, at start and by a ticker.              *)

(* BuildCatalogSnapshot stamps the snapshot before it is published.        *)
Build(w) ==
  /\ building[w] = None /\ Len(log) < MaxLog
  /\ building' = [building EXCEPT ![w] = [content |-> ConfOf[w], at |-> now]]
  /\ UNCHANGED <<driver, log, serverVars, reqVars, now, faults>>

(* PublishCatalog: an error is logged, and the snapshot may be out.        *)
PublishCatalog(w) ==
  /\ building[w] # None
  /\ building' = [building EXCEPT ![w] = None]
  /\ \/ /\ log' = Append(log, building[w])
        /\ inbox' = IF link = "on" THEN Append(inbox, building[w]) ELSE inbox
        /\ Fault \/ UNCHANGED faults
     \/ Fault /\ UNCHANGED <<log, inbox>>
  /\ UNCHANGED <<driver, up, link, snapshot, file, saving, reqVars, now>>
-----------------------------------------------------------------------------
(* The server's catalog.                                                   *)

(* NewCatalogCache, loadFromDisk: an unreadable file counts as none.       *)
Boot ==
  /\ ~up /\ up' = TRUE
  /\ snapshot' = IF file = Torn THEN None ELSE file
  /\ link' = "new"
  /\ UNCHANGED <<driver, catalogVars, inbox, file, saving, reqVars, now, faults>>

(* ConsumeCatalog: a RabbitMQ queue of one's own starts empty; a Kafka     *)
(* reader starts at the last snapshot, at the end when the topic cannot be *)
(* reached, or at the first when its offsets cannot be read.               *)
Subscribe ==
  /\ up /\ link = "new"
  /\ \/ /\ link' = "on"
        /\ \/ driver = "rabbitmq" /\ inbox' = <<>> /\ UNCHANGED faults
           \/ /\ driver = "kafka" /\ UNCHANGED faults
              /\ inbox' = IF log = <<>> THEN <<>> ELSE <<Last(log)>>
           \/ driver = "kafka" /\ Fault /\ inbox' \in {<<>>, log}
     \/ Fault /\ link' = "off" /\ UNCHANGED inbox
  /\ UNCHANGED <<driver, catalogVars, up, snapshot, file, saving, reqVars, now>>

(* CatalogCache.Update, which holds its lock until the file is in place.   *)
Update ==
  /\ up /\ link = "on" /\ inbox # <<>> /\ ~saving
  /\ snapshot' = Head(inbox)
  /\ inbox' = Tail(inbox)
  /\ \/ saving' = TRUE /\ UNCHANGED faults
     \/ Fault /\ UNCHANGED saving
  /\ UNCHANGED <<driver, catalogVars, up, link, file, reqVars, now>>

(* saveToDisk: the temporary file is renamed.                              *)
Save ==
  /\ saving /\ saving' = FALSE
  /\ \/ file' = snapshot /\ UNCHANGED faults
     \/ Fault /\ UNCHANGED file
  /\ UNCHANGED <<driver, catalogVars, up, link, inbox, snapshot, reqVars, now>>

(* ConsumeCatalog returns; nothing starts it again.                        *)
ConnLost ==
  /\ link = "on" /\ Fault
  /\ link' = "off" /\ inbox' = <<>>
  /\ UNCHANGED <<driver, catalogVars, up, snapshot, file, saving, reqVars, now>>

(* The process is killed, with the request it was serving.                 *)
Crash ==
  /\ up /\ Fault
  /\ up' = FALSE /\ link' = "off" /\ inbox' = <<>> /\ snapshot' = None /\ saving' = FALSE
  /\ pc' = IF req.by = "serve" /\ pc # "done" THEN "lost" ELSE pc
  /\ UNCHANGED <<driver, catalogVars, file, req, next, pending, outs, answer, queued, now>>
-----------------------------------------------------------------------------
(* Routing.                                                                *)

Expired(s) == MaxAge > 0 /\ now - s.at > MaxAge

(* Mutant: a snapshot never expires.                                       *)
GetAnyAge == IF req.by = "serve" THEN snapshot ELSE file

(* CatalogCache.Get, by the server or by resolveViaCatalog, which reads    *)
(* the file again for every chat.                                          *)
Get == LET s == IF req.by = "serve" THEN snapshot ELSE file
       IN IF s \in {None, Torn} THEN None ELSE IF Expired(s) THEN None ELSE s

(* validateAsyncRouting.                                                   *)
ValidRouting(r, chat) ==
  IF r.mode = "direct" THEN {r.botID, chat} \subseteq UUIDs
  ELSE r.botID # None \/ r.bot # None \/ chat \notin UUIDs

NeedsCatalog(r, chat) ==
  \/ r.mode = "catalog"
  \/ r.mode = "mixed" /\ ~({r.botID, chat} \subseteq UUIDs)

(* ResolveChat, ResolveBot: aliases by the snapshot, ids as they are.      *)
ResolveChat(s, chat) == IF chat \in UUIDs THEN chat ELSE ChatOf[s.content][chat]

ResolveBot(s, r, chat) ==
  LET wanted == IF r.botID # None THEN r.botID
                ELSE IF r.bot # None THEN r.bot
                ELSE IF chat \in Aliases THEN BoundBot[s.content][chat] ELSE None
  IN IF wanted \in UUIDs THEN wanted
     ELSE IF wanted = None THEN Unresolved ELSE BotOf[s.content][wanted]

(* Where a chat of the request goes, and by which bot.                     *)
Route(r, chat) ==
  IF ~NeedsCatalog(r, chat)
  THEN [chat |-> IF chat \in UUIDs THEN chat ELSE Unresolved,
        bot  |-> IF r.botID \in UUIDs THEN r.botID ELSE Unresolved]
  ELSE IF Get = None THEN [chat |-> None, bot |-> None]
  ELSE [chat |-> ResolveChat(Get, chat), bot |-> ResolveBot(Get, r, chat)]

Message(route, chat) == [name |-> chat, chat |-> route.chat, bot |-> route.bot, at |-> now]

ChatAllowed(key, chat) == key \in ScopedKeys => chat \in Scope[key]

(* Mutant: the scope is applied to the chats named by id only.             *)
DeniedByName(route, chat) == chat \in UUIDs /\ ~ChatAllowed(req.key, chat)

(* A chat outside the scope, or, for a key with a scope, an unknown one.   *)
Denied(route, chat) ==
  \/ route.chat = Unresolved /\ req.key \in ScopedKeys
  \/ route.chat \in UUIDs /\ route.bot \in UUIDs /\ ~ChatAllowed(req.key, route.chat)
-----------------------------------------------------------------------------
(* A request: POST /send of the server, or the enqueue command.            *)

Answer(how) == pc' = "done" /\ answer' = how

(* handleSend, asynchronous: what is refused before the first chat.        *)
HandleSend(r) ==
  /\ pc = "idle" /\ up /\ r.by = "serve"
  /\ req' = r
  /\ LET chats == ToSet(r.chats)
     IN \/ /\ \E chat \in chats : chat \in UUIDs /\ ~ChatAllowed(r.key, chat)
           /\ Answer("denied")
        \/ /\ \A chat \in chats : chat \in UUIDs => ChatAllowed(r.key, chat)
           /\ \E chat \in chats : ~ValidRouting(r, chat)
           /\ Answer("refused")
        \/ /\ \A chat \in chats : /\ chat \in UUIDs => ChatAllowed(r.key, chat)
                                  /\ ValidRouting(r, chat)
           /\ pc' = "route" /\ UNCHANGED answer
  /\ UNCHANGED <<driver, catalogVars, serverVars, next, pending, outs, queued, now, faults>>

RunEnqueue(r) ==
  /\ pc = "idle" /\ r.by = "enqueue"
  /\ req' = r /\ pc' = "route"
  /\ UNCHANGED <<driver, catalogVars, serverVars, next, pending, outs, answer, queued,
                 now, faults>>

More == pc = "route" /\ next <= Len(req.chats)

(* Mutant: nobody looks whether a bot was found.                           *)
SendFnUnchecked ==
  LET chat  == req.chats[next]
      route == Route(req, chat)
  IN /\ More /\ req.by = "serve" /\ (NeedsCatalog(req, chat) => ~saving)
     /\ route.chat \in UUIDs /\ ~Denied(route, chat)
     /\ pending' = <<Message(route, chat)>> /\ pc' = "publish"
     /\ UNCHANGED <<driver, catalogVars, serverVars, req, next, outs, answer, queued,
                    now, faults>>

(* sendFn up to the publication of the message of one chat.                *)
SendFn ==
  LET chat  == req.chats[next]
      route == Route(req, chat)
  IN /\ More /\ req.by = "serve" /\ (NeedsCatalog(req, chat) => ~saving)
     /\ \/ /\ Denied(route, chat)
           /\ outs' = Append(outs, "denied") /\ next' = next + 1
           /\ UNCHANGED <<pc, pending>>
        \/ /\ ~Denied(route, chat) /\ ~({route.chat, route.bot} \subseteq UUIDs)
           /\ outs' = Append(outs, "failed") /\ next' = next + 1
           /\ UNCHANGED <<pc, pending>>
        \/ /\ ~Denied(route, chat) /\ {route.chat, route.bot} \subseteq UUIDs
           /\ pending' = <<Message(route, chat)>> /\ pc' = "publish"
           /\ UNCHANGED <<outs, next>>
     /\ UNCHANGED <<driver, catalogVars, serverVars, req, answer, queued, now, faults>>

(* Mutant: each message is published as soon as it is built.               *)
BuildPublishing ==
  LET route == Route(req, req.chats[next])
  IN /\ More /\ req.by = "enqueue"
     /\ \/ {route.chat, route.bot} \subseteq UUIDs
           /\ queued' = queued \cup {Message(route, req.chats[next])}
           /\ outs' = Append(outs, "ok") /\ next' = next + 1 /\ UNCHANGED <<pc, answer>>
        \/ ~({route.chat, route.bot} \subseteq UUIDs) /\ Answer("refused")
           /\ UNCHANGED <<outs, next, queued>>
     /\ UNCHANGED <<driver, catalogVars, serverVars, req, pending, now, faults>>

(* Phase 1 of runEnqueue: every message is built, or the command fails.    *)
BuildMessage ==
  LET route == Route(req, req.chats[next])
  IN /\ More /\ req.by = "enqueue"
     /\ \/ /\ {route.chat, route.bot} \subseteq UUIDs
           /\ pending' = Append(pending, Message(route, req.chats[next]))
           /\ next' = next + 1
           /\ pc' = IF next = Len(req.chats) THEN "publish" ELSE pc
           /\ UNCHANGED answer
        \/ /\ ~({route.chat, route.bot} \subseteq UUIDs)
           /\ Answer("refused")
           /\ UNCHANGED <<pending, next>>
     /\ UNCHANGED <<driver, catalogVars, serverVars, req, outs, queued, now, faults>>

(* PublishWork: after an error the message may be on the queue.            *)
PublishWork ==
  /\ pc = "publish" /\ pending # <<>>
  /\ pending' = Tail(pending)
  /\ \/ /\ queued' = queued \cup {Head(pending)}
        /\ outs' = Append(outs, "ok") /\ UNCHANGED faults
     \/ /\ Fault /\ queued' \in {queued, queued \cup {Head(pending)}}
        /\ outs' = Append(outs, "failed")
  /\ IF req.by = "serve" THEN pc' = "route" /\ next' = next + 1
                         ELSE UNCHANGED <<pc, next>>
  /\ UNCHANGED <<driver, catalogVars, serverVars, req, answer, now>>

(* The response, or the exit status, of a request whose chats are through. *)
Finish ==
  /\ \/ pc = "route" /\ next > Len(req.chats)
     \/ pc = "publish" /\ pending = <<>>
  /\ Answer(IF "ok" \in ToSet(outs) THEN "accepted"
            ELSE IF ToSet(outs) = {"denied"} THEN "denied" ELSE "failed")
  /\ UNCHANGED <<driver, catalogVars, serverVars, req, next, pending, outs, queued, now, faults>>

Tick == now < MaxTime /\ now' = now + 1
        /\ UNCHANGED <<driver, catalogVars, serverVars, reqVars, faults>>

Next == \/ \E w \in Workers : Build(w) \/ PublishCatalog(w)
        \/ Boot \/ Subscribe \/ Update \/ Save \/ ConnLost \/ Crash
        \/ \E r \in Requests : HandleSend(r) \/ RunEnqueue(r)
        \/ SendFn \/ BuildMessage \/ PublishWork \/ Finish
        \/ Tick

Spec == Init /\ [][Next]_vars
-----------------------------------------------------------------------------
(* q goes where one published snapshot said, not expired at the time.      *)
Backed(q) ==
  \/ q.name = q.chat /\ q.bot = req.botID
  \/ \E s \in ToSet(log) :
       /\ MaxAge > 0 => q.at - s.at <= MaxAge
       /\ q.chat \in {q.name} \cap UUIDs \/ q.chat = ChatOf[s.content][q.name]
       /\ \/ q.bot = req.botID
          \/ \E b \in Aliases : /\ q.bot = BotOf[s.content][b]
                                /\ IF req.botID # None THEN b = req.botID
                                   ELSE IF req.bot # None THEN b = req.bot
                                   ELSE b = BoundBot[s.content][q.name]

(* A message that an alias had a part in goes where one published snapshot *)
(* said, chat and bot by the same one, and that snapshot was not expired   *)
(* when it was used: never by half of an old and half of a new catalog.    *)
RouteBacked == \A q \in queued : Backed(q)

(* A scoped key's message goes to a chat of the scope, whatever the aliases*)
(* of the request stand for in the catalog of the moment (ChatAllowed:     *)
(* "the UUID it is actually about to deliver to").                         *)
ScopedByAddress == \A q \in queued : ChatAllowed(req.key, q.chat)

(* A refused request or command has put nothing on the queue, however the  *)
(* catalog changed while its chats were resolved one by one; what it was   *)
(* told is queued is ("accepted or rejected as a whole").                  *)
RefusedMeansNothing ==
  /\ answer \in {"refused", "denied"} => queued = {}
  /\ answer = "accepted" => "ok" \in ToSet(outs) /\ Len(outs) = Len(req.chats)
  /\ \A i \in DOMAIN outs : outs[i] = "ok" => \E q \in queued : q.name = req.chats[i]

(* Whenever the process is killed, the file holds a snapshot some worker   *)
(* published, whole; undisturbed it is the one in effect (saveToDisk).     *)
FileReadable ==
  /\ file \in ToSet(log) \cup {None}
  /\ up /\ ~saving /\ faults = 0 => file = snapshot

(* What the server holds or is about to get was published.                 *)
OnlyPublished ==
  /\ snapshot \in ToSet(log) \cup {None}
  /\ ToSet(inbox) \subseteq ToSet(log)

(* The chats of a request are done with or pending, in its order, up to the*)
(* one at hand.                                                            *)
InOrder ==
  /\ \A k \in DOMAIN pending : pending[k].name = req.chats[Len(outs) + k]
  /\ pc = "route" => /\ Len(outs) + Len(pending) = next - 1
                     /\ next <= Len(req.chats) + 1
                     /\ req.by = "serve" => pending = <<>>
                     /\ req.by = "enqueue" => outs = <<>>
  /\ pc = "publish" /\ req.by = "serve" =>
       Len(pending) = 1 /\ Len(outs) = next - 1 /\ next <= Len(req.chats)
  /\ pc = "publish" /\ req.by = "enqueue" =>
       Len(outs) + Len(pending) = Len(req.chats)

RequestOK ==
  /\ pc = "idle" <=> req = NoReq
  /\ pc = "idle" => pending = <<>> /\ queued = {} /\ outs = <<>> /\ next = 1
  /\ pc # "done" => answer = "none"
  /\ queued # {} => \E i \in DOMAIN outs : outs[i] # "denied"
  /\ \A q \in queued \cup ToSet(pending) : Backed(q) /\ ChatAllowed(req.key, q.chat)

(* The inductive invariant.                                                *)
IInv == /\ TypeOK /\ OnlyPublished /\ FileReadable
        /\ InOrder /\ RequestOK /\ RefusedMeansNothing
=============================================================================
