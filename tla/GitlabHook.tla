----------------------------- MODULE GitlabHook -----------------------------
(***************************************************************************)
(* The GitLab webhook of `serve': the configuration is loaded and checked  *)
(* (LoadForServe, ValidateChatBots, ValidateForServe), each sender is      *)
(* built from it (buildGitlabSender), and then an event, authenticated by  *)
(* the sender's secret, is filtered, rendered, routed and sent to the      *)
(* chats one after the other, best-effort (handleGitlab, gitlabDeliver).   *)
(*                                                                         *)
(* A configuration is one of Settings: its chats, bots and senders as      *)
(* written, the environment its references are resolved in, the flags.     *)
(* Events share nothing the handler writes: one at a time is enough.       *)
(***************************************************************************)
EXTENDS GitlabRules

CONSTANTS Settings,   \* configurations and how serve is started with them
          Payloads,   \* events
          Secrets,    \* X-Gitlab-Token values
          Queries     \* chat_id parameters as parsed; Absent when there is none

IsSequence(q) == q \in Seq(ToSet(q))

IsGlob(glob) == IsSequence(glob) /\ glob # <<>> /\ \A i \in DOMAIN glob : IsSequence(glob[i])

IsRule(rule) ==
  /\ rule = [match |-> rule.match, chats |-> rule.chats, stop |-> rule.stop]
  /\ rule.stop \in BOOLEAN
  /\ IsSequence(rule.chats)
  /\ \A selector \in DOMAIN rule.match \ {"event"} :
       \A pattern \in rule.match[selector] \ DOMAIN Regex : IsGlob(pattern)

(* A reference is neither an id nor empty, and what it stands for is an id *)
(* or empty, as is what is written without one.                            *)
IsSetting(y) ==
  /\ IsFiniteSet(y.bots) /\ Absent \notin y.bots
  /\ DOMAIN y.env \cap (ChatIds \cup {Absent}) = {}
  /\ \A a \in DOMAIN y.chats :
       LET chat == y.chats[a]
       IN /\ chat = [id |-> chat.id, bot |-> chat.bot]
          /\ (IF chat.id \in DOMAIN y.env THEN y.env[chat.id] ELSE chat.id) \in ChatIds \cup {Absent}
  /\ IsSequence(y.senders)
  /\ \A s \in ToSet(y.senders) :
       IsSequence(s.chats) /\ IsSequence(s.routes) /\ \A i \in DOMAIN s.routes : IsRule(s.routes[i])

ASSUME HookAssumption ==
  /\ \A y \in Settings : IsSetting(y)
  /\ \A p \in Payloads : \A path \in DOMAIN p : \A text \in p[path].scalars : IsSequence(text)
  /\ \A q \in Queries \ {Absent} : IsSequence(q)

VARIABLES yaml,       \* the setting
          phase,      \* "load", "bots", "rules", "build", "serve", "refused"
          cfgChats,   \* cfg.Chats
          senders,    \* the senders built so far
          stage,      \* "idle", "send", "answered"
          event,      \* the request: token, payload, query
          sender,     \* the sender that authenticated it
          targets,    \* chats left to send to
          posted,     \* messages at BotX: chat, bot
          outs,       \* the outcome at each target sent to
          reply       \* the status; 0 none yet

cfgVars   == <<yaml, phase, cfgChats, senders>>
eventVars == <<stage, event, sender, targets, posted, outs, reply>>
hookVars  == <<cfgVars, eventVars>>

NoEvent == [token |-> Absent]

HookInit ==
  /\ yaml \in Settings
  /\ phase = "load" /\ cfgChats = yaml.chats /\ senders = <<>>
  /\ stage = "idle" /\ event = NoEvent /\ sender = 0 /\ targets = <<>>
  /\ posted = <<>> /\ outs = <<>> /\ reply = 0
-----------------------------------------------------------------------------
(* Start.                                                                  *)

multiBot == yaml.bot = Absent /\ Cardinality(yaml.bots) > 1
(* The name a single-bot server runs as.                                   *)
SingleBot == IF yaml.bot # Absent THEN yaml.bot ELSE CHOOSE b \in yaml.bots : TRUE

Refused == phase' = "refused" /\ UNCHANGED <<yaml, cfgChats, senders, eventVars>>

(* References in the chats' ids are replaced by what they stand for.       *)
Lookup(id) == IF id \in DOMAIN yaml.env THEN yaml.env[id] ELSE id

(* LoadForServe.                                                           *)
LoadSetting ==
  /\ phase = "load"
  /\ IF \/ \E a \in DOMAIN yaml.chats : yaml.chats[a].id # Absent /\ Lookup(yaml.chats[a].id) = Absent
        \/ yaml.bot \notin yaml.bots \cup {Absent} \/ yaml.bots = {}
     THEN Refused
     ELSE /\ phase' = "bots"
          /\ cfgChats' = [a \in DOMAIN yaml.chats |->
                            [yaml.chats[a] EXCEPT !.id = Lookup(@)]]
          /\ UNCHANGED <<yaml, senders, eventVars>>

UnknownBots == {a \in DOMAIN yaml.chats : yaml.chats[a].bot \notin yaml.bots \cup {Absent}}

(* ValidateChatBots: a binding to an unknown bot is dropped, or fatal.     *)
CheckBots ==
  /\ phase = "bots"
  /\ IF UnknownBots # {} /\ yaml.failFast THEN Refused
     ELSE /\ phase' = "rules"
          /\ cfgChats' = [a \in DOMAIN cfgChats |->
               IF a \in UnknownBots THEN [cfgChats[a] EXCEPT !.bot = Absent] ELSE cfgChats[a]]
          /\ UNCHANGED <<yaml, senders, eventVars>>

CheckRules ==
  /\ phase = "rules"
  /\ IF WellFormed(yaml.senders)
     THEN phase' = "build" /\ UNCHANGED <<yaml, cfgChats, senders, eventVars>>
     ELSE Refused

(* The runtime of a sender.  Rules of a sender with chats of its own are   *)
(* rewritten to the references its chats use.                              *)
Built(s) ==
  LET refs      == Declared(s)
      scope     == [id \in IdsOf(cfgChats, ToSet(refs)) |-> FirstRef(cfgChats, refs, id)]
      OwnRef(r) == scope[Resolve(cfgChats, r).id]
  IN [secret  |-> Lookup(s.secret),
      scope   |-> scope,
      targets |-> Unique(refs),
      routes  |-> [i \in DOMAIN s.routes |->
                     [s.routes[i] EXCEPT !.chats = [j \in DOMAIN @ |-> OwnRef(@[j])]]]]

(* buildGitlabConfig, one sender.  A template file may be unreadable.      *)
BuildSender ==
  /\ phase = "build" /\ Len(senders) < Len(yaml.senders)
  /\ LET s == yaml.senders[Len(senders) + 1]
         secret == Lookup(s.secret)
     IN \/ /\ TargetsAccepted(cfgChats, multiBot, s)
           /\ secret # Absent
           /\ \A i \in DOMAIN senders : senders[i].secret # secret
           /\ senders' = Append(senders, Built(s))
           /\ UNCHANGED <<yaml, phase, cfgChats, eventVars>>
        \/ /\ \/ ~TargetsAccepted(cfgChats, multiBot, s) \/ secret = Absent
              \/ \E i \in DOMAIN senders : senders[i].secret = secret
              \/ s.files
           /\ Refused

Serve ==
  /\ phase = "build" /\ Len(senders) = Len(yaml.senders)
  /\ phase' = "serve"
  /\ UNCHANGED <<yaml, cfgChats, senders, eventVars>>
-----------------------------------------------------------------------------
(* An event.                                                               *)

(* senderScopeTargets: a chat as requested, by its id or by another name,  *)
(* and the reference the sender delivers to it through.                    *)
CanonId(scope, ref) == IF ref \in DOMAIN scope THEN ref ELSE Resolve(cfgChats, ref).id

ScopeTargets(scope, refs) ==
  IF \E r \in ToSet(refs) :
       \/ CanonId(scope, r) \notin DOMAIN scope
       \/ r \notin DOMAIN scope /\ BotConflict(cfgChats, scope[CanonId(scope, r)], r)
  THEN Absent
  ELSE Unique([i \in DOMAIN refs |-> scope[CanonId(scope, refs[i])]])

Hits(token) == {i \in DOMAIN senders : senders[i].secret = token}

Responded(e, status) ==
  /\ stage' = "answered" /\ event' = e /\ reply' = status
  /\ UNCHANGED <<cfgVars, sender, targets, posted, outs>>

Deliver(e, i, refs) ==
  /\ stage' = "send" /\ event' = e /\ sender' = i /\ targets' = refs
  /\ UNCHANGED <<cfgVars, posted, outs, reply>>

(* handleGitlab up to the first message: which sender, whether the event   *)
(* is for it, what becomes of its text, which chats.  An ignored event is  *)
(* answered 200.                                                           *)
Receive(e) ==
  /\ phase = "serve" /\ stage = "idle"
  /\ IF Hits(e.token) = {} THEN Responded(e, 401)
     ELSE LET i    == CHOOSE i \in Hits(e.token) : \A j \in Hits(e.token) : i <= j
              s    == yaml.senders[i]
              run  == senders[i]
              asked == ScopeTargets(run.scope, e.query)
              found == EvaluateRoutes(run.routes, e.payload)
          IN IF ~PassesFilter(e.payload, s) THEN Responded(e, 200)
             ELSE IF Rendered(e.payload, s) = "broken" THEN Responded(e, 400)
             ELSE IF Rendered(e.payload, s) = "blank" THEN Responded(e, 200)
             ELSE IF e.query # Absent
             THEN IF e.query = <<>> THEN Responded(e, 400)
                  ELSE IF asked = Absent THEN Responded(e, 403)
                  ELSE Deliver(e, i, asked)
             ELSE IF run.routes # <<>>
             THEN IF found.matched THEN Deliver(e, i, found.chats) ELSE Responded(e, 200)
             ELSE Deliver(e, i, run.targets)

(* resolveRequestBot without a bot in the request or its authentication.   *)
BotFor(bound) ==
  IF multiBot THEN IF bound \in yaml.bots THEN bound ELSE Absent
  ELSE IF bound \in {Absent, SingleBot} THEN SingleBot ELSE Absent

(* fanoutSend, one chat: the bot, then BotX, which may fail with or        *)
(* without having posted.                                                  *)
FanoutSend ==
  /\ stage = "send" /\ targets # <<>>
  /\ targets' = Tail(targets)
  /\ LET at  == Resolve(cfgChats, Head(targets))
         bot == BotFor(at.bot)
     IN \/ /\ bot = Absent
           /\ outs' = Append(outs, "nobot") /\ UNCHANGED posted
        \/ /\ bot # Absent
           /\ \E out \in {"ok", "failed"} :
                /\ outs' = Append(outs, out)
                /\ \/ out = "failed" /\ UNCHANGED posted
                   \/ posted' = Append(posted, [chat |-> at.id, bot |-> bot])
  /\ UNCHANGED <<cfgVars, stage, event, sender, reply>>

(* writeMultiSend.                                                         *)
Answer ==
  /\ stage = "send" /\ targets = <<>>
  /\ stage' = "answered"
  /\ reply' = IF "ok" \in ToSet(outs) THEN 200 ELSE 502
  /\ UNCHANGED <<cfgVars, event, sender, targets, posted, outs>>

Events == [token : Secrets, payload : Payloads, query : Queries]

HookNext == \/ LoadSetting \/ CheckBots \/ CheckRules \/ BuildSender \/ Serve
            \/ \E e \in Events : Receive(e)
            \/ FanoutSend \/ Answer

HookSpec == HookInit /\ [][HookNext]_hookVars
-----------------------------------------------------------------------------
(* What the configuration says an event is for, said without the engine.   *)

(* A text is the parts of a glob with anything between them.               *)
GlobMeans(parts, text) ==
  IF Len(parts) = 1 THEN text = parts[1]
  ELSE \E at \in [DOMAIN parts -> 1 .. Len(text) + 1] :
         /\ at[1] = 1
         /\ at[Len(parts)] = Len(text) + 1 - Len(Last(parts))
         /\ \A i \in DOMAIN parts : HasPrefix(parts[i], SubSeq(text, at[i], Len(text)))
         /\ \A i \in 1 .. Len(parts) - 1 : at[i] + Len(parts[i]) <= at[i + 1]

Means(p, rule) ==
  \A selector \in DOMAIN rule.match :
    IF selector = "event" THEN EventMatches(p, rule.match[selector])
    ELSE \E text \in ResolveSelector(p, selector), m \in rule.match[selector] :
           IF m \in DOMAIN Regex THEN text \in Regex[m] ELSE GlobMeans(m, text)

(* The rules that apply: those that match with no stop before them.        *)
Applies(s, p, i) ==
  /\ Means(p, s.routes[i])
  /\ \A j \in 1 .. i - 1 : ~(s.routes[j].stop /\ Means(p, s.routes[j]))

Named(s, e) ==
  IF e.query # Absent THEN ToSet(e.query)
  ELSE IF s.routes = <<>> THEN ToSet(s.chats)
  ELSE UNION {ToSet(s.routes[i].chats) : i \in {j \in DOMAIN s.routes : Applies(s, e.payload, j)}}

(* An event is sent to the chats the rules of its own sender name, or to   *)
(* those of them the request names, to each once, through the bot its      *)
(* reference in that sender is bound to; a chat outside the sender gets    *)
(* nothing, a refused or ignored event nothing at all, one that is answered*)
(* as delivered at least one chat, and in a multi-bot server no chat is    *)
(* left without a bot (buildGitlabSender, handleGitlab, gitlabDeliver).    *)
EventReachesItsChats ==
  /\ stage = "answered" /\ sender = 0 => posted = <<>> /\ reply # 502
  /\ stage = "answered" /\ sender # 0 =>
       LET s == yaml.senders[sender]
       IN /\ \A i \in DOMAIN yaml.senders :
               Lookup(yaml.senders[i].secret) = event.token <=> i = sender
          /\ Len(outs) = Cardinality(IdsOf(cfgChats, Named(s, event)))
          /\ multiBot => "nobot" \notin ToSet(outs)
          /\ reply = 200 => posted # <<>>
  /\ \A i \in DOMAIN posted :
       LET s   == yaml.senders[sender]
           ids == IdsOf(cfgChats, Named(s, event))
       IN /\ posted[i].chat \in ids \cap IdsOf(cfgChats, ToSet(Declared(s)))
          /\ posted[i].bot =
               BotFor(Resolve(cfgChats, FirstRef(cfgChats, Declared(s), posted[i].chat)).bot)
          /\ \A j \in DOMAIN posted : posted[i].chat = posted[j].chat => i = j

(* Every chat a sender names has its id written down, or is wrong anyway.  *)
Decided(s) == \A r \in ToSet(Declared(s) \o RouteChats(s)) :
                Bad(yaml.chats, r) \/ Classified(yaml.chats, r).id # Absent

(* `config validate' and serve agree on a sender's chats.  What the one    *)
(* calls an error the other refuses, unless serve has dropped a binding to *)
(* an unknown bot; and what serve refuses has an error or a warning, when  *)
(* every id it needs is written down (validateCrossReferences,             *)
(* buildGitlabSender).                                                     *)
ValidateMirrorsServe ==
  phase = "build" =>
    \A i \in DOMAIN yaml.senders :
      LET s == yaml.senders[i]
          accepted == TargetsAccepted(cfgChats, multiBot, s)
      IN /\ OfflineError(yaml.chats, s) /\ UnknownBots = {} => ~accepted
         /\ ~accepted /\ Decided(s)
              => \/ OfflineError(yaml.chats, s)
                 \/ OfflineWarning(yaml.chats, yaml.bots, s)
                 \/ UnknownBots # {}
=============================================================================
