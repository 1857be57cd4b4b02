----------------------------- MODULE GitlabRules -----------------------------
(***************************************************************************)
(* What a GitLab sender is configured to do with an event, as pure         *)
(* operators: the key of an event, the only/exclude filter, the template   *)
(* it is rendered with, the rules that route it, the start-up check of a   *)
(* sender's chats and its offline mirror in `config validate'.             *)
(*                                                                         *)
(* A text of a payload is a sequence of pieces ("refs/heads/", "main"), a  *)
(* payload maps a dotted path to the scalars found there, written as text: *)
(* one, or the elements of an array; and whether it is a plain string that *)
(* is there.  A glob is the sequence of its parts between the asterisks; a *)
(* regular expression is the set of the texts it is found in.  What a      *)
(* message says is left out.                                               *)
(***************************************************************************)
EXTENDS Integers, FiniteSets, SequencesExt

CONSTANTS ChatIds,       \* chat ids; every other reference to a chat is an alias
          Absent,        \* no bot, no id, no subtype, a resolution that failed
          AnySub,      \* the subtype "*" of an event entry
          Regex,       \* the texts each regular expression is found in
          DefaultKeys  \* the keys of the built-in templates

ASSUME RulesAssumption == Absent \notin ChatIds /\ AnySub # Absent /\ Absent \notin DOMAIN Regex
-----------------------------------------------------------------------------
(* The event.                                                              *)

(* gitlabSelectorStrings.                                                  *)
Scalars(p, path) == IF path \in DOMAIN p THEN p[path].scalars ELSE {}

(* gitlabStringAt: what is not a string counts as empty, and empty as none.*)
At(p, path) == IF path \in DOMAIN p /\ p[path].string THEN Scalars(p, path) \ {<<>>} ELSE {}
Or(a, b)    == IF a # {} THEN a ELSE b

Kind(p)  == At(p, "object_kind")
IsOf(p, kinds) == \E k \in kinds : Kind(p) = {<<k>>}

(* deriveEventKey: where the subtype is depends on the kind.               *)
Subtype(p) ==
  IF IsOf(p, {"merge_request", "issue"}) THEN At(p, "object_attributes.action")
  ELSE IF IsOf(p, {"note"}) THEN At(p, "object_attributes.noteable_type")
  ELSE IF IsOf(p, {"pipeline"}) THEN At(p, "object_attributes.status")
  ELSE IF IsOf(p, {"build"}) THEN At(p, "build_status")
  ELSE IF IsOf(p, {"push", "tag_push"}) THEN {}
  ELSE Or(At(p, "object_attributes.action"),
          Or(At(p, "object_attributes.status"), At(p, "status")))

(* eventMatches: an entry names one subtype, or the kind with all of them. *)
EventMatches(p, entries) ==
  \E e \in entries : {<<e.kind>>} = Kind(p)
                     /\ (e.sub \in {Absent, AnySub} \/ {<<e.sub>>} = Subtype(p))

(* passesFilter.                                                           *)
PassesFilter(p, s) == /\ s.only # {} => EventMatches(p, s.only)
                      /\ ~EventMatches(p, s.exclude)

(* refBranch, refBranchBare: the two prefixes come off.                    *)
IsRef(r)   == Head(r) \in {"refs/heads/", "refs/tags/"}
RefBranch(r)     == IF IsRef(r) THEN Tail(r) ELSE <<Last(r)>>
RefBranchBare(r) == IF IsRef(r) THEN Tail(r) ELSE r

(* gitlabBranch.                                                           *)
Branch(p) ==
  IF IsOf(p, {"merge_request", "note"})
  THEN Or(At(p, "object_attributes.target_branch"),
          At(p, "merge_request.target_branch"))
  ELSE IF IsOf(p, {"push", "tag_push"}) THEN {RefBranch(r) : r \in At(p, "ref")} \ {<<>>}
  ELSE IF IsOf(p, {"build"}) THEN {RefBranchBare(r) : r \in At(p, "ref")} \ {<<>>}
  ELSE IF IsOf(p, {"pipeline"}) THEN At(p, "object_attributes.ref") ELSE {}

(* resolveSelector; selectors of plain fields are among the dotted paths.  *)
ResolveSelector(p, selector) ==
  IF selector = "kind" THEN Kind(p)
  ELSE IF selector = "action"
       THEN Or(At(p, "object_attributes.action"), Subtype(p))
  ELSE IF selector = "project"
       THEN Or(At(p, "project.path_with_namespace"), At(p, "project.name"))
  ELSE IF selector = "branch" THEN Branch(p)
  ELSE IF selector = "user"
       THEN Or(At(p, "user.name"), Or(At(p, "user.username"), At(p, "user_name")))
  ELSE IF selector = "title" THEN At(p, "object_attributes.title")
  ELSE IF selector = "url"
       THEN Or(At(p, "object_attributes.url"), At(p, "project.web_url"))
  ELSE Scalars(p, selector)
-----------------------------------------------------------------------------
(* Routing.                                                                *)

HasPrefix(part, text) == Len(part) <= Len(text) /\ SubSeq(text, 1, Len(part)) = part
Drop(text, n)      == SubSeq(text, n + 1, Len(text))

(* The end of the first place of a part from a point of a text on; a point *)
(* outside the text when there is none.                                    *)
EndOfNext(text, from, part) ==
  LET places == {i \in from .. Len(text) : HasPrefix(part, Drop(text, i))}
  IN IF places = {} THEN Len(text) + 1 ELSE Min(places) + Len(part)

EndOfAll(text, from, parts) ==
  FoldLeft(LAMBDA end, part : EndOfNext(text, end, part), from, parts)

(* globMatch: the first part is a prefix, every inner part takes the first *)
(* place it finds, the last must be a suffix of what remains.              *)
GlobMatch(parts, text) ==
  IF Len(parts) = 1 THEN parts[1] = text
  ELSE LET end == EndOfAll(text, Len(parts[1]), SubSeq(parts, 2, Len(parts) - 1))
       IN /\ HasPrefix(parts[1], text)
          /\ end + Len(Last(parts)) <= Len(text)
          /\ Drop(text, Len(text) - Len(Last(parts))) = Last(parts)

(* compilePattern.                                                         *)
Matches(pattern, text) ==
  IF pattern \in DOMAIN Regex THEN text \in Regex[pattern] ELSE GlobMatch(pattern, text)

(* routeMatches: every condition, by any of its patterns and any value.    *)
RouteMatches(p, rule) ==
  \A selector \in DOMAIN rule.match :
    IF selector = "event" THEN EventMatches(p, rule.match[selector])
    ELSE \E text \in ResolveSelector(p, selector), m \in rule.match[selector] :
           Matches(m, text)

(* Each chat once, where it comes first.                                   *)
Unique(refs) ==
  FoldLeft(LAMBDA found, r : IF r \in ToSet(found) THEN found ELSE Append(found, r), <<>>, refs)

(* Mutant: a rule that stops the scan is forgotten when the next matches.  *)
EvaluateAll(rules, p) ==
  LET Scan(acc, rule) ==
        IF ~RouteMatches(p, rule) THEN acc
        ELSE [stopped |-> FALSE, matched |-> TRUE,
              chats |-> Unique(acc.chats \o rule.chats)]
  IN FoldLeft(Scan, [stopped |-> FALSE, matched |-> FALSE, chats |-> <<>>], rules)
(* evaluateRoutes: the chats of every matching rule up to the first that   *)
(* stops the scan, each once.                                              *)
EvaluateRoutes(rules, p) ==
  LET Scan(acc, rule) ==
        IF acc.stopped \/ ~RouteMatches(p, rule) THEN acc
        ELSE [stopped |-> rule.stop, matched |-> TRUE,
              chats |-> Unique(acc.chats \o rule.chats)]
  IN FoldLeft(Scan, [stopped |-> FALSE, matched |-> FALSE, chats |-> <<>>], rules)

-----------------------------------------------------------------------------
(* Templates.                                                              *)

(* canonGitlabTemplateKey: "kind.*" and "kind" are one slot.               *)
Canon(key) == [key EXCEPT !.sub = IF key.sub = AnySub THEN Absent ELSE key.sub]

DefaultKey == [kind |-> "default", sub |-> Absent]

(* What becomes of an event's message: "text", "blank" or "broken".  The   *)
(* exact key goes before the kind, the kind before the default; a key of   *)
(* the sender replaces a built-in one (selectTemplate).                    *)
Rendered(p, s) ==
  LET own    == {k \in DOMAIN s.templates : {<<k.kind>>} = Kind(p)}
      exact  == {k \in own : Subtype(p) # {} /\ {<<k.sub>>} = Subtype(p)}
      whole  == {k \in own : Canon(k).sub = Absent}
      builtin(sub) == \E k \in DefaultKeys : {<<k.kind>>} = Kind(p) /\
                        (IF sub THEN {<<k.sub>>} = Subtype(p) ELSE k.sub = Absent)
      TextOf(keys) == s.templates[CHOOSE k \in keys : TRUE]
  IN IF exact # {} THEN TextOf(exact)
     ELSE IF builtin(TRUE) THEN "text"
     ELSE IF whole # {} THEN TextOf(whole)
     ELSE IF builtin(FALSE) \/ DefaultKey \notin DOMAIN s.templates THEN "text"
     ELSE s.templates[DefaultKey]
-----------------------------------------------------------------------------
(* Chats.  A chat section maps aliases to [id, bot].                       *)

Unresolved == [id |-> Absent, bot |-> Absent]

(* config.ResolveChatRef.                                                  *)
Resolve(chats, ref) ==
  IF ref \in ChatIds THEN [id |-> ref, bot |-> Absent]
  ELSE IF ref \in DOMAIN chats /\ chats[ref].id # Absent THEN chats[ref] ELSE Unresolved

RouteChats(s) == FoldLeft(LAMBDA named, rule : named \o rule.chats, <<>>, s.routes)

(* The delivery targets: the sender's chats, else what its rules name.     *)
Explicit(s) == s.chats # <<>>
Declared(s) == IF Explicit(s) THEN s.chats ELSE RouteChats(s)

(* The reference a chat id is delivered through: the first that means it.  *)
FirstRef(chats, refs, id) ==
  refs[CHOOSE i \in DOMAIN refs : /\ Resolve(chats, refs[i]).id = id
                                  /\ \A j \in 1 .. i - 1 : Resolve(chats, refs[j]).id # id]

(* GitlabTarget.BotConflict.                                               *)
BotConflict(chats, target, ref) ==
  LET theirs == Resolve(chats, ref).bot
      ours   == Resolve(chats, target).bot
  IN ref # target /\ theirs # Absent /\ ours # Absent /\ theirs # ours

IdsOf(chats, refs) == {Resolve(chats, r).id : r \in refs}

(* buildGitlabSender, the chats: every target resolves, in multi-bot mode  *)
(* through an alias that names its bot, no chat is named in two ways, and  *)
(* the rules stay within the sender's chats without changing the bot.      *)
TargetsAccepted(chats, multiBot, s) ==
  LET refs == ToSet(Declared(s))
  IN /\ \A r \in refs : Resolve(chats, r) # Unresolved
     /\ multiBot => \A r \in refs : r \notin ChatIds /\ Resolve(chats, r).bot # Absent
     /\ \A r, t \in refs : Resolve(chats, r).id = Resolve(chats, t).id => r = t
     /\ Explicit(s) =>
          \A r \in ToSet(RouteChats(s)) :
             LET id == Resolve(chats, r).id
             IN /\ Resolve(chats, r) # Unresolved
                /\ id \in IdsOf(chats, ToSet(s.chats))
                /\ ~BotConflict(chats, FirstRef(chats, s.chats, id), r)

(* config.classify: an id taken from the environment is not known offline. *)
Classified(chats, ref) ==
  LET at == Resolve(chats, ref)
  IN IF at.id \in ChatIds THEN at ELSE [at EXCEPT !.id = Absent]

(* An alias that does not exist or has no id.                              *)
Bad(chats, ref) == Resolve(chats, ref) = Unresolved

(* The copy of BotConflict in internal/config.                             *)
OfflineConflict(chats, s, r) ==
  LET t == FirstRef(chats, s.chats, Classified(chats, r).id)
  IN t # r /\ Absent \notin {chats[x].bot : x \in {r, t} \ ChatIds}
     /\ r \notin ChatIds /\ t \notin ChatIds /\ chats[r].bot # chats[t].bot

(* Mutant: chats whose id is not known are taken for other chats.          *)
OfflineOutsideAlways(chats, s) ==
  \/ \E r \in ToSet(Declared(s) \o RouteChats(s)) : Bad(chats, r)
  \/ \E r, t \in ToSet(Declared(s)) :
        r # t /\ Classified(chats, r).id # Absent /\ Classified(chats, r).id = Classified(chats, t).id
  \/ Explicit(s) /\ \E r \in ToSet(RouteChats(s)) : Classified(chats, r).id # Absent /\
        IF \E t \in ToSet(s.chats) : Classified(chats, t).id = Classified(chats, r).id
        THEN OfflineConflict(chats, s, r)
        ELSE TRUE

(* validateCrossReferences, the section on GitLab: what it calls an error. *)
OfflineError(chats, s) ==
  \/ \E r \in ToSet(Declared(s) \o RouteChats(s)) : Bad(chats, r)
  \/ \E r, t \in ToSet(Declared(s)) :
        r # t /\ Classified(chats, r).id # Absent /\ Classified(chats, r).id = Classified(chats, t).id
  \/ Explicit(s) /\ \E r \in ToSet(RouteChats(s)) : Classified(chats, r).id # Absent /\
        IF \E t \in ToSet(s.chats) : Classified(chats, t).id = Classified(chats, r).id
        THEN OfflineConflict(chats, s, r)
        ELSE \A t \in ToSet(s.chats) : Classified(chats, t).id # Absent

(* and what it warns of: a target without a bot, when there are several.   *)
OfflineWarning(chats, bots, s) ==
  /\ \E x, y \in bots : x # y
  /\ \E r \in ToSet(Declared(s)) :
       r \in ChatIds \/ (r \in DOMAIN chats /\ chats[r].bot = Absent)

(* validateGitlabSenders, validateGitlabSender: what needs no chats.       *)
Keys(s) == DOMAIN s.templates
WellFormed(senders) ==
  /\ senders # <<>>
  /\ \A i \in DOMAIN senders :
       LET s == senders[i]
       IN /\ s.secret # Absent
          /\ s.chats # <<>> \/ s.routes # <<>>
          /\ \A r \in DOMAIN s.routes : s.routes[r].chats # <<>>
          /\ \A k, l \in Keys(s) : Canon(k) = Canon(l) => k = l
  /\ \A i, j \in DOMAIN senders : i # j =>
       /\ senders[i].secret # senders[j].secret
       /\ senders[i].name # Absent => senders[i].name # senders[j].name
=============================================================================
