------------------------------ MODULE Membership ------------------------------
(***************************************************************************)
(* Who may post where (internal/server/membership.go): whether the sending *)
(* bot is a member of the chat, asked of BotX, kept in a bounded cache,    *)
(* with one lookup at a time for a bot and chat.                           *)
(*                                                                         *)
(* A request makes one check and starts at most one lookup, which has its  *)
(* name.  Time passes only while every goroutine waits for something.      *)
(***************************************************************************)
EXTENDS Integers, FiniteSets

CONSTANTS Requests, Bots,
          ChatIDs,        \* chat ids as requests spell them
          Chats,          \* and folded to lower case
          Fold,
          None,
          TTL, NegativeTTL,
          LookupTimeout,  \* membershipLookupTimeout
          MaxEntries,     \* membershipMaxEntries
          MaxInflight,    \* membershipMaxInflight
          MaxTime         \* bound of the clock

ASSUME MembershipAssumption ==
  /\ Fold \in [ChatIDs -> Chats]
  /\ TTL \in Nat \ {0} /\ NegativeTTL \in Nat \ {0} /\ LookupTimeout \in Nat
  /\ MaxEntries \in Nat \ {0} /\ MaxInflight \in Nat \ {0} /\ MaxTime \in Nat
  /\ None \notin Requests
  /\ IsFiniteSet(Requests) /\ IsFiniteSet(Bots) /\ IsFiniteSet(Chats)

Keys == Bots \X Chats

VARIABLES now,
          cache,     \* membershipEntry by key, with the lookup it came from
          inflight,  \* the lookup by key
          calls,     \* membershipCall, the phase of its goroutine, what it asks
          pc, asks,  \* where each request is, the bot and chat it asks about
          call,      \* the lookup it waits for
          answer,    \* what its check returned
          basis      \* the lookup the answer came from

callerVars == <<pc, asks, call, answer, basis>>
vars == <<now, cache, inflight, calls, callerVars>>

NoEntry == [member |-> FALSE, expires |-> 0, by |-> None]
Entries == [member : BOOLEAN, expires : Nat, by : Requests \cup {None}]
Phases  == {"unused", "asking", "told", "stored", "closed"}
Running == {"asking", "told"}
Answers == {"none", "member", "not_member", "unavailable"}

Cached == {k \in Keys : cache[k].by # None}
Looked == {k \in Keys : inflight[k] # None}
Fresh(k) == cache[k].by # None /\ now < cache[k].expires

TypeOK ==
  /\ now \in Nat
  /\ cache \in [Keys -> Entries]
  /\ inflight \in [Keys -> Requests \cup {None}]
  /\ calls \in [Requests -> [phase : Phases, key : Keys \cup {None},
                             member : BOOLEAN, err : BOOLEAN,
                             started : Nat, seen : Nat]]
  /\ pc \in [Requests -> {"idle", "wait", "done"}]
  /\ asks \in [Requests -> Keys \cup {None}]
  /\ call \in [Requests -> Requests \cup {None}]
  /\ answer \in [Requests -> Answers]
  /\ basis \in [Requests -> Requests \cup {None}]

(* newMembershipChecker.                                                   *)
Init ==
  /\ now = 0
  /\ cache = [k \in Keys |-> NoEntry]
  /\ inflight = [k \in Keys |-> None]
  /\ calls = [r \in Requests |-> [phase |-> "unused", key |-> None, member |-> FALSE,
                                  err |-> FALSE, started |-> 0, seen |-> 0]]
  /\ pc = [r \in Requests |-> "idle"]
  /\ asks = [r \in Requests |-> None]
  /\ call = [r \in Requests |-> None]
  /\ answer = [r \in Requests |-> "none"]
  /\ basis = [r \in Requests |-> None]
-----------------------------------------------------------------------------
(* Mutant: bots share the answers about a chat.                            *)
KeyOfChat(bot, id) == <<CHOOSE b \in Bots : TRUE, Fold[id]>>

(* The key of the cache and of the lookups: chat ids are folded, bot names *)
(* are not.                                                                *)
Key(bot, id) == <<bot, Fold[id]>>

Return(r, how, from) ==
  /\ pc' = [pc EXCEPT ![r] = "done"]
  /\ answer' = [answer EXCEPT ![r] = how]
  /\ call' = [call EXCEPT ![r] = None]
  /\ basis' = [basis EXCEPT ![r] = from]

Verdict(isMember) == IF isMember THEN "member" ELSE "not_member"

Wait(r, lookup) ==
  /\ call' = [call EXCEPT ![r] = lookup]
  /\ pc' = [pc EXCEPT ![r] = "wait"]
  /\ UNCHANGED <<answer, basis>>

(* check, the part under the lock.                                         *)
HitCache(r, key) ==
  /\ Fresh(key)
  /\ Return(r, Verdict(cache[key].member), cache[key].by)
  /\ UNCHANGED <<cache, inflight, calls>>

DropExpired(key) == cache' = [cache EXCEPT ![key] = NoEntry]

JoinLookup(r, key) ==
  /\ ~Fresh(key) /\ inflight[key] # None
  /\ DropExpired(key)
  /\ Wait(r, inflight[key])
  /\ UNCHANGED <<inflight, calls>>

Refuse(r, key) ==
  /\ ~Fresh(key) /\ inflight[key] = None
  /\ Cardinality(Looked) >= MaxInflight
  /\ DropExpired(key)
  /\ Return(r, "unavailable", None)
  /\ UNCHANGED <<inflight, calls>>

StartLookup(r, key) ==
  /\ ~Fresh(key) /\ inflight[key] = None
  /\ Cardinality(Looked) < MaxInflight
  /\ DropExpired(key)
  /\ inflight' = [inflight EXCEPT ![key] = r]
  /\ calls' = [calls EXCEPT ![r].phase = "asking", ![r].key = key, ![r].started = now]
  /\ Wait(r, r)

Check(r, bot, id) ==
  LET key == Key(bot, id)
  IN /\ pc[r] = "idle"
     /\ asks' = [asks EXCEPT ![r] = <<bot, Fold[id]>>]
     /\ HitCache(r, key) \/ JoinLookup(r, key) \/ Refuse(r, key) \/ StartLookup(r, key)
     /\ UNCHANGED now

(* check, the select after it: the lookup is done, or the request's own    *)
(* context is.  A lookup error is "unavailable" (checkMembership).         *)
Wake(r) ==
  LET c == calls[call[r]]
  IN /\ pc[r] = "wait" /\ c.phase = "closed"
     /\ IF c.err THEN Return(r, "unavailable", None)
                 ELSE Return(r, Verdict(c.member), call[r])
     /\ UNCHANGED <<now, cache, inflight, calls, asks>>

GiveUp(r) ==
  /\ pc[r] = "wait"
  /\ Return(r, "unavailable", None)
  /\ UNCHANGED <<now, cache, inflight, calls, asks>>
-----------------------------------------------------------------------------
(* membershipLookup at BotX: the bot is in the member list at this moment  *)
(* or it is not; a chat BotX does not know counts as not a member.         *)
Tell(r) ==
  /\ calls[r].phase = "asking"
  /\ \E isMember \in BOOLEAN :
       calls' = [calls EXCEPT ![r].phase = "told", ![r].seen = now,
                              ![r].member = isMember]
  /\ UNCHANGED <<now, cache, inflight, callerVars>>

(* sweep, of a full cache.                                                 *)
Sweep == LET live == {k \in Keys : Fresh(k)}
             kept == IF Cardinality(live) >= MaxEntries THEN {} ELSE live
         IN [k \in Keys |-> IF k \in kept THEN cache[k] ELSE NoEntry]

Swept == IF Cardinality(Cached) >= MaxEntries THEN Sweep ELSE cache

(* Mutant: refusals live as long as permissions.                           *)
LifetimeTTL(isMember) == TTL

Lifetime(isMember) == IF isMember THEN TTL ELSE NegativeTTL

(* run, after the lookup returned, under the lock.                         *)
Finish(r, failed) ==
  /\ inflight' = [inflight EXCEPT ![calls[r].key] = None]
  /\ calls' = [calls EXCEPT ![r].phase = "stored", ![r].err = failed]
  /\ UNCHANGED <<now, callerVars>>

Answered(r) ==
  /\ calls[r].phase = "told"
  /\ Finish(r, FALSE)
  /\ cache' = [Swept EXCEPT ![calls[r].key] =
                 [member |-> calls[r].member, by |-> r,
                  expires |-> now + Lifetime(calls[r].member)]]

(* Mutant: a failed lookup is kept as a refusal.                           *)
FailedCached(r) ==
  /\ calls[r].phase \in Running
  /\ Finish(r, TRUE)
  /\ cache' = [Swept EXCEPT ![calls[r].key] =
                 [member |-> FALSE, by |-> r, expires |-> now + NegativeTTL]]

(* An error of BotX, a lost connection, the timeout, an unknown bot.       *)
Failed(r) ==
  /\ calls[r].phase \in Running
  /\ Finish(r, TRUE)
  /\ UNCHANGED cache

(* Mutant: only an answer wakes those who wait.                            *)
CloseDoneOnSuccess(r) ==
  /\ calls[r].phase = "stored" /\ ~calls[r].err
  /\ calls' = [calls EXCEPT ![r].phase = "closed"]
  /\ UNCHANGED <<now, cache, inflight, callerVars>>

(* close(call.done), after the unlock.                                     *)
CloseDone(r) ==
  /\ calls[r].phase = "stored"
  /\ calls' = [calls EXCEPT ![r].phase = "closed"]
  /\ UNCHANGED <<now, cache, inflight, callerVars>>
-----------------------------------------------------------------------------
(* A lookup has ended when its timeout has passed.                         *)
Tick ==
  /\ now < MaxTime
  /\ \A r \in Requests :
       /\ calls[r].phase \in Running => now < calls[r].started + LookupTimeout
       /\ calls[r].phase # "stored"
       /\ pc[r] = "wait" => calls[call[r]].phase # "closed"
  /\ now' = now + 1
  /\ UNCHANGED <<cache, inflight, calls, callerVars>>

LookupStep(r) == Tell(r) \/ Answered(r) \/ Failed(r) \/ CloseDone(r)

Next == \/ \E r \in Requests : \/ \E bot \in Bots, id \in ChatIDs : Check(r, bot, id)
                               \/ Wake(r) \/ GiveUp(r) \/ LookupStep(r)
        \/ Tick

Spec == Init /\ [][Next]_vars

(* Goroutines run and every lookup has a timeout.                          *)
Fairness == \A r \in Requests : WF_vars(Wake(r)) /\ WF_vars(LookupStep(r))

FairSpec == Spec /\ Fairness
-----------------------------------------------------------------------------
(* Concurrent requests about one bot and chat cost one call to BotX (check:*)
(* "collapses concurrent lookups of the same pair").                       *)
OneLookup ==
  \A r, s \in Requests :
    calls[r].phase \in Running /\ calls[s].phase \in Running /\ asks[r] = asks[s]
    => r = s

(* What is asked of BotX at once and what is kept stay within their limits,*)
(* whatever fails and whoever stops waiting for it.                        *)
LookupsBounded == Cardinality({r \in Requests : calls[r].phase \in Running}) <= MaxInflight

CacheBounded == Cardinality(Cached) <= MaxEntries

LimitsKept == LookupsBounded /\ CacheBounded

(* A request is let in, or refused for good, only by an answer BotX gave   *)
(* about its own bot and chat: a failed lookup, another bot's or another   *)
(* chat's decides nothing ("never cached", fail closed).                   *)
Good(b) == calls[b].phase \in {"stored", "closed"} /\ ~calls[b].err

Backed(r) ==
  LET b == basis[r]
  IN /\ b \in Requests /\ asks[b] = asks[r]
     /\ Good(b)
     /\ answer[r] = Verdict(calls[b].member)

AnswersBacked == \A r \in Requests : answer[r] \in {"member", "not_member"} => Backed(r)

(* A key is never stuck to a lookup that has ended: the next request after *)
(* a failure asks BotX again.                                              *)
NoDeadLookup == \A k \in Looked : calls[inflight[k]].phase \in Running

(* What a request is told was true no longer ago than the lifetime of such *)
(* an answer and the one lookup it took.                                   *)
BoundedStaleness ==
  [][\A r \in Requests :
       answer[r] = "none" /\ answer'[r] \in {"member", "not_member"}
       => LET seen == calls[basis'[r]].seen
              life == IF answer'[r] = "member" THEN TTL ELSE NegativeTTL
          IN now <= seen + LookupTimeout + life]_vars

(* What keeps them: a lookup in flight is the running one of its key; a    *)
(* waiting request waits for its own key; an entry is what its lookup saw, *)
(* no older than a lookup and the lifetime of its answer.                  *)
InFlightOK ==
  /\ \A k \in Looked : /\ calls[inflight[k]].phase \in Running
                       /\ asks[inflight[k]] = k
  /\ \A r \in Requests :
       /\ calls[r].phase # "unused" => asks[r] \in Keys /\ calls[r].key = asks[r]
       /\ calls[r].phase \in Running => inflight[asks[r]] = r
  /\ Cardinality(Looked) <= MaxInflight

WaitOK ==
  \A r \in Requests :
    /\ pc[r] = "idle" => calls[r].phase = "unused" /\ answer[r] = "none"
    /\ pc[r] = "wait" => /\ call[r] \in Requests /\ calls[call[r]].phase # "unused"
                         /\ asks[call[r]] = asks[r]

EntriesOK ==
  \A k \in Cached :
    LET e == cache[k]
        c == calls[e.by]
    IN /\ Good(e.by) /\ asks[e.by] = k /\ e.member = c.member
       /\ e.expires <= c.seen + LookupTimeout + Lifetime(c.member)

TimeOK ==
  \A r \in Requests :
    LET c == calls[r]
    IN /\ c.phase \in Running => now <= c.started + LookupTimeout
       /\ c.phase = "asking" => c.started <= now
       /\ c.phase = "told" => c.started <= c.seen
       /\ \/ c.phase = "stored"
          \/ c.phase = "closed" /\ \E w \in Requests : pc[w] = "wait" /\ call[w] = r
          => c.err \/ now <= c.seen + LookupTimeout

IInv == /\ TypeOK /\ InFlightOK /\ WaitOK /\ EntriesOK /\ TimeOK
        /\ AnswersBacked /\ CacheBounded

(* Every check ends, whatever BotX does.                                   *)
EveryCheckEnds == \A r \in Requests : pc[r] # "idle" ~> pc[r] = "done"
=============================================================================
