--------------------------- MODULE MembershipProofs ---------------------------
(***************************************************************************)
(* IInv is an invariant of the membership checker for any number of        *)
(* requests, bots and chats and any limits; with it, how old an answer may *)
(* be.                                                                     *)
(***************************************************************************)
EXTENDS Membership, FiniteSetTheorems, TLAPS

CallType == [phase : Phases, key : Keys \cup {None}, member : BOOLEAN,
             err : BOOLEAN, started : Nat, seen : Nat]

LEMMA KeysFinite == IsFiniteSet(Keys)
  BY FS_Product, MembershipAssumption DEF Keys

LEMMA KeyTyped ==
  ASSUME NEW bot \in Bots, NEW id \in ChatIDs
  PROVE  Key(bot, id) \in Keys /\ Key(bot, id) = <<bot, Fold[id]>>
  BY MembershipAssumption DEF Key, Keys

LEMMA InitOK == Init => IInv
<1> SUFFICES ASSUME Init PROVE IInv
  OBVIOUS
<1>1. /\ \A k \in Keys : cache[k].by = None /\ inflight[k] = None
      /\ \A r \in Requests : calls[r].phase = "unused" /\ answer[r] = "none" /\ pc[r] = "idle"
  BY DEF Init, NoEntry
<1>2. TypeOK
  BY MembershipAssumption DEF Init, TypeOK, NoEntry, Entries, Phases, Answers
<1>3. Cached = {} /\ Looked = {}
  BY <1>1 DEF Cached, Looked
<1>4. Cardinality({}) = 0
  BY FS_EmptySet
<1>5. InFlightOK /\ CacheBounded
  BY <1>1, <1>3, <1>4, MembershipAssumption DEF InFlightOK, CacheBounded, Running
<1>6. WaitOK /\ EntriesOK /\ TimeOK /\ AnswersBacked
  BY <1>1, <1>3 DEF WaitOK, EntriesOK, TimeOK, AnswersBacked, Running
<1> QED
  BY <1>2, <1>5, <1>6 DEF IInv

(* The size of a set of keys that lost some members.                       *)
LEMMA SmallerSet ==
  ASSUME NEW S, NEW T, T \subseteq S, S \subseteq Keys, NEW n \in Nat, Cardinality(S) <= n
  PROVE  Cardinality(T) <= n
<1>1. IsFiniteSet(S) /\ IsFiniteSet(T)
  BY KeysFinite, FS_Subset
<1>2. Cardinality(T) <= Cardinality(S) /\ Cardinality(S) \in Nat /\ Cardinality(T) \in Nat
  BY <1>1, FS_Subset, FS_CardinalityType
<1> QED
  BY <1>2

LEMMA DropEffect ==
  ASSUME IInv, NEW key \in Keys, DropExpired(key)
  PROVE  /\ cache' \in [Keys -> Entries]
         /\ Cached' \subseteq Cached
         /\ \A k \in Cached' : cache'[k] = cache[k]
         /\ CacheBounded'
<1>1. cache \in [Keys -> Entries] /\ NoEntry \in Entries /\ NoEntry.by = None
  BY DEF IInv, TypeOK, Entries, NoEntry
<1>2. cache' = [cache EXCEPT ![key] = NoEntry]
  BY DEF DropExpired
<1> HIDE DEF NoEntry
<1>3. /\ cache' \in [Keys -> Entries] /\ Cached' \subseteq Cached
      /\ \A k \in Cached' : cache'[k] = cache[k]
  BY <1>1, <1>2 DEF Cached
<1>4. CacheBounded'
  BY <1>3, SmallerSet, MembershipAssumption DEF IInv, CacheBounded, Cached
<1> QED
  BY <1>3, <1>4

(* A step of request r that leaves the lookups alone, drops entries at     *)
(* most, and keeps what the invariant says of r.                           *)
RequestOK(r) ==
  /\ pc[r] = "idle" => calls[r].phase = "unused" /\ answer[r] = "none"
  /\ pc[r] = "wait" => /\ call[r] \in Requests /\ calls[call[r]].phase \in Running
                       /\ asks[call[r]] = asks[r]
  /\ answer[r] \in {"member", "not_member"} => Backed(r)

RequestFrame(r) ==
  /\ UNCHANGED <<now, inflight, calls>>
  /\ cache' \in [Keys -> Entries] /\ Cached' \subseteq Cached /\ CacheBounded'
  /\ \A k \in Cached' : cache'[k] = cache[k]
  /\ pc' \in [Requests -> {"idle", "wait", "done"}]
  /\ asks' \in [Requests -> Keys \cup {None}]
  /\ call' \in [Requests -> Requests \cup {None}]
  /\ answer' \in [Requests -> Answers] /\ basis' \in [Requests -> Requests \cup {None}]
  /\ \A s \in Requests \ {r} :
       /\ pc'[s] = pc[s] /\ asks'[s] = asks[s] /\ call'[s] = call[s]
       /\ answer'[s] = answer[s] /\ basis'[s] = basis[s]
  /\ asks'[r] = asks[r] \/ calls[r].phase = "unused"

LEMMA RequestSuffices ==
  ASSUME IInv, NEW r \in Requests, RequestFrame(r), RequestOK(r)'
  PROVE  IInv'
<1>1. TypeOK'
  BY DEF IInv, TypeOK, RequestFrame
<1>2. /\ now' = now /\ inflight' = inflight /\ calls' = calls /\ Looked' = Looked
      /\ \A s \in Requests : Good(s)' <=> Good(s)
  BY DEF RequestFrame, Looked, Good
<1>3. \A s \in Requests : calls[s].phase # "unused" => asks'[s] = asks[s]
  BY DEF RequestFrame
<1>4. \A k \in Looked : inflight[k] \in Requests /\ k \in Keys
  BY DEF IInv, TypeOK, Looked
<1>5. InFlightOK'
  BY <1>2, <1>3, <1>4 DEF IInv, InFlightOK, Running
<1>6. \A s \in Requests \ {r} :
        /\ pc'[s] = pc[s] /\ asks'[s] = asks[s] /\ call'[s] = call[s]
        /\ answer'[s] = answer[s] /\ basis'[s] = basis[s]
  BY DEF RequestFrame
<1>7. WaitOK'
  <2> SUFFICES ASSUME NEW s \in Requests
               PROVE  /\ pc'[s] = "idle" => calls'[s].phase = "unused" /\ answer'[s] = "none"
                      /\ pc'[s] = "wait" => /\ call'[s] \in Requests
                                            /\ calls'[call'[s]].phase # "unused"
                                            /\ asks'[call'[s]] = asks'[s]
    BY DEF WaitOK
  <2>1. CASE s = r
    BY <2>1 DEF RequestOK, Running
  <2>2. CASE s # r
    BY <1>2, <1>3, <1>6, <2>2 DEF IInv, WaitOK
  <2> QED
    BY <2>1, <2>2
<1>8. EntriesOK'
  <2>1. ASSUME NEW k \in Cached'
        PROVE  k \in Cached /\ cache'[k] = cache[k] /\ cache[k].by \in Requests
    BY <2>1 DEF RequestFrame, Cached, IInv, TypeOK, Entries
  <2>2. ASSUME NEW k \in Cached
        PROVE  /\ Good(cache[k].by) /\ asks'[cache[k].by] = k
               /\ cache[k].member = calls[cache[k].by].member
               /\ cache[k].expires <= calls[cache[k].by].seen + LookupTimeout
                                        + Lifetime(calls[cache[k].by].member)
    <3>1. /\ Good(cache[k].by) /\ asks[cache[k].by] = k
          /\ cache[k].member = calls[cache[k].by].member
          /\ cache[k].expires <= calls[cache[k].by].seen + LookupTimeout
                                   + Lifetime(calls[cache[k].by].member)
          /\ cache[k].by \in Requests
      BY DEF IInv, TypeOK, EntriesOK, Cached, Entries
    <3> QED
      BY <1>3, <3>1 DEF Good
  <2> QED
    BY <1>2, <2>1, <2>2 DEF EntriesOK, Lifetime, Good
<1>9. TimeOK'
  <2> SUFFICES ASSUME NEW s \in Requests, calls[s].phase = "closed",
                      NEW w \in Requests, pc'[w] = "wait", call'[w] = s
               PROVE  calls[s].err \/ now <= calls[s].seen + LookupTimeout
    BY <1>2 DEF IInv, TimeOK
  <2>1. w # r
    BY <1>2 DEF RequestOK, Running
  <2> QED
    BY <1>6, <2>1 DEF IInv, TimeOK
<1>10. AnswersBacked'
  <2> SUFFICES ASSUME NEW s \in Requests, answer'[s] \in {"member", "not_member"}
               PROVE  Backed(s)'
    BY DEF AnswersBacked
  <2>1. CASE s = r
    BY <2>1 DEF RequestOK
  <2>2. CASE s # r
    <3>1. Backed(s)
      BY <1>6, <2>2 DEF IInv, AnswersBacked
    <3>2. asks'[s] = asks[s] /\ answer'[s] = answer[s] /\ basis'[s] = basis[s]
      BY <1>6, <2>2
    <3>3. asks'[basis[s]] = asks[basis[s]]
      BY <1>3, <3>1 DEF Backed, Good
    <3> QED
      BY <1>2, <3>1, <3>2, <3>3 DEF Backed, Good, Verdict
  <2> QED
    BY <2>1, <2>2
<1>11. CacheBounded'
  BY DEF RequestFrame
<1> QED
  BY <1>1, <1>5, <1>7, <1>8, <1>9, <1>10, <1>11 DEF IInv
-----------------------------------------------------------------------------
LEMMA ReturnEffect ==
  ASSUME IInv, NEW r \in Requests, NEW how \in Answers,
         NEW from \in Requests \cup {None}, Return(r, how, from)
  PROVE  /\ pc' \in [Requests -> {"idle", "wait", "done"}] /\ pc'[r] = "done"
         /\ answer' \in [Requests -> Answers] /\ answer'[r] = how
         /\ basis' \in [Requests -> Requests \cup {None}] /\ basis'[r] = from
         /\ call' \in [Requests -> Requests \cup {None}]
         /\ \A s \in Requests \ {r} : /\ pc'[s] = pc[s] /\ answer'[s] = answer[s]
                                      /\ basis'[s] = basis[s] /\ call'[s] = call[s]
  BY DEF IInv, TypeOK, Return

LEMMA WaitEffect ==
  ASSUME IInv, NEW r \in Requests, NEW lookup \in Requests, Wait(r, lookup)
  PROVE  /\ pc' \in [Requests -> {"idle", "wait", "done"}] /\ pc'[r] = "wait"
         /\ call' \in [Requests -> Requests \cup {None}] /\ call'[r] = lookup
         /\ answer' = answer /\ basis' = basis
         /\ \A s \in Requests \ {r} : pc'[s] = pc[s] /\ call'[s] = call[s]
  BY DEF IInv, TypeOK, Wait

LEMMA AsksEffect ==
  ASSUME IInv, NEW r \in Requests, NEW key \in Keys, pc[r] = "idle",
         asks' = [asks EXCEPT ![r] = key]
  PROVE  /\ asks' \in [Requests -> Keys \cup {None}] /\ asks'[r] = key
         /\ \A s \in Requests \ {r} : asks'[s] = asks[s]
         /\ calls[r].phase = "unused" /\ answer[r] = "none"
  BY DEF IInv, TypeOK, WaitOK

LEMMA Typed ==
  ASSUME IInv
  PROVE  /\ pc \in [Requests -> {"idle", "wait", "done"}]
         /\ answer \in [Requests -> Answers]
         /\ basis \in [Requests -> Requests \cup {None}]
         /\ call \in [Requests -> Requests \cup {None}]
         /\ asks \in [Requests -> Keys \cup {None}]
         /\ calls \in [Requests -> CallType]
         /\ cache \in [Keys -> Entries]
         /\ inflight \in [Keys -> Requests \cup {None}]
         /\ now \in Nat /\ CacheBounded
  BY DEF IInv, TypeOK, CallType

LEMMA HitCacheOK ==
  ASSUME IInv, NEW r \in Requests, NEW key \in Keys, pc[r] = "idle", now' = now,
         asks' = [asks EXCEPT ![r] = key], HitCache(r, key)
  PROVE  IInv'
<1> DEFINE b == cache[key].by
<1>1. /\ b \in Requests /\ Good(b) /\ asks[b] = key /\ cache[key].member = calls[b].member
  BY DEF IInv, TypeOK, Entries, EntriesOK, HitCache, Fresh, Cached
<1>2. Verdict(cache[key].member) \in Answers
  BY DEF Verdict, Answers
<1>3. /\ pc' \in [Requests -> {"idle", "wait", "done"}] /\ pc'[r] = "done"
      /\ answer' \in [Requests -> Answers] /\ answer'[r] = Verdict(cache[key].member)
      /\ basis' \in [Requests -> Requests \cup {None}] /\ basis'[r] = b
      /\ call' \in [Requests -> Requests \cup {None}]
      /\ \A s \in Requests \ {r} : /\ pc'[s] = pc[s] /\ answer'[s] = answer[s]
                                   /\ basis'[s] = basis[s] /\ call'[s] = call[s]
  BY <1>1, <1>2, ReturnEffect DEF HitCache
<1>4. /\ asks' \in [Requests -> Keys \cup {None}] /\ asks'[r] = key
      /\ \A s \in Requests \ {r} : asks'[s] = asks[s]
      /\ calls[r].phase = "unused"
  BY AsksEffect
<1>5. UNCHANGED <<cache, inflight, calls>>
  BY DEF HitCache
<1>6. RequestFrame(r)
  BY <1>3, <1>4, <1>5, Typed DEF RequestFrame, Cached, CacheBounded
<1>7. asks'[b] = key
  BY <1>1, <1>4 DEF Good
<1>8. Backed(r)'
  BY <1>1, <1>3, <1>4, <1>5, <1>7 DEF Backed, Good, Verdict
<1> QED
  BY <1>3, <1>6, <1>8, RequestSuffices DEF RequestOK

LEMMA JoinLookupOK ==
  ASSUME IInv, NEW r \in Requests, NEW key \in Keys, pc[r] = "idle", now' = now,
         asks' = [asks EXCEPT ![r] = key], JoinLookup(r, key)
  PROVE  IInv'
<1> DEFINE l == inflight[key]
<1>1. /\ l \in Requests /\ calls[l].phase \in Running /\ asks[l] = key
  BY DEF IInv, TypeOK, InFlightOK, Looked, JoinLookup
<1>2. /\ pc' \in [Requests -> {"idle", "wait", "done"}] /\ pc'[r] = "wait"
      /\ call' \in [Requests -> Requests \cup {None}] /\ call'[r] = l
      /\ answer' = answer /\ basis' = basis
      /\ \A s \in Requests \ {r} : pc'[s] = pc[s] /\ call'[s] = call[s]
  BY <1>1, WaitEffect DEF JoinLookup
<1>3. /\ asks' \in [Requests -> Keys \cup {None}] /\ asks'[r] = key
      /\ \A s \in Requests \ {r} : asks'[s] = asks[s]
      /\ calls[r].phase = "unused" /\ answer[r] = "none"
  BY AsksEffect
<1>4. UNCHANGED <<inflight, calls>>
  BY DEF JoinLookup
<1>5. /\ cache' \in [Keys -> Entries] /\ Cached' \subseteq Cached /\ CacheBounded'
      /\ \A k \in Cached' : cache'[k] = cache[k]
  BY DropEffect DEF JoinLookup
<1>6. RequestFrame(r)
  BY <1>2, <1>3, <1>4, <1>5, Typed DEF RequestFrame
<1>7. asks'[l] = key
  BY <1>1, <1>3 DEF Running
<1> QED
  BY <1>1, <1>2, <1>3, <1>4, <1>6, <1>7, RequestSuffices DEF RequestOK

LEMMA RefuseOK ==
  ASSUME IInv, NEW r \in Requests, NEW key \in Keys, pc[r] = "idle", now' = now,
         asks' = [asks EXCEPT ![r] = key], Refuse(r, key)
  PROVE  IInv'
<1>1. /\ pc' \in [Requests -> {"idle", "wait", "done"}] /\ pc'[r] = "done"
      /\ answer' \in [Requests -> Answers] /\ answer'[r] = "unavailable"
      /\ basis' \in [Requests -> Requests \cup {None}]
      /\ call' \in [Requests -> Requests \cup {None}]
      /\ \A s \in Requests \ {r} : /\ pc'[s] = pc[s] /\ answer'[s] = answer[s]
                                   /\ basis'[s] = basis[s] /\ call'[s] = call[s]
  BY ReturnEffect DEF Refuse, Answers
<1>2. /\ asks' \in [Requests -> Keys \cup {None}]
      /\ \A s \in Requests \ {r} : asks'[s] = asks[s]
      /\ calls[r].phase = "unused"
  BY AsksEffect
<1>3. UNCHANGED <<inflight, calls>>
  BY DEF Refuse
<1>4. /\ cache' \in [Keys -> Entries] /\ Cached' \subseteq Cached /\ CacheBounded'
      /\ \A k \in Cached' : cache'[k] = cache[k]
  BY DropEffect DEF Refuse
<1>5. RequestFrame(r)
  BY <1>1, <1>2, <1>3, <1>4 DEF RequestFrame
<1> QED
  BY <1>1, <1>5, RequestSuffices DEF RequestOK

LEMMA WakeOK ==
  ASSUME IInv, NEW r \in Requests, Wake(r)
  PROVE  IInv'
<1> DEFINE l == call[r]
<1>1. /\ pc[r] = "wait" /\ l \in Requests /\ calls[l].phase = "closed" /\ asks[l] = asks[r]
      /\ calls[l].member \in BOOLEAN
      /\ UNCHANGED <<now, cache, inflight, calls, asks>>
  BY Typed DEF Wake, IInv, WaitOK, CallType
<1>2. ASSUME NEW how \in Answers, NEW from \in Requests \cup {None}, Return(r, how, from),
             how # "unavailable" => from = l /\ ~calls[l].err /\ how = Verdict(calls[l].member)
      PROVE  IInv'
  <2>1. /\ pc' \in [Requests -> {"idle", "wait", "done"}] /\ pc'[r] = "done"
        /\ answer' \in [Requests -> Answers] /\ answer'[r] = how
        /\ basis' \in [Requests -> Requests \cup {None}] /\ basis'[r] = from
        /\ call' \in [Requests -> Requests \cup {None}]
        /\ \A s \in Requests \ {r} : /\ pc'[s] = pc[s] /\ answer'[s] = answer[s]
                                     /\ basis'[s] = basis[s] /\ call'[s] = call[s]
    BY <1>2, ReturnEffect
  <2>2. RequestFrame(r)
    BY <1>1, <2>1, Typed DEF RequestFrame, Cached, CacheBounded
  <2>3. how # "unavailable" => Backed(r)'
    BY <1>1, <1>2, <2>1 DEF Backed, Good, Verdict
  <2> QED
    BY <2>1, <2>2, <2>3, RequestSuffices DEF RequestOK
<1>3. Verdict(calls[l].member) \in Answers /\ "unavailable" \in Answers
  BY DEF Verdict, Answers
<1>4. CASE calls[l].err /\ Return(r, "unavailable", None)
  BY <1>2, <1>3, <1>4
<1>5. CASE ~calls[l].err /\ Return(r, Verdict(calls[l].member), l)
  BY <1>1, <1>2, <1>3, <1>5
<1> QED
  BY <1>4, <1>5 DEF Wake

LEMMA GiveUpOK ==
  ASSUME IInv, NEW r \in Requests, GiveUp(r)
  PROVE  IInv'
<1>1. /\ pc' \in [Requests -> {"idle", "wait", "done"}] /\ pc'[r] = "done"
      /\ answer' \in [Requests -> Answers] /\ answer'[r] = "unavailable"
      /\ basis' \in [Requests -> Requests \cup {None}]
      /\ call' \in [Requests -> Requests \cup {None}]
      /\ \A s \in Requests \ {r} : /\ pc'[s] = pc[s] /\ answer'[s] = answer[s]
                                   /\ basis'[s] = basis[s] /\ call'[s] = call[s]
  BY ReturnEffect DEF GiveUp, Answers
<1>2. RequestFrame(r)
  BY <1>1, Typed DEF GiveUp, RequestFrame, Cached, CacheBounded
<1> QED
  BY <1>1, <1>2, RequestSuffices DEF RequestOK
-----------------------------------------------------------------------------
LEMMA StartLookupOK ==
  ASSUME IInv, NEW r \in Requests, NEW key \in Keys, pc[r] = "idle", now' = now,
         asks' = [asks EXCEPT ![r] = key], StartLookup(r, key)
  PROVE  IInv'
<1>1. /\ pc' \in [Requests -> {"idle", "wait", "done"}] /\ pc'[r] = "wait"
      /\ call' \in [Requests -> Requests \cup {None}] /\ call'[r] = r
      /\ answer' = answer /\ basis' = basis
      /\ \A s \in Requests \ {r} : pc'[s] = pc[s] /\ call'[s] = call[s]
  BY WaitEffect DEF StartLookup
<1>2. /\ asks' \in [Requests -> Keys \cup {None}] /\ asks'[r] = key
      /\ \A s \in Requests \ {r} : asks'[s] = asks[s]
      /\ calls[r].phase = "unused" /\ answer[r] = "none"
  BY AsksEffect
<1> DEFINE new == [calls[r] EXCEPT !.phase = "asking", !.key = key, !.started = now]
<1>3. /\ calls' = [calls EXCEPT ![r] = new] /\ inflight' = [inflight EXCEPT ![key] = r]
      /\ inflight[key] = None /\ Cardinality(Looked) < MaxInflight
  BY Typed DEF StartLookup, CallType
<1>4. /\ new \in CallType /\ new.phase = "asking" /\ new.key = key /\ new.started = now
  BY Typed DEF CallType, Phases
<1> HIDE DEF new
<1>5. /\ calls' \in [Requests -> CallType] /\ calls'[r] = new
      /\ \A s \in Requests \ {r} : calls'[s] = calls[s]
      /\ inflight' \in [Keys -> Requests \cup {None}] /\ inflight'[key] = r
      /\ \A k \in Keys \ {key} : inflight'[k] = inflight[k]
  BY <1>3, <1>4, Typed
<1>6. /\ cache' \in [Keys -> Entries] /\ Cached' \subseteq Cached /\ CacheBounded'
      /\ \A k \in Cached' : cache'[k] = cache[k]
  BY DropEffect DEF StartLookup
<1>7. TypeOK'
  BY <1>1, <1>2, <1>5, <1>6, Typed DEF TypeOK, CallType
<1>8. \A s \in Requests : calls[s].phase # "unused" => s # r /\ asks'[s] = asks[s] /\ calls'[s] = calls[s]
  BY <1>2, <1>5
<1>9. InFlightOK'
  <2>1. Looked' = Looked \cup {key} /\ key \notin Looked
    BY <1>3, <1>5, MembershipAssumption DEF Looked
  <2>2. Cardinality(Looked') <= MaxInflight
    <3>1. IsFiniteSet(Looked) /\ Cardinality(Looked) \in Nat
      BY KeysFinite, FS_Subset, FS_CardinalityType DEF Looked
    <3> QED
      <4>1. Cardinality(Looked \cup {key}) = Cardinality(Looked) + 1
        BY <2>1, <3>1, FS_AddElement
      <4> QED
        BY <1>3, <2>1, <3>1, <4>1, MembershipAssumption
  <2>3. \A k \in Looked' : calls'[inflight'[k]].phase \in Running /\ asks'[inflight'[k]] = k
    <3> TAKE k \in Looked'
    <3>1. CASE k = key
      BY <1>2, <1>4, <1>5, <3>1 DEF Running
    <3>2. CASE k # key
      <4>1. k \in Looked /\ inflight'[k] = inflight[k] /\ inflight[k] \in Requests
        BY <1>5, <2>1, <3>2, Typed DEF Looked
      <4> QED
        BY <1>8, <4>1 DEF IInv, InFlightOK, Running
    <3> QED
      BY <3>1, <3>2
  <2>4. ASSUME NEW s \in Requests
        PROVE  /\ calls'[s].phase # "unused" => asks'[s] \in Keys /\ calls'[s].key = asks'[s]
               /\ calls'[s].phase \in Running => inflight'[asks'[s]] = s
    <3>1. CASE s = r
      BY <1>2, <1>4, <1>5, <3>1
    <3>2. CASE s # r
      <4>1. calls'[s] = calls[s] /\ asks'[s] = asks[s]
        BY <1>2, <1>5, <3>2
      <4>2. calls[s].phase \in Running => inflight[asks[s]] = s /\ asks[s] # key
        BY <1>3, MembershipAssumption DEF IInv, InFlightOK
      <4> QED
        BY <1>5, <4>1, <4>2 DEF IInv, InFlightOK, Running
    <3> QED
      BY <3>1, <3>2
  <2> QED
    BY <2>2, <2>3, <2>4 DEF InFlightOK
<1>10. WaitOK'
  <2> SUFFICES ASSUME NEW s \in Requests
               PROVE  /\ pc'[s] = "idle" => calls'[s].phase = "unused" /\ answer'[s] = "none"
                      /\ pc'[s] = "wait" => /\ call'[s] \in Requests
                                            /\ calls'[call'[s]].phase # "unused"
                                            /\ asks'[call'[s]] = asks'[s]
    BY DEF WaitOK
  <2>1. CASE s = r
    BY <1>1, <1>4, <1>5, <2>1
  <2>2. CASE s # r
    BY <1>1, <1>2, <1>5, <1>8, <2>2 DEF IInv, WaitOK
  <2> QED
    BY <2>1, <2>2
<1>11. \A s \in Requests : Good(s) => /\ Good(s)' /\ asks'[s] = asks[s]
                                      /\ calls'[s] = calls[s]
  BY <1>8 DEF Good
<1>12. EntriesOK'
  <2>1. ASSUME NEW k \in Cached'
        PROVE  k \in Cached /\ cache'[k] = cache[k] /\ cache[k].by \in Requests
    BY <1>6, <2>1, Typed DEF Cached, Entries
  <2> QED
    BY <1>11, <2>1 DEF IInv, EntriesOK, Lifetime, Good
<1>13. TimeOK'
  <2> SUFFICES ASSUME NEW s \in Requests
               PROVE  /\ calls'[s].phase \in Running => now <= calls'[s].started + LookupTimeout
                      /\ calls'[s].phase = "asking" => calls'[s].started <= now
                      /\ calls'[s].phase = "told" => calls'[s].started <= calls'[s].seen
                      /\ \/ calls'[s].phase = "stored"
                         \/ /\ calls'[s].phase = "closed"
                            /\ \E w \in Requests : pc'[w] = "wait" /\ call'[w] = s
                         => calls'[s].err \/ now <= calls'[s].seen + LookupTimeout
    BY DEF TimeOK
  <2>1. CASE s = r
    BY <1>4, <1>5, <2>1, Typed, MembershipAssumption DEF Running
  <2>2. CASE s # r
    BY <1>1, <1>5, <2>2 DEF IInv, TimeOK
  <2> QED
    BY <2>1, <2>2
<1>14. AnswersBacked'
  <2> SUFFICES ASSUME NEW s \in Requests, answer'[s] \in {"member", "not_member"}
               PROVE  Backed(s)'
    BY DEF AnswersBacked
  <2>1. s # r /\ Backed(s)
    BY <1>1, <1>2 DEF IInv, AnswersBacked
  <2> QED
    BY <1>1, <1>2, <1>11, <2>1 DEF Backed, Verdict
<1> QED
  BY <1>6, <1>7, <1>9, <1>10, <1>12, <1>13, <1>14 DEF IInv

LEMMA CheckOK ==
  ASSUME IInv, NEW r \in Requests, NEW bot \in Bots, NEW id \in ChatIDs, Check(r, bot, id)
  PROVE  IInv'
<1>1. Key(bot, id) \in Keys /\ Key(bot, id) = <<bot, Fold[id]>>
  BY KeyTyped
<1> DEFINE key == Key(bot, id)
<1>2. pc[r] = "idle" /\ now' = now /\ asks' = [asks EXCEPT ![r] = key]
  BY <1>1 DEF Check
<1>3. HitCache(r, key) \/ JoinLookup(r, key) \/ Refuse(r, key) \/ StartLookup(r, key)
  BY DEF Check
<1> HIDE DEF key
<1> QED
  BY <1>1, <1>2, <1>3, HitCacheOK, JoinLookupOK, RefuseOK, StartLookupOK DEF key
-----------------------------------------------------------------------------
(* A step of the lookup that request r started moves no request, takes no  *)
(* answer back, and adds an entry only for what r has seen.                *)
LookupFrame(r) ==
  /\ UNCHANGED <<now, callerVars>>
  /\ calls[r].phase # "unused" /\ calls'[r].phase # "unused"
  /\ calls' \in [Requests -> CallType]
  /\ \A s \in Requests \ {r} : calls'[s] = calls[s]
  /\ Good(r) => /\ Good(r)' /\ calls'[r].seen = calls[r].seen
                /\ calls'[r].member = calls[r].member

NewEntry(r, k) ==
  /\ cache'[k].by = r /\ Good(r)' /\ asks[r] = k /\ cache'[k].member = calls'[r].member
  /\ cache'[k].expires <= calls'[r].seen + LookupTimeout + Lifetime(calls'[r].member)

LookupTime(r) ==
  /\ calls[r].phase \in Running => now <= calls[r].started + LookupTimeout
  /\ calls[r].phase = "asking" => calls[r].started <= now
  /\ calls[r].phase = "told" => calls[r].started <= calls[r].seen
  /\ calls[r].phase = "stored" => calls[r].err \/ now <= calls[r].seen + LookupTimeout
  /\ calls[r].phase = "closed" /\ (\E w \in Requests : pc[w] = "wait" /\ call[w] = r)
     => calls[r].err \/ now <= calls[r].seen + LookupTimeout

LEMMA TimeOf ==
  ASSUME IInv, NEW r \in Requests
  PROVE  LookupTime(r)
  BY DEF IInv, TimeOK, LookupTime

LEMMA LookupSuffices ==
  ASSUME IInv, NEW r \in Requests, LookupFrame(r), LookupTime(r)', InFlightOK',
         inflight' \in [Keys -> Requests \cup {None}],
         cache' \in [Keys -> Entries], CacheBounded',
         \A k \in Cached' : (k \in Cached /\ cache'[k] = cache[k]) \/ NewEntry(r, k)
  PROVE  IInv'
<1>1. /\ now' = now /\ pc' = pc /\ asks' = asks /\ call' = call /\ answer' = answer
      /\ basis' = basis
  BY DEF LookupFrame, callerVars
<1>2. TypeOK'
  BY <1>1 DEF IInv, TypeOK, LookupFrame, CallType
<1>3. \A s \in Requests : /\ calls'[s].phase = "unused" <=> calls[s].phase = "unused"
                          /\ Good(s) => /\ Good(s)' /\ calls'[s].seen = calls[s].seen
                                        /\ calls'[s].member = calls[s].member
  BY DEF LookupFrame, Good
<1>4. WaitOK'
  BY <1>1, <1>3 DEF IInv, WaitOK
<1>5. EntriesOK'
  <2>1. ASSUME NEW k \in Cached', k \in Cached, cache'[k] = cache[k]
        PROVE  /\ Good(cache[k].by)' /\ asks[cache[k].by] = k
               /\ cache'[k].member = calls'[cache[k].by].member
               /\ cache'[k].expires <= calls'[cache[k].by].seen + LookupTimeout
                                        + Lifetime(calls'[cache[k].by].member)
    <3>1. cache[k].by \in Requests
      BY <2>1, Typed DEF Cached, Entries
    <3>2. /\ Good(cache[k].by) /\ asks[cache[k].by] = k
          /\ cache[k].member = calls[cache[k].by].member
          /\ cache[k].expires <= calls[cache[k].by].seen + LookupTimeout
                                   + Lifetime(calls[cache[k].by].member)
      BY <2>1 DEF IInv, EntriesOK
    <3> QED
      BY <1>3, <2>1, <3>1, <3>2 DEF Good
  <2> QED
    BY <1>1, <2>1 DEF EntriesOK, NewEntry, Lifetime, Good
<1>6. TimeOK'
  <2> SUFFICES ASSUME NEW s \in Requests PROVE LookupTime(s)'
    BY DEF TimeOK, LookupTime
  <2>1. CASE s # r
    BY <1>1, <2>1, TimeOf DEF LookupTime, LookupFrame
  <2> QED
    BY <2>1
<1>7. AnswersBacked'
  <2> SUFFICES ASSUME NEW s \in Requests, answer[s] \in {"member", "not_member"}
               PROVE  Backed(s)'
    BY <1>1 DEF AnswersBacked
  <2> QED
    BY <1>1, <1>3 DEF IInv, AnswersBacked, Backed, Verdict
<1> QED
  BY <1>2, <1>4, <1>5, <1>6, <1>7 DEF IInv

(* The lookup of r stays in flight.                                        *)
LEMMA StillInFlight ==
  ASSUME IInv, NEW r \in Requests, UNCHANGED <<inflight, asks>>,
         calls' \in [Requests -> CallType], calls[r].phase # "unused",
         \A s \in Requests \ {r} : calls'[s] = calls[s],
         calls'[r].phase # "unused", calls'[r].key = calls[r].key,
         calls'[r].phase \in Running <=> calls[r].phase \in Running
  PROVE  InFlightOK'
<1>1. Looked' = Looked /\ \A k \in Looked : inflight[k] \in Requests
  BY Typed DEF Looked
<1> QED
  BY <1>1 DEF IInv, InFlightOK

LEMMA TellOK ==
  ASSUME IInv, NEW r \in Requests, Tell(r)
  PROVE  IInv'
<1>0. PICK isMember \in BOOLEAN :
      calls' = [calls EXCEPT ![r].phase = "told", ![r].seen = now, ![r].member = isMember]
  BY DEF Tell
<1> DEFINE new == [calls[r] EXCEPT !.phase = "told", !.seen = now, !.member = isMember]
<1>1. /\ new \in CallType /\ new.phase = "told" /\ new.seen = now
      /\ new.key = calls[r].key /\ new.started = calls[r].started /\ new.err = calls[r].err
  BY Typed DEF CallType, Phases
<1>2. calls' = [calls EXCEPT ![r] = new]
  BY <1>0, Typed DEF CallType
<1>3. calls[r].phase = "asking" /\ UNCHANGED <<now, cache, inflight, callerVars>>
  BY DEF Tell
<1> HIDE DEF new
<1>4. /\ calls' \in [Requests -> CallType] /\ calls'[r] = new
      /\ \A s \in Requests \ {r} : calls'[s] = calls[s]
  BY <1>1, <1>2, Typed
<1>5. LookupFrame(r)
  BY <1>1, <1>3, <1>4 DEF LookupFrame, Good
<1>6. LookupTime(r)'
  BY <1>1, <1>3, <1>4, TimeOf DEF LookupTime, Running
<1>7. InFlightOK'
  BY <1>1, <1>3, <1>4, StillInFlight DEF Running, callerVars
<1> QED
  BY <1>3, <1>5, <1>6, <1>7, LookupSuffices, Typed DEF Cached, CacheBounded

LEMMA CloseDoneOK ==
  ASSUME IInv, NEW r \in Requests, CloseDone(r)
  PROVE  IInv'
<1> DEFINE new == [calls[r] EXCEPT !.phase = "closed"]
<1>1. /\ new \in CallType /\ new.phase = "closed" /\ new.seen = calls[r].seen
      /\ new.key = calls[r].key /\ new.err = calls[r].err /\ new.member = calls[r].member
  BY Typed DEF CallType, Phases
<1>2. calls' = [calls EXCEPT ![r] = new]
  BY DEF CloseDone
<1>3. calls[r].phase = "stored" /\ UNCHANGED <<now, cache, inflight, callerVars>>
  BY DEF CloseDone
<1> HIDE DEF new
<1>4. /\ calls' \in [Requests -> CallType] /\ calls'[r] = new
      /\ \A s \in Requests \ {r} : calls'[s] = calls[s]
  BY <1>1, <1>2, Typed
<1>5. LookupFrame(r)
  BY <1>1, <1>3, <1>4 DEF LookupFrame, Good
<1>6. LookupTime(r)'
  BY <1>1, <1>3, <1>4, TimeOf DEF LookupTime, Running
<1>7. InFlightOK'
  BY <1>1, <1>3, <1>4, StillInFlight DEF Running, callerVars
<1> QED
  BY <1>3, <1>5, <1>6, <1>7, LookupSuffices, Typed DEF Cached, CacheBounded

(* The lookup of r leaves the flight.                                      *)
LEMMA FinishEffect ==
  ASSUME IInv, NEW r \in Requests, NEW failed \in BOOLEAN, calls[r].phase \in Running,
         failed \/ calls[r].phase = "told", Finish(r, failed)
  PROVE  /\ LookupFrame(r) /\ LookupTime(r)' /\ InFlightOK'
         /\ inflight' \in [Keys -> Requests \cup {None}]
         /\ calls'[r].phase = "stored" /\ calls'[r].err = failed
         /\ calls'[r].member = calls[r].member /\ calls'[r].seen = calls[r].seen
         /\ calls[r].key \in Keys /\ asks[r] = calls[r].key
<1> DEFINE new == [calls[r] EXCEPT !.phase = "stored", !.err = failed]
           key == calls[r].key
<1>1. /\ key \in Keys /\ asks[r] = key /\ inflight[key] = r
  BY DEF IInv, InFlightOK, Running
<1>2. /\ new \in CallType /\ new.phase = "stored" /\ new.err = failed /\ new.seen = calls[r].seen
      /\ new.key = key /\ new.member = calls[r].member
  BY Typed DEF CallType, Phases
<1>3. /\ calls' = [calls EXCEPT ![r] = new] /\ inflight' = [inflight EXCEPT ![key] = None]
      /\ UNCHANGED <<now, callerVars>>
  BY Typed DEF Finish, CallType
<1> HIDE DEF new, key
<1>4. /\ calls' \in [Requests -> CallType] /\ calls'[r] = new
      /\ \A s \in Requests \ {r} : calls'[s] = calls[s]
      /\ inflight' \in [Keys -> Requests \cup {None}] /\ inflight'[key] = None
      /\ \A k \in Keys \ {key} : inflight'[k] = inflight[k]
  BY <1>1, <1>2, <1>3, Typed
<1>5. LookupFrame(r)
  BY <1>2, <1>3, <1>4 DEF LookupFrame, Good, Running
<1>6. InFlightOK'
  <2>1. Looked' = Looked \ {key}
    BY <1>1, <1>4 DEF Looked
  <2>2. Cardinality(Looked') <= MaxInflight
    BY <2>1, SmallerSet, MembershipAssumption DEF IInv, InFlightOK, Looked
  <2>3. asks' = asks
    BY <1>3 DEF callerVars
  <2>4. ASSUME NEW k \in Looked'
        PROVE  calls'[inflight'[k]].phase \in Running /\ asks[inflight'[k]] = k
    <3>1. k \in Looked /\ k # key /\ inflight'[k] = inflight[k] /\ inflight[k] \in Requests
      BY <1>4, <2>1, Typed DEF Looked
    <3>2. calls[inflight[k]].phase \in Running /\ asks[inflight[k]] = k
      BY <3>1 DEF IInv, InFlightOK
    <3>3. inflight[k] # r
      BY <1>1, <3>1, <3>2
    <3> QED
      BY <1>4, <3>1, <3>2, <3>3
  <2>5. ASSUME NEW s \in Requests
        PROVE  /\ calls'[s].phase # "unused" => asks[s] \in Keys /\ calls'[s].key = asks[s]
               /\ calls'[s].phase \in Running => inflight'[asks[s]] = s
    <3>1. CASE s = r
      BY <1>1, <1>2, <1>4, <3>1 DEF Running
    <3>2. CASE s # r
      <4>1. calls'[s] = calls[s]
        BY <1>4, <3>2
      <4>2. calls[s].phase \in Running => asks[s] \in Keys /\ inflight[asks[s]] = s
        BY DEF IInv, InFlightOK, Running
      <4>3. calls[s].phase \in Running => asks[s] # key
        BY <1>1, <3>2, <4>2
      <4> QED
        BY <1>4, <4>1, <4>2, <4>3 DEF IInv, InFlightOK
    <3> QED
      BY <3>1, <3>2
  <2> QED
    BY <2>2, <2>3, <2>4, <2>5 DEF InFlightOK, Running
<1>7. LookupTime(r)'
  <2>1. calls[r].phase = "told" => now <= calls[r].seen + LookupTimeout
    <3>1. /\ calls[r].phase = "told" => calls[r].started <= calls[r].seen
          /\ now <= calls[r].started + LookupTimeout
      BY TimeOf DEF LookupTime, Running
    <3>2. /\ calls[r].started \in Nat /\ calls[r].seen \in Nat /\ now \in Nat
          /\ LookupTimeout \in Nat
      BY Typed, MembershipAssumption DEF CallType
    <3> QED
      BY <3>1, <3>2
  <2> QED
    BY <1>2, <1>3, <1>4, <2>1 DEF LookupTime, Running
<1> QED
  BY <1>1, <1>2, <1>4, <1>5, <1>6, <1>7 DEF key

LEMMA FailedOK ==
  ASSUME IInv, NEW r \in Requests, Failed(r)
  PROVE  IInv'
<1>1. calls[r].phase \in Running /\ Finish(r, TRUE) /\ UNCHANGED cache
  BY DEF Failed
<1>2. /\ LookupFrame(r) /\ LookupTime(r)' /\ InFlightOK'
      /\ inflight' \in [Keys -> Requests \cup {None}]
  BY <1>1, FinishEffect
<1> QED
  BY <1>1, <1>2, LookupSuffices, Typed DEF Cached, CacheBounded

(* A full cache is not full after the sweep.                               *)
LEMMA SweptEffect ==
  ASSUME IInv
  PROVE  LET S == {k \in Keys : Swept[k].by # None}
         IN /\ Swept \in [Keys -> Entries]
            /\ \A k \in S : k \in Cached /\ Swept[k] = cache[k]
            /\ IsFiniteSet(S) /\ Cardinality(S) < MaxEntries
<1> DEFINE live == {k \in Keys : Fresh(k)}
           kept == IF Cardinality(live) >= MaxEntries THEN {} ELSE live
           S == {k \in Keys : Swept[k].by # None}
<1>1. cache \in [Keys -> Entries] /\ NoEntry \in Entries /\ NoEntry.by = None
  BY Typed DEF NoEntry, Entries
<1>2. IsFiniteSet(S) /\ IsFiniteSet(live) /\ IsFiniteSet(Cached)
  BY KeysFinite, FS_Subset DEF Cached
<1>3. Cardinality(live) \in Nat /\ Cardinality(Cached) \in Nat /\ MaxEntries \in Nat \ {0}
  BY <1>2, FS_CardinalityType, MembershipAssumption
<1>4. CASE Cardinality(Cached) >= MaxEntries
  <2>1. Swept = [k \in Keys |-> IF k \in kept THEN cache[k] ELSE NoEntry]
    BY <1>4 DEF Swept, Sweep
  <2>2. kept \subseteq live /\ Cardinality(kept) < MaxEntries
    BY <1>3, FS_EmptySet
  <2> HIDE DEF kept
  <2>3. \A k \in Keys : (k \in kept /\ Swept[k] = cache[k]) \/ (k \notin kept /\ Swept[k] = NoEntry)
    BY <2>1
  <2>4. S = kept
    BY <1>1, <2>2, <2>3 DEF Fresh
  <2>5. Swept \in [Keys -> Entries]
    BY <1>1, <2>1
  <2>6. \A k \in S : k \in Cached /\ Swept[k] = cache[k]
    BY <2>2, <2>3, <2>4 DEF Fresh, Cached
  <2> QED
    BY <1>2, <2>2, <2>4, <2>5, <2>6
<1>5. CASE Cardinality(Cached) < MaxEntries
  <2>1. Swept = cache
    BY <1>3, <1>5 DEF Swept
  <2>2. S = Cached
    BY <2>1 DEF Cached
  <2> QED
    BY <1>1, <1>2, <1>5, <2>1, <2>2
<1> QED
  BY <1>3, <1>4, <1>5

LEMMA AnsweredOK ==
  ASSUME IInv, NEW r \in Requests, Answered(r)
  PROVE  IInv'
<1> DEFINE key == calls[r].key
           entry == [member |-> calls[r].member, by |-> r,
                     expires |-> now + Lifetime(calls[r].member)]
           S == {k \in Keys : Swept[k].by # None}
<1>1. calls[r].phase = "told" /\ Finish(r, FALSE) /\ cache' = [Swept EXCEPT ![key] = entry]
  BY DEF Answered
<1>2. /\ LookupFrame(r) /\ LookupTime(r)' /\ InFlightOK'
      /\ inflight' \in [Keys -> Requests \cup {None}]
      /\ calls'[r].phase = "stored" /\ calls'[r].err = FALSE
      /\ calls'[r].member = calls[r].member /\ calls'[r].seen = calls[r].seen
      /\ key \in Keys /\ asks[r] = key
  BY <1>1, FinishEffect DEF Running
<1>3. /\ Swept \in [Keys -> Entries] /\ IsFiniteSet(S) /\ Cardinality(S) < MaxEntries
      /\ \A k \in S : k \in Cached /\ Swept[k] = cache[k]
  BY SweptEffect
<1>4. /\ now \in Nat /\ calls[r].member \in BOOLEAN /\ calls[r].seen \in Nat
      /\ calls[r].started \in Nat /\ LookupTimeout \in Nat
      /\ Lifetime(calls[r].member) \in Nat
  BY Typed, MembershipAssumption DEF CallType, Lifetime
<1>5. entry \in Entries
  BY <1>4 DEF Entries
<1>6. entry.by = r /\ entry.member = calls[r].member
      /\ entry.expires = now + Lifetime(calls[r].member)
  OBVIOUS
<1> HIDE DEF entry, key
<1>7. /\ cache' \in [Keys -> Entries] /\ cache'[key] = entry
      /\ \A k \in Keys \ {key} : cache'[k] = Swept[k]
  BY <1>1, <1>2, <1>3, <1>5
<1>8. Cached' \subseteq S \cup {key}
  BY <1>7 DEF Cached
<1>9. CacheBounded'
  <2>1. /\ IsFiniteSet(S \cup {key}) /\ Cardinality(S) \in Nat
        /\ Cardinality(S \cup {key}) <= Cardinality(S) + 1
        /\ Cardinality(S \cup {key}) \in Nat
    <3>1. IsFiniteSet(S \cup {key}) /\ Cardinality(S) \in Nat
      BY <1>3, FS_AddElement, FS_CardinalityType
    <3>2. CASE key \in S
      <4> HIDE DEF S
      <4>1. S \cup {key} = S
        BY <3>2
      <4>2. Cardinality(S \cup {key}) = Cardinality(S)
        BY <4>1, Zenon
      <4> QED
        BY <3>1, <4>2
    <3>3. CASE key \notin S
      <4> HIDE DEF S
      <4>1. Cardinality(S \cup {key}) = Cardinality(S) + 1
        BY <1>3, <3>3, FS_AddElement
      <4> QED
        BY <3>1, <4>1
    <3> QED
      BY <3>2, <3>3
  <2>2. Cardinality(S \cup {key}) <= MaxEntries
    BY <1>3, <2>1, MembershipAssumption
  <2>3. S \cup {key} \subseteq Keys
    BY <1>2
  <2> QED
    BY <1>8, <2>2, <2>3, SmallerSet, MembershipAssumption DEF CacheBounded
<1>10. NewEntry(r, key)
  <2>1. now <= calls[r].started + LookupTimeout /\ calls[r].started <= calls[r].seen
    BY <1>1, TimeOf DEF LookupTime, Running
  <2>2. now + Lifetime(calls[r].member)
          <= calls[r].seen + LookupTimeout + Lifetime(calls[r].member)
    BY <1>4, <2>1
  <2>3. Good(r)'
    BY <1>2 DEF Good
  <2> QED
    BY <1>2, <1>6, <1>7, <2>2, <2>3 DEF NewEntry
<1>11. \A k \in Cached' : (k \in Cached /\ cache'[k] = cache[k]) \/ NewEntry(r, k)
  BY <1>3, <1>7, <1>10 DEF Cached
<1> QED
  BY <1>2, <1>7, <1>9, <1>11, LookupSuffices

(* Time passes only when no lookup is overdue and no request ready.        *)
LEMMA TickOK ==
  ASSUME IInv, Tick
  PROVE  IInv'
<1>1. /\ now' = now + 1 /\ UNCHANGED <<cache, inflight, calls, callerVars>>
      /\ \A r \in Requests :
           /\ calls[r].phase \in Running => now < calls[r].started + LookupTimeout
           /\ calls[r].phase # "stored"
           /\ pc[r] = "wait" => calls[call[r]].phase # "closed"
  BY DEF Tick
<1>2. now \in Nat /\ LookupTimeout \in Nat
      /\ \A r \in Requests : calls[r].started \in Nat
  BY Typed, MembershipAssumption DEF CallType
<1>3. TypeOK'
  BY <1>1, <1>2 DEF IInv, TypeOK, callerVars
<1>4. InFlightOK' /\ WaitOK' /\ AnswersBacked' /\ CacheBounded'
  BY <1>1 DEF IInv, InFlightOK, Looked, WaitOK, AnswersBacked, Backed, Good, Verdict,
              CacheBounded, Cached, callerVars
<1>5. EntriesOK'
  BY <1>1 DEF IInv, EntriesOK, Cached, Good, Lifetime, callerVars
<1>6. TimeOK'
  <2> SUFFICES ASSUME NEW r \in Requests PROVE LookupTime(r)'
    BY DEF TimeOK, LookupTime
  <2>1. LookupTime(r)
    BY TimeOf
  <2>2. calls[r].phase \in Running => now + 1 <= calls[r].started + LookupTimeout
    BY <1>1, <1>2
  <2>3. calls[r].phase = "asking" => calls[r].started <= now + 1
    BY <1>2, <2>1 DEF LookupTime
  <2> QED
    BY <1>1, <2>1, <2>2, <2>3 DEF LookupTime, callerVars
<1> QED
  BY <1>3, <1>4, <1>5, <1>6 DEF IInv

LEMMA StutterOK ==
  ASSUME IInv, UNCHANGED vars
  PROVE  IInv'
  BY DEF IInv, TypeOK, InFlightOK, Looked, WaitOK, AnswersBacked, Backed, Good, Verdict,
         CacheBounded, Cached, EntriesOK, Lifetime, TimeOK, vars, callerVars
-----------------------------------------------------------------------------
(* IInv is an invariant of the checker.                                    *)
THEOREM Invariance == Spec => []IInv
<1>1. IInv /\ [Next]_vars => IInv'
  <2> SUFFICES ASSUME IInv, [Next]_vars PROVE IInv'
    OBVIOUS
  <2>1. ASSUME NEW r \in Requests, NEW bot \in Bots, NEW id \in ChatIDs, Check(r, bot, id)
        PROVE  IInv'
    BY <2>1, CheckOK
  <2>2. ASSUME NEW r \in Requests, Wake(r) \/ GiveUp(r) \/ LookupStep(r)
        PROVE  IInv'
    BY <2>2, WakeOK, GiveUpOK, TellOK, AnsweredOK, FailedOK, CloseDoneOK DEF LookupStep
  <2>3. CASE Tick
    BY <2>3, TickOK
  <2>4. CASE UNCHANGED vars
    BY <2>4, StutterOK
  <2> QED
    BY <2>1, <2>2, <2>3, <2>4 DEF Next
<1> QED
  BY <1>1, InitOK, PTL DEF Spec

(* Concurrent requests about one bot and chat share one lookup.            *)
THEOREM Collapsed == Spec => []OneLookup
<1>1. IInv => OneLookup
  BY DEF IInv, InFlightOK, OneLookup
<1> QED
  BY <1>1, Invariance, PTL

(* No key is stuck to a lookup that has ended.                             *)
THEOREM NeverStuck == Spec => []NoDeadLookup
<1>1. IInv => NoDeadLookup
  BY DEF IInv, InFlightOK, NoDeadLookup
<1> QED
  BY <1>1, Invariance, PTL

(* Only an answer of BotX about the request's own bot and chat decides it. *)
THEOREM FailClosed == Spec => []AnswersBacked
<1>1. IInv => AnswersBacked
  BY DEF IInv
<1> QED
  BY <1>1, Invariance, PTL

(* The cache and the concurrent lookups stay within their limits.          *)
THEOREM Limits == Spec => []LimitsKept
<1>1. IInv => LookupsBounded
  <2> SUFFICES ASSUME IInv PROVE LookupsBounded
    OBVIOUS
  <2> DEFINE R == {r \in Requests : calls[r].phase \in Running}
             f == [r \in R |-> asks[r]]
  <2>1. f \in Injection(R, Looked)
    <3>1. \A r \in R : asks[r] \in Looked /\ inflight[asks[r]] = r
      BY MembershipAssumption DEF IInv, InFlightOK, Looked, Running
    <3>2. f \in [R -> Looked] /\ \A r, s \in R : f[r] = f[s] => r = s
      BY <3>1
    <3> HIDE DEF f, R
    <3> QED
      BY <3>2 DEF Injection, IsInjective
  <2>2. IsFiniteSet(R) /\ IsFiniteSet(Looked)
    BY KeysFinite, FS_Subset, MembershipAssumption DEF Looked
  <2>3. Cardinality(R) <= Cardinality(Looked)
    <3> HIDE DEF f, R
    <3> QED
      BY <2>1, <2>2, FS_Injection
  <2>4. Cardinality(R) \in Nat /\ Cardinality(Looked) \in Nat /\ Cardinality(Looked) <= MaxInflight
    BY <2>2, FS_CardinalityType DEF IInv, InFlightOK
  <2>5. Cardinality(R) <= MaxInflight
    <3> HIDE DEF R
    <3> QED
      BY <2>3, <2>4, MembershipAssumption
  <2> QED
    BY <2>5 DEF LookupsBounded
<1>2. IInv => LimitsKept
  BY <1>1 DEF IInv, LimitsKept
<1> QED
  BY <1>2, Invariance, PTL
-----------------------------------------------------------------------------
(* How old the answer of lookup b is when a request is told it.            *)
InTime(r, b) == now <= calls[b].seen + LookupTimeout + Lifetime(calls[b].member)

LEMMA LifeOf ==
  ASSUME NEW isMember \in BOOLEAN
  PROVE  Lifetime(isMember) = IF Verdict(isMember) = "member" THEN TTL ELSE NegativeTTL
  BY DEF Lifetime, Verdict

LEMMA HitInTime ==
  ASSUME IInv, NEW r \in Requests, NEW key \in Keys, HitCache(r, key)
  PROVE  LET b == cache[key].by
         IN b \in Requests /\ cache[key].member = calls[b].member /\ InTime(r, b)
<1>1. /\ cache[key].by \in Requests /\ key \in Cached /\ now < cache[key].expires
      /\ now \in Nat /\ cache[key].expires \in Nat
  BY Typed DEF HitCache, Fresh, Cached, Entries
<1> DEFINE b == cache[key].by
<1>2. /\ cache[key].member = calls[b].member
      /\ cache[key].expires <= calls[b].seen + LookupTimeout + Lifetime(calls[b].member)
  BY <1>1 DEF IInv, EntriesOK
<1>3. /\ calls[b].seen \in Nat /\ LookupTimeout \in Nat
      /\ Lifetime(calls[b].member) \in Nat
  BY <1>1, Typed, MembershipAssumption DEF CallType, Lifetime
<1> QED
  BY <1>1, <1>2, <1>3 DEF InTime

LEMMA WakeInTime ==
  ASSUME IInv, NEW r \in Requests, Wake(r), ~calls[call[r]].err
  PROVE  call[r] \in Requests /\ InTime(r, call[r])
<1>1. call[r] \in Requests /\ pc[r] = "wait" /\ calls[call[r]].phase = "closed"
  BY DEF IInv, WaitOK, Wake
<1> DEFINE b == call[r]
<1>2. now <= calls[b].seen + LookupTimeout
  BY <1>1, TimeOf DEF LookupTime
<1>3. /\ calls[b].seen \in Nat /\ LookupTimeout \in Nat /\ now \in Nat
      /\ Lifetime(calls[b].member) \in Nat
  BY <1>1, Typed, MembershipAssumption DEF CallType, Lifetime
<1> QED
  BY <1>1, <1>2, <1>3 DEF InTime

(* A request is told nothing older than one lookup and one cache lifetime. *)
THEOREM Recent == Spec => BoundedStaleness
<1>1. ASSUME IInv, [Next]_vars, NEW r \in Requests, answer[r] = "none",
             answer'[r] \in {"member", "not_member"}
      PROVE  LET seen == calls[basis'[r]].seen
                 life == IF answer'[r] = "member" THEN TTL ELSE NegativeTTL
             IN now <= seen + LookupTimeout + life
  <2>1. answer \in [Requests -> Answers] /\ basis \in [Requests -> Requests \cup {None}]
    BY <1>1, Typed
  <2>2. \/ \E s \in Requests, bot \in Bots, id \in ChatIDs : HitCache(s, Key(bot, id))
        \/ \E s \in Requests : Wake(s)
    <3>1. ASSUME NEW s \in Requests, Return(s, "unavailable", None)
          PROVE  FALSE
      BY <1>1, <2>1, <3>1 DEF Return
    <3>2. answer' # answer
      BY <1>1
    <3>3. ASSUME NEW s \in Requests, NEW bot \in Bots, NEW id \in ChatIDs, Check(s, bot, id)
          PROVE  HitCache(s, Key(bot, id))
      BY <3>1, <3>2, <3>3 DEF Check, JoinLookup, Refuse, StartLookup, Wait
    <3>4. ASSUME NEW s \in Requests, GiveUp(s) \/ LookupStep(s)
          PROVE  FALSE
      BY <3>1, <3>2, <3>4 DEF GiveUp, LookupStep, Tell, Answered, Failed, Finish, CloseDone,
                             callerVars
    <3>5. ~Tick /\ ~UNCHANGED vars
      BY <3>2 DEF Tick, vars, callerVars
    <3> QED
      BY <1>1, <3>3, <3>4, <3>5 DEF Next
  <2>3. ASSUME NEW s \in Requests, NEW b \in Requests, NEW isMember \in BOOLEAN,
               isMember = calls[b].member, InTime(s, b), Return(s, Verdict(isMember), b)
        PROVE  LET seen == calls[basis'[r]].seen
                   life == IF answer'[r] = "member" THEN TTL ELSE NegativeTTL
               IN now <= seen + LookupTimeout + life
    <3>1. s = r
      BY <1>1, <2>1, <2>3 DEF Return
    <3>2. answer'[r] = Verdict(isMember) /\ basis'[r] = b
      BY <2>1, <2>3, <3>1 DEF Return
    <3> QED
      BY <2>3, <3>2, LifeOf DEF InTime
  <2>4. ASSUME NEW s \in Requests, NEW key \in Keys, HitCache(s, key)
        PROVE  LET seen == calls[basis'[r]].seen
                   life == IF answer'[r] = "member" THEN TTL ELSE NegativeTTL
               IN now <= seen + LookupTimeout + life
    <3>1. cache[key].member \in BOOLEAN
      BY <1>1, Typed DEF Entries
    <3> QED
      BY <1>1, <2>3, <2>4, <3>1, HitInTime DEF HitCache
  <2>5. ASSUME NEW s \in Requests, Wake(s)
        PROVE  LET seen == calls[basis'[r]].seen
                   life == IF answer'[r] = "member" THEN TTL ELSE NegativeTTL
               IN now <= seen + LookupTimeout + life
    <3>1. CASE ~calls[call[s]].err
      <4>1. call[s] \in Requests /\ InTime(s, call[s])
        BY <1>1, <2>5, <3>1, WakeInTime
      <4>2. calls[call[s]].member \in BOOLEAN
        BY <1>1, <4>1, Typed DEF CallType
      <4>3. Return(s, Verdict(calls[call[s]].member), call[s])
        BY <2>5, <3>1 DEF Wake
      <4> QED
        BY <2>3, <4>1, <4>2, <4>3
    <3>2. CASE calls[call[s]].err
      BY <1>1, <2>1, <2>5, <3>2 DEF Wake, Return
    <3> QED
      BY <3>1, <3>2
  <2> QED
    BY <2>2, <2>4, <2>5, KeyTyped
<1>2. IInv /\ [Next]_vars
      => [\A r \in Requests :
            answer[r] = "none" /\ answer'[r] \in {"member", "not_member"}
            => LET seen == calls[basis'[r]].seen
                   life == IF answer'[r] = "member" THEN TTL ELSE NegativeTTL
               IN now <= seen + LookupTimeout + life]_vars
  BY <1>1
<1> QED
  BY <1>2, Invariance, PTL DEF Spec, BoundedStaleness
=============================================================================
