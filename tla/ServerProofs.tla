------------------------- MODULE ServerProofs -------------------------
(***************************************************************************)
(* The two parts of the HTTP server, for any constants: SendPipeline, the  *)
(* requests that send, and ServerRun, its life and its callbacks.  They    *)
(* share no state.                                                         *)
(*                                                                         *)
(* SendPipeline: IInv says how far a request has come: the targets before  *)
(* the one at hand were found to be the key's while it is checked, all of  *)
(* them from the first send on (Placed), and what reached a chat is        *)
(* accounted for by one known success of this attempt and by the sends     *)
(* whose outcome is unknown (Accounted).  That one is one only if no       *)
(* target is named twice: what parseChatIDs, a fold, returns for every     *)
(* list of names is proved first, by least counterexample, from the well-  *)
(* foundedness of the naturals.                                            *)
(*                                                                         *)
(* ServerRun: RunInv has three parts that are kept each on its own: the    *)
(* types, what is true of each callback (Requested), and what is true of   *)
(* Run and its goroutines (Living).                                        *)
(***************************************************************************)
EXTENDS SendPipeline, ServerRun, WellFoundedInduction, TLAPS

(* Induction, as a fact about sets of naturals.                            *)
Below == {p \in Nat \X Nat : p[1] < p[2]}

LEMMA BelowWellFounded == IsWellFoundedOn(Below, Nat)
  BY NatLessThanWellFounded DEF OpToRel, Below

LEMMA Least ==
  ASSUME NEW T \in SUBSET Nat, T # {}
  PROVE  \E m \in T : \A k \in T : m <= k
<1>1. PICK m \in T : \A k \in T : ~ (<<k, m>> \in Below)
  BY BelowWellFounded, WFMin
<1>2. \A k \in T : ~ (k < m)
  BY <1>1 DEF Below
<1> QED
  BY <1>2

LEMMA Upward ==
  ASSUME NEW n \in Nat, NEW S, 0 \in S, \A i \in 0 .. n - 1 : i \in S => i + 1 \in S
  PROVE  0 .. n \subseteq S
<1> SUFFICES ASSUME (0 .. n) \ S # {} PROVE FALSE
  OBVIOUS
<1>0. (0 .. n) \ S \in SUBSET Nat
  OBVIOUS
<1>1. PICK m \in (0 .. n) \ S : \A k \in (0 .. n) \ S : m <= k
  BY <1>0, Least
<1>2. m - 1 \in 0 .. n - 1 /\ m - 1 \in S
  BY <1>1
<1> QED
  BY <1>1, <1>2

LEMMA MaxOf ==
  ASSUME NEW n \in Nat, NEW s \in SUBSET (1 .. n), s # {}
  PROVE  Max(s) \in s /\ \A y \in s : y <= Max(s)
<1>1. {n - x : x \in s} \in SUBSET Nat /\ {n - x : x \in s} # {}
  <2>1. \A x \in s : n - x \in Nat
    OBVIOUS
  <2> QED
    BY <2>1
<1>2. PICK m \in {n - x : x \in s} : \A k \in {n - x : x \in s} : m <= k
  BY <1>1, Least
<1>3. PICK x \in s : m = n - x
  BY <1>2
<1>4. \A y \in s : x >= y
  <2> SUFFICES ASSUME NEW y \in s PROVE x >= y
    OBVIOUS
  <2>1. n - y \in {n - z : z \in s}
    OBVIOUS
  <2>2. n - x <= n - y
    BY <1>2, <1>3, <2>1
  <2>3. x \in Int /\ y \in Int
    OBVIOUS
  <2> QED
    BY <2>2, <2>3
<1>5. \E z \in s : \A y \in s : z >= y
  BY <1>4
<1>6. Max(s) \in s /\ \A y \in s : Max(s) >= y
  BY <1>5 DEF Max
<1> QED
  BY <1>6

(* parseChatIDs: the fold takes the names one by one.                      *)
Step(ids, n) == IF n \in ToSet(ids) THEN ids ELSE Append(ids, n)

Folds(names, k, g) ==
  g = [s \in SUBSET (1 .. k) |->
         IF s = {} THEN <<>> ELSE Step(g[s \ {Max(s)}], names[Max(s)])]

LEMMA FoldExists ==
  ASSUME NEW names, NEW n \in Nat
  PROVE  \E g : Folds(names, n, g)
<1> DEFINE S == {k \in 0 .. n : \E g : Folds(names, k, g)}
<1>1. 0 \in S
  <2> DEFINE g == [s \in SUBSET (1 .. 0) |-> <<>>]
  <2>1. \A s \in SUBSET (1 .. 0) : s = {}
    OBVIOUS
  <2>2. g = [s \in SUBSET (1 .. 0) |->
              IF s = {} THEN <<>> ELSE Step(g[s \ {Max(s)}], names[Max(s)])]
    BY <2>1, Zenon
  <2> QED
    BY <2>2 DEF Folds
<1>2. ASSUME NEW k \in 0 .. n - 1, k \in S PROVE k + 1 \in S
  <2>1. PICK g : Folds(names, k, g)
    BY <1>2
  <2> DEFINE h == [s \in SUBSET (1 .. k + 1) |->
                    IF s \in SUBSET (1 .. k) THEN g[s]
                    ELSE Step(g[s \ {Max(s)}], names[Max(s)])]
  <2>2. \A s \in SUBSET (1 .. k) : s # {} => s \ {Max(s)} \in SUBSET (1 .. k)
    OBVIOUS
  <2>3. \A s \in SUBSET (1 .. k + 1) :
          s \notin SUBSET (1 .. k) => s # {} /\ s \ {Max(s)} \in SUBSET (1 .. k)
    <3> SUFFICES ASSUME NEW s \in SUBSET (1 .. k + 1), s \notin SUBSET (1 .. k)
                 PROVE  s # {} /\ s \ {Max(s)} \in SUBSET (1 .. k)
      OBVIOUS
    <3>1. k + 1 \in s
      OBVIOUS
    <3>2. Max(s) \in 1 .. k + 1 /\ k + 1 <= Max(s)
      BY <3>1, MaxOf, k + 1 \in Nat
    <3>3. Max(s) = k + 1
      BY <3>2
    <3> QED
      BY <3>1, <3>3
  <2>4. \A s \in SUBSET (1 .. k) :
          g[s] = IF s = {} THEN <<>> ELSE Step(g[s \ {Max(s)}], names[Max(s)])
    BY <2>1 DEF Folds
  <2>5. \A s \in SUBSET (1 .. k) : s \in SUBSET (1 .. k + 1) /\ h[s] = g[s]
    OBVIOUS
  <2>6. ASSUME NEW s \in SUBSET (1 .. k + 1)
        PROVE  h[s] = IF s = {} THEN <<>> ELSE Step(h[s \ {Max(s)}], names[Max(s)])
    <3>1. CASE s \in SUBSET (1 .. k)
      BY <2>2, <2>4, <2>5, <3>1
    <3>2. CASE s \notin SUBSET (1 .. k)
      <4>1. h[s] = Step(g[s \ {Max(s)}], names[Max(s)])
        BY <3>2
      <4>2. s # {} /\ h[s \ {Max(s)}] = g[s \ {Max(s)}]
        BY <2>3, <2>5, <3>2
      <4> QED
        BY <4>1, <4>2
    <3> QED
      BY <3>1, <3>2
  <2>7. h = [s \in SUBSET (1 .. k + 1) |->
              IF s = {} THEN <<>> ELSE Step(h[s \ {Max(s)}], names[Max(s)])]
    BY <2>6, Zenon
  <2>8. Folds(names, k + 1, h)
    BY <2>7 DEF Folds
  <2> QED
    BY <2>8
<1>3. 0 .. n \subseteq S
  BY <1>1, <1>2, Upward
<1> QED
  BY <1>3

LEMMA ParseIsFold ==
  ASSUME NEW names \in Seq(Names)
  PROVE  \E g : Folds(names, Len(names), g) /\ ParseChatIDs(names) = g[1 .. Len(names)]
<1>1. DOMAIN names = 1 .. Len(names) /\ Len(names) \in Nat
  OBVIOUS
<1> DEFINE g == CHOOSE f : Folds(names, Len(names), f)
<1>2. Folds(names, Len(names), g)
  BY <1>1, FoldExists
<1>3. ParseChatIDs(names) = g[1 .. Len(names)]
  BY <1>1 DEF ParseChatIDs, FoldLeft, MapThenFoldSet, Folds, Step
<1> QED
  BY <1>2, <1>3

(* One name more: the list stays free of repetitions, and within Names.    *)
LEMMA AppendNew ==
  ASSUME NEW S, NEW ids \in Seq(S), NEW n \in S, IsInjective(ids), n \notin ToSet(ids)
  PROVE  /\ Append(ids, n) \in Seq(S) /\ IsInjective(Append(ids, n))
         /\ Len(Append(ids, n)) = Len(ids) + 1
<1> DEFINE new == Append(ids, n)
<1>1. /\ new \in Seq(S) /\ Len(new) = Len(ids) + 1 /\ Len(ids) \in Nat
      /\ \A i \in 1 .. Len(ids) : new[i] = ids[i]
      /\ new[Len(ids) + 1] = n
  OBVIOUS
<1>2. DOMAIN ids = 1 .. Len(ids) /\ DOMAIN new = 1 .. Len(ids) + 1
  BY <1>1
<1> HIDE DEF new
<1>3. \A i \in 1 .. Len(ids) : ids[i] # n
  BY <1>2 DEF ToSet
<1>4. \A i, j \in 1 .. Len(ids) : ids[i] = ids[j] => i = j
  BY <1>2 DEF IsInjective
<1>5. ASSUME NEW i \in 1 .. Len(ids) + 1, NEW j \in 1 .. Len(ids) + 1, new[i] = new[j]
      PROVE  i = j
  <2>1. (i \in 1 .. Len(ids) \/ i = Len(ids) + 1) /\ (j \in 1 .. Len(ids) \/ j = Len(ids) + 1)
    BY <1>1
  <2> QED
    BY <1>1, <1>3, <1>4, <1>5, <2>1
<1>6. IsInjective(new)
  BY <1>2, <1>5 DEF IsInjective
<1> QED
  BY <1>1, <1>6 DEF new

(* parseChatIDs yields names, none twice and no more than it was given.    *)
LEMMA ParseOnce ==
  ASSUME NEW names \in Seq(Names)
  PROVE  /\ ParseChatIDs(names) \in Seq(Names) /\ IsInjective(ParseChatIDs(names))
         /\ Len(ParseChatIDs(names)) <= Len(names)
<1>1. PICK g : Folds(names, Len(names), g) /\ ParseChatIDs(names) = g[1 .. Len(names)]
  BY ParseIsFold
<1>2. Len(names) \in Nat /\ \A i \in 1 .. Len(names) : names[i] \in Names
  OBVIOUS
<1> DEFINE n == Len(names)
<1> DEFINE Fine(i) == /\ g[1 .. i] \in Seq(Names) /\ IsInjective(g[1 .. i])
                      /\ Len(g[1 .. i]) <= i
<1> DEFINE S == {i \in 0 .. n : Fine(i)}
<1>3. 0 \in S
  <2>1. 1 .. 0 = {} /\ 1 .. 0 \in SUBSET (1 .. n)
    OBVIOUS
  <2>2. g[1 .. 0] = <<>>
    BY <1>1, <2>1 DEF Folds
  <2>3. <<>> \in Seq(Names) /\ Len(<<>>) = 0 /\ IsInjective(<<>>)
    BY DEF IsInjective
  <2>4. Fine(0)
    BY <2>2, <2>3
  <2> HIDE DEF Fine
  <2> QED
    BY <1>2, <2>4
<1>4. ASSUME NEW i \in 0 .. n - 1, i \in S PROVE i + 1 \in S
  <2>1. 1 .. i + 1 \in SUBSET (1 .. n) /\ 1 .. i + 1 # {} /\ i + 1 \in 1 .. i + 1
    <3>1. n \in Nat /\ i \in Nat /\ i + 1 <= n
      BY <1>2
    <3> HIDE DEF n
    <3>2. \A x \in 1 .. i + 1 : x \in 1 .. n
      BY <3>1
    <3>3. i + 1 \in 1 .. i + 1
      BY <3>1
    <3> QED
      BY <3>2, <3>3
  <2>2. Max(1 .. i + 1) \in 1 .. i + 1 /\ i + 1 <= Max(1 .. i + 1)
    BY <1>2, <2>1, MaxOf
  <2>3. Max(1 .. i + 1) = i + 1 /\ (1 .. i + 1) \ {i + 1} = 1 .. i
    BY <1>2, <2>2
  <2>4. g[1 .. i + 1] = Step(g[1 .. i], names[i + 1])
    BY <1>1, <2>1, <2>3 DEF Folds
  <2>5. names[i + 1] \in Names
    BY <1>2
  <2>6. Fine(i)
    BY <1>4
  <2> DEFINE ids == g[1 .. i]
  <2>7. ids \in Seq(Names) /\ IsInjective(ids) /\ Len(ids) <= i /\ Len(ids) \in Nat
    BY <2>6
  <2> HIDE DEF ids
  <2>8. /\ Step(ids, names[i + 1]) \in Seq(Names) /\ IsInjective(Step(ids, names[i + 1]))
        /\ Len(Step(ids, names[i + 1])) <= i + 1
    BY <1>2, <2>5, <2>7, AppendNew DEF Step
  <2>9. Fine(i + 1)
    BY <2>4, <2>8 DEF ids
  <2> HIDE DEF Fine
  <2> QED
    BY <1>2, <2>9
<1>5. 0 .. n \subseteq S
  <2> HIDE DEF S
  <2> QED
    BY <1>2, <1>3, <1>4, Upward
<1> QED
  BY <1>1, <1>2, <1>5

(* defaultSendChat picks a chat the key may use, when the key has one.     *)
LEMMA DefaultAllowed ==
  ASSUME NEW k \in Keys
  PROVE  /\ DefaultSendChat(k) \in Names \cup {None}
         /\ OwnChat[k] # None =>
              /\ DefaultSendChat(k) # None /\ k \in ScopedKeys /\ k \notin MemberKeys
              /\ ChatOf[DefaultSendChat(k)] # Unresolved
              /\ ChatAllowed(k, ChatOf[DefaultSendChat(k)])
  BY PipelineAssumption DEF PipelineAssumption, DefaultSendChat, ChatAllowed

LEMMA RequestTyped ==
  ASSUME NEW r \in Requests
  PROVE  /\ r.surface \in Surfaces /\ r.key \in Keys /\ r.names \in Seq(Names)
         /\ r.bot \in Bots \cup {None} /\ r.valid \in BOOLEAN /\ r # NoReq
  BY PipelineAssumption DEF PipelineAssumption, NoReq, Surfaces

LEMMA TargetsTyped ==
  ASSUME NEW r \in Requests
  PROVE  /\ TargetsOf(r) \in Seq(Names) /\ IsInjective(TargetsOf(r))
         /\ r.surface \in {"mattermost", "edit"} => Len(TargetsOf(r)) <= 1
<1>1. r.names \in Seq(Names) /\ r.surface \in Surfaces /\ r.key \in Keys
  BY RequestTyped
<1>2. DefaultSendChat(r.key) \in Names \cup {None} /\ SingleChat(r.surface) \in Names \cup {None}
  BY <1>1, DefaultAllowed, PipelineAssumption DEF PipelineAssumption, SingleChat
<1>3. <<>> \in Seq(Names) /\ IsInjective(<<>>) /\ Len(<<>>) = 0
  BY DEF IsInjective
<1>4. \A n \in Names : <<n>> \in Seq(Names) /\ IsInjective(<<n>>) /\ Len(<<n>>) = 1
  BY DEF IsInjective
<1>5. /\ ParseChatIDs(r.names) \in Seq(Names) /\ IsInjective(ParseChatIDs(r.names))
      /\ Len(ParseChatIDs(r.names)) <= Len(r.names) /\ Len(ParseChatIDs(r.names)) \in Nat
      /\ Len(r.names) \in Nat
  BY <1>1, ParseOnce
<1>6. r.surface \in {"mattermost", "edit"} => Len(r.names) <= 1
  BY PipelineAssumption DEF PipelineAssumption
<1>7. CASE r.names # <<>>
  <2>1. TargetsOf(r) = ParseChatIDs(r.names)
    BY <1>7 DEF TargetsOf
  <2> QED
    BY <1>5, <1>6, <2>1
<1>8. CASE r.names = <<>>
  <2>1. TargetsOf(r) = <<>> \/ \E n \in Names : TargetsOf(r) = <<n>>
    BY <1>2, <1>8 DEF TargetsOf
  <2>2. CASE TargetsOf(r) = <<>>
    BY <1>3, <2>2
  <2>3. CASE \E n \in Names : TargetsOf(r) = <<n>>
    <3>1. PICK n \in Names : TargetsOf(r) = <<n>>
      BY <2>3
    <3>2. <<n>> \in Seq(Names) /\ IsInjective(<<n>>) /\ Len(<<n>>) = 1
      BY <1>4
    <3> QED
      BY <3>1, <3>2
  <2> QED
    BY <2>1, <2>2, <2>3
<1> QED
  BY <1>7, <1>8

LEMMA StatusOf ==
  ASSUME NEW os
  PROVE  /\ Status(os) \in {200, 403, 502, 503}
         /\ Status(os) = 200 <=> "ok" \in ToSet(os)
         /\ ToSet(os) \subseteq {"ok", "failed"} => Status(os) \in {200, 502}
<1>1. Status(os) = 403 => "denied" \in ToSet(os)
  BY DEF Status
<1> QED
  BY <1>1 DEF Status

LEMMA AppendOutcome ==
  ASSUME NEW os \in Seq(Outcomes), NEW o \in Outcomes
  PROVE  /\ Append(os, o) \in Seq(Outcomes) /\ Len(Append(os, o)) = Len(os) + 1
         /\ DOMAIN os = 1 .. Len(os) /\ DOMAIN Append(os, o) = 1 .. Len(os) + 1
         /\ \A i \in 1 .. Len(os) : Append(os, o)[i] = os[i]
         /\ Append(os, o)[Len(os) + 1] = o
         /\ ToSet(Append(os, o)) \subseteq ToSet(os) \cup {o}
<1> DEFINE new == Append(os, o)
<1>1. /\ new \in Seq(Outcomes) /\ Len(new) = Len(os) + 1 /\ Len(os) \in Nat
      /\ \A i \in 1 .. Len(os) : new[i] = os[i]
      /\ new[Len(os) + 1] = o
  OBVIOUS
<1>2. DOMAIN os = 1 .. Len(os) /\ DOMAIN new = 1 .. Len(os) + 1
  BY <1>1
<1> HIDE DEF new
<1>3. ASSUME NEW x \in ToSet(new) PROVE x \in ToSet(os) \cup {o}
  <2>1. PICK i \in 1 .. Len(os) + 1 : x = new[i]
    BY <1>2, <1>3 DEF ToSet
  <2>2. i \in 1 .. Len(os) \/ i = Len(os) + 1
    BY <1>1
  <2> QED
    BY <1>1, <1>2, <2>1, <2>2 DEF ToSet
<1> QED
  BY <1>1, <1>2, <1>3 DEF new
-----------------------------------------------------------------------------
(* A chat n found to be the key's: what AllCheckedFirst asks of it.        *)
Found(c, n) ==
  /\ req[c].surface = "edit" => ~IsStatic(c) /\ ~IsMember(c)
  /\ IsStatic(c) => ChatOf[n] \in Scope[Key(c)]
  /\ IsMember(c) => /\ Pair(c, n) \in Pairs
                    /\ since[c] < lastIn[Pair(c, n)] + PosTTL

AllFound(c) == \A n \in NamedBy(c) : Found(c, n)

(* What a request is at each point of its way.                             *)
Asked(c) ==
  IF pc[c] = "idle" THEN outs[c] = <<>> /\ targets[c] = <<>>
  ELSE /\ req[c] \in Requests /\ targets[c] = TargetsOf(req[c])
       /\ since[c] <= now
       /\ ~IsMember(c) => ToSet(outs[c]) \subseteq {"ok", "failed"}

Refused(c)  == outs[c] = <<>> /\ answer[c] # 200
Finished(c) == Len(outs[c]) = Len(targets[c]) /\ answer[c] = Status(outs[c]) /\ AllFound(c)

(* The request of a key with one chat that need not be named.              *)
Own(c) == /\ req[c].surface = "send" /\ req[c].names = <<>>
          /\ req[c].valid /\ OwnChat[Key(c)] # None

Placed(c) ==
  /\ pc[c] = "check" =>
       /\ outs[c] = <<>> /\ next[c] \in 1 .. Len(targets[c])
       /\ req[c].surface = "edit" => ~IsStatic(c) /\ ~IsMember(c)
       /\ \A i \in 1 .. next[c] - 1 : Found(c, targets[c][i])
  /\ pc[c] \in {"deliver", "posting"} =>
       /\ next[c] = Len(outs[c]) + 1 /\ next[c] <= Len(targets[c]) + 1
       /\ AllFound(c)
  /\ pc[c] = "posting" => next[c] <= Len(targets[c])
  /\ pc[c] = "answered" => Finished(c) \/ (Refused(c) /\ ~Own(c))

(* What the client's messages have come to, over all its attempts.         *)
KnownOK(c, n) == \E i \in DOMAIN outs[c] : outs[c][i] = "ok" /\ targets[c][i] = n

Accounted(c) ==
  /\ \A n \in Names : posted[c][n] <= unsure[c][n] + IF KnownOK(c, n) THEN 1 ELSE 0
  /\ \A i \in DOMAIN outs[c] : outs[c][i] = "ok" /\ req[c].surface # "edit" =>
       posted[c][targets[c][i]] > 0

RequestOK(c) == Asked(c) /\ Placed(c) /\ Accounted(c)

CacheOK == \A p \in Pairs : /\ entry[p].ans = "yes" => entry[p].until <= lastIn[p] + PosTTL
                            /\ member[p] => lastIn[p] = now
                            /\ lastIn[p] <= now

IInv == TypeOK /\ CacheOK /\ \A c \in Clients : RequestOK(c)

LEMMA Empty == ToSet(<<>>) = {} /\ DOMAIN <<>> = {}
  BY DEF ToSet

LEMMA InitOK == Init => IInv
<1> SUFFICES ASSUME Init PROVE IInv
  OBVIOUS
<1>1. TypeOK
  <2>1. <<>> \in Seq(Names) /\ <<>> \in Seq(Outcomes) /\ PosTTL \in Nat
    BY PipelineAssumption DEF PipelineAssumption
  <2> QED
    BY <2>1 DEF Init, TypeOK, PCs, Answers, Entries
<1>2. CacheOK
  <2>1. PosTTL \in Nat
    BY PipelineAssumption DEF PipelineAssumption
  <2> QED
    BY <2>1 DEF Init, CacheOK
<1>3. \A c \in Clients : RequestOK(c)
  BY Empty DEF Init, RequestOK, Asked, Placed, Accounted, KnownOK
<1> QED
  BY <1>1, <1>2, <1>3 DEF IInv

(* The key of a request, once there is one.                                *)
LEMMA KeyFacts ==
  ASSUME NEW c \in Clients, req[c] \in Requests
  PROVE  /\ Key(c) \in Keys /\ ~(IsStatic(c) /\ IsMember(c))
         /\ Own(c) => /\ IsStatic(c) /\ ~IsMember(c)
                      /\ TargetsOf(req[c]) = <<DefaultSendChat(Key(c))>>
                      /\ ChatOf[DefaultSendChat(Key(c))] # Unresolved
                      /\ ChatAllowed(Key(c), ChatOf[DefaultSendChat(Key(c))])
<1>1. Key(c) \in Keys /\ ScopedKeys \cap MemberKeys = {}
  BY RequestTyped, PipelineAssumption DEF Key, PipelineAssumption
<1> QED
  BY <1>1, DefaultAllowed DEF Key, IsStatic, IsMember, Own, TargetsOf

LEMMA IInvImplies ==
  IInv => AllCheckedFirst /\ AnswerTruthful /\ RetryHarmless /\ OwnChatReached
<1> SUFFICES ASSUME IInv PROVE AllCheckedFirst /\ AnswerTruthful /\ RetryHarmless /\ OwnChatReached
  OBVIOUS
<1>1. \A c \in Clients : /\ pc[c] \in PCs /\ Asked(c) /\ Placed(c) /\ Accounted(c)
                         /\ outs[c] \in Seq(Outcomes)
                         /\ posted[c] \in [Names -> Nat] /\ unsure[c] \in [Names -> Nat]
  BY DEF IInv, TypeOK, RequestOK
<1>2. AllCheckedFirst
  <2> SUFFICES ASSUME NEW c \in Clients, Sent(c), NEW n \in NamedBy(c) PROVE Found(c, n)
    BY DEF AllCheckedFirst, Found
  <2>1. pc[c] \notin {"idle", "check"}
    BY <1>1, Empty DEF Sent, Asked, Placed
  <2>2. pc[c] = "answered" => Finished(c)
    BY <1>1, Empty DEF Sent, Placed, Refused
  <2> QED
    BY <1>1, <2>1, <2>2 DEF PCs, Placed, AllFound, Finished
<1>3. AnswerTruthful
  <2> SUFFICES ASSUME NEW c \in Clients, pc[c] = "answered", answer[c] = 200 \/ outs[c] # <<>>
               PROVE  /\ Len(outs[c]) = Len(targets[c])
                      /\ answer[c] = 200 <=> "ok" \in ToSet(outs[c])
                      /\ \A i \in DOMAIN outs[c] :
                           outs[c][i] = "ok" /\ req[c].surface # "edit" => posted[c][targets[c][i]] > 0
    BY DEF AnswerTruthful
  <2>1. Finished(c) /\ Accounted(c)
    BY <1>1 DEF Placed, Refused
  <2> QED
    BY <2>1, StatusOf DEF Finished, Accounted
<1>4. RetryHarmless
  <2> SUFFICES ASSUME NEW c \in Clients, NEW n \in Names PROVE posted[c][n] <= 1 + unsure[c][n]
    BY DEF RetryHarmless
  <2>1. posted[c][n] <= unsure[c][n] + IF KnownOK(c, n) THEN 1 ELSE 0
    BY <1>1 DEF Accounted
  <2>2. posted[c][n] \in Nat /\ unsure[c][n] \in Nat
    BY <1>1
  <2> QED
    BY <2>1, <2>2
<1>5. OwnChatReached
  <2> SUFFICES ASSUME NEW c \in Clients, pc[c] = "answered", Own(c) PROVE answer[c] \in {200, 502}
    BY DEF OwnChatReached, Own
  <2>1. Finished(c) /\ Asked(c) /\ req[c] \in Requests
    BY <1>1 DEF Placed, Asked
  <2>2. ToSet(outs[c]) \subseteq {"ok", "failed"}
    BY <2>1, KeyFacts DEF Asked
  <2> QED
    BY <2>1, <2>2, StatusOf DEF Finished
<1> QED
  BY <1>2, <1>3, <1>4, <1>5
-----------------------------------------------------------------------------
(* Steps that leave a request alone.                                       *)
Same(c) ==
  /\ pc'[c] = pc[c] /\ req'[c] = req[c] /\ targets'[c] = targets[c] /\ next'[c] = next[c]
  /\ outs'[c] = outs[c] /\ answer'[c] = answer[c] /\ since'[c] = since[c]
  /\ posted'[c] = posted[c] /\ unsure'[c] = unsure[c]

(* The world only gets later, and a bot's last moment in a chat with it.   *)
Later == /\ bots' = bots /\ now' \in Nat /\ now <= now'
         /\ \A p \in Pairs : lastIn'[p] \in Int /\ lastIn[p] <= lastIn'[p]

LEMMA FoundStays ==
  ASSUME IInv, Later, NEW c \in Clients, req'[c] = req[c], since'[c] = since[c]
  PROVE  /\ \A n : Found(c, n) => Found(c, n)'
         /\ IsStatic(c)' = IsStatic(c) /\ IsMember(c)' = IsMember(c) /\ Key(c)' = Key(c)
<1>1. since[c] \in Nat /\ PosTTL \in Nat /\ \A p \in Pairs : lastIn[p] \in Int
  BY PipelineAssumption DEF IInv, TypeOK, PipelineAssumption
<1>2. /\ IsStatic(c)' = IsStatic(c) /\ IsMember(c)' = IsMember(c) /\ Key(c)' = Key(c)
      /\ \A n : Pair(c, n)' = Pair(c, n)
  BY DEF Later, IsStatic, IsMember, Key, Pair, Sender
<1>3. ASSUME NEW n, Found(c, n) PROVE Found(c, n)'
  <2>1. IsMember(c) => since[c] < lastIn'[Pair(c, n)] + PosTTL
    <3> SUFFICES ASSUME IsMember(c) PROVE since[c] < lastIn'[Pair(c, n)] + PosTTL
      OBVIOUS
    <3>1. Pair(c, n) \in Pairs /\ since[c] < lastIn[Pair(c, n)] + PosTTL
      BY <1>3 DEF Found
    <3>2. PICK p \in Pairs : p = Pair(c, n)
      BY <3>1
    <3>3. since[c] < lastIn[p] + PosTTL /\ lastIn[p] <= lastIn'[p] /\ lastIn'[p] \in Int
      BY <3>1, <3>2 DEF Later
    <3> QED
      BY <1>1, <3>2, <3>3
  <2> QED
    BY <1>2, <1>3, <2>1 DEF Found
<1> QED
  BY <1>2, <1>3

LEMMA Kept ==
  ASSUME IInv, Later, NEW c \in Clients, Same(c)
  PROVE  RequestOK(c)'
<1>1. RequestOK(c)
  BY DEF IInv
<1>2. /\ \A n : Found(c, n) => Found(c, n)'
      /\ IsStatic(c)' = IsStatic(c) /\ IsMember(c)' = IsMember(c) /\ Key(c)' = Key(c)
  BY FoundStays DEF Same
<1>3. AllFound(c) => AllFound(c)'
  BY <1>2 DEF AllFound, NamedBy, Same
<1>4. since[c] \in Nat /\ now \in Nat
  BY DEF IInv, TypeOK
<1>5. Asked(c)'
  BY <1>1, <1>2, <1>4 DEF RequestOK, Asked, Same, Later
<1>6. Placed(c)'
  BY <1>1, <1>2, <1>3 DEF RequestOK, Placed, Same, Finished, Refused, Own
<1>7. Accounted(c)'
  BY <1>1 DEF RequestOK, Accounted, KnownOK, Same
<1> QED
  BY <1>5, <1>6, <1>7 DEF RequestOK
-----------------------------------------------------------------------------
(* Steps of one request.                                                   *)
World == UNCHANGED <<bots, member, lastIn, now>>

LEMMA WorldLater == ASSUME IInv, World PROVE Later
<1>1. now \in Nat /\ \A p \in Pairs : lastIn[p] \in Int
  BY DEF IInv, TypeOK
<1> QED
  BY <1>1 DEF World, Later

LEMMA OneRequest ==
  ASSUME IInv, NEW c \in Clients, World, \A d \in Clients \ {c} : Same(d),
         TypeOK', CacheOK', RequestOK(c)'
  PROVE  IInv'
<1>1. \A d \in Clients \ {c} : RequestOK(d)'
  BY WorldLater, Kept
<1> QED
  BY <1>1 DEF IInv

(* checkMembership.                                                        *)
LEMMA CheckStep ==
  ASSUME IInv, World, NEW p \in Pairs, NEW result, Check(p, result)
  PROVE  /\ entry' \in [Pairs -> Entries] /\ CacheOK'
         /\ result = "yes" => now < lastIn[p] + PosTTL
<1>1. /\ entry \in [Pairs -> Entries] /\ member \in [Pairs -> BOOLEAN]
      /\ now \in Nat /\ CacheOK /\ PosTTL \in Nat /\ NegTTL \in Nat /\ PosTTL > 0
      /\ \A q \in Pairs : lastIn[q] \in Int /\ entry[q].until \in Nat
  BY PipelineAssumption DEF IInv, TypeOK, PipelineAssumption, Entries
<1>2. CASE UNCHANGED entry
  <2>1. CacheOK'
    BY <1>1, <1>2 DEF CacheOK, World
  <2>2. result = "yes" => now < entry[p].until /\ entry[p].ans = "yes"
    <3>1. ~(result = "yes" /\ entry'[p] # entry[p])
      BY <1>2
    <3> SUFFICES ASSUME result = "yes" PROVE now < entry[p].until /\ entry[p].ans = "yes"
      OBVIOUS
    <3>2. CASE entry[p].ans # "none" /\ now < entry[p].until
      BY <3>2 DEF Check
    <3>3. CASE ~(entry[p].ans # "none" /\ now < entry[p].until)
      <4>1. entry' = [entry EXCEPT ![p] = [ans |-> "yes",
                       until |-> now + IF member[p] THEN PosTTL ELSE NegTTL]]
        BY <3>3 DEF Check
      <4>2. entry'[p].ans = "yes" /\ entry'[p].until > now
        BY <1>1, <4>1, PipelineAssumption DEF PipelineAssumption
      <4> QED
        BY <1>2, <4>2
    <3> QED
      BY <3>2, <3>3
  <2>3. result = "yes" => now < lastIn[p] + PosTTL
    BY <1>1, <2>2 DEF CacheOK
  <2> QED
    BY <1>1, <1>2, <2>1, <2>3
<1>3. CASE /\ result = IF member[p] THEN "yes" ELSE "no"
           /\ entry' = [entry EXCEPT ![p] = [ans |-> result,
                          until |-> now + IF member[p] THEN PosTTL ELSE NegTTL]]
  <2>1. entry' \in [Pairs -> Entries]
    BY <1>1, <1>3 DEF Entries
  <2>2. member[p] => lastIn[p] = now
    BY <1>1 DEF CacheOK
  <2>3. CacheOK'
    BY <1>1, <1>3, <2>2 DEF CacheOK, World
  <2>4. result = "yes" => now < lastIn[p] + PosTTL
    BY <1>1, <1>3, <2>2
  <2> QED
    BY <2>1, <2>3, <2>4
<1> QED
  BY <1>2, <1>3 DEF Check

(* A response before anything was sent.                                    *)
LEMMA RefuseOK ==
  ASSUME IInv, World, NEW c \in Clients, NEW s \in {400, 403, 503},
         pc[c] \in {"check", "deliver"}, outs[c] = <<>>, ~Own(c),
         Refuse(c, s), UNCHANGED <<posted, unsure>>
  PROVE  RequestOK(c)'
<1>1. RequestOK(c) /\ pc \in [Clients -> PCs] /\ answer \in [Clients -> Answers]
  BY DEF IInv, TypeOK
<1>2. /\ pc'[c] = "answered" /\ answer'[c] = s
      /\ UNCHANGED <<req, targets, next, outs, tries, since>>
  BY <1>1 DEF Refuse, Set
<1>3. IsMember(c)' = IsMember(c) /\ Own(c)' = Own(c)
  BY <1>2 DEF IsMember, Key, Own
<1>4. Asked(c)'
  BY <1>1, <1>2, <1>3 DEF RequestOK, Asked, World
<1>5. Placed(c)'
  BY <1>2, <1>3 DEF Placed, Refused
<1>6. Accounted(c)'
  BY <1>1, <1>2 DEF RequestOK, Accounted, KnownOK
<1> QED
  BY <1>4, <1>5, <1>6 DEF RequestOK

(* One more target was found to be the key's.                              *)
LEMMA PassedOK ==
  ASSUME IInv, World, NEW c \in Clients, pc[c] = "check", Found(c, Target(c)),
         Passed(c), UNCHANGED <<posted, unsure>>
  PROVE  RequestOK(c)'
<1>1. /\ Asked(c) /\ Placed(c) /\ Accounted(c) /\ pc \in [Clients -> PCs] /\ next \in [Clients -> Nat]
      /\ targets[c] \in Seq(Names)
  BY DEF IInv, TypeOK, RequestOK
<1>2. /\ outs[c] = <<>> /\ next[c] \in 1 .. Len(targets[c]) /\ Len(targets[c]) \in Nat
      /\ DOMAIN targets[c] = 1 .. Len(targets[c])
      /\ \A i \in 1 .. next[c] - 1 : Found(c, targets[c][i])
  BY <1>1 DEF Placed
<1>3. UNCHANGED <<req, targets, outs, answer, tries, since>>
  BY DEF Passed, Phase
<1>4. Later
  BY WorldLater
<1>5. /\ \A n : Found(c, n) => Found(c, n)'
      /\ IsStatic(c)' = IsStatic(c) /\ IsMember(c)' = IsMember(c)
  BY <1>3, <1>4, FoundStays
<1>6. \A i \in 1 .. next[c] : \A n : n = targets[c][i] => Found(c, n)'
  <2> SUFFICES ASSUME NEW i \in 1 .. next[c], NEW n, n = targets[c][i] PROVE Found(c, n)'
    OBVIOUS
  <2>1. i \in 1 .. next[c] - 1 \/ i = next[c]
    BY <1>2
  <2>2. Found(c, n)
    BY <1>2, <2>1 DEF Target
  <2> QED
    BY <1>5, <2>2
<1>7. Asked(c)'
  <2>1. pc'[c] # "idle" /\ pc[c] # "idle"
    BY <1>1 DEF Passed, Phase, Set
  <2> QED
    BY <1>1, <1>3, <1>5, <2>1 DEF Asked, World
<1>8. Accounted(c)'
  BY <1>1, <1>3 DEF Accounted, KnownOK
<1>9. Placed(c)'
  <2>1. CASE next[c] = Len(targets[c]) /\ Phase(c, "deliver")
    <3>1. pc'[c] = "deliver" /\ next'[c] = 1
      BY <1>1, <2>1 DEF Phase, Set
    <3>2. \A n \in NamedBy(c) : Found(c, n)'
      <4> SUFFICES ASSUME NEW n \in NamedBy(c) PROVE Found(c, n)'
        OBVIOUS
      <4>1. PICK i \in 1 .. Len(targets[c]) : n = targets[c][i]
        BY <1>2 DEF NamedBy, ToSet
      <4> QED
        BY <1>6, <2>1, <4>1
    <3>3. AllFound(c)'
      BY <1>3, <3>2 DEF AllFound, NamedBy
    <3>4. Len(outs'[c]) = 0 /\ targets'[c] = targets[c]
      BY <1>2, <1>3
    <3> QED
      BY <1>2, <3>1, <3>3, <3>4 DEF Placed
  <2>2. CASE /\ next[c] < Len(targets[c]) /\ next' = Set(next, c, next[c] + 1)
             /\ UNCHANGED pc
    <3>1. pc'[c] = "check" /\ next'[c] = next[c] + 1 /\ next'[c] - 1 = next[c]
      BY <1>1, <1>2, <2>2 DEF Set
    <3>2. next'[c] \in 1 .. Len(targets'[c])
      BY <1>2, <1>3, <2>2, <3>1
    <3>3. \A i \in 1 .. next'[c] - 1 : \A n : n = targets'[c][i] => Found(c, n)'
      BY <1>3, <1>6, <3>1
    <3>4. targets' = targets /\ outs'[c] = <<>>
      BY <1>2, <1>3
    <3> QED
      BY <1>1, <1>3, <1>5, <3>1, <3>2, <3>3, <3>4 DEF Placed
  <2> QED
    BY <2>1, <2>2 DEF Passed
<1> QED
  BY <1>7, <1>8, <1>9 DEF RequestOK

(* The outcome of a target, whose chat may have got the message.           *)
LEMMA OutcomeOK ==
  ASSUME IInv, World, NEW c \in Clients, pc[c] \in {"deliver", "posting"},
         next[c] <= Len(targets[c]), NEW o \in Outcomes, Outcome(c, o),
         ~IsMember(c) => o \in {"ok", "failed"},
         \/ o # "ok" /\ UNCHANGED <<posted, unsure>>
         \/ o = "ok" /\ posted' = Reached(c) /\ UNCHANGED unsure
         \/ /\ o # "ok" /\ posted' = Reached(c)
            /\ unsure' = [unsure EXCEPT ![c][Target(c)] = @ + 1]
  PROVE  RequestOK(c)'
<1>1. /\ Asked(c) /\ Placed(c) /\ Accounted(c) /\ pc \in [Clients -> PCs] /\ next \in [Clients -> Nat]
      /\ targets[c] \in Seq(Names) /\ outs \in [Clients -> Seq(Outcomes)]
      /\ posted \in [Clients -> [Names -> Nat]] /\ unsure \in [Clients -> [Names -> Nat]]
  BY DEF IInv, TypeOK, RequestOK
<1>2. /\ next[c] = Len(outs[c]) + 1 /\ AllFound(c) /\ Len(targets[c]) \in Nat
      /\ Len(outs[c]) \in Nat /\ DOMAIN targets[c] = 1 .. Len(targets[c])
      /\ req[c] \in Requests /\ targets[c] = TargetsOf(req[c])
  BY <1>1 DEF Placed, Asked
<1>3. /\ UNCHANGED <<req, targets, answer, tries, since>>
      /\ pc'[c] = "deliver" /\ next'[c] = next[c] + 1 /\ outs'[c] = Append(outs[c], o)
  BY <1>1 DEF Outcome, Set
<1>4. /\ Len(outs'[c]) = Len(outs[c]) + 1
      /\ DOMAIN outs[c] = 1 .. Len(outs[c]) /\ DOMAIN outs'[c] = 1 .. Len(outs[c]) + 1
      /\ \A i \in 1 .. Len(outs[c]) : outs'[c][i] = outs[c][i]
      /\ outs'[c][Len(outs[c]) + 1] = o /\ ToSet(outs'[c]) \subseteq ToSet(outs[c]) \cup {o}
  <2>1. outs[c] \in Seq(Outcomes)
    BY <1>1
  <2> QED
    BY <1>3, <2>1, AppendOutcome
<1>5. /\ \A n : Found(c, n) => Found(c, n)'
      /\ IsStatic(c)' = IsStatic(c) /\ IsMember(c)' = IsMember(c)
  BY <1>3, WorldLater, FoundStays
<1>6. AllFound(c)'
  BY <1>2, <1>3, <1>5 DEF AllFound, NamedBy
<1>7. Placed(c)'
  BY <1>2, <1>3, <1>4, <1>6 DEF Placed
<1>8. Asked(c)'
  BY <1>1, <1>2, <1>3, <1>4, <1>5 DEF Asked, World
(* Its chat was not sent to before in this attempt.                        *)
<1> DEFINE t == Target(c)
<1>9. t \in Names /\ t = targets[c][next[c]] /\ next[c] \in DOMAIN targets[c]
  BY <1>1, <1>2 DEF Target
<1>10. ~KnownOK(c, t)
  <2> SUFFICES ASSUME NEW i \in DOMAIN outs[c], targets[c][i] = t PROVE FALSE
    BY DEF KnownOK
  <2>1. i \in DOMAIN targets[c] /\ i < next[c]
    BY <1>2, <1>4
  <2>2. IsInjective(targets[c])
    BY <1>2, TargetsTyped
  <2> QED
    BY <1>9, <2>1, <2>2 DEF IsInjective
<1>11. ASSUME NEW n \in Names
       PROVE  /\ KnownOK(c, n) => KnownOK(c, n)'
              /\ o = "ok" /\ n = t => KnownOK(c, n)'
  <2>1. ASSUME NEW i \in DOMAIN outs[c], outs[c][i] = "ok", targets[c][i] = n
        PROVE  i \in DOMAIN outs'[c] /\ outs'[c][i] = "ok" /\ targets'[c][i] = n
    BY <1>2, <1>3, <1>4, <2>1
  <2>2. Len(outs[c]) + 1 \in DOMAIN outs'[c] /\ targets'[c][Len(outs[c]) + 1] = t
    BY <1>2, <1>3, <1>4, <1>9
  <2> QED
    BY <1>4, <2>1, <2>2 DEF KnownOK
<1>12. \A n \in Names : /\ posted[c][n] \in Nat /\ unsure[c][n] \in Nat
                        /\ posted[c][n] <= unsure[c][n] + IF KnownOK(c, n) THEN 1 ELSE 0
  BY <1>1 DEF Accounted
<1>13. \A n \in Names :
         /\ posted'[c][n] \in Nat /\ unsure'[c][n] \in Nat
         /\ posted[c][n] <= posted'[c][n] /\ unsure[c][n] <= unsure'[c][n]
         /\ posted'[c][n] # posted[c][n] => /\ n = t /\ posted'[c][n] = posted[c][n] + 1
                                            /\ o = "ok" \/ unsure'[c][n] = unsure[c][n] + 1
         /\ o = "ok" /\ n = t /\ req[c].surface # "edit" => posted'[c][n] = posted[c][n] + 1
  <2> SUFFICES ASSUME NEW n \in Names
      PROVE /\ posted'[c][n] \in Nat /\ unsure'[c][n] \in Nat
            /\ posted[c][n] <= posted'[c][n] /\ unsure[c][n] <= unsure'[c][n]
            /\ posted'[c][n] # posted[c][n] => /\ n = t /\ posted'[c][n] = posted[c][n] + 1
                                               /\ o = "ok" \/ unsure'[c][n] = unsure[c][n] + 1
            /\ o = "ok" /\ n = t /\ req[c].surface # "edit" => posted'[c][n] = posted[c][n] + 1
    OBVIOUS
  <2>1. posted[c] \in [Names -> Nat] /\ unsure[c] \in [Names -> Nat]
    BY <1>1
  <2>2. Reached(c)[c][n] = IF req[c].surface # "edit" /\ n = t THEN posted[c][n] + 1 ELSE posted[c][n]
    BY <1>1, <1>9 DEF Reached
  <2>3. [unsure EXCEPT ![c][t] = @ + 1][c][n] = IF n = t THEN unsure[c][n] + 1 ELSE unsure[c][n]
    BY <1>1, <1>9
  <2>4. unsure'[c][n] \in {unsure[c][n], unsure[c][n] + 1}
    BY <2>3
  <2>5. posted'[c][n] \in {posted[c][n], Reached(c)[c][n]}
    OBVIOUS
  <2>6. posted'[c][n] # posted[c][n] => n = t /\ posted'[c][n] = posted[c][n] + 1
    BY <2>1, <2>2, <2>5
  <2>7. posted'[c][n] # posted[c][n] => o = "ok" \/ unsure'[c][n] = unsure[c][n] + 1
    <3>1. CASE o # "ok" /\ UNCHANGED posted
      BY <3>1
    <3>2. CASE unsure' = [unsure EXCEPT ![c][Target(c)] = @ + 1]
      BY <2>3, <2>6, <3>2
    <3> QED
      BY <3>1, <3>2
  <2>8. o = "ok" /\ n = t /\ req[c].surface # "edit" => posted'[c][n] = posted[c][n] + 1
    BY <2>2
  <2> HIDE DEF t
  <2> QED
    BY <2>1, <2>4, <2>6, <2>7, <2>8
<1>14. \A n \in Names : posted'[c][n] <= unsure'[c][n] + IF KnownOK(c, n)' THEN 1 ELSE 0
  <2> SUFFICES ASSUME NEW n \in Names
               PROVE  posted'[c][n] <= unsure'[c][n] + IF KnownOK(c, n)' THEN 1 ELSE 0
    OBVIOUS
  <2>1. CASE posted'[c][n] = posted[c][n]
    BY <1>11, <1>12, <1>13, <2>1
  <2>2. CASE posted'[c][n] # posted[c][n]
    <3>1. n = t /\ ~KnownOK(c, n) /\ posted[c][n] <= unsure[c][n]
      BY <1>10, <1>12, <1>13, <2>2
    <3> QED
      BY <1>11, <1>12, <1>13, <2>2, <3>1
  <2> QED
    BY <2>1, <2>2
<1>15. \A i \in DOMAIN outs'[c] : outs'[c][i] = "ok" /\ req[c].surface # "edit" =>
         posted'[c][targets[c][i]] > 0
  <2> SUFFICES ASSUME NEW i \in DOMAIN outs'[c], outs'[c][i] = "ok", req[c].surface # "edit"
               PROVE  posted'[c][targets[c][i]] > 0
    OBVIOUS
  <2>1. i \in DOMAIN targets[c] /\ targets[c][i] \in Names
    BY <1>1, <1>2, <1>4
  <2>2. CASE i \in 1 .. Len(outs[c])
    <3>1. posted[c][targets[c][i]] > 0
      BY <1>1, <1>4, <2>2 DEF Accounted
    <3> QED
      BY <1>12, <1>13, <2>1, <3>1
  <2>3. CASE i = Len(outs[c]) + 1
    BY <1>2, <1>4, <1>9, <1>12, <1>13, <2>3
  <2> QED
    BY <1>2, <1>4, <2>2, <2>3
<1>16. Accounted(c)'
  BY <1>3, <1>14, <1>15 DEF Accounted
<1> QED
  BY <1>7, <1>8, <1>16 DEF RequestOK
-----------------------------------------------------------------------------
(* The actions.                                                            *)
LEMMA ArriveOK ==
  ASSUME IInv, NEW c \in Clients, NEW r \in Requests, Arrive(c, r),
         \A n \in Names : posted[c][n] <= unsure[c][n]
  PROVE  IInv'
<1> DEFINE early == IF r.surface = "edit" /\ r.key \in ScopedKeys \cup MemberKeys THEN 403
                    ELSE IF ~r.valid \/ TargetsOf(r) = <<>> THEN 400 ELSE 0
<1>1. /\ req' = Set(req, c, r) /\ tries' = Set(tries, c, tries[c] + 1) /\ since' = Set(since, c, now)
      /\ targets' = Set(targets, c, TargetsOf(r)) /\ next' = Set(next, c, 1) /\ outs' = Set(outs, c, <<>>)
      /\ answer' = Set(answer, c, early)
      /\ pc' = Set(pc, c, IF early = 0 THEN "check" ELSE "answered")
      /\ UNCHANGED <<bots, posted, unsure, entry, botxVars>>
  BY DEF Arrive
<1>2. TypeOK /\ CacheOK /\ World
  BY <1>1 DEF IInv, World, botxVars
<1>3. TargetsOf(r) \in Seq(Names) /\ <<>> \in Seq(Outcomes) /\ early \in {0, 400, 403}
  BY TargetsTyped
<1> HIDE DEF early
<1>4. TypeOK'
  BY <1>1, <1>2, <1>3 DEF TypeOK, Set, PCs, Answers, botxVars
<1>5. CacheOK'
  BY <1>1, <1>2 DEF CacheOK, botxVars
<1>6. \A d \in Clients \ {c} : Same(d)
  BY <1>1, <1>2 DEF Same, Set, TypeOK
<1>7. /\ req'[c] = r /\ since'[c] = now /\ targets'[c] = TargetsOf(r) /\ next'[c] = 1
      /\ outs'[c] = <<>> /\ answer'[c] = early
      /\ pc'[c] = IF early = 0 THEN "check" ELSE "answered"
  BY <1>1, <1>2 DEF Set, TypeOK
<1>8. Asked(c)'
  <2>1. now' = now /\ now \in Nat
    BY <1>2 DEF World, TypeOK
  <2> QED
    BY <1>7, <2>1, Empty DEF Asked
<1>9. Accounted(c)'
  <2>1. posted' = posted /\ unsure' = unsure /\ DOMAIN outs'[c] = {}
    BY <1>1, <1>7, Empty
  <2>2. \A n \in Names : posted[c][n] \in Nat /\ unsure[c][n] \in Nat /\ ~KnownOK(c, n)'
    BY <1>2, <2>1 DEF TypeOK, KnownOK
  <2> QED
    BY <2>1, <2>2 DEF Accounted
<1>10. Placed(c)'
  <2>1. CASE early = 0
    <3>1. TargetsOf(r) # <<>> /\ ~(r.surface = "edit" /\ r.key \in ScopedKeys \cup MemberKeys)
      BY <2>1 DEF early
    <3>2. 1 \in 1 .. Len(TargetsOf(r)) /\ 1 .. 0 = {}
      BY <1>3, <3>1
    <3> QED
      BY <1>7, <2>1, <3>1, <3>2 DEF Placed, IsStatic, IsMember, Key
  <2>2. CASE early # 0
    <3>1. ~Own(c)'
      <4>1. /\ IsStatic(c)' <=> r.key \in ScopedKeys
            /\ Own(c)' => r.surface = "send" /\ r.valid /\ r.names = <<>> /\ OwnChat[r.key] # None
        BY <1>7 DEF IsStatic, Key, Own
      <4>2. Own(c)' => TargetsOf(r) = <<DefaultSendChat(r.key)>>
        BY <4>1, RequestTyped, DefaultAllowed DEF TargetsOf
      <4> QED
        BY <2>2, <4>1, <4>2 DEF early
    <3> QED
      BY <1>3, <1>7, <2>2, <3>1 DEF Placed, Refused
  <2> QED
    BY <2>1, <2>2
<1> QED
  BY <1>2, <1>4, <1>5, <1>6, <1>8, <1>9, <1>10, OneRequest DEF RequestOK

LEMMA AskOK == ASSUME IInv, NEW c \in Clients, Ask(c) PROVE IInv'
<1>1. /\ Asked(c) /\ Placed(c) /\ Accounted(c)
      /\ posted[c] \in [Names -> Nat] /\ unsure[c] \in [Names -> Nat]
  BY DEF IInv, TypeOK, RequestOK
<1>2. (\A i \in DOMAIN outs[c] : outs[c][i] # "ok") => \A n \in Names : posted[c][n] <= unsure[c][n]
  <2> SUFFICES ASSUME \A i \in DOMAIN outs[c] : outs[c][i] # "ok", NEW n \in Names
               PROVE  posted[c][n] <= unsure[c][n]
    OBVIOUS
  <2>1. ~KnownOK(c, n) /\ posted[c][n] <= unsure[c][n] + IF KnownOK(c, n) THEN 1 ELSE 0
    BY <1>1 DEF KnownOK, Accounted
  <2> QED
    BY <1>1, <2>1
<1>3. CASE \E surface \in Surfaces : Receive(c, surface)
  <2>1. PICK r \in Requests : Arrive(c, r)
    BY <1>3 DEF Receive
  <2>2. outs[c] = <<>>
    BY <1>1, <1>3 DEF Receive, Asked
  <2> QED
    BY <1>2, <2>1, <2>2, Empty, ArriveOK
<1>4. CASE Retry(c)
  <2>1. req[c] \in Requests /\ Arrive(c, req[c]) /\ answer[c] # 200
    BY <1>1, <1>4 DEF Retry, Asked
  <2>2. "ok" \notin ToSet(outs[c])
    BY <1>1, <1>4, <2>1, Empty, StatusOf DEF Retry, Placed, Finished, Refused
  <2> QED
    BY <1>2, <2>1, <2>2, ArriveOK DEF ToSet
<1> QED
  BY <1>3, <1>4 DEF Ask, Send, Alertmanager, Grafana, IncidentRelay, MattermostCreatePost,
                    MattermostUpdatePost, Surfaces

LEMMA PairAsked ==
  ASSUME IInv, NEW c \in Clients, pc[c] # "idle", NEW n \in NamedBy(c), IsMember(c),
         ChatOf[n] \in UUIDs, Sender(c, n) # Unresolved
  PROVE  Pair(c, n) \in Pairs
<1>1. bots \in BotSets /\ req[c] \in Requests /\ n \in ToSet(TargetsOf(req[c]))
  BY DEF IInv, TypeOK, RequestOK, Asked, NamedBy
<1> QED
  BY <1>1, PairsAssumption DEF PairsAssumption, Pair, Sender, Key, IsMember

(* The steps of a request on its way, and the types of what they assign.   *)
Posting(c) == /\ pc' = Set(pc, c, "posting")
              /\ UNCHANGED <<req, targets, next, outs, answer, tries, since>>

Progress(c) == \/ \E s \in Answers : Refuse(c, s)
               \/ Passed(c) \/ Phase(c, "deliver")
               \/ \E o \in Outcomes : Outcome(c, o)
               \/ Posting(c)

LEMMA Moved ==
  ASSUME IInv, NEW c \in Clients, Progress(c)
  PROVE  /\ pc' \in [Clients -> PCs] /\ next' \in [Clients -> Nat]
         /\ outs' \in [Clients -> Seq(Outcomes)] /\ answer' \in [Clients -> Answers]
         /\ UNCHANGED <<req, targets, tries, since>>
         /\ \A d \in Clients \ {c} : /\ pc'[d] = pc[d] /\ next'[d] = next[d]
                                     /\ outs'[d] = outs[d] /\ answer'[d] = answer[d]
<1>1. /\ pc \in [Clients -> PCs] /\ next \in [Clients -> Nat]
      /\ outs \in [Clients -> Seq(Outcomes)] /\ answer \in [Clients -> Answers]
  BY DEF IInv, TypeOK
<1>2. \A o \in Outcomes : Append(outs[c], o) \in Seq(Outcomes)
  <2>1. outs[c] \in Seq(Outcomes)
    BY <1>1
  <2> QED
    BY <2>1, AppendOutcome
<1>3. CASE \E s \in Answers : Refuse(c, s)
  BY <1>1, <1>3 DEF Refuse, Set, PCs
<1>4. CASE Posting(c)
  BY <1>1, <1>4 DEF Posting, Set, PCs
<1>5. CASE Phase(c, "deliver")
  BY <1>1, <1>5 DEF Phase, Set, PCs
<1>7. CASE Passed(c) /\ ~Phase(c, "deliver")
  <2>1. next[c] + 1 \in Nat
    BY <1>1
  <2>2. /\ next' = Set(next, c, next[c] + 1)
        /\ UNCHANGED <<pc, req, targets, outs, answer, tries, since>>
    BY <1>7 DEF Passed
  <2> QED
    BY <1>1, <2>1, <2>2 DEF Set
<1>6. CASE \E o \in Outcomes : Outcome(c, o)
  BY <1>1, <1>2, <1>6 DEF Outcome, Set, PCs
<1> QED
  BY <1>3, <1>4, <1>5, <1>6, <1>7 DEF Progress

(* ... and what a send may change beside it.                               *)
LEMMA Counts ==
  ASSUME IInv, NEW c \in Clients, Target(c) \in Names,
         posted' \in {posted, Reached(c)},
         unsure' \in {unsure, [unsure EXCEPT ![c][Target(c)] = @ + 1]}
  PROVE  /\ posted' \in [Clients -> [Names -> Nat]] /\ unsure' \in [Clients -> [Names -> Nat]]
         /\ \A d \in Clients \ {c} : posted'[d] = posted[d] /\ unsure'[d] = unsure[d]
<1>1. posted \in [Clients -> [Names -> Nat]] /\ unsure \in [Clients -> [Names -> Nat]]
  BY DEF IInv, TypeOK
<1> DEFINE t == Target(c)
<1>2. ASSUME NEW f \in [Clients -> [Names -> Nat]]
      PROVE  /\ [f EXCEPT ![c][t] = @ + 1] \in [Clients -> [Names -> Nat]]
             /\ \A d \in Clients \ {c} : [f EXCEPT ![c][t] = @ + 1][d] = f[d]
  <2>1. t \in Names /\ f[c] \in [Names -> Nat]
    OBVIOUS
  <2> HIDE DEF t
  <2>2. f[c][t] + 1 \in Nat
    BY <2>1
  <2>3. [f[c] EXCEPT ![t] = @ + 1] \in [Names -> Nat]
    BY <2>1, <2>2
  <2> QED
    BY <2>3
<1>3. Reached(c) \in {posted, [posted EXCEPT ![c][t] = @ + 1]}
  BY DEF Reached
<1> QED
  BY <1>1, <1>2, <1>3

LEMMA StepOK ==
  ASSUME IInv, World, NEW c \in Clients, RequestOK(c)', CacheOK', entry' \in [Pairs -> Entries],
         UNCHANGED moves, Progress(c),
         posted' \in [Clients -> [Names -> Nat]], unsure' \in [Clients -> [Names -> Nat]],
         \A d \in Clients \ {c} : posted'[d] = posted[d] /\ unsure'[d] = unsure[d]
  PROVE  IInv'
<1>1. /\ pc' \in [Clients -> PCs] /\ next' \in [Clients -> Nat]
      /\ outs' \in [Clients -> Seq(Outcomes)] /\ answer' \in [Clients -> Answers]
      /\ UNCHANGED <<req, targets, tries, since>>
      /\ \A d \in Clients \ {c} : /\ pc'[d] = pc[d] /\ next'[d] = next[d]
                                  /\ outs'[d] = outs[d] /\ answer'[d] = answer[d]
  BY Moved
<1>2. TypeOK'
  BY <1>1 DEF IInv, TypeOK, World
<1>3. \A d \in Clients \ {c} : Same(d)
  BY <1>1 DEF Same
<1> QED
  BY <1>2, <1>3, OneRequest

LEMMA CacheKept ==
  ASSUME IInv, World, UNCHANGED entry
  PROVE  entry' \in [Pairs -> Entries] /\ CacheOK'
  BY DEF IInv, TypeOK, World, CacheOK

LEMMA CountsKept ==
  ASSUME IInv, NEW c \in Clients, UNCHANGED <<posted, unsure>>
  PROVE  /\ posted' \in [Clients -> [Names -> Nat]] /\ unsure' \in [Clients -> [Names -> Nat]]
         /\ \A d \in Clients \ {c} : posted'[d] = posted[d] /\ unsure'[d] = unsure[d]
  BY DEF IInv, TypeOK

(* A step of a request, by what it may do to the request, the cache and    *)
(* the counts.                                                             *)
LEMMA UnscopedOK == ASSUME IInv, NEW c \in Clients, Unscoped(c) PROVE IInv'
<1>1. /\ World /\ pc[c] = "check" /\ ~IsStatic(c) /\ ~IsMember(c) /\ Phase(c, "deliver")
      /\ UNCHANGED <<posted, unsure, entry, moves>>
  BY DEF Unscoped, World, botxVars
<1>2. Asked(c) /\ Placed(c) /\ Accounted(c) /\ pc \in [Clients -> PCs] /\ next \in [Clients -> Nat]
      /\ targets[c] \in Seq(Names)
  BY DEF IInv, TypeOK, RequestOK
<1>3. /\ pc'[c] = "deliver" /\ next'[c] = 1 /\ outs'[c] = <<>>
      /\ UNCHANGED <<req, targets, outs, answer, tries, since>>
  BY <1>1, <1>2 DEF Phase, Set, Placed
<1>4. IsStatic(c)' = IsStatic(c) /\ IsMember(c)' = IsMember(c)
  BY <1>3 DEF IsStatic, IsMember, Key
<1>5. Asked(c)' /\ Accounted(c)'
  BY <1>1, <1>2, <1>3, <1>4 DEF Asked, Accounted, KnownOK, World
<1>6. AllFound(c)'
  BY <1>1, <1>4 DEF AllFound, Found
<1>7. Placed(c)'
  <2>1. Len(targets[c]) \in Nat /\ Len(outs'[c]) = 0
    BY <1>2, <1>3
  <2> QED
    BY <1>3, <1>6, <2>1 DEF Placed
<1> QED
  BY <1>1, <1>5, <1>7, CacheKept, CountsKept, StepOK DEF RequestOK, Progress

LEMMA InScopeOK == ASSUME IInv, NEW c \in Clients, InScope(c) PROVE IInv'
<1> DEFINE allowed == ChatOf[Target(c)] # Unresolved /\ ChatAllowed(Key(c), ChatOf[Target(c)])
<1>1. /\ World /\ pc[c] = "check" /\ IsStatic(c)
      /\ IF allowed THEN Passed(c) ELSE Refuse(c, 403)
      /\ UNCHANGED <<posted, unsure, entry, moves>>
  BY DEF InScope, World, botxVars
<1>2. /\ req[c] \in Requests /\ targets[c] = TargetsOf(req[c]) /\ outs[c] = <<>>
      /\ next[c] \in 1 .. Len(targets[c]) /\ req[c].surface # "edit"
  BY <1>1 DEF IInv, RequestOK, Asked, Placed
<1>3. RequestOK(c)'
  <2>1. CASE allowed
    <3>1. Found(c, Target(c))
      BY <1>1, <1>2, <2>1, KeyFacts DEF Found, ChatAllowed, IsStatic
    <3> QED
      BY <1>1, <2>1, <3>1, PassedOK
  <2>2. CASE ~allowed
    <3>1. ~Own(c)
      <4> SUFFICES ASSUME Own(c) PROVE FALSE
        OBVIOUS
      <4>1. targets[c] = <<DefaultSendChat(Key(c))>>
        BY <1>2, KeyFacts
      <4>2. next[c] = 1
        BY <1>2, <4>1
      <4>3. Target(c) = DefaultSendChat(Key(c))
        BY <4>1, <4>2 DEF Target
      <4> QED
        BY <1>2, <2>2, <4>3, KeyFacts
    <3> QED
      BY <1>1, <1>2, <2>2, <3>1, RefuseOK
  <2> QED
    BY <2>1, <2>2
<1>4. Progress(c)
  BY <1>1 DEF Progress, Answers
<1> QED
  BY <1>1, <1>3, <1>4, CacheKept, CountsKept, StepOK

LEMMA MembershipOK == ASSUME IInv, NEW c \in Clients, Membership(c) PROVE IInv'
<1> DEFINE n == Target(c)
<1> DEFINE p == Pair(c, n)
<1>1. /\ World /\ pc[c] = "check" /\ IsMember(c) /\ UNCHANGED <<posted, unsure, moves>>
      /\ \/ \E s \in {400, 403} : Refuse(c, s) /\ UNCHANGED entry
         \/ /\ ChatOf[n] \in UUIDs /\ Sender(c, n) # Unresolved
            /\ \/ Check(p, "yes") /\ Passed(c)
               \/ Check(p, "no") /\ Refuse(c, 403)
               \/ Check(p, "unavailable") /\ Refuse(c, 503)
  BY DEF Membership, World, botxVars
<1>2. /\ req[c] \in Requests /\ outs[c] = <<>> /\ next[c] \in 1 .. Len(targets[c])
      /\ req[c].surface # "edit" /\ targets[c] \in Seq(Names)
      /\ since[c] <= now /\ since[c] \in Nat /\ now \in Nat
  BY <1>1 DEF IInv, TypeOK, RequestOK, Asked, Placed
<1>3. n \in NamedBy(c) /\ ~IsStatic(c) /\ ~Own(c)
  <2>1. next[c] \in DOMAIN targets[c]
    BY <1>2
  <2> QED
    BY <1>1, <1>2, <2>1, KeyFacts DEF Target, NamedBy, ToSet
<1>4. CASE \E s \in {400, 403} : Refuse(c, s) /\ UNCHANGED entry
  <2>1. RequestOK(c)' /\ Progress(c)
    BY <1>1, <1>2, <1>3, <1>4, RefuseOK DEF Progress, Answers
  <2> QED
    BY <1>1, <1>4, <2>1, CacheKept, CountsKept, StepOK
<1>5. CASE /\ ChatOf[n] \in UUIDs /\ Sender(c, n) # Unresolved
           /\ \E result : /\ Check(p, result)
                          /\ \/ result = "yes" /\ Passed(c)
                             \/ \E s \in {403, 503} : Refuse(c, s)
  <2>1. p \in Pairs /\ lastIn[p] \in Int /\ PosTTL \in Nat
    <3>1. p \in Pairs
      BY <1>1, <1>3, <1>5, PairAsked
    <3> QED
      BY <3>1, PipelineAssumption DEF IInv, TypeOK, PipelineAssumption
  <2>2. PICK result : /\ Check(p, result)
                      /\ \/ result = "yes" /\ Passed(c)
                         \/ \E s \in {403, 503} : Refuse(c, s)
    BY <1>5
  <2>3. /\ entry' \in [Pairs -> Entries] /\ CacheOK'
        /\ result = "yes" => now < lastIn[p] + PosTTL
    <3> HIDE DEF p
    <3> QED
      BY <1>1, <2>1, <2>2, CheckStep
  <2>4. RequestOK(c)'
    <3>1. CASE result = "yes" /\ Passed(c)
      <4>1. since[c] < lastIn[p] + PosTTL
        <5> HIDE DEF p
        <5> QED
          BY <1>2, <2>1, <2>3, <3>1
      <4>2. Found(c, Target(c))
        BY <1>2, <1>3, <2>1, <4>1 DEF Found
      <4> QED
        BY <1>1, <3>1, <4>2, PassedOK
    <3>2. CASE \E s \in {403, 503} : Refuse(c, s)
      BY <1>1, <1>2, <1>3, <3>2, RefuseOK
    <3> QED
      BY <2>2, <3>1, <3>2
  <2>5. Progress(c)
    BY <2>2 DEF Progress, Answers
  <2> QED
    BY <1>1, <2>3, <2>4, <2>5, CountsKept, StepOK
<1> QED
  BY <1>1, <1>4, <1>5

(* The target being sent to.                                               *)
LEMMA AtTarget ==
  ASSUME IInv, NEW c \in Clients, pc[c] \in {"deliver", "posting"}, next[c] <= Len(targets[c])
  PROVE  /\ req[c] \in Requests /\ targets[c] = TargetsOf(req[c])
         /\ next[c] = Len(outs[c]) + 1 /\ Len(outs[c]) \in Nat /\ Len(targets[c]) \in Nat
         /\ Target(c) \in NamedBy(c) /\ Target(c) \in Names /\ Found(c, Target(c))
<1>1. /\ Asked(c) /\ Placed(c) /\ targets[c] \in Seq(Names) /\ outs[c] \in Seq(Outcomes)
  BY DEF IInv, TypeOK, RequestOK
<1>2. /\ next[c] = Len(outs[c]) + 1 /\ AllFound(c)
      /\ Len(outs[c]) \in Nat /\ Len(targets[c]) \in Nat /\ next[c] \in DOMAIN targets[c]
  BY <1>1 DEF Placed
<1> QED
  BY <1>1, <1>2 DEF Asked, AllFound, NamedBy, Target, ToSet

LEMMA MisaddressedOK == ASSUME IInv, NEW c \in Clients, Misaddressed(c) PROVE IInv'
<1>1. /\ World /\ pc[c] = "deliver" /\ next[c] <= Len(targets[c])
      /\ UNCHANGED <<posted, unsure, entry, moves>>
      /\ \/ req[c].surface \in {"mattermost", "edit"} /\ Refuse(c, 400)
         \/ Outcome(c, "failed")
  BY DEF Misaddressed, More, World, botxVars
<1>2. RequestOK(c)'
  <2>1. CASE req[c].surface \in {"mattermost", "edit"} /\ Refuse(c, 400)
    <3>1. Len(targets[c]) <= 1
      BY <1>1, <2>1, AtTarget, TargetsTyped
    <3>2. outs[c] = <<>>
      <4>1. Len(outs[c]) = 0 /\ outs[c] \in Seq(Outcomes)
        BY <1>1, <3>1, AtTarget DEF IInv, TypeOK
      <4> QED
        BY <4>1
    <3> QED
      BY <1>1, <2>1, <3>2, RefuseOK DEF Own
  <2>2. CASE Outcome(c, "failed")
    BY <1>1, <2>2, OutcomeOK DEF Outcomes
  <2> QED
    BY <1>1, <2>1, <2>2
<1>3. Progress(c)
  BY <1>1 DEF Progress, Answers, Outcomes
<1> QED
  BY <1>1, <1>2, <1>3, CacheKept, CountsKept, StepOK

(* The request to BotX begins.                                             *)
LEMMA PostingOK ==
  ASSUME IInv, World, NEW c \in Clients, More(c), Posting(c), UNCHANGED <<posted, unsure>>
  PROVE  RequestOK(c)'
<1>1. /\ Asked(c) /\ Placed(c) /\ Accounted(c) /\ pc \in [Clients -> PCs]
      /\ pc[c] = "deliver" /\ next[c] <= Len(targets[c])
  BY DEF IInv, TypeOK, RequestOK, More
<1>2. pc'[c] = "posting" /\ UNCHANGED <<req, targets, next, outs, answer, tries, since>>
  BY <1>1 DEF Posting, Set
<1>3. /\ \A n : Found(c, n) => Found(c, n)'
      /\ IsStatic(c)' = IsStatic(c) /\ IsMember(c)' = IsMember(c)
  BY <1>2, WorldLater, FoundStays
<1>4. AllFound(c)'
  BY <1>1, <1>2, <1>3 DEF Placed, AllFound, NamedBy
<1>5. Asked(c)' /\ Placed(c)' /\ Accounted(c)'
  BY <1>1, <1>2, <1>3, <1>4 DEF Asked, Placed, Accounted, KnownOK, World
<1> QED
  BY <1>5 DEF RequestOK

LEMMA DeliverOK == ASSUME IInv, NEW c \in Clients, Deliver(c) PROVE IInv'
<1> DEFINE p == Pair(c, Target(c))
<1>1. /\ World /\ More(c) /\ pc[c] = "deliver" /\ next[c] <= Len(targets[c])
      /\ UNCHANGED <<posted, unsure, moves>>
      /\ \/ ~IsMember(c) /\ Posting(c) /\ UNCHANGED entry
         \/ IsMember(c) /\ \E result : /\ Check(p, result)
                                      /\ \/ Posting(c)
                                         \/ \E o \in Outcomes \ {"ok"} : Outcome(c, o)
  BY DEF Deliver, More, Posting, World, botxVars, Outcomes
<1>2. entry' \in [Pairs -> Entries] /\ CacheOK'
  <2>1. CASE UNCHANGED entry
    BY <1>1, <2>1, CacheKept
  <2>2. CASE IsMember(c) /\ \E result : Check(p, result)
    <3>1. p \in Pairs
      BY <1>1, <2>2, AtTarget DEF Found
    <3> HIDE DEF p
    <3> QED
      BY <1>1, <2>2, <3>1, CheckStep
  <2> QED
    BY <1>1, <2>1, <2>2
<1>3. CASE Posting(c)
  BY <1>1, <1>2, <1>3, PostingOK, CountsKept, StepOK DEF Progress
<1>4. CASE IsMember(c) /\ \E o \in Outcomes \ {"ok"} : Outcome(c, o)
  <2>1. PICK o \in Outcomes \ {"ok"} : Outcome(c, o)
    BY <1>4
  <2>2. RequestOK(c)'
    BY <1>1, <1>4, <2>1, OutcomeOK
  <2> QED
    BY <1>1, <1>2, <2>1, <2>2, CountsKept, StepOK DEF Progress
<1> QED
  BY <1>1, <1>3, <1>4

LEMMA PostedOK ==
  ASSUME IInv, NEW c \in Clients, Delivered(c) \/ Failed(c)
  PROVE  IInv'
<1>1. /\ World /\ pc[c] = "posting" /\ UNCHANGED <<entry, moves>>
      /\ \E o \in {"ok", "failed"} :
           /\ Outcome(c, o)
           /\ \/ o # "ok" /\ UNCHANGED <<posted, unsure>>
              \/ o = "ok" /\ posted' = Reached(c) /\ UNCHANGED unsure
              \/ /\ o # "ok" /\ posted' = Reached(c)
                 /\ unsure' = [unsure EXCEPT ![c][Target(c)] = @ + 1]
  BY DEF Delivered, Failed, World, botxVars
<1>2. next[c] <= Len(targets[c])
  BY <1>1 DEF IInv, RequestOK, Placed
<1>3. RequestOK(c)'
  BY <1>1, <1>2, OutcomeOK DEF Outcomes
<1>4. Target(c) \in Names
  BY <1>1, <1>2, AtTarget
<1>5. /\ posted' \in [Clients -> [Names -> Nat]] /\ unsure' \in [Clients -> [Names -> Nat]]
      /\ \A d \in Clients \ {c} : posted'[d] = posted[d] /\ unsure'[d] = unsure[d]
  BY <1>1, <1>4, Counts
<1>6. Progress(c)
  BY <1>1 DEF Progress, Outcomes
<1> QED
  BY <1>1, <1>3, <1>5, <1>6, CacheKept, StepOK

LEMMA RespondOK == ASSUME IInv, NEW c \in Clients, Respond(c) PROVE IInv'
<1>1. /\ World /\ pc[c] = "deliver" /\ next[c] > Len(targets[c]) /\ Refuse(c, Status(outs[c]))
      /\ UNCHANGED <<posted, unsure, entry, moves>>
  BY DEF Respond, World, botxVars
<1>2. /\ Asked(c) /\ Placed(c) /\ Accounted(c) /\ pc \in [Clients -> PCs]
      /\ answer \in [Clients -> Answers] /\ outs[c] \in Seq(Outcomes) /\ targets[c] \in Seq(Names)
  BY DEF IInv, TypeOK, RequestOK
<1>3. /\ pc'[c] = "answered" /\ answer'[c] = Status(outs[c])
      /\ UNCHANGED <<req, targets, next, outs, tries, since>>
  BY <1>1, <1>2 DEF Refuse, Set
<1>4. Len(outs[c]) = Len(targets[c]) /\ AllFound(c)
  <2>1. Len(outs[c]) \in Nat /\ Len(targets[c]) \in Nat
    BY <1>2
  <2> QED
    BY <1>1, <1>2, <2>1 DEF Placed
<1>5. /\ \A n : Found(c, n) => Found(c, n)'
      /\ IsStatic(c)' = IsStatic(c) /\ IsMember(c)' = IsMember(c)
  BY <1>1, <1>3, WorldLater, FoundStays
<1>6. Finished(c)'
  BY <1>3, <1>4, <1>5 DEF Finished, AllFound, NamedBy
<1>7. Asked(c)' /\ Placed(c)' /\ Accounted(c)'
  BY <1>1, <1>2, <1>3, <1>5, <1>6 DEF Asked, Placed, Accounted, KnownOK, World
<1>8. Progress(c)
  BY <1>1, StatusOf DEF Progress, Answers
<1> QED
  BY <1>1, <1>7, <1>8, CacheKept, CountsKept, StepOK DEF RequestOK

(* Steps of the world.                                                     *)
LEMMA WorldStep ==
  ASSUME IInv, Later, TypeOK', CacheOK', UNCHANGED <<reqVars, posted, unsure>>
  PROVE  IInv'
<1>1. \A c \in Clients : RequestOK(c)'
  BY Kept DEF Same, reqVars
<1> QED
  BY <1>1 DEF IInv

LEMMA MoveOK == ASSUME IInv, NEW p \in Pairs, Move(p) PROVE IInv'
<1>1. /\ TypeOK /\ CacheOK /\ moves' = moves + 1
      /\ member' = [member EXCEPT ![p] = ~@]
      /\ lastIn' = [lastIn EXCEPT ![p] = IF member[p] THEN @ ELSE now]
      /\ UNCHANGED <<bots, reqVars, posted, unsure, entry, now>>
  BY DEF IInv, Move
<1>2. PosTTL \in Nat /\ NegTTL \in Nat
  BY PipelineAssumption DEF PipelineAssumption
<1>3. TypeOK'
  BY <1>1 DEF TypeOK, reqVars
<1>4. \A q \in Pairs :
        /\ member[q] \in BOOLEAN /\ entry[q].until \in Nat
        /\ lastIn[q] \in Int /\ lastIn'[q] \in Int /\ lastIn[q] <= lastIn'[q] /\ lastIn'[q] <= now
        /\ entry[q].ans = "yes" => entry[q].until <= lastIn[q] + PosTTL
        /\ member'[q] => lastIn'[q] = now
  BY <1>1 DEF TypeOK, CacheOK, Entries
<1>5. now \in Nat /\ now' = now /\ bots' = bots /\ entry' = entry
  BY <1>1 DEF TypeOK
<1>6. Later
  BY <1>4, <1>5 DEF Later
<1>7. CacheOK'
  BY <1>2, <1>4, <1>5 DEF CacheOK
<1> QED
  BY <1>1, <1>3, <1>6, <1>7, WorldStep

LEMMA TickOK == ASSUME IInv, Tick PROVE IInv'
<1>1. /\ TypeOK /\ CacheOK /\ now' = now + 1 /\ now \in Nat
      /\ lastIn' = [p \in Pairs |-> IF member[p] THEN now + 1 ELSE lastIn[p]]
      /\ UNCHANGED <<bots, reqVars, posted, unsure, entry, member, moves>>
  BY DEF IInv, TypeOK, Tick
<1>2. PosTTL \in Nat
  BY PipelineAssumption DEF PipelineAssumption
<1>3. TypeOK'
  BY <1>1 DEF TypeOK, reqVars
<1>4. \A q \in Pairs :
        /\ entry[q].until \in Nat /\ lastIn[q] \in Int /\ lastIn'[q] \in Int
        /\ lastIn[q] <= lastIn'[q] /\ lastIn'[q] <= now'
        /\ entry[q].ans = "yes" => entry[q].until <= lastIn[q] + PosTTL
        /\ member[q] => lastIn'[q] = now'
  BY <1>1 DEF TypeOK, CacheOK, Entries
<1>5. Later
  BY <1>1, <1>4 DEF Later
<1>6. CacheOK'
  BY <1>1, <1>2, <1>4 DEF CacheOK
<1> QED
  BY <1>1, <1>3, <1>5, <1>6, WorldStep

LEMMA StutterOK == ASSUME IInv, UNCHANGED vars PROVE IInv'
<1>1. Later
  BY DEF Later, vars, botxVars, IInv, TypeOK
<1>2. TypeOK' /\ CacheOK'
  BY DEF IInv, TypeOK, CacheOK, vars, reqVars, botxVars
<1> QED
  BY <1>1, <1>2, WorldStep DEF vars

LEMMA NextOK == IInv /\ [Next]_vars => IInv'
<1> SUFFICES ASSUME IInv, [Next]_vars PROVE IInv'
  OBVIOUS
<1>1. ASSUME NEW c \in Clients, Serve(c) PROVE IInv'
  BY <1>1, UnscopedOK, InScopeOK, MembershipOK, MisaddressedOK, DeliverOK, PostedOK, RespondOK
     DEF Serve
<1> QED
  BY <1>1, AskOK, MoveOK, TickOK, StutterOK DEF Next

(* The inductive invariant holds throughout.                               *)
THEOREM Invariance == Spec => []IInv
<1> QED
  BY InitOK, NextOK, PTL DEF Spec

(* AllCheckedFirst: no chat of a request is sent to before every chat it   *)
(* names was found to be the key's, in its list or by a membership not     *)
(* older than one lifetime (authorizeTargets), and no key with a scope     *)
(* edits a post.                                                           *)
THEOREM CheckedFirst == Spec => []AllCheckedFirst
<1>1. IInv => AllCheckedFirst
  BY IInvImplies
<1> QED
  BY <1>1, Invariance, PTL

(* AnswerTruthful: 200 is answered exactly when a send succeeded, every    *)
(* target is reported, and one reported delivered has the message (fanout, *)
(* writeMultiSend).                                                        *)
THEOREM Truthful == Spec => []AnswerTruthful
<1>1. IInv => AnswerTruthful
  BY IInvImplies
<1> QED
  BY <1>1, Invariance, PTL

(* RetryHarmless: however often a client repeats what was answered 502 or  *)
(* 503, a chat has the message at most once more than there were sends to  *)
(* it whose outcome was never learned.                                     *)
THEOREM Harmless == Spec => []RetryHarmless
<1>1. IInv => RetryHarmless
  BY IInvImplies
<1> QED
  BY <1>1, Invariance, PTL

(* OwnChatReached: what a key with one chat of its own sends without       *)
(* naming a chat is never refused (defaultSendChat).                       *)
THEOREM OwnReached == Spec => []OwnChatReached
<1>1. IInv => OwnChatReached
  BY IInvImplies
<1> QED
  BY <1>1, Invariance, PTL

(* A send begins with the gate's answer.                                   *)
LEMMA GateStep ==
  ASSUME IInv, [Next]_vars, NEW c \in Clients, pc[c] = "deliver", pc'[c] = "posting", IsMember(c)
  PROVE  now < lastIn[Pair(c, Target(c))] + PosTTL
<1>1. pc \in [Clients -> PCs]
  BY DEF IInv, TypeOK
<1>2. \A d \in Clients : ~Ask(d)
  BY <1>1 DEF Ask, Send, Alertmanager, Grafana, IncidentRelay, MattermostCreatePost,
              MattermostUpdatePost, Receive, Retry, Arrive, Set
<1>3. PICK d \in Clients : Serve(d)
  BY <1>2 DEF Next, Move, Tick, vars, reqVars
<1>4. Deliver(d)
  BY <1>1, <1>3 DEF Serve, Unscoped, InScope, Membership, Misaddressed, Delivered, Failed, Respond,
                    Passed, Phase, Refuse, Outcome, Set
<1>5. d = c
  BY <1>1, <1>4 DEF Deliver, Outcome, Set
<1>6. /\ World /\ More(c)
      /\ \/ Check(Pair(c, Target(c)), "yes")
         \/ \E o \in {"denied", "unavailable"} : Outcome(c, o)
  BY <1>4, <1>5 DEF Deliver, World, botxVars
<1>7. Check(Pair(c, Target(c)), "yes")
  BY <1>1, <1>6 DEF Outcome, Set
<1>8. Pair(c, Target(c)) \in Pairs
  BY <1>6, AtTarget DEF More, Found
<1> DEFINE p == Pair(c, Target(c))
<1> HIDE DEF p
<1>9. p \in Pairs /\ Check(p, "yes")
  BY <1>7, <1>8 DEF p
<1>10. now < lastIn[p] + PosTTL
  BY <1>6, <1>9, CheckStep
<1> QED
  BY <1>10 DEF p

(* EachSendChecked: each send of a key scoped by membership begins within  *)
(* one lifetime of a moment the bot was in the chat (membershipGate).      *)
THEOREM SendsChecked == Spec => EachSendChecked
<1>1. IInv /\ [Next]_vars =>
        [\A c \in Clients :
           pc[c] = "deliver" /\ pc'[c] = "posting" /\ IsMember(c)
           => now < lastIn[Pair(c, Target(c))] + PosTTL]_vars
  BY GateStep
<1> QED
  BY <1>1, Invariance, PTL DEF Spec, EachSendChecked
-----------------------------------------------------------------------------
(* ServerRun.                                                              *)

Requested == Counted /\ Awaited /\ \A r \in Callbacks : Followed(r)
Living    == Drained /\ Joined /\ CleanReturn

LEMMA RunInitOK == RunInit => RunInv
<1> SUFFICES ASSUME RunInit PROVE RunInv
  OBVIOUS
<1>1. CertTypeOK
  BY ReloaderAssumption DEF RunInit, CertInit, CertTypeOK, Files, NoFiles, Versions
<1>2. RunTypeOK
  <2>1. <<>> \in Seq(DOMAIN Rules)
    OBVIOUS
  <2> QED
    BY <2>1 DEF RunInit, RunTypeOK
<1>3. \A r \in Callbacks : Range(ran[r]) = {}
  BY DEF RunInit, Range
<1>4. Counted /\ Awaited /\ \A r \in Callbacks : Followed(r)
  BY <1>3 DEF RunInit, Jobs, Counted, Awaited, Followed
<1>5. Drained /\ Joined /\ CleanReturn
  BY DEF RunInit, Drained, Joined, CleanReturn
<1> QED
  BY <1>1, <1>2, <1>4, <1>5 DEF RunInv

(* The certificate.                                                        *)
LEMMA CertStep ==
  ASSUME CertTypeOK, UNCHANGED certVars \/ Rotate \/ BeginReload \/ Reload \/ EndReload
  PROVE  CertTypeOK'
<1> USE ReloaderAssumption DEF CertTypeOK, Files, Versions
<1>1. CASE UNCHANGED certVars
  BY <1>1 DEF certVars
<1>2. CASE Rotate
  BY <1>2 DEF Rotate
<1>3. CASE BeginReload
  BY <1>3 DEF BeginReload
<1>4. CASE ReadCert
  BY <1>4 DEF ReadCert, Read, ReloadFails
<1>5. CASE ReadKey
  BY <1>5 DEF ReadKey, Read, ReloadFails
<1>6. CASE ReadAgain
  <2>1. CASE Install /\ UNCHANGED <<disk, attempt, buf>>
    BY <2>1 DEF Install
  <2> QED
    BY <1>6, <2>1 DEF ReadAgain, ReloadFails
<1>7. CASE EndReload
  BY <1>7 DEF EndReload
<1> QED
  BY <1>1, <1>2, <1>3, <1>4, <1>5, <1>6, <1>7 DEF Reload

LEMMA CertOK ==
  ASSUME CertTypeOK, [RunNext]_serverVars
  PROVE  CertTypeOK'
<1>1. UNCHANGED certVars \/ Rotate \/ BeginReload \/ Reload \/ EndReload
  <2>1. CASE Run
    BY <2>1 DEF Run, BeginLoad, Loaded, LoadFailed, Listen, TakeServeError, BeginShutdown,
                EndShutdown, EndWait, JoinServe, JoinPoller
  <2>2. CASE ServeFails \/ ServeReturns \/ WaiterStep \/ Reading \/ ReloadTick \/ EndTick \/ PollerStops
    BY <2>2 DEF ServeFails, ServeReturns, WaiterStep, Reading, ReloadTick, EndTick, PollerStops
  <2>3. CASE EndHandler
    BY <2>3 DEF EndHandler, EndSync, EndAsync
  <2>4. CASE \E r \in Callbacks : Request(r) \/ CloseNew(r)
    BY <2>4 DEF Request, Accept, Begin, ClientGone, StartHandler, Answer, CloseNew
  <2>5. CASE Signal \/ TimeUp \/ RotateFiles
    BY <2>5 DEF Signal, TimeUp, RotateFiles
  <2>6. CASE UNCHANGED serverVars
    BY <2>6 DEF serverVars
  <2> QED
    BY <2>1, <2>2, <2>3, <2>4, <2>5, <2>6 DEF RunNext
<1> QED
  BY <1>1, CertStep

LEMMA DueRule ==
  ASSUME NEW r, NEW i \in Due(r)
  PROVE  /\ i \in DOMAIN Rules /\ i \in Nat /\ i \in Rest(r) /\ i \in Todo(ask[r])
         /\ handler[<<r, i>>] = "none"
         /\ i >= at[r] /\ \A k \in Rest(r) : i <= k
<1>1. i \in DOMAIN Rules /\ i \in Rest(r) /\ i \in Todo(ask[r]) /\ i >= at[r]
  BY DEF Due, Rest, Todo, Route
<1>2. DOMAIN Rules \subseteq Nat
  BY RunAssumption
<1> QED
  BY <1>1, <1>2 DEF Due

LEMMA StartType ==
  ASSUME RunTypeOK, NEW r \in Callbacks, StartHandler(r)
  PROVE  RunTypeOK'
<1>1. PICK i \in Due(r) :
        /\ handler' = [handler EXCEPT ![<<r, i>>] = "running"]
        /\ ran' = [ran EXCEPT ![r] = Append(@, i)]
        /\ wg' = IF Rules[i].async THEN wg \cup {<<r, i>>} ELSE wg
        /\ at' = IF Rules[i].async THEN [at EXCEPT ![r] = i + 1] ELSE at
  BY DEF StartHandler
<1>2. i \in DOMAIN Rules /\ i \in Nat /\ <<r, i>> \in Jobs
  BY DueRule DEF Jobs
<1>3. Append(ran[r], i) \in Seq(DOMAIN Rules)
  BY <1>2 DEF RunTypeOK
<1>4. ran' \in [Callbacks -> Seq(DOMAIN Rules)]
  BY <1>1, <1>3 DEF RunTypeOK
<1>5. at' \in [Callbacks -> Nat]
  BY <1>1, <1>2 DEF RunTypeOK
<1>6. wg' \subseteq Jobs
  BY <1>1, <1>2 DEF RunTypeOK
<1>7. handler' \in [Jobs -> {"none", "running"} \cup Endings]
  BY <1>1, <1>2 DEF RunTypeOK
<1>8. UNCHANGED <<runVars, cbCancelled, conn, ask, status>>
  BY DEF StartHandler
<1> QED
  BY <1>4, <1>5, <1>6, <1>7, <1>8 DEF RunTypeOK, runVars

LEMMA RequestType ==
  ASSUME RunTypeOK, NEW r \in Callbacks, Request(r) \/ CloseNew(r)
  PROVE  RunTypeOK'
<1>1. CASE Accept(r)
  BY <1>1 DEF Accept, RunTypeOK, runVars
<1>2. CASE Begin(r)
  BY <1>2 DEF Begin, RunTypeOK, runVars
<1>3. CASE ClientGone(r)
  BY <1>3 DEF ClientGone, RunTypeOK, runVars
<1>4. CASE Answer(r)
  <2>1. Accepted(ask[r]) \in {200, 202} /\ Refusal(ask[r]) \in {0, 400, 401, 403}
    BY DEF Accepted, Refusal
  <2> QED
    BY <1>4, <2>1 DEF Answer, RunTypeOK, runVars
<1>5. CASE CloseNew(r)
  BY <1>5 DEF CloseNew, RunTypeOK, runVars
<1> QED
  BY <1>1, <1>2, <1>3, <1>4, <1>5, StartType DEF Request

LEMMA EndType ==
  ASSUME RunTypeOK, NEW j \in Jobs, NEW how \in Endings, EndSync(j, how) \/ EndAsync(j, how)
  PROVE  RunTypeOK'
<1>1. j[1] \in Callbacks /\ j[2] + 1 \in Nat
  BY RunAssumption DEF Jobs
<1>2. CASE EndSync(j, how)
  <2>1. handler' \in [Jobs -> {"none", "running"} \cup Endings]
    BY <1>2 DEF EndSync, Ends, RunTypeOK
  <2>2. /\ conn' \in [Callbacks -> {"none", "new", "active", "orphan", "answered", "aborted", "closed"}]
        /\ at' \in [Callbacks -> Nat]
    BY <1>1, <1>2 DEF EndSync, RunTypeOK
  <2> QED
    BY <1>2, <2>1, <2>2 DEF EndSync, RunTypeOK, runVars
<1>3. CASE EndAsync(j, how)
  BY <1>3 DEF EndAsync, Ends, RunTypeOK, callbackVars
<1> QED
  BY <1>2, <1>3

LEMMA RunTypeStep ==
  ASSUME RunTypeOK, [RunNext]_serverVars
  PROVE  RunTypeOK'
<1>1. CASE Run
  <2> USE DEF RunTypeOK, runVars, others, callbackVars
  <2>1. CASE BeginLoad
    BY <2>1 DEF BeginLoad
  <2>2. CASE Loaded
    BY <2>2 DEF Loaded
  <2>3. CASE LoadFailed
    BY <2>3 DEF LoadFailed, Return
  <2>4. CASE Listen
    <3>1. CASE Return("error")
      BY <2>4, <3>1 DEF Listen, Return
    <3>2. CASE phase' = "serving"
      BY <2>4, <3>2 DEF Listen, Return
    <3> QED
      BY <2>4, <3>1, <3>2 DEF Listen
  <2>5. CASE TakeServeError
    BY <2>5 DEF TakeServeError
  <2>6. CASE BeginShutdown
    BY <2>6 DEF BeginShutdown
  <2>7. CASE EndShutdown
    BY <2>7 DEF EndShutdown
  <2>8. CASE EndWait
    BY <2>8 DEF EndWait
  <2>9. CASE JoinServe
    BY <2>9 DEF JoinServe
  <2>10. CASE JoinPoller
    BY <2>10 DEF JoinPoller, Return
  <2> QED
    BY <1>1, <2>1, <2>2, <2>3, <2>4, <2>5, <2>6, <2>7, <2>8, <2>9, <2>10 DEF Run
<1>2. CASE ServeFails \/ ServeReturns \/ WaiterStep \/ Reading \/ ReloadTick \/ EndTick \/ PollerStops
  <2> USE DEF RunTypeOK, runVars, others, callbackVars
  <2>1. CASE ServeFails
    BY <2>1 DEF ServeFails
  <2>2. CASE ServeReturns
    BY <2>2 DEF ServeReturns
  <2>3. CASE WaiterStep
    BY <2>3 DEF WaiterStep
  <2>4. CASE Reading \/ ReloadTick \/ EndTick
    <3>1. UNCHANGED <<runVars, cbCancelled, wg, others>>
      BY <2>4 DEF Reading, ReloadTick, EndTick
    <3> QED
      BY <3>1
  <2>5. CASE PollerStops
    BY <2>5 DEF PollerStops
  <2> QED
    BY <1>2, <2>1, <2>2, <2>3, <2>4, <2>5
<1>3. CASE EndHandler
  BY <1>3, EndType DEF EndHandler
<1>4. CASE \E r \in Callbacks : Request(r) \/ CloseNew(r)
  BY <1>4, RequestType
<1>5. CASE Signal \/ TimeUp \/ RotateFiles
  <2> USE DEF RunTypeOK, runVars, others, callbackVars
  <2>1. CASE Signal
    BY <2>1 DEF Signal
  <2>2. CASE TimeUp
    BY <2>2 DEF TimeUp
  <2>3. CASE RotateFiles
    BY <2>3 DEF RotateFiles
  <2> QED
    BY <1>5, <2>1, <2>2, <2>3
<1>6. CASE UNCHANGED serverVars
  BY <1>6 DEF serverVars, RunTypeOK, runVars, callbackVars
<1> QED
  BY <1>1, <1>2, <1>3, <1>4, <1>5, <1>6 DEF RunNext

(* Requests: what happens elsewhere leaves them alone, and what happens to *)
(* one leaves the others alone.                                            *)
LEMMA FollowedFrame ==
  ASSUME NEW r, Followed(r),
         conn'[r] = conn[r], ask'[r] = ask[r], status'[r] = status[r], at'[r] = at[r],
         ran'[r] = ran[r], \A i \in DOMAIN Rules : handler'[<<r, i>>] = handler[<<r, i>>],
         cbCancelled => cbCancelled'
  PROVE  Followed(r)'
<1>1. Rest(r)' = Rest(r)
  BY DEF Rest
<1>2. Range(ran[r])' = Range(ran[r])
  BY DEF Range
<1>3. ask[r] # <<>> => Range(ran[r]) \subseteq DOMAIN Rules
  BY DEF Followed, Loop, Todo, Route
<1>4. ask[r] # <<>> => Loop(r)'
  <2> SUFFICES ASSUME ask[r] # <<>> PROVE Loop(r)'
    OBVIOUS
  <2>1. Loop(r)
    BY DEF Followed
  <2> QED
    BY <1>1, <1>2, <1>3, <2>1 DEF Loop
<1> QED
  BY <1>2, <1>4 DEF Followed

LEMMA RequestedFrame ==
  ASSUME Requested, UNCHANGED <<wg, others>>, cbCancelled => cbCancelled'
  PROVE  Requested'
<1>1. UNCHANGED <<conn, ask, status, at, ran, handler>>
  BY DEF others, callbackVars
<1>2. \A r \in Callbacks : Followed(r)'
  BY <1>1, FollowedFrame DEF Requested
<1>3. Counted'
  BY <1>1 DEF Requested, Counted
<1>4. Awaited'
  BY <1>1 DEF Requested, Awaited, Handling
<1> QED
  BY <1>2, <1>3, <1>4 DEF Requested

(* An awaited handler of a request is the one its loop has come to.        *)
LEMMA RunningOne ==
  ASSUME RunTypeOK, Requested, NEW r \in Callbacks, NEW i \in DOMAIN Rules,
         handler[<<r, i>>] = "running", ~Rules[i].async
  PROVE  /\ Handling(r) /\ ask[r] # <<>> /\ Loop(r)
         /\ i \in Range(ran[r]) /\ i \in Rest(r) /\ \A k \in Rest(r) : i <= k
<1>1. i \in Range(ran[r])
  BY DEF Requested, Followed
<1>2. ran[r] # <<>>
  BY <1>1 DEF Range
<1>3. ask[r] # <<>> /\ Loop(r)
  BY <1>2 DEF Requested, Followed
<1>4. Handling(r)
  BY DEF Requested, Awaited, Jobs
<1>5. i \in Nat /\ at[r] \in Nat
  BY RunAssumption DEF RunTypeOK
<1>6. ~ (i < at[r]) /\ i \in Todo(ask[r])
  BY <1>1, <1>3 DEF Loop
<1> QED
  BY <1>1, <1>3, <1>4, <1>5, <1>6 DEF Loop, Rest

LEMMA Appended ==
  ASSUME NEW S, NEW s \in Seq(S), NEW e \in S
  PROVE  /\ Range(Append(s, e)) = Range(s) \cup {e}
         /\ DOMAIN Append(s, e) = DOMAIN s \cup {Len(s) + 1}
         /\ \A a \in DOMAIN s : Append(s, e)[a] = s[a] /\ a < Len(s) + 1 /\ s[a] \in Range(s)
         /\ Append(s, e)[Len(s) + 1] = e
<1> DEFINE t == Append(s, e)
<1>1. /\ t \in Seq(S) /\ Len(t) = Len(s) + 1 /\ Len(s) \in Nat
      /\ \A i \in 1 .. Len(s) : t[i] = s[i]
      /\ t[Len(s) + 1] = e
  OBVIOUS
<1>2. DOMAIN s = 1 .. Len(s) /\ DOMAIN t = 1 .. Len(s) + 1
  BY <1>1
<1> HIDE DEF t
<1>3. Range(t) = Range(s) \cup {e}
  <2>1. ASSUME NEW x \in Range(t) PROVE x \in Range(s) \cup {e}
    BY <1>1, <1>2, <2>1 DEF Range
  <2>2. ASSUME NEW x \in Range(s) \cup {e} PROVE x \in Range(t)
    BY <1>1, <1>2, <2>2 DEF Range
  <2> QED
    BY <2>1, <2>2
<1>4. \A a \in DOMAIN s : s[a] \in Range(s)
  BY DEF Range
<1> QED
  BY <1>1, <1>2, <1>3, <1>4 DEF t

LEMMA StartFollowed ==
  ASSUME RunTypeOK, Requested, NEW r \in Callbacks, StartHandler(r)
  PROVE  Requested'
<1>1. PICK i \in Due(r) :
        /\ handler' = [handler EXCEPT ![<<r, i>>] = "running"]
        /\ ran' = [ran EXCEPT ![r] = Append(@, i)]
        /\ wg' = IF Rules[i].async THEN wg \cup {<<r, i>>} ELSE wg
        /\ at' = IF Rules[i].async THEN [at EXCEPT ![r] = i + 1] ELSE at
  BY DEF StartHandler
<1>2. /\ i \in DOMAIN Rules /\ i \in Nat /\ i \in Rest(r) /\ i \in Todo(ask[r])
      /\ handler[<<r, i>>] = "none" /\ i >= at[r] /\ \A k \in Rest(r) : i <= k
  BY DueRule
<1>3. Handling(r) /\ UNCHANGED <<conn, ask, status, cbCancelled>>
  BY DEF StartHandler
<1>4. ask[r] # <<>> /\ Loop(r)
  BY <1>3 DEF Requested, Followed, Handling
<1>5. ran[r] \in Seq(DOMAIN Rules) /\ at[r] \in Nat /\ <<r, i>> \in Jobs
  BY <1>2 DEF RunTypeOK, Jobs
<1>6. DOMAIN Rules \subseteq Nat /\ Range(ran[r]) \subseteq DOMAIN Rules
  BY <1>4, RunAssumption DEF Loop, Todo, Route
<1>7. \A k \in Range(ran[r]) : k \in Nat /\ k < at[r] /\ k < i
  <2> SUFFICES ASSUME NEW k \in Range(ran[r]) PROVE k \in Nat /\ k < at[r] /\ k < i
    OBVIOUS
  <2>1. k \in Nat /\ k \in Todo(ask[r]) /\ handler[<<r, k>>] # "none"
    BY <1>4, <1>6 DEF Loop
  <2>2. ASSUME k >= at[r] PROVE FALSE
    <3>1. k \in Rest(r) /\ k <= i
      BY <1>2, <1>4, <2>1, <2>2 DEF Loop, Rest
    <3> QED
      BY <1>2, <2>1, <3>1
  <2> QED
    BY <1>2, <1>5, <2>1, <2>2
<1>8. /\ handler'[<<r, i>>] = "running"
      /\ \A q \in Callbacks, k \in DOMAIN Rules : <<q, k>> # <<r, i>> => handler'[<<q, k>>] = handler[<<q, k>>]
  BY <1>1, <1>5 DEF RunTypeOK, Jobs
<1>9. ran'[r] = Append(ran[r], i) /\ at'[r] = IF Rules[i].async THEN i + 1 ELSE at[r]
  BY <1>1 DEF RunTypeOK
<1>10. Range(ran'[r]) = Range(ran[r]) \cup {i}
  BY <1>2, <1>5, <1>9, Appended
<1>11. Loop(r)'
  <2>1. Range(ran'[r]) \subseteq Todo(ask[r])
    BY <1>2, <1>4, <1>10 DEF Loop
  <2>2. \A a, b \in DOMAIN ran'[r] : a < b => ran'[r][a] < ran'[r][b]
    <3>1. /\ DOMAIN ran'[r] = DOMAIN ran[r] \cup {Len(ran[r]) + 1}
          /\ \A a \in DOMAIN ran[r] :
               ran'[r][a] = ran[r][a] /\ a < Len(ran[r]) + 1 /\ ran[r][a] \in Range(ran[r])
          /\ ran'[r][Len(ran[r]) + 1] = i
      BY <1>2, <1>5, <1>9, Appended
    <3>2. \A a, b \in DOMAIN ran[r] : a < b => ran[r][a] < ran[r][b]
      BY <1>4 DEF Loop
    <3>3. Len(ran[r]) \in Nat /\ DOMAIN ran[r] \subseteq Nat
      BY <1>5
    <3> HIDE <1>9, <1>10
    <3>4. SUFFICES ASSUME NEW a \in DOMAIN ran'[r], NEW b \in DOMAIN ran'[r], a < b
                   PROVE  ran'[r][a] < ran'[r][b]
      OBVIOUS
    <3>5. a \in DOMAIN ran[r]
      BY <3>1, <3>3, <3>4
    <3>6. CASE b \in DOMAIN ran[r]
      BY <3>1, <3>2, <3>4, <3>5, <3>6
    <3>7. CASE b = Len(ran[r]) + 1
      BY <1>7, <3>1, <3>5, <3>7
    <3> QED
      BY <3>1, <3>6, <3>7
  <2>3. \A k \in Todo(ask[r]) : k < at'[r] => k \in Range(ran'[r])
    <3> SUFFICES ASSUME NEW k \in Todo(ask[r]), k < at'[r] PROVE k \in Range(ran'[r])
      OBVIOUS
    <3>1. k \in Nat
      BY <1>6 DEF Todo, Route
    <3>2. CASE k < at[r]
      BY <1>4, <1>10, <3>2 DEF Loop
    <3>3. CASE k >= at[r]
      <4>1. k \in Rest(r) /\ i <= k
        BY <1>2, <3>3 DEF Rest
      <4>2. k = i
        BY <1>2, <1>5, <1>9, <3>1, <3>3, <4>1
      <4> QED
        BY <1>10, <4>2
    <3> QED
      BY <1>5, <3>1, <3>2, <3>3
  <2>4. ASSUME NEW k \in Range(ran'[r])
        PROVE  /\ handler'[<<r, k>>] # "none"
               /\ k >= at'[r] => ~Rules[k].async /\ \A m \in Rest(r)' : k <= m
               /\ k < at'[r] /\ handler'[<<r, k>>] = "running" => Rules[k].async
               /\ Rules[k].async /\ handler'[<<r, k>>] = "stopped" => cbCancelled'
               /\ ~Rules[k].async /\ conn'[r] \in {"active", "answered"} =>
                    IF k < at'[r] THEN handler'[<<r, k>>] = "done" ELSE handler'[<<r, k>>] = "running"
    <3>1. CASE k = i
      <4>1. ~Rules[i].async => Rest(r)' = Rest(r)
        BY <1>3, <1>9 DEF Rest
      <4> QED
        BY <1>2, <1>5, <1>8, <1>9, <3>1, <4>1
    <3>2. CASE k # i
      <4>1. k \in Range(ran[r])
        BY <1>10, <3>2
      <4>2. k \in Nat /\ k < at[r] /\ k < i
        BY <1>7, <4>1
      <4>3. k < at'[r] /\ ~ (k >= at'[r])
        BY <1>2, <1>5, <1>9, <4>2
      <4>4. handler'[<<r, k>>] = handler[<<r, k>>]
        BY <1>6, <1>8, <3>2, <4>1
      <4> QED
        BY <1>3, <1>4, <4>1, <4>2, <4>3, <4>4 DEF Loop
    <3> QED
      BY <3>1, <3>2
  <2>5. conn'[r] # "answered"
    BY <1>3 DEF Handling
  <2> QED
    BY <1>3, <2>1, <2>2, <2>3, <2>4, <2>5 DEF Loop
<1>12. Followed(r)'
  <2>1. \A k \in DOMAIN Rules \ Range(ran'[r]) : handler'[<<r, k>>] = "none"
    BY <1>8, <1>10 DEF Requested, Followed
  <2> QED
    BY <1>3, <1>4, <1>11, <2>1 DEF Followed, Handling
<1>13. \A q \in Callbacks : Followed(q)'
  <2> SUFFICES ASSUME NEW q \in Callbacks, q # r PROVE Followed(q)'
    BY <1>12
  <2>1. ran'[q] = ran[q] /\ at'[q] = at[q]
    BY <1>1 DEF RunTypeOK
  <2> QED
    BY <1>3, <1>8, <2>1, FollowedFrame DEF Requested
<1>14. Counted'
  BY <1>1, <1>5 DEF Requested, Counted, RunTypeOK, Jobs
<1>15. Awaited'
  <2> SUFFICES ASSUME NEW j \in Jobs, ~Rules[j[2]].async, handler'[j] = "running"
               PROVE  Handling(j[1])'
    BY DEF Awaited
  <2>1. Handling(j[1])
    <3>1. CASE j = <<r, i>>
      BY <1>3, <3>1
    <3>2. CASE j # <<r, i>>
      BY <1>1, <3>2 DEF Requested, Awaited, RunTypeOK
    <3> QED
      BY <3>1, <3>2
  <2> QED
    BY <1>3, <2>1 DEF Handling
<1> QED
  BY <1>13, <1>14, <1>15 DEF Requested

LEMMA BeginFollowed ==
  ASSUME RunTypeOK, Requested, NEW r \in Callbacks, Begin(r)
  PROVE  Requested'
<1>1. PICK p \in Payloads[r] : ask' = [ask EXCEPT ![r] = p]
  BY DEF Begin
<1>2. /\ conn[r] = "new" /\ conn' = [conn EXCEPT ![r] = "active"]
      /\ UNCHANGED <<wg, cbCancelled, status, at, ran, handler>>
  BY DEF Begin
<1>3. p # <<>> /\ ask'[r] = p /\ conn'[r] = "active"
  BY <1>1, <1>2, RunAssumption DEF RunTypeOK
<1>4. ask[r] = <<>> /\ ran[r] = <<>> /\ at[r] = 1
  BY <1>2 DEF Requested, Followed
<1>5. Range(ran'[r]) = {}
  BY <1>2, <1>4 DEF Range
<1>6. \A i \in DOMAIN Rules : i \in Nat /\ ~ (i < 1)
  BY RunAssumption
<1>7. Loop(r)'
  <2>1. DOMAIN ran'[r] = {}
    BY <1>2, <1>4
  <2>2. \A i \in Todo(ask[r])' : ~ (i < at'[r])
    BY <1>2, <1>4, <1>6 DEF Todo, Route
  <2> QED
    BY <1>3, <1>5, <2>1, <2>2 DEF Loop
<1>8. Followed(r)'
  BY <1>2, <1>3, <1>4, <1>5, <1>7 DEF Requested, Followed, Range
<1>9. \A q \in Callbacks : Followed(q)'
  <2> SUFFICES ASSUME NEW q \in Callbacks, q # r PROVE Followed(q)'
    BY <1>8
  <2>1. conn'[q] = conn[q] /\ ask'[q] = ask[q]
    BY <1>1, <1>2 DEF RunTypeOK
  <2> QED
    BY <1>2, <2>1, FollowedFrame DEF Requested
<1>10. Counted' /\ Awaited'
  BY <1>2 DEF Requested, Counted, Awaited, Handling, RunTypeOK, Jobs
<1> QED
  BY <1>9, <1>10 DEF Requested

(* The steps that only move the connection and its status.                 *)
LEMMA ConnFollowed ==
  ASSUME RunTypeOK, Requested, NEW r \in Callbacks,
         Accept(r) \/ ClientGone(r) \/ CloseNew(r) \/ Answer(r)
  PROVE  Requested'
<1>1. UNCHANGED <<wg, cbCancelled, ask, at, ran, handler>>
  BY DEF Accept, ClientGone, CloseNew, Answer
<1>2. \A q \in Callbacks : q # r => conn'[q] = conn[q] /\ status'[q] = status[q]
  BY DEF Accept, ClientGone, CloseNew, Answer, RunTypeOK
<1>3. \/ conn[r] = "none" /\ conn'[r] = "new"
      \/ conn[r] = "active" /\ conn'[r] = "orphan"
      \/ conn[r] = "new" /\ conn'[r] = "closed"
      \/ /\ Handling(r) /\ Rest(r) = {}
         /\ conn'[r] = IF conn[r] = "active" THEN "answered" ELSE "closed"
         /\ status'[r] = IF Refusal(ask[r]) = 0 THEN Accepted(ask[r]) ELSE Refusal(ask[r])
  BY DEF Accept, ClientGone, CloseNew, Answer, RunTypeOK
<1>4. Rest(r)' = Rest(r) /\ Range(ran[r])' = Range(ran[r])
  BY <1>1 DEF Rest, Range
<1>5. Followed(r)
  BY DEF Requested
<1>6. ask[r] # <<>> => Loop(r)'
  <2> SUFFICES ASSUME ask[r] # <<>> PROVE Loop(r)'
    OBVIOUS
  <2>1. Loop(r) /\ conn[r] \notin {"none", "new"}
    BY <1>5 DEF Followed
  <2>2. CASE conn'[r] # "answered"
    <3>1. conn'[r] # "active"
      BY <1>3, <2>1
    <3> QED
      BY <1>1, <1>4, <2>1, <2>2, <3>1 DEF Loop
  <2>3. CASE conn'[r] = "answered"
    <3>1. conn[r] = "active" /\ Rest(r) = {}
      BY <1>3, <2>3 DEF Handling
    <3>2. \A i \in Range(ran[r]) : i < at[r]
      <4> SUFFICES ASSUME NEW i \in Range(ran[r]) PROVE i < at[r]
        OBVIOUS
      <4>1. i \in Todo(ask[r]) /\ ~ (i >= at[r])
        BY <2>1, <3>1 DEF Loop, Rest
      <4>2. i \in Nat /\ at[r] \in Nat
        BY <4>1, RunAssumption DEF Todo, Route, RunTypeOK
      <4> QED
        BY <4>1, <4>2
    <3>3. status'[r] \in {200, 202} => Refusal(ask[r]) = 0
      <4>1. Refusal(ask[r]) \in {0, 400, 401, 403}
        BY DEF Refusal
      <4> QED
        BY <1>3, <2>3, <3>1, <4>1
    <3> QED
      BY <1>1, <1>4, <2>1, <2>3, <3>1, <3>2, <3>3 DEF Loop
  <2> QED
    BY <2>2, <2>3
<1>7. Followed(r)'
  BY <1>1, <1>3, <1>4, <1>5, <1>6 DEF Followed, Handling
<1>8. \A q \in Callbacks : Followed(q)'
  BY <1>1, <1>2, <1>7, FollowedFrame DEF Requested
<1>9. Counted'
  BY <1>1 DEF Requested, Counted
<1>10. Awaited'
  <2> SUFFICES ASSUME NEW j \in Jobs, ~Rules[j[2]].async, handler[j] = "running"
               PROVE  Handling(j[1])'
    BY <1>1 DEF Awaited
  <2>1. j[1] \in Callbacks /\ j[2] \in DOMAIN Rules /\ j = <<j[1], j[2]>>
    BY DEF Jobs
  <2>2. Handling(j[1]) /\ Rest(j[1]) # {}
    BY <2>1, RunningOne
  <2> QED
    BY <1>2, <1>3, <2>1, <2>2 DEF Handling
<1> QED
  BY <1>8, <1>9, <1>10 DEF Requested

LEMMA EndSyncFollowed ==
  ASSUME RunTypeOK, Requested, NEW j \in Jobs, NEW how \in Endings, EndSync(j, how)
  PROVE  Requested'
<1> DEFINE r == j[1]
           i == j[2]
<1>1. r \in Callbacks /\ i \in DOMAIN Rules /\ i \in Nat /\ j = <<r, i>>
  BY RunAssumption DEF Jobs
<1>2. /\ handler[j] = "running" /\ ~Rules[i].async
      /\ how = "stopped" => conn[r] = "orphan"
      /\ handler' = [handler EXCEPT ![j] = how]
      /\ UNCHANGED <<wg, cbCancelled, ask, status, ran>>
  BY DEF EndSync, Ends, Cancelled
<1>3. IF how = "panicked" THEN conn' = [conn EXCEPT ![r] = "aborted"] /\ at' = at
                          ELSE at' = [at EXCEPT ![r] = i + 1] /\ conn' = conn
  BY DEF EndSync
<1> HIDE DEF r, i
<1>4. /\ Handling(r) /\ ask[r] # <<>> /\ Loop(r)
      /\ i \in Range(ran[r]) /\ i \in Rest(r) /\ \A k \in Rest(r) : i <= k
  BY <1>1, <1>2, RunningOne
<1>5. /\ handler'[<<r, i>>] = how /\ how # "none" /\ how # "running"
      /\ \A q \in Callbacks, k \in DOMAIN Rules : <<q, k>> # <<r, i>> => handler'[<<q, k>>] = handler[<<q, k>>]
  BY <1>1, <1>2 DEF RunTypeOK, Jobs, Endings
<1>6. \A q \in Callbacks : q # r => conn'[q] = conn[q] /\ at'[q] = at[q]
  BY <1>1, <1>3 DEF RunTypeOK
<1>7. /\ conn'[r] \in {"active", "answered"} => conn[r] = "active" /\ how = "done" /\ at'[r] = i + 1
      /\ conn'[r] # "answered"
      /\ at'[r] \in {at[r], i + 1} /\ at[r] \in Nat
  BY <1>1, <1>2, <1>3, <1>4 DEF Handling, RunTypeOK, Endings
<1>8. \A k \in Range(ran[r]) :
        k \in DOMAIN Rules /\ k \in Nat /\ (k < at[r] \/ (k >= at[r] /\ k = i))
  <2> SUFFICES ASSUME NEW k \in Range(ran[r])
               PROVE  k \in DOMAIN Rules /\ k \in Nat /\ (k < at[r] \/ (k >= at[r] /\ k = i))
    OBVIOUS
  <2>1. k \in Todo(ask[r])
    BY <1>4 DEF Loop
  <2>2. k \in DOMAIN Rules /\ k \in Nat
    BY <2>1, RunAssumption DEF Todo, Route
  <2>3. k >= at[r] => k = i
    <3>1. k >= at[r] => k <= i /\ i <= k
      BY <1>4, <2>1 DEF Loop, Rest
    <3> QED
      BY <1>1, <2>2, <3>1
  <2> QED
    BY <1>7, <2>2, <2>3
<1>9. i >= at[r]
  BY <1>4 DEF Rest
<1>10. Range(ran'[r]) = Range(ran[r])
  BY <1>2
<1>11. Loop(r)'
  <2>1. \A k \in Todo(ask[r]) : k < at'[r] => k \in Range(ran[r])
    <3> SUFFICES ASSUME NEW k \in Todo(ask[r]), k < at'[r] PROVE k \in Range(ran[r])
      OBVIOUS
    <3>1. k \in Nat
      BY RunAssumption DEF Todo, Route
    <3>2. CASE k < at[r]
      BY <1>4, <3>2 DEF Loop
    <3>3. CASE k >= at[r]
      <4>1. k \in Rest(r) /\ i <= k
        BY <1>4, <3>3 DEF Rest
      <4>2. k = i
        BY <1>1, <1>7, <3>1, <3>3, <4>1
      <4> QED
        BY <1>4, <4>2
    <3> QED
      BY <1>7, <3>1, <3>2, <3>3
  <2>2. ASSUME NEW k \in Range(ran[r])
        PROVE  /\ handler'[<<r, k>>] # "none"
               /\ k >= at'[r] => ~Rules[k].async /\ \A m \in Rest(r)' : k <= m
               /\ k < at'[r] /\ handler'[<<r, k>>] = "running" => Rules[k].async
               /\ Rules[k].async /\ handler'[<<r, k>>] = "stopped" => cbCancelled'
               /\ ~Rules[k].async /\ conn'[r] \in {"active", "answered"} =>
                    IF k < at'[r] THEN handler'[<<r, k>>] = "done" ELSE handler'[<<r, k>>] = "running"
    <3>1. CASE k = i
      <4>1. at'[r] = at[r] => Rest(r)' = Rest(r)
        BY <1>2 DEF Rest
      <4>2. i < i + 1 /\ ~ (i >= i + 1)
        BY <1>1
      <4> QED
        BY <1>1, <1>2, <1>4, <1>5, <1>7, <3>1, <4>1, <4>2
    <3>2. CASE k # i
      <4>1. k < at[r] /\ k < at'[r] /\ ~ (k >= at'[r])
        BY <1>1, <1>7, <1>8, <1>9, <3>2
      <4>2. handler'[<<r, k>>] = handler[<<r, k>>]
        BY <1>1, <1>5, <1>8, <3>2
      <4> QED
        BY <1>2, <1>4, <1>7, <4>1, <4>2 DEF Loop
    <3> QED
      BY <3>1, <3>2
  <2>3. /\ Range(ran[r]) \subseteq Todo(ask[r])
        /\ \A a, b \in DOMAIN ran[r] : a < b => ran[r][a] < ran[r][b]
    BY <1>4 DEF Loop
  <2> QED
    BY <1>2, <1>7, <1>10, <2>1, <2>2, <2>3 DEF Loop
<1>12. Followed(r)'
  <2>1. \A k \in DOMAIN Rules \ Range(ran[r]) : handler'[<<r, k>>] = "none"
    BY <1>1, <1>4, <1>5 DEF Requested, Followed
  <2>2. conn'[r] \notin {"none", "new"}
    BY <1>1, <1>3, <1>4 DEF Handling, RunTypeOK
  <2> QED
    BY <1>2, <1>4, <1>10, <1>11, <2>1, <2>2 DEF Followed
<1>13. \A q \in Callbacks : Followed(q)'
  BY <1>1, <1>2, <1>5, <1>6, <1>12, FollowedFrame DEF Requested
<1>14. Counted'
  BY <1>2, <1>5 DEF Requested, Counted, RunTypeOK, Endings
<1>15. Awaited'
  <2> SUFFICES ASSUME NEW q \in Callbacks, NEW k \in DOMAIN Rules,
                      ~Rules[k].async, handler'[<<q, k>>] = "running"
               PROVE  Handling(q)'
    BY DEF Awaited, Jobs
  <2>1. <<q, k>> # <<r, i>> /\ handler[<<q, k>>] = "running"
    BY <1>5
  <2>2. Handling(q) /\ k \in Rest(q) /\ \A m \in Rest(q) : k <= m
    BY <2>1, RunningOne
  <2>3. q # r
    <3>1. ASSUME q = r PROVE FALSE
      <4>1. k <= i /\ i <= k
        BY <1>4, <2>2, <3>1
      <4> QED
        BY <1>1, <2>1, <3>1, <4>1, RunAssumption
    <3> QED
      BY <3>1
  <2> QED
    BY <1>6, <2>2, <2>3 DEF Handling
<1> QED
  BY <1>13, <1>14, <1>15 DEF Requested

LEMMA EndAsyncFollowed ==
  ASSUME RunTypeOK, Requested, NEW j \in Jobs, NEW how \in Endings, EndAsync(j, how)
  PROVE  Requested'
<1>1. /\ handler[j] = "running" /\ Rules[j[2]].async
      /\ how = "stopped" => cbCancelled
      /\ handler' = [handler EXCEPT ![j] = how] /\ wg' = wg \ {j}
      /\ UNCHANGED <<cbCancelled, conn, ask, status, at, ran>>
  BY DEF EndAsync, Ends, Cancelled, callbackVars
<1>2. j[1] \in Callbacks /\ j[2] \in DOMAIN Rules /\ j = <<j[1], j[2]>>
  BY DEF Jobs
<1>3. \A q \in Callbacks, k \in DOMAIN Rules :
        /\ ~Rules[k].async => handler'[<<q, k>>] = handler[<<q, k>>]
        /\ handler'[<<q, k>>] = handler[<<q, k>>]
             \/ (<<q, k>> = j /\ handler'[<<q, k>>] = how /\ how # "none" /\ how # "running")
  BY <1>1, <1>2 DEF RunTypeOK, Jobs, Endings
<1>4. ASSUME NEW q \in Callbacks PROVE Followed(q)'
  <2>1. Followed(q) /\ Rest(q)' = Rest(q) /\ Range(ran[q])' = Range(ran[q])
    BY <1>1 DEF Requested, Rest, Range
  <2>2. \A k \in DOMAIN Rules \ Range(ran[q]) : handler'[<<q, k>>] = "none"
    BY <1>1, <1>3, <2>1 DEF Followed
  <2>3. ask[q] # <<>> => Loop(q)'
    <3> SUFFICES ASSUME ask[q] # <<>> PROVE Loop(q)'
      OBVIOUS
    <3>1. Loop(q) /\ Range(ran[q]) \subseteq DOMAIN Rules
      BY <2>1 DEF Followed, Loop, Todo, Route
    <3>2. ASSUME NEW k \in Range(ran[q])
          PROVE  /\ handler'[<<q, k>>] # "none"
                 /\ k < at[q] /\ handler'[<<q, k>>] = "running" => Rules[k].async
                 /\ Rules[k].async /\ handler'[<<q, k>>] = "stopped" => cbCancelled
                 /\ ~Rules[k].async => handler'[<<q, k>>] = handler[<<q, k>>]
      BY <1>1, <1>3, <3>1 DEF Loop
    <3> QED
      BY <1>1, <2>1, <3>1, <3>2 DEF Loop
  <2> QED
    BY <1>1, <2>1, <2>2, <2>3 DEF Followed
<1>5. Counted'
  <2> SUFFICES ASSUME NEW k \in Jobs, Rules[k[2]].async, handler'[k] = "running"
               PROVE  k \in wg'
    BY DEF Counted
  <2>1. k # j /\ handler[k] = "running"
    BY <1>1 DEF RunTypeOK, Endings
  <2> QED
    BY <1>1, <2>1 DEF Requested, Counted
<1>6. Awaited'
  BY <1>1, <1>3 DEF Requested, Awaited, Jobs, Handling
<1> QED
  BY <1>4, <1>5, <1>6 DEF Requested

LEMMA RequestedStep ==
  ASSUME RunTypeOK, Requested, [RunNext]_serverVars
  PROVE  Requested'
<1>1. CASE Run
  <2>1. UNCHANGED <<wg, others>> /\ (cbCancelled => cbCancelled')
    BY <1>1 DEF Run, BeginLoad, Loaded, LoadFailed, Listen, TakeServeError, BeginShutdown,
                EndShutdown, EndWait, JoinServe, JoinPoller, Return
  <2> QED
    BY <2>1, RequestedFrame
<1>2. CASE \/ ServeFails \/ ServeReturns \/ WaiterStep \/ Reading \/ ReloadTick \/ EndTick
           \/ PollerStops \/ Signal \/ TimeUp \/ RotateFiles
  <2>1. UNCHANGED <<wg, others, cbCancelled>>
    BY <1>2 DEF ServeFails, ServeReturns, WaiterStep, Reading, ReloadTick, EndTick, PollerStops,
                Signal, TimeUp, RotateFiles
  <2> QED
    BY <2>1, RequestedFrame
<1>3. CASE EndHandler
  BY <1>3, EndSyncFollowed, EndAsyncFollowed DEF EndHandler
<1>4. CASE \E r \in Callbacks : Request(r) \/ CloseNew(r)
  BY <1>4, ConnFollowed, BeginFollowed, StartFollowed DEF Request
<1>5. CASE UNCHANGED serverVars
  <2>1. UNCHANGED <<wg, others, cbCancelled>>
    BY <1>5 DEF serverVars, others
  <2> QED
    BY <2>1, RequestedFrame
<1> QED
  BY <1>1, <1>2, <1>3, <1>4, <1>5 DEF RunNext

(* The server: the goroutines of Run.                                      *)
Late == {"waiting", "joinServe", "joinPoller", "returned"}

(* While requests or handlers step there is one that is not done.          *)
LEMMA BusyLiving ==
  ASSUME RunTypeOK, Living, Up, UNCHANGED <<phase, ret, serve, poller, waiter>>,
         ~Quiet \/ serve = "on"
  PROVE  Living'
<1>1. phase \in Late => ret = "error"
  BY DEF Living, Drained, Late
<1>2. waiter # "none" => phase \in Late
  BY DEF Living, Drained, RunTypeOK, Up, Late
<1>3. Drained'
  BY <1>1, <1>2 DEF Living, Drained, Late
<1>4. Joined' /\ CleanReturn'
  BY DEF Living, Joined, CleanReturn, Up
<1> QED
  BY <1>3, <1>4 DEF Living

LEMMA RequestLiving ==
  ASSUME RunTypeOK, Requested, Living, NEW r \in Callbacks, Request(r) \/ CloseNew(r)
  PROVE  Living'
<1>1. Up /\ UNCHANGED <<phase, ret, serve, poller, waiter>>
  BY DEF Request, Accept, Begin, ClientGone, StartHandler, Answer, CloseNew, Up, runVars
<1>2. Pending(r) \/ serve = "on"
  BY DEF Request, Accept, Begin, ClientGone, StartHandler, Answer, CloseNew, Pending, Handling
<1> QED
  BY <1>1, <1>2, BusyLiving DEF Quiet

LEMMA EndLiving ==
  ASSUME RunTypeOK, Requested, Living, NEW j \in Jobs, NEW how \in Endings,
         EndSync(j, how) \/ EndAsync(j, how)
  PROVE  Living'
<1>1. CASE EndSync(j, how)
  <2>1. Up /\ UNCHANGED <<phase, ret, serve, poller, waiter>>
    BY <1>1 DEF EndSync, Ends, runVars
  <2>2. j[1] \in Callbacks /\ Pending(j[1])
    BY <1>1 DEF EndSync, Ends, Requested, Awaited, Pending, Jobs
  <2> QED
    BY <2>1, <2>2, BusyLiving DEF Quiet
<1>2. CASE EndAsync(j, how)
  <2>1. /\ Up /\ UNCHANGED <<phase, ret, serve, poller, conn>>
        /\ wg' \subseteq wg
        /\ waiter' = waiter \/ (waiter = "waiting" /\ waiter' = "woken" /\ wg' = {})
    BY <1>2 DEF EndAsync, Ends, callbackVars
  <2>2. Quiet' = Quiet
    BY <2>1 DEF Quiet, Pending, Handling
  <2>3. Drained'
    BY <2>1, <2>2 DEF Living, Drained
  <2>4. Joined' /\ CleanReturn'
    BY <2>1 DEF Living, Joined, CleanReturn, Up
  <2> QED
    BY <2>3, <2>4 DEF Living
<1> QED
  BY <1>1, <1>2

(* Nothing runs any more when the handlers have been awaited.              *)
LEMMA NothingRuns ==
  ASSUME RunTypeOK, Requested, Living, phase = "joinPoller", ret # "error"
  PROVE  Quiet /\ Idle
<1>1. Quiet /\ wg = {}
  BY DEF Living, Drained
<1>2. Idle
  BY <1>1 DEF Idle, Quiet, Pending, Requested, Counted, Awaited, Jobs
<1> QED
  BY <1>1, <1>2

LEMMA RunLiving ==
  ASSUME RunTypeOK, Requested, Living, Run
  PROVE  Living'
<1>1. UNCHANGED <<wg, conn, handler>>
  BY DEF Run, BeginLoad, Loaded, LoadFailed, Listen, TakeServeError, BeginShutdown,
         EndShutdown, EndWait, JoinServe, JoinPoller, others, callbackVars
<1>2. Quiet' = Quiet /\ Idle' = Idle
  BY <1>1 DEF Quiet, Idle, Pending, Handling
<1> USE <1>1, <1>2 DEF Living, Drained, Joined, CleanReturn, runVars, RunTypeOK
<1>3. CASE BeginLoad
  BY <1>3 DEF BeginLoad
<1>4. CASE Loaded
  BY <1>4 DEF Loaded
<1>5. CASE LoadFailed
  BY <1>5 DEF LoadFailed, Return
<1>6. CASE Listen
  <2>1. CASE Return("error")
    BY <1>6, <2>1 DEF Listen, Return
  <2>2. CASE phase' = "serving"
    BY <1>6, <2>2 DEF Listen, Return
  <2> QED
    BY <1>6, <2>1, <2>2 DEF Listen
<1>7. CASE TakeServeError
  BY <1>7 DEF TakeServeError
<1>8. CASE BeginShutdown
  BY <1>8 DEF BeginShutdown
<1>9. CASE EndShutdown
  BY <1>9 DEF EndShutdown, Quiet
<1>10. CASE EndWait
  BY <1>10 DEF EndWait
<1>11. CASE JoinServe
  BY <1>11 DEF JoinServe
<1>12. CASE JoinPoller
  BY <1>12, NothingRuns DEF JoinPoller, Return
<1> QED
  BY <1>3, <1>4, <1>5, <1>6, <1>7, <1>8, <1>9, <1>10, <1>11, <1>12 DEF Run

LEMMA LivingStep ==
  ASSUME RunTypeOK, Requested, Living, [RunNext]_serverVars
  PROVE  Living'
<1>1. CASE Run
  BY <1>1, RunLiving
<1>2. CASE EndHandler
  BY <1>2, EndLiving DEF EndHandler
<1>3. CASE \E r \in Callbacks : Request(r) \/ CloseNew(r)
  BY <1>3, RequestLiving
<1>4. CASE \/ ServeFails \/ ServeReturns \/ WaiterStep \/ Reading \/ ReloadTick \/ EndTick
           \/ PollerStops \/ Signal \/ TimeUp \/ RotateFiles \/ UNCHANGED serverVars
  <2>1. UNCHANGED <<wg, conn, handler>>
    BY <1>4 DEF ServeFails, ServeReturns, WaiterStep, Reading, ReloadTick, EndTick, PollerStops,
                Signal, TimeUp, RotateFiles, serverVars, others, callbackVars
  <2>2. Quiet' = Quiet /\ Idle' = Idle
    BY <2>1 DEF Quiet, Idle, Pending, Handling
  <2> USE <2>1, <2>2 DEF Living, Drained, Joined, CleanReturn, runVars, RunTypeOK
  <2>3. CASE ServeFails
    BY <2>3 DEF ServeFails, Up
  <2>4. CASE ServeReturns
    BY <2>4 DEF ServeReturns, Up
  <2>5. CASE WaiterStep
    BY <2>5 DEF WaiterStep, Up
  <2>6. CASE PollerStops
    BY <2>6 DEF PollerStops, Up
  <2>7. CASE Reading \/ ReloadTick \/ EndTick \/ Signal \/ TimeUp \/ RotateFiles \/ UNCHANGED serverVars
    <3>1. UNCHANGED <<phase, ret, serve, poller, waiter>>
      BY <2>7 DEF Reading, ReloadTick, EndTick, Signal, TimeUp, RotateFiles, serverVars
    <3> QED
      BY <3>1
  <2> QED
    BY <1>4, <2>3, <2>4, <2>5, <2>6, <2>7
<1> QED
  BY <1>1, <1>2, <1>3, <1>4 DEF RunNext

(* The inductive invariant of the server's life holds throughout: a clean  *)
(* return of Server.Run leaves no connection open and no handler running,  *)
(* the goroutines are joined, and the wait group is misused only after the *)
(* time of the shutdown was up.                                            *)
THEOREM RunInvariance == RunSpec => []RunInv
<1>1. RunInit => RunInv
  BY RunInitOK
<1>2. RunInv /\ [RunNext]_serverVars => RunInv'
  BY CertOK, RunTypeStep, RequestedStep, LivingStep DEF RunInv, Requested, Living
<1> QED
  BY <1>1, <1>2, PTL DEF RunSpec

(* A callback that was answered as accepted ran every rule of its event,   *)
(* each once and in order, awaited those that are not async, and an async  *)
(* one was cut off only by the shutdown.                                   *)
THEOREM Handled == RunSpec => []AcceptedMeansHandled
<1>1. RunInv => AcceptedMeansHandled
  <2> SUFFICES ASSUME RunInv, NEW r \in Callbacks, conn[r] = "answered", status[r] \in {200, 202}
               PROVE  /\ Range(ran[r]) = {i \in DOMAIN Rules :
                                            Range(Rules[i].events) \cap {EventOf(ask[r]), "*"} # {}}
                      /\ \A a, b \in DOMAIN ran[r] : a < b => ran[r][a] < ran[r][b]
                      /\ \A a \in DOMAIN ran[r] :
                           LET i == ran[r][a]
                           IN IF Rules[i].async THEN handler[<<r, i>>] = "stopped" => cbCancelled
                                                ELSE handler[<<r, i>>] = "done"
    BY DEF AcceptedMeansHandled
  <2>1. Loop(r) /\ Refusal(ask[r]) = 0 /\ Rest(r) = {}
    BY DEF RunInv, Followed, Loop
  <2>2. Todo(ask[r]) = {i \in DOMAIN Rules : Range(Rules[i].events) \cap {EventOf(ask[r]), "*"} # {}}
    BY <2>1 DEF Todo, Route, Matches, Range
  <2>3. \A i \in Todo(ask[r]) : i < at[r]
    <3> SUFFICES ASSUME NEW i \in Todo(ask[r]), ~ (i < at[r]) PROVE FALSE
      OBVIOUS
    <3>1. i \in Nat /\ at[r] \in Nat
      BY RunAssumption DEF Todo, Route, RunInv, RunTypeOK
    <3> QED
      BY <2>1, <3>1 DEF Rest
  <2>4. Range(ran[r]) = Todo(ask[r])
    BY <2>1, <2>3 DEF Loop
  <2>5. \A a \in DOMAIN ran[r] : ran[r][a] \in Range(ran[r])
    BY DEF Range
  <2>6. \A i \in Range(ran[r]) :
          IF Rules[i].async THEN handler[<<r, i>>] = "stopped" => cbCancelled
                            ELSE handler[<<r, i>>] = "done"
    BY <2>1, <2>3, <2>4 DEF Loop
  <2> QED
    BY <2>1, <2>2, <2>4, <2>5, <2>6 DEF Loop
<1> QED
  BY <1>1, RunInvariance, PTL
=============================================================================
