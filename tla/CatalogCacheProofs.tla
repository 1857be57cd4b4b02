------------------------- MODULE CatalogCacheProofs -------------------------
(***************************************************************************)
(* IInv is an invariant for any workers, catalogs, keys and requests.  The *)
(* catalog's steps leave the request alone and only add to what was        *)
(* published; the request's steps leave the catalog alone.                 *)
(***************************************************************************)
EXTENDS CatalogCache, TLAPS

LEMMA AppendedSet ==
  ASSUME NEW S, NEW s \in Seq(S), NEW e \in S
  PROVE  /\ ToSet(s) \subseteq ToSet(Append(s, e))
         /\ ToSet(Append(s, e)) = ToSet(s) \cup {e}
<1> DEFINE t == Append(s, e)
<1>1. /\ t \in Seq(S) /\ Len(t) = Len(s) + 1 /\ Len(s) \in Nat
      /\ \A i \in 1 .. Len(s) : t[i] = s[i]
      /\ t[Len(s) + 1] = e
  OBVIOUS
<1>2. DOMAIN s = 1 .. Len(s) /\ DOMAIN t = 1 .. Len(s) + 1
  BY <1>1
<1> HIDE DEF t
<1>3. ToSet(t) = ToSet(s) \cup {e}
  <2>1. ASSUME NEW x \in ToSet(t) PROVE x \in ToSet(s) \cup {e}
    BY <1>1, <1>2, <2>1 DEF ToSet
  <2>2. ASSUME NEW x \in ToSet(s) \cup {e} PROVE x \in ToSet(t)
    BY <1>1, <1>2, <2>2 DEF ToSet
  <2> QED
    BY <2>1, <2>2
<1> QED
  BY <1>3 DEF t

LEMMA TailSet ==
  ASSUME NEW S, NEW s \in Seq(S), s # <<>>
  PROVE  ToSet(Tail(s)) \subseteq ToSet(s) /\ Head(s) \in ToSet(s)
BY DEF ToSet

LEMMA LastIn ==
  ASSUME NEW S, NEW s \in Seq(S), s # <<>>
  PROVE  Last(s) \in S /\ Last(s) \in ToSet(s)
BY DEF ToSet, Last

LEMMA SetIn ==
  ASSUME NEW S, NEW s \in Seq(S)
  PROVE  ToSet(s) \subseteq S
BY DEF ToSet

LEMMA InitOK == Init => IInv
<1> SUFFICES ASSUME Init PROVE IInv
  OBVIOUS
<1>1. ToSet(<<>>) = {}
  BY DEF ToSet
<1>2. TypeOK
  <2>1. MaxTime \in Nat /\ MaxFaults \in Nat
    BY CatalogAssumption
  <2>2. <<>> \in Seq(Snapshots) /\ <<>> \in Seq(Messages)
        /\ <<>> \in Seq({"ok", "failed", "denied"})
    OBVIOUS
  <2>3. building \in [Workers -> Snapshots \cup {None}] /\ queued \subseteq Messages
    BY DEF Init
  <2>4. up \in BOOLEAN /\ saving \in BOOLEAN
    BY DEF Init
  <2>5. log \in Seq(Snapshots) /\ inbox \in Seq(Snapshots) /\ pending \in Seq(Messages)
        /\ outs \in Seq({"ok", "failed", "denied"})
    BY <2>2 DEF Init
  <2> QED
    BY <2>1, <2>3, <2>4, <2>5 DEF Init, TypeOK
<1>3. OnlyPublished /\ FileReadable
  BY <1>1 DEF Init, OnlyPublished, FileReadable
<1>4. InOrder /\ RequestOK /\ RefusedMeansNothing
  BY <1>1 DEF Init, InOrder, RequestOK, RefusedMeansNothing
<1> QED
  BY <1>2, <1>3, <1>4 DEF IInv
-----------------------------------------------------------------------------
(* What a snapshot once backed it backs for good.                          *)
LEMMA BackedStays ==
  ASSUME NEW q, Backed(q), req' = req, ToSet(log) \subseteq ToSet(log')
  PROVE  Backed(q)'
BY DEF Backed

(* A step that leaves the request alone keeps what is said of it.          *)
LEMMA RequestKept ==
  ASSUME UNCHANGED reqVars, ToSet(log) \subseteq ToSet(log'),
         InOrder, RequestOK, RefusedMeansNothing
  PROVE  InOrder' /\ RequestOK' /\ RefusedMeansNothing'
<1>1. \A q : Backed(q) => Backed(q)'
  BY BackedStays DEF reqVars
<1>2. RequestOK'
  BY <1>1 DEF RequestOK, reqVars, ChatAllowed
<1>3. InOrder' /\ RefusedMeansNothing'
  BY DEF InOrder, RefusedMeansNothing, reqVars
<1> QED
  BY <1>2, <1>3

(* A step that leaves the catalog alone keeps what is said of that.        *)
LEMMA CatalogKept ==
  ASSUME UNCHANGED <<catalogVars, serverVars>>, TypeOK,
         faults' = faults \/ faults' = faults + 1,
         OnlyPublished, FileReadable
  PROVE  OnlyPublished' /\ FileReadable'
<1>1. faults \in Nat
  BY CatalogAssumption DEF TypeOK
<1> QED
  BY <1>1 DEF catalogVars, serverVars, OnlyPublished, FileReadable

LEMMA FaultTyped ==
  ASSUME TypeOK, Fault
  PROVE  faults' \in 0 .. MaxFaults /\ faults' = faults + 1 /\ faults' # 0
BY CatalogAssumption DEF TypeOK, Fault
-----------------------------------------------------------------------------
(* The catalog's steps.                                                    *)
LEMMA BuildKeeps ==
  ASSUME IInv, NEW w \in Workers, Build(w)
  PROVE  IInv'
<1>1. TypeOK'
  <2>1. ConfOf[w] \in Contents /\ now \in Nat
    BY CatalogAssumption DEF IInv, TypeOK
  <2>2. [content |-> ConfOf[w], at |-> now] \in Snapshots
    BY <2>1 DEF Snapshots
  <2> QED
    BY <2>2 DEF IInv, TypeOK, Build, serverVars, reqVars
<1>2. OnlyPublished' /\ FileReadable'
  BY DEF IInv, Build, serverVars, OnlyPublished, FileReadable
<1>3. InOrder' /\ RequestOK' /\ RefusedMeansNothing'
  BY RequestKept DEF IInv, Build
<1> QED
  BY <1>1, <1>2, <1>3 DEF IInv

LEMMA PublishCatalogKeeps ==
  ASSUME IInv, NEW w \in Workers, PublishCatalog(w)
  PROVE  IInv'
<1>1. TypeOK /\ building[w] \in Snapshots
  BY DEF IInv, TypeOK, PublishCatalog
<1>2. faults' = faults \/ (faults' \in 0 .. MaxFaults /\ faults' # 0)
  BY <1>1, FaultTyped DEF PublishCatalog
<1>3. /\ log' \in Seq(Snapshots) /\ inbox' \in Seq(Snapshots)
      /\ ToSet(log) \subseteq ToSet(log')
      /\ ToSet(inbox') \subseteq ToSet(inbox) \cup ToSet(log')
  <2>1. CASE log' = Append(log, building[w])
             /\ inbox' = IF link = "on" THEN Append(inbox, building[w]) ELSE inbox
    <3>1. log \in Seq(Snapshots) /\ inbox \in Seq(Snapshots)
      BY <1>1 DEF TypeOK
    <3> QED
      BY <1>1, <2>1, <3>1, AppendedSet
  <2>2. CASE UNCHANGED <<log, inbox>>
    BY <1>1, <2>2 DEF TypeOK
  <2> QED
    BY <2>1, <2>2 DEF PublishCatalog
<1>4. TypeOK'
  BY <1>1, <1>2, <1>3 DEF TypeOK, PublishCatalog, reqVars
<1>5. OnlyPublished' /\ FileReadable'
  BY <1>2, <1>3 DEF IInv, PublishCatalog, OnlyPublished, FileReadable
<1>6. InOrder' /\ RequestOK' /\ RefusedMeansNothing'
  BY <1>3, RequestKept DEF IInv, PublishCatalog
<1> QED
  BY <1>4, <1>5, <1>6 DEF IInv

LEMMA BootKeeps ==
  ASSUME IInv, Boot
  PROVE  IInv'
<1>1. TypeOK /\ ToSet(log) \subseteq Snapshots
  BY SetIn DEF IInv, TypeOK
<1>2. file # Torn
  BY <1>1, CatalogAssumption DEF IInv, FileReadable
<1>3. TypeOK'
  BY <1>1, <1>2 DEF TypeOK, Boot, catalogVars, reqVars
<1>4. OnlyPublished' /\ FileReadable'
  BY <1>2 DEF IInv, Boot, catalogVars, OnlyPublished, FileReadable
<1>5. InOrder' /\ RequestOK' /\ RefusedMeansNothing'
  BY RequestKept DEF IInv, Boot, catalogVars
<1> QED
  BY <1>3, <1>4, <1>5 DEF IInv

LEMMA SubscribeKeeps ==
  ASSUME IInv, Subscribe
  PROVE  IInv'
<1>1. TypeOK /\ log \in Seq(Snapshots)
  BY DEF IInv, TypeOK
<1>2. faults' = faults \/ (faults' \in 0 .. MaxFaults /\ faults' # 0)
  BY <1>1, FaultTyped DEF Subscribe
<1>3. /\ inbox' \in Seq(Snapshots) /\ link' \in {"new", "on", "off"}
      /\ ToSet(inbox') \subseteq ToSet(inbox) \cup ToSet(log)
  <2>1. CASE inbox' = <<>>
    BY <2>1 DEF ToSet, Subscribe
  <2>2. CASE inbox' = <<Last(log)>> /\ log # <<>>
    <3>1. Last(log) \in Snapshots /\ Last(log) \in ToSet(log)
      BY <1>1, <2>2, LastIn
    <3>2. ToSet(<<Last(log)>>) = {Last(log)}
      BY DEF ToSet
    <3> QED
      BY <2>2, <3>1, <3>2 DEF Subscribe
  <2>3. CASE inbox' = log
    BY <1>1, <2>3 DEF Subscribe
  <2>4. CASE inbox' = inbox
    BY <1>1, <2>4 DEF Subscribe, TypeOK
  <2> QED
    BY <2>1, <2>2, <2>3, <2>4 DEF Subscribe
<1>4. TypeOK'
  BY <1>1, <1>2, <1>3 DEF TypeOK, Subscribe, catalogVars, reqVars
<1>5. OnlyPublished' /\ FileReadable'
  BY <1>2, <1>3 DEF IInv, Subscribe, catalogVars, OnlyPublished, FileReadable
<1>6. InOrder' /\ RequestOK' /\ RefusedMeansNothing'
  BY RequestKept DEF IInv, Subscribe, catalogVars
<1> QED
  BY <1>4, <1>5, <1>6 DEF IInv

LEMMA UpdateKeeps ==
  ASSUME IInv, Update
  PROVE  IInv'
<1>1. TypeOK /\ inbox \in Seq(Snapshots) /\ inbox # <<>>
  BY DEF IInv, TypeOK, Update
<1>2. \/ saving' = TRUE /\ faults' = faults
      \/ saving' = saving /\ faults' \in 0 .. MaxFaults /\ faults' # 0
  BY <1>1, FaultTyped DEF Update
<1>3. /\ ToSet(Tail(inbox)) \subseteq ToSet(inbox) /\ Head(inbox) \in ToSet(inbox)
      /\ Tail(inbox) \in Seq(Snapshots) /\ Head(inbox) \in Snapshots
  BY <1>1, TailSet
<1>4. TypeOK'
  BY <1>1, <1>2, <1>3 DEF TypeOK, Update, catalogVars, reqVars
<1>5. OnlyPublished' /\ FileReadable'
  BY <1>2, <1>3 DEF IInv, Update, catalogVars, OnlyPublished, FileReadable
<1>6. InOrder' /\ RequestOK' /\ RefusedMeansNothing'
  BY RequestKept DEF IInv, Update, catalogVars
<1> QED
  BY <1>4, <1>5, <1>6 DEF IInv

LEMMA SaveKeeps ==
  ASSUME IInv, Save
  PROVE  IInv'
<1>1. \/ file' = snapshot /\ faults' = faults
      \/ file' = file /\ faults' \in 0 .. MaxFaults /\ faults' # 0
  BY FaultTyped DEF IInv, Save
<1>2. TypeOK'
  <2>1. /\ file' \in Snapshots \cup {None, Torn} /\ faults' \in 0 .. MaxFaults
        /\ saving' \in BOOLEAN
    BY <1>1 DEF IInv, TypeOK, Save
  <2> QED
    BY <2>1 DEF IInv, TypeOK, Save, catalogVars, reqVars
<1>3. OnlyPublished' /\ FileReadable'
  BY <1>1 DEF IInv, Save, catalogVars, OnlyPublished, FileReadable
<1>4. InOrder' /\ RequestOK' /\ RefusedMeansNothing'
  BY RequestKept DEF IInv, Save, catalogVars
<1> QED
  BY <1>2, <1>3, <1>4 DEF IInv

LEMMA ConnLostKeeps ==
  ASSUME IInv, ConnLost
  PROVE  IInv'
<1>1. faults' \in 0 .. MaxFaults /\ faults' # 0
  BY FaultTyped DEF IInv, ConnLost
<1>2. TypeOK'
  BY <1>1 DEF IInv, TypeOK, ConnLost, catalogVars, reqVars
<1>3. OnlyPublished' /\ FileReadable'
  BY <1>1 DEF IInv, ConnLost, catalogVars, OnlyPublished, FileReadable, ToSet
<1>4. InOrder' /\ RequestOK' /\ RefusedMeansNothing'
  BY RequestKept DEF IInv, ConnLost, catalogVars
<1> QED
  BY <1>2, <1>3, <1>4 DEF IInv
-----------------------------------------------------------------------------
(* Routing: an address and a bot that were found were found together.      *)
LEMMA RoutedBacked ==
  ASSUME IInv, req \in Requests, NEW chat \in UUIDs \cup Aliases,
         NEW route, route = Route(req, chat), {route.chat, route.bot} \subseteq UUIDs
  PROVE  Backed(Message(route, chat))
<1> DEFINE m == Message(route, chat)
           s == Get
           wanted == IF req.botID # None THEN req.botID
                     ELSE IF req.bot # None THEN req.bot
                     ELSE IF chat \in Aliases THEN BoundBot[s.content][chat] ELSE None
<1>1. m.name = chat /\ m.chat = route.chat /\ m.bot = route.bot /\ m.at = now
  BY DEF Message
<1>2. /\ req.botID \in UUIDs \cup Aliases \cup {None} /\ req.bot \in Aliases \cup {None}
      /\ None \notin UUIDs /\ Unresolved \notin UUIDs /\ None \notin Aliases
      /\ UUIDs \cap Aliases = {}
  BY CatalogAssumption
<1>3. CASE ~NeedsCatalog(req, chat)
  <2>1. /\ route.chat = (IF chat \in UUIDs THEN chat ELSE Unresolved)
        /\ route.bot = (IF req.botID \in UUIDs THEN req.botID ELSE Unresolved)
    BY <1>3 DEF Route
  <2>2. m.name = m.chat /\ m.bot = req.botID
    BY <1>1, <1>2, <2>1
  <2> QED
    BY <2>2 DEF Backed
<1>4. CASE NeedsCatalog(req, chat)
  <2>1. s # None
    BY <1>2, <1>4 DEF Route
  <2>2. s \in ToSet(log) /\ ~Expired(s)
    BY <2>1 DEF Get, IInv, OnlyPublished, FileReadable
  <2>3. s \in Snapshots /\ s.content \in Contents /\ s.at \in Nat
    <3>1. ToSet(log) \subseteq Snapshots
      BY SetIn DEF IInv, TypeOK
    <3> QED
      BY <2>2, <3>1 DEF Snapshots
  <2>4. MaxAge > 0 => m.at - s.at <= MaxAge
    <3>1. MaxAge \in Nat /\ now \in Nat
      BY CatalogAssumption DEF IInv, TypeOK
    <3> QED
      BY <1>1, <2>2, <2>3, <3>1 DEF Expired
  <2>5. m.chat = ResolveChat(s, chat) /\ m.bot = ResolveBot(s, req, chat)
    BY <1>1, <1>4, <2>1 DEF Route
  <2>6. m.chat \in {m.name} \cap UUIDs \/ m.chat = ChatOf[s.content][m.name]
    BY <1>1, <2>5 DEF ResolveChat
  <2>7. \/ wanted \in UUIDs /\ m.bot = wanted
        \/ wanted \notin UUIDs /\ wanted # None /\ m.bot = BotOf[s.content][wanted]
    BY <1>1, <1>2, <2>5 DEF ResolveBot
  <2>8. chat \in Aliases => BoundBot[s.content][chat] \in Aliases \cup {None}
    BY <2>3, CatalogAssumption
  <2>9. CASE wanted \in UUIDs
    <3>1. wanted = req.botID
      BY <1>2, <2>8, <2>9
    <3> QED
      BY <2>2, <2>4, <2>6, <2>7, <2>9, <3>1 DEF Backed
  <2>10. CASE wanted \notin UUIDs /\ wanted # None
    <3> HIDE DEF s
    <3>1. wanted \in Aliases
      BY <1>2, <2>8, <2>10
    <3>2. IF req.botID # None THEN wanted = req.botID
          ELSE IF req.bot # None THEN wanted = req.bot
          ELSE wanted = BoundBot[s.content][chat]
      BY <2>10
    <3>3. m.bot = BotOf[s.content][wanted]
      BY <2>7, <2>10
    <3> HIDE DEF wanted, m
    <3>4. \E b \in Aliases : /\ m.bot = BotOf[s.content][b]
                            /\ IF req.botID # None THEN b = req.botID
                               ELSE IF req.bot # None THEN b = req.bot
                               ELSE b = BoundBot[s.content][m.name]
      BY <1>1, <3>1, <3>2, <3>3
    <3>5. \E t \in ToSet(log) :
            /\ MaxAge > 0 => m.at - t.at <= MaxAge
            /\ m.chat \in {m.name} \cap UUIDs \/ m.chat = ChatOf[t.content][m.name]
            /\ \E b \in Aliases : /\ m.bot = BotOf[t.content][b]
                                  /\ IF req.botID # None THEN b = req.botID
                                     ELSE IF req.bot # None THEN b = req.bot
                                     ELSE b = BoundBot[t.content][m.name]
      BY <2>2, <2>4, <2>6, <3>4
    <3>6. Backed(m)
      BY <3>5 DEF Backed
    <3> QED
      BY <3>6 DEF m
  <2> QED
    BY <2>7, <2>9, <2>10
<1> QED
  BY <1>3, <1>4

(* A request that was accepted for routing has the fields of a request.    *)
LEMMA Requested ==
  ASSUME IInv, pc # "idle"
  PROVE  /\ req \in Requests /\ req.by \in {"serve", "enqueue"}
         /\ req.chats \in Seq(UUIDs \cup Aliases)
         /\ req.by = "enqueue" => req.key \notin ScopedKeys
BY CatalogAssumption DEF IInv, RequestOK, TypeOK

LEMMA HandleSendKeeps ==
  ASSUME IInv, NEW r \in Requests, HandleSend(r)
  PROVE  IInv'
<1>1. /\ pc = "idle" /\ req' = r /\ r.by = "serve" /\ r # NoReq /\ Len(r.chats) \in Nat
      /\ pending = <<>> /\ queued = {} /\ outs = <<>> /\ next = 1 /\ answer = "none"
  BY CatalogAssumption DEF IInv, RequestOK, HandleSend, NoReq
<1>2. UNCHANGED <<driver, catalogVars, serverVars, next, pending, outs, queued, now, faults>>
  BY DEF HandleSend
<1>3. \/ pc' = "route" /\ answer' = "none"
      \/ pc' = "done" /\ answer' \in {"refused", "denied"}
  BY <1>1 DEF HandleSend, Answer
<1>4. TypeOK'
  BY <1>1, <1>2, <1>3 DEF IInv, TypeOK, catalogVars, serverVars
<1>5. OnlyPublished' /\ FileReadable'
  BY <1>2, CatalogKept DEF IInv
<1>6. InOrder' /\ RequestOK' /\ RefusedMeansNothing'
  BY <1>1, <1>2, <1>3 DEF InOrder, RequestOK, RefusedMeansNothing, ToSet
<1> QED
  BY <1>4, <1>5, <1>6 DEF IInv

LEMMA RunEnqueueKeeps ==
  ASSUME IInv, NEW r \in Requests, RunEnqueue(r)
  PROVE  IInv'
<1>1. /\ pc = "idle" /\ req' = r /\ r.by = "enqueue" /\ r # NoReq /\ Len(r.chats) \in Nat
      /\ pending = <<>> /\ queued = {} /\ outs = <<>> /\ next = 1 /\ answer = "none"
  BY CatalogAssumption DEF IInv, RequestOK, RunEnqueue, NoReq
<1>2. /\ pc' = "route"
      /\ UNCHANGED <<driver, catalogVars, serverVars, next, pending, outs, answer, queued,
                     now, faults>>
  BY DEF RunEnqueue
<1>3. TypeOK'
  BY <1>1, <1>2 DEF IInv, TypeOK, catalogVars, serverVars
<1>4. OnlyPublished' /\ FileReadable'
  BY <1>2, CatalogKept DEF IInv
<1>5. InOrder' /\ RequestOK' /\ RefusedMeansNothing'
  BY <1>1, <1>2 DEF InOrder, RequestOK, RefusedMeansNothing, ToSet
<1> QED
  BY <1>3, <1>4, <1>5 DEF IInv

(* The chat at hand, of a request that is being routed.                    *)
LEMMA AtHand ==
  ASSUME IInv, More
  PROVE  /\ req \in Requests /\ next \in 1 .. Len(req.chats) /\ Len(req.chats) \in Nat
         /\ req.chats[next] \in UUIDs \cup Aliases /\ pc = "route"
<1>1. pc = "route" /\ req.chats \in Seq(UUIDs \cup Aliases) /\ req \in Requests
  BY Requested DEF More
<1>2. Len(req.chats) \in Nat /\ next \in Nat
  BY <1>1 DEF IInv, TypeOK
<1>3. next - 1 = Len(outs) + Len(pending) /\ Len(outs) \in Nat /\ Len(pending) \in Nat
  BY <1>1 DEF IInv, InOrder, TypeOK
<1>4. next \in 1 .. Len(req.chats)
  BY <1>2, <1>3 DEF More
<1> QED
  BY <1>1, <1>2, <1>4

(* What the routing of the chat at hand yields is a message for it, backed *)
(* by a snapshot and, when the scope was looked at, within it.             *)
LEMMA BuiltMessage ==
  ASSUME IInv, More, NEW route, route = Route(req, req.chats[next]),
         {route.chat, route.bot} \subseteq UUIDs,
         req.by = "enqueue" \/ ~Denied(route, req.chats[next])
  PROVE  /\ Message(route, req.chats[next]) \in Messages
         /\ Message(route, req.chats[next]).name = req.chats[next]
         /\ Backed(Message(route, req.chats[next]))
         /\ ChatAllowed(req.key, Message(route, req.chats[next]).chat)
<1>1. req \in Requests /\ req.chats[next] \in UUIDs \cup Aliases /\ pc # "idle"
  BY AtHand
<1>2. Backed(Message(route, req.chats[next]))
  BY <1>1, RoutedBacked
<1>3. ChatAllowed(req.key, route.chat)
  <2>1. CASE req.by = "enqueue"
    BY <1>1, <2>1, Requested DEF ChatAllowed
  <2>2. CASE ~Denied(route, req.chats[next])
    BY <2>2 DEF Denied
  <2> QED
    BY <2>1, <2>2
<1>4. now \in Nat
  BY CatalogAssumption DEF IInv, TypeOK
<1> QED
  BY <1>1, <1>2, <1>3, <1>4 DEF Message, Messages

LEMMA SendFnKeeps ==
  ASSUME IInv, SendFn
  PROVE  IInv'
<1> DEFINE chat  == req.chats[next]
           route == Route(req, chat)
           m     == Message(route, chat)
<1>1. /\ More /\ req.by = "serve" /\ pc = "route"
      /\ UNCHANGED <<driver, catalogVars, serverVars, req, answer, queued, now, faults>>
  BY DEF SendFn, More
<1>2. /\ next \in 1 .. Len(req.chats) /\ Len(req.chats) \in Nat /\ answer = "none"
      /\ pending = <<>> /\ Len(outs) = next - 1 /\ Len(pending) = 0
      /\ outs \in Seq({"ok", "failed", "denied"}) /\ pending \in Seq(Messages) /\ req # NoReq
  BY <1>1, AtHand DEF IInv, InOrder, RequestOK, TypeOK
<1>3. \A q : Backed(q) => Backed(q)'
  BY <1>1, BackedStays DEF catalogVars
<1>4. OnlyPublished' /\ FileReadable'
  BY <1>1, CatalogKept DEF IInv
<1>5. CASE \E o \in {"denied", "failed"} : /\ outs' = Append(outs, o) /\ next' = next + 1
                                          /\ UNCHANGED <<pc, pending>>
  <2>1. PICK o \in {"denied", "failed"} : outs' = Append(outs, o)
    BY <1>5
  <2>2. /\ outs' \in Seq({"ok", "failed", "denied"}) /\ Len(outs') = Len(outs) + 1
        /\ DOMAIN outs' = 1 .. Len(outs) + 1 /\ DOMAIN outs = 1 .. Len(outs)
        /\ \A i \in DOMAIN outs : outs'[i] = outs[i]
        /\ outs'[Len(outs) + 1] = o
    BY <1>2, <2>1
  <2>3. next' = next + 1 /\ pc' = pc /\ pending' = pending /\ ToSet(pending) = {}
    BY <1>2, <1>5 DEF ToSet
  <2>4. TypeOK'
    BY <1>1, <1>2, <2>2, <2>3 DEF IInv, TypeOK, catalogVars, serverVars
  <2>5. InOrder'
    BY <1>1, <1>2, <2>2, <2>3 DEF InOrder
  <2>6. RequestOK'
    BY <1>1, <1>2, <1>3, <2>2, <2>3 DEF IInv, RequestOK, ChatAllowed
  <2>7. RefusedMeansNothing'
    BY <1>1, <1>2, <2>2, <2>3 DEF IInv, RefusedMeansNothing
  <2> QED
    BY <1>4, <2>4, <2>5, <2>6, <2>7 DEF IInv
<1>6. CASE /\ ~Denied(route, chat) /\ {route.chat, route.bot} \subseteq UUIDs
           /\ pending' = <<m>> /\ pc' = "publish" /\ UNCHANGED <<outs, next>>
  <2>1. m \in Messages /\ m.name = chat /\ Backed(m) /\ ChatAllowed(req.key, m.chat)
    BY <1>1, <1>6, BuiltMessage
  <2> HIDE DEF m, route
  <2>2. /\ pending' \in Seq(Messages) /\ Len(pending') = 1 /\ DOMAIN pending' = {1}
        /\ pending'[1] = m /\ ToSet(pending') = {m}
    BY <1>6, <2>1 DEF ToSet
  <2>3. outs' = outs /\ next' = next /\ pc' = "publish"
    BY <1>6
  <2>4. TypeOK'
    BY <1>1, <1>2, <2>2, <2>3 DEF IInv, TypeOK, catalogVars, serverVars
  <2>5. InOrder'
    BY <1>1, <1>2, <2>1, <2>2, <2>3 DEF InOrder
  <2>6. RequestOK'
    BY <1>1, <1>2, <1>3, <2>1, <2>2, <2>3 DEF IInv, RequestOK, ChatAllowed
  <2>7. RefusedMeansNothing'
    BY <1>1, <1>2, <2>2, <2>3 DEF IInv, RefusedMeansNothing
  <2> QED
    BY <1>4, <2>4, <2>5, <2>6, <2>7 DEF IInv
<1> QED
  BY <1>5, <1>6 DEF SendFn

LEMMA BuildMessageKeeps ==
  ASSUME IInv, BuildMessage
  PROVE  IInv'
<1> DEFINE chat  == req.chats[next]
           route == Route(req, chat)
           m     == Message(route, chat)
<1>1. /\ More /\ req.by = "enqueue" /\ pc = "route"
      /\ UNCHANGED <<driver, catalogVars, serverVars, req, outs, queued, now, faults>>
  BY DEF BuildMessage, More
<1>2. /\ next \in 1 .. Len(req.chats) /\ Len(req.chats) \in Nat /\ answer = "none"
      /\ outs = <<>> /\ Len(outs) = 0 /\ DOMAIN outs = {} /\ Len(pending) = next - 1
      /\ pending \in Seq(Messages) /\ req # NoReq /\ queued = {}
  <2>1. outs = <<>> /\ Len(outs) + Len(pending) = next - 1 /\ Len(pending) \in Nat
    BY <1>1 DEF IInv, InOrder, TypeOK
  <2>2. queued = {}
    BY <2>1 DEF IInv, RequestOK
  <2> QED
    BY <1>1, <2>1, <2>2, AtHand DEF IInv, RequestOK, TypeOK
<1>3. \A q : Backed(q) => Backed(q)'
  BY <1>1, BackedStays DEF catalogVars
<1>4. OnlyPublished' /\ FileReadable'
  BY <1>1, CatalogKept DEF IInv
<1>5. CASE Answer("refused") /\ UNCHANGED <<pending, next>>
  <2>1. pc' = "done" /\ answer' = "refused" /\ UNCHANGED <<pending, next>>
    BY <1>5 DEF Answer
  <2>2. TypeOK'
    BY <1>1, <1>2, <2>1 DEF IInv, TypeOK, catalogVars, serverVars
  <2>3. InOrder' /\ RequestOK' /\ RefusedMeansNothing'
    BY <1>1, <1>2, <1>3, <2>1
    DEF IInv, InOrder, RequestOK, RefusedMeansNothing, ChatAllowed
  <2> QED
    BY <1>4, <2>2, <2>3 DEF IInv
<1>6. CASE /\ {route.chat, route.bot} \subseteq UUIDs
           /\ pending' = Append(pending, m) /\ next' = next + 1
           /\ pc' = (IF next = Len(req.chats) THEN "publish" ELSE pc)
           /\ UNCHANGED answer
  <2>1. m \in Messages /\ m.name = chat /\ Backed(m) /\ ChatAllowed(req.key, m.chat)
    BY <1>1, <1>6, BuiltMessage
  <2> HIDE DEF m, route
  <2>2. /\ pending' \in Seq(Messages) /\ Len(pending') = Len(pending) + 1
        /\ DOMAIN pending' = 1 .. Len(pending) + 1 /\ DOMAIN pending = 1 .. Len(pending)
        /\ \A i \in DOMAIN pending : pending'[i] = pending[i]
        /\ pending'[Len(pending) + 1] = m
    BY <1>2, <1>6, <2>1
  <2>3. ToSet(pending') = ToSet(pending) \cup {m}
    BY <1>2, <1>6, <2>1, AppendedSet
  <2>4. next' = next + 1 /\ answer' = answer
        /\ pc' = (IF next = Len(req.chats) THEN "publish" ELSE "route")
    BY <1>1, <1>6
  <2>5. TypeOK'
    BY <1>1, <1>2, <2>2, <2>4 DEF IInv, TypeOK, catalogVars, serverVars
  <2>6. InOrder'
    <3>1. \A k \in DOMAIN pending' : pending'[k].name = req.chats[k]
      <4>1. \A k \in DOMAIN pending : pending[k].name = req.chats[k]
        BY <1>2, <2>2 DEF IInv, InOrder
      <4> QED
        BY <1>2, <2>1, <2>2, <4>1
    <3>2. Len(pending') = next
      BY <1>2, <2>2
    <3> QED
      BY <1>1, <1>2, <2>2, <2>4, <3>1, <3>2 DEF InOrder
  <2>7. RequestOK'
    BY <1>1, <1>2, <1>3, <2>1, <2>3, <2>4 DEF IInv, RequestOK, ChatAllowed
  <2>8. RefusedMeansNothing'
    BY <1>1, <1>2, <2>4 DEF IInv, RefusedMeansNothing
  <2> QED
    BY <1>4, <2>5, <2>6, <2>7, <2>8 DEF IInv
<1> QED
  BY <1>5, <1>6 DEF BuildMessage

LEMMA PublishWorkKeeps ==
  ASSUME IInv, PublishWork
  PROVE  IInv'
<1> DEFINE m == Head(pending)
<1>1. /\ pc = "publish" /\ pending # <<>> /\ pending' = Tail(pending)
      /\ UNCHANGED <<driver, catalogVars, serverVars, req, answer, now>>
      /\ IF req.by = "serve" THEN pc' = "route" /\ next' = next + 1
                             ELSE pc' = pc /\ next' = next
  BY DEF PublishWork
<1>2. PICK o \in {"ok", "failed"} :
        /\ outs' = Append(outs, o)
        /\ queued' \in {queued, queued \cup {m}}
        /\ o = "ok" => m \in queued'
  BY DEF PublishWork
<1>3. faults' = faults \/ (faults' \in 0 .. MaxFaults /\ faults' = faults + 1)
  BY FaultTyped DEF IInv, PublishWork
<1>4. /\ pending \in Seq(Messages) /\ outs \in Seq({"ok", "failed", "denied"})
      /\ queued \subseteq Messages /\ answer = "none" /\ next \in Nat /\ req # NoReq
      /\ req.by \in {"serve", "enqueue"} /\ Len(req.chats) \in Nat
  BY <1>1, Requested DEF IInv, TypeOK, RequestOK
<1>5. /\ m = pending[1] /\ m \in Messages /\ m \in ToSet(pending)
      /\ pending' \in Seq(Messages) /\ Len(pending') = Len(pending) - 1
      /\ Len(pending) \in Nat \ {0} /\ ToSet(pending') \subseteq ToSet(pending)
      /\ DOMAIN pending = 1 .. Len(pending) /\ DOMAIN pending' = 1 .. Len(pending) - 1
      /\ \A i \in DOMAIN pending' : pending'[i] = pending[i + 1]
  BY <1>1, <1>4, TailSet
<1>6. /\ outs' \in Seq({"ok", "failed", "denied"}) /\ Len(outs') = Len(outs) + 1
      /\ DOMAIN outs' = 1 .. Len(outs) + 1 /\ DOMAIN outs = 1 .. Len(outs)
      /\ \A i \in DOMAIN outs : outs'[i] = outs[i]
      /\ outs'[Len(outs) + 1] = o /\ Len(outs) \in Nat
  BY <1>2, <1>4
<1>7. m.name = req.chats[Len(outs) + 1]
  BY <1>5 DEF IInv, InOrder
<1> HIDE DEF m
<1>8. \A q : Backed(q) => Backed(q)'
  BY <1>1, BackedStays DEF catalogVars
<1>9. TypeOK'
  BY <1>1, <1>2, <1>3, <1>4, <1>5, <1>6 DEF IInv, TypeOK, catalogVars, serverVars
<1>10. OnlyPublished' /\ FileReadable'
  BY <1>1, <1>3, CatalogKept DEF IInv
<1>11. InOrder'
  <2>1. \A k \in DOMAIN pending' : pending'[k].name = req.chats[Len(outs') + k]
    <3>1. ASSUME NEW k \in DOMAIN pending'
          PROVE  pending'[k].name = req.chats[Len(outs') + k]
      <4>1. k \in Nat /\ k + 1 \in DOMAIN pending
        BY <1>5
      <4>2. pending[k + 1].name = req.chats[Len(outs) + (k + 1)]
        BY <4>1 DEF IInv, InOrder
      <4>3. Len(outs) + (k + 1) = Len(outs') + k
        BY <1>6, <4>1
      <4> QED
        BY <1>5, <4>2, <4>3
    <3> QED
      BY <3>1
  <2>2. CASE req.by = "serve"
    <3>1. Len(pending) = 1 /\ Len(outs) = next - 1 /\ next <= Len(req.chats)
      BY <1>1, <2>2 DEF IInv, InOrder
    <3>2. pending' = <<>>
      BY <1>5, <3>1
    <3> QED
      BY <1>1, <1>4, <1>5, <1>6, <2>1, <2>2, <3>1, <3>2 DEF InOrder
  <2>3. CASE req.by = "enqueue"
    <3>1. Len(outs) + Len(pending) = Len(req.chats)
      BY <1>1, <2>3 DEF IInv, InOrder
    <3>2. Len(outs') + Len(pending') = Len(req.chats)
      <4>1. /\ Len(outs) \in Nat /\ Len(outs') = Len(outs) + 1
            /\ Len(pending) \in Nat /\ Len(pending') = Len(pending) - 1
        BY <1>5, <1>6
      <4> QED
        BY <3>1, <4>1
    <3>3. pc' = "publish" /\ req' = req
      BY <1>1, <2>3
    <3> QED
      BY <2>1, <2>3, <3>2, <3>3 DEF InOrder
  <2> QED
    BY <1>4, <2>2, <2>3
<1>12. RequestOK'
  <2>1. pc' # "idle" /\ pc' # "done" /\ answer' = "none" /\ req' # NoReq /\ pc # "idle"
    BY <1>1, <1>4
  <2>2. \E i \in DOMAIN outs' : outs'[i] # "denied"
    BY <1>2, <1>6
  <2>3. queued' \cup ToSet(pending') \subseteq queued \cup ToSet(pending)
    BY <1>2, <1>5
  <2> QED
    BY <1>1, <1>8, <2>1, <2>2, <2>3 DEF IInv, RequestOK, ChatAllowed
<1>13. RefusedMeansNothing'
  <2>1. \A i \in DOMAIN outs' : outs'[i] = "ok" => \E q \in queued' : q.name = req.chats[i]
    <3>1. ASSUME NEW i \in DOMAIN outs, outs[i] = "ok"
          PROVE  \E q \in queued' : q.name = req.chats[i]
      BY <1>2, <3>1 DEF IInv, RefusedMeansNothing
    <3>2. o = "ok" => \E q \in queued' : q.name = req.chats[Len(outs) + 1]
      BY <1>2, <1>7
    <3> QED
      BY <1>6, <3>1, <3>2
  <2> QED
    BY <1>1, <1>4, <2>1 DEF RefusedMeansNothing
<1> QED
  BY <1>9, <1>10, <1>11, <1>12, <1>13 DEF IInv

LEMMA FinishKeeps ==
  ASSUME IInv, Finish
  PROVE  IInv'
<1>1. /\ pc \in {"route", "publish"} /\ pc' = "done"
      /\ UNCHANGED <<driver, catalogVars, serverVars, req, next, pending, outs, queued,
                     now, faults>>
  BY DEF Finish, Answer
<1>2. /\ outs \in Seq({"ok", "failed", "denied"}) /\ pending \in Seq(Messages) /\ next \in Nat
      /\ req.by \in {"serve", "enqueue"} /\ Len(req.chats) \in Nat /\ req # NoReq
  BY <1>1, Requested DEF IInv, TypeOK, RequestOK
<1>3. /\ answer' \in {"accepted", "denied", "failed"}
      /\ answer' = "accepted" => "ok" \in ToSet(outs)
      /\ answer' = "denied" => ToSet(outs) = {"denied"}
  BY DEF Finish, Answer
<1>4. "ok" \in ToSet(outs) => Len(outs) = Len(req.chats)
  <2>1. CASE pc = "route" /\ next > Len(req.chats)
    <3>1. /\ Len(outs) + Len(pending) = next - 1 /\ next <= Len(req.chats) + 1
          /\ req.by = "serve" => pending = <<>>
          /\ req.by = "enqueue" => outs = <<>>
      BY <2>1 DEF IInv, InOrder
    <3>2. CASE req.by = "serve"
      BY <1>2, <2>1, <3>1, <3>2
    <3>3. CASE req.by = "enqueue"
      BY <3>1, <3>3 DEF ToSet
    <3> QED
      BY <1>2, <3>2, <3>3
  <2>2. CASE pc = "publish" /\ pending = <<>>
    <3>1. Len(pending) = 0 /\ Len(outs) \in Nat
      BY <1>2, <2>2
    <3>2. req.by = "enqueue"
      BY <1>2, <2>2, <3>1 DEF IInv, InOrder
    <3> QED
      BY <1>2, <2>2, <3>1, <3>2 DEF IInv, InOrder
  <2> QED
    BY <2>1, <2>2 DEF Finish
<1>5. answer' = "denied" => queued = {}
  BY <1>3 DEF IInv, RequestOK, ToSet
<1>6. \A q : Backed(q) => Backed(q)'
  BY <1>1, BackedStays DEF catalogVars
<1>7. TypeOK'
  BY <1>1, <1>3 DEF IInv, TypeOK, catalogVars, serverVars
<1>8. OnlyPublished' /\ FileReadable'
  BY <1>1, CatalogKept DEF IInv
<1>9. InOrder' /\ RequestOK'
  BY <1>1, <1>2, <1>6 DEF IInv, InOrder, RequestOK, ChatAllowed
<1>10. RefusedMeansNothing'
  BY <1>1, <1>3, <1>4, <1>5 DEF IInv, RefusedMeansNothing
<1> QED
  BY <1>7, <1>8, <1>9, <1>10 DEF IInv

LEMMA CrashKeeps ==
  ASSUME IInv, Crash
  PROVE  IInv'
<1>1. /\ up' = FALSE /\ saving' = FALSE /\ link' = "off" /\ inbox' = <<>> /\ snapshot' = None
      /\ UNCHANGED <<driver, catalogVars, file, req, next, pending, outs, answer, queued, now>>
  BY DEF Crash
<1>2. faults' \in 0 .. MaxFaults
  BY FaultTyped DEF IInv, Crash
<1>3. pc' = pc \/ (pc' = "lost" /\ pc \notin {"idle", "done"})
  BY DEF Crash, IInv, RequestOK, NoReq
<1>4. \A q : Backed(q) => Backed(q)'
  BY <1>1, BackedStays DEF catalogVars
<1>5. TypeOK'
  <2>1. inbox' \in Seq(Snapshots) /\ snapshot' \in Snapshots \cup {None}
    BY <1>1
  <2>2. up' \in BOOLEAN /\ saving' \in BOOLEAN
    BY <1>1
  <2>3. pc' \in {"idle", "route", "publish", "done", "lost"}
    BY <1>3 DEF IInv, TypeOK
  <2> QED
    BY <1>1, <1>2, <2>1, <2>2, <2>3 DEF IInv, TypeOK, catalogVars
<1>6. OnlyPublished' /\ FileReadable'
  BY <1>1 DEF IInv, OnlyPublished, FileReadable, catalogVars, ToSet
<1>7. InOrder' /\ RequestOK' /\ RefusedMeansNothing'
  BY <1>1, <1>3, <1>4 DEF IInv, InOrder, RequestOK, RefusedMeansNothing, ChatAllowed
<1> QED
  BY <1>5, <1>6, <1>7 DEF IInv

LEMMA TickKeeps ==
  ASSUME IInv, Tick
  PROVE  IInv'
<1>1. UNCHANGED <<driver, catalogVars, serverVars, reqVars, faults>> /\ now' \in 0 .. MaxTime
  BY CatalogAssumption DEF IInv, TypeOK, Tick
<1>2. TypeOK'
  BY <1>1 DEF IInv, TypeOK, catalogVars, serverVars, reqVars
<1>3. OnlyPublished' /\ FileReadable'
  BY <1>1, CatalogKept DEF IInv
<1>4. InOrder' /\ RequestOK' /\ RefusedMeansNothing'
  BY <1>1, RequestKept DEF IInv, catalogVars
<1> QED
  BY <1>2, <1>3, <1>4 DEF IInv

LEMMA StutterKeeps ==
  ASSUME IInv, UNCHANGED vars
  PROVE  IInv'
<1>1. TypeOK' /\ UNCHANGED <<catalogVars, serverVars, reqVars, faults>>
  BY DEF IInv, TypeOK, vars, catalogVars, serverVars, reqVars
<1>2. OnlyPublished' /\ FileReadable'
  BY <1>1, CatalogKept DEF IInv
<1>3. InOrder' /\ RequestOK' /\ RefusedMeansNothing'
  BY <1>1, RequestKept DEF IInv, catalogVars
<1> QED
  BY <1>1, <1>2, <1>3 DEF IInv
-----------------------------------------------------------------------------
(* The inductive invariant: the server holds published snapshots only, the *)
(* file is never torn, a request's chats are concluded in order, and every *)
(* message pending or queued is backed and within the scope.               *)
THEOREM Invariance == Spec => []IInv
<1>1. IInv /\ [Next]_vars => IInv'
  <2> SUFFICES ASSUME IInv, [Next]_vars PROVE IInv'
    OBVIOUS
  <2>1. ASSUME NEW w \in Workers, Build(w) \/ PublishCatalog(w) PROVE IInv'
    BY <2>1, BuildKeeps, PublishCatalogKeeps
  <2>2. CASE Boot \/ Subscribe \/ Update \/ Save \/ ConnLost \/ Crash
    BY <2>2, BootKeeps, SubscribeKeeps, UpdateKeeps, SaveKeeps, ConnLostKeeps, CrashKeeps
  <2>3. ASSUME NEW r \in Requests, HandleSend(r) \/ RunEnqueue(r) PROVE IInv'
    BY <2>3, HandleSendKeeps, RunEnqueueKeeps
  <2>4. CASE SendFn \/ BuildMessage \/ PublishWork \/ Finish \/ Tick
    BY <2>4, SendFnKeeps, BuildMessageKeeps, PublishWorkKeeps, FinishKeeps, TickKeeps
  <2>5. CASE UNCHANGED vars
    BY <2>5, StutterKeeps
  <2> QED
    BY <2>1, <2>2, <2>3, <2>4, <2>5 DEF Next
<1> QED
  BY <1>1, InitOK, PTL DEF Spec

(* Every queued message that an alias had a part in follows one published, *)
(* unexpired snapshot.                                                     *)
THEOREM Routed == Spec => []RouteBacked
<1>1. IInv => RouteBacked
  BY DEF IInv, RequestOK, RouteBacked
<1> QED
  BY <1>1, Invariance, PTL

(* No message of a scoped key leaves its scope.                            *)
THEOREM Scoped == Spec => []ScopedByAddress
<1>1. IInv => ScopedByAddress
  BY DEF IInv, RequestOK, ScopedByAddress
<1> QED
  BY <1>1, Invariance, PTL

(* A refused request has queued nothing, an accepted one what it was told. *)
THEOREM AllOrNothing == Spec => []RefusedMeansNothing
<1>1. IInv => RefusedMeansNothing
  BY DEF IInv
<1> QED
  BY <1>1, Invariance, PTL

(* No crash leaves a torn file.                                            *)
THEOREM NeverTorn == Spec => []FileReadable
<1>1. IInv => FileReadable
  BY DEF IInv
<1> QED
  BY <1>1, Invariance, PTL
=============================================================================
