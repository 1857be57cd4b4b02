--------------------------- MODULE SyncSendProofs ---------------------------
(***************************************************************************)
(* For any number of bots, requests, commands, revocations and lost or     *)
(* torn writes of the cache: a token is used for the bot BotX gave it to.  *)
(* OwnToken alone is not inductive, for a job's token may be garbled by an *)
(* unlocked read and a job writes a token to the cache and the client: IInv*)
(* adds that the token it is about to write is one BotX gave its bot.      *)
(***************************************************************************)
EXTENDS SyncSend, TLAPS

(* Constant forms of the parts of OwnToken, for an `issued' of iss.        *)
Given(b, n) == {None} \cup {<<b, i>> : i \in 0 .. n}
Written(b, n) == Given(b, n) \ {<<b, 0>>}

Texts == {None, Garbled} \cup (Bots \X Nat)
Words == [ptr : Texts, len : Texts]
Kinds  == {"none", "boot"} \cup Requests \cup Commands
Places == {"idle", "get", "ask", "copy", "truncate", "write", "store", "read", "op", "create",
           "refused", "end"}
JobSet == [kind : Kinds, bot : Bots \cup {None}, at : Places, tok : Texts, first : Texts,
           sent : Texts, left : SUBSET {"ptr", "len"}, copy : [Bots -> Texts], done : Nat]

Counts == [Bots -> Nat]

JobOwn(r, iss) ==
  r.at # "idle" =>
    /\ r.bot \in Bots
    /\ r.tok \in Given(r.bot, iss[r.bot]) \cup {Garbled}
    /\ r.first \in Given(r.bot, iss[r.bot]) \cup {Garbled}
    /\ r.sent \in Given(r.bot, iss[r.bot]) \cup {Garbled}
    /\ \A b \in Bots : r.copy[b] \in Written(b, iss[b])
    /\ r.at \in {"copy", "truncate", "write", "store"} => r.tok \in Written(r.bot, iss[r.bot])

Keeps(content, iss) ==
  content \in [Bots -> Texts] /\ \A b \in Bots : content[b] \in Written(b, iss[b])

CacheGood(content, iss) == content \in {Torn, Truncated} \/ Keeps(content, iss)

ClientGood(cl, iss) ==
  /\ cl \in [Clients -> Words]
  /\ \A c \in Clients : cl[c].ptr \in Given(c[2], iss[c[2]]) /\ cl[c].len \in Given(c[2], iss[c[2]])

JobGood(r, iss) == r \in JobSet /\ JobOwn(r, iss)
JobsGood(js, iss) == js = [j \in Jobs |-> js[j]] /\ \A j \in Jobs : JobGood(js[j], iss)

IInv == /\ issued \in Counts
        /\ JobsGood(job, issued) /\ ClientGood(client, issued) /\ CacheGood(cache, issued)

LEMMA IInvImplies == IInv => OwnToken
  BY DEF IInv, OwnToken, CacheOwn, ClientsOwn, JobsOwn, CacheGood, ClientGood, JobsGood, Keeps,
         JobGood, JobOwn, Tokens, Given, Written, Clients
-----------------------------------------------------------------------------
(* What holds of a number of tokens holds of a larger one.                 *)
LEMMA Later ==
  ASSUME NEW old \in Counts, NEW new \in Counts, \A b \in Bots : old[b] <= new[b]
  PROVE  /\ \A b \in Bots : /\ Given(b, old[b]) \subseteq Given(b, new[b])
                            /\ Written(b, old[b]) \subseteq Written(b, new[b])
         /\ \A r : JobGood(r, old) => JobGood(r, new)
         /\ \A cl : ClientGood(cl, old) => ClientGood(cl, new)
         /\ \A content : CacheGood(content, old) => CacheGood(content, new)
<1>1. \A b \in Bots : /\ Given(b, old[b]) \subseteq Given(b, new[b])
                      /\ Written(b, old[b]) \subseteq Written(b, new[b])
  BY DEF Given, Written, Counts
<1>2. \A r : JobGood(r, old) => JobGood(r, new)
  BY <1>1 DEF JobGood, JobOwn
<1>3. \A cl : ClientGood(cl, old) => ClientGood(cl, new)
  BY <1>1 DEF ClientGood, Clients
<1>4. \A content : CacheGood(content, old) => CacheGood(content, new)
  BY <1>1 DEF CacheGood, Keeps
<1> QED
  BY <1>1, <1>2, <1>3, <1>4

LEMMA NoneGiven ==
  /\ \A b \in Bots, n \in Nat : None \in Given(b, n) /\ None \in Written(b, n)
  /\ None \in Texts /\ Nothing \in [Bots -> Texts] /\ \A iss \in Counts : Keeps(Nothing, iss)
  BY SyncAssumption DEF SyncAssumption, Given, Written, Texts, Nothing, Keeps, Counts

LEMMA GivenTexts ==
  ASSUME NEW b \in Bots, NEW n \in Nat
  PROVE  Given(b, n) \subseteq Texts /\ Written(b, n) \subseteq Given(b, n)
  BY DEF Given, Written, Texts

(* A step of one job.                                                      *)
LEMMA JobStep ==
  ASSUME IInv, NEW j \in Jobs, NEW r, JobGood(r, issued), Become(j, r), issued' = issued,
         ClientGood(client', issued), CacheGood(cache', issued)
  PROVE  IInv'
<1>1. JobsGood(job', issued)
  BY DEF IInv, JobsGood, Become
<1> QED
  BY <1>1 DEF IInv

LEMMA IdleGood == Idle \in JobSet /\ \A iss \in Counts : JobGood(Idle, iss)
<1>1. Idle \in JobSet
  BY NoneGiven DEF JobSet, Kinds, Places, Idle
<1>2. \A iss : JobOwn(Idle, iss)
  BY DEF Idle, JobOwn
<1> QED
  BY <1>1, <1>2 DEF JobGood

LEMMA NewGood ==
  ASSUME NEW iss \in Counts, NEW k \in Kinds, NEW b \in Bots,
         NEW at \in Places, NEW tok \in {None, <<b, 0>>},
         at \in {"copy", "truncate", "write", "store"} => tok = None
  PROVE  JobGood(New(k, b, at, tok), iss)
<1>1. PICK r : r = New(k, b, at, tok)
  OBVIOUS
<1>2. tok \in Given(b, iss[b]) /\ tok \in Texts
  BY DEF Given, Texts, Counts
<1>3. iss[b] \in Nat /\ None \in Given(b, iss[b]) /\ None \in Written(b, iss[b])
  BY NoneGiven DEF Counts
<1>4. r \in JobSet
  BY <1>1, <1>2, IdleGood DEF New, JobSet
<1>5. /\ r.bot = b /\ r.at = at /\ r.tok = tok /\ r.first = None /\ r.sent = tok
      /\ r.copy = Nothing
  BY <1>1 DEF New, Idle
<1>6. JobOwn(r, iss)
  BY <1>2, <1>3, <1>5, NoneGiven DEF JobOwn, Keeps
<1> QED
  BY <1>1, <1>4, <1>6 DEF JobGood

(* A job that goes on with what it has.                                    *)
LEMMA Moved ==
  ASSUME NEW iss \in Counts, NEW r, JobGood(r, iss), r.at # "idle",
         NEW at \in Places \ {"copy", "truncate", "write", "store"}
  PROVE  JobGood([r EXCEPT !.at = at], iss)
<1>1. PICK q : q = [r EXCEPT !.at = at]
  OBVIOUS
<1>2. q \in JobSet
  BY <1>1 DEF JobGood, JobSet
<1>3. /\ q.bot = r.bot /\ q.at = at /\ q.tok = r.tok /\ q.first = r.first /\ q.sent = r.sent
      /\ q.copy = r.copy
  BY <1>1 DEF JobGood, JobSet
<1>4. JobOwn(q, iss)
  BY <1>3 DEF JobGood, JobOwn
<1> QED
  BY <1>1, <1>2, <1>4 DEF JobGood

LEMMA MadeGood ==
  ASSUME IInv, NEW b \in Bots, NEW tok \in Given(b, issued[b]), Made(b, tok)
  PROVE  ClientGood(client', issued)
<1>1. tok \in Texts
  BY GivenTexts DEF IInv, Counts
<1> QED
  BY <1>1 DEF IInv, Made, ClientGood, Clients, Words
-----------------------------------------------------------------------------
LEMMA InitOK == Init => IInv
<1> SUFFICES ASSUME Init PROVE IInv
  OBVIOUS
<1>1. issued \in Counts
  BY DEF Init, Counts
<1>2. JobsGood(job, issued)
  BY <1>1, IdleGood DEF Init, JobsGood
<1>3. ClientGood(client, issued)
  BY <1>1, NoneGiven DEF Init, ClientGood, Clients, Words, Counts
<1>4. CacheGood(cache, issued)
  BY <1>1, NoneGiven DEF Init, CacheGood
<1> QED
  BY <1>1, <1>2, <1>3, <1>4 DEF IInv

LEMMA StartRequestOK ==
  ASSUME IInv, NEW j \in Jobs, StartRequest(j)
  PROVE  IInv'
<1>1. PICK k \in Requests, b \in Bots :
         \/ Become(j, New(k, b, "read", None))
         \/ Become(j, [New(k, b, "read", None) EXCEPT !.at = "ask"])
  BY DEF StartRequest, Starts
<1>2. JobGood(New(k, b, "read", None), issued)
  BY NewGood DEF IInv, Kinds, Places
<1>3. JobGood([New(k, b, "read", None) EXCEPT !.at = "ask"], issued)
  BY <1>2, Moved DEF Places, New, Idle, IInv
<1>4. UNCHANGED <<issued, client, cache>>
  BY DEF StartRequest, botx, disk
<1> QED
  BY <1>1, <1>2, <1>3, <1>4, JobStep DEF IInv

LEMMA StartBootOK ==
  ASSUME IInv, NEW j \in Jobs, StartBoot(j)
  PROVE  IInv'
<1>1. PICK b \in Bots :
         IF b \in StaticBots
         THEN Made(b, <<b, 0>>) /\ booted' = booted \cup {b} /\ UNCHANGED job
         ELSE Become(j, New("boot", b, "get", None)) /\ UNCHANGED <<client, booted>>
  BY DEF StartBoot
<1>2. issued' = issued /\ cache' = cache
  BY DEF StartBoot, botx, disk
<1>3. CASE b \in StaticBots
  <2>1. <<b, 0>> \in Given(b, issued[b])
    BY DEF Given, IInv, Counts
  <2>2. ClientGood(client', issued)
    BY <1>1, <1>3, <2>1, MadeGood
  <2> QED
    BY <1>1, <1>2, <1>3, <2>2 DEF IInv
<1>4. CASE b \notin StaticBots
  <2>1. JobGood(New("boot", b, "get", None), issued)
    BY NewGood DEF IInv, Kinds, Places
  <2> QED
    BY <1>1, <1>2, <1>4, <2>1, JobStep DEF IInv
<1> QED
  BY <1>3, <1>4

LEMMA StartCommandOK ==
  ASSUME IInv, NEW j \in Jobs, StartCommand(j)
  PROVE  IInv'
<1>1. PICK k \in Commands, b \in Bots, at \in {"op", "ask", "copy", "get"} :
         \E tok \in {None, <<b, 0>>} :
           Become(j, New(k, b, at, tok)) /\ (at = "copy" => tok = None)
  BY DEF StartCommand, Starts
<1>2. PICK tok \in {None, <<b, 0>>} :
           Become(j, New(k, b, at, tok)) /\ (at = "copy" => tok = None)
  BY <1>1
<1>3. JobGood(New(k, b, at, tok), issued)
  BY <1>2, NewGood DEF IInv, Kinds, Places
<1>4. UNCHANGED <<issued, client, cache>>
  BY DEF StartCommand, botx, disk
<1> QED
  BY <1>2, <1>3, <1>4, JobStep DEF IInv
-----------------------------------------------------------------------------
(* What Got makes of a job that has a token.                               *)
LEMMA GotBecomes ==
  ASSUME NEW j, NEW r, Got(j, r)
  PROVE  \E q : q \in {Idle, [r EXCEPT !.at = "store", !.left = {"ptr", "len"}],
                      [r EXCEPT !.at = "op", !.sent = r.tok],
                      [r EXCEPT !.at = "ask", !.first = r.tok]}
               /\ Become(j, q)
<1>1. CASE r.kind = "boot"
  BY <1>1 DEF Got
<1>2. CASE r.kind \in {"send", "lookup"}
  BY <1>2 DEF Got
<1>3. CASE r.kind \in {"post", "create"}
  BY <1>3 DEF Got
<1>4. CASE r.kind = "fresh" /\ r.first = None
  BY <1>4 DEF Got
<1>5. CASE ~ (\/ r.kind = "boot" \/ r.kind \in {"send", "lookup"} \/ r.kind \in {"post", "create"}
              \/ r.kind = "fresh" /\ r.first = None)
  BY <1>5 DEF Got
<1> QED
  BY <1>1, <1>2, <1>3, <1>4, <1>5

(* What Got makes of a job that has a token of its bot.                    *)
LEMMA GotOK ==
  ASSUME IInv, NEW iss \in Counts, NEW j \in Jobs, NEW r, JobGood(r, iss), r.at # "idle",
         r.tok \in Written(r.bot, iss[r.bot]), Got(j, r),
         \A b \in Bots : issued[b] <= iss[b],
         issued' = iss, CacheGood(cache', iss)
  PROVE  IInv'
<1>1. /\ r.bot \in Bots /\ r \in JobSet /\ r.tok \in Given(r.bot, iss[r.bot]) /\ r.tok \in Texts
      /\ JobOwn(r, iss)
  BY DEF JobGood, JobOwn, Written, JobSet
<1>2. PICK q : q \in {Idle, [r EXCEPT !.at = "store", !.left = {"ptr", "len"}],
                      [r EXCEPT !.at = "op", !.sent = r.tok],
                      [r EXCEPT !.at = "ask", !.first = r.tok]}
               /\ Become(j, q)
  BY GotBecomes
<1>3. JobGood(q, iss)
  <2>1. CASE q = Idle
    BY <2>1, IdleGood
  <2>2. CASE q # Idle
    <3>1. q \in JobSet
      BY <1>1, <1>2, <2>2 DEF JobSet, Places
    <3>2. /\ q.at # "idle" /\ q.at \notin {"copy", "truncate", "write"}
          /\ q.bot = r.bot /\ q.tok = r.tok /\ q.copy = r.copy
          /\ q.first \in {r.first, r.tok} /\ q.sent \in {r.sent, r.tok}
      BY <1>1, <1>2, <2>2 DEF JobSet
    <3>3. JobOwn(q, iss)
      BY <1>1, <3>2 DEF JobOwn
    <3> QED
      BY <3>1, <3>3 DEF JobGood
  <2> QED
    BY <2>1, <2>2
<1>4. ClientGood(client', iss)
  <2>1. ClientGood(client, iss)
    BY Later DEF IInv
  <2>2. CASE client' = client
    BY <2>1, <2>2
  <2>3. CASE Made(r.bot, r.tok)
    BY <1>1, <2>1, <2>3 DEF Made, ClientGood, Clients, Words
  <2> QED
    BY <2>2, <2>3 DEF Got
<1>5. JobsGood(job', iss)
  BY <1>2, <1>3, Later DEF IInv, JobsGood, Become
<1> QED
  BY <1>4, <1>5 DEF IInv
-----------------------------------------------------------------------------
(* The token cache.                                                        *)
LEMMA ReadableKeeps == ASSUME IInv PROVE Keeps(Readable, issued) /\ Keeps(Fresh(Readable), issued)
<1>1. Keeps(Readable, issued)
  BY NoneGiven DEF IInv, CacheGood, Readable
<1>2. PICK content : content = Readable
  OBVIOUS
<1>3. Keeps(Fresh(content), issued)
  BY <1>1, <1>2, NoneGiven DEF Keeps, Fresh, IInv, Counts
<1> QED
  BY <1>1, <1>2, <1>3

(* A job that is given another token, or the entries of the cache.         *)
LEMMA Handed ==
  ASSUME NEW iss \in Counts, NEW r, JobGood(r, iss), r.at # "idle",
         NEW tok \in Written(r.bot, iss[r.bot]), NEW at \in Places
  PROVE  /\ JobGood([r EXCEPT !.tok = tok], iss)
         /\ JobGood([r EXCEPT !.tok = tok, !.at = at], iss)
<1>1. /\ r.bot \in Bots /\ r \in JobSet /\ tok \in Given(r.bot, iss[r.bot]) /\ tok \in Texts
  BY GivenTexts DEF JobGood, JobOwn, Counts
<1>2. PICK p, q : p = [r EXCEPT !.tok = tok] /\ q = [r EXCEPT !.tok = tok, !.at = at]
  OBVIOUS
<1>3. p \in JobSet /\ q \in JobSet
  BY <1>1, <1>2 DEF JobSet
<1>4. /\ p.at = r.at /\ p.bot = r.bot /\ p.tok = tok /\ p.first = r.first /\ p.sent = r.sent
      /\ p.copy = r.copy
  BY <1>1, <1>2 DEF JobSet
<1>5. /\ q.at = at /\ q.bot = r.bot /\ q.tok = tok /\ q.first = r.first /\ q.sent = r.sent
      /\ q.copy = r.copy
  BY <1>1, <1>2 DEF JobSet
<1>6. JobOwn(p, iss) /\ JobOwn(q, iss)
  BY <1>1, <1>4, <1>5 DEF JobGood, JobOwn
<1> QED
  BY <1>2, <1>3, <1>6 DEF JobGood

LEMMA Copied ==
  ASSUME NEW iss \in Counts, NEW r, JobGood(r, iss), r.at \in {"copy", "write"},
         NEW content, Keeps(content, iss), NEW at \in {"truncate", "write"}
  PROVE  /\ JobGood([r EXCEPT !.copy = content, !.at = at], iss)
         /\ JobGood([r EXCEPT !.copy = content], iss)
<1>1. PICK p, q : q = [r EXCEPT !.copy = content, !.at = at] /\ p = [r EXCEPT !.copy = content]
  OBVIOUS
<1>2. p \in JobSet /\ q \in JobSet
  BY <1>1 DEF JobGood, JobSet, Keeps, Places
<1>3. /\ q.at = at /\ q.bot = r.bot /\ q.tok = r.tok /\ q.first = r.first /\ q.sent = r.sent
      /\ q.copy = content
  BY <1>1 DEF JobGood, JobSet
<1>4. /\ p.at = r.at /\ p.bot = r.bot /\ p.tok = r.tok /\ p.first = r.first /\ p.sent = r.sent
      /\ p.copy = content
  BY <1>1 DEF JobGood, JobSet
<1>5. JobOwn(p, iss) /\ JobOwn(q, iss)
  BY <1>3, <1>4 DEF JobGood, JobOwn, Keeps
<1> QED
  BY <1>1, <1>2, <1>5 DEF JobGood

(* The facts of IInv about one job, and that a disk it leaves stays good.  *)
LEMMA OneJob ==
  ASSUME IInv, NEW j \in Jobs
  PROVE  /\ issued \in Counts /\ JobGood(job[j], issued) /\ job[j] \in JobSet
         /\ ClientGood(client, issued) /\ CacheGood(cache, issued)
         /\ job[j].at # "idle" => job[j].bot \in Bots
         /\ \A b \in Bots : issued[b] <= issued[b]
  BY DEF IInv, JobsGood, JobGood, JobOwn, Counts

LEMMA GetOK ==
  ASSUME IInv, NEW j \in Jobs, Get(j)
  PROVE  IInv'
<1>1. /\ job[j].at = "get" /\ UNCHANGED <<issued, cache>>
  BY DEF Get, botx, disk
<1>2. PICK r, b : r = job[j] /\ b = job[j].bot
  OBVIOUS
<1>3. PICK tok : tok = Fresh(Readable)[b]
  OBVIOUS
<1>4. /\ JobGood(r, issued) /\ r.at = "get" /\ b \in Bots /\ issued \in Counts
      /\ CacheGood(cache, issued) /\ ClientGood(client, issued) /\ r.bot = b
  BY <1>1, <1>2, OneJob
<1>5. tok \in Written(b, issued[b])
  BY <1>3, <1>4, ReadableKeeps DEF Keeps
<1>6. CASE Got(j, [r EXCEPT !.tok = tok])
  <2>1. PICK q : q = [r EXCEPT !.tok = tok]
    OBVIOUS
  <2>2. q.at = "get" /\ q.bot = b /\ q.tok = tok
    BY <1>4, <2>1 DEF JobGood, JobSet
  <2>3. JobGood(q, issued)
    BY <1>4, <1>5, <2>1, "get" \in Places, Handed DEF Places
  <2> QED
    BY <1>1, <1>4, <1>5, <1>6, <2>1, <2>2, <2>3, GotOK, OneJob
<1>7. CASE Goto(j, "ask") /\ UNCHANGED <<client, booted>>
  BY <1>1, <1>2, <1>4, <1>7, Moved, JobStep DEF Goto, Places
<1> QED
  BY <1>2, <1>3, <1>6, <1>7 DEF Get, CacheKey

LEMMA AskOK ==
  ASSUME IInv, NEW j \in Jobs, Ask(j)
  PROVE  IInv'
<1>1. PICK r, b, tok, iss : /\ r = job[j] /\ b = job[j].bot /\ tok = <<b, issued[b] + 1>>
                            /\ iss = [issued EXCEPT ![b] = @ + 1]
  OBVIOUS
<1>2. /\ r.at = "ask" /\ issued' = iss /\ cache' = cache
      /\ IF kind = "none" THEN Got(j, [r EXCEPT !.tok = tok])
         ELSE /\ Become(j, [r EXCEPT !.tok = tok, !.at = "copy"])
              /\ UNCHANGED <<client, booted>>
  BY <1>1 DEF Ask, disk
<1>3. /\ JobGood(r, issued) /\ b \in Bots /\ issued \in Counts /\ r.bot = b
      /\ CacheGood(cache, issued) /\ ClientGood(client, issued)
  BY <1>1, <1>2, OneJob
<1>4. /\ iss \in Counts /\ \A x \in Bots : issued[x] <= iss[x]
      /\ iss[b] = issued[b] + 1 /\ issued[b] \in Nat
  BY <1>1, <1>3 DEF Counts
<1>5. tok \in Written(b, iss[b])
  BY <1>1, <1>3, <1>4 DEF Given, Written
<1>6. JobGood(r, iss) /\ CacheGood(cache, iss) /\ ClientGood(client, iss)
  BY <1>3, <1>4, Later
<1>7. CASE kind = "none"
  <2>1. PICK q : q = [r EXCEPT !.tok = tok]
    OBVIOUS
  <2>2. q.at = "ask" /\ q.bot = b /\ q.tok = tok
    BY <1>2, <1>3, <2>1 DEF JobGood, JobSet
  <2>3. JobGood(q, iss)
    BY <1>2, <1>3, <1>4, <1>5, <1>6, <2>1, "ask" \in Places, Handed DEF Places
  <2> QED
    BY <1>2, <1>4, <1>5, <1>6, <1>7, <2>1, <2>2, <2>3, GotOK
<1>8. CASE kind # "none"
  <2>1. JobGood([r EXCEPT !.tok = tok, !.at = "copy"], iss)
    BY <1>2, <1>3, <1>4, <1>5, <1>6, Handed DEF Places
  <2>2. JobsGood(job', iss)
    BY <1>2, <1>3, <1>4, <1>8, <2>1, Later DEF IInv, JobsGood, Become
  <2> QED
    BY <1>2, <1>4, <1>6, <1>8, <2>2 DEF IInv
<1> QED
  BY <1>7, <1>8

LEMMA CopyOK ==
  ASSUME IInv, NEW j \in Jobs, Copy(j)
  PROVE  IInv'
<1>1. /\ job[j].at = "copy" /\ UNCHANGED <<issued, cache, client>>
  BY DEF Copy, botx, disk
<1>2. PICK content \in {Readable, Nothing}, at \in {"truncate", "write"} :
         Become(j, Idle) \/ Become(j, [job[j] EXCEPT !.copy = Fresh(content), !.at = at])
  BY DEF Copy
<1>3. Keeps(Fresh(content), issued)
  <2>1. CASE content = Readable
    BY <2>1, ReadableKeeps
  <2>2. CASE content = Nothing
    BY <2>2, NoneGiven DEF Keeps, Fresh, IInv, Counts
  <2> QED
    BY <1>2, <2>1, <2>2
<1>4. PICK c : c = Fresh(content)
  OBVIOUS
<1>5. JobGood([job[j] EXCEPT !.copy = c, !.at = at], issued)
  BY <1>1, <1>3, <1>4, Copied, OneJob
<1> QED
  BY <1>1, <1>2, <1>4, <1>5, IdleGood, OneJob, JobStep

LEMMA TruncateOK ==
  ASSUME IInv, NEW j \in Jobs, Truncate(j)
  PROVE  IInv'
<1>1. /\ job[j].at = "truncate" /\ cache' = Truncated /\ UNCHANGED <<issued, client>>
      /\ Become(j, [job[j] EXCEPT !.at = "write"])
  BY DEF Truncate, botx, Goto
<1>2. PICK r : r = job[j]
  OBVIOUS
<1>3. JobGood(r, issued) /\ r.at = "truncate"
  BY <1>1, <1>2, OneJob
<1>4. PICK q : q = [r EXCEPT !.at = "write"]
  OBVIOUS
<1>5. /\ q \in JobSet /\ q.at = "write" /\ q.bot = r.bot /\ q.tok = r.tok /\ q.first = r.first
      /\ q.sent = r.sent /\ q.copy = r.copy
  BY <1>3, <1>4 DEF JobGood, JobSet, Places
<1>6. JobGood(q, issued)
  BY <1>3, <1>5 DEF JobGood, JobOwn
<1> QED
  BY <1>1, <1>2, <1>4, <1>6, OneJob, JobStep DEF CacheGood

LEMMA WriteOK ==
  ASSUME IInv, NEW j \in Jobs, Write(j)
  PROVE  IInv'
<1>1. PICK r, b : r = job[j] /\ b = job[j].bot
  OBVIOUS
<1>2. /\ r.at = "write" /\ issued' = issued
      /\ cache' \in {cache, [r.copy EXCEPT ![b] = r.tok], Torn}
      /\ Got(j, [r EXCEPT !.copy = Nothing])
  BY <1>1 DEF Write, CacheKey, botx
<1>3. /\ JobGood(r, issued) /\ b \in Bots /\ issued \in Counts /\ r.bot = b
      /\ CacheGood(cache, issued)
  BY <1>1, <1>2, OneJob
<1>4. r.tok \in Written(b, issued[b]) /\ r.tok \in Texts /\ Keeps(r.copy, issued)
  BY <1>2, <1>3 DEF JobGood, JobOwn, JobSet, Keeps
<1>5. CacheGood(cache', issued)
  <2>1. Keeps([r.copy EXCEPT ![b] = r.tok], issued)
    BY <1>3, <1>4 DEF Keeps
  <2> QED
    BY <1>2, <1>3, <2>1 DEF CacheGood
<1>6. PICK q : q = [r EXCEPT !.copy = Nothing]
  OBVIOUS
<1>7. JobGood(q, issued)
  BY <1>2, <1>3, <1>6, NoneGiven, Copied
<1>8. q.at = "write" /\ q.bot = b /\ q.tok = r.tok
  BY <1>2, <1>3, <1>6 DEF JobGood, JobSet
<1> QED
  BY <1>2, <1>3, <1>4, <1>5, <1>6, <1>7, <1>8, GotOK, OneJob
-----------------------------------------------------------------------------
(* Calls with the client's token or with the command's own.                *)
LEMMA StoreOK ==
  ASSUME IInv, NEW j \in Jobs, Store(j)
  PROVE  IInv'
<1>1. PICK r, c : r = job[j] /\ c = ClientOf(job[j])
  OBVIOUS
<1>2. PICK w \in r.left, at \in {"read", "store"} :
         /\ r.at = "store" /\ UNCHANGED <<issued, cache>>
         /\ client' = [client EXCEPT ![c][w] = r.tok]
         /\ Become(j, [r EXCEPT !.left = @ \ {w}, !.at = at])
  BY <1>1 DEF Store, botx, disk
<1>3. JobGood(r, issued) /\ r \in JobSet /\ r.bot \in Bots /\ issued \in Counts
  BY <1>1, <1>2, OneJob
<1>4. PICK q : q = [r EXCEPT !.left = @ \ {w}, !.at = at]
  OBVIOUS
<1>5. JobGood(q, issued)
  <2>1. q \in JobSet
    BY <1>3, <1>4 DEF JobSet, Places
  <2>2. /\ q.at = at /\ q.bot = r.bot /\ q.tok = r.tok /\ q.first = r.first /\ q.sent = r.sent
        /\ q.copy = r.copy
    BY <1>3, <1>4 DEF JobSet
  <2> QED
    BY <1>2, <1>3, <2>1, <2>2 DEF JobGood, JobOwn
<1>6. ClientGood(client', issued)
  <2>1. w \in {"ptr", "len"} /\ c \in Clients /\ c[2] = r.bot
    BY <1>1, <1>2, <1>3 DEF JobSet, ClientOf, Clients
  <2>2. r.tok \in Given(r.bot, issued[r.bot]) /\ r.tok \in Texts
    BY <1>2, <1>3 DEF JobGood, JobOwn, JobSet, Written
  <2>3. client \in [Clients -> Words]
    BY DEF IInv, ClientGood
  <2>4. PICK x : x = [client[c] EXCEPT ![w] = r.tok]
    OBVIOUS
  <2>5. x \in Words /\ x.ptr \in {client[c].ptr, r.tok} /\ x.len \in {client[c].len, r.tok}
    BY <2>1, <2>2, <2>3, <2>4 DEF Words
  <2>6. client' = [client EXCEPT ![c] = x]
    BY <1>2, <2>4
  <2> QED
    BY <2>1, <2>2, <2>3, <2>5, <2>6 DEF IInv, ClientGood
<1> QED
  BY <1>2, <1>4, <1>5, <1>6, OneJob, JobStep

LEMMA ReadOK ==
  ASSUME IInv, NEW j \in Jobs, Read(j)
  PROVE  IInv'
<1>1. PICK r, w : r = job[j] /\ w = client[ClientOf(job[j])]
  OBVIOUS
<1>2. /\ r.at = "read" /\ UNCHANGED <<issued, cache, client>>
      /\ \/ Become(j, Idle)
         \/ \E tok \in StringOf(w) : \E mine \in {tok, r.tok} :
              Become(j, [r EXCEPT !.at = "op", !.sent = tok, !.tok = mine])
  BY <1>1 DEF Read, botx, disk
<1>3. JobGood(r, issued) /\ r \in JobSet /\ r.bot \in Bots /\ issued \in Counts
  BY <1>1, <1>2, OneJob
<1>4. CASE Become(j, Idle)
  BY <1>2, <1>4, IdleGood, OneJob, JobStep
<1>5. ASSUME NEW tok \in StringOf(w), NEW mine \in {tok, r.tok},
             Become(j, [r EXCEPT !.at = "op", !.sent = tok, !.tok = mine])
      PROVE  IInv'
  <2>1. tok \in Given(r.bot, issued[r.bot]) \cup {Garbled}
    <3>1. ClientOf(r) \in Clients /\ ClientOf(r)[2] = r.bot
      BY <1>3 DEF ClientOf, Clients
    <3>2. {w.ptr, w.len} \subseteq Given(r.bot, issued[r.bot])
      BY <1>1, <3>1 DEF IInv, ClientGood
    <3>3. tok \in {None, w.ptr, Garbled}
      BY <1>5 DEF StringOf
    <3> QED
      BY <1>3, <3>2, <3>3, NoneGiven DEF Counts
  <2>2. tok \in Texts /\ r.tok \in Given(r.bot, issued[r.bot]) \cup {Garbled}
    BY <1>2, <1>3, <2>1, GivenTexts DEF Texts, Counts, JobGood, JobOwn
  <2>3. PICK q : q = [r EXCEPT !.at = "op", !.sent = tok, !.tok = mine]
    OBVIOUS
  <2>4. q \in JobSet
    BY <1>3, <2>2, <2>3 DEF JobSet, Places
  <2>5. /\ q.at = "op" /\ q.bot = r.bot /\ q.tok = mine /\ q.first = r.first /\ q.sent = tok
        /\ q.copy = r.copy
    BY <1>3, <2>3 DEF JobSet
  <2>6. JobGood(q, issued)
    BY <1>2, <1>3, <2>1, <2>2, <2>4, <2>5 DEF JobGood, JobOwn
  <2> QED
    BY <1>2, <1>5, <2>3, <2>6, OneJob, JobStep
<1> QED
  BY <1>2, <1>4, <1>5

LEMMA CallOK ==
  ASSUME IInv, NEW j \in Jobs, Call(j)
  PROVE  IInv'
<1>1. PICK p : p = job[j]
  OBVIOUS
<1>2. /\ p.at \in {"op", "create"} /\ UNCHANGED <<issued, cache, client>>
  BY <1>1 DEF Call, disk
<1>3. PICK r : \E n \in {0, 1} :
         /\ r = [p EXCEPT !.done = @ + n]
         /\ \/ Become(j, [r EXCEPT !.at = "ask", !.first = r.sent])
            \/ \E at \in {"create", "refused", "end"} : Become(j, [r EXCEPT !.at = at])
  BY <1>1 DEF Call, Changes, Renew
<1>4. JobGood(p, issued) /\ p \in JobSet /\ issued \in Counts
  BY <1>1, OneJob
<1>5. /\ r \in JobSet /\ r.at = p.at /\ r.bot = p.bot /\ r.tok = p.tok /\ r.first = p.first
      /\ r.sent = p.sent /\ r.copy = p.copy
  BY <1>3, <1>4 DEF JobSet
<1>6. JobGood(r, issued)
  BY <1>4, <1>5 DEF JobGood, JobOwn
<1>7. CASE Become(j, [r EXCEPT !.at = "ask", !.first = r.sent])
  <2>1. PICK q : q = [r EXCEPT !.at = "ask", !.first = r.sent]
    OBVIOUS
  <2>2. /\ q \in JobSet /\ q.at = "ask" /\ q.bot = r.bot /\ q.tok = r.tok /\ q.first = r.sent
        /\ q.sent = r.sent /\ q.copy = r.copy
    BY <1>5, <2>1 DEF JobSet, Places
  <2>3. JobGood(q, issued)
    BY <1>2, <1>5, <1>6, <2>2 DEF JobGood, JobOwn
  <2> QED
    BY <1>2, <1>7, <2>1, <2>3, OneJob, JobStep
<1>8. ASSUME NEW at \in {"create", "refused", "end"}, Become(j, [r EXCEPT !.at = at])
      PROVE  IInv'
  <2>1. JobGood([r EXCEPT !.at = at], issued)
    BY <1>2, <1>4, <1>5, <1>6, Moved DEF Places
  <2> QED
    BY <1>2, <1>8, <2>1, OneJob, JobStep
<1> QED
  BY <1>3, <1>7, <1>8

LEMMA IdleOK ==
  ASSUME IInv, NEW j \in Jobs, AskFailed(j) \/ End(j) \/ Kill(j)
  PROVE  IInv'
<1>1. Become(j, Idle) /\ UNCHANGED <<issued, cache, client>>
  BY DEF AskFailed, End, Kill, botx, disk
<1> QED
  BY <1>1, IdleGood, OneJob, JobStep

LEMMA OutsideOK ==
  ASSUME IInv, Revoke \/ Expire \/ UNCHANGED vars
  PROVE  IInv'
<1>1. UNCHANGED <<issued, cache, client, job>>
  BY DEF Revoke, Expire, botx, disk, vars
<1> QED
  BY <1>1 DEF IInv
-----------------------------------------------------------------------------
(* IInv is an invariant of the server, the commands and their cache.       *)
THEOREM Invariance == Spec => []IInv
<1>1. IInv /\ [Next]_vars => IInv'
  <2> SUFFICES ASSUME IInv, [Next]_vars PROVE IInv'
    OBVIOUS
  <2>1. CASE Revoke \/ Expire \/ UNCHANGED vars
    BY <2>1, OutsideOK
  <2>2. ASSUME NEW j \in Jobs, Start(j) PROVE IInv'
    BY <2>2, StartRequestOK, StartBootOK, StartCommandOK DEF Start
  <2>3. ASSUME NEW j \in Jobs, Step(j) PROVE IInv'
    BY <2>3, GetOK, AskOK, CopyOK, TruncateOK, WriteOK, StoreOK, ReadOK, CallOK, IdleOK DEF Step
  <2> QED
    BY <2>1, <2>2, <2>3 DEF Next
<1> QED
  BY <1>1, InitOK, PTL DEF Spec

(* A token serves the bot it was given to, whatever shares the cache and   *)
(* the clients, and whatever writes of either are torn, lost or interleaved*)
THEOREM TokensStayHome == Spec => []OwnToken
  BY Invariance, IInvImplies, PTL
-----------------------------------------------------------------------------
(* DoneOnce, strengthened: nothing is done before the end, one chats create*)
(* at a time where none overlapped, and it creates only what is not there. *)
Creates(r, b) == r.kind = "create" /\ r.bot = b

Sole == \A b \in Bots \ overlap, i, j \in Jobs : Creates(job[i], b) /\ Creates(job[j], b) => i = j

Undone == \A j \in Jobs : /\ job[j].done \in {0, 1}
                          /\ job[j].at \notin {"end", "refused"} => job[j].done = 0

NoneYet == \A j \in Jobs : job[j].at = "create" =>
             /\ job[j].kind = "create"
             /\ job[j].bot \notin overlap => chats[job[j].bot] = 0

OnceInv == /\ chats \in [Bots -> Nat] /\ \A b \in Bots \ overlap : chats[b] <= 1
           /\ Sole /\ Undone /\ NoneYet

LEMMA OnceImplies == OnceInv => DoneOnce
<1> SUFFICES ASSUME OnceInv PROVE DoneOnce
  OBVIOUS
<1>1. ASSUME NEW j \in Jobs PROVE job[j].done <= 1
  BY job[j].done \in {0, 1} DEF OnceInv, Undone
<1> QED
  BY <1>1 DEF OnceInv, DoneOnce

LEMMA OnceInit == Init => OnceInv
  BY DEF Init, OnceInv, Sole, Undone, NoneYet, Idle, Creates

(* A step of a job short of its calls, and of one that creates no chat.    *)
Trails(j, q) ==
  \/ q.kind # "create" /\ q.done = 0 /\ q.at # "create"
  \/ /\ q.kind = job[j].kind /\ q.bot = job[j].bot /\ q.done = job[j].done /\ q.at # "create"
     /\ job[j].at \notin {"end", "refused"}

LEMMA Trailed ==
  ASSUME IInv, OnceInv, NEW j \in Jobs, NEW q, Become(j, q), Trails(j, q),
         UNCHANGED chats, overlap' = overlap
  PROVE  OnceInv'
<1>1. job'[j] = q /\ \A i \in Jobs \ {j} : job'[i] = job[i]
  BY DEF Become, IInv, JobsGood
<1>2. Sole'
  BY <1>1 DEF OnceInv, Sole, Creates, Trails
<1>3. Undone'
  BY <1>1 DEF OnceInv, Undone, Trails
<1>4. NoneYet'
  BY <1>1 DEF OnceInv, NoneYet, Trails
<1> QED
  BY <1>2, <1>3, <1>4 DEF OnceInv

LEMMA GotTrails ==
  ASSUME NEW j \in Jobs, NEW r \in JobSet, Got(j, r), r.kind = job[j].kind, r.bot = job[j].bot,
         r.done = job[j].done, job[j].at \notin {"end", "refused"}
  PROVE  \E q : Become(j, q) /\ Trails(j, q)
<1>1. PICK q : q \in {Idle, [r EXCEPT !.at = "store", !.left = {"ptr", "len"}],
                      [r EXCEPT !.at = "op", !.sent = r.tok],
                      [r EXCEPT !.at = "ask", !.first = r.tok]}
               /\ Become(j, q)
  BY GotBecomes
<1>2. CASE q = Idle
  BY <1>1, <1>2 DEF Trails, Idle
<1>3. CASE q # Idle
  <2>1. q.kind = r.kind /\ q.bot = r.bot /\ q.done = r.done /\ q.at \in {"store", "op", "ask"}
    BY <1>1, <1>3 DEF JobSet
  <2> QED
    BY <1>1, <2>1 DEF Trails
<1> QED
  BY <1>2, <1>3

LEMMA StepTrails ==
  ASSUME IInv, NEW j \in Jobs, Step(j), ~Call(j)
  PROVE  UNCHANGED <<chats, overlap>> /\ \E q : Become(j, q) /\ Trails(j, q)
<1>1. PICK r : r = job[j]
  OBVIOUS
<1>2. r \in JobSet
  BY <1>1, OneJob
<1>3. CASE AskFailed(j) \/ End(j) \/ Kill(j)
  <2>1. Become(j, Idle) /\ UNCHANGED <<chats, overlap>>
    BY <1>3 DEF AskFailed, End, Kill, botx
  <2> QED
    BY <2>1 DEF Trails, Idle
<1>4. ASSUME NEW q, NEW at \in {"ask", "copy", "truncate", "write", "store", "read", "op"},
             Become(j, q), r.at \notin {"end", "refused"},
             q.kind = r.kind, q.bot = r.bot, q.done = r.done, q.at = at
      PROVE  \E x : Become(j, x) /\ Trails(j, x)
  BY <1>1, <1>4 DEF Trails
<1>5. CASE Get(j)
  <2>1. UNCHANGED <<chats, overlap>> /\ r.at = "get" /\ r.bot \in Bots
    BY <1>1, <1>5, OneJob DEF Get, botx
  <2>2. PICK tok : tok = Fresh(Readable)[r.bot]
    OBVIOUS
  <2>3. CASE Got(j, [r EXCEPT !.tok = tok])
    <3>1. PICK q : q = [r EXCEPT !.tok = tok]
      OBVIOUS
    <3>2. tok \in Texts
      BY <2>1, <2>2, ReadableKeeps DEF Keeps
    <3>3. q \in JobSet /\ q.kind = r.kind /\ q.bot = r.bot /\ q.done = r.done
      BY <1>2, <3>1, <3>2 DEF JobSet
    <3> QED
      BY <1>1, <2>1, <2>3, <3>1, <3>3, GotTrails
  <2>4. CASE Become(j, [r EXCEPT !.at = "ask"])
    <3>1. PICK q : q = [r EXCEPT !.at = "ask"]
      OBVIOUS
    <3>2. q.kind = r.kind /\ q.bot = r.bot /\ q.done = r.done /\ q.at = "ask"
      BY <1>2, <3>1 DEF JobSet
    <3> QED
      BY <1>4, <2>1, <2>4, <3>1, <3>2
  <2> QED
    BY <1>1, <1>5, <2>2, <2>3, <2>4 DEF Get, Goto, CacheKey
<1>6. CASE Ask(j)
  <2>1. PICK tok : tok = <<r.bot, issued[r.bot] + 1>>
    OBVIOUS
  <2>2. /\ UNCHANGED <<chats, overlap>> /\ r.at = "ask"
        /\ Got(j, [r EXCEPT !.tok = tok]) \/ Become(j, [r EXCEPT !.tok = tok, !.at = "copy"])
    BY <1>1, <1>6, <2>1 DEF Ask
  <2>3. tok \in Texts
    BY <1>1, <2>1, <2>2, OneJob DEF Texts, Counts
  <2>4. PICK p, q : p = [r EXCEPT !.tok = tok] /\ q = [r EXCEPT !.tok = tok, !.at = "copy"]
    OBVIOUS
  <2>5. p \in JobSet /\ p.kind = r.kind /\ p.bot = r.bot /\ p.done = r.done
    BY <1>2, <2>3, <2>4 DEF JobSet
  <2>6. q.kind = r.kind /\ q.bot = r.bot /\ q.done = r.done /\ q.at = "copy"
    BY <1>2, <2>4 DEF JobSet
  <2>7. CASE Got(j, p)
    BY <1>1, <2>2, <2>5, <2>7, GotTrails
  <2>8. CASE Become(j, q)
    BY <1>4, <2>2, <2>6, <2>8
  <2> QED
    BY <2>2, <2>4, <2>7, <2>8
<1>7. CASE Copy(j)
  <2>1. UNCHANGED <<chats, overlap>> /\ r.at = "copy"
    BY <1>1, <1>7 DEF Copy, botx
  <2>2. PICK at \in {"truncate", "write"} : \E content :
           Become(j, Idle) \/ Become(j, [r EXCEPT !.copy = content, !.at = at])
    BY <1>1, <1>7 DEF Copy
  <2>3. PICK q : /\ Become(j, Idle) \/ Become(j, q)
                 /\ \E content : q = [r EXCEPT !.copy = content, !.at = at]
    BY <2>2
  <2>4. q.kind = r.kind /\ q.bot = r.bot /\ q.done = r.done /\ q.at = at
    BY <1>2, <2>3 DEF JobSet
  <2>5. CASE Become(j, Idle)
    BY <2>1, <2>5 DEF Trails, Idle
  <2>6. CASE Become(j, q)
    BY <1>4, <2>1, <2>4, <2>6
  <2> QED
    BY <2>3, <2>5, <2>6
<1>8. CASE Truncate(j)
  <2>1. /\ UNCHANGED <<chats, overlap>> /\ r.at = "truncate"
        /\ Become(j, [r EXCEPT !.at = "write"])
    BY <1>1, <1>8 DEF Truncate, botx, Goto
  <2>2. PICK q : q = [r EXCEPT !.at = "write"]
    OBVIOUS
  <2>3. q.kind = r.kind /\ q.bot = r.bot /\ q.done = r.done /\ q.at = "write"
    BY <1>2, <2>2 DEF JobSet
  <2> QED
    BY <1>4, <2>1, <2>2, <2>3
<1>9. CASE Write(j)
  <2>1. /\ UNCHANGED <<chats, overlap>> /\ r.at = "write"
        /\ Got(j, [r EXCEPT !.copy = Nothing])
    BY <1>1, <1>9 DEF Write, botx
  <2>2. PICK q : q = [r EXCEPT !.copy = Nothing]
    OBVIOUS
  <2>3. q \in JobSet /\ q.kind = r.kind /\ q.bot = r.bot /\ q.done = r.done
    BY <1>2, <2>2, NoneGiven DEF JobSet
  <2> QED
    BY <1>1, <2>1, <2>2, <2>3, GotTrails
<1>10. CASE Store(j)
  <2>1. PICK at \in {"read", "store"} :
           /\ UNCHANGED <<chats, overlap>> /\ r.at = "store"
           /\ \E w : Become(j, [r EXCEPT !.left = @ \ {w}, !.at = at])
    BY <1>1, <1>10 DEF Store, botx
  <2>2. PICK q : Become(j, q) /\ \E w : q = [r EXCEPT !.left = @ \ {w}, !.at = at]
    BY <2>1
  <2>3. q.kind = r.kind /\ q.bot = r.bot /\ q.done = r.done /\ q.at = at
    BY <1>2, <2>2 DEF JobSet
  <2> QED
    BY <1>4, <2>1, <2>2, <2>3
<1>11. CASE Read(j)
  <2>1. UNCHANGED <<chats, overlap>> /\ r.at = "read"
    BY <1>1, <1>11 DEF Read, botx
  <2>2. CASE Become(j, Idle)
    BY <2>1, <2>2 DEF Trails, Idle
  <2>3. ASSUME NEW tok, NEW mine, Become(j, [r EXCEPT !.at = "op", !.sent = tok, !.tok = mine])
        PROVE  \E q : Become(j, q) /\ Trails(j, q)
    <3>1. PICK q : q = [r EXCEPT !.at = "op", !.sent = tok, !.tok = mine]
      OBVIOUS
    <3>2. q.kind = r.kind /\ q.bot = r.bot /\ q.done = r.done /\ q.at = "op"
      BY <1>2, <3>1 DEF JobSet
    <3> QED
      BY <1>4, <2>1, <2>3, <3>1, <3>2
  <2>4. \/ Become(j, Idle)
        \/ \E tok, mine : Become(j, [r EXCEPT !.at = "op", !.sent = tok, !.tok = mine])
    BY <1>1, <1>11 DEF Read
  <2> QED
    BY <2>1, <2>2, <2>3, <2>4
<1> QED
  BY <1>3, <1>5, <1>6, <1>7, <1>8, <1>9, <1>10, <1>11 DEF Step

LEMMA CallOnce ==
  ASSUME IInv, OnceInv, NEW j \in Jobs, Call(j)
  PROVE  OnceInv'
<1>1. PICK p : p = job[j]
  OBVIOUS
<1>2. p \in JobSet /\ p.at \in {"op", "create"} /\ overlap' = overlap
  BY <1>1, OneJob DEF Call
<1>3. /\ p.done = 0 /\ p.bot \in Bots
      /\ p.at = "create" => p.kind = "create" /\ (p.bot \notin overlap => chats[p.bot] = 0)
  <2>1. p.bot \in Bots
    BY <1>1, <1>2, OneJob
  <2>2. p.done = 0
    BY <1>1, <1>2 DEF OnceInv, Undone
  <2>3. p.at = "create" => p.kind = "create" /\ (p.bot \notin overlap => chats[p.bot] = 0)
    BY <1>1 DEF OnceInv, NoneYet
  <2> QED
    BY <2>1, <2>2, <2>3
<1>4. PICK outcome, n : outcome \in Outcomes(j) /\ n \in Changes(p, outcome) /\
         LET r == [p EXCEPT !.done = @ + n]
             create == Looks(r) /\ outcome = "ok" /\ chats[r.bot] = 0
         IN /\ IF Again(j, outcome) THEN Renew(j, r)
               ELSE Become(j, [r EXCEPT !.at = IF create THEN "create"
                                               ELSE IF outcome = "refused" THEN "refused" ELSE "end"])
            /\ chats' = IF r.kind = "create" THEN [chats EXCEPT ![r.bot] = @ + n] ELSE chats
  BY <1>1 DEF Call
<1>5. /\ n \in {0, 1}
      /\ p.kind = "create" /\ p.at = "op" => n = 0
      /\ outcome = "refused" => n = 0
  BY <1>1, <1>4 DEF Changes, Looks, Outcomes
<1>6. PICK r : r = [p EXCEPT !.done = @ + n] /\ r = [p EXCEPT !.done = n]
  <2>1. p.done + n = n
    BY <1>3, <1>5
  <2> QED
    BY <2>1
<1>7. r \in JobSet /\ r.done = n /\ r.kind = p.kind /\ r.bot = p.bot /\ r.at = p.at
  <2>1. n \in Nat
    BY <1>5
  <2> QED
    BY <1>2, <1>6, <2>1 DEF JobSet
<1>8. PICK q : /\ Become(j, q) /\ q.kind = p.kind /\ q.bot = p.bot /\ q.done = n
               /\ \/ q.at \in {"refused", "end"}
                  \/ q.at = "ask" /\ n = 0
                  \/ q.at = "create" /\ n = 0 /\ p.kind = "create" /\ chats[p.bot] = 0
  <2>1. CASE Again(j, outcome)
    <3>1. PICK q : q = [r EXCEPT !.at = "ask", !.first = r.sent]
      OBVIOUS
    <3>2. q.kind = p.kind /\ q.bot = p.bot /\ q.done = n /\ q.at = "ask"
      BY <1>7, <3>1 DEF JobSet
    <3> QED
      BY <1>4, <1>5, <1>6, <2>1, <3>1, <3>2 DEF Again, Renew
  <2>2. CASE ~Again(j, outcome)
    <3>1. PICK at : at = IF Looks(r) /\ outcome = "ok" /\ chats[r.bot] = 0 THEN "create"
                         ELSE IF outcome = "refused" THEN "refused" ELSE "end"
      OBVIOUS
    <3>2. PICK q : q = [r EXCEPT !.at = at]
      OBVIOUS
    <3>3. q.kind = p.kind /\ q.bot = p.bot /\ q.done = n /\ q.at = at
      BY <1>7, <3>2 DEF JobSet
    <3>4. Become(j, q)
      BY <1>4, <1>6, <2>2, <3>1, <3>2
    <3>5. at = "create" => p.kind = "create" /\ n = 0 /\ chats[p.bot] = 0
      BY <1>5, <1>7, <3>1 DEF Looks
    <3> QED
      BY <3>1, <3>3, <3>4, <3>5
  <2> QED
    BY <2>1, <2>2
<1>9. chats' = IF p.kind = "create" THEN [chats EXCEPT ![p.bot] = @ + n] ELSE chats
  BY <1>4, <1>6, <1>7
<1>10. job'[j] = q /\ \A i \in Jobs \ {j} : job'[i] = job[i]
  BY <1>8 DEF Become, IInv, JobsGood
<1>11. Sole' /\ Undone'
  BY <1>1, <1>2, <1>5, <1>8, <1>10 DEF OnceInv, Sole, Undone, Creates
<1>12. chats' \in [Bots -> Nat]
  BY <1>3, <1>5, <1>9 DEF OnceInv
<1>13. CASE n = 0
  <2>1. chats' = chats
    BY <1>3, <1>9, <1>13 DEF OnceInv
  <2> QED
    BY <1>2, <1>8, <1>10, <1>11, <2>1 DEF OnceInv, NoneYet
<1>14. CASE n = 1
  <2>1. \A b \in Bots \ overlap : chats'[b] <= 1
    BY <1>2, <1>3, <1>5, <1>9, <1>14 DEF OnceInv
  <2>2. q.at # "create"
    BY <1>8, <1>14
  <2>3. ASSUME NEW i \in Jobs, job'[i].at = "create", job'[i].bot \notin overlap
        PROVE  job'[i].kind = "create" /\ chats'[job'[i].bot] = 0
    <3>1. i # j /\ job'[i] = job[i]
      BY <1>10, <2>2, <2>3
    <3>2. job[i].kind = "create" /\ chats[job[i].bot] = 0 /\ job[i].bot \in Bots
      BY <2>3, <3>1, OneJob DEF OnceInv, NoneYet
    <3>3. CASE p.kind = "create" /\ p.bot = job[i].bot
      BY <1>1, <2>3, <3>1, <3>2, <3>3 DEF OnceInv, Sole, Creates
    <3>4. CASE ~(p.kind = "create" /\ p.bot = job[i].bot)
      BY <1>3, <1>9, <3>1, <3>2, <3>4 DEF OnceInv
    <3> QED
      BY <3>3, <3>4
  <2>4. \A i \in Jobs : job'[i].at = "create" => job'[i].kind = "create"
    BY <1>10, <2>2 DEF OnceInv, NoneYet
  <2> QED
    BY <1>2, <1>11, <1>12, <2>1, <2>3, <2>4 DEF OnceInv, NoneYet
<1> QED
  BY <1>5, <1>13, <1>14

LEMMA StartOnce ==
  ASSUME IInv, OnceInv, NEW j \in Jobs, Start(j)
  PROVE  OnceInv'
<1>1. ASSUME NEW k, NEW b, NEW at, NEW tok
      PROVE  New(k, b, at, tok).kind = k /\ New(k, b, at, tok).bot = b
             /\ New(k, b, at, tok).done = 0 /\ New(k, b, at, tok).at = at
  BY DEF New, Idle
<1>2. CASE StartRequest(j)
  <2>1. PICK k \in Requests, b \in Bots :
           \/ Become(j, New(k, b, "read", None))
           \/ Become(j, [New(k, b, "read", None) EXCEPT !.at = "ask"])
    BY <1>2 DEF StartRequest, Starts
  <2>2. PICK new, q : new = New(k, b, "read", None) /\ q = [new EXCEPT !.at = "ask"]
    OBVIOUS
  <2>3. new \in JobSet /\ new.kind \in Requests /\ new.done = 0 /\ new.at = "read"
    <3>1. JobGood(New(k, b, "read", None), issued)
      BY NewGood DEF IInv, Kinds, Places
    <3> QED
      BY <1>1, <2>2, <3>1 DEF JobGood
  <2>4. q.kind \in Requests /\ q.done = 0 /\ q.at = "ask"
    BY <2>2, <2>3 DEF JobSet
  <2>5. Trails(j, new) /\ Trails(j, q) /\ UNCHANGED <<chats, overlap>>
    BY <1>2, <2>3, <2>4 DEF Trails, Requests, StartRequest, botx
  <2> QED
    BY <2>1, <2>2, <2>5, Trailed
<1>3. CASE StartBoot(j)
  <2>1. UNCHANGED <<chats, overlap>> /\ (job' = job \/ \E b : Become(j, New("boot", b, "get", None)))
    BY <1>3 DEF StartBoot, botx
  <2>2. ASSUME NEW b, Become(j, New("boot", b, "get", None)) PROVE OnceInv'
    <3>1. Trails(j, New("boot", b, "get", None))
      BY <1>1 DEF Trails
    <3> QED
      BY <2>1, <2>2, <3>1, Trailed
  <2>3. ASSUME job' = job PROVE OnceInv'
    BY <2>1, <2>3 DEF OnceInv, Sole, Undone, NoneYet
  <2> QED
    BY <2>1, <2>2, <2>3
<1>4. CASE StartCommand(j)
  <2>1. PICK k \in Commands, b \in Bots, at \in {"op", "ask", "copy", "get"} :
           /\ \E tok : Become(j, New(k, b, at, tok))
           /\ overlap' = IF k = "create" /\ \E i \in Jobs : job[i].kind = k /\ job[i].bot = b
                         THEN overlap \cup {b} ELSE overlap
    BY <1>4 DEF StartCommand, Starts
  <2>2. PICK q : Become(j, q) /\ q.kind = k /\ q.bot = b /\ q.done = 0 /\ q.at = at
    BY <1>1, <2>1
  <2>3. chats' = chats /\ overlap \subseteq overlap'
    BY <1>4, <2>1 DEF StartCommand, botx
  <2>4. job'[j] = q /\ \A i \in Jobs \ {j} : job'[i] = job[i]
    BY <2>2 DEF Become, IInv, JobsGood
  <2>5. Undone'
    BY <2>2, <2>4 DEF OnceInv, Undone
  <2>6. NoneYet'
    BY <2>2, <2>3, <2>4 DEF OnceInv, NoneYet
  <2>7. Sole'
    BY <2>1, <2>2, <2>3, <2>4 DEF OnceInv, Sole, Creates
  <2> QED
    BY <2>3, <2>5, <2>6, <2>7 DEF OnceInv
<1> QED
  BY <1>2, <1>3, <1>4 DEF Start

(* What was done again was done once, and runs of chats create that do not *)
(* overlap create one chat between them.                                   *)
THEOREM Once == Spec => []DoneOnce
<1>1. IInv /\ OnceInv /\ [Next]_vars => OnceInv'
  <2> SUFFICES ASSUME IInv, OnceInv, [Next]_vars PROVE OnceInv'
    OBVIOUS
  <2>1. CASE Revoke \/ Expire \/ UNCHANGED vars
    <3>1. UNCHANGED <<chats, overlap, job>>
      BY <2>1 DEF Revoke, Expire, botx, vars
    <3> QED
      BY <3>1 DEF OnceInv, Sole, Undone, NoneYet
  <2>2. ASSUME NEW j \in Jobs, Start(j) PROVE OnceInv'
    BY <2>2, StartOnce
  <2>3. ASSUME NEW j \in Jobs, Step(j) PROVE OnceInv'
    <3>1. CASE Call(j)
      BY <3>1, CallOnce
    <3>2. CASE ~Call(j)
      BY <2>3, <3>2, StepTrails, Trailed
    <3> QED
      BY <3>1, <3>2
  <2> QED
    BY <2>1, <2>2, <2>3 DEF Next
<1> QED
  BY <1>1, OnceInit, OnceImplies, Invariance, PTL DEF Spec
-----------------------------------------------------------------------------
(* RefusedTwice, strengthened.  The words a request writes into a client   *)
(* are of a token nobody else writes: until it has written the first word  *)
(* the token is in no client, and no other request knows it.  So once a    *)
(* request that was refused has written, what it reads back is not what    *)
(* was refused.                                                            *)
Requesting(r) == r.kind \in Requests
HasCalled(r)  == r.at \in {"op", "create", "refused", "end"}
Pending(r)    == Requesting(r) /\ \/ r.at \in {"copy", "truncate", "write"}
                                  \/ r.at = "store" /\ "ptr" \in r.left

JobFresh(r) ==
  /\ r.at = "idle" => ~Requesting(r)
  /\ r.at = "get" => ~Requesting(r) /\ r.first = None
  /\ r.at \in {"store", "read"} => Requesting(r)
  /\ r.first # None /\ r.at \notin {"idle", "ask"} => r.tok # r.first
  /\ Pending(r) => r.tok # None
  /\ HasCalled(r) => r.sent = r.tok \/ r.kind = "send"
  /\ HasCalled(r) /\ r.first # None => r.sent # r.first \/ r.sent = Garbled
  /\ r.at = "refused" /\ r.bot \notin StaticBots => r.first # None

(* What a request finds in its client, and a lookup, which is alone there. *)
ClientFresh(r, cl) ==
  /\ Requesting(r) /\ r.first # None /\ (r.at = "read" \/ (r.at = "store" /\ "ptr" \notin r.left))
     => cl[ClientOf(r)].ptr # r.first
  /\ r.kind = "lookup" /\ r.at = "store"
     => \A w \in {"ptr", "len"} \ r.left : cl[ClientOf(r)][w] = r.tok
  /\ r.kind = "lookup" /\ r.at = "read" /\ r.first # None
     => cl[ClientOf(r)].ptr = r.tok /\ cl[ClientOf(r)].len = r.tok

Knows(r, tok) == r.sent = tok \/ r.first = tok \/ (Pending(r) /\ r.tok = tok)

NovelIn(j, tok, cl, js) == /\ \A c \in Clients : cl[c].ptr # tok
                           /\ \A i \in Jobs \ {j} : Requesting(js[i]) => ~Knows(js[i], tok)
Novel(j, tok) == NovelIn(j, tok, client, job)

(* The server serves once all its clients are made, one after the other.   *)
InTurn ==
  /\ \A j \in Jobs : /\ Requesting(job[j]) => booted = Bots
                     /\ job[j].kind = "boot" => job[j].bot \in Bots \ booted
  /\ \A i, j \in Jobs : job[i].kind = "boot" /\ job[j].kind = "boot" => i = j
  /\ \A i, j \in Jobs : job[i].kind = "lookup" /\ job[j].kind = "lookup" /\ job[i].bot = job[j].bot
                      => i = j

FreshInv == /\ \A j \in Jobs : /\ JobFresh(job[j]) /\ ClientFresh(job[j], client)
                               /\ Pending(job[j]) => Novel(j, job[j].tok)
            /\ InTurn

LEMMA FreshImplies == FreshInv => RefusedTwice
  BY DEF FreshInv, JobFresh, HasCalled, RefusedTwice, Static

LEMMA IdleFresh == JobFresh(Idle) /\ ~Requesting(Idle) /\ ~Pending(Idle) /\ Idle.kind = "none"
  BY DEF JobFresh, Idle, Requesting, HasCalled, Pending, Requests

LEMMA FreshInit == Init => FreshInv
<1> SUFFICES ASSUME Init PROVE FreshInv
  OBVIOUS
<1>1. \A j \in Jobs : job[j] = Idle
  BY DEF Init
<1>2. \A cl : ClientFresh(Idle, cl)
  BY DEF ClientFresh, Idle, Requesting, Requests
<1> QED
  BY <1>1, <1>2, IdleFresh DEF FreshInv, InTurn, Idle

(* A job may take up q without getting in another's way.                   *)
Admits(j, q) ==
  \/ q.kind \in {"none"} \cup Commands
  \/ q.kind = job[j].kind /\ q.bot = job[j].bot
  \/ q.kind = "boot" /\ q.bot \in Bots \ booted /\ \A i \in Jobs : job[i].kind # "boot"
  \/ /\ q.kind \in Requests /\ booted = Bots
     /\ q.kind = "lookup" => \A i \in Jobs : job[i].kind # "lookup" \/ job[i].bot # q.bot

(* A step of one job that leaves the clients alone.                        *)
LEMMA FreshStep ==
  ASSUME IInv, FreshInv, NEW j \in Jobs, NEW q, Become(j, q), Admits(j, q),
         UNCHANGED <<client, booted>>, JobFresh(q), ClientFresh(q, client),
         Pending(q) => Novel(j, q.tok),
         Requesting(q) => \A i \in Jobs \ {j} : Pending(job[i]) => ~Knows(q, job[i].tok)
  PROVE  FreshInv'
<1>1. job'[j] = q /\ \A i \in Jobs \ {j} : job'[i] = job[i]
  BY DEF Become, IInv, JobsGood
<1>2. InTurn'
  <2>1. q.kind \in Commands \cup {"none"} => ~Requesting(q) /\ q.kind \notin {"boot", "lookup"}
    BY DEF Requesting, Requests, Commands
  <2>2. \A i \in Jobs : /\ Requesting(job'[i]) => booted = Bots
                        /\ job'[i].kind = "boot" => job'[i].bot \in Bots \ booted
    BY <1>1, <2>1 DEF FreshInv, InTurn, Admits, Requesting, Requests
  <2>3. \A i \in Jobs \ {j} : ~(q.kind = "boot" /\ job[i].kind = "boot")
    BY <2>1 DEF FreshInv, InTurn, Admits, Requests
  <2>4. \A i \in Jobs \ {j} : ~(q.kind = "lookup" /\ job[i].kind = "lookup" /\ q.bot = job[i].bot)
    BY <2>1 DEF FreshInv, InTurn, Admits, Requests
  <2> QED
    BY <1>1, <2>2, <2>3, <2>4 DEF FreshInv, InTurn, Requesting
<1>3. ASSUME NEW i \in Jobs
      PROVE  /\ JobFresh(job'[i]) /\ ClientFresh(job'[i], client')
             /\ Pending(job'[i]) => NovelIn(i, job'[i].tok, client', job')
  <2>1. CASE i = j
    BY <1>1, <2>1 DEF Novel, NovelIn
  <2>2. CASE i # j
    <3>1. JobFresh(job'[i]) /\ ClientFresh(job'[i], client')
      BY <1>1, <2>2 DEF FreshInv
    <3>2. ASSUME Pending(job[i]) PROVE NovelIn(i, job[i].tok, client', job')
      <4>1. Novel(i, job[i].tok)
        BY <3>2 DEF FreshInv
      <4>2. Requesting(q) => ~Knows(q, job[i].tok)
        BY <2>2, <3>2
      <4> QED
        BY <1>1, <2>2, <4>1, <4>2 DEF Novel, NovelIn
    <3> QED
      BY <1>1, <2>2, <3>1, <3>2
  <2> QED
    BY <2>1, <2>2
<1> QED
  BY <1>2, <1>3 DEF FreshInv, JobFresh, ClientFresh, Pending, Requesting, HasCalled, Novel, NovelIn, ClientOf

LEMMA FreshIdle ==
  ASSUME IInv, FreshInv, NEW j \in Jobs, Become(j, Idle), UNCHANGED <<client, booted>>
  PROVE  FreshInv'
<1>1. Admits(j, Idle) /\ ClientFresh(Idle, client)
  BY IdleFresh DEF Admits, ClientFresh, Requesting
<1> QED
  BY <1>1, IdleFresh, FreshStep

(* While a client is made no request has come.                             *)
LEMMA FreshBoot ==
  ASSUME IInv, FreshInv, NEW j \in Jobs, job[j].kind = "boot", Become(j, Idle),
         booted' \in {booted, booted \cup {job[j].bot}}
  PROVE  FreshInv'
<1>1. job'[j] = Idle /\ \A i \in Jobs \ {j} : job'[i] = job[i]
  BY DEF Become, IInv, JobsGood
<1>2. \A i \in Jobs \ {j} : job[i].kind # "boot" /\ ~Requesting(job[i])
  BY DEF FreshInv, InTurn
<1>3. \A i \in Jobs : /\ ~Requesting(job'[i]) /\ job'[i].kind # "boot" /\ job'[i].kind # "lookup"
                      /\ JobFresh(job'[i])
  BY <1>1, <1>2, IdleFresh DEF FreshInv, Requesting, Requests
<1>4. InTurn'
  BY <1>3 DEF InTurn, Requesting
<1> QED
  BY <1>3, <1>4 DEF FreshInv, Pending, ClientFresh, Requesting, JobFresh, HasCalled
-----------------------------------------------------------------------------
LEMMA StartFresh ==
  ASSUME IInv, FreshInv, NEW j \in Jobs, Start(j)
  PROVE  FreshInv'
<1>1. ASSUME NEW k, NEW b, NEW at, NEW tok, NEW q, q = New(k, b, at, tok)
      PROVE  /\ q.kind = k /\ q.bot = b /\ q.at = at /\ q.tok = tok
             /\ q.sent = tok /\ q.first = None
  BY <1>1 DEF New, Idle
<1>2. CASE StartRequest(j)
  <2>1. PICK k \in Requests, b \in Bots : \E q :
           /\ q = New(k, b, "read", None) \/ q = [New(k, b, "read", None) EXCEPT !.at = "ask"]
           /\ Become(j, q) /\ booted = Bots /\ UNCHANGED <<client, booted>>
           /\ k = "lookup" => \A i \in Jobs : job[i].kind # "lookup" \/ job[i].bot # b
    BY <1>2 DEF StartRequest, Starts
  <2>0. PICK q :
           /\ q = New(k, b, "read", None) \/ q = [New(k, b, "read", None) EXCEPT !.at = "ask"]
           /\ Become(j, q) /\ booted = Bots /\ UNCHANGED <<client, booted>>
           /\ k = "lookup" => \A i \in Jobs : job[i].kind # "lookup" \/ job[i].bot # b
    BY <2>1
  <2>2. /\ q.kind = k /\ q.bot = b /\ q.at \in {"read", "ask"}
        /\ q.tok = None /\ q.sent = None /\ q.first = None
    BY <2>0 DEF New, Idle
  <2>3. Requesting(q) /\ ~Pending(q) /\ JobFresh(q) /\ ClientFresh(q, client) /\ Admits(j, q)
    BY <2>0, <2>2 DEF Requesting, Pending, JobFresh, ClientFresh, HasCalled, Admits
  <2>4. \A i \in Jobs \ {j} : Pending(job[i]) => ~Knows(q, job[i].tok)
    BY <2>2, <2>3 DEF FreshInv, JobFresh, Knows
  <2> QED
    BY <2>0, <2>3, <2>4, FreshStep
<1>3. CASE StartBoot(j)
  <2>1. PICK b \in Bots \ booted :
         IF b \in StaticBots
         THEN Made(b, <<b, 0>>) /\ booted' = booted \cup {b} /\ UNCHANGED job
         ELSE Become(j, New("boot", b, "get", None)) /\ UNCHANGED <<client, booted>>
    BY <1>3 DEF StartBoot
  <2>2. \A i \in Jobs : job[i].kind # "boot" /\ ~Requesting(job[i])
    BY <1>3, <2>1 DEF StartBoot, FreshInv, InTurn
  <2>3. CASE job' = job
    <3>1. InTurn'
      BY <2>2, <2>3 DEF FreshInv, InTurn, Requesting
    <3>2. \A i \in Jobs : /\ JobFresh(job[i]) /\ job[i].kind # "lookup" /\ ~Requesting(job[i])
                          /\ ~Pending(job[i])
      BY <2>2 DEF FreshInv, Requesting, Requests, Pending
    <3> QED
      BY <2>3, <3>1, <3>2
      DEF FreshInv, JobFresh, ClientFresh, Pending, Requesting, HasCalled
  <2>4. ASSUME NEW q, q = New("boot", b, "get", None), Become(j, q), UNCHANGED <<client, booted>>
        PROVE  FreshInv'
    <3>1. ~Requesting(q) /\ ~Pending(q) /\ JobFresh(q) /\ ClientFresh(q, client) /\ Admits(j, q)
      BY <1>1, <2>1, <2>2, <2>4
      DEF Requesting, Requests, Pending, JobFresh, ClientFresh, HasCalled, Admits
    <3> QED
      BY <2>4, <3>1, FreshStep
  <2> QED
    BY <2>1, <2>3, <2>4
<1>4. CASE StartCommand(j)
  <2>1. PICK k \in Commands, b \in Bots, at \in {"op", "ask", "copy", "get"} :
         \E tok : Become(j, New(k, b, at, tok))
    BY <1>4 DEF StartCommand, Starts
  <2>2. PICK tok, q : q = New(k, b, at, tok) /\ Become(j, q)
    BY <2>1
  <2>3. ~Requesting(q) /\ ~Pending(q) /\ JobFresh(q) /\ ClientFresh(q, client) /\ Admits(j, q)
    BY <1>1, <2>2
    DEF Requesting, Requests, Commands, Pending, JobFresh, ClientFresh, HasCalled, Admits
  <2> QED
    BY <1>4, <2>2, <2>3, FreshStep DEF StartCommand
<1> QED
  BY <1>2, <1>3, <1>4 DEF Start

(* A job that has a token which is not the one that was refused, and, if it*)
(* is a request's, new.                                                    *)
LEMMA GotFresh ==
  ASSUME IInv, FreshInv, NEW j \in Jobs, NEW r \in JobSet, Got(j, r), r.kind = job[j].kind,
         r.bot = job[j].bot, r.first = job[j].first, r.sent = job[j].sent,
         r.first # None => r.tok # r.first,
         Requesting(r) => r.tok # None /\ Novel(j, r.tok)
  PROVE  FreshInv'
<1>1. CASE r.kind = "boot"
  BY <1>1, FreshBoot DEF Got
<1>2. CASE Requesting(r)
  <2>1. PICK q : q = [r EXCEPT !.at = "store", !.left = {"ptr", "len"}]
    OBVIOUS
  <2>2. /\ q.kind = r.kind /\ q.bot = r.bot /\ q.at = "store" /\ q.tok = r.tok
        /\ q.sent = r.sent /\ q.first = r.first /\ q.left = {"ptr", "len"}
    BY <2>1 DEF JobSet
  <2>3. Become(j, q) /\ UNCHANGED <<client, booted>>
    BY <1>2, <2>1 DEF Got, Requesting, Requests
  <2>4. Pending(q) /\ JobFresh(q) /\ ClientFresh(q, client) /\ Admits(j, q) /\ Novel(j, q.tok)
    BY <1>2, <2>2 DEF Pending, JobFresh, ClientFresh, Requesting, HasCalled, Admits
  <2>5. ASSUME NEW i \in Jobs \ {j}, Pending(job[i]) PROVE ~Knows(q, job[i].tok)
    <3>1. Novel(i, job[i].tok) /\ Requesting(job[j]) /\ Requesting(job[i])
      BY <1>2, <2>5 DEF FreshInv, Pending, Requesting
    <3>2. ~Knows(job[j], job[i].tok) /\ ~Knows(job[i], r.tok)
      BY <1>2, <3>1 DEF Novel, NovelIn
    <3> QED
      BY <2>2, <2>5, <3>2 DEF Knows
  <2> QED
    BY <2>3, <2>4, <2>5, FreshStep
<1>3. CASE r.kind # "boot" /\ ~Requesting(r)
  <2>1. PICK q : /\ q \in {Idle, [r EXCEPT !.at = "op", !.sent = r.tok],
                            [r EXCEPT !.at = "ask", !.first = r.tok]}
                 /\ Become(j, q) /\ UNCHANGED <<client, booted>>
    <3>1. UNCHANGED <<client, booted>>
      BY <1>3 DEF Got
    <3>2. CASE r.kind \in {"post", "create"}
      BY <3>1, <3>2 DEF Got
    <3>3. CASE r.kind = "fresh" /\ r.first = None
      BY <3>1, <3>3 DEF Got
    <3>4. CASE r.kind \notin {"post", "create"} /\ ~(r.kind = "fresh" /\ r.first = None)
      BY <1>3, <3>1, <3>4 DEF Got, Requesting, Requests
    <3> QED
      BY <3>2, <3>3, <3>4
  <2>2. CASE q = Idle
    BY <2>1, <2>2, FreshIdle
  <2>3. CASE q # Idle
    <3>1. /\ q.kind = r.kind /\ q.bot = r.bot /\ q.tok = r.tok
          /\ \/ q.at = "op" /\ q.sent = r.tok /\ q.first = r.first
             \/ q.at = "ask"
      BY <2>1, <2>3 DEF JobSet
    <3>2. ~Requesting(q) /\ ~Pending(q) /\ JobFresh(q) /\ ClientFresh(q, client) /\ Admits(j, q)
      BY <1>3, <3>1 DEF Requesting, Requests, Pending, JobFresh, ClientFresh, HasCalled, Admits
    <3> QED
      BY <2>1, <3>2, FreshStep
  <2> QED
    BY <2>2, <2>3
<1> QED
  BY <1>1, <1>2, <1>3

LEMMA GetFresh ==
  ASSUME IInv, FreshInv, NEW j \in Jobs, Get(j)
  PROVE  FreshInv'
<1>1. PICK r, tok, p, q : /\ r = job[j] /\ tok = Fresh(Readable)[job[j].bot]
                          /\ p = [r EXCEPT !.tok = tok] /\ q = [r EXCEPT !.at = "ask"]
  OBVIOUS
<1>2. /\ r.at = "get" /\ r \in JobSet /\ r.bot \in Bots /\ JobFresh(r)
      /\ Got(j, p) \/ (Become(j, q) /\ UNCHANGED <<client, booted>>)
  BY <1>1, OneJob DEF Get, Goto, CacheKey, FreshInv
<1>3. CASE Got(j, p)
  <2>1. tok \in Texts
    BY <1>1, <1>2, ReadableKeeps DEF Keeps
  <2>2. /\ p \in JobSet /\ p.kind = r.kind /\ p.bot = r.bot /\ p.first = r.first
        /\ p.sent = r.sent
    BY <1>1, <1>2, <2>1 DEF JobSet
  <2>3. p.first = None /\ ~Requesting(p)
    BY <1>2, <2>2 DEF JobFresh, Requesting
  <2> QED
    BY <1>1, <1>3, <2>2, <2>3, GotFresh
<1>4. CASE Become(j, q) /\ UNCHANGED <<client, booted>>
  <2>1. q.kind = r.kind /\ q.bot = r.bot /\ q.at = "ask" /\ ~Requesting(q)
    BY <1>1, <1>2 DEF JobSet, JobFresh, Requesting
  <2>2. ~Pending(q) /\ JobFresh(q) /\ ClientFresh(q, client) /\ Admits(j, q)
    BY <1>1, <2>1 DEF Requesting, Requests, Pending, JobFresh, ClientFresh, HasCalled, Admits
  <2> QED
    BY <1>4, <2>1, <2>2, FreshStep
<1> QED
  BY <1>2, <1>3, <1>4

(* The token BotX gives is one nobody has.                                 *)
LEMMA AskFresh ==
  ASSUME IInv, FreshInv, NEW j \in Jobs, Ask(j)
  PROVE  FreshInv'
<1>1. PICK r, b, tok, p, q : /\ r = job[j] /\ b = job[j].bot /\ tok = <<b, issued[b] + 1>>
                             /\ p = [r EXCEPT !.tok = tok] /\ q = [r EXCEPT !.tok = tok, !.at = "copy"]
  OBVIOUS
<1>2. /\ r.at = "ask" /\ r \in JobSet /\ b \in Bots /\ JobGood(r, issued) /\ issued \in Counts
      /\ JobFresh(r) /\ r.bot = b
      /\ Got(j, p) \/ (Become(j, q) /\ UNCHANGED <<client, booted>>)
  BY <1>1, OneJob DEF Ask, FreshInv
<1>3. /\ tok \in Bots \X Nat /\ tok \in Texts /\ tok # None /\ tok # Garbled
      /\ \A x \in Bots : tok \notin Given(x, issued[x]) \cup {Garbled}
  <2>1. issued[b] \in Nat /\ tok = <<b, issued[b] + 1>> /\ tok \in Bots \X Nat
    BY <1>1, <1>2 DEF Counts
  <2>2. tok # None /\ tok # Garbled
    BY <2>1, SyncAssumption DEF SyncAssumption
  <2>3. \A x \in Bots : tok \notin {<<x, i>> : i \in 0 .. issued[x]}
    BY <2>1
  <2> QED
    BY <2>1, <2>2, <2>3 DEF Texts, Given
<1>4. Novel(j, tok)
  <2>1. \A c \in Clients : client[c].ptr # tok
    BY <1>3 DEF IInv, ClientGood, Clients
  <2>2. ASSUME NEW i \in Jobs, Requesting(job[i]) PROVE ~Knows(job[i], tok)
    <3>1. CASE job[i].at # "idle"
      BY <1>3, <3>1, OneJob DEF JobGood, JobOwn, Knows
    <3>2. CASE job[i].at = "idle"
      BY <2>2, <3>2 DEF FreshInv, JobFresh
    <3> QED
      BY <3>1, <3>2
  <2> QED
    BY <2>1, <2>2 DEF Novel, NovelIn
<1>5. r.first # None => tok # r.first
  BY <1>2, <1>3 DEF JobGood, JobOwn
<1>6. CASE Got(j, p)
  <2>1. /\ p \in JobSet /\ p.kind = r.kind /\ p.bot = r.bot /\ p.first = r.first
        /\ p.sent = r.sent /\ p.tok = tok
    BY <1>1, <1>2, <1>3 DEF JobSet
  <2> QED
    BY <1>1, <1>3, <1>4, <1>5, <1>6, <2>1, GotFresh
<1>7. CASE Become(j, q) /\ UNCHANGED <<client, booted>>
  <2>1. /\ q.kind = r.kind /\ q.bot = r.bot /\ q.at = "copy" /\ q.tok = tok
        /\ q.sent = r.sent /\ q.first = r.first
    BY <1>1, <1>2 DEF JobSet
  <2>2. JobFresh(q) /\ ClientFresh(q, client) /\ Admits(j, q) /\ Novel(j, q.tok)
    BY <1>1, <1>3, <1>4, <1>5, <2>1
    DEF Requesting, Requests, Pending, JobFresh, ClientFresh, HasCalled, Admits
  <2>3. ASSUME Requesting(q), NEW i \in Jobs \ {j}, Pending(job[i]) PROVE ~Knows(q, job[i].tok)
    <3>1. Novel(i, job[i].tok) /\ Requesting(job[j]) /\ Requesting(job[i])
      BY <1>1, <2>1, <2>3 DEF FreshInv, Pending, Requesting
    <3>2. ~Knows(job[j], job[i].tok) /\ ~Knows(job[i], tok)
      BY <1>4, <3>1 DEF Novel, NovelIn
    <3> QED
      BY <1>1, <2>1, <2>3, <3>2 DEF Knows
  <2> QED
    BY <1>7, <2>2, <2>3, FreshStep
<1> QED
  BY <1>2, <1>6, <1>7

(* A job that writes the cache keeps its token.                            *)
LEMMA CarryFresh ==
  ASSUME IInv, FreshInv, NEW j \in Jobs, NEW r, NEW q, r = job[j], Become(j, q),
         UNCHANGED <<client, booted>>, r.at \in {"copy", "truncate"}, q.at \in {"truncate", "write"},
         q.kind = r.kind, q.bot = r.bot, q.tok = r.tok, q.sent = r.sent, q.first = r.first
  PROVE  FreshInv'
<1>1. JobFresh(r) /\ (Pending(r) => Novel(j, r.tok)) /\ (Requesting(r) <=> Pending(r))
  BY DEF FreshInv, Pending
<1>2. (Requesting(q) <=> Requesting(r)) /\ (Pending(q) <=> Requesting(q))
  BY DEF Requesting, Pending
<1>3. JobFresh(q) /\ ClientFresh(q, client) /\ Admits(j, q)
  BY <1>1, <1>2 DEF JobFresh, ClientFresh, HasCalled, Admits
<1>4. ASSUME Requesting(q), NEW i \in Jobs \ {j}, Pending(job[i]) PROVE ~Knows(q, job[i].tok)
  <2>1. Novel(i, job[i].tok) /\ Requesting(job[j])
    BY <1>2, <1>4 DEF FreshInv
  <2>2. ~Knows(r, job[i].tok)
    BY <2>1 DEF Novel, NovelIn
  <2> QED
    BY <1>1, <1>2, <1>4, <2>2 DEF Knows
<1> QED
  BY <1>1, <1>2, <1>3, <1>4, FreshStep

LEMMA CopyFresh ==
  ASSUME IInv, FreshInv, NEW j \in Jobs, Copy(j) \/ Truncate(j)
  PROVE  FreshInv'
<1>1. PICK r : r = job[j] /\ r \in JobSet
  BY OneJob
<1>2. UNCHANGED <<client, booted>> /\ r.at \in {"copy", "truncate"}
  BY <1>1 DEF Copy, Truncate
<1>3. PICK at \in {"truncate", "write"} :
         \/ Become(j, Idle)
         \/ \E content : Become(j, [r EXCEPT !.copy = content, !.at = at])
         \/ Become(j, [r EXCEPT !.at = at])
  BY <1>1 DEF Copy, Truncate, Goto
<1>4. CASE Become(j, Idle)
  BY <1>2, <1>4, FreshIdle
<1>5. ASSUME NEW content, Become(j, [r EXCEPT !.copy = content, !.at = at]) PROVE FreshInv'
  <2>1. PICK q : q = [r EXCEPT !.copy = content, !.at = at]
    OBVIOUS
  <2>2. /\ q.at = at /\ q.kind = r.kind /\ q.bot = r.bot /\ q.tok = r.tok /\ q.sent = r.sent
        /\ q.first = r.first
    BY <1>1, <2>1 DEF JobSet
  <2> QED
    BY <1>1, <1>2, <1>5, <2>1, <2>2, CarryFresh
<1>6. CASE Become(j, [r EXCEPT !.at = at])
  <2>1. PICK q : q = [r EXCEPT !.at = at]
    OBVIOUS
  <2>2. /\ q.at = at /\ q.kind = r.kind /\ q.bot = r.bot /\ q.tok = r.tok /\ q.sent = r.sent
        /\ q.first = r.first
    BY <1>1, <2>1 DEF JobSet
  <2> QED
    BY <1>1, <1>2, <1>6, <2>1, <2>2, CarryFresh
<1> QED
  BY <1>3, <1>4, <1>5, <1>6

LEMMA WriteFresh ==
  ASSUME IInv, FreshInv, NEW j \in Jobs, Write(j)
  PROVE  FreshInv'
<1>1. PICK r, p : r = job[j] /\ r \in JobSet /\ p = [r EXCEPT !.copy = Nothing]
  BY OneJob
<1>2. r.at = "write" /\ Got(j, p) /\ JobFresh(r) /\ (Pending(r) => Novel(j, r.tok))
  BY <1>1 DEF Write, FreshInv
<1>3. /\ p \in JobSet /\ p.kind = r.kind /\ p.bot = r.bot /\ p.first = r.first
      /\ p.sent = r.sent /\ p.tok = r.tok
  BY <1>1, NoneGiven DEF JobSet
<1>4. /\ p.first # None => p.tok # p.first
      /\ Requesting(p) => p.tok # None /\ Novel(j, p.tok)
  BY <1>2, <1>3 DEF JobFresh, Pending, Requesting
<1> QED
  BY <1>1, <1>2, <1>3, <1>4, GotFresh
-----------------------------------------------------------------------------
(* A request writes a word of its new token into the client it shares.     *)
LEMMA StoreFresh ==
  ASSUME IInv, FreshInv, NEW j \in Jobs, Store(j)
  PROVE  FreshInv'
<1>1. PICK r, c : r = job[j] /\ c = ClientOf(job[j])
  OBVIOUS
<1>2. PICK w, q :
         /\ w \in r.left /\ r.at = "store" /\ booted' = booted
         /\ client' = [client EXCEPT ![c][w] = r.tok]
         /\ q = [r EXCEPT !.left = @ \ {w}, !.at = IF r.left = {w} THEN "read" ELSE "store"]
         /\ Become(j, q)
  BY <1>1 DEF Store
<1>0. w \in r.left /\ r.at = "store" /\ booted' = booted
  BY <1>2
<1>3. /\ r \in JobSet /\ r.bot \in Bots /\ JobFresh(r) /\ ClientFresh(r, client)
      /\ Requesting(r)
      /\ Pending(r) => Novel(j, r.tok)
  BY <1>1, <1>2, OneJob DEF FreshInv, JobFresh
<1>4. /\ q.kind = r.kind /\ q.bot = r.bot /\ q.tok = r.tok /\ q.sent = r.sent /\ q.first = r.first
      /\ q.left = r.left \ {w} /\ q.at = IF r.left = {w} THEN "read" ELSE "store"
      /\ ClientOf(q) = c /\ r.left \subseteq {"ptr", "len"}
  BY <1>1, <1>2, <1>3 DEF JobSet, ClientOf
<1>5. job'[j] = q /\ \A i \in Jobs \ {j} : job'[i] = job[i]
  BY <1>2 DEF Become, IInv, JobsGood
<1>6. /\ \A x \in Clients \ {c} : client'[x] = client[x]
      /\ c \in Clients /\ client'[c][w] = r.tok
      /\ \A v \in {"ptr", "len"} \ {w} : client'[c][v] = client[c][v]
  <2>1. c \in Clients
    BY <1>1, <1>3 DEF JobSet, ClientOf, Clients
  <2>2. client \in [Clients -> Words] /\ w \in {"ptr", "len"}
    BY <1>2, <1>4 DEF IInv, ClientGood
  <2> QED
    BY <1>2, <2>1, <2>2 DEF Words
<1>7. InTurn'
  BY <1>0, <1>1, <1>4, <1>5 DEF FreshInv, InTurn, Requesting
<1>8. JobFresh(q) /\ ClientFresh(q, client')
  <2>1. JobFresh(q)
    BY <1>0, <1>3, <1>4 DEF JobFresh, HasCalled, Requesting, Pending
  <2>2. CASE w = "ptr"
    BY <1>0, <1>1, <1>3, <1>4, <1>6, <2>1, <2>2 DEF ClientFresh, JobFresh
  <2>3. CASE w # "ptr"
    BY <1>0, <1>1, <1>3, <1>4, <1>6, <2>1, <2>3 DEF ClientFresh, JobFresh
  <2> QED
    BY <2>1, <2>2, <2>3
<1>9. Pending(q) => Pending(r) /\ w = "len"
  BY <1>2, <1>4 DEF Pending, Requesting
<1>10. w = "ptr" => Pending(r)
  BY <1>2, <1>3 DEF Pending
<1>11. ASSUME NEW i \in Jobs \ {j}, Requesting(job[i]), w = "ptr"
       PROVE  /\ r.tok # job[i].first
              /\ Pending(job[i]) => r.tok # job[i].tok
  <2>1. ~Knows(job[i], r.tok)
    BY <1>3, <1>10, <1>11 DEF Novel, NovelIn
  <2> QED
    BY <2>1 DEF Knows
<1>12. ASSUME NEW i \in Jobs \ {j}, job[i].kind = "lookup" PROVE ClientOf(job[i]) # c
  BY <1>1, <1>3, <1>12 DEF FreshInv, InTurn, ClientOf, Requesting, Requests
<1>13. ASSUME NEW i \in Jobs \ {j} PROVE ClientFresh(job[i], client')
  <2>1. ClientFresh(job[i], client)
    BY DEF FreshInv
  <2>2. CASE ClientOf(job[i]) # c
    <3>1. Requesting(job[i]) /\ job[i].at # "idle" => ClientOf(job[i]) \in Clients
      BY OneJob DEF ClientOf, Clients
    <3>2. Requesting(job[i]) /\ job[i].at # "idle" => client'[ClientOf(job[i])] = client[ClientOf(job[i])]
      BY <1>6, <2>2, <3>1
    <3> QED
      BY <2>1, <3>2 DEF ClientFresh, Requesting, Requests
  <2>3. CASE ClientOf(job[i]) = c
    <3>1. job[i].kind # "lookup"
      BY <1>12, <2>3
    <3>2. Requesting(job[i]) => client'[c].ptr = client[c].ptr \/ client'[c].ptr # job[i].first
      BY <1>4, <1>6, <1>11
    <3> QED
      BY <2>1, <2>3, <3>1, <3>2 DEF ClientFresh
  <2> QED
    BY <2>2, <2>3
<1>14. ASSUME NEW i \in Jobs, Pending(job'[i]) PROVE NovelIn(i, job'[i].tok, client', job')
  <2>1. /\ Pending(job[i]) /\ job'[i].tok = job[i].tok /\ Requesting(job[i])
        /\ i = j => w = "len"
    BY <1>1, <1>4, <1>5, <1>9, <1>14 DEF Pending
  <2>2. Novel(i, job[i].tok)
    BY <2>1 DEF FreshInv
  <2>3. \A x \in Clients : client'[x].ptr # job[i].tok
    BY <1>4, <1>6, <1>11, <2>1, <2>2 DEF Novel, NovelIn
  <2>4. ASSUME NEW k \in Jobs \ {i}, Requesting(job'[k]) PROVE ~Knows(job'[k], job[i].tok)
    <3>1. Requesting(job[k]) /\ ~Knows(job[k], job[i].tok)
      BY <1>1, <1>3, <1>5, <2>2, <2>4 DEF Novel, NovelIn
    <3> QED
      BY <1>1, <1>4, <1>5, <1>9, <3>1 DEF Knows
  <2> QED
    BY <2>1, <2>3, <2>4 DEF Novel, NovelIn
<1>15. \A i \in Jobs : JobFresh(job'[i]) /\ ClientFresh(job'[i], client')
  BY <1>5, <1>8, <1>13 DEF FreshInv
<1> QED
  BY <1>7, <1>14, <1>15
  DEF FreshInv, JobFresh, ClientFresh, Pending, Requesting, HasCalled, Novel, NovelIn, ClientOf

LEMMA ReadFresh ==
  ASSUME IInv, FreshInv, NEW j \in Jobs, Read(j)
  PROVE  FreshInv'
<1>1. PICK r, w : r = job[j] /\ w = client[ClientOf(job[j])] /\ r \in JobSet
  BY OneJob
<1>2. /\ r.at = "read" /\ UNCHANGED <<client, booted>>
      /\ \/ Become(j, Idle)
         \/ \E tok \in StringOf(w) :
              Become(j, [r EXCEPT !.at = "op", !.sent = tok, !.tok = IF r.first = None THEN tok ELSE @])
  BY <1>1 DEF Read
<1>3. Requesting(r) /\ JobFresh(r) /\ ClientFresh(r, client)
  BY <1>1, <1>2 DEF FreshInv, JobFresh
<1>4. CASE Become(j, Idle)
  BY <1>2, <1>4, FreshIdle
<1>5. ASSUME NEW tok \in StringOf(w), NEW q,
             q = [r EXCEPT !.at = "op", !.sent = tok, !.tok = IF r.first = None THEN tok ELSE @],
             Become(j, q)
      PROVE  FreshInv'
  <2>1. /\ q.kind = r.kind /\ q.bot = r.bot /\ q.at = "op" /\ q.sent = tok /\ q.first = r.first
        /\ q.tok = IF r.first = None THEN tok ELSE r.tok
    BY <1>1, <1>5 DEF JobSet
  <2>2. tok \in {None, w.ptr, Garbled} /\ (w.ptr = w.len => tok = w.ptr)
    BY <1>5 DEF StringOf
  <2>3. r.kind = "lookup" /\ r.first # None => w.ptr = r.tok /\ w.len = r.tok
    BY <1>1, <1>2, <1>3 DEF ClientFresh
  <2>4. r.first # None => w.ptr # r.first /\ r.tok # r.first
    BY <1>1, <1>2, <1>3 DEF ClientFresh, JobFresh
  <2>5. JobFresh(q) /\ ~Pending(q) /\ ClientFresh(q, client) /\ Admits(j, q)
    <3>1. q.sent = q.tok \/ q.kind = "send"
      BY <1>3, <2>1, <2>2, <2>3 DEF Requesting, Requests
    <3>2. q.first # None => q.tok # q.first /\ (q.sent # q.first \/ q.sent = Garbled)
      BY <2>1, <2>2, <2>4
    <3> QED
      BY <1>1, <2>1, <3>1, <3>2 DEF JobFresh, Pending, ClientFresh, Admits, HasCalled
  <2>6. ASSUME NEW i \in Jobs \ {j}, Pending(job[i]) PROVE ~Knows(q, job[i].tok)
    <3>1. Novel(i, job[i].tok) /\ JobFresh(job[i])
      BY <2>6 DEF FreshInv
    <3>2. ~Knows(r, job[i].tok)
      BY <1>1, <1>3, <3>1 DEF Novel, NovelIn
    <3>3. ClientOf(r) \in Clients
      BY <1>1, <1>2, OneJob DEF ClientOf, Clients
    <3>4. job[i].tok # w.ptr
      BY <1>1, <3>1, <3>3 DEF Novel, NovelIn
    <3>5. job[i].tok # None /\ job[i].tok # Garbled
      <4>1. /\ job[i].tok # None /\ job[i].at # "idle"
            /\ job[i].at \in {"copy", "truncate", "write", "store"}
        BY <2>6, <3>1 DEF JobFresh, Pending
      <4>2. job[i].bot \in Bots /\ job[i].tok \in Given(job[i].bot, issued[job[i].bot])
        BY <4>1, OneJob DEF JobGood, JobOwn, Written
      <4>3. issued[job[i].bot] \in Nat
        BY <4>2 DEF IInv, Counts
      <4>4. job[i].tok \in Bots \X Nat
        BY <4>1, <4>2, <4>3 DEF Given
      <4> QED
        BY <4>1, <4>4, SyncAssumption DEF SyncAssumption
    <3> QED
      BY <2>1, <2>2, <2>5, <3>2, <3>4, <3>5 DEF Knows
  <2> QED
    BY <1>2, <1>5, <2>5, <2>6, FreshStep
<1> QED
  BY <1>2, <1>4, <1>5

LEMMA CallFresh ==
  ASSUME IInv, FreshInv, NEW j \in Jobs, Call(j)
  PROVE  FreshInv'
<1>1. PICK p : p = job[j] /\ p \in JobSet
  BY OneJob
<1>2. /\ p.at \in {"op", "create"} /\ UNCHANGED <<client, booted>> /\ JobFresh(p)
  BY <1>1 DEF Call, FreshInv
<1>3. PICK r : \E n \in {0, 1} :
         /\ r = [p EXCEPT !.done = @ + n]
         /\ \/ Become(j, [r EXCEPT !.at = "ask", !.first = r.sent])
            \/ \E at \in {"create", "refused", "end"} :
                 /\ Become(j, [r EXCEPT !.at = at])
                 /\ at = "refused" => p.bot \in StaticBots \/ p.first # None
  <2>1. PICK outcome, n, r, at :
           /\ outcome \in Outcomes(j) /\ n \in {0, 1}
           /\ r = [p EXCEPT !.done = @ + n]
           /\ at \in {"create", "end"} \/ (at = "refused" /\ outcome = "refused")
           /\ IF Again(j, outcome) THEN Renew(j, r) ELSE Become(j, [r EXCEPT !.at = at])
    BY <1>1 DEF Call, Changes
  <2>2. CASE Again(j, outcome)
    BY <2>1, <2>2 DEF Renew
  <2>3. CASE ~Again(j, outcome)
    <3>1. at = "refused" => p.bot \in StaticBots \/ p.first # None
      BY <1>1, <2>1, <2>3 DEF Again, Static
    <3> QED
      BY <2>1, <2>3, <3>1
  <2> QED
    BY <2>2, <2>3
<1>4. PICK q : /\ Become(j, q) /\ q.kind = p.kind /\ q.bot = p.bot /\ q.tok = p.tok /\ q.sent = p.sent
               /\ \/ q.at = "ask" /\ q.first = p.sent
                  \/ /\ q.at \in {"create", "refused", "end"} /\ q.first = p.first
                     /\ q.at = "refused" => p.bot \in StaticBots \/ p.first # None
  <2>1. /\ r.kind = p.kind /\ r.bot = p.bot /\ r.tok = p.tok /\ r.sent = p.sent /\ r.first = p.first
        /\ r \in JobSet
    BY <1>1, <1>3 DEF JobSet
  <2>2. CASE Become(j, [r EXCEPT !.at = "ask", !.first = r.sent])
    <3>1. PICK q : q = [r EXCEPT !.at = "ask", !.first = r.sent]
      OBVIOUS
    <3>2. /\ q.kind = p.kind /\ q.bot = p.bot /\ q.tok = p.tok /\ q.sent = p.sent
          /\ q.at = "ask" /\ q.first = p.sent
      BY <2>1, <3>1 DEF JobSet
    <3> QED
      BY <2>2, <3>1, <3>2
  <2>3. ASSUME NEW at \in {"create", "refused", "end"}, NEW q, q = [r EXCEPT !.at = at], Become(j, q),
               at = "refused" => p.bot \in StaticBots \/ p.first # None
        PROVE  /\ Become(j, q) /\ q.kind = p.kind /\ q.bot = p.bot /\ q.tok = p.tok /\ q.sent = p.sent
               /\ q.at \in {"create", "refused", "end"} /\ q.first = p.first
               /\ q.at = "refused" => p.bot \in StaticBots \/ p.first # None
    BY <2>1, <2>3 DEF JobSet
  <2> QED
    BY <1>3, <2>2, <2>3
<1>5. ~Pending(q) /\ JobFresh(q) /\ ClientFresh(q, client) /\ Admits(j, q)
  BY <1>1, <1>2, <1>4 DEF Pending, JobFresh, ClientFresh, HasCalled, Admits
<1>6. ASSUME Requesting(q), NEW i \in Jobs \ {j}, Pending(job[i]) PROVE ~Knows(q, job[i].tok)
  <2>1. Novel(i, job[i].tok) /\ Requesting(p)
    BY <1>4, <1>6 DEF FreshInv, Requesting
  <2>2. ~Knows(p, job[i].tok)
    BY <1>1, <2>1 DEF Novel, NovelIn
  <2> QED
    BY <1>4, <1>5, <2>2 DEF Knows
<1> QED
  BY <1>2, <1>4, <1>5, <1>6, FreshStep

(* RefusedTwice: Send, Edit, the lookups and the commands report a refused *)
(* token only when the one they asked BotX for after the first refusal was *)
(* refused too; a sender may meet another request's there, never again the *)
(* one that was refused before, though Token is written without a lock.    *)
THEOREM Twice == Spec => []RefusedTwice
<1>1. IInv /\ FreshInv /\ [Next]_vars => FreshInv'
  <2> SUFFICES ASSUME IInv, FreshInv, [Next]_vars PROVE FreshInv'
    OBVIOUS
  <2>1. CASE Revoke \/ Expire \/ UNCHANGED vars
    <3>1. UNCHANGED <<job, client, booted>>
      BY <2>1 DEF Revoke, Expire, vars
    <3> QED
      BY <3>1 DEF FreshInv, JobFresh, ClientFresh, Pending, Requesting, HasCalled, Novel, NovelIn, Knows,
                  ClientOf, InTurn
  <2>2. ASSUME NEW j \in Jobs, Start(j) PROVE FreshInv'
    BY <2>2, StartFresh
  <2>3. ASSUME NEW j \in Jobs, Step(j) PROVE FreshInv'
    <3>1. CASE AskFailed(j)
      <4>1. Become(j, Idle) /\ client' = client
        BY <3>1 DEF AskFailed
      <4> QED
        BY <3>1, <4>1, FreshBoot, FreshIdle DEF AskFailed
    <3>2. CASE End(j) \/ Kill(j)
      BY <3>2, FreshIdle DEF End, Kill
    <3> QED
      BY <2>3, <3>1, <3>2, GetFresh, AskFresh, CopyFresh, WriteFresh, StoreFresh, ReadFresh,
         CallFresh DEF Step
  <2> QED
    BY <2>1, <2>2, <2>3 DEF Next
<1> QED
  BY <1>1, FreshInit, FreshImplies, Invariance, PTL DEF Spec
=============================================================================
