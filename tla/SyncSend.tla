------------------------------ MODULE SyncSend ------------------------------
(***************************************************************************)
(* Calls of BotX with a token that may be refused: the requests of a       *)
(* server, which share one client per bot, and commands, each a process    *)
(* with a client of its own.  Tokens are kept in a cache all of them read, *)
(* change and write back without a lock.  Worker has a flow of its own     *)
(* (authenticate instead of refreshToken after a refusal).                 *)
(*                                                                         *)
(* Token n of bot b is <<b, n>>; <<b, 0>> is configured.  client.Token is  *)
(* a Go string, two words that are read and written without a lock: words  *)
(* of two tokens make the first of them if their lengths are equal and     *)
(* otherwise a text BotX never issued.                                     *)
(***************************************************************************)
EXTENDS Naturals, FiniteSets, FiniteSetsExt

CONSTANTS Bots, StaticBots, Jobs, None, Garbled,
          Torn,        \* a file that does not parse
          Truncated,   \* one that a writer has emptied
          CacheKinds,  \* out of "none", "file", "vault"
          Work,        \* what may be asked of which bot
          MaxTokens,   \* bound on tokens issued, for each kind of cache
          MaxStarts,   \* bound on requests and commands
          MaxFaults    \* bound on revocations and expiries

(* "lookup" is of a user for a mention; "create" is chats create, "post"   *)
(* any other command that calls BotX; then bot token get, get --fresh,     *)
(* refresh and clear, which leave a bot with a configured token alone.     *)
Requests == {"send", "lookup"}
Commands == {"post", "create", "get", "fresh", "refresh", "clear"}

ASSUME SyncAssumption ==
  /\ StaticBots \subseteq Bots
  /\ CacheKinds \subseteq {"none", "file", "vault"}
  /\ Work \subseteq (Requests \cup Commands) \X Bots
  /\ \A w \in Work : w[2] \in StaticBots => w[1] \in Requests \cup {"post", "create"}
  /\ None \notin Bots \X Nat /\ Garbled \notin Bots \X Nat
  /\ MaxTokens \in [CacheKinds -> Nat] /\ MaxStarts \in Nat /\ MaxFaults \in Nat

Nothing == [b \in Bots |-> None]

VARIABLES accepted,  \* the tokens BotX accepts
          issued,    \* how many each bot was given
          kind,      \* of the cache
          cache,
          expired,   \* tokens whose entries have outlived their TTL
          client,    \* client.Token of the server's clients
          booted,    \* bots whose client the server has made
          job,
          chats,     \* how many chats of the name to create a bot has created
          overlap,   \* bots with two chats create at a time
          starts, faults

counts == <<starts, faults>>
botx == <<accepted, issued, chats>>
disk == <<kind, cache, expired>>
vars == <<accepted, issued, kind, cache, expired, client, booted, job, chats, overlap, starts, faults>>

Clients == {"sender", "resolver"} \X Bots
Idle == [kind |-> "none", bot |-> None, at |-> "idle", tok |-> None, first |-> None,
         sent |-> None, left |-> {}, copy |-> Nothing, done |-> 0]

Init ==
  /\ accepted = StaticBots \X {0}
  /\ issued = [b \in Bots |-> 0]
  /\ kind \in CacheKinds /\ cache = Nothing /\ expired = {}
  /\ client = [c \in Clients |-> [ptr |-> None, len |-> None]]
  /\ booted = {}
  /\ job = [j \in Jobs |-> Idle]
  /\ chats = [b \in Bots |-> 0] /\ overlap = {}
  /\ starts = 0 /\ faults = 0

Static(j) == job[j].bot \in StaticBots
ClientOf(r) == <<IF r.kind = "send" THEN "sender" ELSE "resolver", r.bot>>
-----------------------------------------------------------------------------
Become(j, r) == job' = [job EXCEPT ![j] = r]
Goto(j, at) == Become(j, [job[j] EXCEPT !.at = at])

New(k, b, at, tok) == [Idle EXCEPT !.kind = k, !.bot = b, !.at = at, !.tok = tok, !.sent = tok]

Starts(j, r) ==
  /\ job[j].at = "idle" /\ starts < MaxStarts /\ starts' = starts + 1 /\ UNCHANGED faults
  /\ Become(j, r)

(* A request to send or edit, or a lookup for it; lookups hold a mutex.    *)
StartRequest(j) ==
  /\ booted = Bots
  /\ \E k \in Requests, b \in Bots :
       /\ <<k, b>> \in Work
       /\ k = "lookup" => \A i \in Jobs : job[i].kind # "lookup" \/ job[i].bot # b
       /\ LET new == New(k, b, "read", None)
          IN Starts(j, IF client[ClientOf(new)].len = None THEN [new EXCEPT !.at = "ask"] ELSE new)
  /\ UNCHANGED <<botx, disk, client, booted, overlap>>

(* newBotSender, bot by bot, and the resolver with the sender's token.     *)
Made(b, tok) == client' = [c \in Clients |-> IF c[2] = b THEN [ptr |-> tok, len |-> tok] ELSE client[c]]

StartBoot(j) ==
  /\ job[j].at = "idle" /\ \A i \in Jobs : job[i].kind # "boot"
  /\ \E b \in Bots \ booted :
       IF b \in StaticBots
       THEN Made(b, <<b, 0>>) /\ booted' = booted \cup {b} /\ UNCHANGED job
       ELSE Become(j, New("boot", b, "get", None)) /\ UNCHANGED <<client, booted>>
  /\ UNCHANGED <<botx, disk, overlap, counts>>

StartCommand(j) ==
  /\ \E k \in Commands, b \in Bots :
       /\ <<k, b>> \in Work
       /\ Starts(j, IF b \in StaticBots THEN New(k, b, "op", <<b, 0>>)
                    ELSE New(k, b, IF k = "refresh" THEN "ask" ELSE IF k = "clear" THEN "copy" ELSE "get", None))
       /\ overlap' = IF k = "create" /\ \E i \in Jobs : job[i].kind = k /\ job[i].bot = b
                     THEN overlap \cup {b} ELSE overlap
  /\ UNCHANGED <<botx, disk, client, booted>>
-----------------------------------------------------------------------------
(* authenticateWith and refreshTokenWith.                                  *)

(* A job has its token: what it does with it.                              *)
Got(j, r) ==
  /\ CASE r.kind = "boot" -> Become(j, Idle)
       [] r.kind \in {"send", "lookup"} -> Become(j, [r EXCEPT !.at = "store", !.left = {"ptr", "len"}])
       [] r.kind \in {"post", "create"} -> Become(j, [r EXCEPT !.at = "op", !.sent = r.tok])
       [] r.kind = "fresh" /\ r.first = None -> Become(j, [r EXCEPT !.at = "ask", !.first = r.tok])
       [] OTHER -> Become(j, Idle)
  /\ IF r.kind = "boot" THEN Made(r.bot, r.tok) /\ booted' = booted \cup {r.bot}
     ELSE UNCHANGED <<client, booted>>

(* Mutant: bots of one host share an entry.                                *)
KeyOfHost(b) == CHOOSE x \in Bots : TRUE
CacheKey(b) == b

Readable == IF cache \in {Torn, Truncated} THEN Nothing ELSE cache
Fresh(content) == [b \in Bots |-> IF content[b] \in expired THEN None ELSE content[b]]

(* Get: an error is a miss.                                                *)
Get(j) ==
  /\ job[j].at = "get"
  /\ LET tok == Fresh(Readable)[CacheKey(job[j].bot)]
     IN \/ kind # "none" /\ tok # None /\ Got(j, [job[j] EXCEPT !.tok = tok])
        \/ (kind = "vault" \/ tok = None) /\ Goto(j, "ask") /\ UNCHANGED <<client, booted>>
  /\ UNCHANGED <<botx, disk, overlap, counts>>

(* BotX gives a token.                                                     *)
Ask(j) ==
  /\ job[j].at = "ask"
  /\ LET b == job[j].bot
         tok == <<b, issued[b] + 1>>
     IN /\ b \notin StaticBots /\ MapThenSumSet(LAMBDA x : issued[x], Bots) < MaxTokens[kind]
        /\ issued' = [issued EXCEPT ![b] = @ + 1]
        /\ accepted' = accepted \cup {tok}
        /\ IF kind = "none" THEN Got(j, [job[j] EXCEPT !.tok = tok])
           ELSE /\ Become(j, [job[j] EXCEPT !.tok = tok, !.at = "copy"])
                /\ UNCHANGED <<client, booted>>
  /\ UNCHANGED <<disk, chats, overlap, counts>>

(* Or does not: the server starts without it but for --fail-fast.          *)
AskFailed(j) ==
  /\ job[j].at = "ask" /\ Become(j, Idle)
  /\ booted' \in IF job[j].kind = "boot" THEN {booted, booted \cup {job[j].bot}} ELSE {booted}
  /\ UNCHANGED <<botx, disk, client, overlap, counts>>

(* Set and Delete read all entries; a failed read of Vault leaves Set with *)
(* its own.  Delete has nothing to do without an entry.                    *)
Copy(j) ==
  /\ job[j].at = "copy"
  /\ \E content \in {Readable} \cup IF kind = "vault" THEN {Nothing} ELSE {} :
       IF job[j].kind = "clear" /\ (kind = "none" \/ content[CacheKey(job[j].bot)] = None)
       THEN Become(j, Idle)
       ELSE Become(j, [job[j] EXCEPT !.copy = Fresh(content),
                                     !.at = IF kind = "file" THEN "truncate" ELSE "write"])
  /\ UNCHANGED <<botx, disk, client, booted, overlap, counts>>

Truncate(j) ==
  /\ job[j].at = "truncate" /\ Goto(j, "write")
  /\ cache' = Truncated
  /\ UNCHANGED <<botx, kind, expired, client, booted, overlap, counts>>

(* They write all of them back; the write may fail, and over what another  *)
(* wrote since the file was emptied the text may not parse.                *)
Write(j) ==
  /\ job[j].at = "write"
  /\ cache' \in {cache, [job[j].copy EXCEPT ![CacheKey(job[j].bot)] = job[j].tok]}
                \cup IF kind = "file" /\ cache # Truncated THEN {Torn} ELSE {}
  /\ Got(j, [job[j] EXCEPT !.copy = Nothing])
  /\ UNCHANGED <<botx, kind, expired, overlap, counts>>
-----------------------------------------------------------------------------
(* Send, Edit, GetUserByEmail and the commands.                            *)

(* client.Token = tok, word by word.                                       *)
Store(j) ==
  /\ job[j].at = "store"
  /\ \E w \in job[j].left :
       /\ client' = [client EXCEPT ![ClientOf(job[j])][w] = job[j].tok]
       /\ Become(j, [job[j] EXCEPT !.left = @ \ {w}, !.at = IF job[j].left = {w} THEN "read" ELSE "store"])
  /\ UNCHANGED <<botx, disk, booted, overlap, counts>>

StringOf(w) ==
  IF w.len = None THEN {None}
  ELSE IF w.ptr = w.len THEN {w.ptr}
  ELSE IF w.ptr = None THEN {} ELSE {w.ptr, Garbled}

(* A string without bytes to point to panics, and net/http recovers.       *)
Read(j) ==
  /\ job[j].at = "read"
  /\ LET w == client[ClientOf(job[j])]
     IN \/ \E tok \in StringOf(w) :
             Become(j, [job[j] EXCEPT !.at = "op", !.sent = tok,
                                      !.tok = IF job[j].first = None THEN tok ELSE @])
        \/ StringOf(w) = {} /\ Become(j, Idle)
  /\ UNCHANGED <<botx, disk, client, booted, overlap, counts>>

(* BotX refuses exactly the tokens it does not accept.                     *)
Outcomes(j) == {"failed"} \cup {IF job[j].sent \in accepted THEN "ok" ELSE "refused"}

(* Mutant: any failure is worth a second try.                              *)
AgainAnyway(j, outcome) == outcome \in {"refused", "failed"} /\ ~Static(j) /\ job[j].first = None
Again(j, outcome) == outcome = "refused" /\ ~Static(j) /\ job[j].first = None

(* Mutant: the cached token will do.                                       *)
RenewCached(j, r) == Become(j, [r EXCEPT !.at = "get", !.first = r.sent])
Renew(j, r) == Become(j, [r EXCEPT !.at = "ask", !.first = r.sent])

(* chats create looks for a chat of that name first.                       *)
Looks(r) == r.kind = "create" /\ r.at = "op"

(* What a call changes, the calls before the last of an operation nothing; *)
(* one that failed for its caller may have reached BotX.                   *)
Changes(r, outcome) ==
  IF r.sent \notin accepted \/ r.kind = "lookup" \/ Looks(r) THEN {0}
  ELSE IF outcome = "ok" THEN {1} ELSE {0, 1}

Call(j) ==
  /\ job[j].at \in {"op", "create"}
  /\ \E outcome \in Outcomes(j) : \E n \in Changes(job[j], outcome) :
       LET r == [job[j] EXCEPT !.done = @ + n]
           create == Looks(r) /\ outcome = "ok" /\ chats[r.bot] = 0
       IN /\ IF Again(j, outcome) THEN Renew(j, r)
             ELSE Become(j, [r EXCEPT !.at = IF create THEN "create"
                                             ELSE IF outcome = "refused" THEN "refused" ELSE "end"])
          /\ chats' = IF r.kind = "create" THEN [chats EXCEPT ![r.bot] = @ + n] ELSE chats
  /\ UNCHANGED <<accepted, issued, disk, client, booted, overlap, counts>>

(* The answer is given.                                                    *)
End(j) ==
  /\ job[j].at \in {"end", "refused"} /\ Become(j, Idle)
  /\ UNCHANGED <<botx, disk, client, booted, overlap, counts>>

(* A command is killed.                                                    *)
Kill(j) ==
  /\ job[j].kind \in Commands /\ Become(j, Idle)
  /\ UNCHANGED <<botx, disk, client, booted, overlap, counts>>

Fault == faults < MaxFaults /\ faults' = faults + 1 /\ UNCHANGED starts

Revoke ==
  /\ Fault
  /\ \E tok \in accepted : accepted' = accepted \ {tok}
  /\ UNCHANGED <<issued, chats, disk, client, booted, job, overlap>>

Expire ==
  /\ Fault
  /\ \E tok \in {Readable[b] : b \in Bots} \ (expired \cup {None}) : expired' = expired \cup {tok}
  /\ UNCHANGED <<botx, kind, cache, client, booted, job, overlap>>

Start(j) == StartRequest(j) \/ StartBoot(j) \/ StartCommand(j)

Step(j) ==
  \/ Get(j) \/ Ask(j) \/ AskFailed(j) \/ Copy(j) \/ Truncate(j) \/ Write(j)
  \/ Store(j) \/ Read(j) \/ Call(j) \/ End(j) \/ Kill(j)

Next == Revoke \/ Expire \/ \E j \in Jobs : Start(j) \/ Step(j)

Spec == Init /\ [][Next]_vars
-----------------------------------------------------------------------------
(* Whatever shares the cache and the clients, a token serves the bot it    *)
(* was given to: in the cache, in a client's words, in the hands of a job. *)
Tokens(b) == {None} \cup {<<b, n>> : n \in 0 .. issued[b]}

CacheOwn == cache \in {Torn, Truncated} \/ \A b \in Bots : cache[b] \in Tokens(b) \ {<<b, 0>>}
ClientsOwn == \A c \in Clients : client[c].ptr \in Tokens(c[2]) /\ client[c].len \in Tokens(c[2])
JobsOwn ==
  \A j \in Jobs : job[j].at # "idle" =>
    /\ {job[j].tok, job[j].first, job[j].sent} \subseteq Tokens(job[j].bot) \cup {Garbled}
    /\ \A b \in Bots : job[j].copy[b] \in Tokens(b) \ {<<b, 0>>}

OwnToken == CacheOwn /\ ClientsOwn /\ JobsOwn

(* An operation that was refused and done again has changed BotX once; and *)
(* runs of chats create one after the other, failed, killed or refused,    *)
(* have created one chat.                                                  *)
DoneOnce ==
  /\ \A j \in Jobs : job[j].done <= 1
  /\ \A b \in Bots \ overlap : chats[b] <= 1

(* A caller is told its token was refused only after a second one was, and *)
(* that was the token given to it after the first refusal, unless another  *)
(* request has put its own into the client they share.                     *)
RefusedTwice ==
  \A j \in Jobs : job[j].at = "refused" /\ ~Static(j) =>
    /\ job[j].sent # job[j].first \/ job[j].sent = Garbled
    /\ job[j].sent = job[j].tok \/ job[j].kind = "send"
    /\ job[j].tok # job[j].first
=============================================================================
