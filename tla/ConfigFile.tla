----------------------------- MODULE ConfigFile -----------------------------
(***************************************************************************)
(* The configuration file and the commands that read and rewrite it, each  *)
(* a process of its own with no lock between them.  A command reads the    *)
(* whole file, changes the content in memory and writes all of it:         *)
(* os.WriteFile empties the file and then fills it, so that others may     *)
(* read nothing, which is a valid content; config edit renames a new file  *)
(* over the old one, under writers that still have the old one open.       *)
(*                                                                         *)
(* The file exists, a content reaches it in one write, and what is left of *)
(* two writers either is the second's content or does not parse.           *)
(***************************************************************************)
EXTENDS ConfigContent

CONSTANTS Procs,
          Commands,   \* what may be run
          Edits,      \* what an editor may leave
          Initial,    \* what the file may say at first
          BotOrder,   \* names of bots in their order
          MaxRuns     \* bound on commands started

ASSUME ConfigAssumption ==
  /\ \A c \in Initial : IsContent(c) /\ ConfigValid(c)
  /\ \A c \in Edits : IsContent(c)
  /\ BotOrder \in Seq(Range(BotOrder))
  /\ MaxRuns \in Nat

VARIABLES file,   \* a content, or Error for a text that does not parse
          proc,   \* what a process is at: its command, the content it read
                  \* (base) and what it made of it (new), the bot it asks with
          fd,     \* a writer's open file: emptied, written by another since,
                  \* or no longer the file of that name
          stale,  \* edits that were checked before the file changed
          runs

fileVars == <<file, proc, fd, stale, runs>>

Process(at, cmd, base, new, bot) == [at |-> at, cmd |-> cmd, base |-> base, new |-> new, bot |-> bot]
Idle == Process("idle", [kind |-> "none"], Empty, Empty, Unset)

FileInit ==
  /\ file \in Initial
  /\ proc = [p \in Procs |-> Idle]
  /\ fd = [p \in Procs |-> "closed"]
  /\ stale = {} /\ runs = 0
-----------------------------------------------------------------------------
Become(p, r) == proc' = [proc EXCEPT ![p] = r]
MoveTo(p, l) == proc' = [proc EXCEPT ![p].at = l]

Starts(p) == proc[p].at = "idle" /\ runs < MaxRuns /\ runs' = runs + 1

(* The command read r and goes on to write c, or fails, or has nothing to  *)
(* write.                                                                  *)
Plan(p, k, r, c, b, next) == Become(p, IF c = Error THEN Idle ELSE Process(next, k, r, c, b))

Changed(c, k) ==
  CASE k.kind = "set"    -> ChatSet(c, k)
    [] k.kind = "rm"     -> ChatRm(c, k)
    [] k.kind = "add"    -> ChatAdd(LoadMinimal(c, k), k)
    [] k.kind = "botAdd" -> BotAdd(c, k)
    [] k.kind = "botRm"  -> BotRm(c, k)
    [] k.kind = "keyAdd" -> KeyAdd(c, k)
    [] k.kind = "keyRm"  -> KeyRm(c, k)

(* A command that reads the file, changes it and writes it back; bot add   *)
(* may exchange the secret for a token in between.                         *)
RunChange(p, k) ==
  /\ k.kind \in {"set", "rm", "add", "botAdd", "botRm", "keyAdd", "keyRm"}
  /\ Starts(p) /\ file # Error
  /\ Plan(p, k, file, Changed(file, k), Unset, IF k.asks THEN "asked" ELSE "empty")
  /\ UNCHANGED <<file, fd, stale>>

(* chat import and chat add --name choose the bot they ask BotX with.      *)
RunLookup(p, k) ==
  /\ k.kind \in {"find", "import"} /\ ~k.all
  /\ Starts(p)
  /\ LET bot == Load(file, [k EXCEPT !.chat = Unset])
     IN bot # Error /\ Become(p, Process("listed", k, Empty, Empty, bot))
  /\ UNCHANGED <<file, fd, stale>>

(* What may become of the file once BotX has listed its chats.             *)
Found(c, k, listed) ==
  IF k.kind = "import" THEN {Import(c, k, listed)}
  ELSE IF k.id \in Range(listed) THEN {ChatFound(c, k, alias) : alias \in FoundAliases(c, k)}
  ELSE {Error}

(* The file is read again after BotX has answered.                         *)
Reload(p) ==
  /\ proc[p].at = "listed"
  /\ LET k == proc[p].cmd
         bot == proc[p].bot
     IN \/ file = Error /\ Become(p, Idle)
        \/ /\ file # Error
           /\ \E found \in Found(LoadMinimal(file, k), k, Listed(bot)) :
                Plan(p, k, file, found, bot, "empty")
  /\ UNCHANGED <<file, fd, stale, runs>>

(* import --all reads it once, before it asks BotX bot by bot.             *)
RunImportAll(p, k) ==
  /\ k.kind = "import" /\ k.all
  /\ Starts(p) /\ file # Error
  /\ \E answered \in SUBSET DOMAIN file.bots :
       Plan(p, k, file, ImportAll(LoadMinimal(file, k), k, BotOrder, answered), Unset, "asked")
  /\ UNCHANGED <<file, fd, stale>>

(* What the command asked BotX for is there.                               *)
Asked(p) ==
  /\ proc[p].at = "asked" /\ MoveTo(p, "empty")
  /\ UNCHANGED <<file, fd, stale, runs>>
-----------------------------------------------------------------------------
(* SaveConfig.                                                             *)

(* Another content in the file, for the edits that have been checked.      *)
Stales(p) == stale' = (stale \cup {q \in Procs : proc[q].at = "rename"}) \ {p}

Truncate(p) ==
  /\ proc[p].at = "empty" /\ MoveTo(p, "write")
  /\ file' = Empty
  /\ fd' = [fd EXCEPT ![p] = "emptied"]
  /\ Stales(p)
  /\ UNCHANGED runs

(* Over what another wrote since, the text may not parse; and in a file    *)
(* that was renamed away nobody reads it.                                  *)
Write(p) ==
  /\ proc[p].at = "write" /\ Become(p, Idle)
  /\ IF fd[p] = "lost" THEN UNCHANGED <<file, stale>>
     ELSE /\ \/ file' = proc[p].new
             \/ fd[p] = "mixed" /\ file' = Error
          /\ Stales(p)
  /\ fd' = [q \in Procs |-> IF q = p THEN "closed"
                            ELSE IF fd[q] = "emptied" /\ fd[p] # "lost" THEN "mixed" ELSE fd[q]]
  /\ UNCHANGED runs
-----------------------------------------------------------------------------
(* config edit.                                                            *)

RunEdit(p, k) ==
  /\ k.kind = "edit"
  /\ Starts(p)
  /\ Become(p, Process("editing", k, file, Empty, Unset))
  /\ UNCHANGED <<file, fd, stale>>

(* The editor ends; what does not validate is edited again or discarded.   *)
EndEditor(p) ==
  /\ proc[p].at = "editing"
  /\ \E c \in Edits :
       /\ c = proc[p].base \/ ConfigValid(c)
       /\ Become(p, IF c = proc[p].base THEN Idle
                     ELSE Process("check", proc[p].cmd, proc[p].base, c, Unset))
  /\ UNCHANGED <<file, fd, stale, runs>>

(* Was the file modified meanwhile?                                        *)
Check(p) ==
  /\ proc[p].at = "check"
  /\ IF file = proc[p].base THEN MoveTo(p, "rename") ELSE Become(p, Idle)
  /\ stale' = stale \ {p}
  /\ UNCHANGED <<file, fd, runs>>

(* The rename, or a plain write where the directory is not writable.       *)
Rename(p) ==
  /\ proc[p].at = "rename"
  /\ \/ /\ Become(p, Idle) /\ file' = proc[p].new
        /\ fd' = [q \in Procs |-> IF fd[q] = "closed" THEN "closed" ELSE "lost"]
     \/ MoveTo(p, "write") /\ file' = Empty /\ fd' = [fd EXCEPT ![p] = "emptied"]
  /\ Stales(p)
  /\ UNCHANGED runs

(* A command fails or is killed: the file stays as it is.                  *)
Stop(p) ==
  /\ proc[p].at # "idle" /\ Become(p, Idle)
  /\ fd' = [fd EXCEPT ![p] = "closed"]
  /\ stale' = stale \ {p}
  /\ UNCHANGED <<file, runs>>

Run(p, k) == RunChange(p, k) \/ RunLookup(p, k) \/ RunImportAll(p, k) \/ RunEdit(p, k)

Step(p) == Reload(p) \/ Asked(p) \/ Truncate(p) \/ Write(p)
           \/ EndEditor(p) \/ Check(p) \/ Rename(p) \/ Stop(p)

FileNext == \E p \in Procs : Step(p) \/ \E k \in Commands : Run(p, k)

FileSpec == FileInit /\ [][FileNext]_fileVars
-----------------------------------------------------------------------------
(* However commands overlap, are killed or read each other's half-written  *)
(* files, the file never marks two chats as the default.                   *)
DefaultUnique == file # Error => IsContent(file) /\ OneDefault(file)

(* What a command is going to write marks no two either, and what an edit  *)
(* replaces is what its user saw, but for a change between its check and   *)
(* its rename.                                                             *)
Planned == \A p \in Procs : LET c == proc[p].new IN c # Error /\ IsContent(c) /\ OneDefault(c)
EditSeen == \A p \in Procs : proc[p].at = "rename" => file = proc[p].base \/ p \in stale

FileTypeOK ==
  /\ fd \in [Procs -> {"closed", "emptied", "mixed", "lost"}]
  /\ DOMAIN proc = Procs /\ proc = [p \in Procs |-> proc[p]]
  /\ \A p \in Procs :
       LET r == proc[p]
       IN /\ r = Process(r.at, r.cmd, r.base, r.new, r.bot)
          /\ r.at \in {"idle", "listed", "editing", "check", "asked", "empty", "write", "rename"}
          /\ r.at = "listed" => r.cmd.kind \in {"find", "import"} /\ ~r.cmd.all
          /\ r.at \in {"editing", "check", "rename"} => r.cmd.kind = "edit"

FileInv == FileTypeOK /\ DefaultUnique /\ Planned /\ EditSeen

(* A command leaves alone what it was not asked to change: aliases it did  *)
(* not name, bots, keys.  An import repoints an alias only if told to,     *)
(* gives no chat a second alias and leaves none of the chats it was asked  *)
(* for without one; no bot gets a second name.                             *)
SameBut(f, g, S) == \A x \in (DOMAIN f \cup DOMAIN g) \ S : x \in DOMAIN f \cap DOMAIN g /\ f[x] = g[x]

OwnAliases(b, k) ==
  CASE k.kind \in {"set", "rm", "add"} -> {k.alias}
    [] k.kind = "find" -> IF k.alias # Unset THEN {k.alias}
                          ELSE Aliased(b, k.id) \cup {Generated(Unset, k.id, {})}
    [] OTHER -> {}

Ids(c) == {c.chats[a].id : a \in DOMAIN c.chats}

ImportFits(b, c, k, listed) ==
  LET added == DOMAIN c.chats \ DOMAIN b.chats
      moved == {a \in DOMAIN b.chats : c.chats[a].id # b.chats[a].id}
  IN /\ DOMAIN b.chats \subseteq DOMAIN c.chats
     /\ k.onConflict # "overwrite" =>
          /\ SameBut(b.chats, c.chats, added)
          /\ \A a \in added : c.chats[a].id \in listed \ Ids(b)
          /\ \A a \in added, d \in DOMAIN c.chats : c.chats[a].id = c.chats[d].id => a = d
     /\ \A a \in added \cup moved : c.chats[a].id \in listed
     /\ Defaults(c) = Defaults(b)
     /\ k.onConflict = "fail" /\ ~k.all => listed \subseteq Ids(c)

AsAsked(b, c, k, asked) ==
  /\ k.kind \notin {"botAdd", "botRm"} => c.bots = b.bots
  /\ k.kind \notin {"keyAdd", "keyRm"} => c.keys = b.keys
  /\ k.kind # "import" => SameBut(b.chats, c.chats, OwnAliases(b, k))
  /\ k.kind = "import" => ImportFits(b, c, k, UNION {Range(Listed(n)) : n \in asked})
  /\ k.kind \in {"set", "add", "find"} => k.id \in Ids(c)
  /\ k.kind = "botAdd" => \A m, n \in DOMAIN c.bots : c.bots[m].id = c.bots[n].id /\ m # n
                            => {m, n} \subseteq DOMAIN b.bots

OnlyWhatWasAsked ==
  \A p \in Procs : proc[p].at \in {"asked", "empty", "write"} /\ proc[p].cmd.kind # "edit" =>
    AsAsked(proc[p].base, proc[p].new, proc[p].cmd,
            IF proc[p].cmd.all THEN DOMAIN proc[p].base.bots ELSE {proc[p].bot})

(* Whatever the file has become: with several bots and none named, the     *)
(* commands that only read it (chats info and its like, send, api) work    *)
(* with the bot the chat is bound to and the chat's own id, or fail,       *)
(* whichever way bot and chat were chosen; and api never picks a bot.  Only*)
(* a chat given as an id is that id, were an alias written the same.       *)
BoundBot ==
  \A k \in Commands : file # Error /\ k.bot = Unset /\ ~k.creds /\ Cardinality(DOMAIN file.bots) > 1 =>
    LET t == IF k.kind = "info" THEN ChatTarget(file, k) ELSE SendTarget(file, k)
    IN /\ k.kind \in {"info", "send"} /\ t # NoTarget =>
            /\ t.ref \in DOMAIN file.chats
            /\ t.bot = file.chats[t.ref].bot /\ t.bot \in DOMAIN file.bots
            /\ k.chat \notin UUIDs => t.id = file.chats[t.ref].id
       /\ k.kind = "api" => LoadForAPI(file, k) \in {Error, "env"}
=============================================================================
