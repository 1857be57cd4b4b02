------------------------------- MODULE Worker -------------------------------
(***************************************************************************)
(* The worker process of the asynchronous mode: its lifecycle (runWorker)  *)
(* and the handling of one work message (handleMessage): bot lookup, token,*)
(* send, retry with backoff, refresh after a 401, reply.  The broker side  *)
(* is added by RabbitWorker and KafkaWorker, which EXTEND this module.     *)
(*                                                                         *)
(* A token is the version of it that BotX issued: 0 is "no token", live[b] *)
(* is the one BotX accepts.  `faults' counts every disturbance the outside *)
(* injects (signals, crashes, lost connections, failed calls).             *)
(***************************************************************************)
EXTENDS Naturals

CONSTANTS Workers, Messages, Bots,
          None,         \* no message
          BotOf,        \* the bot_id each message is routed to
          Malformed,    \* bodies that json.Unmarshal refuses
          Refused,      \* messages BotX answers with an error that is no 401
          WantsReply,   \* messages with a reply_to
          StaticBots,   \* bots configured with a token, not with a secret
          CacheOn,      \* a token cache is configured (type file or vault)
          DryRun,       \* workers started with --dry-run
          RetryCount,   \* worker.retry_count
          MaxToken,     \* bound: token versions BotX issues
          MaxFaults     \* bound: disturbances in a behaviour

ASSUME WorkerAssumption ==
  /\ None \notin Messages
  /\ Malformed \subseteq Messages
  /\ Refused \subseteq Messages
  /\ WantsReply \subseteq Messages
  /\ StaticBots \subseteq Bots
  /\ CacheOn \in BOOLEAN
  /\ DryRun \subseteq Workers
  /\ RetryCount \in Nat \ {0}
  /\ MaxToken \in Nat \ {0}
  /\ MaxFaults \in Nat

VARIABLES pc,           \* where each worker process is
          ctxDone,      \* its signal context is cancelled
          ready,        \* w.ready, served by /readyz
          healthy,      \* w.healthy, served by /healthz
          job,          \* the locals of handleMessage
          tok,          \* bc.client.Token of each bot's cached client
          cache,        \* the token cache all workers share
          live,         \* the token BotX accepts for a bot
          delivered,    \* posts that reached the chat, per message
          verdicts,     \* what workers concluded: <<message, verdict>>
          results,      \* statuses published to reply_to, per message
          faults

procVars   == <<pc, ctxDone, ready, healthy, job>>
tokenVars  == <<tok, cache, live>>
ghostVars  == <<delivered, verdicts, results>>
workerVars == <<procVars, tokenVars, ghostVars, faults>>

Token    == 0 .. MaxToken
Verdicts == {"none", "sent", "failed", "dry-run", "rejected"}
Sending  == {"try", "send", "sending", "refresh", "backoff"}
Handling == Sending \cup {"handle", "reply", "settle"}
PCs      == {"down", "idle", "drain"} \cup Handling
Jobs     == [msg : Messages \cup {None}, attempt : 0 .. RetryCount,
             again : BOOLEAN, verdict : Verdicts]
NewJob(m) == [msg |-> m, attempt |-> 0, again |-> FALSE, verdict |-> "none"]
NoJob    == NewJob(None)

Known(m)  == BotOf[m] \in Bots
Judged(v) == {m \in Messages : <<m, v>> \in verdicts}
(* Messages that are acknowledged although nothing was sent for them.      *)
Exempt    == Judged("rejected") \cup Judged("dry-run")

WorkerTypeOK ==
  /\ pc \in [Workers -> PCs]
  /\ ctxDone \in [Workers -> BOOLEAN]
  /\ ready \in [Workers -> BOOLEAN]
  /\ healthy \in [Workers -> BOOLEAN]
  /\ job \in [Workers -> Jobs]
  /\ tok \in [Workers -> [Bots -> Token]]
  /\ cache \in [Bots -> Token]
  /\ live \in [Bots -> Token]
  /\ delivered \in [Messages -> Nat]
  /\ verdicts \subseteq Messages \X Verdicts
  /\ results \in [Messages -> SUBSET {"sent", "failed", "dry-run"}]
  /\ faults \in 0 .. MaxFaults

WorkerInit ==
  /\ pc = [w \in Workers |-> "down"]
  /\ ctxDone = [w \in Workers |-> FALSE]
  /\ ready = [w \in Workers |-> FALSE]
  /\ healthy = [w \in Workers |-> FALSE]
  /\ job = [w \in Workers |-> NoJob]
  /\ tok = [w \in Workers |-> [b \in Bots |-> 0]]
  /\ cache = [b \in Bots |-> 0]
  /\ live = [b \in Bots |-> 1]
  /\ delivered = [m \in Messages |-> 0]
  /\ verdicts = {}
  /\ results = [m \in Messages |-> {}]
  /\ faults = 0

Fault == faults < MaxFaults /\ faults' = faults + 1

Goto(w, label) == pc' = [pc EXCEPT ![w] = label]
-----------------------------------------------------------------------------
(* Lifecycle, used by the drivers' actions.                                *)

(* runWorker up to ConsumeWork.                                            *)
Boot(w) ==
  /\ pc[w] = "down"
  /\ Goto(w, "idle")
  /\ ready' = [ready EXCEPT ![w] = TRUE]
  /\ healthy' = [healthy EXCEPT ![w] = TRUE]
  /\ UNCHANGED <<ctxDone, job, tokenVars, ghostVars, faults>>

(* ConsumeWork returned with the context cancelled.  The handler runs in   *)
(* the consumer's goroutine, so nothing is in flight any more.             *)
BeginDrain(w) ==
  /\ ctxDone[w]
  /\ Goto(w, "drain")
  /\ ready' = [ready EXCEPT ![w] = FALSE]
  /\ job' = [job EXCEPT ![w] = NoJob]
  /\ UNCHANGED <<ctxDone, healthy, tokenVars, ghostVars, faults>>

(* The process is gone (returned, exited with an error, or killed) and its *)
(* memory with it: the next one starts without tokens.                     *)
Down(w) ==
  /\ Goto(w, "down")
  /\ ctxDone' = [ctxDone EXCEPT ![w] = FALSE]
  /\ ready' = [ready EXCEPT ![w] = FALSE]
  /\ healthy' = [healthy EXCEPT ![w] = FALSE]
  /\ job' = [job EXCEPT ![w] = NoJob]
  /\ tok' = [tok EXCEPT ![w] = [b \in Bots |-> 0]]
  /\ UNCHANGED <<cache, live, ghostVars>>

(* SIGTERM or SIGINT.                                                      *)
Signal(w) ==
  /\ pc[w] # "down" /\ ~ctxDone[w] /\ Fault
  /\ ctxDone' = [ctxDone EXCEPT ![w] = TRUE]
  /\ UNCHANGED <<pc, ready, healthy, job, tokenVars, ghostVars>>

(* The driver calls handleMessage.                                         *)
Begin(w, m) ==
  /\ Goto(w, "handle")
  /\ job' = [job EXCEPT ![w] = NewJob(m)]
  /\ UNCHANGED <<ctxDone, ready, healthy, tokenVars, ghostVars, faults>>

(* The driver has settled the message handleMessage returned from.         *)
EndJob(w) ==
  /\ Goto(w, "idle")
  /\ job' = [job EXCEPT ![w] = NoJob]
  /\ UNCHANGED <<ctxDone, ready, healthy, tokenVars, ghostVars>>

(* handleMessage returned an error.                                        *)
HandlerErred(w) == job[w].verdict \in {"none", "failed"}
-----------------------------------------------------------------------------
(* handleMessage.                                                          *)

Bot(w) == BotOf[job[w].msg]

(* Publish a result and return: the verdict on the message.                *)
Conclude(w, v) ==
  /\ job' = [job EXCEPT ![w].verdict = v]
  /\ Goto(w, "reply")
  /\ verdicts' = verdicts \cup {<<job[w].msg, v>>}

(* `continue': the next attempt after a backoff, or the last error.        *)
NextAttempt(w) ==
  \/ /\ job[w].attempt < RetryCount
     /\ job' = [job EXCEPT ![w].attempt = @ + 1, ![w].again = FALSE]
     /\ Goto(w, "backoff")
     /\ UNCHANGED verdicts
  \/ job[w].attempt = RetryCount /\ Conclude(w, "failed")

(* Mutant: no early return for a dry run.                                  *)
DispatchIgnoresDryRun(w) ==
  /\ pc[w] = "handle"
  /\ \/ ~Known(job[w].msg) /\ Conclude(w, "rejected")
     \/ Known(job[w].msg) /\ Goto(w, "try") /\ UNCHANGED <<job, verdicts>>
  /\ UNCHANGED <<ctxDone, ready, healthy, tokenVars, delivered, results, faults>>

(* Look up the bot and its client.                                         *)
Dispatch(w) ==
  /\ pc[w] = "handle"
  /\ \/ ~Known(job[w].msg) /\ Conclude(w, "rejected")
     \/ Known(job[w].msg) /\ w \in DryRun /\ Conclude(w, "dry-run")
     \/ /\ Known(job[w].msg) /\ w \notin DryRun
        /\ Goto(w, "try")
        /\ UNCHANGED <<job, verdicts>>
  /\ UNCHANGED <<ctxDone, ready, healthy, tokenVars, delivered, results, faults>>

(* authenticate: the configured token, else the cached one, else a new one *)
(* from BotX that is then cached; an error of cache.Set is dropped.        *)
Authenticated(w, b) ==
  \/ /\ b \in StaticBots
     /\ tok' = [tok EXCEPT ![w][b] = 1]
     /\ UNCHANGED <<cache, faults>>
  \/ /\ b \notin StaticBots /\ CacheOn /\ cache[b] # 0
     /\ tok' = [tok EXCEPT ![w][b] = cache[b]]
     /\ UNCHANGED <<cache, faults>>
  \/ /\ b \notin StaticBots /\ ~(CacheOn /\ cache[b] # 0)
     /\ tok' = [tok EXCEPT ![w][b] = live[b]]
     /\ \/ /\ cache' = IF CacheOn THEN [cache EXCEPT ![b] = live[b]] ELSE cache
           /\ UNCHANGED faults
        \/ CacheOn /\ Fault /\ UNCHANGED cache

(* The secret could not be resolved, or BotX refused or did not answer.    *)
AuthFailed == Fault /\ UNCHANGED <<tok, cache>>

(* Top of an attempt: make sure the client has a token.                    *)
Try(w) ==
  /\ pc[w] = "try"
  /\ \/ /\ tok[w][Bot(w)] # 0
        /\ Goto(w, "send")
        /\ UNCHANGED <<job, verdicts, tok, cache, faults>>
     \/ /\ tok[w][Bot(w)] = 0
        /\ Authenticated(w, Bot(w))
        /\ Goto(w, "send")
        /\ UNCHANGED <<job, verdicts>>
     \/ /\ tok[w][Bot(w)] = 0
        /\ AuthFailed
        /\ NextAttempt(w)
  /\ UNCHANGED <<ctxDone, ready, healthy, live, delivered, results>>

(* SendWithSyncID: a cancelled context stops the request before it leaves. *)
BeginSend(w) ==
  /\ pc[w] = "send"
  /\ \/ ctxDone[w] /\ NextAttempt(w)
     \/ ~ctxDone[w] /\ Goto(w, "sending") /\ UNCHANGED <<job, verdicts>>
  /\ UNCHANGED <<ctxDone, ready, healthy, tokenVars, delivered, results, faults>>

Posted(m) == delivered' = [delivered EXCEPT ![m] = @ + 1]

(* The request failed: BotX refuses this message, the context was cancelled*)
(* while it was out, or a fault; it may have reached the chat all the same.*)
SendFailed(w) ==
  LET m == job[w].msg
      accepted == tok[w][Bot(w)] = live[Bot(w)] /\ m \notin Refused
  IN /\ \/ m \in Refused /\ UNCHANGED faults
        \/ ctxDone[w] /\ UNCHANGED faults
        \/ Fault
     /\ UNCHANGED delivered \/ (accepted /\ Posted(m))
     /\ NextAttempt(w)

(* 401: one refresh per attempt, none for a configured token.              *)
Unauthorized(w) ==
  /\ tok[w][Bot(w)] # live[Bot(w)]
  /\ \/ (Bot(w) \in StaticBots \/ job[w].again) /\ Conclude(w, "failed")
     \/ /\ Bot(w) \notin StaticBots /\ ~job[w].again
        /\ Goto(w, "refresh")
        /\ UNCHANGED <<job, verdicts>>
  /\ UNCHANGED <<delivered, faults>>

(* Mutant: no break after a successful send.                               *)
SendOKNoBreak(w) ==
  /\ tok[w][Bot(w)] = live[Bot(w)] /\ job[w].msg \notin Refused
  /\ Posted(job[w].msg)
  /\ NextAttempt(w)
  /\ UNCHANGED faults

SendOK(w) ==
  /\ tok[w][Bot(w)] = live[Bot(w)] /\ job[w].msg \notin Refused
  /\ Posted(job[w].msg)
  /\ Conclude(w, "sent")
  /\ UNCHANGED faults

FinishSend(w) ==
  /\ pc[w] = "sending"
  /\ SendOK(w) \/ SendFailed(w) \/ Unauthorized(w)
  /\ UNCHANGED <<ctxDone, ready, healthy, tokenVars, results>>

(* "Try token refresh" calls authenticate again, then sends once more.     *)
Refresh(w) ==
  /\ pc[w] = "refresh"
  /\ \/ /\ Authenticated(w, Bot(w))
        /\ job' = [job EXCEPT ![w].again = TRUE]
        /\ Goto(w, "send")
        /\ UNCHANGED verdicts
     \/ AuthFailed /\ Conclude(w, "failed")
  /\ UNCHANGED <<ctxDone, ready, healthy, live, delivered, results>>

(* Mutant: handleMessage returns from any backoff.                         *)
BackoffReturns(w) ==
  /\ pc[w] = "backoff"
  /\ Goto(w, "try") \/ Goto(w, "settle")
  /\ UNCHANGED <<ctxDone, ready, healthy, job, tokenVars, ghostVars, faults>>

(* The select between the backoff timer and the context: with a cancelled  *)
(* context handleMessage returns its error and publishes no result.        *)
Backoff(w) ==
  /\ pc[w] = "backoff"
  /\ \/ Goto(w, "try")
     \/ ctxDone[w] /\ Goto(w, "settle")
  /\ UNCHANGED <<ctxDone, ready, healthy, job, tokenVars, ghostVars, faults>>

StatusOf(v) == IF v = "rejected" THEN "failed" ELSE v

(* publishResult: an error of the publisher is logged and dropped.         *)
Reply(w) ==
  LET m == job[w].msg
      replied == [results EXCEPT ![m] = @ \cup {StatusOf(job[w].verdict)}]
  IN /\ pc[w] = "reply"
     /\ Goto(w, "settle")
     /\ \/ m \in WantsReply /\ results' = replied /\ UNCHANGED faults
        \/ m \in WantsReply /\ Fault /\ UNCHANGED results
        \/ m \notin WantsReply /\ UNCHANGED <<results, faults>>
     /\ UNCHANGED <<ctxDone, ready, healthy, job, tokenVars, delivered, verdicts>>

HandlerStep(w) == \/ Dispatch(w) \/ Try(w) \/ BeginSend(w) \/ FinishSend(w)
                  \/ Refresh(w) \/ Backoff(w) \/ Reply(w)
-----------------------------------------------------------------------------
(* BotX and the token cache.                                               *)

(* BotX stops accepting the token it issued.                               *)
Revoke(b) ==
  /\ live[b] < MaxToken
  /\ live' = [live EXCEPT ![b] = @ + 1]
  /\ UNCHANGED <<procVars, tok, cache, ghostVars, faults>>

(* The TTL of a cached token runs out.                                     *)
CacheExpire(b) ==
  /\ cache[b] # 0
  /\ cache' = [cache EXCEPT ![b] = 0]
  /\ UNCHANGED <<procVars, tok, live, ghostVars, faults>>
-----------------------------------------------------------------------------
(* Properties that do not depend on the driver.                            *)

(* A "sent" result is published only for a message that reached its chat,  *)
(* and a worker that concluded "sent" has posted it (handleMessage).       *)
ResultsTruthful ==
  /\ \A m \in Messages : "sent" \in results[m] => delivered[m] > 0
  /\ \A w \in Workers : job[w].verdict = "sent" => delivered[job[w].msg] > 0

(* What a verdict is worth, and when a handler may return without one: the *)
(* inductive part of ResultsTruthful and of the drivers' properties.       *)
VerdictEarned(w) ==
  /\ job[w].verdict # "none" => job[w].msg \in Messages
  /\ job[w].verdict = "sent" => delivered[job[w].msg] > 0
  /\ job[w].verdict # "none" => <<job[w].msg, job[w].verdict>> \in verdicts

WorkerInv ==
  /\ \A m \in Messages : "sent" \in results[m] => delivered[m] > 0
  /\ \A w \in Workers :
       /\ pc[w] \in Handling => job[w].msg \in Messages
       /\ pc[w] \in Sending => Known(job[w].msg)
       /\ pc[w] = "reply" => job[w].verdict # "none"
       /\ pc[w] = "settle" /\ job[w].verdict = "none" => ctxDone[w]
       /\ VerdictEarned(w)

(* A chat sees a message again only after a disturbance, and at most once  *)
(* more for each: retry, refresh and redelivery never post twice on their  *)
(* own (the break after a successful send in handleMessage).               *)
DuplicatesNeedFaults == \A m \in Messages : delivered[m] <= 1 + faults

(* A dry-run worker posts nothing and gives no bot's client a token, also  *)
(* beside workers that send, and its verdict on a message is never that of *)
(* an attempt.  (Its mention lookups, outside this model, may still ask    *)
(* BotX with their own client.)                                            *)
DryRunSilent ==
  \A w \in DryRun : /\ pc[w] \notin Sending
                    /\ job[w].verdict \in {"none", "rejected", "dry-run"}
                    /\ \A b \in Bots : tok[w][b] = 0

(* After a 401 the message is sent again with another token (handleMessage,*)
(* "Try token refresh").                                                   *)
RefreshReplacesToken ==
  [][\A w \in Workers : pc[w] = "refresh" /\ pc'[w] = "send"
                        => tok'[w][Bot(w)] # tok[w][Bot(w)]]_workerVars
=============================================================================
