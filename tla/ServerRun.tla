----------------------------- MODULE ServerRun -----------------------------
(***************************************************************************)
(* The life of the HTTP server: the certificate, the listener, requests    *)
(* and the callback handlers they start, the signal, the shutdown and what *)
(* it waits for.  Server.Run joins every goroutine it started; a callback  *)
(* handler marked async outlives its request and is counted by a           *)
(* WaitGroup, here the set of those that are counted.                      *)
(*                                                                         *)
(* Requests are callbacks of BotX.  A handler is an operation that may     *)
(* last for ever, fail or panic; a failure is only logged.                 *)
(***************************************************************************)
EXTENDS CertReloader, SequencesExt

CONSTANTS Callbacks,
          Rules,         \* the rules: a sequence of records
          Payloads,      \* what each request may carry
          VerifyJWT,     \* callbacks.verify_jwt
          SecretOf,      \* the secret of each bot
          NoSecret,
          Now,           \* the time of the requests, in seconds
          TlsCallbacks    \* bound: those a server with a certificate gets

(* CallbacksConfig.Validate, without which the server does not start.      *)
RulesValid == \A i \in DOMAIN Rules : Rules[i].events # <<>>

ASSUME RunAssumption ==
  /\ RulesValid
  /\ VerifyJWT \in BOOLEAN /\ Now \in Int /\ TlsCallbacks \subseteq Callbacks
  /\ \A i \in DOMAIN Rules : Rules[i].async \in BOOLEAN
  /\ Rules \in Seq([events : Seq(STRING), async : BOOLEAN])
  /\ \A r \in Callbacks : <<>> \notin Payloads[r]

VARIABLES tls,          \* the server has a certificate
          phase,        \* where Run is
          ret,          \* what it is about to return
          signalled, timeUp,
          cbCancelled,  \* callbackCtx is cancelled
          runCancelled, \* cancelRun was called
          serve,        \* the goroutine that serves
          poller,       \* the goroutine that reloads the certificate
          waiter,       \* the goroutine that waits for async handlers
          wg,           \* callbackWG
          conn,         \* each request's connection
          ask, status,
          at,           \* the rule the loop over the matched ones has come to
          ran,          \* the rules whose handler was started, in order
          handler

runVars == <<tls, phase, ret, signalled, timeUp, runCancelled, serve, poller, waiter>>
callbackVars == <<conn, ask, status, at, ran>>
serverVars == <<certVars, runVars, cbCancelled, wg, callbackVars, handler>>

Jobs == Callbacks \X DOMAIN Rules

Endings == {"done", "stopped", "panicked"}

RunTypeOK ==
  /\ tls \in BOOLEAN /\ signalled \in BOOLEAN /\ timeUp \in BOOLEAN
  /\ cbCancelled \in BOOLEAN /\ runCancelled \in BOOLEAN
  /\ phase \in {"loading", "listen", "serving", "shutdown", "waiting",
                "joinServe", "joinPoller", "returned", "crashed"}
  /\ ret \in {"none", "nil", "error"}
  /\ serve \in {"none", "on", "closed", "failed", "done"}
  /\ poller \in {"none", "on", "done"}
  /\ waiter \in {"none", "new", "waiting", "woken", "done"}
  /\ wg \subseteq Jobs
  /\ conn \in [Callbacks -> {"none", "new", "active", "orphan", "answered", "aborted", "closed"}]
  /\ ask \in [Callbacks -> {<<>>} \cup UNION {Payloads[r] : r \in Callbacks}]
  /\ status \in [Callbacks -> {0, 200, 202, 400, 401, 403}]
  /\ at \in [Callbacks -> Nat]
  /\ ran \in [Callbacks -> Seq(DOMAIN Rules)]
  /\ handler \in [Jobs -> {"none", "running"} \cup Endings]

RunInit ==
  /\ CertInit
  /\ tls \in BOOLEAN /\ phase = "loading" /\ ret = "none"
  /\ signalled = FALSE /\ timeUp = FALSE /\ cbCancelled = FALSE /\ runCancelled = FALSE
  /\ serve = "none" /\ poller = "none" /\ waiter = "none" /\ wg = {}
  /\ conn = [r \in Callbacks |-> "none"] /\ ask = [r \in Callbacks |-> <<>>]
  /\ status = [r \in Callbacks |-> 0] /\ at = [r \in Callbacks |-> 1]
  /\ ran = [r \in Callbacks |-> <<>>]
  /\ handler = [j \in Jobs |-> "none"]

Up == phase \notin {"returned", "crashed"}
-----------------------------------------------------------------------------
(* What a callback says, and who handles it.                               *)

(* The lookup buildBotSecretLookup returns; bots without a secret fail it. *)
Secret(bot) == IF bot \in DOMAIN SecretOf THEN SecretOf[bot] ELSE NoSecret

(* verifyCallbackJWT: whom the token proves, nobody when it is no good.    *)
ClockSkew == 60

Proved(t) ==
  IF /\ t.alg = "HS256"
     /\ Secret(t.aud) # NoSecret /\ t.signedWith = Secret(t.aud)
     /\ Now <= t.exp + ClockSkew /\ Now >= t.nbf - ClockSkew
  THEN t.aud ELSE "nobody"

(* callbackJWTMiddleware.                                                  *)
Authentic(p) == VerifyJWT => Proved(p.token) # "nobody"

(* The status of a refusal, 0 when the callback is taken.                  *)
Refusal(p) ==
  IF ~Authentic(p) THEN 401
  ELSE IF ~p.wellFormed THEN 400
  ELSE IF p.endpoint = "command" /\ VerifyJWT /\ p.bot # Proved(p.token) THEN 403
  ELSE 0

Accepted(p) == IF p.endpoint = "command" THEN 202 ELSE 200

(* parseEventType.                                                         *)
EventOf(p) ==
  IF p.endpoint = "notification" THEN "notification_callback"
  ELSE IF p.system THEN p.text ELSE "message"

Matches(i, event) == \E e \in DOMAIN Rules[i].events : Rules[i].events[e] \in {event, "*"}

(* Mutant: the loop ends with the first rule that matched.                 *)
RouteFirst(event) ==
  {i \in DOMAIN Rules : Matches(i, event) /\ \A j \in 1 .. i - 1 : ~Matches(j, event)}

(* CallbackRouter.Route: the rules an event matches; they are taken in the *)
(* order of the configuration, each once.                                  *)
Route(event) == {i \in DOMAIN Rules : Matches(i, event)}

Todo(p) == IF Refusal(p) = 0 THEN Route(EventOf(p)) ELSE {}
-----------------------------------------------------------------------------
(* Requests.                                                               *)

Handling(r) == conn[r] \in {"active", "orphan"}
Pending(r)  == Handling(r) \/ conn[r] = "new"

(* The matched rules the loop has not come to, or awaits; the first is due.*)
Rest(r) == {i \in Todo(ask[r]) : i >= at[r]}
Due(r)  == {i \in Rest(r) : handler[<<r, i>>] = "none" /\ \A k \in Rest(r) : i <= k}

Accept(r) ==
  /\ Up /\ serve = "on" /\ conn[r] = "none" /\ (tls => r \in TlsCallbacks)
  /\ conn' = [conn EXCEPT ![r] = "new"]
  /\ UNCHANGED <<certVars, runVars, cbCancelled, wg, ask, status, at, ran, handler>>

Begin(r) ==
  /\ Up /\ conn[r] = "new"
  /\ conn' = [conn EXCEPT ![r] = "active"]
  /\ \E p \in Payloads[r] : ask' = [ask EXCEPT ![r] = p]
  /\ UNCHANGED <<certVars, runVars, cbCancelled, wg, status, at, ran, handler>>

ClientGone(r) ==
  /\ Up /\ conn[r] = "active"
  /\ conn' = [conn EXCEPT ![r] = "orphan"]
  /\ UNCHANGED <<certVars, runVars, cbCancelled, wg, ask, status, at, ran, handler>>

(* Mutant: the handler's goroutine is not counted.                         *)
StartUncounted(r) ==
  /\ Up /\ Handling(r)
  /\ \E i \in Due(r) :
       /\ handler' = [handler EXCEPT ![<<r, i>>] = "running"]
       /\ ran' = [ran EXCEPT ![r] = Append(@, i)]
       /\ at' = IF Rules[i].async THEN [at EXCEPT ![r] = i + 1] ELSE at
  /\ UNCHANGED <<certVars, runVars, cbCancelled, wg, conn, ask, status>>

(* The next matched rule, when none before it is awaited.                  *)
StartHandler(r) ==
  /\ Up /\ Handling(r)
  /\ \E i \in Due(r) :
       /\ handler' = [handler EXCEPT ![<<r, i>>] = "running"]
       /\ ran' = [ran EXCEPT ![r] = Append(@, i)]
       /\ wg' = IF Rules[i].async THEN wg \cup {<<r, i>>} ELSE wg
       /\ at' = IF Rules[i].async THEN [at EXCEPT ![r] = i + 1] ELSE at
  /\ UNCHANGED <<certVars, runVars, cbCancelled, conn, ask, status>>

(* The context a handler runs with: r.Context() or callbackCtx.            *)
Cancelled(j) ==
  IF Rules[j[2]].async THEN cbCancelled ELSE conn[j[1]] = "orphan"

(* Handle returns: by itself, or stopped by its context; or it panics.     *)
Ends(j, how) ==
  /\ Up /\ handler[j] = "running"
  /\ how = "stopped" => Cancelled(j)
  /\ handler' = [handler EXCEPT ![j] = how]

EndSync(j, how) ==
  /\ ~Rules[j[2]].async /\ Ends(j, how)
  /\ IF how = "panicked"
     THEN conn' = [conn EXCEPT ![j[1]] = "aborted"] /\ UNCHANGED at
     ELSE at' = [at EXCEPT ![j[1]] = j[2] + 1] /\ UNCHANGED conn
  /\ UNCHANGED <<certVars, runVars, cbCancelled, wg, ask, status, ran>>

(* A panic is recovered.  callbackWG.Done wakes the waiter when it was the *)
(* last.                                                                   *)
EndAsync(j, how) ==
  /\ Rules[j[2]].async /\ how # "panicked" /\ Ends(j, how)
  /\ wg' = wg \ {j}
  /\ waiter' = IF waiter = "waiting" /\ wg' = {} THEN "woken" ELSE waiter
  /\ UNCHANGED <<certVars, tls, phase, ret, signalled, timeUp, runCancelled, serve, poller,
                 cbCancelled, callbackVars>>

EndHandler == \E j \in Jobs, how \in Endings : EndSync(j, how) \/ EndAsync(j, how)

Answer(r) ==
  /\ Up /\ Handling(r) /\ Rest(r) = {}
  /\ conn' = [conn EXCEPT ![r] = IF @ = "active" THEN "answered" ELSE "closed"]
  /\ status' = [status EXCEPT ![r] =
       IF Refusal(ask[r]) = 0 THEN Accepted(ask[r]) ELSE Refusal(ask[r])]
  /\ UNCHANGED <<certVars, runVars, cbCancelled, wg, ask, at, ran, handler>>

Request(r) == Accept(r) \/ Begin(r) \/ ClientGone(r) \/ StartHandler(r) \/ Answer(r)
-----------------------------------------------------------------------------
(* Server.Run.                                                             *)

others == <<callbackVars, handler>>

Return(r) ==
  /\ phase' = "returned" /\ ret' = r
  /\ cbCancelled' = TRUE /\ runCancelled' = TRUE

(* loadInitial.                                                            *)
BeginLoad ==
  /\ phase = "loading" /\ tls /\ BeginReload
  /\ UNCHANGED <<runVars, cbCancelled, wg, others>>

Loaded ==
  /\ phase = "loading"
  /\ \/ ~tls /\ UNCHANGED certVars
     \/ step = "ok" /\ EndReload
  /\ phase' = "listen"
  /\ UNCHANGED <<tls, ret, signalled, timeUp, runCancelled, serve, poller, waiter,
                 cbCancelled, wg, others>>

LoadFailed ==
  /\ phase = "loading" /\ step = "failed" /\ EndReload /\ Return("error")
  /\ UNCHANGED <<tls, signalled, timeUp, serve, poller, waiter, wg, others>>

Listen ==
  /\ phase = "listen"
  /\ \/ /\ phase' = "serving" /\ serve' = "on"
        /\ poller' = IF tls THEN "on" ELSE "none"
        /\ UNCHANGED <<ret, runCancelled, cbCancelled>>
     \/ Return("error") /\ UNCHANGED <<serve, poller>>
  /\ UNCHANGED <<certVars, tls, signalled, timeUp, waiter, wg, others>>

(* The select after the server is up: an error of Serve, or the signal.    *)
TakeServeError ==
  /\ phase = "serving" /\ serve = "failed"
  /\ phase' = "joinServe" /\ ret' = "error"
  /\ UNCHANGED <<certVars, tls, signalled, timeUp, runCancelled, serve, poller, waiter,
                 cbCancelled, wg, others>>

(* http.Server.Shutdown closes the listener and waits for connections.     *)
BeginShutdown ==
  /\ phase = "serving" /\ signalled
  /\ phase' = "shutdown"
  /\ serve' = IF serve = "on" THEN "closed" ELSE serve
  /\ UNCHANGED <<certVars, tls, ret, signalled, timeUp, runCancelled, poller, waiter,
                 cbCancelled, wg, others>>

(* It returns when none is left, or with an error when the time is up;     *)
(* then the context of async handlers is cancelled, and awaited.           *)
EndShutdown ==
  /\ phase = "shutdown"
  /\ \/ (\A r \in Callbacks : ~Pending(r)) /\ UNCHANGED ret
     \/ timeUp /\ ret' = "error"
  /\ phase' = "waiting" /\ cbCancelled' = TRUE /\ waiter' = "new"
  /\ UNCHANGED <<certVars, tls, signalled, timeUp, runCancelled, serve, poller, wg, others>>

EndWait ==
  /\ phase = "waiting"
  /\ \/ waiter = "done" /\ ret' = IF ret = "error" THEN "error" ELSE "nil"
     \/ timeUp /\ ret' = "error"
  /\ phase' = "joinServe"
  /\ UNCHANGED <<certVars, tls, signalled, timeUp, runCancelled, serve, poller, waiter,
                 cbCancelled, wg, others>>

(* Mutant: the poller is awaited and not told.                             *)
JoinServeOnly ==
  /\ phase = "joinServe" /\ serve \in {"failed", "done"}
  /\ phase' = "joinPoller"
  /\ UNCHANGED <<certVars, tls, ret, signalled, timeUp, runCancelled, serve, poller, waiter,
                 cbCancelled, wg, others>>

(* The deferred calls, the last one first.                                 *)
JoinServe ==
  /\ phase = "joinServe" /\ serve \in {"failed", "done"}
  /\ phase' = "joinPoller" /\ runCancelled' = TRUE
  /\ UNCHANGED <<certVars, tls, ret, signalled, timeUp, serve, poller, waiter,
                 cbCancelled, wg, others>>

JoinPoller ==
  /\ phase = "joinPoller" /\ poller # "on" /\ Return(ret)
  /\ UNCHANGED <<certVars, tls, signalled, timeUp, serve, poller, waiter, wg, others>>

Run == \/ BeginLoad \/ Loaded \/ LoadFailed \/ Listen \/ TakeServeError
       \/ BeginShutdown \/ EndShutdown \/ EndWait \/ JoinServe \/ JoinPoller
-----------------------------------------------------------------------------
(* The goroutines Run starts.                                              *)

ServeFails ==
  /\ Up /\ serve = "on" /\ serve' = "failed"
  /\ UNCHANGED <<certVars, tls, phase, ret, signalled, timeUp, runCancelled, poller, waiter,
                 cbCancelled, wg, others>>

ServeReturns ==
  /\ Up /\ serve = "closed" /\ serve' = "done"
  /\ UNCHANGED <<certVars, tls, phase, ret, signalled, timeUp, runCancelled, poller, waiter,
                 cbCancelled, wg, others>>

(* callbackWG.Wait: woken to find the counter raised again it panics, and  *)
(* nobody recovers.                                                        *)
WaiterStep ==
  /\ Up
  /\ \/ /\ waiter = "new" /\ UNCHANGED phase
        /\ waiter' = IF wg = {} THEN "done" ELSE "waiting"
     \/ waiter = "woken" /\ wg = {} /\ waiter' = "done" /\ UNCHANGED phase
     \/ waiter = "woken" /\ wg # {} /\ phase' = "crashed" /\ UNCHANGED waiter
  /\ UNCHANGED <<certVars, tls, ret, signalled, timeUp, runCancelled, serve, poller,
                 cbCancelled, wg, others>>

Reading ==
  /\ Up /\ Reload
  /\ UNCHANGED <<runVars, cbCancelled, wg, others>>

(* certReloader.run: a failed reload keeps what is served.                 *)
ReloadTick ==
  /\ Up /\ poller = "on" /\ BeginReload
  /\ UNCHANGED <<runVars, cbCancelled, wg, others>>

(* Mutant: a failed reload ends the goroutine.                             *)
EndTickReturns ==
  /\ Up /\ poller = "on" /\ EndReload
  /\ poller' = IF step = "failed" THEN "done" ELSE poller
  /\ UNCHANGED <<tls, phase, ret, signalled, timeUp, runCancelled, serve, waiter,
                 cbCancelled, wg, others>>

EndTick ==
  /\ Up /\ poller = "on" /\ EndReload
  /\ UNCHANGED <<runVars, cbCancelled, wg, others>>

PollerStops ==
  /\ Up /\ poller = "on" /\ step = "rest" /\ (signalled \/ runCancelled)
  /\ poller' = "done"
  /\ UNCHANGED <<certVars, tls, phase, ret, signalled, timeUp, runCancelled, serve, waiter,
                 cbCancelled, wg, others>>
-----------------------------------------------------------------------------
(* The world.                                                              *)

Signal ==
  /\ Up /\ ~signalled /\ signalled' = TRUE
  /\ UNCHANGED <<certVars, tls, phase, ret, timeUp, runCancelled, serve, poller, waiter,
                 cbCancelled, wg, others>>

TimeUp ==
  /\ phase \in {"shutdown", "waiting"} /\ ~timeUp /\ timeUp' = TRUE
  /\ UNCHANGED <<certVars, tls, phase, ret, signalled, runCancelled, serve, poller, waiter,
                 cbCancelled, wg, others>>

(* Shutdown takes a connection without a request for idle after a while.   *)
CloseNew(r) ==
  /\ phase = "shutdown" /\ conn[r] = "new"
  /\ conn' = [conn EXCEPT ![r] = "closed"]
  /\ UNCHANGED <<certVars, runVars, cbCancelled, wg, ask, status, at, ran, handler>>

RotateFiles ==
  /\ Up /\ tls /\ Rotate
  /\ UNCHANGED <<runVars, cbCancelled, wg, others>>

RunNext ==
  \/ Run \/ ServeFails \/ ServeReturns \/ WaiterStep
  \/ Reading \/ ReloadTick \/ EndTick \/ PollerStops
  \/ EndHandler \/ \E r \in Callbacks : Request(r) \/ CloseNew(r)
  \/ Signal \/ TimeUp \/ RotateFiles

RunSpec == RunInit /\ [][RunNext]_serverVars

(* Goroutines run, the timer fires, reads of files end, and a select takes *)
(* each of its cases in the long run.  Nothing is assumed of handlers.     *)
Fairness ==
  /\ WF_serverVars(Run) /\ WF_serverVars(ServeReturns) /\ WF_serverVars(WaiterStep)
  /\ WF_serverVars(Reading) /\ WF_serverVars(ReloadTick) /\ WF_serverVars(EndTick) /\ SF_serverVars(PollerStops)
  /\ WF_serverVars(TimeUp)

FairSpec == RunSpec /\ Fairness
-----------------------------------------------------------------------------
(* Run returns nil only after everything it started has ended: no          *)
(* connection is open and no handler runs.  A server that returned has     *)
(* joined its goroutines; only one whose handlers overran the shutdown can *)
(* die of the reused WaitGroup.                                            *)
Quiet == \A r \in Callbacks : ~Pending(r)
Idle  == \A j \in Jobs : handler[j] # "running"

CleanReturn ==
  /\ phase = "returned" /\ ret = "nil" => Quiet /\ Idle
  /\ phase = "returned" => poller # "on" /\ serve \notin {"on", "closed"}
  /\ phase = "crashed" => ret = "error"

Counted == \A j \in Jobs : Rules[j[2]].async /\ handler[j] = "running" => j \in wg
Awaited == \A j \in Jobs : ~Rules[j[2]].async /\ handler[j] = "running" => Handling(j[1])

Drained ==
  /\ phase \in {"waiting", "joinServe", "joinPoller", "returned"} /\ ret # "error"
       => Quiet /\ serve # "on"
  /\ phase \in {"joinServe", "joinPoller", "returned"} /\ ret # "error"
       => ret = "nil" /\ waiter = "done"
  /\ phase \notin {"joinServe", "joinPoller", "returned"} => ret # "nil"
  /\ waiter # "none" => phase \notin {"loading", "listen", "serving", "shutdown"}
  /\ ret # "error" /\ waiter \in {"woken", "done"} => wg = {}

Joined ==
  /\ phase \in {"joinPoller", "returned"} => serve \notin {"on", "closed"}
  /\ phase = "returned" => poller # "on"
  /\ phase \in {"shutdown", "waiting"} => serve # "on"
  /\ phase \in {"loading", "listen"} => poller = "none" /\ serve = "none"
  /\ phase = "crashed" => ret = "error"

(* The loop of a request: what it has passed was started, in the order of  *)
(* the rules, and what it awaited was not left while its client was there. *)
Loop(r) ==
  /\ Range(ran[r]) \subseteq Todo(ask[r])
  /\ \A a, b \in DOMAIN ran[r] : a < b => ran[r][a] < ran[r][b]
  /\ \A i \in Todo(ask[r]) : i < at[r] => i \in Range(ran[r])
  /\ \A i \in Range(ran[r]) :
       /\ handler[<<r, i>>] # "none"
       /\ i >= at[r] => ~Rules[i].async /\ \A k \in Rest(r) : i <= k
       /\ i < at[r] /\ handler[<<r, i>>] = "running" => Rules[i].async
       /\ Rules[i].async /\ handler[<<r, i>>] = "stopped" => cbCancelled
       /\ ~Rules[i].async /\ conn[r] \in {"active", "answered"} =>
            IF i < at[r] THEN handler[<<r, i>>] = "done" ELSE handler[<<r, i>>] = "running"
  /\ conn[r] = "answered" => Rest(r) = {}
  /\ conn[r] = "answered" /\ status[r] \in {200, 202} => Refusal(ask[r]) = 0

Followed(r) ==
  /\ conn[r] \in {"none", "new"} => ask[r] = <<>>
  /\ conn[r] \in {"active", "orphan", "answered"} => ask[r] # <<>>
  /\ ask[r] = <<>> => ran[r] = <<>> /\ at[r] = 1
  /\ ask[r] # <<>> => Loop(r)
  /\ \A i \in DOMAIN Rules \ Range(ran[r]) : handler[<<r, i>>] = "none"

RunInv ==
  /\ CertTypeOK /\ RunTypeOK
  /\ Counted /\ Awaited /\ \A r \in Callbacks : Followed(r)
  /\ Drained /\ Joined /\ CleanReturn

(* An accepted callback ran every rule whose events name its own, each     *)
(* once and in order, and the answer waited for those that are not async;  *)
(* an async one ends before it is done only when the server shuts down.    *)
AcceptedMeansHandled ==
  \A r \in Callbacks : conn[r] = "answered" /\ status[r] \in {200, 202} =>
    /\ Range(ran[r]) = {i \in DOMAIN Rules :
                          Range(Rules[i].events) \cap {EventOf(ask[r]), "*"} # {}}
    /\ \A a, b \in DOMAIN ran[r] : a < b => ran[r][a] < ran[r][b]
    /\ \A a \in DOMAIN ran[r] :
         LET i == ran[r][a]
         IN IF Rules[i].async THEN handler[<<r, i>>] = "stopped" => cbCancelled
                              ELSE handler[<<r, i>>] = "done"

(* A signalled server, and one that cannot serve, returns, whatever its    *)
(* handlers do.                                                            *)
ShutdownReturns == (signalled \/ serve = "failed") ~> ~Up

(* A certificate and key that stay in place get served, whatever was found *)
(* in between.                                                              *)
RotationServed ==
  <>[](tls /\ phase = "serving" /\ disk.cert = disk.key) => <>[](served = disk.cert)
=============================================================================
