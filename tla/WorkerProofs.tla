---------------------------- MODULE WorkerProofs ----------------------------
(***************************************************************************)
(* What every step of the worker process keeps, whichever driver runs it.  *)
(* RabbitWorkerProofs and KafkaWorkerProofs cite these lemmas.             *)
(***************************************************************************)
EXTENDS Worker, TLAPS

WInv == WorkerTypeOK /\ WorkerInv

(* Only worker w moves, and its message stays the same.                    *)
OnlyMoves(w) ==
  /\ pc' \in [Workers -> PCs] /\ job' \in [Workers -> Jobs]
  /\ job'[w].msg = job[w].msg
  /\ \A x \in Workers \ {w} : pc'[x] = pc[x] /\ job'[x] = job[x]

(* Posts and verdicts are never taken back.                       *)
Monotone ==
  /\ delivered' \in [Messages -> Nat] /\ verdicts' \subseteq Messages \X Verdicts
  /\ verdicts \subseteq verdicts'
  /\ \A m \in Messages : delivered'[m] >= delivered[m]

(* Conclude moves to "reply" with its verdict.                             *)
LEMMA ConcludeEffect ==
  ASSUME WInv, NEW w \in Workers, pc[w] \in Handling,
         NEW v \in Verdicts, Conclude(w, v)
  PROVE  /\ OnlyMoves(w)
         /\ pc'[w] = "reply" /\ job'[w].verdict = v
         /\ verdicts \subseteq verdicts' /\ verdicts' \subseteq Messages \X Verdicts
         /\ <<job[w].msg, v>> \in verdicts'
<1>1. job[w].msg \in Messages
  BY DEF WInv, WorkerInv
<1>2. /\ verdicts' = verdicts \cup {<<job[w].msg, v>>}
      /\ verdicts \subseteq Messages \X Verdicts
  BY DEF Conclude, WInv, WorkerTypeOK
<1>3. OnlyMoves(w) /\ pc'[w] = "reply" /\ job'[w].verdict = v
  BY DEF WInv, WorkerTypeOK, Conclude, Goto, Jobs, OnlyMoves, PCs, Handling
<1>4. <<job[w].msg, v>> \in Messages \X Verdicts
  BY <1>1
<1>5. verdicts' \subseteq Messages \X Verdicts
  BY <1>2, <1>4
<1>6. verdicts \subseteq verdicts' /\ <<job[w].msg, v>> \in verdicts'
  BY <1>2
<1> QED
  BY <1>3, <1>5, <1>6

(* NextAttempt backs off, or gives the message up.                         *)
LEMMA NextAttemptEffect ==
  ASSUME WInv, NEW w \in Workers, pc[w] \in Handling, NextAttempt(w)
  PROVE  /\ OnlyMoves(w)
         /\ verdicts \subseteq verdicts' /\ verdicts' \subseteq Messages \X Verdicts
         /\ \/ pc'[w] = "backoff" /\ job'[w].verdict = job[w].verdict
            \/ /\ pc'[w] = "reply" /\ job'[w].verdict = "failed"
               /\ <<job[w].msg, "failed">> \in verdicts'
<1>1. CASE Conclude(w, "failed")
  BY <1>1, ConcludeEffect DEF Verdicts
<1>2. CASE /\ job[w].attempt < RetryCount
           /\ job' = [job EXCEPT ![w].attempt = @ + 1, ![w].again = FALSE]
           /\ Goto(w, "backoff") /\ UNCHANGED verdicts
  <2> DEFINE next == [job[w] EXCEPT !.attempt = @ + 1, !.again = FALSE]
  <2>1. job[w] \in Jobs /\ job[w].attempt + 1 \in 0 .. RetryCount
    BY <1>2, WorkerAssumption DEF WInv, WorkerTypeOK, WorkerAssumption, Jobs
  <2>2. next \in Jobs /\ next.msg = job[w].msg /\ next.verdict = job[w].verdict
    BY <2>1 DEF Jobs
  <2>3. job' = [job EXCEPT ![w] = next]
    BY <1>2
  <2>4. pc' = [pc EXCEPT ![w] = "backoff"] /\ verdicts' = verdicts
    BY <1>2 DEF Goto
  <2> HIDE DEF next
  <2> QED
    BY <2>2, <2>3, <2>4 DEF WInv, WorkerTypeOK, OnlyMoves, PCs, Handling, Sending
<1> QED
  BY <1>1, <1>2 DEF NextAttempt

(* Enough to show for the worker that moved.                               *)
LEMMA LocalSuffices ==
  ASSUME WInv, NEW w \in Workers, OnlyMoves(w), Monotone,
         ctxDone' = ctxDone, pc[w] \in Handling, pc'[w] \in Handling,
         VerdictEarned(w)',
         pc'[w] \in Sending => Known(job[w].msg),
         pc'[w] = "reply" => job'[w].verdict # "none",
         pc'[w] = "settle" /\ job'[w].verdict = "none" => ctxDone[w],
         \A m \in Messages : "sent" \in results'[m] => delivered'[m] > 0
  PROVE  WorkerInv'
<1> SUFFICES ASSUME NEW x \in Workers
             PROVE  /\ pc'[x] \in Handling => job'[x].msg \in Messages
                    /\ pc'[x] \in Sending => Known(job'[x].msg)
                    /\ pc'[x] = "reply" => job'[x].verdict # "none"
                    /\ pc'[x] = "settle" /\ job'[x].verdict = "none" => ctxDone'[x]
                    /\ VerdictEarned(x)'
  BY DEF WorkerInv, Known
<1>1. CASE x = w
  BY <1>1 DEF WInv, WorkerInv, OnlyMoves
<1>2. CASE x # w
  <2>1. pc'[x] = pc[x] /\ job'[x] = job[x]
    BY <1>2 DEF OnlyMoves
  <2>2. VerdictEarned(x)
    BY DEF WInv, WorkerInv
  <2>3. VerdictEarned(x)'
    BY <2>1, <2>2 DEF VerdictEarned, Monotone, WInv, WorkerTypeOK, Known
  <2> QED
    BY <2>1, <2>3 DEF WInv, WorkerInv
<1> QED
  BY <1>1, <1>2

(* An earned verdict stays earned while the message and posts are kept.    *)
LEMMA EarnedStays ==
  ASSUME WInv, NEW w \in Workers, OnlyMoves(w), Monotone,
         job'[w].verdict = job[w].verdict
  PROVE  VerdictEarned(w)'
<1>1. VerdictEarned(w)
  BY DEF WInv, WorkerInv
<1> QED
  BY <1>1 DEF VerdictEarned, OnlyMoves, Monotone, WInv, WorkerTypeOK, Known

(* The three ways an action of the handler goes on.                        *)
PostsKept == /\ delivered' \in [Messages -> Nat]
             /\ \A m \in Messages : delivered'[m] >= delivered[m]

LEMMA SentStays ==
  ASSUME WInv, PostsKept, results' = results
  PROVE  \A m \in Messages : "sent" \in results'[m] => delivered'[m] > 0
  BY DEF WInv, WorkerInv, WorkerTypeOK, PostsKept

LEMMA AfterConclude ==
  ASSUME WInv, NEW w \in Workers, pc[w] \in Handling,
         NEW v \in Verdicts \ {"none"}, Conclude(w, v),
         PostsKept, ctxDone' = ctxDone, results' = results,
         v = "sent" => delivered'[job[w].msg] > 0
  PROVE  OnlyMoves(w) /\ Monotone /\ pc'[w] \in Handling /\ WorkerInv'
<1>1. /\ OnlyMoves(w) /\ Monotone
      /\ pc'[w] = "reply" /\ job'[w].verdict = v
      /\ <<job[w].msg, v>> \in verdicts'
  BY ConcludeEffect DEF PostsKept, Monotone
<1>2. VerdictEarned(w)'
  BY <1>1 DEF VerdictEarned, OnlyMoves, WInv, WorkerInv, Known
<1> QED
  BY <1>1, <1>2, SentStays, LocalSuffices DEF Handling, Sending

LEMMA AfterNextAttempt ==
  ASSUME WInv, NEW w \in Workers, pc[w] \in Sending, NextAttempt(w),
         PostsKept, ctxDone' = ctxDone, results' = results
  PROVE  OnlyMoves(w) /\ Monotone /\ pc'[w] \in Handling /\ WorkerInv'
<1>1. pc[w] \in Handling /\ Known(job[w].msg) /\ job[w].msg \in Messages
  BY DEF WInv, WorkerInv, Handling
<1>2. OnlyMoves(w) /\ Monotone
  BY <1>1, NextAttemptEffect DEF PostsKept, Monotone
<1>3. /\ pc'[w] \in {"backoff", "reply"} /\ VerdictEarned(w)'
      /\ pc'[w] = "reply" => job'[w].verdict # "none"
  <2>1. CASE pc'[w] = "backoff" /\ job'[w].verdict = job[w].verdict
    BY <1>2, <2>1, EarnedStays
  <2>2. CASE /\ pc'[w] = "reply" /\ job'[w].verdict = "failed"
             /\ <<job[w].msg, "failed">> \in verdicts'
    BY <1>1, <1>2, <2>2 DEF VerdictEarned, OnlyMoves
  <2> QED
    BY <1>1, <2>1, <2>2, NextAttemptEffect
<1> QED
  BY <1>1, <1>2, <1>3, SentStays, LocalSuffices DEF Handling, Sending

LEMMA AfterGoto ==
  ASSUME WInv, NEW w \in Workers, pc[w] \in Handling,
         NEW label \in Handling \ {"reply"}, Goto(w, label),
         job' \in [Workers -> Jobs], job'[w].msg = job[w].msg,
         job'[w].verdict = job[w].verdict,
         \A x \in Workers \ {w} : job'[x] = job[x],
         verdicts' = verdicts, PostsKept, ctxDone' = ctxDone,
         label \in Sending => Known(job[w].msg),
         label = "settle" => job[w].verdict # "none" \/ ctxDone[w],
         \A m \in Messages : "sent" \in results'[m] => delivered'[m] > 0
  PROVE  OnlyMoves(w) /\ Monotone /\ pc'[w] \in Handling /\ WorkerInv'
<1>1. OnlyMoves(w) /\ Monotone /\ pc'[w] = label
  BY DEF Goto, OnlyMoves, Monotone, PostsKept, WInv, WorkerTypeOK, PCs
<1> QED
  BY <1>1, EarnedStays, LocalSuffices
-----------------------------------------------------------------------------
(* What one step of the handler does, as far as a driver needs to know.    *)
HandlerEffect(w) ==
  /\ WInv' /\ OnlyMoves(w) /\ Monotone
  /\ pc[w] \in Handling /\ pc'[w] \in Handling
  /\ ctxDone' = ctxDone

LEMMA DispatchEffect ==
  ASSUME WInv, NEW w \in Workers, Dispatch(w)
  PROVE  HandlerEffect(w)
<1>1. /\ pc[w] \in Handling /\ ctxDone' = ctxDone /\ results' = results
      /\ delivered' = delivered /\ PostsKept /\ job[w].msg \in Messages
  BY DEF Dispatch, WInv, WorkerInv, WorkerTypeOK, PostsKept, Handling
<1>2. OnlyMoves(w) /\ Monotone /\ pc'[w] \in Handling /\ WorkerInv'
  <2>1. CASE ~Known(job[w].msg) /\ Conclude(w, "rejected")
    BY <1>1, <2>1, AfterConclude DEF Verdicts
  <2>2. CASE Known(job[w].msg) /\ w \in DryRun /\ Conclude(w, "dry-run")
    BY <1>1, <2>2, AfterConclude DEF Verdicts
  <2>3. CASE Known(job[w].msg) /\ Goto(w, "try") /\ UNCHANGED <<job, verdicts>>
    BY <1>1, <2>3, AfterGoto DEF WInv, WorkerInv, WorkerTypeOK, Handling, Sending
  <2> QED
    BY <2>1, <2>2, <2>3 DEF Dispatch
<1>3. WorkerTypeOK'
  BY <1>1, <1>2 DEF OnlyMoves, Monotone, WInv, WorkerTypeOK, Dispatch, tokenVars
<1> QED
  BY <1>1, <1>2, <1>3 DEF HandlerEffect, WInv

(* Authentication leaves tokens and fault count in range.                  *)
LEMMA AuthTyped ==
  ASSUME WInv, NEW w \in Workers, NEW b \in Bots,
         Authenticated(w, b) \/ AuthFailed
  PROVE  /\ tok' \in [Workers -> [Bots -> Token]]
         /\ cache' \in [Bots -> Token]
         /\ faults' \in 0 .. MaxFaults
<1>1. CASE Authenticated(w, b)
  <2>1. 1 \in Token /\ cache[b] \in Token /\ live[b] \in Token
    BY WorkerAssumption DEF WorkerAssumption, WInv, WorkerTypeOK, Token
  <2>2. /\ \E t \in Token : tok' = [tok EXCEPT ![w][b] = t]
        /\ cache' = cache \/ cache' = [cache EXCEPT ![b] = live[b]]
        /\ faults' = faults \/ Fault
    BY <1>1, <2>1 DEF Authenticated
  <2>3. tok' \in [Workers -> [Bots -> Token]]
    BY <2>2 DEF WInv, WorkerTypeOK
  <2>4. cache' \in [Bots -> Token]
    BY <2>1, <2>2 DEF WInv, WorkerTypeOK
  <2>5. faults' \in 0 .. MaxFaults
    BY <2>2, WorkerAssumption DEF Fault, WInv, WorkerTypeOK, WorkerAssumption
  <2> QED
    BY <2>3, <2>4, <2>5
<1>2. CASE AuthFailed
  BY <1>2, WorkerAssumption
  DEF AuthFailed, Fault, WInv, WorkerTypeOK, WorkerAssumption
<1> QED
  BY <1>1, <1>2

LEMMA TryEffect ==
  ASSUME WInv, NEW w \in Workers, Try(w)
  PROVE  HandlerEffect(w)
<1>1. /\ pc[w] \in Handling /\ pc[w] \in Sending
      /\ ctxDone' = ctxDone /\ results' = results
      /\ PostsKept /\ Known(job[w].msg) /\ Bot(w) \in Bots
  BY DEF Try, WInv, WorkerInv, WorkerTypeOK, PostsKept, Handling, Sending, Known, Bot
<1>2. OnlyMoves(w) /\ Monotone /\ pc'[w] \in Handling /\ WorkerInv'
  <2>1. CASE Goto(w, "send") /\ UNCHANGED <<job, verdicts>>
    BY <1>1, <2>1, AfterGoto, SentStays DEF WInv, WorkerTypeOK, Handling, Sending
  <2>2. CASE NextAttempt(w)
    BY <1>1, <2>2, AfterNextAttempt
  <2> QED
    BY <2>1, <2>2 DEF Try
<1>3. /\ tok' \in [Workers -> [Bots -> Token]] /\ cache' \in [Bots -> Token]
      /\ faults' \in 0 .. MaxFaults
  <2>1. CASE UNCHANGED <<tok, cache, faults>>
    BY <2>1 DEF WInv, WorkerTypeOK
  <2>2. CASE Authenticated(w, Bot(w)) \/ AuthFailed
    BY <1>1, <2>2, AuthTyped
  <2> QED
    BY <2>1, <2>2 DEF Try
<1>4. WorkerTypeOK'
  BY <1>1, <1>2, <1>3 DEF OnlyMoves, Monotone, WInv, WorkerTypeOK, Try
<1> QED
  BY <1>1, <1>2, <1>4 DEF HandlerEffect, WInv

LEMMA BeginSendEffect ==
  ASSUME WInv, NEW w \in Workers, BeginSend(w)
  PROVE  HandlerEffect(w)
<1>1. /\ pc[w] \in Handling /\ pc[w] \in Sending
      /\ ctxDone' = ctxDone /\ results' = results
      /\ PostsKept /\ Known(job[w].msg)
  BY DEF BeginSend, WInv, WorkerInv, WorkerTypeOK, PostsKept, Handling, Sending
<1>2. OnlyMoves(w) /\ Monotone /\ pc'[w] \in Handling /\ WorkerInv'
  <2>1. CASE Goto(w, "sending") /\ UNCHANGED <<job, verdicts>>
    BY <1>1, <2>1, AfterGoto, SentStays DEF WInv, WorkerTypeOK, Handling, Sending
  <2>2. CASE NextAttempt(w)
    BY <1>1, <2>2, AfterNextAttempt
  <2> QED
    BY <2>1, <2>2 DEF BeginSend
<1>3. WorkerTypeOK'
  BY <1>1, <1>2
  DEF OnlyMoves, Monotone, WInv, WorkerTypeOK, BeginSend, tokenVars
<1> QED
  BY <1>1, <1>2, <1>3 DEF HandlerEffect, WInv

(* A post adds one to the posts of its message.                            *)
LEMMA PostedKeeps ==
  ASSUME WInv, NEW m \in Messages, Posted(m)
  PROVE  PostsKept /\ delivered'[m] > 0
  BY DEF WInv, WorkerTypeOK, Posted, PostsKept

LEMMA FinishSendEffect ==
  ASSUME WInv, NEW w \in Workers, FinishSend(w)
  PROVE  HandlerEffect(w)
<1>1. /\ pc[w] \in Handling /\ pc[w] \in Sending
      /\ ctxDone' = ctxDone /\ results' = results
      /\ Known(job[w].msg) /\ job[w].msg \in Messages
  BY DEF FinishSend, WInv, WorkerInv, Handling, Sending
<1>2. PostsKept /\ faults' \in 0 .. MaxFaults
  <2>1. UNCHANGED delivered => PostsKept
    BY DEF WInv, WorkerTypeOK, PostsKept
  <2>2. UNCHANGED faults \/ Fault => faults' \in 0 .. MaxFaults
    BY WorkerAssumption DEF WInv, WorkerTypeOK, WorkerAssumption, Fault
  <2> QED
    BY <1>1, <2>1, <2>2, PostedKeeps DEF FinishSend, SendOK, SendFailed, Unauthorized
<1>3. OnlyMoves(w) /\ Monotone /\ pc'[w] \in Handling /\ WorkerInv'
  <2>1. CASE SendOK(w)
    BY <1>1, <1>2, <2>1, AfterConclude, PostedKeeps DEF SendOK, Verdicts
  <2>2. CASE SendFailed(w)
    BY <1>1, <1>2, <2>2, AfterNextAttempt DEF SendFailed
  <2>3. CASE Unauthorized(w)
    <3>1. CASE Conclude(w, "failed")
      BY <1>1, <1>2, <3>1, AfterConclude DEF Verdicts
    <3>2. CASE Goto(w, "refresh") /\ UNCHANGED <<job, verdicts>>
      BY <1>1, <1>2, <3>2, AfterGoto, SentStays
      DEF WInv, WorkerTypeOK, Handling, Sending
    <3> QED
      BY <2>3, <3>1, <3>2 DEF Unauthorized
  <2> QED
    BY <2>1, <2>2, <2>3 DEF FinishSend
<1>4. WorkerTypeOK'
  BY <1>1, <1>2, <1>3
  DEF OnlyMoves, Monotone, WInv, WorkerTypeOK, FinishSend, tokenVars
<1> QED
  BY <1>1, <1>3, <1>4 DEF HandlerEffect, WInv

LEMMA RefreshEffect ==
  ASSUME WInv, NEW w \in Workers, Refresh(w)
  PROVE  HandlerEffect(w)
<1>1. /\ pc[w] \in Handling /\ ctxDone' = ctxDone /\ results' = results
      /\ PostsKept /\ Known(job[w].msg) /\ Bot(w) \in Bots
  BY DEF Refresh, WInv, WorkerInv, WorkerTypeOK, PostsKept, Handling, Sending, Known, Bot
<1>2. OnlyMoves(w) /\ Monotone /\ pc'[w] \in Handling /\ WorkerInv'
  <2>1. CASE /\ job' = [job EXCEPT ![w].again = TRUE]
             /\ Goto(w, "send") /\ UNCHANGED verdicts
    <3>1. /\ job' \in [Workers -> Jobs] /\ job'[w].msg = job[w].msg
          /\ job'[w].verdict = job[w].verdict
          /\ \A x \in Workers \ {w} : job'[x] = job[x]
      BY <2>1 DEF WInv, WorkerTypeOK, Jobs
    <3> QED
      BY <1>1, <2>1, <3>1, AfterGoto, SentStays DEF Handling, Sending
  <2>2. CASE Conclude(w, "failed")
    BY <1>1, <2>2, AfterConclude DEF Verdicts
  <2> QED
    BY <2>1, <2>2 DEF Refresh
<1>3. /\ tok' \in [Workers -> [Bots -> Token]] /\ cache' \in [Bots -> Token]
      /\ faults' \in 0 .. MaxFaults
  BY <1>1, AuthTyped DEF Refresh
<1>4. WorkerTypeOK'
  BY <1>1, <1>2, <1>3 DEF OnlyMoves, Monotone, WInv, WorkerTypeOK, Refresh
<1> QED
  BY <1>1, <1>2, <1>4 DEF HandlerEffect, WInv

LEMMA BackoffEffect ==
  ASSUME WInv, NEW w \in Workers, Backoff(w)
  PROVE  HandlerEffect(w)
<1>1. /\ pc[w] \in Handling /\ ctxDone' = ctxDone /\ results' = results
      /\ PostsKept /\ Known(job[w].msg) /\ UNCHANGED <<job, verdicts>>
  BY DEF Backoff, WInv, WorkerInv, WorkerTypeOK, PostsKept, Handling, Sending,
         procVars, ghostVars
<1>2. OnlyMoves(w) /\ Monotone /\ pc'[w] \in Handling /\ WorkerInv'
  <2>1. CASE Goto(w, "try")
    BY <1>1, <2>1, AfterGoto, SentStays DEF WInv, WorkerTypeOK, Handling, Sending
  <2>2. CASE ctxDone[w] /\ Goto(w, "settle")
    BY <1>1, <2>2, AfterGoto, SentStays DEF WInv, WorkerTypeOK, Handling, Sending
  <2> QED
    BY <2>1, <2>2 DEF Backoff
<1>3. WorkerTypeOK'
  BY <1>1, <1>2
  DEF OnlyMoves, Monotone, WInv, WorkerTypeOK, Backoff, tokenVars, ghostVars
<1> QED
  BY <1>1, <1>2, <1>3 DEF HandlerEffect, WInv

LEMMA ReplyEffect ==
  ASSUME WInv, NEW w \in Workers, Reply(w)
  PROVE  HandlerEffect(w)
<1>1. /\ pc[w] \in Handling /\ ctxDone' = ctxDone /\ PostsKept
      /\ UNCHANGED <<job, verdicts, delivered>> /\ job[w].msg \in Messages
      /\ job[w].verdict # "none" /\ VerdictEarned(w)
  BY DEF Reply, WInv, WorkerInv, WorkerTypeOK, PostsKept, Handling
<1>2. StatusOf(job[w].verdict) \in {"sent", "failed", "dry-run"}
  BY <1>1 DEF StatusOf, WInv, WorkerTypeOK, Jobs, Verdicts
<1>3. StatusOf(job[w].verdict) = "sent" => delivered'[job[w].msg] > 0
  BY <1>1 DEF StatusOf, VerdictEarned
<1>4. /\ results' \in [Messages -> SUBSET {"sent", "failed", "dry-run"}]
      /\ \A m \in Messages : "sent" \in results'[m] => delivered'[m] > 0
      /\ faults' \in 0 .. MaxFaults
  <2>1. CASE results' = results
    BY <1>1, <2>1, SentStays, WorkerAssumption
    DEF Reply, Fault, WInv, WorkerTypeOK, WorkerAssumption
  <2>2. CASE /\ results' = [results EXCEPT ![job[w].msg] =
                              @ \cup {StatusOf(job[w].verdict)}]
             /\ UNCHANGED faults
    BY <1>1, <1>2, <1>3, <2>2 DEF WInv, WorkerInv, WorkerTypeOK
  <2> QED
    BY <2>1, <2>2 DEF Reply
<1>5. OnlyMoves(w) /\ Monotone /\ pc'[w] \in Handling /\ WorkerInv'
  <2>1. Goto(w, "settle")
    BY DEF Reply
  <2> QED
    BY <1>1, <1>4, <2>1, AfterGoto DEF WInv, WorkerTypeOK, Handling, Sending
<1>6. WorkerTypeOK'
  BY <1>1, <1>4, <1>5
  DEF OnlyMoves, Monotone, WInv, WorkerTypeOK, Reply, tokenVars
<1> QED
  BY <1>1, <1>5, <1>6 DEF HandlerEffect, WInv

LEMMA HandlerStepEffect ==
  ASSUME WInv, NEW w \in Workers, HandlerStep(w)
  PROVE  HandlerEffect(w)
  BY DispatchEffect, TryEffect, BeginSendEffect, FinishSendEffect,
     RefreshEffect, BackoffEffect, ReplyEffect DEF HandlerStep
-----------------------------------------------------------------------------
(* Lifecycle and environment steps keep the invariant too.                 *)

(* Worker w loses its message, or takes one without a verdict.             *)
LEMMA FreshJobKeeps ==
  ASSUME WInv, NEW w \in Workers, NEW label \in PCs, NEW m \in Messages \cup {None},
         Goto(w, label), job' = [job EXCEPT ![w] = NewJob(m)],
         label \notin Handling \/ (label = "handle" /\ m \in Messages),
         ctxDone' \in [Workers -> BOOLEAN],
         \A x \in Workers \ {w} : ctxDone'[x] = ctxDone[x],
         ready' \in [Workers -> BOOLEAN], healthy' \in [Workers -> BOOLEAN],
         tok' \in [Workers -> [Bots -> Token]], faults' \in 0 .. MaxFaults,
         UNCHANGED <<cache, live, ghostVars>>
  PROVE  WInv'
<1>1. NewJob(m) \in Jobs /\ NewJob(m).msg = m /\ NewJob(m).verdict = "none"
  BY WorkerAssumption DEF NewJob, Jobs, Verdicts, WorkerAssumption
<1>2. /\ pc' \in [Workers -> PCs] /\ pc'[w] = label
      /\ job' \in [Workers -> Jobs]
      /\ job'[w].msg = m /\ job'[w].verdict = "none"
      /\ \A x \in Workers \ {w} : pc'[x] = pc[x] /\ job'[x] = job[x]
  BY <1>1 DEF Goto, WInv, WorkerTypeOK
<1>3. WorkerTypeOK'
  BY <1>2 DEF WInv, WorkerTypeOK, ghostVars
<1>4. \A x \in Workers : VerdictEarned(x)'
  BY <1>2 DEF WInv, WorkerInv, VerdictEarned, Known, ghostVars
<1>5. WorkerInv'
  BY <1>2, <1>4 DEF WInv, WorkerInv, Known, Handling, Sending, ghostVars
<1> QED
  BY <1>3, <1>5 DEF WInv

LEMMA BootKeeps ==
  ASSUME WInv, NEW w \in Workers, Boot(w)
  PROVE  WInv'
<1>1. WorkerTypeOK'
  BY DEF Boot, Goto, WInv, WorkerTypeOK, PCs, tokenVars, ghostVars
<1>2. \A x \in Workers : VerdictEarned(x)'
  BY DEF Boot, WInv, WorkerInv, VerdictEarned, Known, ghostVars
<1>3. WorkerInv'
  BY <1>2 DEF Boot, Goto, WInv, WorkerInv, WorkerTypeOK, Known, Handling, Sending,
              ghostVars
<1> QED
  BY <1>1, <1>3 DEF WInv

LEMMA BeginDrainKeeps ==
  ASSUME WInv, NEW w \in Workers, BeginDrain(w)
  PROVE  WInv'
<1>1. NoJob = NewJob(None)
  BY DEF NoJob
<1> QED
  BY <1>1, FreshJobKeeps DEF BeginDrain, PCs, Handling, Sending, WInv, WorkerTypeOK,
                             tokenVars, ghostVars

LEMMA DownKeeps ==
  ASSUME WInv, NEW w \in Workers, Down(w), UNCHANGED faults \/ Fault
  PROVE  WInv'
<1>1. NoJob = NewJob(None)
  BY DEF NoJob
<1>2. faults' \in 0 .. MaxFaults
  BY WorkerAssumption DEF Fault, WInv, WorkerTypeOK, WorkerAssumption
<1>3. tok' \in [Workers -> [Bots -> Token]]
  BY WorkerAssumption DEF Down, WInv, WorkerTypeOK, Token, WorkerAssumption
<1> QED
  BY <1>1, <1>2, <1>3, FreshJobKeeps
  DEF Down, PCs, Handling, Sending, WInv, WorkerTypeOK, ghostVars

LEMMA BeginKeeps ==
  ASSUME WInv, NEW w \in Workers, NEW m \in Messages, Begin(w, m)
  PROVE  WInv'
  BY FreshJobKeeps DEF Begin, PCs, Handling, WInv, WorkerTypeOK, tokenVars, ghostVars

LEMMA EndJobKeeps ==
  ASSUME WInv, NEW w \in Workers, EndJob(w), UNCHANGED faults
  PROVE  WInv'
<1>1. NoJob = NewJob(None)
  BY DEF NoJob
<1> QED
  BY <1>1, FreshJobKeeps DEF EndJob, PCs, Handling, Sending, WInv, WorkerTypeOK,
                             tokenVars, ghostVars

(* A signal only cancels a context; faults only count up to their bound.   *)
LEMMA FaultKeeps ==
  ASSUME WInv, Fault, UNCHANGED <<pc, ready, healthy, job, tokenVars, ghostVars>>,
         ctxDone' \in [Workers -> BOOLEAN],
         \A x \in Workers : ctxDone[x] => ctxDone'[x]
  PROVE  WInv'
<1>1. WorkerTypeOK'
  BY WorkerAssumption DEF Fault, WInv, WorkerTypeOK, WorkerAssumption, tokenVars, ghostVars
<1>2. \A x \in Workers : VerdictEarned(x)'
  BY DEF WInv, WorkerInv, VerdictEarned, Known, ghostVars
<1>3. WorkerInv'
  BY <1>2 DEF WInv, WorkerInv, Known, ghostVars
<1> QED
  BY <1>1, <1>3 DEF WInv

LEMMA SignalKeeps ==
  ASSUME WInv, NEW w \in Workers, Signal(w)
  PROVE  WInv'
  BY FaultKeeps DEF Signal, WInv, WorkerTypeOK

LEMMA BotXKeeps ==
  ASSUME WInv, NEW b \in Bots, Revoke(b) \/ CacheExpire(b)
  PROVE  WInv'
<1>1. WorkerTypeOK'
  <2>1. live' \in [Bots -> Token] /\ cache' \in [Bots -> Token]
    <3>1. CASE Revoke(b)
      <4>1. live[b] + 1 \in Token
        BY <3>1, WorkerAssumption
        DEF Revoke, WInv, WorkerTypeOK, Token, WorkerAssumption
      <4> QED
        BY <3>1, <4>1 DEF Revoke, WInv, WorkerTypeOK
    <3>2. CASE CacheExpire(b)
      <4>1. 0 \in Token
        BY WorkerAssumption DEF Token, WorkerAssumption
      <4> QED
        BY <3>2, <4>1 DEF CacheExpire, WInv, WorkerTypeOK
    <3> QED
      BY <3>1, <3>2
  <2> QED
    BY <2>1 DEF Revoke, CacheExpire, WInv, WorkerTypeOK, procVars, ghostVars
<1>2. \A x \in Workers : VerdictEarned(x)'
  BY DEF Revoke, CacheExpire, WInv, WorkerInv, VerdictEarned, Known,
         procVars, ghostVars
<1>3. WorkerInv'
  BY <1>2 DEF Revoke, CacheExpire, WInv, WorkerInv, Known, procVars, ghostVars
<1> QED
  BY <1>1, <1>3 DEF WInv

LEMMA InitKeeps == ASSUME WorkerInit PROVE WInv
  BY WorkerAssumption
  DEF WorkerInit, WInv, WorkerTypeOK, WorkerInv, VerdictEarned, NoJob, NewJob, Jobs, Verdicts,
      PCs, Handling, Sending, Token, WorkerAssumption

LEMMA WorkerStutterKeeps == ASSUME WInv, UNCHANGED workerVars PROVE WInv'
  BY DEF WInv, WorkerTypeOK, WorkerInv, VerdictEarned, Known,
         workerVars, procVars, tokenVars, ghostVars

(* A handler step is an attempt at its message or leaves no trace.         *)
LEMMA AttemptEffect ==
  ASSUME WInv, NEW w \in Workers, HandlerStep(w)
  PROVE  /\ delivered' \in {delivered, [delivered EXCEPT ![job[w].msg] = @ + 1]}
         /\ \E v \in Verdicts : verdicts' \in {verdicts, verdicts \cup {<<job[w].msg, v>>}}
<1>1. ASSUME NEW v \in {"sent", "failed", "rejected", "dry-run"}, Conclude(w, v)
      PROVE  \E u \in Verdicts : verdicts' \in {verdicts, verdicts \cup {<<job[w].msg, u>>}}
  BY <1>1 DEF Conclude, Verdicts
<1>2. ASSUME verdicts' = verdicts
      PROVE  \E u \in Verdicts : verdicts' \in {verdicts, verdicts \cup {<<job[w].msg, u>>}}
  BY <1>2 DEF Verdicts
<1>3. ASSUME NextAttempt(w)
      PROVE  \E u \in Verdicts : verdicts' \in {verdicts, verdicts \cup {<<job[w].msg, u>>}}
  BY <1>1, <1>2, <1>3 DEF NextAttempt
<1>4. CASE Dispatch(w)
  BY <1>1, <1>2, <1>4 DEF Dispatch
<1>5. CASE Try(w)
  BY <1>2, <1>3, <1>5 DEF Try
<1>6. CASE BeginSend(w)
  BY <1>2, <1>3, <1>6 DEF BeginSend
<1>7. CASE FinishSend(w)
  <2>1. CASE SendOK(w)
    BY <1>1, <2>1 DEF SendOK, Posted
  <2>2. CASE SendFailed(w)
    BY <1>3, <2>2 DEF SendFailed, Posted
  <2>3. CASE Unauthorized(w)
    BY <1>1, <1>2, <2>3 DEF Unauthorized
  <2> QED
    BY <1>7, <2>1, <2>2, <2>3 DEF FinishSend
<1>8. CASE Refresh(w)
  BY <1>1, <1>2, <1>8 DEF Refresh
<1>9. CASE Backoff(w) \/ Reply(w)
  BY <1>2, <1>9 DEF Backoff, Reply, ghostVars
<1> QED
  BY <1>4, <1>5, <1>6, <1>7, <1>8, <1>9 DEF HandlerStep
-----------------------------------------------------------------------------
(* A worker of a dry run stays one, one lemma for each kind of step.       *)
Silent(w) == /\ pc[w] \notin Sending
             /\ job[w].verdict \in {"none", "rejected", "dry-run"}
             /\ \A b \in Bots : tok[w][b] = 0

LEMMA SilentStays ==
  ASSUME NEW w, Silent(w), pc'[w] \in {pc[w], "down", "idle", "drain", "handle", "settle"},
         job'[w].verdict \in {job[w].verdict, "none"}, tok'[w] \in {tok[w], [b \in Bots |-> 0]}
  PROVE  Silent(w)'
  BY DEF Silent, Sending

LEMMA SilentHandled ==
  ASSUME WInv, DryRunSilent, NEW w \in Workers, HandlerStep(w)
  PROVE  DryRunSilent'
<1>1. HandlerEffect(w) /\ pc[w] \in Handling /\ OnlyMoves(w)
  BY HandlerStepEffect DEF HandlerEffect
<1>2. tok \in [Workers -> [Bots -> Token]] /\ DryRun \subseteq Workers
  BY WorkerAssumption DEF WInv, WorkerTypeOK, WorkerAssumption
<1>3. \A v \in DryRun : Silent(v)
  BY DEF DryRunSilent, Silent
<1>4. \A v \in Workers \ {w} : tok'[v] = tok[v]
  BY <1>2 DEF HandlerStep, Dispatch, Try, BeginSend, FinishSend, Refresh, Backoff, Reply,
              Authenticated, AuthFailed, tokenVars
<1>5. \A v \in DryRun \ {w} : Silent(v)'
  BY <1>1, <1>2, <1>3, <1>4, SilentStays DEF OnlyMoves
<1>6. ASSUME w \in DryRun PROVE Silent(w)'
  <2>1. Silent(w) /\ pc[w] \notin Sending
    BY <1>3, <1>6 DEF Silent
  <2>2. CASE Dispatch(w)
    <3>1. UNCHANGED tok /\ (Conclude(w, "rejected") \/ Conclude(w, "dry-run"))
      BY <1>6, <2>2 DEF Dispatch, tokenVars
    <3>2. pc'[w] = "reply" /\ job'[w].verdict \in {"rejected", "dry-run"}
      BY <1>1, <3>1, ConcludeEffect DEF Verdicts
    <3> QED
      BY <2>1, <3>1, <3>2 DEF Silent, Sending
  <2>3. CASE Reply(w)
    <3>1. pc' = [pc EXCEPT ![w] = "settle"] /\ UNCHANGED <<job, tok>>
      BY <2>3 DEF Reply, Goto, tokenVars
    <3>2. pc'[w] = "settle"
      BY <3>1 DEF WInv, WorkerTypeOK
    <3> QED
      BY <2>1, <3>1, <3>2, SilentStays
  <2> QED
    BY <2>1, <2>2, <2>3 DEF HandlerStep, Try, BeginSend, FinishSend, Refresh, Backoff, Sending
<1> QED
  BY <1>5, <1>6 DEF DryRunSilent, Silent

LEMMA SilentKept ==
  ASSUME WInv, DryRunSilent, NEW w \in Workers,
         tok' = tok \/ tok' = [tok EXCEPT ![w] = [b \in Bots |-> 0]],
         job' = job \/ \E m : job' = [job EXCEPT ![w] = NewJob(m)],
         pc' = pc \/ \E at \in {"down", "idle", "drain", "handle"} : pc' = [pc EXCEPT ![w] = at]
  PROVE  DryRunSilent'
<1>1. /\ pc \in [Workers -> PCs] /\ job \in [Workers -> Jobs] /\ tok \in [Workers -> [Bots -> Token]]
      /\ DryRun \subseteq Workers
  BY WorkerAssumption DEF WInv, WorkerTypeOK, WorkerAssumption
<1>2. \A m : NewJob(m).verdict = "none"
  BY DEF NewJob
<1>3. ASSUME NEW v \in DryRun PROVE Silent(v)'
  <2>1. Silent(v)
    BY DEF DryRunSilent, Silent
  <2>2. /\ tok'[v] \in {tok[v], [b \in Bots |-> 0]}
        /\ job'[v].verdict \in {job[v].verdict, "none"}
        /\ pc'[v] \in {pc[v], "down", "idle", "drain", "handle"}
    BY <1>1, <1>2, <1>3
  <2> QED
    BY <2>1, <2>2, SilentStays
<1> QED
  BY <1>3 DEF DryRunSilent, Silent
-----------------------------------------------------------------------------
(* The posts a worker may still make of its message without a disturbance: *)
(* one while no verdict ends it for good, and one of a send a signal cuts  *)
(* off, which may reach the chat and is repeated.                          *)
One(b) == IF b THEN 1 ELSE 0

Undecided(w) == job[w].verdict = "none" \/ (ctxDone[w] /\ job[w].verdict = "failed")
CutOff(w)    == ctxDone[w] /\ pc[w] = "sending"
Owed(w)      == One(Undecided(w)) + One(CutOff(w))

Untried(w) == pc[w] \in Sending \cup {"handle"} => job[w].verdict = "none"

(* A post of the handler is paid for by what it owed, or is a disturbance. *)
LEMMA PostPaid ==
  ASSUME WInv, NEW w \in Workers, Untried(w), HandlerStep(w)
  PROVE  /\ Untried(w)' /\ ctxDone' = ctxDone
         /\ faults' \in Nat /\ faults \in Nat /\ faults <= faults'
         /\ \/ delivered' = delivered /\ Owed(w)' <= Owed(w)
            \/ /\ delivered' = [delivered EXCEPT ![job[w].msg] = @ + 1]
               /\ Owed(w)' + 1 + faults <= Owed(w) + faults'
<1>1. /\ pc \in [Workers -> PCs] /\ job \in [Workers -> Jobs] /\ ctxDone \in [Workers -> BOOLEAN]
      /\ faults \in Nat /\ faults' \in Nat
  BY HandlerStepEffect, WorkerAssumption DEF WInv, WorkerTypeOK, HandlerEffect, WorkerAssumption
<1>2. faults <= faults' /\ ctxDone' = ctxDone
  BY <1>1 DEF HandlerStep, Dispatch, Try, BeginSend, FinishSend, SendOK, SendFailed, Unauthorized,
              Refresh, Backoff, Reply, Authenticated, AuthFailed, Fault
<1>3. CASE Reply(w)
  <2>1. pc'[w] = "settle" /\ pc[w] = "reply" /\ UNCHANGED <<job, delivered>>
    BY <1>1, <1>3 DEF Reply, Goto
  <2>2. /\ Undecided(w)' = Undecided(w) /\ CutOff(w)' = CutOff(w)
        /\ Owed(w) \in Nat
    BY <1>2, <2>1 DEF Undecided, CutOff, Owed, One
  <2>3. Owed(w)' = Owed(w)
    BY <2>2 DEF Owed
  <2>4. Untried(w)'
    BY <2>1 DEF Untried, Sending
  <2> QED
    BY <1>1, <1>2, <2>1, <2>2, <2>3, <2>4
<1>4. CASE ~Reply(w)
  <2>1. pc[w] \in Sending \cup {"handle"} /\ job[w].verdict = "none" /\ pc[w] \in Handling
    BY <1>4 DEF HandlerStep, Dispatch, Try, BeginSend, FinishSend, Refresh, Backoff, Untried,
                Sending, Handling
  <2>2. Owed(w) = 1 + One(CutOff(w)) /\ One(CutOff(w)) \in {0, 1}
    BY <2>1 DEF Owed, Undecided, One
  <2>3. \A v \in Verdicts : Conclude(w, v) => pc'[w] = "reply" /\ job'[w].verdict = v
    BY <2>1, ConcludeEffect
  <2>4. NextAttempt(w) => \/ pc'[w] = "backoff" /\ job'[w].verdict = job[w].verdict
                          \/ pc'[w] = "reply" /\ job'[w].verdict = "failed"
    BY <2>1, NextAttemptEffect
  <2>5. Untried(w)'
    <3>1. CASE Dispatch(w)
      BY <1>1, <2>1, <2>3, <3>1 DEF Dispatch, Untried, Goto, Verdicts, Sending
    <3>2. CASE Try(w) \/ BeginSend(w) \/ Backoff(w)
      BY <1>1, <2>1, <2>4, <3>2 DEF Try, BeginSend, Backoff, Untried, Goto, Sending
    <3>3. CASE FinishSend(w)
      BY <1>1, <2>1, <2>3, <2>4, <3>3
      DEF FinishSend, SendOK, SendFailed, Unauthorized, Untried, Goto, Verdicts, Sending
    <3>4. CASE Refresh(w)
      <4>1. job' = [job EXCEPT ![w].again = TRUE] => job'[w].verdict = "none"
        BY <1>1, <2>1 DEF Jobs
      <4> QED
        BY <1>1, <2>3, <3>4, <4>1 DEF Refresh, Untried, Verdicts, Sending
    <3> QED
      BY <1>4, <3>1, <3>2, <3>3, <3>4 DEF HandlerStep
  <2>6. CASE ~FinishSend(w)
    <3>1. delivered' = delivered
      BY <1>4, <2>6 DEF HandlerStep, Dispatch, Try, BeginSend, Refresh, Backoff, ghostVars
    <3>2. ~CutOff(w)'
      <4>1. CASE BeginSend(w)
        BY <1>1, <1>2, <2>4, <4>1 DEF BeginSend, CutOff, Goto
      <4>2. CASE ~BeginSend(w)
        <5>1. pc'[w] # "sending"
          BY <1>1, <1>4, <2>3, <2>4, <2>6, <4>2
          DEF HandlerStep, Dispatch, Try, Refresh, Backoff, Goto, Verdicts
        <5> QED
          BY <5>1 DEF CutOff
      <4> QED
        BY <4>1, <4>2
    <3>3. Owed(w)' <= 1 /\ Owed(w)' \in Nat
      BY <3>2 DEF Owed, One
    <3> QED
      BY <1>1, <1>2, <2>2, <2>5, <3>1, <3>3
  <2>7. CASE FinishSend(w)
    <3>1. pc'[w] # "sending" /\ pc[w] = "sending"
      BY <1>1, <2>3, <2>4, <2>7
      DEF FinishSend, SendOK, SendFailed, Unauthorized, Goto, Verdicts
    <3>2. Owed(w)' <= 1 /\ Owed(w)' \in Nat
      BY <3>1 DEF Owed, CutOff, One
    <3>3. CASE SendOK(w)
      <4>1. job'[w].verdict = "sent"
        BY <2>3, <3>3 DEF SendOK, Verdicts
      <4>2. Owed(w)' = 0
        BY <3>1, <4>1 DEF Owed, CutOff, Undecided, One
      <4> QED
        BY <1>1, <1>2, <2>2, <2>5, <3>3, <4>2 DEF SendOK, Posted
    <3>4. CASE SendFailed(w)
      <4>1. CASE delivered' = delivered
        BY <1>1, <1>2, <2>2, <2>5, <3>2, <4>1
      <4>2. CASE delivered' # delivered
        <5>1. /\ delivered' = [delivered EXCEPT ![job[w].msg] = @ + 1]
              /\ ctxDone[w] \/ faults' = faults + 1
          BY <3>4, <4>2 DEF SendFailed, Posted, Fault
        <5>2. ctxDone[w] => Owed(w) = 2
          BY <2>2, <3>1 DEF CutOff, One
        <5> QED
          BY <1>1, <1>2, <2>2, <2>5, <3>2, <5>1, <5>2
      <4> QED
        BY <4>1, <4>2
    <3>5. CASE Unauthorized(w)
      BY <1>1, <1>2, <2>2, <2>5, <3>2, <3>5 DEF Unauthorized
    <3> QED
      BY <2>7, <3>3, <3>4, <3>5 DEF FinishSend
  <2> QED
    BY <2>6, <2>7
<1> QED
  BY <1>3, <1>4
=============================================================================
