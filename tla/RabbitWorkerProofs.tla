------------------------- MODULE RabbitWorkerProofs -------------------------
(***************************************************************************)
(* For any number of workers, messages, retries and disturbances, the      *)
(* RabbitMQ driver acks only what was posted (or owed no post), drops only *)
(* what was given up, and never leaves a delivery unanswered.  IInv is     *)
(* inductive: LinkInv ties the broker's outstanding delivery to the message*)
(* the worker handles, WorkerInv ties the handler's verdict to the posts.  *)
(***************************************************************************)
EXTENDS RabbitWorker, WorkerProofs, FiniteSetTheorems

(* Everything of SettledInv but the worker's.                              *)
BrokerTypeOK ==
  /\ published \subseteq Messages
  /\ queue \in Seq(Messages)
  /\ unacked \in [Workers -> Messages \cup {None}]
  /\ buffer \in [Workers -> Messages \cup {None}]
  /\ linked \in [Workers -> BOOLEAN]
  /\ done \subseteq Messages /\ dead \subseteq Messages

BrokerInv == /\ BrokerTypeOK /\ LinkInv /\ DeliveryInHand
             /\ AckedMeansDelivered /\ DroppedMeansGivenUp

LEMMA Split == /\ SettledInv <=> WInv /\ BrokerInv
               /\ SettledInv' <=> WInv' /\ BrokerInv'
  BY DEF SettledInv, TypeOK, WInv, BrokerInv, BrokerTypeOK

LEMMA InitOK == Init => SettledInv
<1> SUFFICES ASSUME Init PROVE WInv /\ BrokerInv
  BY Split
<1>1. WInv
  BY InitKeeps DEF Init
<1>2. BrokerInv
  BY DEF Init, WorkerInit, BrokerInv, BrokerTypeOK, LinkInv, DeliveryInHand, Handling,
         Sending, AckedMeansDelivered, DroppedMeansGivenUp, Judged
<1> QED
  BY <1>1, <1>2
-----------------------------------------------------------------------------
(* The two sets of settled messages stay justified.                        *)
Justified == AckedMeansDelivered /\ DroppedMeansGivenUp

LEMMA JustifiedStays ==
  ASSUME WInv, BrokerInv, Monotone, UNCHANGED <<done, dead>>
  PROVE  Justified'
  BY DEF BrokerInv, BrokerTypeOK, WInv, WorkerTypeOK, Monotone, Justified,
         AckedMeansDelivered, DroppedMeansGivenUp, Exempt, Judged

LEMMA GhostsMonotone == ASSUME WInv, UNCHANGED ghostVars PROVE Monotone
  BY DEF WInv, WorkerTypeOK, Monotone, ghostVars

LEMMA HandleOK ==
  ASSUME SettledInv, NEW w \in Workers, Handle(w)
  PROVE  SettledInv'
<1>1. WInv /\ BrokerInv /\ HandlerEffect(w) /\ UNCHANGED brokerVars
  BY Split, HandlerStepEffect DEF Handle
<1>2. BrokerTypeOK' /\ LinkInv' /\ DeliveryInHand'
  BY <1>1 DEF BrokerInv, BrokerTypeOK, LinkInv, DeliveryInHand, HandlerEffect, OnlyMoves,
              Handling, Sending, brokerVars
<1>3. Justified'
  BY <1>1, JustifiedStays DEF HandlerEffect, brokerVars
<1> QED
  BY <1>1, <1>2, <1>3, Split DEF HandlerEffect, BrokerInv, Justified

LEMMA PublishOK ==
  ASSUME SettledInv, NEW m \in Messages, Publish(m)
  PROVE  SettledInv'
<1>1. WInv /\ BrokerInv /\ UNCHANGED <<workerVars, unacked, buffer, linked, done, dead>>
  BY Split DEF Publish
<1>2. WInv'
  BY <1>1, WorkerStutterKeeps
<1>3. BrokerInv'
  BY <1>1 DEF Publish, BrokerInv, BrokerTypeOK, LinkInv, DeliveryInHand,
     AckedMeansDelivered, Exempt, Judged, DroppedMeansGivenUp, workerVars, procVars, ghostVars
<1> QED
  BY <1>2, <1>3, Split

LEMMA StartOK ==
  ASSUME SettledInv, NEW w \in Workers, Start(w)
  PROVE  SettledInv'
<1>1. WInv /\ BrokerInv /\ Boot(w)
  BY Split DEF Start
<1>2. WInv'
  BY <1>1, BootKeeps
<1>3. /\ pc' = [pc EXCEPT ![w] = "idle"] /\ pc[w] = "down"
      /\ job' = job /\ UNCHANGED ghostVars
  BY <1>1 DEF Boot, Goto
<1>4. /\ linked' = [linked EXCEPT ![w] = TRUE]
      /\ UNCHANGED <<published, queue, unacked, buffer, done, dead>>
  BY DEF Start
<1>5. Justified'
  BY <1>1, <1>3, <1>4, GhostsMonotone, JustifiedStays
<1>6. BrokerTypeOK' /\ LinkInv' /\ DeliveryInHand'
  BY <1>1, <1>3, <1>4 DEF BrokerInv, BrokerTypeOK, LinkInv, DeliveryInHand,
     Handling, Sending, WInv, WorkerTypeOK
<1> QED
  BY <1>2, <1>5, <1>6, Split DEF BrokerInv, Justified

LEMMA PushOK ==
  ASSUME SettledInv, NEW w \in Workers, Push(w)
  PROVE  SettledInv'
<1>1. WInv /\ BrokerInv /\ UNCHANGED <<workerVars, published, linked, done, dead>>
  BY Split DEF Push
<1>2. WInv'
  BY <1>1, WorkerStutterKeeps
<1>3. /\ linked[w] /\ unacked[w] = None /\ Head(queue) \in Messages
      /\ unacked' = [unacked EXCEPT ![w] = Head(queue)]
      /\ buffer' = [buffer EXCEPT ![w] = Head(queue)]
      /\ queue' \in Seq(Messages)
  BY <1>1 DEF Push, BrokerInv, BrokerTypeOK
<1>4. pc[w] \in {"idle", "drain"}
  BY <1>1, <1>3, WorkerAssumption
  DEF BrokerInv, LinkInv, WInv, WorkerInv, WorkerTypeOK, PCs, WorkerAssumption
<1>5. BrokerTypeOK' /\ LinkInv' /\ DeliveryInHand'
  BY <1>1, <1>3, <1>4, WorkerAssumption
  DEF BrokerInv, BrokerTypeOK, LinkInv, DeliveryInHand, workerVars, procVars,
      Handling, Sending, WorkerAssumption
<1>6. Justified'
  BY <1>1, GhostsMonotone, JustifiedStays DEF workerVars
<1> QED
  BY <1>2, <1>5, <1>6, Split DEF BrokerInv, Justified

(* Receive and Settle answer the broker.                                   *)
LEMMA ReceiveOK ==
  ASSUME SettledInv, NEW w \in Workers, Receive(w)
  PROVE  SettledInv'
<1>1. /\ WInv /\ BrokerInv /\ pc[w] = "idle" /\ buffer[w] \in Messages
      /\ buffer' = [buffer EXCEPT ![w] = None]
      /\ UNCHANGED <<published, linked>>
  BY Split DEF Receive, BrokerInv, BrokerTypeOK
<1>2. linked[w] => unacked[w] = buffer[w]
  BY <1>1, WorkerAssumption DEF BrokerInv, LinkInv, WorkerAssumption
<1>3. CASE buffer[w] \in Malformed /\ Nack(w, FALSE) /\ UNCHANGED workerVars
  <2>1. WInv'
    BY <1>1, <1>3, WorkerStutterKeeps
  <2>2. BrokerInv'
    <3>1. CASE linked[w]
      BY <1>1, <1>2, <1>3, <3>1
      DEF Nack, BrokerInv, BrokerTypeOK, LinkInv, DeliveryInHand, AckedMeansDelivered, Exempt, Judged,
          DroppedMeansGivenUp, workerVars, procVars, ghostVars, Handling, Sending
    <3>2. CASE ~linked[w]
      BY <1>1, <1>3, <3>2
      DEF Nack, BrokerInv, BrokerTypeOK, LinkInv, DeliveryInHand, AckedMeansDelivered, Exempt, Judged,
          DroppedMeansGivenUp, workerVars, procVars, ghostVars
    <3> QED
      BY <3>1, <3>2
  <2> QED
    BY <2>1, <2>2, Split
<1>4. CASE Begin(w, buffer[w]) /\ UNCHANGED <<unacked, queue, done, dead>>
  <2>1. WInv'
    BY <1>1, <1>4, BeginKeeps
  <2>2. /\ pc' = [pc EXCEPT ![w] = "handle"]
        /\ job' = [job EXCEPT ![w] = NewJob(buffer[w])]
        /\ UNCHANGED ghostVars
    BY <1>4 DEF Begin, Goto
  <2>3. Justified'
    BY <1>1, <1>4, <2>2, GhostsMonotone, JustifiedStays
  <2>4. BrokerTypeOK' /\ LinkInv' /\ DeliveryInHand'
    BY <1>1, <1>2, <1>4, <2>2
    DEF BrokerInv, BrokerTypeOK, LinkInv, DeliveryInHand, WInv, WorkerTypeOK,
        NewJob, Handling, Sending
  <2> QED
    BY <2>1, <2>3, <2>4, Split DEF BrokerInv, Justified
<1> QED
  BY <1>1, <1>3, <1>4 DEF Receive

LEMMA SettleOK ==
  ASSUME SettledInv, NEW w \in Workers, Settle(w)
  PROVE  SettledInv'
<1>1. /\ WInv /\ BrokerInv /\ pc[w] = "settle" /\ EndJob(w)
      /\ UNCHANGED <<faults, published, buffer, linked>>
  BY Split DEF Settle
<1>2. WInv'
  BY <1>1, EndJobKeeps
<1>3. /\ pc' = [pc EXCEPT ![w] = "idle"] /\ UNCHANGED <<ctxDone, ghostVars>>
      /\ job' = [job EXCEPT ![w] = NoJob]
  BY <1>1 DEF EndJob, Goto
<1>4. /\ job[w].msg \in Messages /\ VerdictEarned(w)
      /\ job[w].verdict = "none" => ctxDone[w]
  BY <1>1 DEF WInv, WorkerInv, Handling
<1>5. CASE linked[w]
  <2>1. unacked[w] = job[w].msg /\ buffer[w] = None
    BY <1>1, <1>5 DEF BrokerInv, LinkInv, Handling
  <2>2. /\ unacked' = [unacked EXCEPT ![w] = None]
        /\ queue' \in Seq(Messages)
        /\ \/ done' = done
           \/ done' = done \cup {job[w].msg} /\ ~HandlerErred(w)
        /\ \/ dead' = dead
           \/ dead' = dead \cup {job[w].msg} /\ HandlerErred(w) /\ ~ctxDone[w]
    <3>1. CASE ~HandlerErred(w)
      BY <1>1, <1>4, <1>5, <2>1, <3>1 DEF Settle, Ack, BrokerInv, BrokerTypeOK
    <3>2. CASE HandlerErred(w) /\ ctxDone[w]
      <4>1. ctxDone[w] = TRUE
        BY <1>1, <3>2 DEF WInv, WorkerTypeOK
      <4>2. Nack(w, TRUE)
        BY <3>2, <4>1 DEF Settle
      <4>3. queue' = <<unacked[w]>> \o queue /\ UNCHANGED <<done, dead>>
        BY <1>5, <4>2 DEF Nack
      <4>4. queue' \in Seq(Messages)
        BY <1>1, <1>4, <2>1, <4>3 DEF BrokerInv, BrokerTypeOK
      <4> QED
        BY <1>5, <4>2, <4>3, <4>4 DEF Nack
    <3>3. CASE HandlerErred(w) /\ ~ctxDone[w]
      <4>1. ctxDone[w] = FALSE
        BY <1>1, <3>3 DEF WInv, WorkerTypeOK
      <4>2. Nack(w, FALSE)
        BY <3>3, <4>1 DEF Settle
      <4> QED
        BY <1>1, <1>4, <1>5, <2>1, <3>3, <4>2 DEF Nack, BrokerInv, BrokerTypeOK
    <3> QED
      BY <3>1, <3>2, <3>3
  <2>3. BrokerTypeOK' /\ LinkInv' /\ DeliveryInHand'
    BY <1>1, <1>3, <1>4, <2>1, <2>2
    DEF BrokerInv, BrokerTypeOK, LinkInv, DeliveryInHand, WInv, WorkerTypeOK,
        Handling, Sending
  <2>4. AckedMeansDelivered'
    <3>1. ~HandlerErred(w) => delivered[job[w].msg] > 0 \/ job[w].msg \in Exempt
      BY <1>1, <1>4 DEF VerdictEarned, HandlerErred, Exempt, Judged, WInv, WorkerTypeOK, Jobs, Verdicts
    <3> QED
      BY <1>1, <1>3, <2>2, <3>1
      DEF BrokerInv, AckedMeansDelivered, Exempt, Judged, ghostVars
  <2>5. DroppedMeansGivenUp'
    <3>1. HandlerErred(w) /\ ~ctxDone[w] => job[w].msg \in Judged("failed")
      BY <1>1, <1>4 DEF VerdictEarned, HandlerErred, Judged, WInv, WorkerTypeOK, Jobs, Verdicts
    <3> QED
      BY <1>1, <1>3, <2>2, <3>1 DEF BrokerInv, DroppedMeansGivenUp, Judged, ghostVars
  <2> QED
    BY <1>2, <2>3, <2>4, <2>5, Split DEF BrokerInv
<1>6. CASE ~linked[w]
  <2>1. UNCHANGED <<published, queue, unacked, buffer, linked, done, dead>>
    BY <1>1, <1>6 DEF Settle, Ack, Nack
  <2>2. Justified'
    BY <1>1, <1>3, <2>1, GhostsMonotone, JustifiedStays
  <2>3. BrokerTypeOK' /\ LinkInv' /\ DeliveryInHand'
    BY <1>1, <1>3, <1>6, <2>1
    DEF BrokerInv, BrokerTypeOK, LinkInv, DeliveryInHand, WInv, WorkerTypeOK,
        Handling, Sending
  <2> QED
    BY <1>2, <2>2, <2>3, Split DEF BrokerInv, Justified
<1> QED
  BY <1>5, <1>6, <1>1 DEF BrokerInv, BrokerTypeOK

(* The worker leaves the message loop: nothing outstanding is forgotten.   *)
LEMMA ReturnOnSignalOK ==
  ASSUME SettledInv, NEW w \in Workers, ReturnOnSignal(w)
  PROVE  SettledInv'
<1>1. WInv /\ BrokerInv /\ BeginDrain(w) /\ UNCHANGED brokerVars /\ pc[w] = "idle"
  BY Split DEF ReturnOnSignal
<1>2. WInv'
  BY <1>1, BeginDrainKeeps
<1>3. BrokerInv'
  <2>1. /\ pc' = [pc EXCEPT ![w] = "drain"] /\ job' = [job EXCEPT ![w] = NoJob]
        /\ UNCHANGED ghostVars
        /\ UNCHANGED <<published, queue, unacked, buffer, linked, done, dead>>
    BY <1>1 DEF BeginDrain, Goto, brokerVars
  <2>2. Justified'
    BY <1>1, <2>1, GhostsMonotone, JustifiedStays
  <2>3. BrokerTypeOK' /\ LinkInv' /\ DeliveryInHand'
    BY <1>1, <2>1 DEF BrokerInv, BrokerTypeOK, LinkInv, DeliveryInHand, WInv,
                      WorkerTypeOK, Handling, Sending
  <2> QED
    BY <2>2, <2>3 DEF BrokerInv, Justified
<1> QED
  BY <1>2, <1>3, Split

(* The link is gone, and with it what the broker waited for.               *)
LEMMA UnlinkedKeeps ==
  ASSUME WInv, BrokerInv, NEW w \in Workers, Unlink(w), UNCHANGED ghostVars,
         pc' \in [Workers -> PCs], job' \in [Workers -> Jobs],
         pc'[w] = pc[w] /\ buffer[w] = None => buffer'[w] = None,
         \/ pc'[w] = pc[w] /\ job'[w] = job[w] /\ pc[w] # "down"
         \/ pc'[w] = "down" /\ buffer'[w] = None,
         buffer' \in {buffer, [buffer EXCEPT ![w] = None]},
         \A x \in Workers \ {w} : pc'[x] = pc[x] /\ job'[x] = job[x]
  PROVE  BrokerInv'
<1>1. /\ linked' = [linked EXCEPT ![w] = FALSE]
      /\ unacked' = [unacked EXCEPT ![w] = None]
      /\ queue' \in Seq(Messages)
      /\ UNCHANGED <<published, done, dead>>
  <2>1. unacked[w] # None => unacked[w] \in Messages
    BY DEF BrokerInv, BrokerTypeOK
  <2> QED
    BY <2>1 DEF Unlink, BrokerInv, BrokerTypeOK
<1>2. Justified'
  BY <1>1, GhostsMonotone, JustifiedStays
<1>3. BrokerTypeOK' /\ LinkInv' /\ DeliveryInHand'
  BY <1>1, WorkerAssumption
  DEF BrokerInv, BrokerTypeOK, LinkInv, DeliveryInHand, WorkerAssumption
<1> QED
  BY <1>2, <1>3 DEF BrokerInv, Justified

LEMMA DownEffect ==
  ASSUME WInv, NEW w \in Workers, Down(w)
  PROVE  /\ pc' \in [Workers -> PCs] /\ job' \in [Workers -> Jobs]
         /\ pc'[w] = "down" /\ UNCHANGED ghostVars
         /\ \A x \in Workers \ {w} : pc'[x] = pc[x] /\ job'[x] = job[x]
<1>1. NoJob \in Jobs
  BY WorkerAssumption DEF NoJob, NewJob, Jobs, Verdicts, WorkerAssumption
<1> QED
  BY <1>1 DEF Down, Goto, WInv, WorkerTypeOK, PCs

LEMMA ReturnOnClosedOK ==
  ASSUME SettledInv, NEW w \in Workers, ReturnOnClosed(w)
  PROVE  SettledInv'
<1>1. /\ WInv /\ BrokerInv /\ UNCHANGED brokerVars
      /\ pc[w] = "idle" /\ ~linked[w] /\ buffer[w] = None
  BY Split DEF ReturnOnClosed
<1>2. CASE BeginDrain(w)
  BY <1>1, <1>2, ReturnOnSignalOK DEF ReturnOnSignal
<1>3. CASE Down(w) /\ UNCHANGED faults
  <2>1. WInv'
    BY <1>1, <1>3, DownKeeps
  <2>2. Justified'
    BY <1>1, <1>3, DownEffect, GhostsMonotone, JustifiedStays DEF brokerVars
  <2>3. BrokerTypeOK' /\ LinkInv' /\ DeliveryInHand'
    BY <1>1, <1>3, DownEffect
    DEF brokerVars, BrokerInv, BrokerTypeOK, LinkInv, DeliveryInHand, Handling, Sending
  <2> QED
    BY <2>1, <2>2, <2>3, Split DEF BrokerInv, Justified
<1> QED
  BY <1>2, <1>3 DEF ReturnOnClosed

LEMMA GoneOK ==
  ASSUME SettledInv, NEW w \in Workers, Exit(w) \/ Crash(w)
  PROVE  SettledInv'
<1>1. /\ WInv /\ BrokerInv /\ Down(w) /\ Unlink(w)
      /\ UNCHANGED faults \/ Fault
      /\ buffer' = [buffer EXCEPT ![w] = None]
  BY Split DEF Exit, Crash
<1>2. WInv'
  BY <1>1, DownKeeps
<1>3. buffer'[w] = None
  BY <1>1 DEF BrokerInv, BrokerTypeOK
<1>4. BrokerInv'
  BY <1>1, <1>3, DownEffect, UnlinkedKeeps
<1> QED
  BY <1>2, <1>4, Split

LEMMA ConnLostOK ==
  ASSUME SettledInv, NEW w \in Workers, ConnLost(w)
  PROVE  SettledInv'
<1>1. /\ WInv /\ BrokerInv /\ Unlink(w) /\ Fault /\ linked[w]
      /\ UNCHANGED <<procVars, tokenVars, ghostVars>>
      /\ buffer' \in {buffer, [buffer EXCEPT ![w] = None]}
  BY Split DEF ConnLost
<1>2. pc[w] # "down"
  BY <1>1 DEF BrokerInv, LinkInv
<1>3. UNCHANGED <<pc, ready, healthy, job, tokenVars, ghostVars>> /\ ctxDone' = ctxDone
  BY <1>1 DEF procVars
<1>4. WInv'
  BY <1>1, <1>3, FaultKeeps DEF WInv, WorkerTypeOK
<1>5. BrokerInv'
  BY <1>1, <1>2, <1>3, UnlinkedKeeps DEF WInv, WorkerTypeOK, BrokerInv, BrokerTypeOK
<1> QED
  BY <1>4, <1>5, Split

LEMMA SignalOK ==
  ASSUME SettledInv, NEW w \in Workers, Signal(w), UNCHANGED brokerVars
  PROVE  SettledInv'
<1>1. /\ WInv /\ BrokerInv /\ UNCHANGED <<pc, job, ghostVars>>
      /\ UNCHANGED <<published, queue, unacked, buffer, linked, done, dead>>
  BY Split DEF Signal, brokerVars
<1>2. WInv'
  BY <1>1, SignalKeeps
<1>3. BrokerInv'
  BY <1>1 DEF BrokerInv, BrokerTypeOK, LinkInv, DeliveryInHand, AckedMeansDelivered, Exempt, Judged,
              DroppedMeansGivenUp, ghostVars
<1> QED
  BY <1>2, <1>3, Split

LEMMA BotXOK ==
  ASSUME SettledInv, BotX
  PROVE  SettledInv'
<1>1. PICK b \in Bots : (Revoke(b) \/ CacheExpire(b)) /\ UNCHANGED brokerVars
  BY DEF BotX
<1>2. /\ WInv /\ BrokerInv /\ UNCHANGED <<procVars, ghostVars>>
      /\ UNCHANGED <<published, queue, unacked, buffer, linked, done, dead>>
  BY <1>1, Split DEF Revoke, CacheExpire, brokerVars
<1>3. WInv'
  BY <1>1, <1>2, BotXKeeps
<1>4. BrokerInv'
  BY <1>2 DEF BrokerInv, BrokerTypeOK, LinkInv, DeliveryInHand, AckedMeansDelivered, Exempt, Judged,
              DroppedMeansGivenUp, procVars, ghostVars
<1> QED
  BY <1>3, <1>4, Split

LEMMA StutterOK == ASSUME SettledInv, UNCHANGED vars PROVE SettledInv'
<1>1. /\ WInv /\ BrokerInv /\ UNCHANGED workerVars
      /\ UNCHANGED <<published, queue, unacked, buffer, linked, done, dead>>
  BY Split DEF vars, brokerVars
<1>2. WInv'
  BY <1>1, WorkerStutterKeeps
<1>3. BrokerInv'
  BY <1>1 DEF BrokerInv, BrokerTypeOK, LinkInv, DeliveryInHand, AckedMeansDelivered, Exempt, Judged,
              DroppedMeansGivenUp, workerVars, procVars, ghostVars
<1> QED
  BY <1>2, <1>3, Split
-----------------------------------------------------------------------------
(* Sequences without repetition.                                           *)
LEMMA TakeHead ==
  ASSUME NEW s \in Seq(Messages), s # <<>>, IsInjective(s)
  PROVE  /\ Head(s) \in Messages /\ IsInjective(Tail(s))
         /\ Range(s) = Range(Tail(s)) \cup {Head(s)} /\ Head(s) \notin Range(Tail(s))
<1>1. /\ Tail(s) \in Seq(Messages) /\ Len(Tail(s)) = Len(s) - 1 /\ Len(s) \in Nat \ {0}
      /\ \A i \in 1 .. Len(s) - 1 : Tail(s)[i] = s[i + 1]
      /\ Head(s) = s[1] /\ s[1] \in Messages
      /\ DOMAIN s = 1 .. Len(s) /\ DOMAIN Tail(s) = 1 .. Len(s) - 1
  OBVIOUS
<1>2. IsInjective(Tail(s))
  BY <1>1 DEF IsInjective
<1>3. Head(s) \notin Range(Tail(s))
  BY <1>1 DEF IsInjective, Range
<1>4. ASSUME NEW i \in 1 .. Len(s) PROVE s[i] \in Range(Tail(s)) \cup {Head(s)}
  <2>1. CASE i = 1
    BY <1>1, <2>1
  <2>2. CASE i # 1
    BY <1>1, <2>2, i - 1 \in 1 .. Len(s) - 1 DEF Range
  <2> QED
    BY <2>1, <2>2
<1>5. Range(Tail(s)) \cup {Head(s)} \subseteq Range(s)
  BY <1>1 DEF Range
<1> QED
  BY <1>1, <1>2, <1>3, <1>4, <1>5 DEF Range

LEMMA PutFirst ==
  ASSUME NEW s \in Seq(Messages), NEW m \in Messages, m \notin Range(s), IsInjective(s)
  PROVE  IsInjective(<<m>> \o s) /\ Range(<<m>> \o s) = Range(s) \cup {m}
<1> DEFINE t == <<m>> \o s
<1>1. PICK n \in Nat : n = Len(s)
  OBVIOUS
<1>2. /\ t[1] = m /\ \A i \in 1 .. n : t[i + 1] = s[i]
      /\ DOMAIN s = 1 .. n /\ DOMAIN t = 1 .. n + 1
  BY <1>1
<1> HIDE DEF t
<1>3. \A i \in 1 .. n + 1 : i = 1 \/ (i - 1 \in 1 .. n /\ t[i] = s[i - 1])
  BY <1>2
<1>4. \A i \in 1 .. n : s[i] # m
  BY <1>2 DEF Range
<1>5. ASSUME NEW i \in 1 .. n + 1, NEW j \in 1 .. n + 1, t[i] = t[j] PROVE i = j
  <2>1. CASE i = 1 \/ j = 1
    BY <1>2, <1>3, <1>4, <1>5, <2>1
  <2>2. CASE i # 1 /\ j # 1
    <3>1. s[i - 1] = s[j - 1] /\ i - 1 \in 1 .. n /\ j - 1 \in 1 .. n
      BY <1>3, <1>5, <2>2
    <3>2. i - 1 = j - 1
      BY <1>2, <3>1 DEF IsInjective
    <3> QED
      BY <3>2
  <2> QED
    BY <2>1, <2>2
<1>6. Range(t) = Range(s) \cup {m}
  <2>1. ASSUME NEW i \in 1 .. n + 1 PROVE t[i] \in Range(s) \cup {m}
    BY <1>2, <1>3 DEF Range
  <2>2. ASSUME NEW i \in 1 .. n PROVE s[i] \in Range(t)
    BY <1>2, i + 1 \in 1 .. n + 1 DEF Range
  <2>3. m \in Range(t)
    BY <1>2, 1 \in 1 .. n + 1 DEF Range
  <2> QED
    BY <1>2, <2>1, <2>2, <2>3 DEF Range
<1> QED
  BY <1>2, <1>5, <1>6 DEF t, IsInjective

LEMMA PutLast ==
  ASSUME NEW s \in Seq(Messages), NEW m \in Messages, m \notin Range(s), IsInjective(s)
  PROVE  IsInjective(Append(s, m)) /\ Range(Append(s, m)) = Range(s) \cup {m}
<1> DEFINE t == Append(s, m)
<1>1. PICK n \in Nat : n = Len(s)
  OBVIOUS
<1>2. /\ t[n + 1] = m /\ \A i \in 1 .. n : t[i] = s[i]
      /\ DOMAIN s = 1 .. n /\ DOMAIN t = 1 .. n + 1
  BY <1>1
<1> HIDE DEF t
<1>3. \A i \in 1 .. n + 1 : i = n + 1 \/ i \in 1 .. n
  OBVIOUS
<1>4. \A i \in 1 .. n : s[i] # m
  BY <1>2 DEF Range
<1>5. ASSUME NEW i \in 1 .. n + 1, NEW j \in 1 .. n + 1, t[i] = t[j] PROVE i = j
  <2>1. CASE i = n + 1 \/ j = n + 1
    BY <1>2, <1>3, <1>4, <1>5, <2>1
  <2>2. CASE i \in 1 .. n /\ j \in 1 .. n
    BY <1>2, <1>5, <2>2 DEF IsInjective
  <2> QED
    BY <1>3, <2>1, <2>2
<1>6. Range(t) = Range(s) \cup {m}
  <2>1. ASSUME NEW i \in 1 .. n + 1 PROVE t[i] \in Range(s) \cup {m}
    BY <1>2, <1>3 DEF Range
  <2>2. ASSUME NEW i \in 1 .. n PROVE s[i] \in Range(t)
    BY <1>2, i \in 1 .. n + 1 DEF Range
  <2>3. m \in Range(t)
    BY <1>2, n + 1 \in 1 .. n + 1 DEF Range
  <2> QED
    BY <1>2, <2>1, <2>2, <2>3 DEF Range
<1> QED
  BY <1>2, <1>5, <1>6 DEF t, IsInjective
-----------------------------------------------------------------------------
(* What a step does to the places of messages.                             *)
Kept == UNCHANGED <<published, queue, unacked, done, dead>>

Added(m) == /\ m \in Messages \ published /\ published' = published \cup {m}
            /\ queue' = Append(queue, m) /\ UNCHANGED <<unacked, done, dead>>

Pushed(w) == /\ unacked[w] = None /\ queue # <<>>
             /\ unacked' = [unacked EXCEPT ![w] = Head(queue)] /\ queue' = Tail(queue)
             /\ UNCHANGED <<published, done, dead>>

PutBack(w) == /\ unacked[w] # None
              /\ unacked' = [unacked EXCEPT ![w] = None]
              /\ queue' = <<unacked[w]>> \o queue
              /\ UNCHANGED <<published, done, dead>>

Answered(w) == /\ unacked[w] # None
               /\ unacked' = [unacked EXCEPT ![w] = None]
               /\ \/ done' = done \cup {unacked[w]} /\ dead' = dead
                  \/ dead' = dead \cup {unacked[w]} /\ done' = done
               /\ UNCHANGED <<published, queue>>

Seen(w) == Kept \/ Pushed(w) \/ PutBack(w) \/ Answered(w)

LEMMA AwaitedOne ==
  ASSUME BrokerTypeOK, OnePlace, NEW w \in Workers, NEW x,
         unacked' = [unacked EXCEPT ![w] = x], x = None \/ x \notin Awaited
  PROVE  /\ Awaited' = (Awaited \ {unacked[w]}) \cup ({x} \ {None})
         /\ \A u, v \in Workers : unacked'[u] = unacked'[v] => u = v \/ unacked'[u] = None
<1>1. /\ unacked'[w] = x /\ \A v \in Workers \ {w} : unacked'[v] = unacked[v]
  BY DEF BrokerTypeOK
<1>2. \A v \in Workers \ {w} : unacked[v] = unacked[w] => unacked[v] = None
  BY DEF OnePlace
<1> QED
  BY <1>1, <1>2 DEF Awaited, OnePlace

LEMMA OnePlaceKept ==
  ASSUME BrokerTypeOK, OnePlace,
         Kept \/ (\E m \in Messages : Added(m)) \/ \E w \in Workers : Seen(w)
  PROVE  OnePlace'
<1>1. CASE Kept
  BY <1>1 DEF Kept, OnePlace, Awaited
<1>2. ASSUME NEW m \in Messages, Added(m) PROVE OnePlace'
  <2>1. IsInjective(queue') /\ Range(queue') = Range(queue) \cup {m}
    BY <1>2, PutLast DEF Added, OnePlace, BrokerTypeOK
  <2>2. Awaited' = Awaited
    BY <1>2 DEF Added, Awaited
  <2> QED
    BY <1>2, <2>1, <2>2 DEF Added, OnePlace
<1>3. ASSUME NEW w \in Workers, Pushed(w) PROVE OnePlace'
  <2>1. PICK h : h = Head(queue)
    OBVIOUS
  <2>2. /\ h \in Messages /\ IsInjective(queue')
        /\ Range(queue) = Range(queue') \cup {h} /\ h \notin Range(queue')
    BY <1>3, <2>1, TakeHead DEF Pushed, OnePlace, BrokerTypeOK
  <2>3. /\ Awaited' = Awaited \cup {h}
        /\ \A u, v \in Workers : unacked'[u] = unacked'[v] => u = v \/ unacked'[u] = None
    <3>1. unacked' = [unacked EXCEPT ![w] = h] /\ h \notin Awaited /\ h # None
      BY <1>3, <2>1, <2>2, WorkerAssumption DEF Pushed, OnePlace, WorkerAssumption
    <3>2. /\ Awaited' = (Awaited \ {unacked[w]}) \cup ({h} \ {None})
          /\ \A u, v \in Workers : unacked'[u] = unacked'[v] => u = v \/ unacked'[u] = None
      BY <3>1, AwaitedOne
    <3>3. unacked[w] = None /\ None \notin Awaited
      BY <1>3 DEF Pushed, Awaited
    <3> QED
      BY <3>1, <3>2, <3>3
  <2> QED
    BY <1>3, <2>2, <2>3 DEF Pushed, OnePlace
<1>4. ASSUME NEW w \in Workers, PutBack(w) PROVE OnePlace'
  <2>1. PICK x : x = unacked[w]
    OBVIOUS
  <2>2. /\ x \in Messages /\ x \in Awaited /\ x \notin Range(queue)
        /\ queue' = <<x>> \o queue
    BY <1>4, <2>1 DEF PutBack, OnePlace, BrokerTypeOK, Awaited
  <2>3. IsInjective(queue') /\ Range(queue') = Range(queue) \cup {x}
    BY <2>2, PutFirst DEF OnePlace, BrokerTypeOK
  <2>4. /\ Awaited' = Awaited \ {x}
        /\ \A u, v \in Workers : unacked'[u] = unacked'[v] => u = v \/ unacked'[u] = None
    BY <1>4, <2>1, AwaitedOne DEF PutBack
  <2> QED
    BY <1>4, <2>2, <2>3, <2>4 DEF PutBack, OnePlace
<1>5. ASSUME NEW w \in Workers, Answered(w) PROVE OnePlace'
  <2>1. PICK x : x = unacked[w]
    OBVIOUS
  <2>2. x \in Awaited /\ Awaited' = Awaited \ {x}
    BY <1>5, <2>1, AwaitedOne DEF Answered, Awaited
  <2>3. \A u, v \in Workers : unacked'[u] = unacked'[v] => u = v \/ unacked'[u] = None
    BY <1>5, AwaitedOne DEF Answered
  <2> QED
    BY <1>5, <2>1, <2>2, <2>3 DEF Answered, OnePlace
<1> QED
  BY <1>1, <1>2, <1>3, <1>4, <1>5 DEF Seen
-----------------------------------------------------------------------------
(* Which of these each action is, and what it leaves of posts and verdicts.*)
LEMMA UnlinkSeen ==
  ASSUME BrokerTypeOK, NEW w \in Workers, Unlink(w)
  PROVE  Kept \/ PutBack(w)
<1>1. CASE unacked[w] = None
  BY <1>1 DEF Unlink, Kept, BrokerTypeOK
<1>2. CASE unacked[w] # None
  BY <1>2 DEF Unlink, PutBack
<1> QED
  BY <1>1, <1>2

LEMMA ReceiveSeen ==
  ASSUME SettledInv, NEW w \in Workers, Receive(w)
  PROVE  UNCHANGED ghostVars /\ (Kept \/ Answered(w))
<1>1. /\ BrokerInv /\ buffer[w] # None /\ published' = published
  BY Split DEF Receive
<1>2. linked[w] => unacked[w] = buffer[w]
  BY <1>1 DEF BrokerInv, LinkInv
<1>3. CASE Nack(w, FALSE) /\ UNCHANGED workerVars
  BY <1>1, <1>2, <1>3 DEF Nack, Kept, Answered, workerVars
<1>4. CASE Begin(w, buffer[w]) /\ UNCHANGED <<unacked, queue, done, dead>>
  BY <1>1, <1>4 DEF Begin, Kept
<1> QED
  BY <1>3, <1>4 DEF Receive

LEMMA SettleSeen ==
  ASSUME SettledInv, NEW w \in Workers, Settle(w)
  PROVE  UNCHANGED ghostVars /\ (Kept \/ PutBack(w) \/ Answered(w))
<1>1. /\ WInv /\ BrokerInv /\ pc[w] = "settle" /\ UNCHANGED ghostVars /\ published' = published
  BY Split DEF Settle, EndJob
<1>2. linked[w] => unacked[w] = job[w].msg /\ job[w].msg \in Messages
  BY <1>1 DEF BrokerInv, LinkInv, Handling, WInv, WorkerInv
<1>3. linked[w] => unacked[w] # None
  BY <1>2, WorkerAssumption DEF WorkerAssumption
<1>4. CASE Ack(w)
  BY <1>1, <1>3, <1>4 DEF Ack, Kept, Answered
<1>5. CASE Nack(w, ctxDone[w])
  <2>1. CASE ctxDone[w]
    BY <1>1, <1>3, <1>5, <2>1 DEF Nack, Kept, PutBack
  <2>2. CASE ~ctxDone[w]
    BY <1>1, <1>3, <1>5, <2>2 DEF Nack, Kept, Answered
  <2> QED
    BY <2>1, <2>2
<1> QED
  BY <1>1, <1>4, <1>5 DEF Settle

(* Every other step of a worker but Handle.                                *)
Quiet(w) == \/ Start(w) \/ Push(w) \/ ReturnOnSignal(w) \/ ReturnOnClosed(w) \/ Exit(w)
            \/ Environment(w)

LEMMA QuietSeen ==
  ASSUME SettledInv, NEW w \in Workers, Quiet(w)
  PROVE  UNCHANGED ghostVars /\ Seen(w)
<1>1. BrokerTypeOK
  BY Split DEF BrokerInv
<1>2. CASE Start(w) \/ ReturnOnSignal(w) \/ ReturnOnClosed(w)
  BY <1>2 DEF Start, Boot, ReturnOnSignal, ReturnOnClosed, BeginDrain, Down, brokerVars, Kept, Seen
<1>3. CASE Push(w)
  BY <1>3 DEF Push, Pushed, Seen, workerVars
<1>4. CASE Exit(w) \/ Crash(w) \/ ConnLost(w)
  BY <1>1, <1>4, UnlinkSeen DEF Exit, Crash, ConnLost, Down, Seen
<1>5. CASE Signal(w) /\ UNCHANGED brokerVars
  BY <1>5 DEF Signal, brokerVars, Kept, Seen
<1> QED
  BY <1>2, <1>3, <1>4, <1>5 DEF Quiet, Environment

LEMMA BotXSeen ==
  ASSUME BotX \/ UNCHANGED vars
  PROVE  UNCHANGED <<ghostVars, pc, job, buffer>> /\ Kept
  BY DEF BotX, Revoke, CacheExpire, vars, workerVars, procVars, brokerVars, Kept
-----------------------------------------------------------------------------
(* What the workers have in hand was published.                            *)
LEMMA HandleSeen ==
  ASSUME SettledInv, FromBroker, NEW w \in Workers, Handle(w)
  PROVE  Kept /\ FromBroker'
<1>1. HandlerEffect(w) /\ UNCHANGED brokerVars
  BY Split, HandlerStepEffect DEF Handle
<1> QED
  BY <1>1 DEF HandlerEffect, OnlyMoves, FromBroker, Handling, Sending, brokerVars, Kept

LEMMA InHandKept ==
  ASSUME SettledInv, FromBroker, NEW w \in Workers, published' = published,
         buffer' = buffer \/ \E x \in published \cup {None} : buffer' = [buffer EXCEPT ![w] = x],
         \/ UNCHANGED <<pc, job>>
         \/ /\ \E at \in PCs \ Handling : pc' = [pc EXCEPT ![w] = at]
            /\ \E j : job' = [job EXCEPT ![w] = j]
         \/ /\ pc' = [pc EXCEPT ![w] = "handle"] /\ buffer[w] # None
            /\ job' = [job EXCEPT ![w] = NewJob(buffer[w])]
  PROVE  FromBroker'
<1>1. pc \in [Workers -> PCs] /\ job \in [Workers -> Jobs] /\ buffer \in [Workers -> Messages \cup {None}]
  BY DEF SettledInv, TypeOK, WorkerTypeOK
<1>2. \A v \in Workers : buffer'[v] \in published \cup {None}
  BY <1>1 DEF FromBroker
<1>3. \A v \in Workers \ {w} : pc'[v] = pc[v] /\ job'[v] = job[v]
  BY <1>1
<1>4. pc'[w] \in Handling => job'[w].msg \in published
  BY <1>1 DEF FromBroker, NewJob
<1> QED
  BY <1>2, <1>3, <1>4 DEF FromBroker

LEMMA InHandOK ==
  ASSUME SettledInv, OnePlace, FromBroker, NEW w \in Workers,
         Start(w) \/ Push(w) \/ Step(w) \/ Environment(w)
  PROVE  FromBroker'
<1>1. /\ pc \in [Workers -> PCs] /\ job \in [Workers -> Jobs]
      /\ buffer \in [Workers -> Messages \cup {None}] /\ queue \in Seq(Messages)
  BY DEF SettledInv, TypeOK, WorkerTypeOK
<1>2. {"down", "idle", "drain"} = PCs \ Handling
  BY DEF PCs, Handling, Sending
<1>3. CASE Handle(w)
  BY <1>3, HandleSeen
<1>4. CASE Start(w)
  <2>1. job' = [job EXCEPT ![w] = job[w]]
    BY <1>1, <1>4 DEF Start, Boot
  <2> QED
    BY <1>2, <1>4, <2>1, InHandKept DEF Start, Boot, Goto
<1>5. CASE Push(w)
  <2>1. Head(queue) \in published
    BY <1>1, <1>5, TakeHead DEF Push, OnePlace
  <2> QED
    BY <1>5, <2>1, InHandKept DEF Push, workerVars, procVars
<1>6. CASE Receive(w)
  <2>1. /\ buffer' = [buffer EXCEPT ![w] = None] /\ buffer[w] # None /\ published' = published
        /\ \/ UNCHANGED <<pc, job>>
           \/ /\ pc' = [pc EXCEPT ![w] = "handle"]
              /\ job' = [job EXCEPT ![w] = NewJob(buffer[w])]
    BY <1>6 DEF Receive, Begin, Goto, workerVars, procVars
  <2> QED
    BY <2>1, InHandKept
<1>7. CASE Settle(w) \/ ReturnOnSignal(w) \/ ReturnOnClosed(w)
  <2>1. /\ UNCHANGED <<published, buffer>> /\ job' = [job EXCEPT ![w] = NoJob]
        /\ \E at \in PCs \ Handling : pc' = [pc EXCEPT ![w] = at]
    BY <1>2, <1>7 DEF Settle, EndJob, ReturnOnSignal, ReturnOnClosed, BeginDrain, Down, Goto, brokerVars
  <2> QED
    BY <2>1, InHandKept
<1>8. CASE Exit(w) \/ Crash(w)
  <2>1. /\ published' = published /\ buffer' = [buffer EXCEPT ![w] = None]
        /\ job' = [job EXCEPT ![w] = NoJob] /\ pc' = [pc EXCEPT ![w] = "down"]
    BY <1>8 DEF Exit, Crash, Down, Goto, Unlink
  <2> QED
    BY <1>2, <2>1, InHandKept
<1>9. CASE ConnLost(w)
  <2>1. /\ published' = published /\ UNCHANGED <<pc, job>>
        /\ buffer' = buffer \/ buffer' = [buffer EXCEPT ![w] = None]
    BY <1>9 DEF ConnLost, Unlink, procVars
  <2> QED
    BY <2>1, InHandKept
<1>10. CASE Signal(w) /\ UNCHANGED brokerVars
  BY <1>10, InHandKept DEF Signal, brokerVars
<1> QED
  BY <1>3, <1>4, <1>5, <1>6, <1>7, <1>8, <1>9, <1>10 DEF Step, Environment

LEMMA PublishSeen ==
  ASSUME FromBroker, NEW m \in Messages, Publish(m)
  PROVE  UNCHANGED ghostVars /\ Added(m) /\ FromBroker'
BY DEF Publish, Added, FromBroker, workerVars, procVars, ghostVars

LEMMA WorkerSeen ==
  ASSUME SettledInv, NEW w \in Workers,
         Start(w) \/ Push(w) \/ Step(w) \/ Environment(w), ~Handle(w)
  PROVE  UNCHANGED ghostVars /\ Seen(w)
<1>1. CASE Receive(w)
  BY <1>1, ReceiveSeen DEF Seen
<1>2. CASE Settle(w)
  BY <1>2, SettleSeen DEF Seen
<1>3. CASE Quiet(w)
  BY <1>3, QuietSeen
<1> QED
  BY <1>1, <1>2, <1>3 DEF Step, Quiet
-----------------------------------------------------------------------------
(* IInv is an invariant of the workers on RabbitMQ.                        *)
LEMMA InitPlaces == Init => OnePlace /\ FromBroker
<1> SUFFICES ASSUME Init PROVE OnePlace /\ FromBroker
  OBVIOUS
<1>1. Awaited = {} /\ Range(queue) = {} /\ IsInjective(queue)
  BY DEF Init, Awaited, Range, IsInjective
<1>2. OnePlace
  BY <1>1 DEF Init, OnePlace
<1>3. FromBroker
  BY DEF Init, WorkerInit, FromBroker, Handling, Sending
<1> QED
  BY <1>2, <1>3

LEMMA SettledKept == ASSUME SettledInv, [Next]_vars PROVE SettledInv'
<1>1. CASE \E m \in Messages : Publish(m)
  BY <1>1, PublishOK
<1>2. ASSUME NEW w \in Workers, Start(w) \/ Push(w) \/ Step(w) \/ Environment(w)
      PROVE  SettledInv'
  BY <1>2, StartOK, PushOK, HandleOK, ReceiveOK, SettleOK, ReturnOnSignalOK,
     ReturnOnClosedOK, GoneOK, ConnLostOK, SignalOK DEF Step, Environment
<1>3. CASE BotX
  BY <1>3, BotXOK
<1>4. CASE UNCHANGED vars
  BY <1>4, StutterOK
<1> QED
  BY <1>1, <1>2, <1>3, <1>4 DEF Next

THEOREM Invariance == Spec => []IInv
<1>1. IInv /\ [Next]_vars => IInv'
  <2> SUFFICES ASSUME IInv, [Next]_vars PROVE OnePlace' /\ FromBroker'
    BY SettledKept DEF IInv
  <2>1. SettledInv /\ BrokerTypeOK /\ OnePlace /\ FromBroker
    BY Split DEF IInv, BrokerInv
  <2>2. ASSUME NEW m \in Messages, Publish(m)
        PROVE  OnePlace' /\ FromBroker'
    <3>1. Added(m) /\ FromBroker'
      BY <2>1, <2>2, PublishSeen
    <3> QED
      BY <2>1, <3>1, OnePlaceKept
  <2>3. ASSUME NEW w \in Workers, Start(w) \/ Push(w) \/ Step(w) \/ Environment(w)
        PROVE  OnePlace' /\ FromBroker'
    <3>1. Seen(w)
      BY <2>1, <2>3, WorkerSeen, HandleSeen DEF Seen
    <3> QED
      BY <2>1, <2>3, <3>1, OnePlaceKept, InHandOK DEF Seen
  <2>4. CASE BotX \/ UNCHANGED vars
    <3>1. UNCHANGED <<pc, job, buffer>> /\ Kept
      BY <2>4, BotXSeen
    <3>2. OnePlace'
      BY <2>1, <3>1, OnePlaceKept
    <3> QED
      BY <2>1, <3>1, <3>2 DEF FromBroker, Kept
  <2> QED
    BY <2>2, <2>3, <2>4 DEF Next
<1> QED
  BY <1>1, InitOK, InitPlaces, PTL DEF Spec, IInv

(* Type correctness for every instance.                                    *)
THEOREM TypeCorrect == Spec => []TypeOK
<1>1. IInv => TypeOK
  BY DEF IInv, SettledInv
<1> QED
  BY <1>1, Invariance, PTL

(* A message is acked only once it reached its chat or owed no post.       *)
THEOREM AckSafety == Spec => []AckedMeansDelivered
<1>1. IInv => AckedMeansDelivered
  BY DEF IInv, SettledInv
<1> QED
  BY <1>1, Invariance, PTL

(* A message is dropped only after a worker gave it up, never by shutdown. *)
THEOREM DropSafety == Spec => []DroppedMeansGivenUp
<1>1. IInv => DroppedMeansGivenUp
  BY DEF IInv, SettledInv
<1> QED
  BY <1>1, Invariance, PTL

(* No consumer leaves the broker waiting for an answer it forgot.          *)
THEOREM NothingForgotten == Spec => []DeliveryInHand
<1>1. IInv => DeliveryInHand
  BY DEF IInv, SettledInv
<1> QED
  BY <1>1, Invariance, PTL

(* "sent" is reported only for messages that reached their chat.           *)
THEOREM ReplySafety == Spec => []ResultsTruthful
<1>1. IInv => ResultsTruthful
  BY DEF IInv, SettledInv, WorkerInv, VerdictEarned, ResultsTruthful
<1> QED
  BY <1>1, Invariance, PTL

(* Every published message is in exactly one place, once: no requeue of the*)
(* broker or of a stopping worker duplicates it, no answer loses it.       *)
THEOREM Conservation == Spec => []Conserved
<1>1. IInv => Conserved
  <2> SUFFICES ASSUME IInv PROVE Conserved
    OBVIOUS
  <2>1. \A m \in Messages : (\E w \in Workers : unacked[w] = m) <=> m \in Awaited
    BY WorkerAssumption DEF Awaited, WorkerAssumption
  <2>2. OnePlace
    BY DEF IInv
  <2> QED
    BY <2>1, <2>2 DEF OnePlace, Conserved
<1> QED
  BY <1>1, Invariance, PTL
(* A dry run posts nothing, asks for no token and concludes nothing, also  *)
(* beside workers that send.                                               *)
THEOREM DryRunsSilent == Spec => []DryRunSilent
<1>1. Init => DryRunSilent
  <2>1. NoJob.verdict = "none" /\ "down" \notin Sending
    BY DEF NoJob, NewJob, Sending
  <2>2. DryRun \subseteq Workers
    BY WorkerAssumption DEF WorkerAssumption
  <2> QED
    <3> SUFFICES ASSUME Init, NEW w \in DryRun
                 PROVE  /\ pc[w] \notin Sending /\ \A b \in Bots : tok[w][b] = 0
                        /\ job[w].verdict \in {"none", "rejected", "dry-run"}
      BY DEF DryRunSilent
    <3>1. pc[w] = "down" /\ job[w] = NoJob /\ tok[w] = [b \in Bots |-> 0]
      BY <2>2 DEF Init, WorkerInit
    <3> QED
      BY <2>1, <3>1
<1>2. IInv /\ DryRunSilent /\ [Next]_vars => DryRunSilent'
  <2> SUFFICES ASSUME IInv, DryRunSilent, [Next]_vars PROVE DryRunSilent'
    OBVIOUS
  <2>1. WInv
    BY Split DEF IInv
  <2>2. ASSUME UNCHANGED <<pc, job, tok>> PROVE DryRunSilent'
    BY <2>2 DEF DryRunSilent
  <2>3. ASSUME NEW w \in Workers, Start(w) \/ Push(w) \/ Step(w) \/ Environment(w)
        PROVE  DryRunSilent'
    <3>1. CASE Handle(w)
      BY <2>1, <3>1, SilentHandled DEF Handle
    <3>2. CASE Push(w) \/ ConnLost(w) \/ Signal(w)
      BY <2>2, <3>2 DEF Push, ConnLost, Signal, workerVars, procVars, tokenVars
    <3>3. CASE Start(w)
      BY <2>1, <3>3, SilentKept DEF Start, Boot, Goto, tokenVars
    <3>4. CASE Receive(w)
      BY <2>1, <3>4, SilentKept DEF Receive, Begin, Goto, tokenVars, workerVars, procVars
    <3>5. CASE Settle(w) \/ ReturnOnSignal(w) \/ ReturnOnClosed(w) \/ Exit(w) \/ Crash(w)
      BY <2>1, <3>5, SilentKept
      DEF Settle, EndJob, ReturnOnSignal, ReturnOnClosed, Exit, Crash, BeginDrain, Down, Goto,
          tokenVars, NoJob
    <3> QED
      BY <2>3, <3>1, <3>2, <3>3, <3>4, <3>5 DEF Step, Environment
  <2>4. CASE BotX \/ UNCHANGED vars \/ \E m \in Messages : Publish(m)
    BY <2>2, <2>4 DEF BotX, Revoke, CacheExpire, Publish, vars, workerVars, procVars, tokenVars
  <2> QED
    BY <2>3, <2>4 DEF Next
<1> QED
  BY <1>1, <1>2, Invariance, PTL DEF Spec
-----------------------------------------------------------------------------
(* The contract of the asynchronous mode (WorkDelivery).                   *)
LEMMA MapStutter ==
  ASSUME UNCHANGED <<delivered, verdicts, published, done, dead>>
  PROVE  UNCHANGED Delivery!vars
  BY DEF Delivery!vars, Judged, Exempt

LEMMA MapInit == Init => Delivery!Init
<1> SUFFICES ASSUME Init PROVE Delivery!Init
  OBVIOUS
<1>1. Judged("failed") = {} /\ Exempt = {}
  BY DEF Init, WorkerInit, Judged, Exempt
<1> QED
  BY <1>1 DEF Init, WorkerInit, Delivery!Init

LEMMA MapPublish ==
  ASSUME IInv, NEW m \in Messages, Added(m), UNCHANGED ghostVars
  PROVE  Delivery!Publish(m)
<1>1. m \notin done /\ m \notin dead
  BY DEF Added, IInv, OnePlace
<1>2. Judged("failed")' = Judged("failed") /\ Exempt' = Exempt
  BY DEF Judged, Exempt, ghostVars
<1> QED
  BY <1>1, <1>2 DEF Added, Delivery!Publish, ghostVars

LEMMA MapAttempt ==
  ASSUME IInv, NEW w \in Workers, Handle(w)
  PROVE  \E m \in Messages : Delivery!Attempt(m)
<1>1. WInv /\ HandlerEffect(w) /\ HandlerStep(w) /\ UNCHANGED <<published, done, dead>>
  BY Split, HandlerStepEffect DEF Handle, brokerVars, IInv
<1>2. PICK m : m = job[w].msg
  OBVIOUS
<1>3. m \in Messages /\ m \in published
  BY <1>1, <1>2 DEF HandlerEffect, IInv, SettledInv, TypeOK, FromBroker
<1>4. PICK v \in Verdicts : verdicts' \in {verdicts, verdicts \cup {<<m, v>>}}
  BY <1>1, <1>2, AttemptEffect
<1>5. \A u \in Verdicts : Judged(u)' \in {Judged(u), Judged(u) \cup {m}}
  BY <1>3, <1>4 DEF Judged
<1>6. /\ Judged("failed")' \in {Judged("failed"), Judged("failed") \cup {m}}
      /\ Exempt' \in {Exempt, Exempt \cup {m}}
  BY <1>5 DEF Exempt, Verdicts
<1>7. delivered' \in {delivered, [delivered EXCEPT ![m] = @ + 1]}
  BY <1>1, <1>2, AttemptEffect
<1>8. (IF m \notin published THEN "absent" ELSE IF m \in done THEN "done"
       ELSE IF m \in dead THEN "dead" ELSE "queued") # "absent"
  BY <1>3
<1>9. Delivery!Attempt(m)
  BY <1>1, <1>3, <1>6, <1>7, <1>8 DEF Delivery!Attempt
<1> QED
  BY <1>3, <1>9

LEMMA MapAnswer ==
  ASSUME IInv, IInv', NEW w \in Workers, Answered(w), UNCHANGED ghostVars
  PROVE  \E good, bad \in SUBSET Delivery!Queued : Delivery!Resolve(good, bad)
<1>1. PICK m : m = unacked[w]
  OBVIOUS
<1>2. /\ m \in Messages /\ m \in published /\ m \notin done /\ m \notin dead
  BY <1>1 DEF Answered, IInv, SettledInv, TypeOK, OnePlace, Awaited
<1>3. /\ Judged("failed")' = Judged("failed") /\ Exempt' = Exempt
      /\ delivered' = delivered /\ published' = published
  BY DEF Judged, Exempt, ghostVars, Answered
<1>4. m \in Delivery!Queued
  BY <1>2 DEF Delivery!Queued
<1>5. CASE done' = done \cup {m} /\ dead' = dead
  <2>1. delivered[m] > 0 \/ m \in Exempt
    BY <1>3, <1>5 DEF IInv, SettledInv, AckedMeansDelivered
  <2>2. Delivery!Resolve({m}, {})
    BY <1>2, <1>3, <1>5, <2>1 DEF Delivery!Resolve
  <2> QED
    BY <1>4, <2>2
<1>6. CASE dead' = dead \cup {m} /\ done' = done
  <2>1. m \in Judged("failed") \cup Malformed
    BY <1>3, <1>6 DEF IInv, SettledInv, DroppedMeansGivenUp
  <2>2. Delivery!Resolve({}, {m})
    BY <1>2, <1>3, <1>6, <2>1 DEF Delivery!Resolve
  <2> QED
    BY <1>4, <2>2
<1> QED
  BY <1>1, <1>5, <1>6 DEF Answered

(* The workers on RabbitMQ implement the contract of the asynchronous mode.*)
THEOREM Refinement == Spec => DeliverySpec
<1>1. ASSUME IInv, IInv', [Next]_vars
      PROVE  [Delivery!Next]_Delivery!vars
  <2>1. ASSUME NEW m \in Messages, Publish(m) PROVE Delivery!Next
    BY <1>1, <2>1, PublishSeen, MapPublish DEF Delivery!Next, IInv
  <2>2. ASSUME NEW w \in Workers, Handle(w) PROVE Delivery!Next
    BY <1>1, <2>2, MapAttempt DEF Delivery!Next
  <2>3. ASSUME NEW w \in Workers, ~Handle(w),
               Start(w) \/ Push(w) \/ Step(w) \/ Environment(w)
        PROVE  [Delivery!Next]_Delivery!vars
    <3>1. UNCHANGED ghostVars /\ Seen(w)
      BY <1>1, <2>3, WorkerSeen DEF IInv
    <3>2. CASE Answered(w)
      BY <1>1, <3>1, <3>2, MapAnswer DEF Delivery!Next
    <3>3. CASE Kept \/ Pushed(w) \/ PutBack(w)
      BY <3>1, <3>3, MapStutter DEF Kept, Pushed, PutBack, ghostVars
    <3> QED
      BY <3>1, <3>2, <3>3 DEF Seen
  <2>4. CASE BotX \/ UNCHANGED vars
    BY <2>4, BotXSeen, MapStutter DEF Kept, ghostVars
  <2> QED
    BY <1>1, <2>1, <2>2, <2>3, <2>4 DEF Next
<1> QED
  BY <1>1, MapInit, Invariance, PTL DEF Spec, DeliverySpec, Delivery!Spec
-----------------------------------------------------------------------------
(* Who may still post a message: whoever has it in hand undecided, and the *)
(* queue.  A message not published yet counts as one post to come.         *)
Holds(w, m) == \/ pc[w] \notin Handling /\ m \in {unacked[w], buffer[w]}
               \/ pc[w] \in Handling /\ m = job[w].msg /\ Undecided(w)
Cut(w, m)   == m = job[w].msg /\ CutOff(w)

Holders(m) == {w \in Workers : Holds(w, m)}
Cutters(m) == {w \in Workers : Cut(w, m)}
Ahead(m)   == One(m \in Range(queue)) + One(m \notin published)

Paid(m) == /\ IsFiniteSet(Holders(m)) /\ IsFiniteSet(Cutters(m))
           /\ delivered[m] + Ahead(m) + Cardinality(Holders(m)) + Cardinality(Cutters(m)) <= 1 + faults

PostsInv == IInv /\ (\A w \in Workers : Untried(w)) /\ \A m \in Messages : Paid(m)

LEMMA OneChanges ==
  ASSUME NEW S, IsFiniteSet(S), NEW T, NEW w, T \ {w} = S \ {w}
  PROVE  /\ IsFiniteSet(T) /\ Cardinality(T) \in Nat /\ Cardinality(S) \in Nat
         /\ Cardinality(T) + One(w \in S) = Cardinality(S) + One(w \in T)
<1> DEFINE R == S \ {w}
<1>1. /\ IsFiniteSet(R) /\ Cardinality(S) \in Nat
      /\ Cardinality(R) = IF w \in S THEN Cardinality(S) - 1 ELSE Cardinality(S)
  BY FS_RemoveElement, FS_CardinalityType
<1>2. Cardinality(R) \in Nat
  BY <1>1, FS_CardinalityType
<1>3. /\ IsFiniteSet(R \cup {w})
      /\ Cardinality(R \cup {w}) = Cardinality(R) + 1
  <2>1. w \notin R
    OBVIOUS
  <2> HIDE DEF R
  <2> QED
    BY <1>1, <2>1, FS_AddElement
<1>4. T = IF w \in T THEN R \cup {w} ELSE R
  OBVIOUS
<1> HIDE DEF R
<1>5. IsFiniteSet(T) /\ Cardinality(T) = IF w \in T THEN Cardinality(R) + 1 ELSE Cardinality(R)
  BY <1>1, <1>3, <1>4
<1> QED
  BY <1>1, <1>2, <1>5 DEF One

(* Only what w holds has changed; the bound is kept if w's part is.        *)
Elsewhere(w) == \A x \in Workers \ {w} : /\ pc'[x] = pc[x] /\ job'[x] = job[x] /\ ctxDone'[x] = ctxDone[x]
                                         /\ unacked'[x] = unacked[x] /\ buffer'[x] = buffer[x]

Part(w, m) == One(Holds(w, m)) + One(Cut(w, m)) + Ahead(m) + delivered[m]

LEMMA PaidKept ==
  ASSUME NEW w \in Workers, NEW m \in Messages, Paid(m), Elsewhere(w),
         faults \in Nat, faults' \in Nat, delivered[m] \in Nat, delivered'[m] \in Nat,
         Part(w, m)' + faults <= Part(w, m) + faults'
  PROVE  Paid(m)'
<1>1. \A x \in Workers \ {w} : (Holds(x, m)' <=> Holds(x, m)) /\ (Cut(x, m)' <=> Cut(x, m))
  BY DEF Elsewhere, Holds, Cut, Undecided, CutOff
<1>2. /\ Holders(m)' \ {w} = Holders(m) \ {w} /\ Cutters(m)' \ {w} = Cutters(m) \ {w}
      /\ w \in Holders(m)' <=> Holds(w, m)'
      /\ w \in Holders(m) <=> Holds(w, m)
      /\ w \in Cutters(m)' <=> Cut(w, m)'
      /\ w \in Cutters(m) <=> Cut(w, m)
  BY <1>1 DEF Holders, Cutters
<1>3. /\ IsFiniteSet(Holders(m)') /\ Cardinality(Holders(m)') \in Nat /\ Cardinality(Holders(m)) \in Nat
      /\ Cardinality(Holders(m)') + One(Holds(w, m)) = Cardinality(Holders(m)) + One(Holds(w, m)')
  BY <1>2, OneChanges DEF Paid, One
<1>4. /\ IsFiniteSet(Cutters(m)') /\ Cardinality(Cutters(m)') \in Nat /\ Cardinality(Cutters(m)) \in Nat
      /\ Cardinality(Cutters(m)') + One(Cut(w, m)) = Cardinality(Cutters(m)) + One(Cut(w, m)')
  BY <1>2, OneChanges DEF Paid, One
<1>5. /\ One(Holds(w, m)) \in Nat /\ One(Holds(w, m)') \in Nat /\ One(Cut(w, m)) \in Nat
      /\ One(Cut(w, m)') \in Nat /\ Ahead(m) \in Nat /\ Ahead(m)' \in Nat
  BY DEF One, Ahead
<1>6. Part(w, m) = One(Holds(w, m)) + One(Cut(w, m)) + Ahead(m) + delivered[m]
  BY DEF Part
<1>7. Part(w, m)' = One(Holds(w, m)') + One(Cut(w, m)') + Ahead(m)' + delivered'[m]
  BY DEF Part, One
<1>8. delivered'[m] + Ahead(m)' + Cardinality(Holders(m)') + Cardinality(Cutters(m)') <= 1 + faults'
  <2>1. delivered[m] + Ahead(m) + Cardinality(Holders(m)) + Cardinality(Cutters(m)) <= 1 + faults
    BY DEF Paid
  <2> QED
    BY <1>3, <1>4, <1>5, <1>6, <1>7, <2>1
<1>9. Cardinality(Holders(m))' = Cardinality(Holders(m)') /\ Cardinality(Cutters(m))' = Cardinality(Cutters(m)')
  OBVIOUS
<1> QED
  BY <1>3, <1>4, <1>8, <1>9 DEF Paid

(* Without a disturbance one hand's gain is another's loss; a disturbance  *)
(* pays for one post.                                                      *)
Queued(m) == m \in Range(queue)

Balanced(w, m) ==
  \/ /\ faults' = faults /\ (Cut(w, m)' => Cut(w, m))
     /\ \/ (Holds(w, m)' => Holds(w, m)) /\ (Queued(m)' => Queued(m))
        \/ Holds(w, m) /\ ~Holds(w, m)'
        \/ Queued(m) /\ ~Queued(m)'
  \/ /\ faults' = faults + 1
     /\ \/ (Holds(w, m)' => Holds(w, m)) /\ (Cut(w, m)' => Cut(w, m))
        \/ (Queued(m)' => Queued(m)) /\ (Cut(w, m)' => Cut(w, m))
        \/ (Queued(m)' => Queued(m)) /\ (Holds(w, m)' => Holds(w, m))

LEMMA BalancedPaid ==
  ASSUME PostsInv, NEW w \in Workers, NEW m \in Messages, Elsewhere(w), Balanced(w, m),
         delivered' = delivered, published' = published
  PROVE  Paid(m)'
<1>1. Paid(m) /\ delivered[m] \in Nat /\ faults \in Nat
  BY WorkerAssumption DEF PostsInv, IInv, SettledInv, TypeOK, WorkerTypeOK, WorkerAssumption
<1>2. /\ Ahead(m) = One(Queued(m)) + One(m \notin published)
      /\ Ahead(m)' = One(Queued(m)') + One(m \notin published)
      /\ One(m \notin published) \in Nat
  BY DEF Ahead, Queued, One
<1>3. Ahead(m) \in Nat /\ Ahead(m)' \in Nat
  BY DEF Ahead, One
<1>4. /\ Part(w, m) = One(Holds(w, m)) + One(Cut(w, m)) + Ahead(m) + delivered[m]
      /\ Part(w, m)' = One(Holds(w, m)') + One(Cut(w, m)') + Ahead(m)' + delivered[m]
  BY DEF Part, One
<1>5. One(Holds(w, m)') + One(Cut(w, m)') + One(Queued(m)') + faults
        <= One(Holds(w, m)) + One(Cut(w, m)) + One(Queued(m)) + faults'
  BY <1>1 DEF Balanced, One
<1>6. Part(w, m)' + faults <= Part(w, m) + faults' /\ faults' \in Nat
  <2>1. /\ One(Holds(w, m)) \in Nat /\ One(Holds(w, m)') \in Nat
        /\ One(Cut(w, m)) \in Nat /\ One(Cut(w, m)') \in Nat
        /\ One(Queued(m)) \in Nat /\ One(Queued(m)') \in Nat /\ faults' \in Nat
    BY <1>1 DEF One, Balanced
  <2> QED
    BY <1>1, <1>2, <1>4, <1>5, <2>1
<1> QED
  BY <1>1, <1>6, PaidKept

(* The state of a worker the steps below start from.                       *)
LEMMA Hands ==
  ASSUME PostsInv, NEW w \in Workers
  PROVE  /\ pc \in [Workers -> PCs] /\ job \in [Workers -> Jobs] /\ ctxDone \in [Workers -> BOOLEAN]
         /\ unacked \in [Workers -> Messages \cup {None}] /\ buffer \in [Workers -> Messages \cup {None}]
         /\ faults \in Nat /\ Untried(w) /\ None \notin Messages
         /\ pc[w] = "down" => ~linked[w] /\ buffer[w] = None
         /\ ~linked[w] => unacked[w] = None
         /\ buffer[w] # None => pc[w] \in {"idle", "drain"}
         /\ linked[w] /\ buffer[w] # None => unacked[w] = buffer[w]
         /\ linked[w] /\ pc[w] \in Handling => unacked[w] = job[w].msg /\ job[w].msg \in Messages
  BY WorkerAssumption
  DEF PostsInv, IInv, SettledInv, TypeOK, WorkerTypeOK, WorkerInv, LinkInv, WorkerAssumption

(* A worker's answer, or the end of its link, puts back at most the one    *)
(* message the broker awaits an answer for.                                *)
LEMMA PutBackOne ==
  ASSUME PostsInv, NEW w \in Workers, NEW m \in Messages, unacked[w] # None,
         queue' = <<unacked[w]>> \o queue, Queued(m)', ~Queued(m)
  PROVE  m = unacked[w]
<1>1. /\ OnePlace /\ queue \in Seq(Messages) /\ unacked[w] \in Messages
  BY Hands DEF PostsInv, IInv, SettledInv, TypeOK
<1>2. unacked[w] \notin Range(queue) /\ IsInjective(queue)
  BY <1>1 DEF OnePlace, Awaited
<1>3. Range(<<unacked[w]>> \o queue) = Range(queue) \cup {unacked[w]}
  BY <1>1, <1>2, PutFirst
<1> QED
  BY <1>3 DEF Queued

LEMMA UnlinkOne ==
  ASSUME PostsInv, NEW w \in Workers, NEW m \in Messages, Unlink(w), Queued(m)', ~Queued(m)
  PROVE  m = unacked[w]
<1>1. unacked[w] # None
  BY DEF Unlink, Queued
<1> QED
  BY <1>1, PutBackOne DEF Unlink

LEMMA StartPaid ==
  ASSUME PostsInv, NEW w \in Workers, Start(w), NEW m \in Messages
  PROVE  Paid(m)' /\ \A x \in Workers : Untried(x)'
<1>1. /\ pc' = [pc EXCEPT ![w] = "idle"] /\ pc[w] = "down"
      /\ UNCHANGED <<job, ctxDone, faults, delivered, published, queue, unacked, buffer>>
  BY DEF Start, Boot, Goto, ghostVars
<1>2. pc'[w] = "idle" /\ Elsewhere(w)
  BY <1>1, Hands DEF Elsewhere
<1>3. Balanced(w, m)
  BY <1>1, <1>2 DEF Balanced, Holds, Cut, CutOff, Queued, Handling, Sending
<1>4. \A x \in Workers : Untried(x)'
  BY <1>1, <1>2 DEF PostsInv, Elsewhere, Untried, Sending
<1> QED
  BY <1>1, <1>2, <1>3, <1>4, BalancedPaid

LEMMA PushPaid ==
  ASSUME PostsInv, NEW w \in Workers, Push(w), NEW m \in Messages
  PROVE  Paid(m)' /\ \A x \in Workers : Untried(x)'
<1>1. /\ UNCHANGED <<pc, job, ctxDone, faults, delivered, published>>
      /\ linked[w] /\ unacked[w] = None /\ queue # <<>> /\ queue' = Tail(queue)
      /\ unacked' = [unacked EXCEPT ![w] = Head(queue)]
      /\ buffer' = [buffer EXCEPT ![w] = Head(queue)]
  BY DEF Push, workerVars, procVars, ghostVars
<1>2. /\ Head(queue) \in Messages /\ Range(queue) = Range(queue') \cup {Head(queue)}
      /\ Head(queue) \notin Range(queue')
  <2>1. queue \in Seq(Messages) /\ IsInjective(queue)
    BY DEF PostsInv, IInv, SettledInv, TypeOK, OnePlace
  <2> QED
    BY <1>1, <2>1, TakeHead
<1>3. /\ Elsewhere(w) /\ unacked'[w] = Head(queue) /\ buffer'[w] = Head(queue)
      /\ pc[w] \notin Handling /\ buffer[w] = None
  BY <1>1, <1>2, Hands DEF Elsewhere
<1>4. Balanced(w, m)
  BY <1>1, <1>2, <1>3 DEF Balanced, Holds, Cut, CutOff, Queued
<1>5. \A x \in Workers : Untried(x)'
  BY <1>1 DEF PostsInv, Untried
<1> QED
  BY <1>1, <1>3, <1>4, <1>5, BalancedPaid

LEMMA ReceivePaid ==
  ASSUME PostsInv, NEW w \in Workers, Receive(w), NEW m \in Messages
  PROVE  Paid(m)' /\ \A x \in Workers : Untried(x)'
<1>1. /\ pc[w] = "idle" /\ buffer[w] # None /\ buffer' = [buffer EXCEPT ![w] = None]
      /\ UNCHANGED <<ctxDone, faults, delivered, published, queue>>
      /\ \/ /\ UNCHANGED <<pc, job>>
            /\ unacked' = IF linked[w] THEN [unacked EXCEPT ![w] = None] ELSE unacked
         \/ /\ pc' = [pc EXCEPT ![w] = "handle"] /\ job' = [job EXCEPT ![w] = NewJob(buffer[w])]
            /\ unacked' = unacked
  BY DEF Receive, Nack, Begin, Goto, workerVars, procVars, ghostVars
<1>2. Elsewhere(w)
  BY <1>1, Hands DEF Elsewhere
<1>3. CASE UNCHANGED <<pc, job>> /\ unacked' = IF linked[w] THEN [unacked EXCEPT ![w] = None] ELSE unacked
  <2>1. unacked'[w] = None /\ buffer'[w] = None /\ m # None /\ pc'[w] = "idle"
    BY <1>1, <1>3, Hands
  <2>2. Balanced(w, m)
    BY <1>1, <2>1 DEF Balanced, Holds, Cut, CutOff, Queued, Handling, Sending
  <2>3. \A x \in Workers : Untried(x)'
    BY <1>3 DEF PostsInv, Untried
  <2> QED
    BY <1>1, <1>2, <2>2, <2>3, BalancedPaid
<1>4. CASE pc' = [pc EXCEPT ![w] = "handle"] /\ job' = [job EXCEPT ![w] = NewJob(buffer[w])]
  <2>1. pc'[w] = "handle" /\ job'[w].msg = buffer[w] /\ job'[w].verdict = "none"
    BY <1>1, <1>4, Hands DEF NewJob
  <2>2. Balanced(w, m)
    BY <1>1, <2>1 DEF Balanced, Holds, Cut, CutOff, Queued, Handling, Sending
  <2>3. \A x \in Workers : Untried(x)'
    BY <1>2, <2>1 DEF PostsInv, Elsewhere, Untried
  <2> QED
    BY <1>1, <1>2, <2>2, <2>3, BalancedPaid
<1> QED
  BY <1>1, <1>3, <1>4

LEMMA SettlePaid ==
  ASSUME PostsInv, NEW w \in Workers, Settle(w), NEW m \in Messages
  PROVE  Paid(m)' /\ \A x \in Workers : Untried(x)'
<1>1. /\ pc[w] = "settle" /\ pc' = [pc EXCEPT ![w] = "idle"] /\ job' = [job EXCEPT ![w] = NoJob]
      /\ UNCHANGED <<ctxDone, faults, delivered, published, buffer>>
      /\ unacked' = IF linked[w] THEN [unacked EXCEPT ![w] = None] ELSE unacked
      /\ \/ queue' = queue
         \/ linked[w] /\ HandlerErred(w) /\ ctxDone[w] /\ queue' = <<unacked[w]>> \o queue
  BY DEF Settle, Ack, Nack, EndJob, Goto, ghostVars
<1>2. /\ Elsewhere(w) /\ pc'[w] = "idle" /\ unacked'[w] = None /\ buffer'[w] = None /\ m # None
  BY <1>1, Hands DEF Elsewhere
<1>3. ~Holds(w, m)' /\ ~Cut(w, m)'
  BY <1>2 DEF Holds, Cut, CutOff, Handling, Sending
<1>4. Queued(m)' /\ ~Queued(m) => Holds(w, m)
  <2> SUFFICES ASSUME Queued(m)', ~Queued(m) PROVE Holds(w, m)
    OBVIOUS
  <2>1. linked[w] /\ HandlerErred(w) /\ ctxDone[w] /\ queue' = <<unacked[w]>> \o queue
    BY <1>1 DEF Queued
  <2>2. pc[w] \in Handling
    BY <1>1 DEF Handling
  <2>3. unacked[w] = job[w].msg /\ unacked[w] # None
    BY <2>1, <2>2, Hands
  <2>4. m = job[w].msg
    BY <2>1, <2>3, PutBackOne
  <2> QED
    BY <2>1, <2>2, <2>4 DEF Holds, Undecided, HandlerErred
<1>5. Balanced(w, m)
  BY <1>1, <1>3, <1>4 DEF Balanced
<1>6. \A x \in Workers : Untried(x)'
  BY <1>2 DEF PostsInv, Elsewhere, Untried, Sending
<1> QED
  BY <1>1, <1>2, <1>5, <1>6, BalancedPaid

LEMMA ReturnPaid ==
  ASSUME PostsInv, NEW w \in Workers, ReturnOnSignal(w) \/ ReturnOnClosed(w), NEW m \in Messages
  PROVE  Paid(m)' /\ \A x \in Workers : Untried(x)'
<1>1. /\ pc[w] = "idle" /\ job' = [job EXCEPT ![w] = NoJob]
      /\ UNCHANGED <<faults, delivered, published, queue, unacked, buffer>>
      /\ \/ pc' = [pc EXCEPT ![w] = "drain"] /\ ctxDone' = ctxDone
         \/ pc' = [pc EXCEPT ![w] = "down"] /\ ctxDone' = [ctxDone EXCEPT ![w] = FALSE]
  BY DEF ReturnOnSignal, ReturnOnClosed, BeginDrain, Down, Goto, brokerVars, ghostVars
<1>2. Elsewhere(w) /\ pc'[w] \in {"drain", "down"}
  BY <1>1, Hands DEF Elsewhere
<1>3. Balanced(w, m)
  BY <1>1, <1>2 DEF Balanced, Holds, Cut, CutOff, Queued, Handling, Sending
<1>4. \A x \in Workers : Untried(x)'
  BY <1>2 DEF PostsInv, Elsewhere, Untried, Sending
<1> QED
  BY <1>1, <1>2, <1>3, <1>4, BalancedPaid

(* A worker that is gone holds nothing; only a leaving one may have put    *)
(* back, undisturbed, what it had not answered.                            *)
LEMMA GonePaid ==
  ASSUME PostsInv, NEW w \in Workers, Exit(w) \/ Crash(w), NEW m \in Messages
  PROVE  Paid(m)' /\ \A x \in Workers : Untried(x)'
<1>1. /\ pc' = [pc EXCEPT ![w] = "down"] /\ ctxDone' = [ctxDone EXCEPT ![w] = FALSE]
      /\ job' = [job EXCEPT ![w] = NoJob] /\ Unlink(w)
      /\ unacked' = [unacked EXCEPT ![w] = None] /\ buffer' = [buffer EXCEPT ![w] = None]
      /\ UNCHANGED <<delivered, published>>
      /\ \/ faults' = faults + 1
         \/ pc[w] = "drain" /\ faults' = faults
  BY DEF Exit, Crash, Down, Unlink, Goto, Fault, ghostVars
<1>2. Elsewhere(w) /\ pc'[w] = "down" /\ unacked'[w] = None /\ buffer'[w] = None /\ m # None
  BY <1>1, Hands DEF Elsewhere
<1>3. ~Holds(w, m)' /\ ~Cut(w, m)'
  BY <1>2 DEF Holds, Cut, CutOff, Handling, Sending
<1>4. Queued(m)' /\ ~Queued(m) /\ pc[w] = "drain" => Holds(w, m)
  BY <1>1, UnlinkOne DEF Holds, Handling, Sending
<1>5. Balanced(w, m)
  BY <1>1, <1>3, <1>4 DEF Balanced
<1>6. \A x \in Workers : Untried(x)'
  BY <1>2 DEF PostsInv, Elsewhere, Untried, Sending
<1> QED
  BY <1>1, <1>2, <1>5, <1>6, BalancedPaid

LEMMA ConnLostPaid ==
  ASSUME PostsInv, NEW w \in Workers, ConnLost(w), NEW m \in Messages
  PROVE  Paid(m)' /\ \A x \in Workers : Untried(x)'
<1>1. /\ UNCHANGED <<pc, job, ctxDone, delivered, published>> /\ faults' = faults + 1
      /\ unacked' = [unacked EXCEPT ![w] = None]
      /\ buffer' = buffer \/ buffer' = [buffer EXCEPT ![w] = None]
  BY DEF ConnLost, Unlink, Fault, procVars, ghostVars
<1>2. Elsewhere(w) /\ unacked'[w] = None /\ buffer'[w] \in {buffer[w], None} /\ m # None
  BY <1>1, Hands DEF Elsewhere
<1>3. Balanced(w, m)
  BY <1>1, <1>2 DEF Balanced, Holds, Undecided, Cut, CutOff
<1>4. \A x \in Workers : Untried(x)'
  BY <1>1 DEF PostsInv, Untried
<1> QED
  BY <1>1, <1>2, <1>3, <1>4, BalancedPaid

(* A signal cuts off a send under way, or makes a failed verdict one that  *)
(* is put back; not both, an attempt comes before its verdict.             *)
LEMMA SignalPaid ==
  ASSUME PostsInv, NEW w \in Workers, Signal(w), UNCHANGED brokerVars, NEW m \in Messages
  PROVE  Paid(m)' /\ \A x \in Workers : Untried(x)'
<1>1. /\ UNCHANGED <<pc, job, delivered, published, queue, unacked, buffer>>
      /\ faults' = faults + 1 /\ ctxDone' = [ctxDone EXCEPT ![w] = TRUE]
  BY DEF Signal, Fault, brokerVars, ghostVars
<1>2. Elsewhere(w) /\ Untried(w)
  BY <1>1, Hands DEF Elsewhere
<1>3. Balanced(w, m)
  <2>1. (Queued(m)' => Queued(m)) /\ (pc[w] # "sending" => ~Cut(w, m)')
    BY <1>1 DEF Queued, Cut, CutOff
  <2>2. pc[w] = "sending" => (Holds(w, m)' => Holds(w, m))
    BY <1>1, <1>2 DEF Holds, Undecided, Untried, Sending, Handling
  <2> QED
    BY <1>1, <2>1, <2>2 DEF Balanced
<1>4. \A x \in Workers : Untried(x)'
  BY <1>1 DEF PostsInv, Untried
<1> QED
  BY <1>1, <1>2, <1>3, <1>4, BalancedPaid

LEMMA HandlePaid ==
  ASSUME PostsInv, NEW w \in Workers, Handle(w), NEW m \in Messages
  PROVE  Paid(m)' /\ \A x \in Workers : Untried(x)'
<1>1. /\ WInv /\ HandlerEffect(w) /\ Paid(m) /\ Untried(w)
      /\ UNCHANGED <<published, queue, unacked, buffer>>
      /\ delivered[m] \in Nat /\ delivered'[m] \in Nat
  <2>1. WInv /\ delivered[m] \in Nat
    BY Split DEF PostsInv, IInv, WInv, WorkerTypeOK
  <2>2. HandlerEffect(w)
    BY <2>1, HandlerStepEffect DEF Handle
  <2> QED
    BY <2>1, <2>2 DEF PostsInv, Handle, HandlerEffect, Monotone, brokerVars
<1>2. /\ Untried(w)' /\ ctxDone' = ctxDone
      /\ faults' \in Nat /\ faults \in Nat /\ faults <= faults'
      /\ \/ delivered' = delivered /\ Owed(w)' <= Owed(w)
         \/ /\ delivered' = [delivered EXCEPT ![job[w].msg] = @ + 1]
            /\ Owed(w)' + 1 + faults <= Owed(w) + faults'
  BY <1>1, PostPaid DEF Handle
<1>3. Elsewhere(w) /\ pc[w] \in Handling /\ pc'[w] \in Handling /\ job'[w].msg = job[w].msg
  BY <1>1, <1>2 DEF HandlerEffect, OnlyMoves, Elsewhere
<1>4. Ahead(m)' = Ahead(m) /\ Ahead(m) \in Nat
  BY <1>1 DEF Ahead, One
<1>5. Part(w, m)' + faults <= Part(w, m) + faults'
  <2>1. CASE m = job[w].msg
    <3>1. /\ One(Holds(w, m)) = One(Undecided(w)) /\ One(Cut(w, m)) = One(CutOff(w))
          /\ One(Holds(w, m)') = One(Undecided(w)') /\ One(Cut(w, m)') = One(CutOff(w)')
      BY <1>3, <2>1 DEF Holds, Cut, One
    <3>2. /\ Owed(w) = One(Holds(w, m)) + One(Cut(w, m))
          /\ Owed(w)' = One(Holds(w, m)') + One(Cut(w, m)')
      BY <3>1 DEF Owed, One
    <3>3. /\ Part(w, m) = One(Holds(w, m)) + One(Cut(w, m)) + Ahead(m) + delivered[m]
          /\ Part(w, m)' = One(Holds(w, m)') + One(Cut(w, m)') + Ahead(m) + delivered'[m]
      BY <1>4 DEF Part, One
    <3>4. /\ One(Holds(w, m)) \in Nat /\ One(Holds(w, m)') \in Nat
          /\ One(Cut(w, m)) \in Nat /\ One(Cut(w, m)') \in Nat
      BY DEF One
    <3>5. CASE delivered' = delivered /\ Owed(w)' <= Owed(w)
      BY <1>1, <1>2, <1>4, <3>2, <3>3, <3>4, <3>5
    <3>6. CASE /\ delivered' = [delivered EXCEPT ![job[w].msg] = @ + 1]
               /\ Owed(w)' + 1 + faults <= Owed(w) + faults'
      <4>1. delivered'[m] = delivered[m] + 1
        BY <1>1, <2>1, <3>6 DEF WInv, WorkerTypeOK
      <4> QED
        BY <1>1, <1>2, <1>4, <3>2, <3>3, <3>4, <3>6, <4>1
    <3> QED
      BY <1>2, <3>5, <3>6
  <2>2. CASE m # job[w].msg
    <3>1. delivered'[m] = delivered[m]
      BY <1>1, <1>2, <2>2 DEF WInv, WorkerTypeOK
    <3>2. ~Holds(w, m) /\ ~Holds(w, m)' /\ ~Cut(w, m) /\ ~Cut(w, m)'
      BY <1>3, <2>2 DEF Holds, Cut
    <3>3. Part(w, m) = Ahead(m) + delivered[m] /\ Part(w, m)' = Ahead(m) + delivered'[m]
      BY <1>1, <1>4, <3>2 DEF Part, One
    <3> QED
      BY <1>1, <1>2, <1>4, <3>1, <3>3
  <2> QED
    BY <2>1, <2>2
<1>6. Paid(m)'
  BY <1>1, <1>2, <1>3, <1>5, PaidKept
<1>7. \A x \in Workers : Untried(x)'
  BY <1>2, <1>3 DEF PostsInv, Elsewhere, Untried
<1> QED
  BY <1>6, <1>7

(* No worker changes hands: the bound depends on the queue alone.          *)
Idle == UNCHANGED <<pc, job, ctxDone, unacked, buffer, faults, delivered>>

LEMMA IdlePaid ==
  ASSUME PostsInv, Idle, NEW m \in Messages, Ahead(m)' = Ahead(m)
  PROVE  Paid(m)' /\ \A x \in Workers : Untried(x)'
<1>1. Holders(m)' = Holders(m) /\ Cutters(m)' = Cutters(m)
  BY DEF Idle, Holders, Cutters, Holds, Cut, Undecided, CutOff
<1>2. Paid(m)'
  BY <1>1 DEF PostsInv, Paid, Idle
<1> QED
  BY <1>2 DEF PostsInv, Idle, Untried

LEMMA PublishPaid ==
  ASSUME PostsInv, NEW n \in Messages, Publish(n), NEW m \in Messages
  PROVE  Paid(m)' /\ \A x \in Workers : Untried(x)'
<1>1. /\ Idle /\ n \notin published /\ published' = published \cup {n}
      /\ queue' = Append(queue, n)
  BY DEF Publish, Idle, workerVars, procVars, ghostVars
<1>2. Range(queue') = Range(queue) \cup {n} /\ n \notin Range(queue)
  <2>1. queue \in Seq(Messages) /\ n \notin Range(queue) /\ IsInjective(queue)
    BY <1>1 DEF PostsInv, IInv, SettledInv, TypeOK, OnePlace
  <2> QED
    BY <1>1, <2>1, PutLast
<1>3. Ahead(m)' = Ahead(m)
  <2>1. CASE m = n
    BY <1>1, <1>2, <2>1 DEF Ahead, One
  <2>2. CASE m # n
    BY <1>1, <1>2, <2>2 DEF Ahead, One
  <2> QED
    BY <2>1, <2>2
<1> QED
  BY <1>1, <1>3, IdlePaid

LEMMA QuietPaid ==
  ASSUME PostsInv, BotX \/ UNCHANGED vars, NEW m \in Messages
  PROVE  Paid(m)' /\ \A x \in Workers : Untried(x)'
<1>1. Idle /\ UNCHANGED <<queue, published>>
  BY DEF BotX, Revoke, CacheExpire, vars, workerVars, procVars, brokerVars, ghostVars, Idle
<1> QED
  BY <1>1, IdlePaid DEF Ahead

LEMMA PostsInit == Init => (\A w \in Workers : Untried(w)) /\ \A m \in Messages : Paid(m)
<1> SUFFICES ASSUME Init, NEW m \in Messages PROVE Paid(m) /\ \A w \in Workers : Untried(w)
  BY DEF Untried, Init, WorkerInit, Sending
<1>1. Holders(m) = {} /\ Cutters(m) = {}
  BY WorkerAssumption DEF Init, WorkerInit, WorkerAssumption, Holders, Cutters, Holds, Cut, CutOff,
                          Handling, Sending
<1>2. Ahead(m) = 1 /\ delivered[m] = 0 /\ faults = 0
  BY DEF Init, WorkerInit, Ahead, One, Range
<1>3. IsFiniteSet({}) /\ Cardinality({}) = 0
  BY FS_EmptySet
<1>4. Paid(m)
  BY <1>1, <1>2, <1>3 DEF Paid
<1> QED
  BY <1>4 DEF Untried, Init, WorkerInit, Sending

LEMMA PostsStep ==
  ASSUME PostsInv, [Next]_vars
  PROVE  (\A w \in Workers : Untried(w))' /\ (\A m \in Messages : Paid(m))'
<1>0. CASE Messages = {}
  <2>1. WorkerInv'
    BY SettledKept DEF PostsInv, IInv, SettledInv
  <2> QED
    BY <1>0, <2>1 DEF WorkerInv, Untried, Handling
<1> SUFFICES ASSUME NEW m \in Messages PROVE Paid(m)' /\ \A x \in Workers : Untried(x)'
  BY <1>0
<1>1. CASE \E n \in Messages : Publish(n)
  BY <1>1, PublishPaid
<1>2. ASSUME NEW w \in Workers, Start(w) \/ Push(w) \/ Step(w) \/ Environment(w)
      PROVE  Paid(m)' /\ \A x \in Workers : Untried(x)'
  BY <1>2, StartPaid, PushPaid, ReceivePaid, SettlePaid, ReturnPaid, GonePaid, ConnLostPaid,
     SignalPaid, HandlePaid DEF Step, Environment
<1>3. CASE BotX \/ UNCHANGED vars
  BY <1>3, QuietPaid
<1> QED
  BY <1>1, <1>2, <1>3 DEF Next

LEMMA PaidBounds == PostsInv => DuplicatesNeedFaults
<1> SUFFICES ASSUME PostsInv, NEW m \in Messages PROVE delivered[m] <= 1 + faults
  BY DEF DuplicatesNeedFaults
<1>1. /\ Paid(m) /\ Ahead(m) \in Nat /\ delivered[m] \in Nat /\ faults \in Nat
  BY Hands DEF PostsInv, Ahead, One, IInv, SettledInv, TypeOK, WorkerTypeOK
<1>2. Cardinality(Holders(m)) \in Nat /\ Cardinality(Cutters(m)) \in Nat
  BY <1>1, FS_CardinalityType DEF Paid
<1> QED
  BY <1>1, <1>2 DEF Paid

(* DuplicatesNeedFaults: a chat gets a message again only after a crash, a *)
(* signal, a lost link or an answer of BotX that never came, and at most   *)
(* once per such event, however many workers share the queue: what a       *)
(* worker takes leaves the queue, and handleMessage attempts again only    *)
(* what the attempt before did not post.                                   *)
THEOREM Duplicates == Spec => []DuplicatesNeedFaults
<1> DEFINE P == (\A w \in Workers : Untried(w)) /\ \A m \in Messages : Paid(m)
<1>1. Init => P
  BY PostsInit
<1>2. IInv /\ P /\ [Next]_vars => P'
  BY PostsStep DEF PostsInv
<1>3. IInv /\ P => DuplicatesNeedFaults
  BY PaidBounds DEF PostsInv
<1> HIDE DEF P
<1> QED
  BY <1>1, <1>2, <1>3, Invariance, PTL DEF Spec
=============================================================================
