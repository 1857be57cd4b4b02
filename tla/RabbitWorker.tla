---------------------------- MODULE RabbitWorker ----------------------------
(***************************************************************************)
(* Workers consuming the work queue through the RabbitMQ driver            *)
(* (internal/queue/rabbitmq/driver.go): prefetch 1, manual ack, nack       *)
(* without requeue on failure and with requeue on shutdown.  The broker is *)
(* external: it pushes one message at a time over a live link and puts the *)
(* unacknowledged one back at the head when the link is gone.              *)
(***************************************************************************)
EXTENDS Worker, Sequences, SequencesExt

VARIABLES published,    \* messages producers have enqueued
          queue,        \* messages ready for delivery
          unacked,      \* what the broker awaits an ack for, per consumer
          buffer,       \* the delivery in the consumer's msgs channel
          linked,       \* the consumer's connection is up
          done, dead    \* acked; nacked without requeue

brokerVars == <<published, queue, unacked, buffer, linked, done, dead>>
vars == <<workerVars, brokerVars>>

TypeOK ==
  /\ WorkerTypeOK
  /\ published \subseteq Messages
  /\ queue \in Seq(Messages)
  /\ unacked \in [Workers -> Messages \cup {None}]
  /\ buffer \in [Workers -> Messages \cup {None}]
  /\ linked \in [Workers -> BOOLEAN]
  /\ done \subseteq Messages /\ dead \subseteq Messages

Init ==
  /\ WorkerInit
  /\ published = {}
  /\ queue = <<>>
  /\ unacked = [w \in Workers |-> None]
  /\ buffer = [w \in Workers |-> None]
  /\ linked = [w \in Workers |-> FALSE]
  /\ done = {} /\ dead = {}
-----------------------------------------------------------------------------
(* A producer (serve --enqueue, enqueue) publishes; request ids are unique.*)
Publish(m) ==
  /\ m \notin published
  /\ published' = published \cup {m}
  /\ queue' = Append(queue, m)
  /\ UNCHANGED <<workerVars, unacked, buffer, linked, done, dead>>

(* newConsumer dials the broker, then runWorker consumes.                  *)
Start(w) ==
  /\ Boot(w)
  /\ linked' = [linked EXCEPT ![w] = TRUE]
  /\ UNCHANGED <<published, queue, unacked, buffer, done, dead>>

(* Mutant: Consume with autoAck, the broker forgets what it pushes.        *)
PushAutoAck(w) ==
  /\ linked[w] /\ buffer[w] = None /\ pc[w] = "idle" /\ queue # <<>>
  /\ buffer' = [buffer EXCEPT ![w] = Head(queue)]
  /\ queue' = Tail(queue)
  /\ UNCHANGED <<workerVars, published, unacked, linked, done, dead>>

(* The broker pushes the next message, within Qos(1).                      *)
Push(w) ==
  /\ linked[w] /\ unacked[w] = None /\ queue # <<>>
  /\ unacked' = [unacked EXCEPT ![w] = Head(queue)]
  /\ buffer' = [buffer EXCEPT ![w] = Head(queue)]
  /\ queue' = Tail(queue)
  /\ UNCHANGED <<workerVars, published, linked, done, dead>>

(* The broker has processed the answer to w's outstanding delivery; over a *)
(* dead link the answer is lost and the driver ignores the error.          *)
Ack(w) ==
  IF linked[w]
  THEN /\ done' = done \cup {unacked[w]}
       /\ unacked' = [unacked EXCEPT ![w] = None]
       /\ UNCHANGED <<queue, dead>>
  ELSE UNCHANGED <<done, unacked, queue, dead>>

Nack(w, requeue) ==
  IF linked[w]
  THEN /\ unacked' = [unacked EXCEPT ![w] = None]
       /\ queue' = IF requeue THEN <<unacked[w]>> \o queue ELSE queue
       /\ dead' = IF requeue THEN dead ELSE dead \cup {unacked[w]}
       /\ UNCHANGED done
  ELSE UNCHANGED <<done, unacked, queue, dead>>

(* ConsumeWork takes a delivery: a malformed body is dropped at once.      *)
Receive(w) ==
  /\ pc[w] = "idle" /\ buffer[w] # None
  /\ buffer' = [buffer EXCEPT ![w] = None]
  /\ \/ /\ buffer[w] \in Malformed
        /\ Nack(w, FALSE)
        /\ UNCHANGED workerVars
     \/ /\ buffer[w] \notin Malformed
        /\ Begin(w, buffer[w])
        /\ UNCHANGED <<unacked, queue, done, dead>>
  /\ UNCHANGED <<published, linked>>

(* Mutants: the handler's error is ignored; an error is not answered.      *)
SettleAlwaysAcks(w) ==
  /\ pc[w] = "settle" /\ Ack(w) /\ EndJob(w)
  /\ UNCHANGED <<faults, published, buffer, linked>>

SettleForgets(w) ==
  /\ pc[w] = "settle"
  /\ IF HandlerErred(w) THEN UNCHANGED <<done, unacked, queue, dead>> ELSE Ack(w)
  /\ EndJob(w)
  /\ UNCHANGED <<faults, published, buffer, linked>>

(* The handler returned.                                                   *)
Settle(w) ==
  /\ pc[w] = "settle"
  /\ IF HandlerErred(w) THEN Nack(w, ctxDone[w]) ELSE Ack(w)
  /\ EndJob(w)
  /\ UNCHANGED <<faults, published, buffer, linked>>

(* The connection ends and the broker requeues what w had not acked.       *)
Unlink(w) ==
  /\ linked' = [linked EXCEPT ![w] = FALSE]
  /\ unacked' = [unacked EXCEPT ![w] = None]
  /\ queue' = IF unacked[w] = None THEN queue ELSE <<unacked[w]>> \o queue
  /\ UNCHANGED <<published, done, dead>>

(* Mutant: the loop watches msgs only.                                     *)
ReturnDeaf(w) ==
  /\ pc[w] = "idle" /\ ~linked[w] /\ BeginDrain(w)
  /\ UNCHANGED brokerVars

(* The select finds the context cancelled.                                 *)
ReturnOnSignal(w) ==
  /\ pc[w] = "idle" /\ BeginDrain(w)
  /\ UNCHANGED brokerVars

(* The select finds msgs closed and ConsumeWork returns nil: with a live   *)
(* context runWorker exits with "connection lost?".                        *)
ReturnOnClosed(w) ==
  /\ pc[w] = "idle" /\ ~linked[w] /\ buffer[w] = None
  /\ \/ BeginDrain(w)
     \/ ~ctxDone[w] /\ Down(w) /\ UNCHANGED faults
  /\ UNCHANGED brokerVars

(* runWorker returns; the deferred consumer.Close ends the connection.     *)
Exit(w) ==
  /\ pc[w] = "drain"
  /\ Down(w) /\ UNCHANGED faults
  /\ Unlink(w)
  /\ buffer' = [buffer EXCEPT ![w] = None]

(* The process is killed.                                                  *)
Crash(w) ==
  /\ pc[w] # "down" /\ Fault
  /\ Down(w)
  /\ Unlink(w)
  /\ buffer' = [buffer EXCEPT ![w] = None]

(* The connection breaks; the client library closes msgs and may drop or   *)
(* still hand over the delivery it had buffered.                           *)
ConnLost(w) ==
  /\ linked[w] /\ Fault
  /\ Unlink(w)
  /\ buffer' \in {buffer, [buffer EXCEPT ![w] = None]}
  /\ UNCHANGED <<procVars, tokenVars, ghostVars>>

Handle(w) == HandlerStep(w) /\ UNCHANGED brokerVars

(* What the process does on its own.                                       *)
Step(w) == \/ Handle(w) \/ Receive(w) \/ Settle(w)
           \/ ReturnOnSignal(w) \/ ReturnOnClosed(w) \/ Exit(w)

Environment(w) == \/ Signal(w) /\ UNCHANGED brokerVars
                  \/ Crash(w) \/ ConnLost(w)

BotX == \E b \in Bots : (Revoke(b) \/ CacheExpire(b)) /\ UNCHANGED brokerVars

Next == \/ \E m \in Messages : Publish(m)
        \/ \E w \in Workers : \/ Start(w) \/ Push(w) \/ Step(w)
                              \/ Environment(w)
        \/ BotX

Spec == Init /\ [][Next]_vars

(* A process runs until it ends and the supervisor starts it again; the    *)
(* broker pushes.  Go's select picks a ready case at random, so a cancelled*)
(* context is not passed over for ever: hence SF for ReturnOnSignal.       *)
Fairness == \A w \in Workers : /\ WF_vars(Start(w)) /\ WF_vars(Push(w))
                               /\ WF_vars(Step(w))
                               /\ SF_vars(ReturnOnSignal(w))

FairSpec == Spec /\ Fairness
-----------------------------------------------------------------------------
(* A message is acked only once it reached its chat, or when no send was   *)
(* owed for it (unknown bot, dry run): ConsumeWork acks on nil only.       *)
AckedMeansDelivered ==
  \A m \in done : delivered[m] > 0 \/ m \in Exempt

(* A message is dropped from the queue only when a worker gave it up, never*)
(* because a shutdown cut its attempts short, and only if it was readable. *)
DroppedMeansGivenUp == dead \subseteq Judged("failed") \cup Malformed

(* An unsettled delivery is in its consumer's hands: an idle worker whose  *)
(* broker still awaits an answer is about to receive that very delivery.   *)
(* Prefetch is 1, so a forgotten answer would stop the worker for good.    *)
DeliveryInHand ==
  \A w \in Workers :
    linked[w] /\ unacked[w] # None
    => \/ pc[w] = "drain"
       \/ buffer[w] = unacked[w] /\ pc[w] = "idle"
       \/ job[w].msg = unacked[w] /\ pc[w] \in Handling

(* The inductive strengthening of the properties above: what connects the  *)
(* broker's view of a delivery with the worker's.                          *)
LinkInv ==
  \A w \in Workers :
    /\ pc[w] = "down" => ~linked[w] /\ buffer[w] = None
    /\ ~linked[w] => unacked[w] = None
    /\ buffer[w] # None => pc[w] \in {"idle", "drain"}
    /\ linked[w] /\ buffer[w] # None => unacked[w] = buffer[w]
    /\ linked[w] /\ pc[w] \in Handling => unacked[w] = job[w].msg

SettledInv == /\ TypeOK /\ WorkerInv
              /\ LinkInv /\ DeliveryInHand
              /\ AckedMeansDelivered /\ DroppedMeansGivenUp

(* Where the messages are, and that what a worker has came from the broker,*)
(* also over a link that is gone.                                          *)
Awaited == {unacked[w] : w \in Workers} \ {None}

OnePlace ==
  /\ published = Range(queue) \cup Awaited \cup done \cup dead
  /\ IsInjective(queue)
  /\ \A v, w \in Workers : unacked[v] = unacked[w] => v = w \/ unacked[v] = None
  /\ Range(queue) \cap Awaited = {} /\ done \cap dead = {}
  /\ (Range(queue) \cup Awaited) \cap (done \cup dead) = {}

FromBroker ==
  \A w \in Workers : /\ buffer[w] \in published \cup {None}
                     /\ pc[w] \in Handling => job[w].msg \in published

IInv == SettledInv /\ OnePlace /\ FromBroker

(* Every published message is in one place: ready once, awaiting one ack,  *)
(* acked, or dropped.                                                      *)
Conserved ==
  \A m \in Messages :
    LET places == (IF m \in Range(queue) THEN 1 ELSE 0)
                + (IF \E w \in Workers : unacked[w] = m THEN 1 ELSE 0)
                + (IF m \in done THEN 1 ELSE 0)
                + (IF m \in dead THEN 1 ELSE 0)
    IN places = IF m \in published THEN 1 ELSE 0

(* The queue keeps its promise whatever happens to workers and links.      *)
Delivery == INSTANCE WorkDelivery WITH
  fate <- [m \in Messages |-> IF m \notin published THEN "absent"
                              ELSE IF m \in done THEN "done"
                              ELSE IF m \in dead THEN "dead" ELSE "queued"],
  reached <- delivered, failed <- Judged("failed"), exempt <- Exempt

DeliverySpec == Delivery!Spec

(* Once disturbances stop, every published message is settled.             *)
EventuallySettled ==
  \A m \in Messages : m \in published ~> m \in done \cup dead

(* A signalled worker terminates.                                          *)
ShutdownTerminates == \A w \in Workers : ctxDone[w] ~> pc[w] = "down"
=============================================================================
