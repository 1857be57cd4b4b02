----------------------------- MODULE KafkaWorker -----------------------------
(***************************************************************************)
(* Workers consuming the work topic through the Kafka driver               *)
(* (internal/queue/kafka/driver.go): one partition, a consumer group,      *)
(* offsets committed one message at a time after the handler returned nil. *)
(*                                                                         *)
(* The group is external, modelled from how the driver uses kafka-go: one  *)
(* member owns the partition and reads on from the committed offset after  *)
(* each rebalance; a member that lost the partition while it was handling  *)
(* still commits, and the coordinator takes the offset as it is, even when *)
(* it is lower than the one committed before.  Offset 0 is the first.      *)
(***************************************************************************)
EXTENDS Worker, Sequences, SequencesExt

ASSUME MemberAssumption == None \notin Workers

VARIABLES log,          \* the partition of the work topic
          committed,    \* the group's offset: the next message to read
          owner,        \* the member the partition is assigned to
          stable,       \* no rebalance is due
          pos,          \* next offset each member fetches
          off,          \* offset of the message each member handles
          done, dead    \* settled by a commit: handled well; passed over

offsetVars == <<committed, done, dead>>
memberVars == <<owner, stable, pos>>
brokerVars == <<log, off, offsetVars, memberVars>>
vars == <<workerVars, brokerVars>>

Offsets == 0 .. Len(log)
MsgAt(o) == log[o + 1]
Published == Range(log)

TypeOK ==
  /\ WorkerTypeOK
  /\ log \in Seq(Messages)
  /\ committed \in Offsets
  /\ owner \in Workers \cup {None}
  /\ stable \in BOOLEAN
  /\ pos \in [Workers -> Offsets]
  /\ off \in [Workers -> Offsets]
  /\ done \subseteq Messages /\ dead \subseteq Messages

Init ==
  /\ WorkerInit
  /\ log = <<>>
  /\ committed = 0
  /\ owner = None
  /\ stable = FALSE
  /\ pos = [w \in Workers |-> 0]
  /\ off = [w \in Workers |-> 0]
  /\ done = {} /\ dead = {}
-----------------------------------------------------------------------------
Publish(m) ==
  /\ m \notin Published
  /\ log' = Append(log, m)
  /\ UNCHANGED <<workerVars, off, offsetVars, memberVars>>

(* kafka-go's reader joins the group when ConsumeWork creates it, and the  *)
(* group must rebalance.                                                   *)
Start(w) ==
  /\ Boot(w)
  /\ stable' = FALSE
  /\ UNCHANGED <<log, off, offsetVars, owner, pos>>

(* Mutant: StartOffset is LastOffset.                                      *)
RebalanceFromEnd(w) ==
  /\ ~stable /\ pc[w] \notin {"down", "drain"}
  /\ stable' = TRUE
  /\ owner' = w
  /\ pos' = [pos EXCEPT ![w] = IF committed = 0 THEN Len(log) ELSE committed]
  /\ UNCHANGED <<workerVars, log, off, offsetVars>>

(* The coordinator assigns the partition to a running member, which reads  *)
(* from the committed offset; the one that had it may be handling still.   *)
Rebalance(w) ==
  /\ ~stable /\ pc[w] \notin {"down", "drain"}
  /\ stable' = TRUE
  /\ owner' = w
  /\ pos' = [pos EXCEPT ![w] = committed]
  /\ UNCHANGED <<workerVars, log, off, offsetVars>>

(* A session times out (a slow network, a paused process).                 *)
SessionLost ==
  /\ stable /\ Fault
  /\ stable' = FALSE
  /\ UNCHANGED <<procVars, tokenVars, ghostVars, log, off, offsetVars, owner, pos>>

(* CommitMessages: the group's offset becomes the one after o, whatever it *)
(* was.  Messages a commit passes for the first time are settled: the one  *)
(* committed is done, the skipped ones are dead.                           *)
Commit(o) ==
  LET passed == {MsgAt(i) : i \in 0 .. o} \ (done \cup dead)
      good   == {m \in passed : m = MsgAt(o) /\ m \notin Malformed}
  IN /\ committed' = o + 1
     /\ done' = done \cup good
     /\ dead' = dead \cup (passed \ good)

(* FetchMessage, then the decoding: a malformed message is committed, its  *)
(* error ignored, and skipped.                                             *)
Fetch(w) ==
  /\ pc[w] = "idle" /\ owner = w /\ pos[w] < Len(log)
  /\ pos' = [pos EXCEPT ![w] = @ + 1]
  /\ \/ /\ MsgAt(pos[w]) \in Malformed
        /\ \/ Commit(pos[w]) /\ UNCHANGED faults
           \/ ctxDone[w] /\ UNCHANGED <<offsetVars, faults>>
           \/ Fault /\ UNCHANGED offsetVars
        /\ UNCHANGED <<procVars, tokenVars, ghostVars, off>>
     \/ /\ MsgAt(pos[w]) \notin Malformed
        /\ Begin(w, MsgAt(pos[w]))
        /\ off' = [off EXCEPT ![w] = pos[w]]
        /\ UNCHANGED offsetVars
  /\ UNCHANGED <<log, owner, stable>>

(* ConsumeWork returns and its deferred Close leaves the group, or the     *)
(* process dies; a later process with its name is another member.          *)
Leave(w) ==
  /\ stable' = FALSE
  /\ owner' = IF owner = w THEN None ELSE owner
  /\ UNCHANGED pos

(* Mutant: an error is committed like a success.                           *)
SettleErrCommits(w) ==
  /\ pc[w] = "settle" /\ HandlerErred(w)
  /\ EndJob(w) /\ Commit(off[w])
  /\ UNCHANGED <<faults, log, off, memberVars>>

(* The handler returned an error: on shutdown leave without a commit, else *)
(* read on without a commit.                                               *)
SettleErr(w) ==
  /\ pc[w] = "settle" /\ HandlerErred(w)
  /\ \/ ctxDone[w] /\ BeginDrain(w) /\ Leave(w)
     \/ ~ctxDone[w] /\ EndJob(w) /\ UNCHANGED <<faults, memberVars>>
  /\ UNCHANGED <<log, off, offsetVars>>

(* The handler returned nil: commit, or stop consuming when that fails.    *)
(* Over a cancelled context the offset may be stored or not.               *)
SettleOK(w) ==
  /\ pc[w] = "settle" /\ ~HandlerErred(w)
  /\ \/ EndJob(w) /\ UNCHANGED <<faults, memberVars>> /\ Commit(off[w])
     \/ /\ ctxDone[w] /\ BeginDrain(w) /\ Leave(w)
        /\ Commit(off[w]) \/ UNCHANGED offsetVars
     \/ /\ ~ctxDone[w] /\ Fault /\ Down(w) /\ Leave(w)
        /\ Commit(off[w]) \/ UNCHANGED offsetVars
  /\ UNCHANGED <<log, off>>

(* FetchMessage returns the context's error.                               *)
ReturnOnSignal(w) ==
  /\ pc[w] = "idle" /\ BeginDrain(w) /\ Leave(w)
  /\ UNCHANGED <<log, off, offsetVars>>

(* FetchMessage fails for another reason: runWorker exits with the error.  *)
FetchErr(w) ==
  /\ pc[w] = "idle" /\ ~ctxDone[w] /\ Fault /\ Down(w) /\ Leave(w)
  /\ UNCHANGED <<log, off, offsetVars>>

(* runWorker returns.                                                      *)
Exit(w) ==
  /\ pc[w] = "drain" /\ Down(w)
  /\ UNCHANGED <<faults, brokerVars>>

Crash(w) ==
  /\ pc[w] # "down" /\ Fault /\ Down(w) /\ Leave(w)
  /\ UNCHANGED <<log, off, offsetVars>>

Handle(w) == HandlerStep(w) /\ UNCHANGED brokerVars

Step(w) == \/ Handle(w) \/ Fetch(w) \/ SettleErr(w) \/ SettleOK(w)
           \/ ReturnOnSignal(w) \/ Exit(w)

Environment(w) == \/ Signal(w) /\ UNCHANGED brokerVars
                  \/ Crash(w) \/ FetchErr(w)

BotX == \E b \in Bots : (Revoke(b) \/ CacheExpire(b)) /\ UNCHANGED brokerVars

Next == \/ \E m \in Messages : Publish(m)
        \/ \E w \in Workers : \/ Start(w) \/ Rebalance(w) \/ Step(w)
                              \/ Environment(w)
        \/ SessionLost
        \/ BotX

Spec == Init /\ [][Next]_vars

(* As for RabbitMQ; a due rebalance is eventually carried out, and the     *)
(* select in FetchMessage does not pass over a cancelled context for ever. *)
Fairness == /\ \A w \in Workers : /\ WF_vars(Start(w)) /\ WF_vars(Step(w))
                                  /\ SF_vars(ReturnOnSignal(w))
            /\ WF_vars(\E w \in Workers : Rebalance(w))

FairSpec == Spec /\ Fairness
-----------------------------------------------------------------------------
Concluded(m) == delivered[m] > 0 \/ m \in Judged("failed") \cup Malformed \cup Exempt

(* The inductive invariant.  A message is settled for a reason; what the   *)
(* group's offset has passed is settled, and what a member has passed, or  *)
(* lies before what it handles, is settled or was given up or unreadable.  *)
Passed(m) == m \in done \cup dead \cup Judged("failed") \cup Malformed

Justified == /\ \A m \in done : delivered[m] > 0 \/ m \in Exempt
             /\ dead \subseteq Judged("failed") \cup Malformed

CommittedSettled == \A o \in 0 .. committed - 1 : MsgAt(o) \in done \cup dead

HandlingInv ==
  \A w \in Workers : pc[w] \in Handling =>
    /\ off[w] < Len(log) /\ job[w].msg = MsgAt(off[w])
    /\ MsgAt(off[w]) \notin Malformed
    /\ \A o \in 0 .. off[w] - 1 : Passed(MsgAt(o))

PositionInv ==
  \A w \in Workers : owner = w =>
    \A o \in 0 .. pos[w] - 1 :
      Passed(MsgAt(o)) \/ (pc[w] \in Handling /\ off[w] = o)

IInv == /\ TypeOK /\ WorkerInv /\ Justified
        /\ CommittedSettled /\ HandlingInv /\ PositionInv

(* The group's offset never passes a message no worker has finished with:  *)
(* a shutdown, a crash or a lost partition makes the next owner read it    *)
(* again.  (ConsumeWork commits after the handler only.)                   *)
CommittedMeansConcluded ==
  \A o \in 0 .. committed - 1 : Concluded(MsgAt(o))

(* The owner misses nothing: what lies between the group's offset and its  *)
(* own position was handled by somebody, or is what it is handling.        *)
NothingSkipped ==
  \A w \in Workers : owner = w =>
    \A o \in 0 .. pos[w] - 1 :
      \/ Concluded(MsgAt(o))
      \/ pc[w] \in Handling /\ off[w] = o

(* The log keeps the promise of the asynchronous mode, a message whose     *)
(* handler failed being dead once a later commit passes it.                *)
Delivery == INSTANCE WorkDelivery WITH
  fate <- [m \in Messages |-> IF m \notin Published THEN "absent"
                              ELSE IF m \in done THEN "done"
                              ELSE IF m \in dead THEN "dead" ELSE "queued"],
  reached <- delivered, failed <- Judged("failed"), exempt <- Exempt

DeliverySpec == Delivery!Spec

(* Once disturbances stop, every message is finished with.                 *)
EventuallyConcluded ==
  \A m \in Messages : m \in Published ~> Concluded(m)

ShutdownTerminates == \A w \in Workers : ctxDone[w] ~> pc[w] = "down"
=============================================================================
