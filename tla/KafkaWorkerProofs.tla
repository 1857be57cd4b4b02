------------------------- MODULE KafkaWorkerProofs -------------------------
(***************************************************************************)
(* For any number of group members, messages, retries and disturbances the *)
(* committed offset of the Kafka driver never passes a message no worker   *)
(* has finished with, the owner of the partition skips none, and the log   *)
(* implements the contract WorkDelivery.  IInv is inductive: HandlingInv   *)
(* ties an offset to the message its member handles, PositionInv a position*)
(* to the fate of everything before it.                                    *)
(***************************************************************************)
EXTENDS KafkaWorker, WorkerProofs

(* Everything of IInv but the worker's part, position by position.         *)
LogTypeOK ==
  /\ log \in Seq(Messages)
  /\ committed \in Offsets
  /\ owner \in Workers \cup {None}
  /\ stable \in BOOLEAN
  /\ pos \in [Workers -> Offsets]
  /\ off \in [Workers -> Offsets]
  /\ done \subseteq Messages /\ dead \subseteq Messages

Placed(w) ==
  /\ pc[w] \in Handling =>
       /\ off[w] < Len(log) /\ job[w].msg = MsgAt(off[w])
       /\ MsgAt(off[w]) \notin Malformed
       /\ \A o \in 0 .. off[w] - 1 : Passed(MsgAt(o))
  /\ owner = w =>
       \A o \in 0 .. pos[w] - 1 :
         Passed(MsgAt(o)) \/ (pc[w] \in Handling /\ off[w] = o)

LogInv == /\ LogTypeOK /\ Justified /\ CommittedSettled
          /\ \A w \in Workers : Placed(w)

LEMMA Split == /\ IInv <=> WInv /\ LogInv
               /\ IInv' <=> WInv' /\ LogInv'
<1>1. (\A w \in Workers : Placed(w)) <=> HandlingInv /\ PositionInv
  BY DEF Placed, HandlingInv, PositionInv
<1>2. (\A w \in Workers : Placed(w))' <=> HandlingInv' /\ PositionInv'
  BY DEF Placed, HandlingInv, PositionInv
<1>3. (TypeOK <=> WorkerTypeOK /\ LogTypeOK) /\ (TypeOK' <=> WorkerTypeOK' /\ LogTypeOK')
  BY DEF TypeOK, LogTypeOK
<1> QED
  BY <1>1, <1>2, <1>3 DEF IInv, WInv, LogInv

THEOREM InitOK == Init => IInv
<1> SUFFICES ASSUME Init PROVE WInv /\ LogInv
  BY Split
<1>1. WInv
  BY InitKeeps DEF Init
<1>2. LogTypeOK
  <2>1. log \in Seq(Messages) /\ Len(log) = 0 /\ 0 \in Offsets
    BY DEF Init, Offsets
  <2> QED
    BY <2>1 DEF Init, LogTypeOK
<1>3. Justified /\ CommittedSettled
  BY DEF Init, Justified, CommittedSettled
<1>4. ASSUME NEW w \in Workers PROVE Placed(w)
  BY DEF Init, WorkerInit, Placed, Handling, Sending
<1> QED
  BY <1>1, <1>2, <1>3, <1>4 DEF LogInv
-----------------------------------------------------------------------------
(* Posts and verdicts only grow, and so do the reasons for passing.        *)
LEMMA GhostsMonotone == ASSUME WInv, UNCHANGED ghostVars PROVE Monotone
  BY DEF WInv, WorkerTypeOK, Monotone, ghostVars

SettledGrows == done \subseteq done' /\ dead \subseteq dead'

LEMMA PassedStays ==
  ASSUME Monotone, SettledGrows, NEW m, Passed(m)
  PROVE  m \in done' \cup dead' \cup Judged("failed")' \cup Malformed
  BY DEF Passed, Monotone, SettledGrows, Judged

LEMMA JustifiedStays ==
  ASSUME WInv, LogInv, Monotone, UNCHANGED <<done, dead>>
  PROVE  Justified'
  BY DEF LogInv, LogTypeOK, WInv, WorkerTypeOK, Monotone, Justified, Exempt, Judged

(* The log grows at its end only.                                          *)
LogGrows == /\ log' \in Seq(Messages) /\ Len(log') >= Len(log)
            /\ \A o \in 0 .. Len(log) - 1 : MsgAt(o)' = MsgAt(o)

LEMMA LogGrowsOK ==
  ASSUME LogTypeOK,
         log' = log \/ (\E m \in Messages : log' = Append(log, m))
  PROVE  LogGrows
<1>1. CASE log' = log
  BY <1>1 DEF LogTypeOK, LogGrows, MsgAt
<1>2. ASSUME NEW m \in Messages, log' = Append(log, m) PROVE LogGrows
  BY <1>2 DEF LogTypeOK, LogGrows, MsgAt
<1> QED
  BY <1>1, <1>2

(* The messages of the log at its offsets.                                 *)
LEMMA InLog ==
  ASSUME LogTypeOK, NEW o \in 0 .. Len(log) - 1
  PROVE  MsgAt(o) \in Messages /\ MsgAt(o) \in Published
<1>1. o + 1 \in 1 .. Len(log) /\ DOMAIN log = 1 .. Len(log)
  BY DEF LogTypeOK
<1> QED
  BY <1>1 DEF LogTypeOK, MsgAt, Published, Range

(* A member whose own variables stay keeps its place.                      *)
LEMMA PlacedStays ==
  ASSUME LogInv, Monotone, LogGrows, SettledGrows, NEW x \in Workers,
         pos'[x] = pos[x], off'[x] = off[x],
         owner' = x => owner = x,
         pc'[x] \in Handling => pc[x] \in Handling /\ job'[x].msg = job[x].msg,
         owner' = x /\ pc[x] \in Handling => pc'[x] \in Handling
  PROVE  Placed(x)'
<1>1. /\ Placed(x) /\ Len(log) \in Nat /\ Len(log') \in Nat
      /\ pos[x] \in 0 .. Len(log) /\ off[x] \in 0 .. Len(log)
  BY DEF LogInv, LogTypeOK, Offsets, LogGrows
<1>2. ASSUME pc'[x] \in Handling
      PROVE  /\ off'[x] < Len(log') /\ job'[x].msg = MsgAt(off[x])'
             /\ MsgAt(off[x])' \notin Malformed
             /\ \A o \in 0 .. off'[x] - 1 : Passed(MsgAt(o))'
  <2>1. /\ off[x] < Len(log) /\ job[x].msg = MsgAt(off[x])
        /\ MsgAt(off[x]) \notin Malformed
        /\ \A o \in 0 .. off[x] - 1 : Passed(MsgAt(o))
    BY <1>1, <1>2 DEF Placed
  <2>2. off[x] \in 0 .. Len(log) - 1 /\ MsgAt(off[x])' = MsgAt(off[x])
    BY <1>1, <2>1 DEF LogGrows, MsgAt
  <2>3. ASSUME NEW o \in 0 .. off[x] - 1 PROVE Passed(MsgAt(o))'
    <3>1. MsgAt(o)' = MsgAt(o) /\ Passed(MsgAt(o))
      BY <1>1, <2>1 DEF LogGrows
    <3> QED
      BY <3>1, PassedStays DEF Passed
  <2> QED
    BY <1>1, <1>2, <2>1, <2>2, <2>3 DEF LogGrows
<1>3. ASSUME owner' = x, NEW o \in 0 .. pos[x] - 1
      PROVE  Passed(MsgAt(o))' \/ (pc'[x] \in Handling /\ off'[x] = o)
  <2>1. MsgAt(o)' = MsgAt(o)
    BY <1>1 DEF LogGrows
  <2>2. CASE Passed(MsgAt(o))
    BY <2>1, <2>2, PassedStays DEF Passed
  <2>3. CASE pc[x] \in Handling /\ off[x] = o
    BY <1>3, <2>3
  <2> QED
    BY <1>1, <1>3, <2>2, <2>3 DEF Placed
<1> QED
  BY <1>2, <1>3 DEF Placed

(* Whatever commits nothing and moves no position, member by member.       *)
LEMMA QuietKeeps ==
  ASSUME WInv, WInv', LogInv, Monotone, LogGrows,
         UNCHANGED <<committed, done, dead, pos, off>>,
         owner' \in Workers \cup {None}, stable' \in BOOLEAN,
         \A x \in Workers :
           /\ owner' = x => owner = x
           /\ pc'[x] \in Handling => pc[x] \in Handling /\ job'[x].msg = job[x].msg
           /\ owner' = x /\ pc[x] \in Handling => pc'[x] \in Handling
  PROVE  IInv'
<1>1. SettledGrows
  BY DEF SettledGrows
<1>2. LogTypeOK'
  <2>1. Offsets \subseteq Offsets'
    BY DEF Offsets, LogGrows, LogInv, LogTypeOK
  <2> QED
    BY <2>1 DEF LogTypeOK, LogInv, LogGrows
<1>3. Justified'
  BY JustifiedStays
<1>4. CommittedSettled'
  BY DEF CommittedSettled, LogInv, LogTypeOK, Offsets, LogGrows
<1>5. ASSUME NEW x \in Workers PROVE Placed(x)'
  BY <1>1, PlacedStays
<1> QED
  BY <1>2, <1>3, <1>4, <1>5, Split DEF LogInv

LEMMA SameLog == ASSUME LogInv, log' = log PROVE LogGrows
  BY LogGrowsOK DEF LogInv

LEMMA HandleOK ==
  ASSUME IInv, NEW w \in Workers, Handle(w)
  PROVE  IInv'
<1>1. WInv /\ LogInv /\ HandlerEffect(w) /\ UNCHANGED brokerVars
  BY Split, HandlerStepEffect DEF Handle
<1>2. UNCHANGED <<log, owner, stable, committed, done, dead, pos, off>>
  BY <1>1 DEF brokerVars, offsetVars, memberVars
<1>3. owner \in Workers \cup {None} /\ stable \in BOOLEAN
  BY <1>1 DEF LogInv, LogTypeOK
<1> QED
  BY <1>1, <1>2, <1>3, SameLog, QuietKeeps DEF HandlerEffect, OnlyMoves

LEMMA PublishOK ==
  ASSUME IInv, NEW m \in Messages, Publish(m)
  PROVE  IInv'
<1>1. /\ WInv /\ LogInv /\ UNCHANGED workerVars /\ log' = Append(log, m)
      /\ UNCHANGED <<owner, stable, committed, done, dead, pos, off>>
  BY Split DEF Publish, offsetVars, memberVars
<1>2. WInv' /\ Monotone /\ UNCHANGED <<pc, job>>
  BY <1>1, WorkerStutterKeeps, GhostsMonotone DEF workerVars, procVars
<1>3. LogGrows
  BY <1>1, LogGrowsOK DEF LogInv
<1>4. owner \in Workers \cup {None} /\ stable \in BOOLEAN
  BY <1>1 DEF LogInv, LogTypeOK
<1> QED
  BY <1>1, <1>2, <1>3, <1>4, QuietKeeps

LEMMA StartOK ==
  ASSUME IInv, NEW w \in Workers, Start(w)
  PROVE  IInv'
<1>1. /\ WInv /\ LogInv /\ Boot(w) /\ stable' = FALSE
      /\ UNCHANGED <<log, owner, committed, done, dead, pos, off>>
  BY Split DEF Start, offsetVars
<1>2. WInv' /\ Monotone
  BY <1>1, BootKeeps, GhostsMonotone DEF Boot
<1>3. /\ job' = job /\ pc[w] \notin Handling /\ pc'[w] \notin Handling
      /\ \A x \in Workers \ {w} : pc'[x] = pc[x]
  BY <1>1 DEF Boot, Goto, WInv, WorkerTypeOK, Handling, Sending
<1>4. owner \in Workers \cup {None} /\ stable' \in BOOLEAN
  BY <1>1 DEF LogInv, LogTypeOK
<1> QED
  BY <1>1, <1>2, <1>3, <1>4, SameLog, QuietKeeps

(* A session ends, BotX forgets a token, a signal arrives, nothing happens.*)
LEMMA OutsideOK ==
  ASSUME IInv, WInv', UNCHANGED <<pc, job, ghostVars>>,
         UNCHANGED <<log, owner, committed, done, dead, pos, off>>,
         stable' \in BOOLEAN
  PROVE  IInv'
<1>1. WInv /\ LogInv /\ Monotone
  BY Split, GhostsMonotone
<1>2. owner \in Workers \cup {None}
  BY <1>1 DEF LogInv, LogTypeOK
<1> QED
  BY <1>1, <1>2, SameLog, QuietKeeps

LEMMA SessionLostOK == ASSUME IInv, SessionLost PROVE IInv'
<1>1. /\ WInv /\ Fault /\ UNCHANGED <<pc, ctxDone, ready, healthy, job, tokenVars, ghostVars>>
      /\ UNCHANGED <<log, owner, committed, done, dead, pos, off>> /\ stable' = FALSE
  BY Split DEF SessionLost, procVars, offsetVars
<1>2. WInv'
  BY <1>1, FaultKeeps DEF WInv, WorkerTypeOK
<1> QED
  BY <1>1, <1>2, OutsideOK

LEMMA BrokerKept ==
  ASSUME LogInv, UNCHANGED brokerVars
  PROVE  /\ UNCHANGED <<log, owner, committed, done, dead, pos, off>>
         /\ stable' \in BOOLEAN
  BY DEF brokerVars, offsetVars, memberVars, LogInv, LogTypeOK

LEMMA SignalOK ==
  ASSUME IInv, NEW w \in Workers, Signal(w), UNCHANGED brokerVars
  PROVE  IInv'
<1>1. WInv /\ LogInv /\ UNCHANGED <<pc, job, ghostVars>>
  BY Split DEF Signal
<1>2. WInv'
  BY <1>1, SignalKeeps
<1> QED
  BY <1>1, <1>2, BrokerKept, OutsideOK

LEMMA BotXOK == ASSUME IInv, BotX PROVE IInv'
<1>1. PICK b \in Bots : (Revoke(b) \/ CacheExpire(b)) /\ UNCHANGED brokerVars
  BY DEF BotX
<1>2. WInv /\ LogInv /\ UNCHANGED <<pc, job, ghostVars>>
  BY <1>1, Split DEF Revoke, CacheExpire, procVars
<1>3. WInv'
  BY <1>1, <1>2, BotXKeeps
<1> QED
  BY <1>1, <1>2, <1>3, BrokerKept, OutsideOK

LEMMA StutterOK == ASSUME IInv, UNCHANGED vars PROVE IInv'
<1>1. WInv /\ LogInv /\ UNCHANGED workerVars /\ UNCHANGED brokerVars
  BY Split DEF vars
<1>2. WInv' /\ UNCHANGED <<pc, job, ghostVars>>
  BY <1>1, WorkerStutterKeeps DEF workerVars, procVars
<1> QED
  BY <1>1, <1>2, BrokerKept, OutsideOK
-----------------------------------------------------------------------------
(* A member that leaves drops its message and its partition.               *)
LEMMA LeaveKeeps ==
  ASSUME WInv, WInv', LogInv, NEW w \in Workers, Leave(w), UNCHANGED ghostVars,
         UNCHANGED <<log, off, committed, done, dead>>,
         pc'[w] \notin Handling,
         \A x \in Workers \ {w} : pc'[x] = pc[x] /\ job'[x] = job[x]
  PROVE  IInv'
<1>1. /\ stable' = FALSE /\ pos' = pos /\ owner' \in {owner, None} /\ owner' # w
      /\ None \notin Workers
  BY MemberAssumption DEF Leave, MemberAssumption
<1>2. owner' \in Workers \cup {None}
  BY <1>1 DEF LogInv, LogTypeOK
<1>3. Monotone /\ LogGrows
  BY GhostsMonotone, SameLog
<1> QED
  BY <1>1, <1>2, <1>3, QuietKeeps

LEMMA DrainEffect ==
  ASSUME WInv, NEW w \in Workers, BeginDrain(w)
  PROVE  /\ pc'[w] \notin Handling /\ UNCHANGED ghostVars
         /\ \A x \in Workers \ {w} : pc'[x] = pc[x] /\ job'[x] = job[x]
  BY DEF BeginDrain, Goto, WInv, WorkerTypeOK, Handling, Sending

LEMMA DownEffect ==
  ASSUME WInv, NEW w \in Workers, Down(w)
  PROVE  /\ pc'[w] \notin Handling /\ UNCHANGED ghostVars
         /\ \A x \in Workers \ {w} : pc'[x] = pc[x] /\ job'[x] = job[x]
  BY DEF Down, Goto, WInv, WorkerTypeOK, Handling, Sending

LEMMA ReturnOnSignalOK ==
  ASSUME IInv, NEW w \in Workers, ReturnOnSignal(w)
  PROVE  IInv'
<1>1. /\ WInv /\ LogInv /\ BeginDrain(w) /\ Leave(w)
      /\ UNCHANGED <<log, off, committed, done, dead>>
  BY Split DEF ReturnOnSignal, offsetVars
<1> QED
  BY <1>1, BeginDrainKeeps, DrainEffect, LeaveKeeps

LEMMA CrashOK ==
  ASSUME IInv, NEW w \in Workers, Crash(w) \/ FetchErr(w)
  PROVE  IInv'
<1>1. /\ WInv /\ LogInv /\ Fault /\ Down(w) /\ Leave(w)
      /\ UNCHANGED <<log, off, committed, done, dead>>
  BY Split DEF Crash, FetchErr, offsetVars
<1> QED
  BY <1>1, DownKeeps, DownEffect, LeaveKeeps

LEMMA ExitOK ==
  ASSUME IInv, NEW w \in Workers, Exit(w)
  PROVE  IInv'
<1>1. /\ WInv /\ LogInv /\ Down(w) /\ UNCHANGED faults /\ pc[w] = "drain"
      /\ UNCHANGED brokerVars
  BY Split DEF Exit
<1>2. WInv' /\ Monotone
  BY <1>1, DownKeeps, DownEffect, GhostsMonotone
<1>3. pc[w] \notin Handling
  BY <1>1 DEF Handling, Sending
<1>4. owner \in Workers \cup {None}
  BY <1>1 DEF LogInv, LogTypeOK
<1> QED
  BY <1>1, <1>2, <1>3, <1>4, BrokerKept, DownEffect, SameLog, QuietKeeps

(* The new owner reads on from the committed offset: all before it is      *)
(* settled.                                                                *)
LEMMA RebalanceOK ==
  ASSUME IInv, NEW w \in Workers, Rebalance(w)
  PROVE  IInv'
<1>1. /\ WInv /\ LogInv /\ UNCHANGED workerVars
      /\ stable' = TRUE /\ owner' = w /\ pos' = [pos EXCEPT ![w] = committed]
      /\ UNCHANGED <<log, off, committed, done, dead>>
  BY Split DEF Rebalance, offsetVars
<1>2. WInv' /\ Monotone /\ UNCHANGED <<pc, job>> /\ LogGrows /\ SettledGrows
  BY <1>1, WorkerStutterKeeps, GhostsMonotone, SameLog
  DEF workerVars, procVars, SettledGrows
<1>3. LogTypeOK'
  BY <1>1 DEF LogInv, LogTypeOK, Offsets
<1>4. Justified' /\ CommittedSettled'
  BY <1>1, <1>2, JustifiedStays DEF LogInv, CommittedSettled, MsgAt
<1>5. ASSUME NEW x \in Workers \ {w} PROVE Placed(x)'
  <2>1. pos'[x] = pos[x] /\ off'[x] = off[x] /\ (owner' = x => owner = x)
    BY <1>1 DEF LogInv, LogTypeOK
  <2> QED
    BY <1>1, <1>2, <2>1, PlacedStays
<1>6. Placed(w)'
  <2>1. /\ Placed(w) /\ pos'[w] = committed /\ log' = log /\ off' = off
        /\ CommittedSettled
    BY <1>1 DEF LogInv, LogTypeOK
  <2>2. \A m : Passed(m) <=> Passed(m)'
    BY <1>1 DEF Passed, Judged, workerVars, ghostVars
  <2>3. \A o \in 0 .. committed - 1 : Passed(MsgAt(o))
    BY <2>1 DEF CommittedSettled, Passed
  <2> QED
    BY <1>1, <1>2, <2>1, <2>2, <2>3 DEF Placed, MsgAt
<1> QED
  BY <1>1, <1>2, <1>3, <1>4, <1>5, <1>6, Split DEF LogInv
-----------------------------------------------------------------------------
(* A commit settles a message that is concluded and everything before it.  *)
LEMMA CommitKeeps ==
  ASSUME WInv, LogInv, UNCHANGED ghostVars, log' = log,
         NEW o \in 0 .. Len(log) - 1, Commit(o),
         \A i \in 0 .. o - 1 : Passed(MsgAt(i)),
         MsgAt(o) \notin Malformed => delivered[MsgAt(o)] > 0 \/ MsgAt(o) \in Exempt
  PROVE  /\ SettledGrows /\ Justified' /\ CommittedSettled'
         /\ done' \subseteq Messages /\ dead' \subseteq Messages
         /\ committed' \in Offsets'
<1> DEFINE passed == {MsgAt(i) : i \in 0 .. o} \ (done \cup dead)
           good   == {m \in passed : m = MsgAt(o) /\ m \notin Malformed}
<1>1. /\ committed' = o + 1 /\ done' = done \cup good
      /\ dead' = dead \cup (passed \ good)
  BY DEF Commit
<1>2. passed \subseteq Messages
  BY InLog DEF LogInv, LogTypeOK
<1>3. \A m \in good : delivered[m] > 0 \/ m \in Exempt
  OBVIOUS
<1>4. passed \ good \subseteq Judged("failed") \cup Malformed
  <2> SUFFICES ASSUME NEW m \in passed \ good PROVE m \in Judged("failed") \cup Malformed
    OBVIOUS
  <2>1. PICK i \in 0 .. o : m = MsgAt(i)
    OBVIOUS
  <2>2. CASE i = o
    BY <2>1, <2>2
  <2>3. CASE i \in 0 .. o - 1
    BY <2>1, <2>3 DEF Passed
  <2> QED
    BY <2>2, <2>3
<1>5. \A i \in 0 .. o : MsgAt(i) \in done' \cup dead'
  BY <1>1
<1> HIDE DEF passed, good
<1>6. SettledGrows /\ done' \subseteq Messages /\ dead' \subseteq Messages
  BY <1>1, <1>2 DEF SettledGrows, LogInv, LogTypeOK, good
<1>7. Justified'
  BY <1>1, <1>3, <1>4 DEF LogInv, Justified, Exempt, Judged, ghostVars
<1>8. CommittedSettled' /\ committed' \in Offsets'
  <2>1. o + 1 - 1 = o /\ o + 1 \in 0 .. Len(log)
    BY DEF LogInv, LogTypeOK
  <2> QED
    BY <1>1, <1>5, <2>1 DEF CommittedSettled, MsgAt, Offsets
<1> QED
  BY <1>6, <1>7, <1>8

(* A member that has passed the offset it held, with the rest untouched.   *)
LEMMA StepKeeps ==
  ASSUME WInv, WInv', LogInv, NEW w \in Workers, Monotone, SettledGrows,
         log' = log, LogTypeOK', Justified', CommittedSettled',
         owner' \in {owner, None} \ {w} \/ owner' = owner,
         \A x \in Workers \ {w} :
           pos'[x] = pos[x] /\ off'[x] = off[x] /\ pc'[x] = pc[x] /\ job'[x] = job[x],
         Placed(w)'
  PROVE  IInv'
<1>1. LogGrows /\ None \notin Workers
  BY SameLog, MemberAssumption DEF MemberAssumption
<1>2. ASSUME NEW x \in Workers \ {w} PROVE Placed(x)'
  BY <1>1, PlacedStays
<1> QED
  BY <1>2, Split DEF LogInv

LEMMA FetchOK ==
  ASSUME IInv, NEW w \in Workers, Fetch(w)
  PROVE  IInv'
<1>o. PICK o : o = pos[w]
  OBVIOUS
<1>1. /\ WInv /\ LogInv /\ pc[w] = "idle" /\ owner = w /\ o < Len(log)
      /\ pos' = [pos EXCEPT ![w] = @ + 1] /\ UNCHANGED <<log, owner, stable>>
  BY <1>o, Split DEF Fetch
<1>2. /\ o \in 0 .. Len(log) - 1 /\ MsgAt(o) \in Messages
      /\ pos' \in [Workers -> Offsets'] /\ pos'[w] = o + 1
      /\ \A x \in Workers \ {w} : pos'[x] = pos[x]
  <2>1. pos \in [Workers -> 0 .. Len(log)] /\ Len(log) \in Nat
    BY <1>1 DEF LogInv, LogTypeOK, Offsets
  <2>2. o \in 0 .. Len(log) - 1 /\ o + 1 \in 0 .. Len(log)
    BY <1>o, <1>1, <2>1
  <2> QED
    BY <1>o, <1>1, <2>1, <2>2, InLog DEF LogInv, Offsets
<1>3. \A i \in 0 .. o - 1 : Passed(MsgAt(i))
  <2>1. Placed(w) /\ pc[w] \notin Handling
    BY <1>1 DEF LogInv, Handling, Sending
  <2> QED
    BY <1>o, <1>1, <2>1 DEF Placed
<1>4. CASE /\ MsgAt(o) \in Malformed
           /\ \/ Commit(o) /\ UNCHANGED faults
              \/ ctxDone[w] /\ UNCHANGED <<offsetVars, faults>>
              \/ Fault /\ UNCHANGED offsetVars
           /\ UNCHANGED <<procVars, tokenVars, ghostVars, off>>
  <2>1. /\ WInv' /\ Monotone
    <3>1. UNCHANGED faults => UNCHANGED workerVars
      BY <1>4 DEF workerVars
    <3>2. Fault => WInv'
      BY <1>1, <1>4, FaultKeeps DEF procVars, WInv, WorkerTypeOK
    <3> QED
      BY <1>1, <1>4, <3>1, <3>2, WorkerStutterKeeps, GhostsMonotone
  <2>2. /\ SettledGrows /\ Justified' /\ CommittedSettled'
        /\ done' \subseteq Messages /\ dead' \subseteq Messages
        /\ committed' \in Offsets'
    <3>1. CASE Commit(o)
      BY <1>1, <1>2, <1>3, <1>4, <3>1, CommitKeeps
    <3>2. CASE UNCHANGED offsetVars
      BY <1>1, <2>1, <3>2, JustifiedStays
      DEF offsetVars, SettledGrows, LogInv, LogTypeOK, CommittedSettled, MsgAt, Offsets
    <3> QED
      BY <1>4, <3>1, <3>2
  <2>3. off' = off /\ off' \in [Workers -> Offsets'] /\ pc' = pc /\ job' = job
    BY <1>1, <1>4 DEF procVars, LogInv, LogTypeOK, Offsets
  <2>4. LogTypeOK'
    BY <1>1, <1>2, <2>2, <2>3 DEF LogInv, LogTypeOK
  <2>5. Placed(w)'
    <3>1. \A i \in 0 .. o - 1 : Passed(MsgAt(i))'
      BY <1>1, <1>3, <2>1, <2>2, PassedStays DEF Passed, MsgAt
    <3>2. Passed(MsgAt(o))'
      BY <1>1, <1>4 DEF Passed, MsgAt
    <3>3. \A i \in 0 .. pos'[w] - 1 : i \in 0 .. o - 1 \/ i = o
      BY <1>2
    <3>4. pc'[w] \notin Handling
      BY <1>1, <2>3 DEF Handling, Sending
    <3> QED
      BY <3>1, <3>2, <3>3, <3>4 DEF Placed
  <2> QED
    BY <1>1, <1>2, <2>1, <2>2, <2>3, <2>4, <2>5, StepKeeps
<1>5. CASE /\ MsgAt(o) \notin Malformed
           /\ Begin(w, MsgAt(o)) /\ off' = [off EXCEPT ![w] = o]
           /\ UNCHANGED offsetVars
  <2>1. WInv' /\ Monotone
    BY <1>1, <1>2, <1>5, BeginKeeps, GhostsMonotone DEF Begin
  <2>2. /\ pc' = [pc EXCEPT ![w] = "handle"]
        /\ job' = [job EXCEPT ![w] = NewJob(MsgAt(o))]
        /\ UNCHANGED <<ghostVars, committed, done, dead>>
    BY <1>5 DEF Begin, Goto, offsetVars
  <2>3. /\ SettledGrows /\ Justified' /\ CommittedSettled'
    BY <1>1, <2>1, <2>2, JustifiedStays DEF SettledGrows, LogInv, CommittedSettled, MsgAt
  <2>4. o \in Offsets /\ off' \in [Workers -> Offsets'] /\ off'[w] = o
    BY <1>1, <1>2, <1>5 DEF LogInv, LogTypeOK, Offsets
  <2>5. LogTypeOK'
    BY <1>1, <1>2, <2>2, <2>4 DEF LogInv, LogTypeOK, Offsets
  <2>6. Placed(w)'
    <3>1. \A i \in 0 .. o - 1 : Passed(MsgAt(i))'
      BY <1>1, <1>3, <2>1, <2>3, PassedStays DEF Passed, MsgAt
    <3>2. \A i \in 0 .. pos'[w] - 1 : i \in 0 .. o - 1 \/ i = o
      BY <1>2
    <3>3. pc'[w] = "handle" /\ pc'[w] \in Handling /\ job'[w].msg = MsgAt(o)'
      BY <1>1, <2>2 DEF WInv, WorkerTypeOK, NewJob, MsgAt, Handling
    <3>4. MsgAt(o)' = MsgAt(o) /\ o < Len(log')
      BY <1>1, <1>2 DEF MsgAt
    <3> QED
      BY <1>5, <2>4, <3>1, <3>2, <3>3, <3>4 DEF Placed, MsgAt
  <2>7. \A x \in Workers \ {w} : off'[x] = off[x] /\ pc'[x] = pc[x] /\ job'[x] = job[x]
    BY <1>1, <1>5, <2>2 DEF LogInv, LogTypeOK, WInv, WorkerTypeOK
  <2> QED
    BY <1>1, <1>2, <2>1, <2>3, <2>5, <2>6, <2>7, StepKeeps
<1> QED
  BY <1>o, <1>1, <1>4, <1>5 DEF Fetch

(* What a member knows when its handler has returned.                      *)
LEMMA Returned ==
  ASSUME WInv, LogInv, NEW w \in Workers, pc[w] = "settle"
  PROVE  /\ off[w] \in 0 .. Len(log) - 1 /\ job[w].msg = MsgAt(off[w])
         /\ MsgAt(off[w]) \in Messages
         /\ \A i \in 0 .. off[w] - 1 : Passed(MsgAt(i))
         /\ ~HandlerErred(w) =>
              delivered[MsgAt(off[w])] > 0 \/ MsgAt(off[w]) \in Exempt
         /\ HandlerErred(w) /\ ~ctxDone[w] => MsgAt(off[w]) \in Judged("failed")
<1>1. pc[w] \in Handling /\ Placed(w)
  BY DEF Handling, LogInv
<1>2. off[w] \in 0 .. Len(log) - 1 /\ job[w].msg = MsgAt(off[w])
  BY <1>1 DEF LogInv, LogTypeOK, Offsets, Placed
<1>3. MsgAt(off[w]) \in Messages
  BY <1>2, InLog DEF LogInv
<1>4. /\ VerdictEarned(w) /\ job[w].verdict \in Verdicts
      /\ job[w].verdict = "none" => ctxDone[w]
  BY DEF WInv, WorkerInv, WorkerTypeOK, Jobs
<1>5. ~HandlerErred(w) =>
        delivered[MsgAt(off[w])] > 0 \/ MsgAt(off[w]) \in Exempt
  BY <1>2, <1>3, <1>4 DEF VerdictEarned, HandlerErred, Exempt, Judged, Verdicts
<1>6. HandlerErred(w) /\ ~ctxDone[w] => MsgAt(off[w]) \in Judged("failed")
  BY <1>2, <1>3, <1>4 DEF VerdictEarned, HandlerErred, Judged
<1> QED
  BY <1>1, <1>2, <1>3, <1>5, <1>6 DEF Placed

LEMMA EndEffect ==
  ASSUME WInv, NEW w \in Workers, EndJob(w)
  PROVE  /\ pc'[w] \notin Handling /\ UNCHANGED ghostVars
         /\ \A x \in Workers \ {w} : pc'[x] = pc[x] /\ job'[x] = job[x]
  BY DEF EndJob, Goto, WInv, WorkerTypeOK, Handling, Sending

(* The message has been passed for a reason, and the member reads on.      *)
LEMMA ReadOn ==
  ASSUME WInv, LogInv, NEW w \in Workers, pc[w] = "settle",
         UNCHANGED <<ghostVars, log, pos, off, owner>>, SettledGrows,
         pc'[w] \notin Handling, Passed(MsgAt(off[w]))'
  PROVE  Placed(w)'
<1>1. Placed(w) /\ Monotone
  BY GhostsMonotone DEF LogInv
<1>2. ASSUME owner = w, NEW o \in 0 .. pos[w] - 1 PROVE Passed(MsgAt(o))'
  <2>1. CASE Passed(MsgAt(o))
    BY <1>1, <2>1, PassedStays DEF Passed, MsgAt
  <2>2. CASE off[w] = o
    <3>1. MsgAt(o)' = log[o + 1]
      BY DEF MsgAt
    <3>2. log[o + 1] = MsgAt(off[w])
      BY <2>2 DEF MsgAt
    <3> QED
      BY <2>2, <3>1, <3>2 DEF Passed, MsgAt
  <2> QED
    BY <1>1, <1>2, <2>1, <2>2 DEF Placed
<1> QED
  BY <1>2 DEF Placed

LEMMA SettleErrOK ==
  ASSUME IInv, NEW w \in Workers, SettleErr(w)
  PROVE  IInv'
<1>1. /\ WInv /\ LogInv /\ pc[w] = "settle" /\ HandlerErred(w)
      /\ UNCHANGED <<log, off, committed, done, dead>>
  BY Split DEF SettleErr, offsetVars
<1>2. CASE ctxDone[w] /\ BeginDrain(w) /\ Leave(w)
  BY <1>1, <1>2, BeginDrainKeeps, DrainEffect, LeaveKeeps
<1>3. CASE ~ctxDone[w] /\ EndJob(w) /\ UNCHANGED <<faults, memberVars>>
  <2>1. /\ WInv' /\ Monotone /\ UNCHANGED <<owner, stable, pos, ghostVars>>
        /\ SettledGrows
    BY <1>1, <1>3, EndJobKeeps, EndEffect, GhostsMonotone DEF memberVars, SettledGrows
  <2>2. Passed(MsgAt(off[w]))'
    BY <1>1, <1>3, <2>1, Returned DEF Passed, Judged, MsgAt, ghostVars
  <2>3. Placed(w)'
    BY <1>1, <1>3, <2>1, <2>2, EndEffect, ReadOn
  <2>4. LogTypeOK' /\ Justified' /\ CommittedSettled'
    BY <1>1, <2>1, JustifiedStays DEF LogInv, LogTypeOK, Offsets, CommittedSettled, MsgAt
  <2> QED
    BY <1>1, <1>3, <2>1, <2>3, <2>4, EndEffect, StepKeeps
<1> QED
  BY <1>1, <1>2, <1>3 DEF SettleErr

LEMMA SettleOKOK ==
  ASSUME IInv, NEW w \in Workers, SettleOK(w)
  PROVE  IInv'
<1>1. /\ WInv /\ LogInv /\ pc[w] = "settle" /\ ~HandlerErred(w)
      /\ UNCHANGED <<log, off>>
  BY Split DEF SettleOK
<1>2. ASSUME Commit(off[w]), UNCHANGED ghostVars
      PROVE  /\ SettledGrows /\ Justified' /\ CommittedSettled'
             /\ done' \subseteq Messages /\ dead' \subseteq Messages
             /\ committed' \in Offsets'
  BY <1>1, <1>2, Returned, CommitKeeps
<1>3. CASE EndJob(w) /\ UNCHANGED <<faults, memberVars>> /\ Commit(off[w])
  <2>1. /\ WInv' /\ Monotone /\ UNCHANGED <<owner, stable, pos, ghostVars>>
    BY <1>1, <1>3, EndJobKeeps, EndEffect, GhostsMonotone DEF memberVars
  <2>2. LogTypeOK'
    BY <1>1, <1>2, <1>3, <2>1 DEF LogInv, LogTypeOK, Offsets
  <2>3. Passed(MsgAt(off[w]))'
    <3>1. committed' = off[w] + 1
      BY <1>3 DEF Commit
    <3>2. off[w] \in 0 .. committed' - 1
      BY <1>1, <3>1, Returned
    <3>3. log'[off[w] + 1] \in done' \cup dead'
      BY <1>2, <1>3, <2>1, <3>2 DEF CommittedSettled, MsgAt
    <3> QED
      BY <1>1, <3>3 DEF Passed, MsgAt
  <2>4. Placed(w)'
    BY <1>1, <1>2, <1>3, <2>1, <2>3, EndEffect, ReadOn
  <2> QED
    BY <1>1, <1>2, <1>3, <2>1, <2>2, <2>4, EndEffect, StepKeeps
<1>4. CASE /\ (BeginDrain(w) /\ UNCHANGED faults) \/ (Down(w) /\ Fault)
           /\ Leave(w)
           /\ Commit(off[w]) \/ UNCHANGED offsetVars
  <2>1. /\ WInv' /\ Monotone /\ UNCHANGED ghostVars /\ pc'[w] \notin Handling
        /\ \A x \in Workers \ {w} : pc'[x] = pc[x] /\ job'[x] = job[x]
    BY <1>1, <1>4, BeginDrainKeeps, DownKeeps, DrainEffect, DownEffect, GhostsMonotone
  <2>2. CASE UNCHANGED offsetVars
    BY <1>1, <1>4, <2>1, <2>2, LeaveKeeps DEF offsetVars
  <2>3. CASE Commit(off[w])
    <3>1. /\ stable' = FALSE /\ pos' = pos /\ owner' \in {owner, None} \ {w}
      BY <1>4, MemberAssumption DEF Leave, MemberAssumption
    <3>2. LogTypeOK'
      BY <1>1, <1>2, <2>1, <2>3, <3>1 DEF LogInv, LogTypeOK, Offsets
    <3>3. Placed(w)'
      BY <2>1, <3>1 DEF Placed
    <3> QED
      BY <1>1, <1>2, <2>1, <2>3, <3>1, <3>2, <3>3, StepKeeps
  <2> QED
    BY <1>4, <2>2, <2>3
<1>5. CASE BeginDrain(w) /\ Leave(w) /\ (Commit(off[w]) \/ UNCHANGED offsetVars)
  <2>1. UNCHANGED faults
    BY <1>5 DEF BeginDrain
  <2> QED
    BY <1>4, <1>5, <2>1
<1>6. CASE Fault /\ Down(w) /\ Leave(w) /\ (Commit(off[w]) \/ UNCHANGED offsetVars)
  BY <1>4, <1>6
<1> QED
  BY <1>3, <1>5, <1>6 DEF SettleOK
-----------------------------------------------------------------------------
(* IInv is an invariant of the workers on Kafka.                           *)
THEOREM Invariance == Spec => []IInv
<1>1. IInv /\ [Next]_vars => IInv'
  <2> SUFFICES ASSUME IInv, [Next]_vars PROVE IInv'
    OBVIOUS
  <2>1. CASE \E m \in Messages : Publish(m)
    BY <2>1, PublishOK
  <2>2. ASSUME NEW w \in Workers,
               Start(w) \/ Rebalance(w) \/ Step(w) \/ Environment(w)
        PROVE  IInv'
    BY <2>2, StartOK, RebalanceOK, HandleOK, FetchOK, SettleErrOK, SettleOKOK,
       ReturnOnSignalOK, ExitOK, CrashOK, SignalOK DEF Step, Environment
  <2>3. CASE SessionLost \/ BotX
    BY <2>3, SessionLostOK, BotXOK
  <2>4. CASE UNCHANGED vars
    BY <2>4, StutterOK
  <2> QED
    BY <2>1, <2>2, <2>3, <2>4 DEF Next
<1> QED
  BY <1>1, InitOK, PTL DEF Spec

(* The committed offset never passes a message nobody has finished with.   *)
THEOREM CommitSafety == Spec => []CommittedMeansConcluded
<1>1. IInv => CommittedMeansConcluded
  BY DEF IInv, CommittedSettled, Justified, CommittedMeansConcluded, Concluded
<1> QED
  BY <1>1, Invariance, PTL

(* The owner of the partition has passed nothing unfinished.               *)
THEOREM NoSkipping == Spec => []NothingSkipped
<1>1. IInv => NothingSkipped
  BY DEF IInv, Justified, PositionInv, Passed, NothingSkipped, Concluded
<1> QED
  BY <1>1, Invariance, PTL
-----------------------------------------------------------------------------
(* The log implements WorkDelivery.  Only published messages are settled.  *)
SettledPublished == done \cup dead \subseteq Published

LEMMA MapStutter ==
  ASSUME UNCHANGED <<delivered, verdicts, log, done, dead>>
  PROVE  UNCHANGED Delivery!vars
  BY DEF Delivery!vars, Judged, Exempt, Published

LEMMA MapInit == Init => Delivery!Init
<1> SUFFICES ASSUME Init PROVE Delivery!Init
  OBVIOUS
<1>1. Published = {}
  BY DEF Init, Published, Range
<1>2. Judged("failed") = {} /\ Exempt = {}
  BY DEF Init, WorkerInit, Judged, Exempt
<1> QED
  BY <1>1, <1>2 DEF Init, WorkerInit, Delivery!Init

LEMMA MapPublish ==
  ASSUME IInv, SettledPublished, NEW m \in Messages, Publish(m)
  PROVE  Delivery!Publish(m) /\ SettledPublished'
<1>1. /\ log \in Seq(Messages) /\ log' = Append(log, m) /\ m \notin Published
      /\ UNCHANGED <<delivered, verdicts, done, dead>>
  BY DEF Publish, IInv, TypeOK, workerVars, ghostVars, offsetVars
<1>2. Published' = Published \cup {m}
  <2>1. DOMAIN log = 1 .. Len(log) /\ DOMAIN log' = 1 .. Len(log) + 1
    BY <1>1
  <2>2. log'[Len(log) + 1] = m /\ \A i \in 1 .. Len(log) : log'[i] = log[i]
    BY <1>1
  <2>3. Len(log) \in Nat
    BY <1>1
  <2> QED
    BY <2>1, <2>2, <2>3 DEF Published, Range
<1>3. Judged("failed")' = Judged("failed") /\ Exempt' = Exempt
  BY <1>1 DEF Judged, Exempt
<1> QED
  BY <1>1, <1>2, <1>3 DEF SettledPublished, Delivery!Publish

LEMMA MapAttempt ==
  ASSUME IInv, SettledPublished, NEW w \in Workers, Handle(w)
  PROVE  (\E m \in Messages : Delivery!Attempt(m)) /\ SettledPublished'
<1>1. WInv /\ LogInv /\ HandlerEffect(w) /\ HandlerStep(w) /\ UNCHANGED <<log, done, dead>>
  BY Split, HandlerStepEffect DEF Handle, brokerVars, offsetVars
<1>2. PICK m : m = job[w].msg
  OBVIOUS
<1>3. m \in Messages /\ m \in Published
  <2>1. pc[w] \in Handling /\ Placed(w)
    BY <1>1 DEF HandlerEffect, LogInv
  <2>2. off[w] \in 0 .. Len(log) - 1 /\ m = MsgAt(off[w])
    BY <1>1, <1>2, <2>1 DEF LogInv, LogTypeOK, Offsets, Placed
  <2> QED
    BY <1>1, <2>2, InLog DEF LogInv
<1>4. PICK v \in Verdicts : verdicts' \in {verdicts, verdicts \cup {<<m, v>>}}
  BY <1>1, <1>2, AttemptEffect
<1>5. \A u \in Verdicts : Judged(u)' \in {Judged(u), Judged(u) \cup {m}}
  BY <1>3, <1>4 DEF Judged
<1>6. /\ Judged("failed")' \in {Judged("failed"), Judged("failed") \cup {m}}
      /\ Exempt' \in {Exempt, Exempt \cup {m}}
  BY <1>5 DEF Exempt, Verdicts
<1>7. /\ delivered' \in {delivered, [delivered EXCEPT ![m] = @ + 1]}
      /\ Published' = Published /\ UNCHANGED <<done, dead>>
  BY <1>1, <1>2, AttemptEffect DEF Published
<1>8. (IF m \notin Published THEN "absent" ELSE IF m \in done THEN "done"
       ELSE IF m \in dead THEN "dead" ELSE "queued") # "absent"
  BY <1>3
<1>9. Delivery!Attempt(m)
  BY <1>3, <1>6, <1>7, <1>8 DEF Delivery!Attempt
<1> QED
  BY <1>3, <1>7, <1>9 DEF SettledPublished

(* A commit of an offset is the broker's forgetting of what it passes.     *)
Commits(o) ==
  /\ o \in 0 .. Len(log) - 1 /\ Commit(o) /\ UNCHANGED <<ghostVars, log>>
  /\ \A i \in 0 .. o - 1 : Passed(MsgAt(i))
  /\ MsgAt(o) \notin Malformed => delivered[MsgAt(o)] > 0 \/ MsgAt(o) \in Exempt

LEMMA MapCommit ==
  ASSUME IInv, SettledPublished, NEW o, Commits(o)
  PROVE  /\ \E good, bad \in SUBSET Delivery!Queued : Delivery!Resolve(good, bad)
         /\ SettledPublished'
<1> DEFINE passed == {MsgAt(i) : i \in 0 .. o} \ (done \cup dead)
           good   == {m \in passed : m = MsgAt(o) /\ m \notin Malformed}
           bad    == passed \ good
<1>1. WInv /\ LogInv /\ UNCHANGED <<delivered, verdicts, log>>
  BY Split DEF Commits, ghostVars
<1>2. done' = done \cup good /\ dead' = dead \cup bad
  BY DEF Commits, Commit
<1>3. passed \subseteq Messages /\ passed \subseteq Published
  BY <1>1, InLog DEF Commits, LogInv, LogTypeOK
<1>4. \A m \in good : delivered[m] > 0 \/ m \in Exempt
  BY DEF Commits
<1>5. bad \subseteq Judged("failed") \cup Malformed
  <2> SUFFICES ASSUME NEW m \in bad PROVE m \in Judged("failed") \cup Malformed
    OBVIOUS
  <2>1. PICK i \in 0 .. o : m = MsgAt(i)
    OBVIOUS
  <2>2. CASE i = o
    BY <2>1, <2>2
  <2>3. CASE i \in 0 .. o - 1
    BY <2>1, <2>3 DEF Passed, Commits
  <2> QED
    BY <2>2, <2>3 DEF Commits
<1>6. /\ good \cap (done \cup dead) = {} /\ bad \cap (done \cup dead) = {}
      /\ good \cap bad = {} /\ good \subseteq passed /\ bad \subseteq passed
  OBVIOUS
<1> HIDE DEF passed, good, bad
<1>7. PICK g, b : g = good /\ b = bad
  OBVIOUS
<1>8. g \in SUBSET Delivery!Queued /\ b \in SUBSET Delivery!Queued
  BY <1>3, <1>6, <1>7 DEF Delivery!Queued
<1>9. Published' = Published /\ Judged("failed")' = Judged("failed") /\ Exempt' = Exempt
  BY <1>1 DEF Published, Judged, Exempt
<1>10. Delivery!Resolve(g, b)
  BY <1>1, <1>2, <1>3, <1>4, <1>5, <1>6, <1>7, <1>9 DEF Delivery!Resolve
<1>11. SettledPublished'
  BY <1>2, <1>3, <1>6, <1>9 DEF SettledPublished
<1> QED
  BY <1>8, <1>10, <1>11

(* Every step of a worker or its broker, as the contract sees it.          *)
Traceless == UNCHANGED <<delivered, verdicts, log, done, dead>>

LEMMA FetchSeen ==
  ASSUME IInv, NEW w \in Workers, Fetch(w)
  PROVE  Traceless \/ Commits(pos[w])
<1>1. /\ LogInv /\ pc[w] = "idle" /\ owner = w /\ pos[w] < Len(log) /\ log' = log
      /\ UNCHANGED ghostVars
  BY Split DEF Fetch, Begin
<1>2. CASE UNCHANGED offsetVars
  BY <1>1, <1>2 DEF Traceless, offsetVars, ghostVars
<1>3. CASE Commit(pos[w]) /\ MsgAt(pos[w]) \in Malformed
  <2>1. Placed(w) /\ pc[w] \notin Handling /\ pos[w] \in 0 .. Len(log) - 1
    BY <1>1 DEF LogInv, LogTypeOK, Offsets, Handling, Sending
  <2> QED
    BY <1>1, <1>3, <2>1 DEF Commits, Placed
<1> QED
  BY <1>2, <1>3 DEF Fetch

LEMMA SettleSeen ==
  ASSUME IInv, NEW w \in Workers, SettleErr(w) \/ SettleOK(w)
  PROVE  Traceless \/ Commits(off[w])
<1>1. WInv /\ LogInv /\ pc[w] = "settle" /\ log' = log /\ UNCHANGED ghostVars
  BY Split, EndEffect, DrainEffect, DownEffect DEF SettleErr, SettleOK
<1>2. CASE UNCHANGED offsetVars
  BY <1>1, <1>2 DEF Traceless, offsetVars, ghostVars
<1>3. CASE Commit(off[w]) /\ ~HandlerErred(w)
  BY <1>1, <1>3, Returned DEF Commits
<1> QED
  BY <1>2, <1>3 DEF SettleErr, SettleOK

LEMMA OthersSeen ==
  ASSUME IInv, NEW w \in Workers,
         \/ Start(w) \/ Rebalance(w) \/ ReturnOnSignal(w) \/ Exit(w)
         \/ Environment(w)
  PROVE  Traceless
  BY DEF Start, Boot, Rebalance, ReturnOnSignal, BeginDrain, Exit, Down, Environment,
     Signal, Crash, FetchErr, Traceless, workerVars, brokerVars, offsetVars, ghostVars

LEMMA NoWorker ==
  ASSUME SessionLost \/ BotX \/ UNCHANGED vars
  PROVE  Traceless
  BY DEF SessionLost, BotX, Revoke, CacheExpire, Traceless,
     vars, workerVars, brokerVars, offsetVars, ghostVars

(* The workers on Kafka implement the contract of the asynchronous mode.   *)
THEOREM Refinement == Spec => DeliverySpec
<1>1. Init => Delivery!Init /\ SettledPublished
  BY MapInit DEF Init, SettledPublished
<1>2. ASSUME IInv, SettledPublished, [Next]_vars
      PROVE  [Delivery!Next]_Delivery!vars /\ SettledPublished'
  <2>1. ASSUME Traceless PROVE UNCHANGED Delivery!vars /\ SettledPublished'
    BY <1>2, <2>1, MapStutter DEF Traceless, SettledPublished, Published
  <2>2. ASSUME NEW m \in Messages, Publish(m)
        PROVE  Delivery!Next /\ SettledPublished'
    BY <1>2, <2>2, MapPublish DEF Delivery!Next
  <2>3. ASSUME NEW w \in Workers, Handle(w)
        PROVE  Delivery!Next /\ SettledPublished'
    BY <1>2, <2>3, MapAttempt DEF Delivery!Next
  <2>4. ASSUME NEW o, Commits(o)
        PROVE  Delivery!Next /\ SettledPublished'
    BY <1>2, <2>4, MapCommit DEF Delivery!Next
  <2>5. ASSUME NEW w \in Workers,
               Start(w) \/ Rebalance(w) \/ Step(w) \/ Environment(w)
        PROVE  Traceless \/ Handle(w) \/ \E o : Commits(o)
    BY <1>2, <2>5, FetchSeen, SettleSeen, OthersSeen DEF Step
  <2>6. CASE SessionLost \/ BotX \/ UNCHANGED vars
    BY <2>6, NoWorker, <2>1
  <2> QED
    BY <1>2, <2>1, <2>2, <2>3, <2>4, <2>5, <2>6 DEF Next
<1> QED
  BY <1>1, <1>2, Invariance, PTL DEF Spec, DeliverySpec, Delivery!Spec
=============================================================================
