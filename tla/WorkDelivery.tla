---------------------------- MODULE WorkDelivery ----------------------------
(***************************************************************************)
(* What the asynchronous mode promises, whichever driver carries it: every *)
(* work message handed to the queue stays there until it reached its chat  *)
(* (or no attempt was owed), or until a worker gave it up.  Nothing is     *)
(* promised about duplicates: delivery is at least once.                   *)
(*                                                                         *)
(*   internal/queue/queue.go   the Publisher and Consumer interfaces       *)
(*   internal/cmd/worker.go    handleMessage                               *)
(***************************************************************************)
EXTENDS Naturals

CONSTANTS Messages,
          Malformed    \* bodies that are not JSON of a WorkMessage

VARIABLES fate,        \* where each message is
          reached,     \* how many times it was posted to its chat
          failed,      \* messages some worker gave up
          exempt       \* no send was owed: unknown bot, dry run

vars == <<fate, reached, failed, exempt>>

Fates == {"absent", "queued", "done", "dead"}

TypeOK == /\ fate \in [Messages -> Fates]
          /\ reached \in [Messages -> Nat]
          /\ failed \subseteq Messages
          /\ exempt \subseteq Messages

Init == /\ fate = [m \in Messages |-> "absent"]
        /\ reached = [m \in Messages |-> 0]
        /\ failed = {}
        /\ exempt = {}

Publish(m) == /\ fate[m] = "absent"
              /\ fate' = [fate EXCEPT ![m] = "queued"]
              /\ UNCHANGED <<reached, failed, exempt>>

(* One attempt of some worker: it may reach the chat, it may be given up.  *)
(* A worker cut off from its broker may still be sending a settled message.*)
Attempt(m) == /\ fate[m] # "absent"
              /\ reached' \in {reached, [reached EXCEPT ![m] = @ + 1]}
              /\ failed' \in {failed, failed \cup {m}}
              /\ exempt' \in {exempt, exempt \cup {m}}
              /\ UNCHANGED fate

Queued == {m \in Messages : fate[m] = "queued"}

(* The broker forgets messages: the good ones were posted or owed nothing, *)
(* the bad ones were given up or never readable.                           *)
Resolve(good, bad) ==
  /\ \A m \in good : reached[m] > 0 \/ m \in exempt
  /\ bad \subseteq failed \cup Malformed
  /\ fate' = [m \in Messages |-> IF m \in good THEN "done"
                                 ELSE IF m \in bad THEN "dead" ELSE fate[m]]
  /\ UNCHANGED <<reached, failed, exempt>>

Next == \/ \E m \in Messages : Publish(m) \/ Attempt(m)
        \/ \E good, bad \in SUBSET Queued : Resolve(good, bad)

Spec == Init /\ [][Next]_vars
=============================================================================
