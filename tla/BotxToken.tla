------------------------------ MODULE BotxToken ------------------------------
(***************************************************************************)
(* The token of one BotX client (botx/client.go): obtained on the first    *)
(* call, obtained anew once when BotX answers 401, by one token request    *)
(* that all callers who need a token wait for.                             *)
(*                                                                         *)
(* A caller makes one API call (do).  It starts at most one token request  *)
(* before its request and one after a 401, so <<caller, second>> names a   *)
(* token request, and also the token it obtains.  A token stays good until *)
(* BotX revokes it.                                                        *)
(***************************************************************************)
EXTENDS Naturals

CONSTANTS Callers,
          None,         \* no token, no token request
          Configured,   \* the token of a client built by NewWithToken
          HasSecret     \* built by New; otherwise by NewWithToken

ASSUME BotxTokenAssumption ==
  /\ HasSecret \in BOOLEAN
  /\ None # Configured
  /\ None \notin Callers \X BOOLEAN
  /\ Configured \notin Callers \X BOOLEAN

TokenCalls == Callers \X BOOLEAN
Tokens     == TokenCalls \cup {None, Configured}

VARIABLES token, gen,   \* c.token, c.gen
          inflight,     \* c.inflight
          calls,        \* the tokenCall values and the phase of their goroutine
          pc,           \* where each caller is in do
          held,         \* its tok, gen and the tokenCall it waits for
          outcome,      \* what its do returned
          cancelled,    \* callers whose context is cancelled
          applied,      \* how often BotX carried out a caller's request
          refused,      \* tokens BotX answered 401 to
          revoked,      \* tokens BotX no longer accepts
          lost          \* callers and token requests BotX failed

clientVars == <<token, gen, inflight, calls>>
callerVars == <<pc, held, outcome>>
botxVars   == <<applied, refused, revoked, lost>>
vars == <<clientVars, callerVars, cancelled, botxVars>>

Phases   == {"unused", "asking", "stored", "closed"}
Waiting  == {"wait", "rewait"}
Sending  == {"send", "resend"}
PCs      == {"idle", "renew", "done"} \cup Waiting \cup Sending
Outcomes == {"none", "answered", "unauthorized", "failed"}

TypeOK ==
  /\ token \in Tokens
  /\ gen \in Nat
  /\ inflight \in TokenCalls \cup {None}
  /\ calls \in [TokenCalls -> [phase : Phases, token : Tokens, gen : Nat, err : BOOLEAN]]
  /\ pc \in [Callers -> PCs]
  /\ held \in [Callers -> [tok : Tokens, gen : Nat, call : TokenCalls \cup {None}]]
  /\ outcome \in [Callers -> Outcomes]
  /\ cancelled \subseteq Callers
  /\ applied \in [Callers -> Nat]
  /\ refused \subseteq Tokens
  /\ revoked \subseteq Tokens
  /\ lost \subseteq Callers \cup TokenCalls

(* New and NewWithToken.                                                   *)
Init ==
  /\ token = IF HasSecret THEN None ELSE Configured
  /\ gen = 0
  /\ inflight = None
  /\ calls = [k \in TokenCalls |->
                [phase |-> "unused", token |-> None, gen |-> 0, err |-> FALSE]]
  /\ pc = [c \in Callers |-> "idle"]
  /\ held = [c \in Callers |-> [tok |-> None, gen |-> 0, call |-> None]]
  /\ outcome = [c \in Callers |-> "none"]
  /\ cancelled = {}
  /\ applied = [c \in Callers |-> 0]
  /\ refused = {}
  /\ revoked = {}
  /\ lost = {}
-----------------------------------------------------------------------------
Goto(c, label) == pc' = [pc EXCEPT ![c] = label] /\ UNCHANGED outcome

Return(c, how) == /\ pc' = [pc EXCEPT ![c] = "done"]
                  /\ outcome' = [outcome EXCEPT ![c] = how]

Hold(c, tok, g) == held' = [held EXCEPT ![c].tok = tok, ![c].gen = g]

(* startTokenCall: join the request in flight or start one.                *)
StartTokenCall(c, second) ==
  LET k == <<c, second>>
  IN \/ /\ inflight # None
        /\ held' = [held EXCEPT ![c].call = inflight]
        /\ UNCHANGED <<inflight, calls>>
     \/ /\ inflight = None
        /\ inflight' = k
        /\ calls' = [calls EXCEPT ![k].phase = "asking"]
        /\ held' = [held EXCEPT ![c].call = k]

(* do: currentToken.                                                       *)
CurrentToken(c) ==
  /\ pc[c] = "idle"
  /\ \/ /\ token # None \/ ~HasSecret
        /\ Hold(c, token, gen)
        /\ Goto(c, "send")
        /\ UNCHANGED <<inflight, calls>>
     \/ /\ token = None /\ HasSecret
        /\ StartTokenCall(c, FALSE)
        /\ Goto(c, "wait")
  /\ UNCHANGED <<token, gen, cancelled, botxVars>>

(* Mutants: the generation is not compared; a 401 is answered with the     *)
(* token the client has.                                                   *)
RenewTokenAlways(c) ==
  /\ pc[c] = "renew"
  /\ StartTokenCall(c, TRUE)
  /\ Goto(c, "rewait")
  /\ UNCHANGED <<token, gen, cancelled, botxVars>>

RenewTokenNever(c) ==
  /\ pc[c] = "renew"
  /\ Hold(c, token, gen)
  /\ Goto(c, "resend")
  /\ UNCHANGED <<token, gen, inflight, calls, cancelled, botxVars>>

(* do after a 401: renewToken, unless another call has replaced the token. *)
RenewToken(c) ==
  /\ pc[c] = "renew"
  /\ \/ /\ gen # held[c].gen
        /\ Hold(c, token, gen)
        /\ Goto(c, "resend")
        /\ UNCHANGED <<inflight, calls>>
     \/ /\ gen = held[c].gen
        /\ StartTokenCall(c, TRUE)
        /\ Goto(c, "rewait")
  /\ UNCHANGED <<token, gen, cancelled, botxVars>>

(* waitToken: the request has been answered, or the caller's own context   *)
(* is cancelled.                                                           *)
WaitToken(c) ==
  LET call == calls[held[c].call]
  IN /\ pc[c] \in Waiting
     /\ \/ /\ call.phase = "closed" /\ ~call.err
           /\ Hold(c, call.token, call.gen)
           /\ Goto(c, IF pc[c] = "wait" THEN "send" ELSE "resend")
        \/ /\ (call.phase = "closed" /\ call.err) \/ c \in cancelled
           /\ Return(c, "failed")
           /\ UNCHANGED held
     /\ UNCHANGED <<clientVars, cancelled, botxVars>>
-----------------------------------------------------------------------------
(* send: BotX's answer, by the token the request carried.                  *)
Answered(c) ==
  /\ held[c].tok \notin revoked
  /\ applied' = [applied EXCEPT ![c] = @ + 1]
  /\ Return(c, "answered")
  /\ UNCHANGED <<refused, lost>>

(* A 401: renew the token once, unless the client has no secret.           *)
Unauthorized(c) ==
  /\ held[c].tok \in revoked
  /\ refused' = refused \cup {held[c].tok}
  /\ \/ pc[c] = "send" /\ HasSecret /\ Goto(c, "renew")
     \/ (pc[c] = "resend" \/ ~HasSecret) /\ Return(c, "unauthorized")
  /\ UNCHANGED <<applied, lost>>

(* No answer: the context is cancelled, the client's timeout has passed or *)
(* the connection broke; BotX may have carried out the request.            *)
SendFailed(c) ==
  /\ \/ c \in cancelled /\ UNCHANGED lost
     \/ lost' = lost \cup {c}
  /\ \/ UNCHANGED applied
     \/ held[c].tok \notin revoked /\ applied' = [applied EXCEPT ![c] = @ + 1]
  /\ Return(c, "failed")
  /\ UNCHANGED refused

Send(c) ==
  /\ pc[c] \in Sending
  /\ Answered(c) \/ Unauthorized(c) \/ SendFailed(c)
  /\ UNCHANGED <<clientVars, held, cancelled, revoked>>
-----------------------------------------------------------------------------
(* The goroutine of a token request; both ends of it hold c.mu.            *)
Store(k, failure) ==
  calls' = [calls EXCEPT ![k] = [phase |-> "stored", token |-> token',
                                 gen |-> gen', err |-> failure]]

TokenObtained(k) ==
  /\ calls[k].phase = "asking"
  /\ token' = k
  /\ gen' = gen + 1
  /\ Store(k, FALSE)
  /\ inflight' = None
  /\ UNCHANGED <<callerVars, cancelled, botxVars>>

(* Mutant: a failed request stays in flight.                              *)
TokenFailedStays(k) ==
  /\ calls[k].phase = "asking"
  /\ UNCHANGED <<token, gen>>
  /\ Store(k, TRUE)
  /\ lost' = lost \cup {k}
  /\ UNCHANGED <<inflight, callerVars, cancelled, applied, refused, revoked>>

(* BotX refused, broke the connection or was silent until the timeout; the *)
(* contexts of the callers do not matter.                                  *)
TokenFailed(k) ==
  /\ calls[k].phase = "asking"
  /\ UNCHANGED <<token, gen>>
  /\ Store(k, TRUE)
  /\ inflight' = None
  /\ lost' = lost \cup {k}
  /\ UNCHANGED <<callerVars, cancelled, applied, refused, revoked>>

(* Mutant: only a successful request wakes its waiters.                    *)
CloseDoneOnSuccess(k) ==
  /\ calls[k].phase = "stored" /\ ~calls[k].err
  /\ calls' = [calls EXCEPT ![k].phase = "closed"]
  /\ UNCHANGED <<token, gen, inflight, callerVars, cancelled, botxVars>>

(* close(call.done), after the unlock.                                     *)
CloseDone(k) ==
  /\ calls[k].phase = "stored"
  /\ calls' = [calls EXCEPT ![k].phase = "closed"]
  /\ UNCHANGED <<token, gen, inflight, callerVars, cancelled, botxVars>>
-----------------------------------------------------------------------------
Cancel(c) ==
  /\ pc[c] # "done" /\ c \notin cancelled
  /\ cancelled' = cancelled \cup {c}
  /\ UNCHANGED <<clientVars, callerVars, botxVars>>

(* BotX stops accepting a token it issued.                                 *)
Revoke(t) ==
  /\ (t = Configured /\ ~HasSecret) \/ (t \in TokenCalls /\ calls[t].token = t)
  /\ t \notin revoked
  /\ revoked' = revoked \cup {t}
  /\ UNCHANGED <<clientVars, callerVars, cancelled, applied, refused, lost>>

CallerStep(c)  == RenewToken(c) \/ WaitToken(c) \/ Send(c)
RequestStep(k) == TokenObtained(k) \/ TokenFailed(k) \/ CloseDone(k)

Next == \/ \E c \in Callers : CurrentToken(c) \/ CallerStep(c) \/ Cancel(c)
        \/ \E k \in TokenCalls : RequestStep(k)
        \/ \E t \in Tokens : Revoke(t)

Spec == Init /\ [][Next]_vars

(* Goroutines run; every request to BotX has a timeout.  BotX need not     *)
(* answer.                                                                 *)
Fairness == /\ \A c \in Callers : WF_vars(CallerStep(c))
            /\ \A k \in TokenCalls : WF_vars(RequestStep(k))

FairSpec == Spec /\ Fairness
-----------------------------------------------------------------------------
(* At most one token request is out, and it is the one new callers join    *)
(* (startTokenCall, the reset of c.inflight under the same lock).          *)
SingleFlight ==
  {k \in TokenCalls : calls[k].phase = "asking"} = {inflight} \ {None}

(* A client asks for a token only without one, or after BotX refused the   *)
(* one it has: late 401s for an older token renew nothing (c.gen).         *)
RenewOnlyRejected ==
  [][inflight' # inflight /\ inflight' # None
     => token = None \/ token \in refused]_vars

(* The request after a 401 carries another token than the refused one.     *)
RetryWithNewToken ==
  [][\A c \in Callers :
       pc[c] \in {"renew", "rewait"} /\ pc'[c] = "resend"
       => held'[c].tok # held[c].tok /\ held'[c].tok # None]_vars

(* BotX carries out a call at most once: "BotX rejected the first one, so  *)
(* repeating it cannot apply a change twice" (do).                         *)
AppliedOnce == \A c \in Callers : applied[c] <= 1

(* A caller fails for its own cancellation or for something BotX did, never*)
(* because another caller gave up (startTokenCall: detached context).      *)
OthersUnharmed ==
  \A c \in Callers : outcome[c] = "failed" => c \in cancelled \/ lost # {}

(* A client built with a token keeps it and asks for no other, whatever    *)
(* BotX answers (NewWithToken: an empty signature).                        *)
StaticKept ==
  ~HasSecret => token = Configured /\ \A k \in TokenCalls : calls[k].phase = "unused"

(* Why comparing generations is enough: each generation has one token, and *)
(* whoever holds a generation holds its token.                             *)
Obtained(k) == calls[k].phase \in {"stored", "closed"} /\ ~calls[k].err

Genuine(t, g) == IF HasSecret
                 THEN t \in TokenCalls /\ Obtained(t) /\ calls[t].gen = g
                 ELSE t = Configured /\ g = 0

PairOK ==
  /\ Genuine(token, gen) \/ (HasSecret /\ token = None /\ gen = 0)
  /\ \A c \in Callers : pc[c] \in Sending \cup {"renew", "rewait"}
                       => Genuine(held[c].tok, held[c].gen)
  /\ \A k \in TokenCalls :
       Obtained(k) => /\ calls[k].token = k /\ calls[k].gen \in 1 .. gen
                      /\ \A j \in TokenCalls :
                           Obtained(j) /\ calls[j].gen = calls[k].gen => j = k

(* What a waiting caller waits for, and that a token request is used once. *)
WaitOK ==
  /\ \A c \in Callers :
       /\ pc[c] = "idle" => calls[<<c, FALSE>>].phase = "unused"
       /\ pc[c] \in {"idle", "wait", "send", "renew"} => calls[<<c, TRUE>>].phase = "unused"
       /\ pc[c] \in Waiting => /\ HasSecret
                              /\ held[c].call \in TokenCalls
                              /\ calls[held[c].call].phase # "unused"
       /\ pc[c] = "rewait" /\ Obtained(held[c].call)
          => calls[held[c].call].gen > held[c].gen
       /\ pc[c] = "renew" => HasSecret
       /\ pc[c] \in {"renew", "rewait"} => held[c].tok \in refused
  /\ ~HasSecret => \A k \in TokenCalls : calls[k].phase = "unused"

FailureOK ==
  /\ \A c \in Callers : pc[c] # "done" => applied[c] = 0 /\ outcome[c] = "none"
  /\ \A k \in TokenCalls : calls[k].err => k \in lost

IInv == /\ TypeOK /\ SingleFlight /\ PairOK /\ WaitOK /\ FailureOK
        /\ AppliedOnce /\ OthersUnharmed /\ StaticKept

(* Every call ends, whatever BotX and the other callers do.                *)
EveryCallEnds == \A c \in Callers : pc[c] # "idle" ~> pc[c] = "done"
=============================================================================
