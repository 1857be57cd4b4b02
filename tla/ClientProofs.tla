--------------------------- MODULE ClientProofs ---------------------------
(***************************************************************************)
(* What a command starts from, for any constants: BotxToken, the client's  *)
(* token; ConfigFile, the file all commands share; GitlabHook, the senders *)
(* serve builds from its configuration.  The three share no state.         *)
(*                                                                         *)
(* BotxToken: IInv is an invariant of the client for any number of         *)
(* callers; with it, the two properties about the steps of a renewal.      *)
(*                                                                         *)
(* ConfigFile: what a command makes of the content it read is settled by   *)
(* the pure operators of ConfigContent, one lemma each; an import goes     *)
(* through the listed chats, and import --all through the bots, in folds:  *)
(* what they keep (Imported, Indexed) is proved over the number of entries *)
(* taken, by least counterexample.  ProcessInv, which is FileInv and       *)
(* OnlyWhatWasAsked process by process, then carries it from the read to   *)
(* the write, past whatever other commands do to the file.                 *)
(*                                                                         *)
(* GitlabHook: the folds of the routing engine again over the number of    *)
(* entries taken.  GlobIs says a glob matches what it means although every *)
(* part takes the first place it finds; RoutesPlan, QueryPlan, TargetsPlan *)
(* that each way to choose chats comes to the chats the configuration      *)
(* names, each once, by references of the sender (Routed).  HookInv then   *)
(* says what was posted is of the part of such a plan that is done.        *)
(***************************************************************************)
EXTENDS BotxToken, ConfigFile, GitlabHook, FiniteSetTheorems, SequenceTheorems,
        WellFoundedInduction, TLAPS

(* The client starts with no token of its own or with the configured one.  *)
LEMMA InitOK == Init => IInv
<1> SUFFICES ASSUME Init PROVE IInv
  OBVIOUS
<1>1. TypeOK
  BY BotxTokenAssumption
  DEF Init, TypeOK, Tokens, TokenCalls, Phases, PCs, Waiting, Sending, Outcomes
<1>2. \A c \in Callers : <<c, TRUE>> \in TokenCalls /\ <<c, FALSE>> \in TokenCalls
  BY DEF TokenCalls
<1>3. \A k \in TokenCalls : calls[k].phase = "unused" /\ ~calls[k].err
  BY DEF Init
<1>4. SingleFlight
  BY <1>3 DEF SingleFlight, Init
<1>5. WaitOK
  BY <1>2, <1>3 DEF WaitOK, Waiting, Init
<1>6. FailureOK /\ AppliedOnce /\ OthersUnharmed /\ StaticKept
  BY <1>3 DEF FailureOK, AppliedOnce, OthersUnharmed, StaticKept, Init
<1>7. PairOK
  BY <1>3 DEF PairOK, Genuine, Obtained, Waiting, Sending, Init
<1> QED
  BY <1>1, <1>4, <1>5, <1>6, <1>7 DEF IInv
-----------------------------------------------------------------------------
CallType == [phase : Phases, token : Tokens, gen : Nat, err : BOOLEAN]
HeldType == [tok : Tokens, gen : Nat, call : TokenCalls \cup {None}]

(* A caller that needs a token is attached to the one request that is out, *)
(* and nothing that was obtained changes.                                  *)
LEMMA StartEffect ==
  ASSUME IInv, NEW c \in Callers, NEW second \in BOOLEAN,
         calls[<<c, second>>].phase = "unused", StartTokenCall(c, second)
  PROVE  /\ inflight' \in TokenCalls /\ calls' \in [TokenCalls -> CallType]
         /\ held' \in [Callers -> HeldType]
         /\ \A d \in Callers \ {c} : held'[d] = held[d]
         /\ held'[c].tok = held[c].tok /\ held'[c].gen = held[c].gen
         /\ held'[c].call = inflight'
         /\ SingleFlight'
         /\ \A k \in TokenCalls \ {<<c, second>>} : calls'[k] = calls[k]
         /\ \A k \in TokenCalls : /\ calls'[k].token = calls[k].token
                                  /\ calls'[k].gen = calls[k].gen
                                  /\ calls'[k].err = calls[k].err
                                  /\ Obtained(k)' <=> Obtained(k)
         /\ calls'[inflight'].phase = "asking"
<1> DEFINE k0 == <<c, second>>
<1>1. /\ k0 \in TokenCalls
      /\ calls \in [TokenCalls -> CallType] /\ held \in [Callers -> HeldType]
      /\ inflight \in TokenCalls \cup {None} /\ None \notin TokenCalls
  BY BotxTokenAssumption DEF IInv, TypeOK, TokenCalls, CallType, HeldType
<1>2. {k \in TokenCalls : calls[k].phase = "asking"} = {inflight} \ {None}
  BY DEF IInv, SingleFlight
<1>3. calls[k0].phase = "unused"
  OBVIOUS
<1>4. CASE /\ inflight # None
           /\ held' = [held EXCEPT ![c].call = inflight]
           /\ UNCHANGED <<inflight, calls>>
  BY <1>1, <1>2, <1>4 DEF SingleFlight, Obtained, HeldType
<1>5. CASE /\ inflight = None /\ inflight' = k0
           /\ calls' = [calls EXCEPT ![k0].phase = "asking"]
           /\ held' = [held EXCEPT ![c].call = k0]
  <2> HIDE DEF k0
  <2>1. [calls[k0] EXCEPT !.phase = "asking"] \in CallType
    BY <1>1 DEF CallType, Phases
  <2>2. /\ calls'[k0].phase = "asking" /\ calls'[k0].token = calls[k0].token
        /\ calls'[k0].gen = calls[k0].gen /\ calls'[k0].err = calls[k0].err
    BY <1>1, <1>5 DEF CallType
  <2>3. \A k \in TokenCalls \ {k0} : calls'[k] = calls[k]
    BY <1>1, <1>5
  <2>4. calls' \in [TokenCalls -> CallType]
    BY <1>1, <1>5, <2>1
  <2>5. [held[c] EXCEPT !.call = k0] \in HeldType
    BY <1>1 DEF HeldType
  <2>6. /\ held' \in [Callers -> HeldType] /\ held'[c].call = k0
        /\ held'[c].tok = held[c].tok /\ held'[c].gen = held[c].gen
        /\ \A d \in Callers \ {c} : held'[d] = held[d]
    BY <1>1, <1>5, <2>5 DEF HeldType
  <2>7. SingleFlight'
    BY <1>1, <1>2, <1>5, <2>2, <2>3 DEF SingleFlight
  <2>8. \A k \in TokenCalls : /\ calls'[k].token = calls[k].token
                              /\ calls'[k].gen = calls[k].gen
                              /\ calls'[k].err = calls[k].err
                              /\ Obtained(k)' <=> Obtained(k)
    BY <1>3, <2>2, <2>3 DEF Obtained
  <2> QED
    BY <1>1, <1>5, <2>2, <2>3, <2>4, <2>6, <2>7, <2>8 DEF k0
<1> QED
  BY <1>4, <1>5 DEF StartTokenCall
-----------------------------------------------------------------------------
(* The part of IInv that is about one caller.                              *)
CallerOK(c) ==
  /\ pc[c] \in Sending \cup {"renew", "rewait"} => Genuine(held[c].tok, held[c].gen)
  /\ pc[c] = "idle" => calls[<<c, FALSE>>].phase = "unused"
  /\ pc[c] \in {"idle", "wait", "send", "renew"} => calls[<<c, TRUE>>].phase = "unused"
  /\ pc[c] \in Waiting => /\ HasSecret
                         /\ held[c].call \in TokenCalls
                         /\ calls[held[c].call].phase # "unused"
  /\ pc[c] = "rewait" /\ Obtained(held[c].call)
     => calls[held[c].call].gen > held[c].gen
  /\ pc[c] = "renew" => HasSecret
  /\ pc[c] \in {"renew", "rewait"} => held[c].tok \in refused
  /\ pc[c] # "done" => applied[c] = 0 /\ outcome[c] = "none"
  /\ applied[c] <= 1
  /\ outcome[c] = "failed" => c \in cancelled \/ lost # {}

(* What a step of caller c leaves alone.                                   *)
CallerFrame(c) ==
  /\ token' = token /\ gen' = gen
  /\ inflight' \in TokenCalls \cup {None} /\ calls' \in [TokenCalls -> CallType]
  /\ SingleFlight'
  /\ \A k \in TokenCalls :
       /\ calls'[k].token = calls[k].token /\ calls'[k].gen = calls[k].gen
       /\ calls'[k].err = calls[k].err /\ (Obtained(k)' <=> Obtained(k))
       /\ calls[k].phase # "unused" => calls'[k].phase # "unused"
       /\ k \notin {<<c, TRUE>>, <<c, FALSE>>} => calls'[k] = calls[k]
  /\ HasSecret \/ calls' = calls
  /\ held' \in [Callers -> HeldType] /\ pc' \in [Callers -> PCs]
  /\ outcome' \in [Callers -> Outcomes] /\ applied' \in [Callers -> Nat]
  /\ \A d \in Callers \ {c} : /\ pc'[d] = pc[d] /\ held'[d] = held[d]
                              /\ outcome'[d] = outcome[d] /\ applied'[d] = applied[d]
  /\ cancelled \subseteq cancelled' /\ cancelled' \subseteq Callers
  /\ refused \subseteq refused' /\ refused' \subseteq Tokens
  /\ lost \subseteq lost' /\ lost' \subseteq Callers \cup TokenCalls
  /\ revoked' \subseteq Tokens

LEMMA CallerSuffices ==
  ASSUME IInv, NEW c \in Callers, CallerFrame(c), CallerOK(c)'
  PROVE  IInv'
<1>1. TypeOK' /\ SingleFlight'
  BY DEF IInv, TypeOK, CallerFrame, CallType, HeldType
<1>2. \A t \in Tokens, g \in Nat : Genuine(t, g)' <=> Genuine(t, g)
  BY DEF CallerFrame, Genuine
<1>3. token \in Tokens /\ gen \in Nat /\ \A d \in Callers : held[d] \in HeldType
  BY DEF IInv, TypeOK, HeldType
<1>4. ASSUME NEW d \in Callers \ {c} PROVE CallerOK(d)'
  <2>1. CallerOK(d)
    BY DEF IInv, PairOK, WaitOK, FailureOK, AppliedOnce, OthersUnharmed, CallerOK
  <2>2. /\ pc'[d] = pc[d] /\ held'[d] = held[d]
        /\ outcome'[d] = outcome[d] /\ applied'[d] = applied[d]
    BY DEF CallerFrame
  <2>3. /\ calls'[<<d, TRUE>>] = calls[<<d, TRUE>>]
        /\ calls'[<<d, FALSE>>] = calls[<<d, FALSE>>]
    BY DEF CallerFrame, TokenCalls
  <2>4. held[d].tok \in Tokens /\ held[d].gen \in Nat
    BY <1>3 DEF HeldType
  <2>5. Genuine(held[d].tok, held[d].gen) => Genuine(held[d].tok, held[d].gen)'
    BY <1>2, <2>2, <2>4
  <2>6. pc[d] \in Waiting => /\ calls'[held[d].call].phase # "unused"
                             /\ calls'[held[d].call].gen = calls[held[d].call].gen
                             /\ Obtained(held[d].call)' => Obtained(held[d].call)
    BY <2>1, <2>2 DEF CallerFrame, CallerOK
  <2>7. /\ refused \subseteq refused' /\ lost \subseteq lost' /\ cancelled \subseteq cancelled'
    BY DEF CallerFrame
  <2> QED
    BY <2>1, <2>2, <2>3, <2>5, <2>6, <2>7 DEF CallerOK, Waiting
<1>5. \A d \in Callers : CallerOK(d)'
  BY <1>4
<1>6. PairOK'
  <2>1. Genuine(token, gen)' \/ (HasSecret /\ token' = None /\ gen' = 0)
    BY <1>2, <1>3 DEF IInv, PairOK, CallerFrame
  <2>2. \A k \in TokenCalls :
          Obtained(k)' => /\ calls'[k].token = k /\ calls'[k].gen \in 1 .. gen'
                          /\ \A j \in TokenCalls :
                               Obtained(j)' /\ calls'[j].gen = calls'[k].gen => j = k
    <3>1. \A k \in TokenCalls :
            /\ calls'[k].token = calls[k].token /\ calls'[k].gen = calls[k].gen
            /\ Obtained(k)' => Obtained(k)
      BY DEF CallerFrame
    <3>2. \A k \in TokenCalls :
            Obtained(k) => /\ calls[k].token = k /\ calls[k].gen \in 1 .. gen
                           /\ \A j \in TokenCalls :
                                Obtained(j) /\ calls[j].gen = calls[k].gen => j = k
      BY DEF IInv, PairOK
    <3>3. gen' = gen
      BY DEF CallerFrame
    <3> QED
      BY <3>1, <3>2, <3>3
  <2> QED
    BY <1>5, <2>1, <2>2 DEF PairOK, CallerOK
<1>7. ~HasSecret => token' = Configured /\ \A k \in TokenCalls : calls'[k].phase = "unused"
  BY DEF IInv, StaticKept, CallerFrame
<1>8. WaitOK' /\ StaticKept'
  BY <1>5, <1>7 DEF WaitOK, StaticKept, CallerOK
<1>9. FailureOK' /\ AppliedOnce' /\ OthersUnharmed'
  BY <1>5 DEF FailureOK, AppliedOnce, OthersUnharmed, CallerOK, CallerFrame, IInv
<1> QED
  BY <1>1, <1>6, <1>8, <1>9 DEF IInv
-----------------------------------------------------------------------------
(* A step of caller c that starts no token request leaves these alone.     *)
QuietFrame(c) ==
  /\ UNCHANGED clientVars
  /\ held' \in [Callers -> HeldType] /\ pc' \in [Callers -> PCs]
  /\ outcome' \in [Callers -> Outcomes] /\ applied' \in [Callers -> Nat]
  /\ \A d \in Callers \ {c} : /\ pc'[d] = pc[d] /\ held'[d] = held[d]
                              /\ outcome'[d] = outcome[d] /\ applied'[d] = applied[d]
  /\ cancelled \subseteq cancelled' /\ cancelled' \subseteq Callers
  /\ refused \subseteq refused' /\ refused' \subseteq Tokens
  /\ lost \subseteq lost' /\ lost' \subseteq Callers \cup TokenCalls
  /\ revoked' \subseteq Tokens

LEMMA QuietIsFrame ==
  ASSUME IInv, NEW c \in Callers, QuietFrame(c)
  PROVE  CallerFrame(c)
<1>1. SingleFlight' /\ \A k \in TokenCalls : Obtained(k)' <=> Obtained(k)
  BY DEF IInv, SingleFlight, Obtained, QuietFrame, clientVars
<1> QED
  BY <1>1 DEF IInv, TypeOK, QuietFrame, CallerFrame, clientVars, CallType

LEMMA StartIsFrame ==
  ASSUME IInv, NEW c \in Callers, NEW second \in BOOLEAN, NEW label \in PCs, HasSecret,
         calls[<<c, second>>].phase = "unused", StartTokenCall(c, second),
         Goto(c, label), UNCHANGED <<token, gen, cancelled, botxVars>>
  PROVE  CallerFrame(c)
<1>1. /\ pc \in [Callers -> PCs] /\ outcome \in [Callers -> Outcomes]
      /\ applied \in [Callers -> Nat]
      /\ cancelled \subseteq Callers /\ refused \subseteq Tokens
      /\ revoked \subseteq Tokens /\ lost \subseteq Callers \cup TokenCalls
  BY DEF IInv, TypeOK
<1>2. /\ inflight' \in TokenCalls /\ calls' \in [TokenCalls -> CallType]
      /\ held' \in [Callers -> HeldType] /\ SingleFlight'
      /\ \A d \in Callers \ {c} : held'[d] = held[d]
  BY StartEffect
<1>3. \A k \in TokenCalls : /\ calls'[k].token = calls[k].token
                            /\ calls'[k].gen = calls[k].gen
                            /\ calls'[k].err = calls[k].err
                            /\ Obtained(k)' <=> Obtained(k)
  BY StartEffect
<1>4. \A k \in TokenCalls :
        /\ calls[k].phase # "unused" => calls'[k].phase # "unused"
        /\ k \notin {<<c, TRUE>>, <<c, FALSE>>} => calls'[k] = calls[k]
  BY StartEffect
<1>5. /\ pc' \in [Callers -> PCs] /\ outcome' = outcome
      /\ \A d \in Callers \ {c} : pc'[d] = pc[d]
  BY <1>1 DEF Goto
<1>6. UNCHANGED <<token, gen, cancelled, applied, refused, revoked, lost>>
  BY DEF botxVars
<1> QED
  BY <1>1, <1>2, <1>3, <1>4, <1>5, <1>6 DEF CallerFrame

LEMMA HoldEffect ==
  ASSUME IInv, NEW c \in Callers, NEW t \in Tokens, NEW g \in Nat, Hold(c, t, g)
  PROVE  /\ held' \in [Callers -> HeldType]
         /\ held'[c].tok = t /\ held'[c].gen = g /\ held'[c].call = held[c].call
         /\ \A d \in Callers \ {c} : held'[d] = held[d]
<1>1. held \in [Callers -> HeldType]
  BY DEF IInv, TypeOK, HeldType
<1> DEFINE h == [held[c] EXCEPT !.tok = t, !.gen = g]
<1>2. h \in HeldType /\ h.tok = t /\ h.gen = g /\ h.call = held[c].call
  BY <1>1 DEF HeldType
<1>3. held' = [held EXCEPT ![c] = h]
  BY <1>1 DEF Hold, HeldType
<1> HIDE DEF h
<1> QED
  BY <1>1, <1>2, <1>3

(* The pair a client has is genuine whenever the client has a token.       *)
LEMMA HasToken ==
  ASSUME IInv, token # None \/ ~HasSecret
  PROVE  Genuine(token, gen)
  BY DEF IInv, PairOK

LEMMA OneCaller ==
  ASSUME IInv, NEW c \in Callers
  PROVE  CallerOK(c)
  BY DEF IInv, PairOK, WaitOK, FailureOK, AppliedOnce, OthersUnharmed, CallerOK

LEMMA CurrentTokenOK ==
  ASSUME IInv, NEW c \in Callers, CurrentToken(c)
  PROVE  IInv'
<1>1. /\ pc \in [Callers -> PCs] /\ outcome \in [Callers -> Outcomes]
      /\ held \in [Callers -> HeldType] /\ applied \in [Callers -> Nat]
      /\ cancelled \subseteq Callers /\ refused \subseteq Tokens
      /\ revoked \subseteq Tokens /\ lost \subseteq Callers \cup TokenCalls
      /\ token \in Tokens /\ gen \in Nat
  BY DEF IInv, TypeOK, HeldType
<1>2. CallerOK(c)
  BY OneCaller
<1>3. /\ pc[c] = "idle" /\ UNCHANGED <<token, gen, cancelled, botxVars>>
  BY DEF CurrentToken
<1>4. CASE /\ token # None \/ ~HasSecret
           /\ Hold(c, token, gen) /\ Goto(c, "send") /\ UNCHANGED <<inflight, calls>>
  <2>1. /\ held' \in [Callers -> HeldType]
        /\ held'[c].tok = token /\ held'[c].gen = gen /\ held'[c].call = held[c].call
        /\ \A d \in Callers \ {c} : held'[d] = held[d]
    BY <1>1, <1>4, HoldEffect
  <2>2. pc' = [pc EXCEPT ![c] = "send"] /\ outcome' = outcome
    BY <1>4 DEF Goto
  <2>3. QuietFrame(c)
    BY <1>1, <1>3, <1>4, <2>1, <2>2 DEF QuietFrame, clientVars, botxVars, PCs, Sending
  <2>4. Genuine(token, gen)'
    BY <1>3, <1>4, HasToken DEF Genuine, Obtained
  <2>5. Genuine(held[c].tok, held[c].gen)'
    BY <1>3, <2>1, <2>4
  <2>6. CallerOK(c)'
    BY <1>1, <1>2, <1>3, <1>4, <2>1, <2>2, <2>5 DEF CallerOK, botxVars, Waiting, Sending
  <2> QED
    BY <2>3, <2>6, QuietIsFrame, CallerSuffices
<1>5. CASE /\ token = None /\ HasSecret
           /\ StartTokenCall(c, FALSE) /\ Goto(c, "wait")
  <2>1. pc' = [pc EXCEPT ![c] = "wait"] /\ outcome' = outcome
    BY <1>5 DEF Goto
  <2>2. calls[<<c, FALSE>>].phase = "unused" /\ calls[<<c, TRUE>>].phase = "unused"
    BY <1>2, <1>3 DEF CallerOK
  <2>3. /\ inflight' \in TokenCalls /\ held'[c].call = inflight'
        /\ calls'[inflight'].phase = "asking"
        /\ \A k \in TokenCalls \ {<<c, FALSE>>} : calls'[k] = calls[k]
    BY <1>5, <2>2, StartEffect
  <2>4. CallerFrame(c)
    BY <1>3, <1>5, <2>2, StartIsFrame DEF PCs, Waiting
  <2>5. CallerOK(c)'
    <3>1. pc'[c] = "wait" /\ calls'[<<c, TRUE>>].phase = "unused"
      BY <1>1, <2>1, <2>2, <2>3 DEF TokenCalls
    <3>2. applied'[c] = 0 /\ outcome'[c] = "none"
      BY <1>2, <1>3, <2>1 DEF CallerOK, botxVars
    <3> QED
      BY <1>5, <2>3, <3>1, <3>2 DEF CallerOK, Waiting, Sending
  <2> QED
    BY <2>4, <2>5, CallerSuffices
<1> QED
  BY <1>4, <1>5 DEF CurrentToken

(* What RenewToken and WaitToken do to the caller's pair: the lemmas the   *)
(* action properties rest on, too.                                         *)
LEMMA NewerDiffers ==
  ASSUME IInv, NEW t \in Tokens, NEW g \in Nat, NEW u \in Tokens, NEW h \in Nat,
         HasSecret, Genuine(t, g), Genuine(u, h)
  PROVE  g = h <=> t = u
  BY DEF IInv, PairOK, Genuine

LEMMA RenewedPair ==
  ASSUME IInv, NEW t \in Tokens, NEW g \in Nat, HasSecret, Genuine(t, g)
  PROVE  Genuine(token, gen)
  BY DEF IInv, PairOK, Genuine

LEMMA RenewTokenOK ==
  ASSUME IInv, NEW c \in Callers, RenewToken(c)
  PROVE  IInv'
<1>1. /\ pc \in [Callers -> PCs] /\ outcome \in [Callers -> Outcomes]
      /\ held \in [Callers -> HeldType] /\ applied \in [Callers -> Nat]
      /\ cancelled \subseteq Callers /\ refused \subseteq Tokens
      /\ revoked \subseteq Tokens /\ lost \subseteq Callers \cup TokenCalls
      /\ token \in Tokens /\ gen \in Nat
  BY DEF IInv, TypeOK, HeldType
<1>2. CallerOK(c)
  BY OneCaller
<1>3. pc[c] = "renew" /\ UNCHANGED <<token, gen, cancelled, botxVars>>
  BY DEF RenewToken
<1>4. HasSecret /\ Genuine(held[c].tok, held[c].gen) /\ held[c].tok \in refused
  BY <1>2, <1>3 DEF CallerOK
<1>5. CASE /\ gen # held[c].gen
           /\ Hold(c, token, gen) /\ Goto(c, "resend") /\ UNCHANGED <<inflight, calls>>
  <2>1. /\ held' \in [Callers -> HeldType]
        /\ held'[c].tok = token /\ held'[c].gen = gen /\ held'[c].call = held[c].call
        /\ \A d \in Callers \ {c} : held'[d] = held[d]
    BY <1>1, <1>5, HoldEffect
  <2>2. pc' = [pc EXCEPT ![c] = "resend"] /\ outcome' = outcome
    BY <1>5 DEF Goto
  <2>3. QuietFrame(c)
    BY <1>1, <1>3, <1>5, <2>1, <2>2 DEF QuietFrame, clientVars, botxVars, PCs, Sending
  <2>4. Genuine(token, gen)
    BY <1>1, <1>4, RenewedPair DEF HeldType
  <2>5. Genuine(held[c].tok, held[c].gen)'
    BY <1>3, <1>5, <2>1, <2>4 DEF Genuine, Obtained
  <2>6. CallerOK(c)'
    BY <1>1, <1>2, <1>3, <1>5, <2>1, <2>2, <2>5 DEF CallerOK, botxVars, Waiting, Sending
  <2> QED
    BY <2>3, <2>6, QuietIsFrame, CallerSuffices
<1>6. CASE /\ gen = held[c].gen
           /\ StartTokenCall(c, TRUE) /\ Goto(c, "rewait")
  <2>1. pc' = [pc EXCEPT ![c] = "rewait"] /\ outcome' = outcome
    BY <1>6 DEF Goto
  <2>2. calls[<<c, TRUE>>].phase = "unused"
    BY <1>2, <1>3 DEF CallerOK
  <2>3. /\ inflight' \in TokenCalls /\ held'[c].call = inflight'
        /\ calls'[inflight'].phase = "asking"
        /\ held'[c].tok = held[c].tok /\ held'[c].gen = held[c].gen
        /\ \A k \in TokenCalls : /\ Obtained(k)' <=> Obtained(k)
                                 /\ calls'[k].gen = calls[k].gen
    BY <1>6, <2>2, StartEffect
  <2>4. CallerFrame(c)
    BY <1>3, <1>4, <1>6, <2>2, StartIsFrame DEF PCs, Waiting
  <2>5. CallerOK(c)'
    <3>1. pc'[c] = "rewait"
      BY <1>1, <2>1
    <3>2. applied'[c] = 0 /\ outcome'[c] = "none" /\ held'[c].tok \in refused'
      BY <1>2, <1>3, <1>4, <2>1, <2>3 DEF CallerOK, botxVars
    <3>3. Genuine(held[c].tok, held[c].gen)'
      BY <1>4, <2>3 DEF Genuine
    <3>4. ~Obtained(held[c].call)'
      BY <2>3 DEF Obtained
    <3> QED
      BY <1>4, <2>3, <3>1, <3>2, <3>3, <3>4 DEF CallerOK, Waiting, Sending
  <2> QED
    BY <2>4, <2>5, CallerSuffices
<1> QED
  BY <1>5, <1>6 DEF RenewToken

LEMMA WaitTokenOK ==
  ASSUME IInv, NEW c \in Callers, WaitToken(c)
  PROVE  IInv'
<1>1. /\ pc \in [Callers -> PCs] /\ outcome \in [Callers -> Outcomes]
      /\ held \in [Callers -> HeldType] /\ applied \in [Callers -> Nat]
      /\ cancelled \subseteq Callers /\ refused \subseteq Tokens
      /\ revoked \subseteq Tokens /\ lost \subseteq Callers \cup TokenCalls
      /\ calls \in [TokenCalls -> CallType]
  BY DEF IInv, TypeOK, HeldType, CallType
<1>2. CallerOK(c)
  BY OneCaller
<1>3. pc[c] \in Waiting /\ UNCHANGED <<clientVars, cancelled, botxVars>>
  BY DEF WaitToken
<1>4. HasSecret /\ held[c].call \in TokenCalls /\ applied[c] = 0 /\ outcome[c] = "none"
  BY <1>2, <1>3 DEF CallerOK, Waiting
<1> DEFINE k == held[c].call
<1>5. CASE /\ calls[k].phase = "closed" /\ ~calls[k].err
           /\ Hold(c, calls[k].token, calls[k].gen)
           /\ Goto(c, IF pc[c] = "wait" THEN "send" ELSE "resend")
  <2> DEFINE label == IF pc[c] = "wait" THEN "send" ELSE "resend"
  <2>1. calls[k].token \in Tokens /\ calls[k].gen \in Nat
    BY <1>1, <1>4 DEF CallType
  <2>2. /\ held' \in [Callers -> HeldType]
        /\ held'[c].tok = calls[k].token /\ held'[c].gen = calls[k].gen
        /\ \A d \in Callers \ {c} : held'[d] = held[d]
    BY <1>5, <2>1, HoldEffect
  <2>3. pc' = [pc EXCEPT ![c] = label] /\ outcome' = outcome
    BY <1>5 DEF Goto
  <2>4. label \in PCs /\ label \in Sending
    BY DEF PCs, Sending
  <2>5. QuietFrame(c)
    BY <1>1, <1>3, <2>2, <2>3, <2>4 DEF QuietFrame, clientVars, botxVars
  <2>6. Genuine(calls[k].token, calls[k].gen)
    BY <1>4, <1>5 DEF IInv, PairOK, Obtained, Genuine
  <2>7. Genuine(held[c].tok, held[c].gen)'
    BY <1>3, <2>2, <2>6 DEF Genuine, Obtained, clientVars
  <2>8. pc[c] = "wait" => calls'[<<c, TRUE>>].phase = "unused"
    BY <1>2, <1>3 DEF CallerOK, clientVars
  <2>9. /\ pc'[c] \in Sending /\ (pc'[c] = "send" => pc[c] = "wait")
        /\ applied'[c] = 0 /\ outcome'[c] = "none"
    BY <1>1, <1>3, <1>4, <2>3, <2>4 DEF botxVars
  <2> QED
    <3>1. CallerOK(c)'
      BY <2>7, <2>8, <2>9 DEF CallerOK, Waiting, Sending
    <3> QED
      BY <2>5, <3>1, QuietIsFrame, CallerSuffices
<1>6. CASE /\ (calls[k].phase = "closed" /\ calls[k].err) \/ c \in cancelled
           /\ Return(c, "failed") /\ UNCHANGED held
  <2>1. /\ pc' = [pc EXCEPT ![c] = "done"] /\ outcome' = [outcome EXCEPT ![c] = "failed"]
    BY <1>6 DEF Return
  <2>2. QuietFrame(c)
    BY <1>1, <1>3, <1>6, <2>1 DEF QuietFrame, clientVars, botxVars, PCs, Outcomes
  <2>3. c \in cancelled' \/ lost' # {}
    BY <1>3, <1>4, <1>6 DEF IInv, FailureOK, botxVars
  <2>4. CallerOK(c)'
    BY <1>1, <1>3, <1>4, <2>1, <2>3 DEF CallerOK, botxVars, Waiting, Sending
  <2> QED
    BY <2>2, <2>4, QuietIsFrame, CallerSuffices
<1> QED
  BY <1>5, <1>6 DEF WaitToken

LEMMA SendOK ==
  ASSUME IInv, NEW c \in Callers, Send(c)
  PROVE  IInv'
<1>1. /\ pc \in [Callers -> PCs] /\ outcome \in [Callers -> Outcomes]
      /\ held \in [Callers -> HeldType] /\ applied \in [Callers -> Nat]
      /\ cancelled \subseteq Callers /\ refused \subseteq Tokens
      /\ revoked \subseteq Tokens /\ lost \subseteq Callers \cup TokenCalls
  BY DEF IInv, TypeOK, HeldType
<1>2. CallerOK(c)
  BY OneCaller
<1>3. pc[c] \in Sending /\ UNCHANGED <<clientVars, held, cancelled, revoked>>
  BY DEF Send
<1>4. applied[c] = 0 /\ outcome[c] = "none" /\ Genuine(held[c].tok, held[c].gen)
  BY <1>2, <1>3 DEF CallerOK, Sending
<1>5. Genuine(held[c].tok, held[c].gen)'
  BY <1>3, <1>4 DEF Genuine, Obtained, clientVars
<1>6. held[c].tok \in Tokens
  BY <1>1 DEF HeldType
<1>7. CASE Answered(c)
  <2>1. QuietFrame(c) /\ pc'[c] = "done" /\ applied'[c] = 1 /\ outcome'[c] = "answered"
    BY <1>1, <1>3, <1>4, <1>7 DEF Answered, Return, QuietFrame, PCs, Outcomes
  <2>2. CallerOK(c)'
    BY <2>1 DEF CallerOK, Waiting, Sending
  <2> QED
    BY <2>1, <2>2, QuietIsFrame, CallerSuffices
<1>8. CASE Unauthorized(c)
  <2>1. QuietFrame(c) /\ applied'[c] = 0 /\ held'[c].tok \in refused'
    BY <1>1, <1>3, <1>4, <1>6, <1>8
    DEF Unauthorized, Goto, Return, QuietFrame, PCs, Outcomes
  <2>2. CASE pc[c] = "send" /\ HasSecret /\ Goto(c, "renew")
    <3>1. /\ pc'[c] = "renew" /\ outcome'[c] = "none"
          /\ calls'[<<c, TRUE>>].phase = "unused"
      BY <1>1, <1>2, <1>3, <1>4, <2>2 DEF Goto, CallerOK, clientVars
    <3>2. CallerOK(c)'
      BY <1>5, <2>1, <2>2, <3>1 DEF CallerOK, Waiting, Sending
    <3> QED
      BY <2>1, <3>2, QuietIsFrame, CallerSuffices
  <2>3. CASE Return(c, "unauthorized")
    <3>1. pc'[c] = "done" /\ outcome'[c] = "unauthorized"
      BY <1>1, <2>3 DEF Return
    <3>2. CallerOK(c)'
      BY <2>1, <3>1 DEF CallerOK, Waiting, Sending
    <3> QED
      BY <2>1, <3>2, QuietIsFrame, CallerSuffices
  <2> QED
    BY <1>8, <2>2, <2>3 DEF Unauthorized
<1>9. CASE SendFailed(c)
  <2>1. QuietFrame(c) /\ pc'[c] = "done" /\ applied'[c] \in {0, 1} /\ outcome'[c] = "failed"
    BY <1>1, <1>3, <1>4, <1>9 DEF SendFailed, Return, QuietFrame, PCs, Outcomes
  <2>2. c \in cancelled' \/ lost' # {}
    BY <1>3, <1>9 DEF SendFailed
  <2>3. CallerOK(c)'
    BY <2>1, <2>2 DEF CallerOK, Waiting, Sending
  <2> QED
    BY <2>1, <2>3, QuietIsFrame, CallerSuffices
<1> QED
  BY <1>7, <1>8, <1>9 DEF Send

LEMMA CancelOK ==
  ASSUME IInv, NEW c \in Callers, Cancel(c)
  PROVE  IInv'
<1>1. QuietFrame(c)
  BY DEF IInv, TypeOK, HeldType, Cancel, callerVars, botxVars, QuietFrame
<1>2. CallerOK(c)
  BY OneCaller
<1>3. CallerOK(c)'
  BY <1>2 DEF Cancel, CallerOK, Genuine, Obtained, clientVars, callerVars, botxVars
<1> QED
  BY <1>1, <1>3, QuietIsFrame, CallerSuffices
-----------------------------------------------------------------------------
(* The goroutine of a token request moves no caller.                       *)
RequestFrame(k) ==
  /\ UNCHANGED <<callerVars, cancelled, applied, refused, revoked>>
  /\ lost \subseteq lost' /\ lost' \subseteq Callers \cup TokenCalls
  /\ calls' \in [TokenCalls -> CallType]
  /\ \A j \in TokenCalls \ {k} : calls'[j] = calls[j]
  /\ calls[k].phase # "unused" /\ calls'[k].phase # "unused"
  /\ calls'[k].err => k \in lost'

(* Obtained tokens and the client's pair stay as they are, or k's token is *)
(* the next generation.                                                    *)
Kept(k)     == /\ UNCHANGED <<token, gen>>
               /\ Obtained(k)' <=> Obtained(k)
               /\ Obtained(k) => calls'[k].token = calls[k].token /\ calls'[k].gen = calls[k].gen
Replaced(k) == /\ ~Obtained(k) /\ Obtained(k)'
               /\ token' = k /\ gen' = gen + 1
               /\ calls'[k].token = k /\ calls'[k].gen = gen + 1

LEMMA RequestSuffices ==
  ASSUME IInv, NEW k \in TokenCalls, RequestFrame(k), Kept(k) \/ Replaced(k),
         inflight' \in TokenCalls \cup {None}, SingleFlight'
  PROVE  IInv'
<1>1. /\ HasSecret /\ token \in Tokens /\ gen \in Nat
      /\ \A c \in Callers : held[c] \in HeldType
  BY DEF IInv, TypeOK, HeldType, WaitOK, RequestFrame
<1>2. /\ pc' = pc /\ held' = held /\ outcome' = outcome /\ cancelled' = cancelled
      /\ applied' = applied /\ refused' = refused /\ revoked' = revoked
      /\ lost \subseteq lost'
  BY DEF RequestFrame, callerVars
<1>3. TypeOK'
  BY <1>2 DEF IInv, TypeOK, RequestFrame, Kept, Replaced, Tokens, CallType
<1>4. \A j \in TokenCalls \ {k} : /\ calls'[j] = calls[j]
                                  /\ Obtained(j)' <=> Obtained(j)
  BY DEF RequestFrame, Obtained
<1>5. /\ \A j \in TokenCalls :
           Obtained(j) => /\ Obtained(j)' /\ calls[j].token = j /\ calls[j].gen \in 1 .. gen
                          /\ calls'[j].token = j /\ calls'[j].gen = calls[j].gen
      /\ \A j, i \in TokenCalls :
           Obtained(j) /\ Obtained(i) /\ calls[j].gen = calls[i].gen => j = i
  BY <1>4 DEF IInv, PairOK, Kept, Replaced
<1>6. \A t \in Tokens, g \in Nat : Genuine(t, g) => Genuine(t, g)'
  BY <1>1, <1>5 DEF Genuine
<1>7. \A j \in TokenCalls :
        Obtained(j)' => \/ Obtained(j)
                        \/ j = k /\ Replaced(k)
  BY <1>4 DEF Kept
<1>8. PairOK'
  <2>1. Genuine(token, gen)' \/ (HasSecret /\ token' = None /\ gen' = 0)
    <3>1. CASE Kept(k)
      BY <1>1, <1>6, <3>1 DEF IInv, PairOK, Kept, Genuine
    <3>2. CASE Replaced(k)
      BY <1>1, <3>2 DEF Replaced, Genuine
    <3> QED
      BY <3>1, <3>2
  <2>2. ASSUME NEW c \in Callers, pc'[c] \in Sending \cup {"renew", "rewait"}
        PROVE  Genuine(held[c].tok, held[c].gen)'
    <3>1. Genuine(held[c].tok, held[c].gen)
      BY <1>2, <2>2 DEF IInv, PairOK
    <3>2. held[c].tok \in Tokens /\ held[c].gen \in Nat
      BY <1>1 DEF HeldType
    <3> QED
      BY <1>2, <1>6, <3>1, <3>2 DEF Genuine
  <2>3. \A j \in TokenCalls : Obtained(j)' => calls'[j].token = j /\ calls'[j].gen \in 1 .. gen'
    BY <1>1, <1>5, <1>7 DEF Kept, Replaced
  <2>4. \A j, i \in TokenCalls :
          Obtained(j)' /\ Obtained(i)' /\ calls'[j].gen = calls'[i].gen => j = i
    BY <1>1, <1>5, <1>7 DEF Replaced
  <2> QED
    BY <2>1, <2>2, <2>3, <2>4 DEF PairOK
<1>9. \A j \in TokenCalls : calls'[j].phase = "unused" <=> calls[j].phase = "unused"
  BY <1>4 DEF RequestFrame
<1>10. \A c \in Callers :
         pc[c] = "rewait" /\ Obtained(held[c].call)' => calls'[held[c].call].gen > held[c].gen
  <2> SUFFICES ASSUME NEW c \in Callers, pc[c] = "rewait", Obtained(held[c].call)'
               PROVE  calls'[held[c].call].gen > held[c].gen
    OBVIOUS
  <2>1. held[c].call \in TokenCalls /\ Genuine(held[c].tok, held[c].gen)
    BY DEF IInv, WaitOK, PairOK, Waiting
  <2>2. held[c].gen \in 1 .. gen
    BY <1>1, <1>5, <2>1 DEF Genuine
  <2>3. CASE Obtained(held[c].call)
    BY <1>5, <2>1, <2>3 DEF IInv, WaitOK
  <2>4. CASE held[c].call = k /\ Replaced(k)
    BY <1>1, <2>2, <2>4 DEF Replaced
  <2> QED
    BY <1>2, <1>7, <2>1, <2>3, <2>4 DEF Obtained
<1>11. WaitOK'
  <2>1. \A c \in Callers : <<c, TRUE>> \in TokenCalls /\ <<c, FALSE>> \in TokenCalls
    BY DEF TokenCalls
  <2> QED
    BY <1>1, <1>2, <1>9, <1>10, <2>1 DEF IInv, WaitOK, Waiting
<1>12. FailureOK' /\ AppliedOnce' /\ OthersUnharmed'
  BY <1>2, <1>4 DEF IInv, FailureOK, AppliedOnce, OthersUnharmed, RequestFrame
<1>13. StaticKept'
  BY <1>1 DEF StaticKept
<1> QED
  BY <1>3, <1>8, <1>11, <1>12, <1>13 DEF IInv

LEMMA TokenObtainedOK ==
  ASSUME IInv, NEW k \in TokenCalls, TokenObtained(k)
  PROVE  IInv'
<1>1. /\ calls \in [TokenCalls -> CallType] /\ gen \in Nat
      /\ lost \subseteq Callers \cup TokenCalls /\ None \notin TokenCalls
  BY BotxTokenAssumption DEF IInv, TypeOK, CallType, TokenCalls
<1> DEFINE answer == [phase |-> "stored", token |-> k, gen |-> gen + 1, err |-> FALSE]
<1>2. /\ calls[k].phase = "asking" /\ token' = k /\ gen' = gen + 1 /\ inflight' = None
      /\ calls' = [calls EXCEPT ![k] = answer]
      /\ UNCHANGED <<callerVars, cancelled, botxVars>>
  BY DEF TokenObtained, Store
<1>3. answer \in CallType
  BY <1>1 DEF CallType, Phases, Tokens
<1>4. RequestFrame(k)
  BY <1>1, <1>2, <1>3 DEF RequestFrame, callerVars, botxVars
<1>5. Replaced(k)
  BY <1>1, <1>2 DEF Replaced, Obtained
<1>6. SingleFlight'
  BY <1>1, <1>2 DEF IInv, SingleFlight
<1> QED
  BY <1>2, <1>4, <1>5, <1>6, RequestSuffices

LEMMA TokenFailedOK ==
  ASSUME IInv, NEW k \in TokenCalls, TokenFailed(k)
  PROVE  IInv'
<1>1. /\ calls \in [TokenCalls -> CallType] /\ gen \in Nat /\ token \in Tokens
      /\ lost \subseteq Callers \cup TokenCalls /\ None \notin TokenCalls
  BY BotxTokenAssumption DEF IInv, TypeOK, CallType, TokenCalls
<1> DEFINE answer == [phase |-> "stored", token |-> token, gen |-> gen, err |-> TRUE]
<1>2. /\ calls[k].phase = "asking" /\ UNCHANGED <<token, gen>> /\ inflight' = None
      /\ calls' = [calls EXCEPT ![k] = answer]
      /\ lost' = lost \cup {k}
      /\ UNCHANGED <<callerVars, cancelled, applied, refused, revoked>>
  BY DEF TokenFailed, Store
<1>3. answer \in CallType
  BY <1>1 DEF CallType, Phases
<1>4. RequestFrame(k)
  BY <1>1, <1>2, <1>3 DEF RequestFrame
<1>5. Kept(k)
  BY <1>1, <1>2 DEF Kept, Obtained
<1>6. SingleFlight'
  BY <1>1, <1>2 DEF IInv, SingleFlight
<1> QED
  BY <1>2, <1>4, <1>5, <1>6, RequestSuffices

LEMMA CloseDoneOK ==
  ASSUME IInv, NEW k \in TokenCalls, CloseDone(k)
  PROVE  IInv'
<1>1. /\ calls \in [TokenCalls -> CallType] /\ inflight \in TokenCalls \cup {None}
      /\ lost \subseteq Callers \cup TokenCalls
  BY DEF IInv, TypeOK, CallType
<1> DEFINE answer == [calls[k] EXCEPT !.phase = "closed"]
<1>2. /\ calls[k].phase = "stored" /\ calls' = [calls EXCEPT ![k] = answer]
      /\ UNCHANGED <<token, gen, inflight, callerVars, cancelled, botxVars>>
  BY DEF CloseDone
<1>3. /\ answer \in CallType /\ answer.phase = "closed" /\ answer.token = calls[k].token
      /\ answer.gen = calls[k].gen /\ answer.err = calls[k].err
  BY <1>1 DEF CallType, Phases
<1>4. calls'[k] = answer
  BY <1>1, <1>2
<1> HIDE DEF answer
<1>5. RequestFrame(k)
  BY <1>1, <1>2, <1>3, <1>4 DEF RequestFrame, callerVars, botxVars, IInv, FailureOK
<1>6. Kept(k)
  BY <1>1, <1>2, <1>3, <1>4 DEF Kept, Obtained
<1>7. SingleFlight'
  BY <1>1, <1>2, <1>3 DEF IInv, SingleFlight
<1> QED
  BY <1>1, <1>2, <1>5, <1>6, <1>7, RequestSuffices

LEMMA RevokeOK ==
  ASSUME IInv, NEW t \in Tokens, Revoke(t)
  PROVE  IInv'
  BY DEF IInv, TypeOK, SingleFlight, PairOK, WaitOK, FailureOK, AppliedOnce,
         OthersUnharmed, StaticKept, Genuine, Obtained, Revoke, clientVars, callerVars

LEMMA StutterOK ==
  ASSUME IInv, UNCHANGED vars
  PROVE  IInv'
  BY DEF IInv, TypeOK, SingleFlight, PairOK, WaitOK, FailureOK, AppliedOnce,
         OthersUnharmed, StaticKept, Genuine, Obtained, vars, clientVars, callerVars, botxVars
-----------------------------------------------------------------------------
(* IInv is an invariant of the client, for any number of callers.          *)
THEOREM Invariance == Spec => []IInv
<1>1. IInv /\ [Next]_vars => IInv'
  <2> SUFFICES ASSUME IInv, [Next]_vars PROVE IInv'
    OBVIOUS
  <2>1. ASSUME NEW c \in Callers, CurrentToken(c) \/ CallerStep(c) \/ Cancel(c)
        PROVE  IInv'
    BY <2>1, CurrentTokenOK, RenewTokenOK, WaitTokenOK, SendOK, CancelOK DEF CallerStep
  <2>2. ASSUME NEW k \in TokenCalls, RequestStep(k) PROVE IInv'
    BY <2>2, TokenObtainedOK, TokenFailedOK, CloseDoneOK DEF RequestStep
  <2>3. ASSUME NEW t \in Tokens, Revoke(t) PROVE IInv'
    BY <2>3, RevokeOK
  <2>4. CASE UNCHANGED vars
    BY <2>4, StutterOK
  <2> QED
    BY <2>1, <2>2, <2>3, <2>4 DEF Next
<1> QED
  BY <1>1, InitOK, PTL DEF Spec

(* At most one token request of a client is out at a time.                 *)
THEOREM OneRequest == Spec => []SingleFlight
<1>1. IInv => SingleFlight
  BY DEF IInv
<1> QED
  BY <1>1, Invariance, PTL

(* BotX carries out a call at most once, however often it is sent.         *)
THEOREM NoDoubleApply == Spec => []AppliedOnce
<1>1. IInv => AppliedOnce
  BY DEF IInv
<1> QED
  BY <1>1, Invariance, PTL

(* A caller never fails because another one gave up.                       *)
THEOREM NoHarm == Spec => []OthersUnharmed
<1>1. IInv => OthersUnharmed
  BY DEF IInv
<1> QED
  BY <1>1, Invariance, PTL

(* A client built with a token asks for no other.                          *)
THEOREM NoRefresh == Spec => []StaticKept
<1>1. IInv => StaticKept
  BY DEF IInv
<1> QED
  BY <1>1, Invariance, PTL
-----------------------------------------------------------------------------
LEMMA ObtainedTokenIsNew ==
  ASSUME IInv, NEW c \in Callers, pc[c] = "rewait", NEW k \in TokenCalls,
         k = held[c].call, Obtained(k)
  PROVE  calls[k].token # held[c].tok /\ calls[k].token # None
<1>1. HasSecret /\ Genuine(held[c].tok, held[c].gen) /\ calls[k].gen > held[c].gen
  BY DEF IInv, PairOK, WaitOK, Waiting
<1>2. calls[k].token = k /\ Genuine(k, calls[k].gen)
  BY <1>1 DEF IInv, PairOK, Genuine
<1>3. held[c].gen \in Nat /\ held[c].tok # k /\ None \notin TokenCalls
  BY <1>1, BotxTokenAssumption DEF IInv, TypeOK, HeldType, Genuine, TokenCalls
<1> QED
  BY <1>2, <1>3

(* A late 401 for an older token renews nothing: a request for a token     *)
(* starts only without one or after the current one was refused.           *)
THEOREM NoNeedlessRenewal == Spec => RenewOnlyRejected
<1>1. ASSUME IInv, [Next]_vars, inflight' # inflight, inflight' # None
      PROVE  token = None \/ token \in refused
  <2>1. \/ \E c \in Callers : CurrentToken(c) \/ RenewToken(c)
        \/ UNCHANGED inflight
        \/ inflight' = None
    BY <1>1 DEF Next, CallerStep, RequestStep, WaitToken, Send, Cancel, Revoke,
                TokenObtained, TokenFailed, CloseDone, vars, clientVars
  <2>2. ASSUME NEW c \in Callers, CurrentToken(c) PROVE token = None
    BY <1>1, <2>2 DEF CurrentToken
  <2>3. ASSUME NEW c \in Callers, RenewToken(c) PROVE token \in refused
    <3>1. gen = held[c].gen /\ pc[c] = "renew"
      BY <1>1, <2>3 DEF RenewToken
    <3>2. /\ HasSecret /\ held[c].tok \in refused
          /\ Genuine(held[c].tok, held[c].gen)
          /\ token \in Tokens /\ gen \in Nat /\ held[c].tok \in Tokens
      BY <1>1, <3>1 DEF IInv, TypeOK, WaitOK, PairOK
    <3>3. Genuine(token, gen)
      BY <1>1, <3>1, <3>2, RenewedPair
    <3> QED
      BY <1>1, <3>1, <3>2, <3>3, NewerDiffers
  <2> QED
    BY <1>1, <2>1, <2>2, <2>3
<1>2. IInv /\ [Next]_vars => [inflight' # inflight /\ inflight' # None
                              => token = None \/ token \in refused]_vars
  BY <1>1
<1> QED
  BY <1>2, Invariance, PTL DEF Spec, RenewOnlyRejected

(* The one request after a 401 never repeats the refused token.            *)
THEOREM FreshRetry == Spec => RetryWithNewToken
<1>1. ASSUME IInv, [Next]_vars, NEW c \in Callers,
             pc[c] \in {"renew", "rewait"}, pc'[c] = "resend"
      PROVE  held'[c].tok # held[c].tok /\ held'[c].tok # None
  <2>1. /\ pc \in [Callers -> PCs] /\ held \in [Callers -> HeldType]
        /\ calls \in [TokenCalls -> CallType] /\ token \in Tokens /\ gen \in Nat
        /\ None \notin TokenCalls
    BY <1>1, BotxTokenAssumption DEF IInv, TypeOK, HeldType, CallType, TokenCalls
  <2>2. pc'[c] # pc[c]
    BY <1>1
  <2>3. \/ \E d \in Callers : CurrentToken(d) \/ RenewToken(d) \/ WaitToken(d) \/ Send(d)
        \/ UNCHANGED pc
    BY <1>1 DEF Next, CallerStep, RequestStep, Cancel, Revoke,
                TokenObtained, TokenFailed, CloseDone, vars, callerVars
  <2>4. ASSUME NEW d \in Callers \ {c},
               CurrentToken(d) \/ RenewToken(d) \/ WaitToken(d) \/ Send(d)
        PROVE  pc'[c] = pc[c]
    BY <2>1, <2>4 DEF CurrentToken, RenewToken, WaitToken, Send, Answered, Unauthorized,
                      SendFailed, Goto, Return
  <2>5. RenewToken(c) \/ WaitToken(c)
    BY <1>1, <2>2, <2>3, <2>4 DEF CurrentToken, Send, Sending
  <2>6. CASE RenewToken(c)
    <3>1. /\ pc[c] = "renew" /\ gen # held[c].gen /\ Hold(c, token, gen)
      BY <1>1, <2>1, <2>6 DEF RenewToken, Goto
    <3>2. held'[c].tok = token
      BY <1>1, <2>1, <3>1, HoldEffect
    <3>3. /\ HasSecret /\ Genuine(held[c].tok, held[c].gen)
          /\ held[c].tok \in Tokens /\ held[c].gen \in Nat
      BY <1>1, <2>1, <3>1 DEF IInv, WaitOK, PairOK, HeldType
    <3>4. Genuine(token, gen)
      BY <1>1, <2>1, <3>3, RenewedPair
    <3> QED
      BY <1>1, <2>1, <3>1, <3>2, <3>3, <3>4, NewerDiffers DEF Genuine
  <2>7. CASE WaitToken(c)
    <3> DEFINE k == held[c].call
    <3>1. /\ pc[c] = "rewait" /\ calls[k].phase = "closed" /\ ~calls[k].err
          /\ Hold(c, calls[k].token, calls[k].gen)
      BY <1>1, <2>1, <2>7 DEF WaitToken, Return, Waiting
    <3>2. k \in TokenCalls /\ Obtained(k)
      BY <1>1, <3>1 DEF IInv, WaitOK, Waiting, Obtained
    <3>3. calls[k].token \in Tokens /\ calls[k].gen \in Nat
      BY <2>1, <3>2 DEF CallType
    <3>4. held'[c].tok = calls[k].token
      BY <1>1, <3>1, <3>3, HoldEffect
    <3> HIDE DEF k
    <3> QED
      BY <1>1, <3>1, <3>2, <3>4, ObtainedTokenIsNew DEF k
  <2> QED
    BY <2>5, <2>6, <2>7
<1>2. IInv /\ [Next]_vars
      => [\A c \in Callers :
            pc[c] \in {"renew", "rewait"} /\ pc'[c] = "resend"
            => held'[c].tok # held[c].tok /\ held'[c].tok # None]_vars
  BY <1>1
<1> QED
  BY <1>2, Invariance, PTL DEF Spec, RetryWithNewToken
-----------------------------------------------------------------------------
(* Induction, as a fact about sets of naturals.                            *)
Below == {p \in Nat \X Nat : p[1] < p[2]}

LEMMA BelowWellFounded == IsWellFoundedOn(Below, Nat)
  BY NatLessThanWellFounded DEF OpToRel, Below

LEMMA Least ==
  ASSUME NEW T \in SUBSET Nat, T # {}
  PROVE  \E m \in T : \A k \in T : m <= k
<1>1. PICK m \in T : \A k \in T : ~ (<<k, m>> \in Below)
  BY BelowWellFounded, WFMin
<1>2. \A k \in T : ~ (k < m)
  BY <1>1 DEF Below
<1> QED
  BY <1>2

LEMMA Upward ==
  ASSUME NEW n \in Nat, NEW S, 0 \in S, \A i \in 0 .. n - 1 : i \in S => i + 1 \in S
  PROVE  0 .. n \subseteq S
<1> SUFFICES ASSUME (0 .. n) \ S # {} PROVE FALSE
  OBVIOUS
<1>0. (0 .. n) \ S \in SUBSET Nat
  OBVIOUS
<1>1. PICK m \in (0 .. n) \ S : \A k \in (0 .. n) \ S : m <= k
  BY <1>0, Least
<1>2. m - 1 \in 0 .. n - 1 /\ m - 1 \in S
  BY <1>1
<1> QED
  BY <1>1, <1>2

LEMMA MaxOf ==
  ASSUME NEW n \in Nat, NEW s \in SUBSET (1 .. n), s # {}
  PROVE  Max(s) \in s /\ \A y \in s : y <= Max(s)
<1>1. {n - x : x \in s} \in SUBSET Nat /\ {n - x : x \in s} # {}
  <2>1. \A x \in s : n - x \in Nat
    OBVIOUS
  <2> QED
    BY <2>1
<1>2. PICK m \in {n - x : x \in s} : \A k \in {n - x : x \in s} : m <= k
  BY <1>1, Least
<1>3. PICK x \in s : m = n - x
  BY <1>2
<1>4. \A y \in s : x >= y
  <2> SUFFICES ASSUME NEW y \in s PROVE x >= y
    OBVIOUS
  <2>1. n - y \in {n - z : z \in s}
    OBVIOUS
  <2>2. n - x <= n - y
    BY <1>2, <1>3, <2>1
  <2>3. x \in Int /\ y \in Int
    OBVIOUS
  <2> QED
    BY <2>2, <2>3
<1>5. \E z \in s : \A y \in s : z >= y
  BY <1>4
<1>6. Max(s) \in s /\ \A y \in s : Max(s) >= y
  BY <1>5 DEF Max
<1> QED
  BY <1>6

LEMMA MinOf ==
  ASSUME NEW s \in SUBSET Nat, s # {}
  PROVE  Min(s) \in s
<1>1. \E m \in s : \A k \in s : m <= k
  BY Least
<1> QED
  BY <1>1 DEF Min

(* The folds: of an import over the chats of a bot, and over the bots; of   *)
(* a GitLab sender over references, rules, and the parts of a glob.        *)
Taking(acc, x, w) ==
  CASE w.over = "bots"  -> ImportBot(acc, w.cmd, x, w.answered)
    [] w.over = "chats" -> ImportOne(acc, x, w.bot, w.prefix, w.cmd)
    [] w.over = "refs"  -> IF x \in ToSet(acc) THEN acc ELSE Append(acc, x)
    [] w.over = "names" -> acc \o x.chats
    [] w.over = "parts" -> EndOfNext(w.text, acc, x)
    [] w.over = "rules" -> IF acc.stopped \/ ~RouteMatches(w.payload, x) THEN acc
                           ELSE [stopped |-> x.stop, matched |-> TRUE,
                                 chats |-> Unique(acc.chats \o x.chats)]

OverBots(cmd, answered)      == [over |-> "bots", cmd |-> cmd, answered |-> answered]
OverChats(cmd, bot, prefix)  == [over |-> "chats", cmd |-> cmd, bot |-> bot, prefix |-> prefix]
KeepsFirst                   == [over |-> "refs"]
AddsNames                    == [over |-> "names"]
FindsNext(text)              == [over |-> "parts", text |-> text]
ScansFor(p)                  == [over |-> "rules", payload |-> p]

Folds(w, start, entries, k, g) ==
  g = [s \in SUBSET (1 .. k) |->
         IF s = {} THEN start ELSE Taking(g[s \ {Max(s)}], entries[Max(s)], w)]

LEMMA FoldExists ==
  ASSUME NEW w, NEW start, NEW entries, NEW n \in Nat
  PROVE  \E g : Folds(w, start, entries, n, g)
<1> DEFINE S == {k \in 0 .. n : \E g : Folds(w, start, entries, k, g)}
<1>1. 0 \in S
  <2> DEFINE g == [s \in SUBSET (1 .. 0) |-> start]
  <2>1. \A s \in SUBSET (1 .. 0) : s = {}
    OBVIOUS
  <2>2. g = [s \in SUBSET (1 .. 0) |->
              IF s = {} THEN start ELSE Taking(g[s \ {Max(s)}], entries[Max(s)], w)]
    BY <2>1, Zenon
  <2> QED
    BY <2>2 DEF Folds
<1>2. ASSUME NEW k \in 0 .. n - 1, k \in S PROVE k + 1 \in S
  <2>1. PICK g : Folds(w, start, entries, k, g)
    BY <1>2
  <2> DEFINE h == [s \in SUBSET (1 .. k + 1) |->
                    IF s \in SUBSET (1 .. k) THEN g[s]
                    ELSE Taking(g[s \ {Max(s)}], entries[Max(s)], w)]
  <2>2. \A s \in SUBSET (1 .. k) : s # {} => s \ {Max(s)} \in SUBSET (1 .. k)
    OBVIOUS
  <2>3. \A s \in SUBSET (1 .. k + 1) :
          s \notin SUBSET (1 .. k) => s # {} /\ s \ {Max(s)} \in SUBSET (1 .. k)
    <3> SUFFICES ASSUME NEW s \in SUBSET (1 .. k + 1), s \notin SUBSET (1 .. k)
                 PROVE  s # {} /\ s \ {Max(s)} \in SUBSET (1 .. k)
      OBVIOUS
    <3>1. k + 1 \in s
      OBVIOUS
    <3>2. Max(s) \in 1 .. k + 1 /\ k + 1 <= Max(s)
      BY <3>1, MaxOf, k + 1 \in Nat
    <3>3. Max(s) = k + 1
      BY <3>2
    <3> QED
      BY <3>1, <3>3
  <2>4. \A s \in SUBSET (1 .. k) :
          g[s] = IF s = {} THEN start ELSE Taking(g[s \ {Max(s)}], entries[Max(s)], w)
    BY <2>1 DEF Folds
  <2>5. \A s \in SUBSET (1 .. k) : s \in SUBSET (1 .. k + 1) /\ h[s] = g[s]
    OBVIOUS
  <2>6. ASSUME NEW s \in SUBSET (1 .. k + 1)
        PROVE  h[s] = IF s = {} THEN start ELSE Taking(h[s \ {Max(s)}], entries[Max(s)], w)
    <3>1. CASE s \in SUBSET (1 .. k)
      BY <2>2, <2>4, <2>5, <3>1
    <3>2. CASE s \notin SUBSET (1 .. k)
      <4>1. h[s] = Taking(g[s \ {Max(s)}], entries[Max(s)], w)
        BY <3>2
      <4>2. s # {} /\ h[s \ {Max(s)}] = g[s \ {Max(s)}]
        BY <2>3, <2>5, <3>2
      <4> QED
        BY <4>1, <4>2
    <3> QED
      BY <3>1, <3>2
  <2>7. h = [s \in SUBSET (1 .. k + 1) |->
              IF s = {} THEN start ELSE Taking(h[s \ {Max(s)}], entries[Max(s)], w)]
    BY <2>6, Zenon
  <2>8. Folds(w, start, entries, k + 1, h)
    BY <2>7 DEF Folds
  <2> QED
    BY <2>8
<1>3. 0 .. n \subseteq S
  BY <1>1, <1>2, Upward
<1> QED
  BY <1>3

(* What is left after all entries is what is left after the last, taken by *)
(* what was left after those before.                                       *)
Unfolds(w, start, entries, n, g) ==
  /\ g[1 .. 0] = start
  /\ \A i \in 0 .. n - 1 : g[1 .. i + 1] = Taking(g[1 .. i], entries[i + 1], w)

LEMMA Unfolded ==
  ASSUME NEW w, NEW start, NEW entries, NEW n \in Nat, NEW g, Folds(w, start, entries, n, g)
  PROVE  Unfolds(w, start, entries, n, g)
<1>1. g[1 .. 0] = start
  <2>1. 1 .. 0 = {} /\ 1 .. 0 \in SUBSET (1 .. n)
    OBVIOUS
  <2> QED
    BY <2>1 DEF Folds
<1>2. ASSUME NEW i \in 0 .. n - 1
      PROVE  g[1 .. i + 1] = Taking(g[1 .. i], entries[i + 1], w)
  <2>1. 1 .. i + 1 \in SUBSET (1 .. n) /\ 1 .. i + 1 # {} /\ i + 1 \in 1 .. i + 1
    <3>1. n \in Nat /\ i \in Nat /\ i + 1 <= n
      OBVIOUS
    <3>2. \A x \in 1 .. i + 1 : x \in 1 .. n
      BY <3>1
    <3>3. i + 1 \in 1 .. i + 1
      BY <3>1
    <3> QED
      BY <3>2, <3>3
  <2>2. Max(1 .. i + 1) \in 1 .. i + 1 /\ i + 1 <= Max(1 .. i + 1)
    BY <2>1, MaxOf
  <2>3. Max(1 .. i + 1) = i + 1 /\ (1 .. i + 1) \ {i + 1} = 1 .. i
    BY <2>2
  <2> QED
    BY <2>1, <2>3 DEF Folds
<1> QED
  BY <1>1, <1>2 DEF Unfolds

LEMMA ImportChatsFolds ==
  ASSUME NEW S, NEW acc, NEW cmd, NEW chats \in Seq(S), NEW bot, NEW prefix
  PROVE  \E g : /\ Folds(OverChats(cmd, bot, prefix), acc, chats, Len(chats), g)
                /\ ImportChats(acc, cmd, chats, bot, prefix) = g[1 .. Len(chats)]
<1>1. DOMAIN chats = 1 .. Len(chats) /\ Len(chats) \in Nat
  OBVIOUS
<1> DEFINE w == OverChats(cmd, bot, prefix)
           Is(f) == f = [s \in SUBSET (1 .. Len(chats)) |->
                           IF s = {} THEN acc
                           ELSE ImportOne(f[s \ {Max(s)}], chats[Max(s)], bot, prefix, cmd)]
           g == CHOOSE f : Is(f)
<1>2. \A a, x : Taking(a, x, w) = ImportOne(a, x, bot, prefix, cmd)
  BY DEF Taking, OverChats
<1> HIDE DEF w
<1>3. ASSUME NEW f, Folds(w, acc, chats, Len(chats), f) PROVE Is(f)
  BY <1>2, <1>3, Zenon DEF Folds
<1>4. ASSUME NEW f, Is(f) PROVE Folds(w, acc, chats, Len(chats), f)
  BY <1>2, <1>4, Zenon DEF Folds
<1>5. \E f : Is(f)
  BY <1>1, <1>3, FoldExists
<1>6. Is(g)
  BY <1>5, Zenon
<1>7. ImportChats(acc, cmd, chats, bot, prefix) = g[1 .. Len(chats)]
  BY <1>1 DEF ImportChats, FoldLeft, MapThenFoldSet
<1> QED
  BY <1>4, <1>6, <1>7 DEF w

TakesBots(c, cmd, answered, g) ==
  /\ g[1 .. 0] = StartImport(c)
  /\ \A i \in 0 .. Len(BotOrder) - 1 :
       g[1 .. i + 1] = ImportBot(g[1 .. i], cmd, BotOrder[i + 1], answered)

LEMMA ImportAllFolds ==
  ASSUME NEW c, NEW cmd, NEW answered
  PROVE  \E g : /\ ImportAll(c, cmd, BotOrder, answered)
                     = EndImport(c, g[1 .. Len(BotOrder)], cmd)
                /\ TakesBots(c, cmd, answered, g)
<1>1. DOMAIN BotOrder = 1 .. Len(BotOrder) /\ Len(BotOrder) \in Nat
  BY ConfigAssumption DEF ConfigAssumption
<1> DEFINE w == OverBots(cmd, answered)
           Is(f) == f = [s \in SUBSET (1 .. Len(BotOrder)) |->
                           IF s = {} THEN StartImport(c)
                           ELSE ImportBot(f[s \ {Max(s)}], cmd, BotOrder[Max(s)], answered)]
           g == CHOOSE f : Is(f)
<1>2. \A a, x : Taking(a, x, w) = ImportBot(a, cmd, x, answered)
  BY DEF Taking, OverBots
<1> HIDE DEF w
<1>3. ASSUME NEW f, Folds(w, StartImport(c), BotOrder, Len(BotOrder), f) PROVE Is(f)
  BY <1>2, <1>3, Zenon DEF Folds
<1>4. ASSUME NEW f, Is(f) PROVE Folds(w, StartImport(c), BotOrder, Len(BotOrder), f)
  BY <1>2, <1>4, Zenon DEF Folds
<1>5. \E f : Is(f)
  BY <1>1, <1>3, FoldExists
<1>6. Is(g)
  BY <1>5, Zenon
<1>7. ImportAll(c, cmd, BotOrder, answered) = EndImport(c, g[1 .. Len(BotOrder)], cmd)
  BY <1>1 DEF ImportAll, FoldLeft, MapThenFoldSet
<1>8. Folds(w, StartImport(c), BotOrder, Len(BotOrder), g)
  BY <1>4, <1>6
<1> HIDE DEF g, Is
<1>9. Unfolds(w, StartImport(c), BotOrder, Len(BotOrder), g)
  BY <1>1, <1>8, Unfolded
<1>10. TakesBots(c, cmd, answered, g)
  BY <1>2, <1>9 DEF Unfolds, TakesBots
<1> QED
  BY <1>7, <1>10

(* An entry of chats.                                                      *)
IsChat(x) == x = Chat(x.id, x.bot, x.default) /\ x.default \in BOOLEAN

LEMMA ChatMade ==
  ASSUME NEW id, NEW bot, NEW default \in BOOLEAN
  PROVE  /\ IsChat(Chat(id, bot, default))
         /\ Chat(id, bot, default).id = id /\ Chat(id, bot, default).bot = bot
         /\ Chat(id, bot, default).default = default
  BY DEF IsChat, Chat

LEMMA ContentParts ==
  ASSUME NEW c
  PROVE  IsContent(c) <=>
           /\ c = [bots |-> c.bots, chats |-> c.chats, keys |-> c.keys, cache |-> c.cache]
           /\ Unset \notin DOMAIN c.bots
           /\ \A a \in DOMAIN c.chats : IsChat(c.chats[a])
  BY DEF IsContent, IsChat

LEMMA EmptyIs ==
  /\ IsContent(Empty) /\ OneDefault(Empty) /\ Empty # Error
  /\ DOMAIN Empty.chats = {} /\ DOMAIN Empty.bots = {}
  BY ContentAssumption DEF ContentAssumption, Empty, IsContent, OneDefault, Defaults

(* One field of a content changed.                                         *)
LEMMA NewChats ==
  ASSUME NEW c, IsContent(c), NEW f, \A a \in DOMAIN f : IsChat(f[a])
  PROVE  LET d == [c EXCEPT !.chats = f]
         IN /\ IsContent(d) /\ d.chats = f
            /\ d.bots = c.bots /\ d.keys = c.keys /\ d.cache = c.cache
<1> DEFINE d == [c EXCEPT !.chats = f]
<1>1. c = [bots |-> c.bots, chats |-> c.chats, keys |-> c.keys, cache |-> c.cache]
  BY DEF IsContent
<1>2. d = [bots |-> c.bots, chats |-> f, keys |-> c.keys, cache |-> c.cache]
  BY <1>1
<1>3. d.bots = c.bots /\ d.keys = c.keys /\ d.cache = c.cache /\ d.chats = f
  BY <1>2
<1> HIDE DEF d
<1>4. Unset \notin DOMAIN c.bots
  BY DEF IsContent
<1>5. IsContent(d)
  BY <1>2, <1>3, <1>4, ContentParts
<1> QED
  BY <1>3, <1>5 DEF d

LEMMA NewBots ==
  ASSUME NEW c, IsContent(c), NEW f, Unset \notin DOMAIN f
  PROVE  LET d == [c EXCEPT !.bots = f]
         IN /\ IsContent(d) /\ d.bots = f
            /\ d.chats = c.chats /\ d.keys = c.keys /\ d.cache = c.cache
<1> DEFINE d == [c EXCEPT !.bots = f]
<1>1. /\ c = [bots |-> c.bots, chats |-> c.chats, keys |-> c.keys, cache |-> c.cache]
      /\ \A a \in DOMAIN c.chats : IsChat(c.chats[a])
  BY ContentParts
<1>2. d = [bots |-> f, chats |-> c.chats, keys |-> c.keys, cache |-> c.cache]
  BY <1>1
<1>3. d.bots = f /\ d.keys = c.keys /\ d.cache = c.cache /\ d.chats = c.chats
  BY <1>2
<1> HIDE DEF d
<1>5. IsContent(d)
  BY <1>1, <1>2, <1>3, ContentParts
<1> QED
  BY <1>3, <1>5 DEF d

LEMMA NewKeys ==
  ASSUME NEW c, IsContent(c), NEW f
  PROVE  LET d == [c EXCEPT !.keys = f]
         IN /\ IsContent(d) /\ d.keys = f
            /\ d.chats = c.chats /\ d.bots = c.bots /\ d.cache = c.cache
<1> DEFINE d == [c EXCEPT !.keys = f]
<1>1. /\ c = [bots |-> c.bots, chats |-> c.chats, keys |-> c.keys, cache |-> c.cache]
      /\ Unset \notin DOMAIN c.bots
      /\ \A a \in DOMAIN c.chats : IsChat(c.chats[a])
  BY ContentParts
<1>2. d = [bots |-> c.bots, chats |-> c.chats, keys |-> f, cache |-> c.cache]
  BY <1>1
<1>3. d.bots = c.bots /\ d.keys = f /\ d.cache = c.cache /\ d.chats = c.chats
  BY <1>2
<1> HIDE DEF d
<1>5. IsContent(d)
  BY <1>1, <1>2, <1>3, ContentParts
<1> QED
  BY <1>3, <1>5 DEF d

LEMMA LoadedContent ==
  ASSUME NEW c, IsContent(c), NEW cmd
  PROVE  LET d == LoadMinimal(c, cmd)
         IN IsContent(d) /\ d.chats = c.chats /\ d.bots = c.bots /\ d.keys = c.keys
<1> DEFINE d == [c EXCEPT !.cache = "none"]
<1>1. /\ c = [bots |-> c.bots, chats |-> c.chats, keys |-> c.keys, cache |-> c.cache]
      /\ Unset \notin DOMAIN c.bots
      /\ \A a \in DOMAIN c.chats : IsChat(c.chats[a])
  BY ContentParts
<1>2. d = [bots |-> c.bots, chats |-> c.chats, keys |-> c.keys, cache |-> "none"]
  BY <1>1
<1>3. d.bots = c.bots /\ d.keys = c.keys /\ d.cache = "none" /\ d.chats = c.chats
  BY <1>2
<1> HIDE DEF d
<1>5. IsContent(d)
  BY <1>1, <1>2, <1>3, ContentParts
<1> QED
  BY <1>3, <1>5 DEF d, LoadMinimal

(* OneDefault looks at the chats alone.                                    *)
LEMMA SameDefaults ==
  ASSUME NEW b, NEW c, Defaults(c) \subseteq Defaults(b), OneDefault(b)
  PROVE  OneDefault(c)
  BY DEF OneDefault
-----------------------------------------------------------------------------
(* What each command makes of a content.                                   *)

(* A chat set: the alias named and nothing else, and no second default.    *)
LEMMA PutChatIs ==
  ASSUME NEW c, IsContent(c), OneDefault(c), NEW alias, NEW id, NEW bot, NEW wish,
         PutChat(c, alias, id, bot, wish) # Error
  PROVE  LET d == PutChat(c, alias, id, bot, wish)
         IN /\ IsContent(d) /\ OneDefault(d)
            /\ d.bots = c.bots /\ d.keys = c.keys
            /\ SameBut(c.chats, d.chats, {alias}) /\ id \in Ids(d)
<1> DEFINE v == Chat(id, bot, DefaultFlag(c, alias, wish))
           d == [c EXCEPT !.chats = With(c.chats, alias, v)]
<1>1. PutChat(c, alias, id, bot, wish) = d /\ (wish = "set" => Defaults(c) \ {alias} = {})
  BY DEF PutChat, DefaultConflict
<1>2. DefaultFlag(c, alias, wish) \in BOOLEAN
  BY DEF DefaultFlag
<1>3. IsChat(v) /\ v.id = id /\ v.default = DefaultFlag(c, alias, wish)
  BY <1>2, ChatMade
<1> HIDE DEF v
<1> DEFINE f == With(c.chats, alias, v)
<1>4. /\ DOMAIN f = DOMAIN c.chats \cup {alias} /\ f[alias] = v
      /\ \A x \in DOMAIN c.chats : x # alias => f[x] = c.chats[x]
  BY Zenon DEF With
<1> HIDE DEF f
<1>5. \A a \in DOMAIN f : IsChat(f[a])
  BY <1>3, <1>4, ContentParts
<1>6. /\ IsContent(d) /\ d.chats = f
      /\ d.bots = c.bots /\ d.keys = c.keys /\ d.cache = c.cache
  BY <1>5, NewChats DEF f
<1> HIDE DEF d
<1>7. SameBut(c.chats, d.chats, {alias})
  BY <1>4, <1>6 DEF SameBut
<1>8. id \in Ids(d)
  BY <1>3, <1>4, <1>6 DEF Ids
<1>9. Defaults(d) \subseteq {alias} \/ Defaults(d) \subseteq Defaults(c)
  <2>1. \A a \in Defaults(d) \ {alias} : a \in Defaults(c)
    BY <1>4, <1>6 DEF Defaults
  <2>2. CASE wish = "set"
    BY <1>1, <2>1, <2>2
  <2>3. CASE wish # "set"
    <3>1. alias \in Defaults(d) => alias \in Defaults(c)
      BY <1>3, <1>4, <1>6, <2>3 DEF Defaults, DefaultFlag
    <3> QED
      BY <2>1, <3>1
  <2> QED
    BY <2>2, <2>3
<1>10. OneDefault(d)
  BY <1>9 DEF OneDefault
<1> QED
  BY <1>1, <1>6, <1>7, <1>8, <1>10

LEMMA ChatRmIs ==
  ASSUME NEW c, IsContent(c), OneDefault(c), NEW cmd, ChatRm(c, cmd) # Error
  PROVE  LET d == ChatRm(c, cmd)
         IN /\ IsContent(d) /\ OneDefault(d)
            /\ d.bots = c.bots /\ d.keys = c.keys
            /\ SameBut(c.chats, d.chats, {cmd.alias})
<1> DEFINE f == Without(c.chats, cmd.alias)
           d == [c EXCEPT !.chats = f]
<1>1. ChatRm(c, cmd) = d
  BY DEF ChatRm
<1>2. DOMAIN f = DOMAIN c.chats \ {cmd.alias} /\ \A x \in DOMAIN f : f[x] = c.chats[x]
  BY DEF Without
<1> HIDE DEF f
<1>3. \A a \in DOMAIN f : IsChat(f[a])
  BY <1>2, ContentParts
<1>4. /\ IsContent(d) /\ d.chats = f
      /\ d.bots = c.bots /\ d.keys = c.keys /\ d.cache = c.cache
  BY <1>3, NewChats
<1> HIDE DEF d
<1>5. OneDefault(d)
  BY <1>2, <1>4, SameDefaults DEF Defaults
<1>6. SameBut(c.chats, d.chats, {cmd.alias})
  BY <1>2, <1>4 DEF SameBut
<1> QED
  BY <1>1, <1>4, <1>5, <1>6

(* chat add by name: the alias is the one given or one of the chat's own.  *)
LEMMA ChatFoundIs ==
  ASSUME NEW c, IsContent(c), OneDefault(c), NEW cmd, cmd.kind = "find",
         NEW alias \in FoundAliases(c, cmd), ChatFound(c, cmd, alias) # Error
  PROVE  LET d == ChatFound(c, cmd, alias)
         IN /\ IsContent(d) /\ OneDefault(d)
            /\ d.bots = c.bots /\ d.keys = c.keys
            /\ SameBut(c.chats, d.chats, OwnAliases(c, cmd)) /\ cmd.id \in Ids(d)
<1> DEFINE d == PutChat(c, alias, cmd.id, KeptBot(c, alias, cmd.bot), cmd.default)
<1>1. ChatFound(c, cmd, alias) = d
  BY DEF ChatFound
<1>2. alias \in OwnAliases(c, cmd)
  BY DEF FoundAliases, OwnAliases
<1>3. /\ IsContent(d) /\ OneDefault(d)
      /\ d.bots = c.bots /\ d.keys = c.keys
      /\ SameBut(c.chats, d.chats, {alias}) /\ cmd.id \in Ids(d)
  BY <1>1, PutChatIs
<1> HIDE DEF d
<1>4. SameBut(c.chats, d.chats, OwnAliases(c, cmd))
  BY <1>2, <1>3 DEF SameBut
<1> QED
  BY <1>1, <1>3, <1>4

(* bot add: the name is not none, and belongs to no other bot of that id.  *)
LEMMA BotAddIs ==
  ASSUME NEW c, IsContent(c), OneDefault(c), NEW cmd, BotAdd(c, cmd) # Error
  PROVE  LET d == BotAdd(c, cmd)
         IN /\ IsContent(d) /\ OneDefault(d)
            /\ d.chats = c.chats /\ d.keys = c.keys
            /\ \A m, n \in DOMAIN d.bots :
                 d.bots[m].id = d.bots[n].id /\ m # n => {m, n} \subseteq DOMAIN c.bots
<1> DEFINE free == {i \in DOMAIN AutoNames : AutoNames[i] \notin DOMAIN c.bots}
           name == IF cmd.name # Unset THEN cmd.name
                   ELSE IF free = {} THEN Error ELSE AutoNames[Min(free)]
           v == [id |-> cmd.id, cred |-> cmd.cred]
           f == With(c.bots, name, v)
           d == [c EXCEPT !.bots = f]
<1>1. /\ BotAdd(c, cmd) = d /\ name # Error
      /\ \A n \in DOMAIN c.bots : c.bots[n].id = cmd.id => n = cmd.name
  BY DEF BotAdd
<1>2. name # Unset
  <2>1. CASE cmd.name # Unset
    BY <2>1
  <2>2. CASE cmd.name = Unset
    <3>1. free # {} /\ free \subseteq DOMAIN AutoNames /\ name = AutoNames[Min(free)]
      BY <1>1, <2>2
    <3>2. /\ AutoNames \in Seq(Range(AutoNames) \ {Unset})
          /\ DOMAIN AutoNames = 1 .. Len(AutoNames) /\ Len(AutoNames) \in Nat
      BY ContentAssumption DEF ContentAssumption
    <3> HIDE DEF free, name
    <3>3. Min(free) \in free
      <4>1. free \in SUBSET Nat
        BY <3>1, <3>2
      <4> QED
        BY <3>1, <4>1, MinOf
    <3>4. AutoNames[Min(free)] \in Range(AutoNames) \ {Unset}
      <4>1. Min(free) \in 1 .. Len(AutoNames)
        BY <3>1, <3>2, <3>3
      <4> QED
        BY <3>2, <4>1
    <3> QED
      BY <3>1, <3>4
  <2> QED
    BY <2>1, <2>2
<1>3. name = cmd.name \/ cmd.name = Unset
  OBVIOUS
<1> HIDE DEF name
<1>4. /\ DOMAIN f = DOMAIN c.bots \cup {name} /\ f[name] = v
      /\ \A x \in DOMAIN c.bots : x # name => f[x] = c.bots[x]
  BY Zenon DEF With
<1> HIDE DEF f
<1>5. Unset \notin DOMAIN c.bots
  BY DEF IsContent
<1>6. /\ IsContent(d) /\ d.bots = f
      /\ d.chats = c.chats /\ d.keys = c.keys /\ d.cache = c.cache
  BY <1>2, <1>4, <1>5, NewBots
<1> HIDE DEF d
<1>7. OneDefault(d)
  BY <1>6, SameDefaults DEF Defaults
<1>8. v.id = cmd.id
  OBVIOUS
<1> HIDE DEF v
<1>9. ASSUME NEW n \in DOMAIN c.bots, n # name, f[n].id = cmd.id PROVE name \in DOMAIN c.bots
  BY <1>1, <1>3, <1>4, <1>5, <1>9
<1>10. \A m, n \in DOMAIN f : f[m].id = f[n].id /\ m # n => {m, n} \subseteq DOMAIN c.bots
  BY <1>4, <1>8, <1>9
<1> QED
  BY <1>1, <1>6, <1>7, <1>10

LEMMA BotRmIs ==
  ASSUME NEW c, IsContent(c), OneDefault(c), NEW cmd, BotRm(c, cmd) # Error
  PROVE  LET d == BotRm(c, cmd)
         IN IsContent(d) /\ OneDefault(d) /\ d.chats = c.chats /\ d.keys = c.keys
<1> DEFINE f == Without(c.bots, cmd.name)
           d == [c EXCEPT !.bots = f]
<1>1. BotRm(c, cmd) = d
  BY DEF BotRm
<1>2. Unset \notin DOMAIN f
  BY DEF Without, IsContent
<1> HIDE DEF f
<1>3. IsContent(d) /\ d.chats = c.chats /\ d.keys = c.keys
  BY <1>2, NewBots
<1> HIDE DEF d
<1>4. OneDefault(d)
  BY <1>3, SameDefaults DEF Defaults
<1> QED
  BY <1>1, <1>3, <1>4

LEMMA NewKeysIs ==
  ASSUME NEW c, IsContent(c), OneDefault(c), NEW f
  PROVE  LET d == [c EXCEPT !.keys = f]
         IN IsContent(d) /\ OneDefault(d) /\ d.chats = c.chats /\ d.bots = c.bots
<1> DEFINE d == [c EXCEPT !.keys = f]
<1>1. IsContent(d) /\ d.chats = c.chats /\ d.bots = c.bots
  BY NewKeys
<1> HIDE DEF d
<1>2. OneDefault(d)
  BY <1>1, SameDefaults DEF Defaults
<1> QED
  BY <1>1, <1>2 DEF d

-----------------------------------------------------------------------------
(* An import on its way: b is the content it started from, listed what     *)
(* BotX lists.                                                             *)
AccOf(acc) == Importing(acc.chats, acc.index, acc.taken, acc.added, acc.failed)

Entry(acc, u) == \E a \in DOMAIN acc.chats : acc.chats[a].id = u

(* Whatever the policy: no alias goes, a new or moved one names a chat     *)
(* that was listed, the default stays where it was.                        *)
Imported(b, listed, acc) ==
  /\ acc = AccOf(acc)
  /\ \A a \in DOMAIN acc.chats : IsChat(acc.chats[a])
  /\ DOMAIN b.chats \subseteq DOMAIN acc.chats
  /\ \A a \in DOMAIN acc.chats :
       /\ a \notin DOMAIN b.chats => acc.chats[a].id \in listed /\ ~acc.chats[a].default
       /\ a \in DOMAIN b.chats =>
            /\ acc.chats[a].default = b.chats[a].default
            /\ acc.chats[a].id \in listed \cup {b.chats[a].id}

(* Without overwrite the index is that of the ids in the file, and so no   *)
(* chat gets a second alias.                                               *)
Indexed(b, acc) ==
  /\ \A a \in DOMAIN b.chats : acc.chats[a] = b.chats[a]
  /\ \A u \in UUIDs : u \in acc.index <=> Entry(acc, u)
  /\ \A a \in DOMAIN acc.chats \ DOMAIN b.chats, d \in DOMAIN acc.chats :
       acc.chats[a].id = acc.chats[d].id => a = d

LEMMA StartImported ==
  ASSUME NEW b, IsContent(b), NEW c, c.chats = b.chats, NEW listed
  PROVE  Imported(b, listed, StartImport(c)) /\ Indexed(b, StartImport(c))
<1> DEFINE acc == StartImport(c)
<1>1. /\ acc = AccOf(acc) /\ acc.chats = b.chats
      /\ acc.index = {b.chats[a].id : a \in DOMAIN b.chats}
  BY DEF StartImport, AccOf, Importing
<1> HIDE DEF acc
<1>2. Imported(b, listed, acc)
  BY <1>1, ContentParts DEF Imported
<1>3. Indexed(b, acc)
  BY <1>1 DEF Indexed, Entry
<1> QED
  BY <1>2, <1>3 DEF acc

(* One chat more.                                                          *)
LEMMA OneImported ==
  ASSUME NEW b, NEW listed \in SUBSET UUIDs, NEW acc, Imported(b, listed, acc),
         NEW id \in listed, NEW bot, NEW prefix, NEW cmd,
         cmd.onConflict # "overwrite" => Indexed(b, acc)
  PROVE  LET next == ImportOne(acc, id, bot, prefix, cmd)
         IN /\ Imported(b, listed, next)
            /\ cmd.onConflict # "overwrite" =>
                 /\ Indexed(b, next)
                 /\ \A u \in UUIDs : Entry(acc, u) => Entry(next, u)
            /\ cmd.onConflict = "fail" /\ ~cmd.all =>
                 /\ acc.failed => next.failed
                 /\ next.failed \/ Entry(next, id)
<1> DEFINE next == ImportOne(acc, id, bot, prefix, cmd)
           alias == Generated(prefix, id, acc.taken)
           old == acc.chats[alias]
           fresh == Chat(id, bot, FALSE)
           over == Chat(id, IF bot = Unset THEN old.bot ELSE bot, old.default)
           Put(chat, dropped) ==
             Importing(With(acc.chats, alias, chat), (acc.index \ {dropped}) \cup {id},
                       acc.taken \cup {alias}, TRUE, FALSE)
<1>0. acc = AccOf(acc) /\ Unset \notin UUIDs /\ id \in UUIDs
  BY ContentAssumption DEF ContentAssumption, Imported
<1>1. \/ next = acc /\ (acc.failed \/ id \in acc.index)
      \/ next = Put(fresh, Unset) /\ alias \notin DOMAIN acc.chats /\ id \notin acc.index /\ ~acc.failed
      \/ next = acc /\ alias \in DOMAIN acc.chats /\ (old.id = id \/ cmd.onConflict = "skip")
      \/ next = [acc EXCEPT !.failed = ~cmd.all] /\ cmd.onConflict # "overwrite"
      \/ /\ next = Put(over, old.id) /\ alias \in DOMAIN acc.chats /\ ~acc.failed
         /\ cmd.onConflict = "overwrite"
  BY DEF ImportOne
<1> HIDE DEF alias
<1>2. ASSUME NEW chat, NEW dropped
      PROVE  LET new == Put(chat, dropped)
             IN /\ new = AccOf(new)
                /\ DOMAIN new.chats = DOMAIN acc.chats \cup {alias} /\ new.chats[alias] = chat
                /\ \A a \in DOMAIN acc.chats : a # alias => new.chats[a] = acc.chats[a]
                /\ new.index = (acc.index \ {dropped}) \cup {id}
                /\ ~new.failed
  <2> DEFINE new == Put(chat, dropped)
  <2>1. /\ new = AccOf(new) /\ new.chats = With(acc.chats, alias, chat)
        /\ new.index = (acc.index \ {dropped}) \cup {id} /\ ~new.failed
    BY DEF AccOf, Importing
  <2> HIDE DEF Put
  <2> QED
    BY <2>1 DEF With
<1>3. ASSUME NEW new, new = AccOf(new), new.chats = acc.chats, new.index = acc.index
      PROVE  /\ Imported(b, listed, new)
             /\ cmd.onConflict # "overwrite" =>
                  /\ Indexed(b, new)
                  /\ \A u \in UUIDs : Entry(acc, u) => Entry(new, u)
  BY <1>3 DEF Imported, Indexed, Entry
<1> HIDE DEF Put, fresh, over
<1>5. CASE next = acc /\ (acc.failed \/ id \in acc.index)
  <2>1. cmd.onConflict = "fail" /\ id \in acc.index => Entry(next, id)
    BY <1>0, <1>5 DEF Indexed
  <2> HIDE DEF next
  <2> QED
    BY <1>0, <1>3, <1>5, <2>1 DEF next
<1>6. CASE /\ next = Put(fresh, Unset) /\ alias \notin DOMAIN acc.chats
           /\ id \notin acc.index /\ ~acc.failed
  <2> HIDE DEF next
  <2>1. /\ next = AccOf(next)
        /\ DOMAIN next.chats = DOMAIN acc.chats \cup {alias} /\ next.chats[alias] = fresh
        /\ \A a \in DOMAIN acc.chats : next.chats[a] = acc.chats[a]
        /\ next.index = (acc.index \ {Unset}) \cup {id} /\ ~next.failed
    BY <1>2, <1>6
  <2>2. IsChat(fresh) /\ fresh.id = id /\ ~fresh.default
    BY ChatMade DEF fresh
  <2>3. Imported(b, listed, next)
    BY <2>1, <2>2 DEF Imported
  <2>4. Entry(next, id)
    BY <2>1, <2>2 DEF Entry
  <2>5. ASSUME cmd.onConflict # "overwrite"
        PROVE  Indexed(b, next) /\ \A u \in UUIDs : Entry(acc, u) => Entry(next, u)
    <3>1. Indexed(b, acc) /\ DOMAIN b.chats \subseteq DOMAIN acc.chats
      BY <2>5 DEF Imported
    <3>2. \A u \in UUIDs : Entry(next, u) <=> Entry(acc, u) \/ u = id
      BY <2>1, <2>2 DEF Entry
    <3>3. \A u \in UUIDs : u \in next.index <=> Entry(next, u)
      BY <1>0, <2>1, <3>1, <3>2 DEF Indexed
    <3>4. \A a \in DOMAIN acc.chats : acc.chats[a].id # id
      BY <1>0, <1>6, <3>1 DEF Indexed, Entry
    <3>5. \A a \in DOMAIN next.chats \ DOMAIN b.chats, d \in DOMAIN next.chats :
            next.chats[a].id = next.chats[d].id => a = d
      BY <2>1, <2>2, <3>1, <3>4 DEF Indexed
    <3>6. \A a \in DOMAIN b.chats : next.chats[a] = b.chats[a]
      BY <2>1, <3>1 DEF Indexed
    <3> QED
      BY <3>2, <3>3, <3>5, <3>6 DEF Indexed
  <2> QED
    BY <1>6, <2>3, <2>4, <2>5 DEF next
<1>7. CASE next = acc /\ alias \in DOMAIN acc.chats /\ (old.id = id \/ cmd.onConflict = "skip")
  <2>1. cmd.onConflict = "fail" => Entry(next, id)
    BY <1>7 DEF Entry
  <2> HIDE DEF next
  <2> QED
    BY <1>0, <1>3, <1>7, <2>1 DEF next
<1>8. CASE next = [acc EXCEPT !.failed = ~cmd.all] /\ cmd.onConflict # "overwrite"
  <2> HIDE DEF next
  <2>1. next = Importing(acc.chats, acc.index, acc.taken, acc.added, ~cmd.all)
    BY <1>0, <1>8 DEF AccOf, Importing
  <2>2. /\ next = AccOf(next) /\ next.chats = acc.chats /\ next.index = acc.index
        /\ next.failed = ~cmd.all
    BY <2>1 DEF AccOf, Importing
  <2> QED
    BY <1>3, <2>2 DEF next
<1>9. CASE /\ next = Put(over, old.id) /\ alias \in DOMAIN acc.chats /\ ~acc.failed
           /\ cmd.onConflict = "overwrite"
  <2> HIDE DEF next
  <2>1. /\ next = AccOf(next)
        /\ DOMAIN next.chats = DOMAIN acc.chats /\ next.chats[alias] = over
        /\ \A a \in DOMAIN acc.chats : a # alias => next.chats[a] = acc.chats[a]
        /\ next.index = (acc.index \ {old.id}) \cup {id} /\ ~next.failed
    <3>1. next = Put(over, old.id) /\ alias \in DOMAIN acc.chats
      BY <1>9
    <3> HIDE DEF old
    <3>2. /\ next = AccOf(next)
          /\ DOMAIN next.chats = DOMAIN acc.chats \cup {alias} /\ next.chats[alias] = over
          /\ \A a \in DOMAIN acc.chats : a # alias => next.chats[a] = acc.chats[a]
          /\ next.index = (acc.index \ {old.id}) \cup {id} /\ ~next.failed
      BY <1>2, <3>1
    <3> QED
      BY <3>1, <3>2
  <2>2. old = Chat(old.id, old.bot, old.default) /\ old.default \in BOOLEAN
    BY <1>9 DEF Imported, IsChat
  <2>3. IsChat(over) /\ over.id = id /\ over.default = old.default
    BY <2>2, ChatMade DEF over
  <2>4. Imported(b, listed, next)
    BY <1>9, <2>1, <2>3 DEF Imported
  <2>5. Entry(next, id)
    BY <1>9, <2>1, <2>3 DEF Entry
  <2> QED
    BY <1>9, <2>4 DEF next
<1> QED
  BY <1>1, <1>5, <1>6, <1>7, <1>8, <1>9

(* All chats of a bot.                                                     *)
LEMMA ChatsImported ==
  ASSUME NEW b, NEW listed \in SUBSET UUIDs, NEW acc, Imported(b, listed, acc),
         NEW cmd, cmd.onConflict # "overwrite" => Indexed(b, acc),
         NEW chats \in Seq(UUIDs), Range(chats) \subseteq listed, NEW bot, NEW prefix
  PROVE  LET next == ImportChats(acc, cmd, chats, bot, prefix)
         IN /\ Imported(b, listed, next)
            /\ cmd.onConflict # "overwrite" => Indexed(b, next)
            /\ cmd.onConflict = "fail" /\ ~cmd.all /\ ~next.failed =>
                 \A u \in Range(chats) : Entry(next, u)
<1> DEFINE n == Len(chats)
           w == OverChats(cmd, bot, prefix)
<1>1. n \in Nat /\ DOMAIN chats = 1 .. n
  OBVIOUS
<1>2. PICK g : Folds(w, acc, chats, n, g) /\ ImportChats(acc, cmd, chats, bot, prefix) = g[1 .. n]
  BY ImportChatsFolds
<1>3. /\ g[1 .. 0] = acc
      /\ \A i \in 0 .. n - 1 : g[1 .. i + 1] = ImportOne(g[1 .. i], chats[i + 1], bot, prefix, cmd)
  <2>1. \A a, x : Taking(a, x, w) = ImportOne(a, x, bot, prefix, cmd)
    BY DEF Taking, OverChats
  <2> HIDE DEF w, n
  <2> QED
    BY <1>1, <1>2, <2>1, Unfolded DEF Unfolds
<1>4. \A i \in 1 .. n : chats[i] \in listed
  BY <1>1 DEF Range
<1> DEFINE Fine(i) ==
      /\ Imported(b, listed, g[1 .. i])
      /\ cmd.onConflict # "overwrite" => Indexed(b, g[1 .. i])
      /\ cmd.onConflict = "fail" /\ ~cmd.all /\ ~g[1 .. i].failed =>
           \A k \in 1 .. i : Entry(g[1 .. i], chats[k])
    S == {i \in 0 .. n : Fine(i)}
<1> HIDE DEF n, w
<1>5. 0 \in S
  <2>1. Fine(0)
    BY <1>3
  <2> QED
    BY <1>1, <2>1
<1>6. ASSUME NEW i \in 0 .. n - 1, i \in S PROVE i + 1 \in S
  <2>1. Fine(i) /\ i + 1 \in 1 .. n /\ i + 1 \in 0 .. n /\ chats[i + 1] \in listed
    BY <1>1, <1>4, <1>6
  <2> DEFINE now == g[1 .. i]
             next == g[1 .. i + 1]
             id == chats[i + 1]
  <2>2. next = ImportOne(now, id, bot, prefix, cmd)
    BY <1>3
  <2>3. Imported(b, listed, now) /\ (cmd.onConflict # "overwrite" => Indexed(b, now))
    BY <2>1
  <2>4. cmd.onConflict = "fail" /\ ~cmd.all /\ ~now.failed => \A k \in 1 .. i : Entry(now, chats[k])
    BY <2>1
  <2> HIDE DEF now, next, Fine, id
  <2>5. id \in listed /\ \A k \in 1 .. i : chats[k] \in UUIDs
    <3>1. \A k \in 1 .. i : k \in 1 .. n
      BY <1>1
    <3> QED
      BY <1>4, <2>1, <3>1 DEF id
  <2>6. /\ Imported(b, listed, next)
        /\ cmd.onConflict # "overwrite" =>
             /\ Indexed(b, next)
             /\ \A u \in UUIDs : Entry(now, u) => Entry(next, u)
        /\ cmd.onConflict = "fail" /\ ~cmd.all =>
             /\ now.failed => next.failed
             /\ next.failed \/ Entry(next, id)
    BY <2>2, <2>3, <2>5, OneImported
  <2>7. ASSUME cmd.onConflict = "fail", ~cmd.all, ~next.failed
        PROVE  \A k \in 1 .. i + 1 : Entry(next, chats[k])
    <3>1. \A k \in 1 .. i : Entry(next, chats[k])
      BY <2>4, <2>5, <2>6, <2>7
    <3>2. \A k \in 1 .. i + 1 : k \in 1 .. i \/ k = i + 1
      BY <1>1
    <3>3. Entry(next, chats[i + 1])
      BY <2>6, <2>7 DEF id
    <3> QED
      BY <3>1, <3>2, <3>3
  <2>8. Fine(i + 1)
    BY <2>6, <2>7 DEF Fine, next
  <2> QED
    BY <2>1, <2>8
<1>7. n \in S
  <2>1. 0 .. n \subseteq S
    <3> HIDE DEF S
    <3> QED
      BY <1>1, <1>5, <1>6, Upward
  <2> QED
    BY <1>1, <2>1
<1>8. Fine(n)
  BY <1>7
<1>9. \A u \in Range(chats) : \E k \in 1 .. n : u = chats[k]
  BY <1>1 DEF Range
<1> QED
  BY <1>2, <1>8, <1>9 DEF n

(* Bot after bot, those BotX answered.                                     *)
LEMMA BotsImported ==
  ASSUME NEW b, NEW listed \in SUBSET UUIDs, NEW c, NEW cmd, NEW answered,
         \A x \in answered : Range(Listed(x)) \subseteq listed,
         Imported(b, listed, StartImport(c)), Indexed(b, StartImport(c))
  PROVE  \E acc : /\ ImportAll(c, cmd, BotOrder, answered) = EndImport(c, acc, cmd)
                  /\ Imported(b, listed, acc)
                  /\ cmd.onConflict # "overwrite" => Indexed(b, acc)
<1> DEFINE n == Len(BotOrder)
<1>1. n \in Nat
  BY ConfigAssumption DEF ConfigAssumption
<1>2. PICK g :
        /\ ImportAll(c, cmd, BotOrder, answered) = EndImport(c, g[1 .. n], cmd)
        /\ TakesBots(c, cmd, answered, g)
  BY ImportAllFolds
<1>3. \A x : Listed(x) \in Seq(UUIDs)
  BY ContentAssumption DEF ContentAssumption, Listed
<1> DEFINE Fine(i) ==
      /\ Imported(b, listed, g[1 .. i])
      /\ cmd.onConflict # "overwrite" => Indexed(b, g[1 .. i])
    S == {i \in 0 .. n : Fine(i)}
<1> HIDE DEF n
<1>4. 0 \in S
  BY <1>1, <1>2 DEF TakesBots
<1>5. ASSUME NEW i \in 0 .. n - 1, i \in S PROVE i + 1 \in S
  <2> DEFINE now == g[1 .. i]
             next == g[1 .. i + 1]
             x == BotOrder[i + 1]
  <2>1. i + 1 \in 0 .. n
    BY <1>1
  <2>2. next = ImportBot(now, cmd, x, answered)
    BY <1>2 DEF n, TakesBots
  <2>3. Imported(b, listed, now) /\ (cmd.onConflict # "overwrite" => Indexed(b, now))
    BY <1>5
  <2> HIDE DEF now, next, x
  <2>4. CASE x \in answered
    <3>1. next = ImportChats(now, cmd, Listed(x), x, x)
      BY <2>2, <2>4 DEF ImportBot
    <3>2. Listed(x) \in Seq(UUIDs) /\ Range(Listed(x)) \subseteq listed
      BY <1>3, <2>4
    <3>3. Imported(b, listed, next) /\ (cmd.onConflict # "overwrite" => Indexed(b, next))
      BY <2>3, <3>1, <3>2, ChatsImported
    <3> QED
      BY <2>1, <3>3 DEF next
  <2>5. CASE x \notin answered
    <3>1. next = now
      BY <2>2, <2>5 DEF ImportBot
    <3> QED
      BY <2>1, <2>3, <3>1 DEF next
  <2> QED
    BY <2>4, <2>5
<1>6. n \in S
  <2>1. 0 .. n \subseteq S
    <3> HIDE DEF S
    <3> QED
      BY <1>1, <1>4, <1>5, Upward
  <2> QED
    BY <1>1, <2>1
<1> QED
  BY <1>2, <1>6 DEF n

(* What an import writes.                                                  *)
LEMMA EndedImport ==
  ASSUME NEW b, IsContent(b), OneDefault(b),
         NEW c, IsContent(c), c.chats = b.chats, c.bots = b.bots, c.keys = b.keys,
         NEW listed \in SUBSET UUIDs, NEW acc, Imported(b, listed, acc),
         NEW cmd, cmd.onConflict # "overwrite" => Indexed(b, acc),
         cmd.onConflict = "fail" /\ ~cmd.all /\ ~acc.failed => \A u \in listed : Entry(acc, u),
         EndImport(c, acc, cmd) # Error
  PROVE  LET d == EndImport(c, acc, cmd)
         IN /\ IsContent(d) /\ OneDefault(d) /\ d.bots = b.bots /\ d.keys = b.keys
            /\ ImportFits(b, d, cmd, listed)
<1> DEFINE d == [c EXCEPT !.chats = acc.chats]
<1>1. EndImport(c, acc, cmd) = d /\ ~acc.failed
  BY DEF EndImport
<1>2. \A a \in DOMAIN acc.chats : IsChat(acc.chats[a])
  BY DEF Imported
<1>3. IsContent(d) /\ d.chats = acc.chats /\ d.bots = b.bots /\ d.keys = b.keys
  BY <1>2, NewChats
<1> HIDE DEF d
<1>4. /\ DOMAIN b.chats \subseteq DOMAIN d.chats
      /\ \A a \in DOMAIN d.chats :
           /\ a \notin DOMAIN b.chats => d.chats[a].id \in listed /\ ~d.chats[a].default
           /\ a \in DOMAIN b.chats =>
                /\ d.chats[a].default = b.chats[a].default
                /\ d.chats[a].id \in listed \cup {b.chats[a].id}
  BY <1>3 DEF Imported
<1>5. Defaults(d) = Defaults(b)
  BY <1>4 DEF Defaults
<1>6. OneDefault(d)
  BY <1>5, SameDefaults
<1> DEFINE added == DOMAIN d.chats \ DOMAIN b.chats
<1>7. ASSUME cmd.onConflict # "overwrite"
      PROVE  /\ SameBut(b.chats, d.chats, added)
             /\ \A a \in added : d.chats[a].id \in listed \ Ids(b)
             /\ \A a \in added, e \in DOMAIN d.chats : d.chats[a].id = d.chats[e].id => a = e
  <2>1. /\ \A a \in DOMAIN b.chats : d.chats[a] = b.chats[a]
        /\ \A a \in added, e \in DOMAIN d.chats : d.chats[a].id = d.chats[e].id => a = e
    BY <1>3, <1>7 DEF Indexed
  <2>2. SameBut(b.chats, d.chats, added)
    BY <1>4, <2>1 DEF SameBut
  <2>3. \A a \in added : d.chats[a].id \notin Ids(b)
    BY <1>4, <2>1 DEF Ids
  <2> QED
    BY <1>4, <2>1, <2>2, <2>3
<1>8. cmd.onConflict = "fail" /\ ~cmd.all => listed \subseteq Ids(d)
  BY <1>1, <1>3 DEF Entry, Ids
<1>9. ImportFits(b, d, cmd, listed)
  <2>1. \A a \in {x \in DOMAIN b.chats : d.chats[x].id # b.chats[x].id} : d.chats[a].id \in listed
    BY <1>4
  <2> QED
    BY <1>4, <1>5, <1>7, <1>8, <2>1 DEF ImportFits
<1> QED
  BY <1>1, <1>3, <1>6, <1>9

LEMMA ListedIs ==
  ASSUME NEW x
  PROVE  Listed(x) \in Seq(UUIDs) /\ Range(Listed(x)) \subseteq UUIDs
<1>1. Listed(x) \in Seq(UUIDs)
  BY ContentAssumption DEF ContentAssumption, Listed
<1> QED
  BY <1>1 DEF Range

LEMMA ImportIs ==
  ASSUME NEW b, IsContent(b), OneDefault(b),
         NEW c, IsContent(c), c.chats = b.chats, c.bots = b.bots, c.keys = b.keys,
         NEW cmd, NEW bot, Import(c, cmd, Listed(bot)) # Error
  PROVE  LET d == Import(c, cmd, Listed(bot))
         IN /\ IsContent(d) /\ OneDefault(d) /\ d.bots = b.bots /\ d.keys = b.keys
            /\ ImportFits(b, d, cmd, Range(Listed(bot)))
<1> DEFINE listed == Range(Listed(bot))
           acc == ImportChats(StartImport(c), cmd, Listed(bot), cmd.bot, Unset)
<1>1. Listed(bot) \in Seq(UUIDs) /\ listed \in SUBSET UUIDs
  BY ListedIs
<1>2. Import(c, cmd, Listed(bot)) = EndImport(c, acc, cmd)
  BY DEF Import
<1>3. Imported(b, listed, StartImport(c)) /\ Indexed(b, StartImport(c))
  BY StartImported
<1>4. /\ Imported(b, listed, acc)
      /\ cmd.onConflict # "overwrite" => Indexed(b, acc)
      /\ cmd.onConflict = "fail" /\ ~cmd.all /\ ~acc.failed => \A u \in listed : Entry(acc, u)
  BY <1>1, <1>3, ChatsImported
<1> HIDE DEF acc, listed
<1>5. EndImport(c, acc, cmd) # Error
  BY <1>2
<1>6. LET d == EndImport(c, acc, cmd)
      IN /\ IsContent(d) /\ OneDefault(d) /\ d.bots = b.bots /\ d.keys = b.keys
         /\ ImportFits(b, d, cmd, listed)
  BY <1>1, <1>4, <1>5, EndedImport
<1> QED
  BY <1>2, <1>6 DEF listed

LEMMA ImportAllIs ==
  ASSUME NEW b, IsContent(b), OneDefault(b),
         NEW c, IsContent(c), c.chats = b.chats, c.bots = b.bots, c.keys = b.keys,
         NEW cmd, cmd.all, NEW answered \in SUBSET DOMAIN b.bots,
         ImportAll(c, cmd, BotOrder, answered) # Error
  PROVE  LET d == ImportAll(c, cmd, BotOrder, answered)
         IN /\ IsContent(d) /\ OneDefault(d) /\ d.bots = b.bots /\ d.keys = b.keys
            /\ ImportFits(b, d, cmd, UNION {Range(Listed(n)) : n \in DOMAIN b.bots})
<1> DEFINE listed == UNION {Range(Listed(n)) : n \in DOMAIN b.bots}
<1>1. /\ listed \in SUBSET UUIDs
      /\ \A x \in answered : Range(Listed(x)) \subseteq listed
  BY ListedIs
<1> HIDE DEF listed
<1>2. Imported(b, listed, StartImport(c)) /\ Indexed(b, StartImport(c))
  BY StartImported
<1>3. PICK acc : /\ ImportAll(c, cmd, BotOrder, answered) = EndImport(c, acc, cmd)
                 /\ Imported(b, listed, acc)
                 /\ cmd.onConflict # "overwrite" => Indexed(b, acc)
  BY <1>1, <1>2, BotsImported
<1>4. EndImport(c, acc, cmd) # Error
  BY <1>3
<1>5. LET d == EndImport(c, acc, cmd)
      IN /\ IsContent(d) /\ OneDefault(d) /\ d.bots = b.bots /\ d.keys = b.keys
         /\ ImportFits(b, d, cmd, listed)
  BY <1>1, <1>3, <1>4, EndedImport
<1> QED
  BY <1>3, <1>5 DEF listed

-----------------------------------------------------------------------------
(* What a command is about to write when it has read b.                    *)
Fits(b, c, k, asked) == c # Error /\ IsContent(c) /\ OneDefault(c) /\ AsAsked(b, c, k, asked)

Good(c) == IsContent(c) /\ OneDefault(c)

LEMMA ChangeFits ==
  ASSUME NEW b, Good(b), NEW k, NEW asked,
         k.kind \in {"set", "rm", "add", "botAdd", "botRm", "keyAdd", "keyRm"},
         Changed(b, k) # Error
  PROVE  Fits(b, Changed(b, k), k, asked)
<1> DEFINE d == Changed(b, k)
<1>0. IsContent(b) /\ OneDefault(b)
  BY DEF Good
<1>1. CASE k.kind = "set"
  <2> DEFINE bot == KeptBot(b, k.alias, k.bot)
  <2>1. d = PutChat(b, k.alias, k.id, bot, k.default)
    BY <1>1 DEF Changed, ChatSet
  <2> HIDE DEF d, bot
  <2>2. /\ IsContent(d) /\ OneDefault(d) /\ d.bots = b.bots /\ d.keys = b.keys
        /\ SameBut(b.chats, d.chats, {k.alias}) /\ k.id \in Ids(d)
    <3> DEFINE alias == k.alias
               id == k.id
               wish == k.default
    <3>1. d = PutChat(b, alias, id, bot, wish) /\ d # Error
      BY <2>1 DEF d
    <3> HIDE DEF alias, id, wish
    <3>2. LET e == PutChat(b, alias, id, bot, wish)
          IN /\ IsContent(e) /\ OneDefault(e) /\ e.bots = b.bots /\ e.keys = b.keys
             /\ SameBut(b.chats, e.chats, {alias}) /\ id \in Ids(e)
      <4>1. PutChat(b, alias, id, bot, wish) # Error
        BY <3>1
      <4> QED
        BY <1>0, <4>1, PutChatIs
    <3> QED
      BY <3>1, <3>2 DEF alias, id
  <2>3. OwnAliases(b, k) = {k.alias}
    BY <1>1 DEF OwnAliases
  <2> QED
    BY <1>1, <2>2, <2>3 DEF Fits, AsAsked, d
<1>2. CASE k.kind = "rm"
  <2>1. d = ChatRm(b, k)
    BY <1>2 DEF Changed
  <2> HIDE DEF d
  <2>2. /\ IsContent(d) /\ OneDefault(d) /\ d.bots = b.bots /\ d.keys = b.keys
        /\ SameBut(b.chats, d.chats, {k.alias})
    BY <1>0, <2>1, ChatRmIs DEF d
  <2>3. OwnAliases(b, k) = {k.alias}
    BY <1>2 DEF OwnAliases
  <2> QED
    BY <1>2, <2>2, <2>3 DEF Fits, AsAsked, d
<1>3. CASE k.kind = "add"
  <2> DEFINE c == LoadMinimal(b, k)
  <2>1. d = PutChat(c, k.alias, k.id, k.bot, k.default)
    BY <1>3 DEF Changed, ChatAdd
  <2>2. IsContent(c) /\ c.chats = b.chats /\ c.bots = b.bots /\ c.keys = b.keys
    BY <1>0, LoadedContent
  <2> HIDE DEF c, d
  <2>3. OneDefault(c)
    BY <1>0, <2>2, SameDefaults DEF Defaults
  <2>4. /\ IsContent(d) /\ OneDefault(d) /\ d.bots = b.bots /\ d.keys = b.keys
        /\ SameBut(b.chats, d.chats, {k.alias}) /\ k.id \in Ids(d)
    BY <2>1, <2>2, <2>3, PutChatIs DEF d
  <2>5. OwnAliases(b, k) = {k.alias}
    BY <1>3 DEF OwnAliases
  <2> QED
    BY <1>3, <2>4, <2>5 DEF Fits, AsAsked, d
<1>4. CASE k.kind = "botAdd"
  <2>1. d = BotAdd(b, k)
    BY <1>4 DEF Changed
  <2> HIDE DEF d
  <2>2. /\ IsContent(d) /\ OneDefault(d) /\ d.chats = b.chats /\ d.keys = b.keys
        /\ \A m, n \in DOMAIN d.bots :
             d.bots[m].id = d.bots[n].id /\ m # n => {m, n} \subseteq DOMAIN b.bots
    BY <1>0, <2>1, BotAddIs DEF d
  <2>3. SameBut(b.chats, d.chats, OwnAliases(b, k))
    BY <2>2 DEF SameBut
  <2> QED
    BY <1>4, <2>2, <2>3 DEF Fits, AsAsked, d
<1>5. CASE k.kind = "botRm"
  <2>1. d = BotRm(b, k)
    BY <1>5 DEF Changed
  <2> HIDE DEF d
  <2>2. IsContent(d) /\ OneDefault(d) /\ d.chats = b.chats /\ d.keys = b.keys
    BY <1>0, <2>1, BotRmIs DEF d
  <2>3. SameBut(b.chats, d.chats, OwnAliases(b, k))
    BY <2>2 DEF SameBut
  <2> QED
    BY <1>5, <2>2, <2>3 DEF Fits, AsAsked, d
<1>6. CASE k.kind \in {"keyAdd", "keyRm"}
  <2>1. \E f : d = [b EXCEPT !.keys = f]
    BY <1>6 DEF Changed, KeyAdd, KeyRm
  <2> HIDE DEF d
  <2>2. IsContent(d) /\ OneDefault(d) /\ d.chats = b.chats /\ d.bots = b.bots
    BY <1>0, <2>1, NewKeysIs
  <2>3. SameBut(b.chats, d.chats, OwnAliases(b, k))
    BY <2>2 DEF SameBut
  <2> QED
    BY <1>6, <2>2, <2>3 DEF Fits, AsAsked, d
<1> QED
  BY <1>1, <1>2, <1>3, <1>4, <1>5, <1>6

LEMMA LookupFits ==
  ASSUME NEW b, Good(b), NEW k, NEW bot, k.kind \in {"find", "import"},
         NEW d \in Found(LoadMinimal(b, k), k, Listed(bot)), d # Error
  PROVE  Fits(b, d, k, {bot})
<1> DEFINE c == LoadMinimal(b, k)
<1>0. IsContent(b) /\ OneDefault(b)
  BY DEF Good
<1>1. IsContent(c) /\ c.chats = b.chats /\ c.bots = b.bots /\ c.keys = b.keys
  BY <1>0, LoadedContent
<1> HIDE DEF c
<1>2. CASE k.kind = "find"
  <2>1. \E alias \in FoundAliases(c, k) : d = ChatFound(c, k, alias)
    BY <1>2 DEF Found, c
  <2>2. OneDefault(c)
    BY <1>0, <1>1, SameDefaults DEF Defaults
  <2>3. /\ IsContent(d) /\ OneDefault(d) /\ d.bots = c.bots /\ d.keys = c.keys
        /\ SameBut(c.chats, d.chats, OwnAliases(c, k)) /\ k.id \in Ids(d)
    BY <1>1, <1>2, <2>1, <2>2, ChatFoundIs
  <2>4. OwnAliases(c, k) = OwnAliases(b, k)
    BY <1>1, <1>2 DEF OwnAliases, Aliased
  <2> QED
    BY <1>1, <1>2, <2>3, <2>4 DEF Fits, AsAsked
<1>3. CASE k.kind = "import"
  <2>1. d = Import(c, k, Listed(bot))
    BY <1>3 DEF Found, c
  <2>2. /\ IsContent(d) /\ OneDefault(d) /\ d.bots = b.bots /\ d.keys = b.keys
        /\ ImportFits(b, d, k, Range(Listed(bot)))
    BY <1>0, <1>1, <2>1, ImportIs
  <2>3. Range(Listed(bot)) = UNION {Range(Listed(n)) : n \in {bot}}
    OBVIOUS
  <2> QED
    BY <1>3, <2>2, <2>3 DEF Fits, AsAsked
<1> QED
  BY <1>2, <1>3

LEMMA ImportAllFits ==
  ASSUME NEW b, Good(b), NEW k, k.kind = "import", k.all, NEW answered \in SUBSET DOMAIN b.bots,
         ImportAll(LoadMinimal(b, k), k, BotOrder, answered) # Error
  PROVE  Fits(b, ImportAll(LoadMinimal(b, k), k, BotOrder, answered), k, DOMAIN b.bots)
<1> DEFINE c == LoadMinimal(b, k)
           d == ImportAll(c, k, BotOrder, answered)
<1>0. IsContent(b) /\ OneDefault(b)
  BY DEF Good
<1>1. IsContent(c) /\ c.chats = b.chats /\ c.bots = b.bots /\ c.keys = b.keys
  BY <1>0, LoadedContent
<1>2. d # Error
  OBVIOUS
<1> HIDE DEF c
<1>3. /\ IsContent(d) /\ OneDefault(d) /\ d.bots = b.bots /\ d.keys = b.keys
      /\ ImportFits(b, d, k, UNION {Range(Listed(n)) : n \in DOMAIN b.bots})
  BY <1>0, <1>1, <1>2, ImportAllIs
<1> HIDE DEF d
<1>4. Fits(b, d, k, DOMAIN b.bots)
  BY <1>2, <1>3 DEF Fits, AsAsked
<1> QED
  BY <1>4 DEF c, d

-----------------------------------------------------------------------------
(* The inductive invariant, process by process: FileInv, and that what is  *)
(* about to be written is what was asked for.                              *)
Places == {"idle", "listed", "editing", "check", "asked", "empty", "write", "rename"}

AskedOf(r) == IF r.cmd.all THEN DOMAIN r.base.bots ELSE {r.bot}

Sound(r) ==
  /\ r = Process(r.at, r.cmd, r.base, r.new, r.bot) /\ r.at \in Places
  /\ r.at = "listed" => r.cmd.kind \in {"find", "import"} /\ ~r.cmd.all
  /\ r.at \in {"editing", "check", "rename"} => r.cmd.kind = "edit"
  /\ r.new # Error /\ IsContent(r.new) /\ OneDefault(r.new)
  /\ r.at \in {"asked", "empty", "write"} /\ r.cmd.kind # "edit" =>
       AsAsked(r.base, r.new, r.cmd, AskedOf(r))

FdOK == fd \in [Procs -> {"closed", "emptied", "mixed", "lost"}]
ProcOK == proc = [p \in Procs |-> proc[p]] /\ \A p \in Procs : Sound(proc[p])
FileGood == file # Error => Good(file)

ProcessInv == FdOK /\ ProcOK /\ FileGood /\ EditSeen

LEMMA InvIs == FileInv /\ OnlyWhatWasAsked <=> ProcessInv
<1>1. FileTypeOK /\ Planned /\ OnlyWhatWasAsked <=> FdOK /\ ProcOK
  <2>1. ASSUME FileTypeOK, Planned, OnlyWhatWasAsked PROVE FdOK /\ ProcOK
    BY <2>1 DEF FileTypeOK, Planned, OnlyWhatWasAsked, FdOK, ProcOK, Sound, Places, AskedOf
  <2>2. ASSUME FdOK, ProcOK PROVE FileTypeOK /\ Planned /\ OnlyWhatWasAsked
    <3>1. DOMAIN proc = Procs
      BY <2>2 DEF ProcOK
    <3>2. FileTypeOK
      BY <2>2, <3>1 DEF FileTypeOK, FdOK, ProcOK, Sound, Places
    <3>3. Planned
      BY <2>2 DEF ProcOK, Sound, Planned
    <3>4. OnlyWhatWasAsked
      BY <2>2 DEF ProcOK, Sound, OnlyWhatWasAsked, AskedOf
    <3> QED
      BY <3>2, <3>3, <3>4
  <2> QED
    BY <2>1, <2>2
<1>2. DefaultUnique <=> FileGood
  BY DEF DefaultUnique, FileGood, Good
<1> QED
  BY <1>1, <1>2 DEF FileInv, ProcessInv

(* One process at another place; the rest stand where they stood.          *)
LEMMA Became ==
  ASSUME ProcOK, NEW p \in Procs, NEW r, Become(p, r), Sound(r)
  PROVE  ProcOK' /\ proc'[p] = r /\ \A q \in Procs : q # p => proc'[q] = proc[q]
  BY DEF ProcOK, Become

LEMMA Moved ==
  ASSUME ProcOK, NEW p \in Procs, NEW l \in Places, MoveTo(p, l),
         l # "listed", l \in {"editing", "check", "rename"} => proc[p].cmd.kind = "edit",
         \/ proc[p].at \in {"asked", "empty", "write"} \/ proc[p].cmd.kind = "edit"
  PROVE  /\ ProcOK' /\ proc'[p].at = l
         /\ \A q \in Procs : q # p => proc'[q] = proc[q]
         /\ proc'[p].base = proc[p].base
<1> DEFINE old == proc[p]
           r == Process(l, old.cmd, old.base, old.new, old.bot)
<1>1. old = Process(old.at, old.cmd, old.base, old.new, old.bot) /\ Sound(old)
  BY DEF ProcOK, Sound
<1>2. [old EXCEPT !.at = l] = r
  BY <1>1 DEF Process
<1>3. Become(p, r)
  BY <1>2 DEF MoveTo, Become, ProcOK
<1>4. /\ r.at = l /\ r.cmd = old.cmd /\ r.base = old.base /\ r.new = old.new /\ r.bot = old.bot
  BY DEF Process
<1>5. AskedOf(r) = AskedOf(old)
  BY <1>4 DEF AskedOf
<1> HIDE DEF r, old
<1>6. Sound(r)
  <2>1. r = Process(r.at, r.cmd, r.base, r.new, r.bot)
    BY <1>4 DEF r
  <2> QED
    BY <1>1, <1>4, <1>5, <2>1 DEF Sound, old
<1>7. ProcOK' /\ proc'[p] = r /\ \A q \in Procs : q # p => proc'[q] = proc[q]
  BY <1>3, <1>6, Became
<1> QED
  BY <1>4, <1>7 DEF old

LEMMA ProcessIs ==
  ASSUME NEW at, NEW cmd, NEW base, NEW new, NEW bot
  PROVE  LET r == Process(at, cmd, base, new, bot)
         IN /\ r.at = at /\ r.cmd = cmd /\ r.base = base /\ r.new = new /\ r.bot = bot
            /\ r = Process(r.at, r.cmd, r.base, r.new, r.bot)
  BY DEF Process

LEMMA IdleSound == Sound(Idle) /\ Idle.at = "idle"
<1>1. /\ Idle.at = "idle" /\ Idle.new = Empty
      /\ Idle = Process(Idle.at, Idle.cmd, Idle.base, Idle.new, Idle.bot)
  BY DEF Idle, Process
<1> QED
  BY <1>1, EmptyIs DEF Sound, Places

(* Which steps make an edit unseen.                                        *)
LEMMA StillSeen ==
  ASSUME EditSeen, NEW p \in Procs,
         \A q \in Procs : q # p => proc'[q] = proc[q],
         proc'[p].at = "rename" => file' = proc'[p].base,
         \/ file' = file /\ stale \ {p} \subseteq stale'
         \/ Stales(p)
  PROVE  EditSeen'
  BY DEF EditSeen, Stales

LEMMA PlanKeeps ==
  ASSUME ProcOK, NEW p \in Procs, NEW k, NEW r, NEW c, NEW b, NEW next \in {"asked", "empty"},
         Plan(p, k, r, c, b, next),
         c # Error => Fits(r, c, k, IF k.all THEN DOMAIN r.bots ELSE {b})
  PROVE  /\ ProcOK' /\ proc'[p].at # "rename"
         /\ \A q \in Procs : q # p => proc'[q] = proc[q]
<1>1. CASE c = Error
  BY <1>1, IdleSound, Became DEF Plan
<1>2. CASE c # Error
  <2> DEFINE s == Process(next, k, r, c, b)
  <2>1. Become(p, s)
    BY <1>2 DEF Plan
  <2>2. /\ s.at = next /\ s.cmd = k /\ s.base = r /\ s.new = c /\ s.bot = b
        /\ s = Process(s.at, s.cmd, s.base, s.new, s.bot)
    BY ProcessIs
  <2> HIDE DEF s
  <2>3. Sound(s)
    BY <1>2, <2>2 DEF Sound, Fits, AskedOf, Places
  <2> QED
    BY <2>1, <2>2, <2>3, Became
<1> QED
  BY <1>1, <1>2

-----------------------------------------------------------------------------
LEMMA InitProcess == FileInit => ProcessInv
<1> SUFFICES ASSUME FileInit PROVE ProcessInv
  OBVIOUS
<1>1. FdOK /\ ProcOK
  BY IdleSound DEF FileInit, FdOK, ProcOK
<1>2. FileGood
  BY ConfigAssumption DEF ConfigAssumption, FileInit, FileGood, Good, ConfigValid
<1>3. EditSeen
  BY IdleSound DEF FileInit, EditSeen
<1> QED
  BY <1>1, <1>2, <1>3 DEF ProcessInv

LEMMA ReadKeeps ==
  ASSUME ProcessInv, NEW p \in Procs, NEW k,
         RunChange(p, k) \/ RunLookup(p, k) \/ RunImportAll(p, k)
  PROVE  ProcessInv'
<1>0. FdOK /\ ProcOK /\ FileGood /\ EditSeen
  BY DEF ProcessInv
<1>1. UNCHANGED <<file, fd, stale>>
  BY DEF RunChange, RunLookup, RunImportAll
<1>2. ProcOK' /\ proc'[p].at # "rename" /\ \A q \in Procs : q # p => proc'[q] = proc[q]
  <2>1. CASE RunChange(p, k)
    <3> DEFINE next == IF k.asks THEN "asked" ELSE "empty"
    <3>1. /\ Plan(p, k, file, Changed(file, k), Unset, next) /\ Good(file)
          /\ k.kind \in {"set", "rm", "add", "botAdd", "botRm", "keyAdd", "keyRm"}
      BY <1>0, <2>1 DEF RunChange, FileGood
    <3>2. next \in {"asked", "empty"}
      OBVIOUS
    <3> HIDE DEF next
    <3>3. Changed(file, k) # Error =>
            Fits(file, Changed(file, k), k, IF k.all THEN DOMAIN file.bots ELSE {Unset})
      BY <3>1, ChangeFits
    <3> QED
      BY <1>0, <3>1, <3>2, <3>3, PlanKeeps
  <2>2. CASE RunLookup(p, k)
    <3>1. PICK bot : Become(p, Process("listed", k, Empty, Empty, bot))
      BY <2>2 DEF RunLookup
    <3> DEFINE r == Process("listed", k, Empty, Empty, bot)
    <3>2. r.at = "listed" /\ r.cmd = k /\ r.new = Empty /\ r = Process(r.at, r.cmd, r.base, r.new, r.bot)
      BY ProcessIs
    <3>3. k.kind \in {"find", "import"} /\ ~k.all
      BY <2>2 DEF RunLookup
    <3> HIDE DEF r
    <3>4. Sound(r)
      BY <3>2, <3>3, EmptyIs DEF Sound, Places
    <3> QED
      BY <1>0, <3>1, <3>2, <3>4, Became DEF r
  <2>3. CASE RunImportAll(p, k)
    <3>1. /\ k.kind = "import" /\ k.all /\ Good(file)
          /\ \E a \in SUBSET DOMAIN file.bots :
               Plan(p, k, file, ImportAll(LoadMinimal(file, k), k, BotOrder, a), Unset, "asked")
      BY <1>0, <2>3 DEF RunImportAll, FileGood
    <3>2. PICK a \in SUBSET DOMAIN file.bots :
            Plan(p, k, file, ImportAll(LoadMinimal(file, k), k, BotOrder, a), Unset, "asked")
      BY <3>1
    <3> DEFINE c == ImportAll(LoadMinimal(file, k), k, BotOrder, a)
    <3>3. c # Error => Fits(file, c, k, DOMAIN file.bots)
      BY <3>1, ImportAllFits
    <3> HIDE DEF c
    <3> QED
      BY <1>0, <3>1, <3>2, <3>3, PlanKeeps DEF c
  <2> QED
    BY <2>1, <2>2, <2>3
<1>3. EditSeen'
  BY <1>0, <1>1, <1>2, StillSeen
<1> QED
  BY <1>0, <1>1, <1>2, <1>3 DEF ProcessInv, FdOK, FileGood

LEMMA ReloadKeeps ==
  ASSUME ProcessInv, NEW p \in Procs, Reload(p)
  PROVE  ProcessInv'
<1>0. FdOK /\ ProcOK /\ FileGood /\ EditSeen
  BY DEF ProcessInv
<1>1. UNCHANGED <<file, fd, stale>>
  BY DEF Reload
<1> DEFINE k == proc[p].cmd
           bot == proc[p].bot
           Goes(c) == Plan(p, k, file, c, bot, "empty")
<1>2. k.kind \in {"find", "import"} /\ ~k.all
  BY <1>0 DEF Reload, ProcOK, Sound
<1>3. \/ file = Error /\ Become(p, Idle)
      \/ file # Error /\ \E c \in Found(LoadMinimal(file, k), k, Listed(bot)) : Goes(c)
  BY DEF Reload
<1>4. ProcOK' /\ proc'[p].at # "rename" /\ \A q \in Procs : q # p => proc'[q] = proc[q]
  <2>1. CASE Become(p, Idle)
    BY <1>0, <2>1, IdleSound, Became
  <2>2. ASSUME file # Error, NEW c \in Found(LoadMinimal(file, k), k, Listed(bot)), Goes(c)
        PROVE  ProcOK' /\ proc'[p].at # "rename" /\ \A q \in Procs : q # p => proc'[q] = proc[q]
    <3>1. Good(file)
      BY <1>0, <2>2 DEF FileGood
    <3> HIDE DEF k, bot
    <3>2. c # Error => Fits(file, c, k, {bot})
      BY <1>2, <3>1, LookupFits
    <3> QED
      BY <1>0, <1>2, <2>2, <3>2, PlanKeeps
  <2> QED
    BY <1>3, <2>1, <2>2
<1>5. EditSeen'
  BY <1>0, <1>1, <1>4, StillSeen
<1> QED
  BY <1>0, <1>1, <1>4, <1>5 DEF ProcessInv, FdOK, FileGood

LEMMA RunEditKeeps ==
  ASSUME ProcessInv, NEW p \in Procs, NEW k, RunEdit(p, k)
  PROVE  ProcessInv'
<1>0. FdOK /\ ProcOK /\ FileGood /\ EditSeen
  BY DEF ProcessInv
<1> DEFINE r == Process("editing", k, file, Empty, Unset)
<1>1. Become(p, r) /\ UNCHANGED <<file, fd, stale>> /\ k.kind = "edit"
  BY DEF RunEdit
<1>2. /\ r.at = "editing" /\ r.cmd = k /\ r.new = Empty
      /\ r = Process(r.at, r.cmd, r.base, r.new, r.bot)
  BY ProcessIs
<1> HIDE DEF r
<1>3. Sound(r)
  BY <1>1, <1>2, EmptyIs DEF Sound, Places
<1>4. ProcOK' /\ proc'[p].at # "rename" /\ \A q \in Procs : q # p => proc'[q] = proc[q]
  BY <1>0, <1>1, <1>2, <1>3, Became
<1>5. EditSeen'
  BY <1>0, <1>1, <1>4, StillSeen
<1> QED
  BY <1>0, <1>1, <1>4, <1>5 DEF ProcessInv, FdOK, FileGood

LEMMA AskedKeeps ==
  ASSUME ProcessInv, NEW p \in Procs, Asked(p)
  PROVE  ProcessInv'
<1>0. FdOK /\ ProcOK /\ FileGood /\ EditSeen
  BY DEF ProcessInv
<1>1. MoveTo(p, "empty") /\ UNCHANGED <<file, fd, stale>> /\ proc[p].at = "asked"
  BY DEF Asked
<1>2. ProcOK' /\ proc'[p].at = "empty" /\ \A q \in Procs : q # p => proc'[q] = proc[q]
  BY <1>0, <1>1, "empty" \in Places, Moved DEF Places
<1>3. EditSeen'
  BY <1>0, <1>1, <1>2, StillSeen
<1> QED
  BY <1>0, <1>1, <1>2, <1>3 DEF ProcessInv, FdOK, FileGood

LEMMA TruncateKeeps ==
  ASSUME ProcessInv, NEW p \in Procs, Truncate(p)
  PROVE  ProcessInv'
<1>0. FdOK /\ ProcOK /\ FileGood /\ EditSeen
  BY DEF ProcessInv
<1>1. /\ MoveTo(p, "write") /\ file' = Empty /\ fd' = [fd EXCEPT ![p] = "emptied"]
      /\ Stales(p) /\ proc[p].at = "empty"
  BY DEF Truncate
<1>2. ProcOK' /\ proc'[p].at = "write" /\ \A q \in Procs : q # p => proc'[q] = proc[q]
  BY <1>0, <1>1, "write" \in Places, Moved DEF Places
<1>3. EditSeen'
  BY <1>0, <1>1, <1>2, StillSeen
<1>4. FdOK' /\ FileGood'
  BY <1>0, <1>1, EmptyIs DEF FdOK, FileGood, Good
<1> QED
  BY <1>2, <1>3, <1>4 DEF ProcessInv

LEMMA WriteKeeps ==
  ASSUME ProcessInv, NEW p \in Procs, Write(p)
  PROVE  ProcessInv'
<1>0. FdOK /\ ProcOK /\ FileGood /\ EditSeen
  BY DEF ProcessInv
<1>1. /\ Become(p, Idle)
      /\ \/ UNCHANGED <<file, stale>>
         \/ (file' = proc[p].new \/ file' = Error) /\ Stales(p)
      /\ fd' = [q \in Procs |-> IF q = p THEN "closed"
                                ELSE IF fd[q] = "emptied" /\ fd[p] # "lost" THEN "mixed" ELSE fd[q]]
  BY DEF Write
<1>2. ProcOK' /\ proc'[p].at = "idle" /\ \A q \in Procs : q # p => proc'[q] = proc[q]
  BY <1>0, <1>1, IdleSound, Became
<1>3. EditSeen'
  BY <1>0, <1>1, <1>2, StillSeen
<1>4. FileGood'
  BY <1>0, <1>1 DEF ProcOK, Sound, FileGood, Good
<1>5. FdOK'
  BY <1>0, <1>1 DEF FdOK
<1> QED
  BY <1>2, <1>3, <1>4, <1>5 DEF ProcessInv

LEMMA EndEditorKeeps ==
  ASSUME ProcessInv, NEW p \in Procs, EndEditor(p)
  PROVE  ProcessInv'
<1>0. FdOK /\ ProcOK /\ FileGood /\ EditSeen
  BY DEF ProcessInv
<1>1. UNCHANGED <<file, fd, stale>> /\ proc[p].at = "editing"
  BY DEF EndEditor
<1>2. PICK c \in Edits :
        \/ Become(p, Idle)
        \/ ConfigValid(c) /\ Become(p, Process("check", proc[p].cmd, proc[p].base, c, Unset))
  BY DEF EndEditor
<1>3. ProcOK' /\ proc'[p].at # "rename" /\ \A q \in Procs : q # p => proc'[q] = proc[q]
  <2>1. CASE Become(p, Idle)
    BY <1>0, <2>1, IdleSound, Became
  <2>2. CASE ConfigValid(c) /\ Become(p, Process("check", proc[p].cmd, proc[p].base, c, Unset))
    <3> DEFINE old == proc[p]
               r == Process("check", old.cmd, old.base, c, Unset)
    <3>1. old.cmd.kind = "edit"
      BY <1>0, <1>1 DEF ProcOK, Sound
    <3>2. Become(p, r)
      BY <2>2
    <3>3. /\ r.at = "check" /\ r.cmd = old.cmd /\ r.new = c
          /\ r = Process(r.at, r.cmd, r.base, r.new, r.bot)
      BY ProcessIs
    <3>4. c # Error /\ IsContent(c) /\ OneDefault(c)
      BY <2>2, ConfigAssumption DEF ConfigAssumption, ConfigValid
    <3> HIDE DEF r, old
    <3>5. Sound(r)
      BY <3>1, <3>3, <3>4 DEF Sound, Places
    <3> QED
      BY <1>0, <3>2, <3>3, <3>5, Became
  <2> QED
    BY <1>2, <2>1, <2>2
<1>4. EditSeen'
  BY <1>0, <1>1, <1>3, StillSeen
<1> QED
  BY <1>0, <1>1, <1>3, <1>4 DEF ProcessInv, FdOK, FileGood

LEMMA CheckKeeps ==
  ASSUME ProcessInv, NEW p \in Procs, Check(p)
  PROVE  ProcessInv'
<1>0. FdOK /\ ProcOK /\ FileGood /\ EditSeen
  BY DEF ProcessInv
<1>1. UNCHANGED <<file, fd>> /\ stale' = stale \ {p} /\ proc[p].cmd.kind = "edit"
  BY <1>0 DEF Check, ProcOK, Sound
<1>2. /\ ProcOK' /\ \A q \in Procs : q # p => proc'[q] = proc[q]
      /\ proc'[p].at = "rename" => file' = proc'[p].base
  <2>1. CASE file = proc[p].base /\ MoveTo(p, "rename")
    <3>1. ProcOK' /\ (\A q \in Procs : q # p => proc'[q] = proc[q]) /\ proc'[p].base = proc[p].base
      BY <1>0, <1>1, <2>1, "rename" \in Places, Moved DEF Places
    <3> QED
      BY <1>1, <2>1, <3>1
  <2>2. CASE Become(p, Idle)
    BY <1>0, <2>2, IdleSound, Became
  <2> QED
    BY <2>1, <2>2 DEF Check
<1>3. EditSeen'
  BY <1>0, <1>1, <1>2, StillSeen
<1> QED
  BY <1>0, <1>1, <1>2, <1>3 DEF ProcessInv, FdOK, FileGood

LEMMA RenameKeeps ==
  ASSUME ProcessInv, NEW p \in Procs, Rename(p)
  PROVE  ProcessInv'
<1>0. FdOK /\ ProcOK /\ FileGood /\ EditSeen
  BY DEF ProcessInv
<1>1. Stales(p) /\ proc[p].at = "rename" /\ proc[p].cmd.kind = "edit"
  BY <1>0 DEF Rename, ProcOK, Sound
<1>2. CASE /\ Become(p, Idle) /\ file' = proc[p].new
           /\ fd' = [q \in Procs |-> IF fd[q] = "closed" THEN "closed" ELSE "lost"]
  <2>1. ProcOK' /\ proc'[p].at = "idle" /\ \A q \in Procs : q # p => proc'[q] = proc[q]
    BY <1>0, <1>2, IdleSound, Became
  <2>2. EditSeen'
    BY <1>0, <1>1, <2>1, StillSeen
  <2>3. FileGood' /\ FdOK'
    BY <1>0, <1>2 DEF ProcOK, Sound, FileGood, Good, FdOK
  <2> QED
    BY <2>1, <2>2, <2>3 DEF ProcessInv
<1>3. CASE MoveTo(p, "write") /\ file' = Empty /\ fd' = [fd EXCEPT ![p] = "emptied"]
  <2>1. ProcOK' /\ proc'[p].at = "write" /\ \A q \in Procs : q # p => proc'[q] = proc[q]
    BY <1>0, <1>1, <1>3, "write" \in Places, Moved DEF Places
  <2>2. EditSeen'
    BY <1>0, <1>1, <2>1, StillSeen
  <2>3. FileGood' /\ FdOK'
    BY <1>0, <1>3, EmptyIs DEF FileGood, Good, FdOK
  <2> QED
    BY <2>1, <2>2, <2>3 DEF ProcessInv
<1> QED
  BY <1>2, <1>3 DEF Rename

LEMMA StopKeeps ==
  ASSUME ProcessInv, NEW p \in Procs, Stop(p)
  PROVE  ProcessInv'
<1>0. FdOK /\ ProcOK /\ FileGood /\ EditSeen
  BY DEF ProcessInv
<1>1. Become(p, Idle) /\ fd' = [fd EXCEPT ![p] = "closed"] /\ stale' = stale \ {p} /\ UNCHANGED file
  BY DEF Stop
<1>2. ProcOK' /\ proc'[p].at = "idle" /\ \A q \in Procs : q # p => proc'[q] = proc[q]
  BY <1>0, <1>1, IdleSound, Became
<1>3. EditSeen'
  BY <1>0, <1>1, <1>2, StillSeen
<1>4. FdOK'
  BY <1>0, <1>1 DEF FdOK
<1> QED
  BY <1>0, <1>1, <1>2, <1>3, <1>4 DEF ProcessInv, FileGood

LEMMA NextProcess == ProcessInv /\ [FileNext]_fileVars => ProcessInv'
<1> SUFFICES ASSUME ProcessInv, [FileNext]_fileVars PROVE ProcessInv'
  OBVIOUS
<1>1. CASE UNCHANGED fileVars
  BY <1>1 DEF fileVars, ProcessInv, FdOK, ProcOK, FileGood, EditSeen
<1>2. ASSUME NEW p \in Procs, Step(p) PROVE ProcessInv'
  BY <1>2, ReloadKeeps, AskedKeeps, TruncateKeeps, WriteKeeps, EndEditorKeeps, CheckKeeps,
     RenameKeeps, StopKeeps DEF Step
<1>3. ASSUME NEW p \in Procs, NEW k \in Commands, Run(p, k) PROVE ProcessInv'
  BY <1>3, ReadKeeps, RunEditKeeps DEF Run
<1> QED
  BY <1>1, <1>2, <1>3 DEF FileNext

(* However commands overlap, fail or are killed on the file: it never      *)
(* marks two chats as the default, and an edit replaces only what its user *)
(* saw, or a change between its check and its rename.                      *)
THEOREM FileInvariance == FileSpec => []FileInv
<1>1. ProcessInv => FileInv
  BY InvIs
<1> QED
  BY <1>1, InitProcess, NextProcess, PTL DEF FileSpec

(* What a command writes is the content it read with what it was asked for *)
(* changed, for every content, every listing and every order of the chats  *)
(* and bots it imports.                                                    *)
THEOREM Asks == FileSpec => []OnlyWhatWasAsked
<1>1. ProcessInv => OnlyWhatWasAsked
  BY InvIs
<1> QED
  BY <1>1, InitProcess, NextProcess, PTL DEF FileSpec

-----------------------------------------------------------------------------
(* The commands that only read: the bot is the chat's, the id the chat's,  *)
(* whatever the content.                                                   *)
LEMMA OnlyOne ==
  ASSUME NEW S
  PROVE  (Cardinality(S) = 1 => S # {} /\ TheOnly(S) \in S) /\ (S # {} => TheOnly(S) \in S)
  BY FS_EmptySet DEF TheOnly

LEMMA NoneNamed ==
  ASSUME NEW c, NEW u, u.bot = Unset, ~u.creds, Cardinality(DOMAIN c.bots) > 1
  PROVE  NamedBot(c, u) = Unset
<1>1. Cardinality(DOMAIN c.bots) # 1
  OBVIOUS
<1> QED
  BY <1>1 DEF NamedBot

LEMMA MadeIs ==
  ASSUME NEW bot, NEW ref, NEW id, Made(bot, ref, id) # NoTarget
  PROVE  /\ bot # Error /\ ref # Error /\ id # Error
         /\ Made(bot, ref, id).bot = bot /\ Made(bot, ref, id).ref = ref /\ Made(bot, ref, id).id = id
  BY DEF Made, Target

LEMMA ChatRefIs ==
  ASSUME NEW c, NEW ref, ref \notin UUIDs, ChatRef(c, ref) # Error
  PROVE  ref \in DOMAIN c.chats /\ ChatRef(c, ref) = c.chats[ref].id
  BY DEF ChatRef, AliasId, IsUUID

LEMMA KnownIs ==
  ASSUME NEW c, NEW name, Known(c, name) # Error
  PROVE  Known(c, name) = name /\ name \in DOMAIN c.bots
  BY DEF Known

(* chats info.                                                             *)
LEMMA InfoBound ==
  ASSUME NEW c, NEW u, u.bot = Unset, ~u.creds, Cardinality(DOMAIN c.bots) > 1,
         ChatTarget(c, u) # NoTarget
  PROVE  LET t == ChatTarget(c, u)
         IN /\ t.ref \in DOMAIN c.chats
            /\ t.bot = c.chats[t.ref].bot /\ t.bot \in DOMAIN c.bots
            /\ u.chat \notin UUIDs => t.id = c.chats[t.ref].id
<1> DEFINE t == ChatTarget(c, u)
           bot == Load(c, u)
           ref == RequiredChat(c, u.chat)
           id == RequiredId(c, u.chat)
           flagged == ChatBotFromFlags(c, u.chat)
<1>1. t = Made(bot, ref, id)
  BY DEF ChatTarget
<1> HIDE DEF t, bot, ref, id
<1>2. /\ bot # Error /\ ref # Error /\ id # Error
      /\ t.bot = bot /\ t.ref = ref /\ t.id = id
  BY <1>1, MadeIs DEF t
<1>3. bot = Known(c, flagged) /\ flagged # Unset
  BY <1>2, NoneNamed DEF bot, Load
<1>4. ref \in DOMAIN c.chats /\ flagged = c.chats[ref].bot
  <2>1. CASE u.chat # Unset
    BY <1>3, <2>1 DEF ChatBotFromFlags, RequiredChat, ref
  <2>2. CASE u.chat = Unset /\ Cardinality(DOMAIN c.chats) = 1
    <3>1. TheOnly(DOMAIN c.chats) \in DOMAIN c.chats
      BY <2>2, OnlyOne
    <3> QED
      BY <2>2, <3>1 DEF ChatBotFromFlags, RequiredChat, ref
  <2>3. CASE u.chat = Unset /\ Cardinality(DOMAIN c.chats) # 1
    <3>1. Defaults(c) # {}
      BY <1>3, <2>3 DEF ChatBotFromFlags
    <3>2. TheOnly(Defaults(c)) \in DOMAIN c.chats
      BY <3>1, OnlyOne DEF Defaults
    <3> QED
      BY <2>3, <3>1, <3>2 DEF ChatBotFromFlags, RequiredChat, ref
  <2> QED
    BY <2>1, <2>2, <2>3
<1> HIDE DEF flagged
<1>5. bot = flagged /\ bot \in DOMAIN c.bots
  BY <1>2, <1>3, KnownIs
<1>6. u.chat \notin UUIDs => id = c.chats[ref].id
  <2>1. CASE u.chat = Unset
    BY <1>2, <2>1 DEF RequiredId, AliasId, id, ref
  <2>2. CASE u.chat # Unset
    <3>1. ref = u.chat /\ id = ChatRef(c, u.chat)
      BY <2>2 DEF RequiredChat, RequiredId, ref, id
    <3> QED
      BY <1>2, <3>1, ChatRefIs
  <2> QED
    BY <2>1, <2>2
<1> QED
  BY <1>2, <1>4, <1>5, <1>6 DEF t

(* send.                                                                   *)
LEMMA SendBound ==
  ASSUME NEW c, NEW u, u.bot = Unset, ~u.creds, Cardinality(DOMAIN c.bots) > 1,
         SendTarget(c, u) # NoTarget
  PROVE  LET t == SendTarget(c, u)
         IN /\ t.ref \in DOMAIN c.chats
            /\ t.bot = c.chats[t.ref].bot /\ t.bot \in DOMAIN c.bots
            /\ u.chat \notin UUIDs => t.id = c.chats[t.ref].id
<1> DEFINE t == SendTarget(c, u)
           ref == IF u.chat = Unset THEN SingleOrDefault(c) ELSE u.chat
           bot == SendBot(c, u, ref)
           id == ChatRef(c, ref)
<1>1. t = Made(bot, ref, id) /\ LoadForServe(c, u) # Error
  BY DEF SendTarget
<1> HIDE DEF t, bot, ref, id
<1>2. /\ bot # Error /\ ref # Error /\ id # Error
      /\ t.bot = bot /\ t.ref = ref /\ t.id = id
  BY <1>1, MadeIs DEF t
<1>3. LoadForServe(c, u) = Unset
  BY <1>1, NoneNamed DEF LoadForServe
<1>4. ref \notin UUIDs /\ bot = Known(c, c.chats[ref].bot)
  BY <1>2, <1>3 DEF SendBot, IsUUID, bot
<1>5. ref \in DOMAIN c.chats /\ id = c.chats[ref].id
  BY <1>2, <1>4, ChatRefIs DEF id
<1>6. bot = c.chats[ref].bot /\ bot \in DOMAIN c.bots
  BY <1>2, <1>4, KnownIs
<1> QED
  BY <1>2, <1>5, <1>6 DEF t

(* With several bots and none named, a command that only reads works with  *)
(* the bot its chat is bound to, for every content and every command.      *)
THEOREM Binds == FileSpec => []BoundBot
<1>1. BoundBot
  <2> SUFFICES ASSUME NEW k \in Commands, file # Error, k.bot = Unset, ~k.creds,
                      Cardinality(DOMAIN file.bots) > 1
               PROVE  LET t == IF k.kind = "info" THEN ChatTarget(file, k) ELSE SendTarget(file, k)
                      IN /\ k.kind \in {"info", "send"} /\ t # NoTarget =>
                              /\ t.ref \in DOMAIN file.chats
                              /\ t.bot = file.chats[t.ref].bot /\ t.bot \in DOMAIN file.bots
                              /\ k.chat \notin UUIDs => t.id = file.chats[t.ref].id
                         /\ k.kind = "api" => LoadForAPI(file, k) \in {Error, "env"}
    BY DEF BoundBot
  <2>1. LoadForAPI(file, k) \in {Error, "env"}
    BY NoneNamed DEF LoadForAPI
  <2>2. CASE k.kind = "info"
    BY <2>1, <2>2, InfoBound
  <2>3. CASE k.kind # "info"
    BY <2>1, <2>3, SendBound
  <2> QED
    BY <2>2, <2>3
<1> QED
  BY <1>1, PTL
-----------------------------------------------------------------------------
(* GitlabHook: its folds, step by step.                                    *)
Steps(w, start, entries, f) ==
  /\ f[0] = start
  /\ \A i \in 0 .. Len(entries) - 1 : f[i + 1] = Taking(f[i], entries[i + 1], w)

LEMMA StepsOf ==
  ASSUME NEW w, NEW start, NEW S, NEW entries \in Seq(S), NEW g,
         Folds(w, start, entries, Len(entries), g)
  PROVE  LET f == [i \in 0 .. Len(entries) |-> g[1 .. i]]
         IN Steps(w, start, entries, f) /\ f[Len(entries)] = g[1 .. Len(entries)]
<1>1. Len(entries) \in Nat
  OBVIOUS
<1>2. Unfolds(w, start, entries, Len(entries), g)
  BY <1>1, Unfolded
<1>3. \A i \in 0 .. Len(entries) - 1 : i \in 0 .. Len(entries) /\ i + 1 \in 0 .. Len(entries)
  BY <1>1
<1> QED
  BY <1>1, <1>2, <1>3 DEF Unfolds, Steps

LEMMA UniqueSteps ==
  ASSUME NEW S, NEW refs \in Seq(S)
  PROVE  \E f : /\ f[0] = <<>>
                /\ \A i \in 0 .. Len(refs) - 1 :
                     f[i + 1] = IF refs[i + 1] \in ToSet(f[i]) THEN f[i]
                                ELSE Append(f[i], refs[i + 1])
                /\ Unique(refs) = f[Len(refs)]
<1>1. DOMAIN refs = 1 .. Len(refs) /\ Len(refs) \in Nat
  OBVIOUS
<1> DEFINE w == KeepsFirst
           Is(f) == f = [s \in SUBSET (1 .. Len(refs)) |->
                           IF s = {} THEN <<>>
                           ELSE IF refs[Max(s)] \in ToSet(f[s \ {Max(s)}]) THEN f[s \ {Max(s)}]
                                ELSE Append(f[s \ {Max(s)}], refs[Max(s)])]
           g == CHOOSE f : Is(f)
<1>2. \A a, x : Taking(a, x, w) = IF x \in ToSet(a) THEN a ELSE Append(a, x)
  BY DEF Taking, KeepsFirst
<1> HIDE DEF w
<1>3. ASSUME NEW f, Folds(w, <<>>, refs, Len(refs), f) PROVE Is(f)
  BY <1>2, <1>3, Zenon DEF Folds
<1>4. ASSUME NEW f, Is(f) PROVE Folds(w, <<>>, refs, Len(refs), f)
  BY <1>2, <1>4, Zenon DEF Folds
<1>5. \E f : Is(f)
  BY <1>1, <1>3, FoldExists
<1>6. Is(g)
  BY <1>5, Zenon
<1>7. Unique(refs) = g[1 .. Len(refs)]
  BY <1>1 DEF Unique, FoldLeft, MapThenFoldSet
<1>8. Folds(w, <<>>, refs, Len(refs), g)
  BY <1>4, <1>6
<1> HIDE DEF g, Is
<1>9. PICK f : Steps(w, <<>>, refs, f) /\ f[Len(refs)] = g[1 .. Len(refs)]
  BY <1>8, StepsOf
<1> QED
  BY <1>2, <1>7, <1>9 DEF Steps

LEMMA NamesSteps ==
  ASSUME NEW S, NEW rules \in Seq(S)
  PROVE  \E f : /\ f[0] = <<>>
                /\ \A i \in 0 .. Len(rules) - 1 : f[i + 1] = f[i] \o rules[i + 1].chats
                /\ FoldLeft(LAMBDA named, rule : named \o rule.chats, <<>>, rules) = f[Len(rules)]
<1>1. DOMAIN rules = 1 .. Len(rules) /\ Len(rules) \in Nat
  OBVIOUS
<1> DEFINE w == AddsNames
           Is(f) == f = [s \in SUBSET (1 .. Len(rules)) |->
                           IF s = {} THEN <<>> ELSE f[s \ {Max(s)}] \o rules[Max(s)].chats]
           g == CHOOSE f : Is(f)
<1>2. \A a, x : Taking(a, x, w) = a \o x.chats
  BY DEF Taking, AddsNames
<1> HIDE DEF w
<1>3. ASSUME NEW f, Folds(w, <<>>, rules, Len(rules), f) PROVE Is(f)
  BY <1>2, <1>3, Zenon DEF Folds
<1>4. ASSUME NEW f, Is(f) PROVE Folds(w, <<>>, rules, Len(rules), f)
  BY <1>2, <1>4, Zenon DEF Folds
<1>5. \E f : Is(f)
  BY <1>1, <1>3, FoldExists
<1>6. Is(g)
  BY <1>5, Zenon
<1>7. FoldLeft(LAMBDA named, rule : named \o rule.chats, <<>>, rules) = g[1 .. Len(rules)]
  BY <1>1 DEF FoldLeft, MapThenFoldSet
<1>8. Folds(w, <<>>, rules, Len(rules), g)
  BY <1>4, <1>6
<1> HIDE DEF g, Is
<1>9. PICK f : Steps(w, <<>>, rules, f) /\ f[Len(rules)] = g[1 .. Len(rules)]
  BY <1>8, StepsOf
<1> QED
  BY <1>2, <1>7, <1>9 DEF Steps

LEMMA PlaceSteps ==
  ASSUME NEW S, NEW parts \in Seq(S), NEW text, NEW start
  PROVE  \E f : /\ f[0] = start
                /\ \A i \in 0 .. Len(parts) - 1 :
                     f[i + 1] = EndOfNext(text, f[i], parts[i + 1])
                /\ EndOfAll(text, start, parts) = f[Len(parts)]
<1>1. DOMAIN parts = 1 .. Len(parts) /\ Len(parts) \in Nat
  OBVIOUS
<1> DEFINE w == FindsNext(text)
           Is(f) == f = [s \in SUBSET (1 .. Len(parts)) |->
                           IF s = {} THEN start ELSE EndOfNext(text, f[s \ {Max(s)}], parts[Max(s)])]
           g == CHOOSE f : Is(f)
<1>2. \A a, x : Taking(a, x, w) = EndOfNext(text, a, x)
  BY DEF Taking, FindsNext
<1> HIDE DEF w
<1>3. ASSUME NEW f, Folds(w, start, parts, Len(parts), f) PROVE Is(f)
  BY <1>2, <1>3, Zenon DEF Folds
<1>4. ASSUME NEW f, Is(f) PROVE Folds(w, start, parts, Len(parts), f)
  BY <1>2, <1>4, Zenon DEF Folds
<1>5. \E f : Is(f)
  BY <1>1, <1>3, FoldExists
<1>6. Is(g)
  BY <1>5, Zenon
<1>7. EndOfAll(text, start, parts) = g[1 .. Len(parts)]
  BY <1>1 DEF EndOfAll, FoldLeft, MapThenFoldSet
<1>8. Folds(w, start, parts, Len(parts), g)
  BY <1>4, <1>6
<1> HIDE DEF g, Is
<1>9. PICK f : Steps(w, start, parts, f) /\ f[Len(parts)] = g[1 .. Len(parts)]
  BY <1>8, StepsOf
<1> QED
  BY <1>2, <1>7, <1>9 DEF Steps

NothingFound == [stopped |-> FALSE, matched |-> FALSE, chats |-> <<>>]
Scanned(p, acc, rule) ==
  IF acc.stopped \/ ~RouteMatches(p, rule) THEN acc
  ELSE [stopped |-> rule.stop, matched |-> TRUE, chats |-> Unique(acc.chats \o rule.chats)]

LEMMA ScanSteps ==
  ASSUME NEW S, NEW rules \in Seq(S), NEW p
  PROVE  \E f : /\ f[0] = NothingFound
                /\ \A i \in 0 .. Len(rules) - 1 : f[i + 1] = Scanned(p, f[i], rules[i + 1])
                /\ EvaluateRoutes(rules, p) = f[Len(rules)]
<1>1. DOMAIN rules = 1 .. Len(rules) /\ Len(rules) \in Nat
  OBVIOUS
<1> DEFINE w == ScansFor(p)
           Is(f) == f = [s \in SUBSET (1 .. Len(rules)) |->
                           IF s = {} THEN NothingFound
                           ELSE Scanned(p, f[s \ {Max(s)}], rules[Max(s)])]
           g == CHOOSE f : Is(f)
<1>2. \A a, x : Taking(a, x, w) = Scanned(p, a, x)
  BY DEF Taking, ScansFor, Scanned
<1> HIDE DEF w
<1>3. ASSUME NEW f, Folds(w, NothingFound, rules, Len(rules), f) PROVE Is(f)
  BY <1>2, <1>3, Zenon DEF Folds
<1>4. ASSUME NEW f, Is(f) PROVE Folds(w, NothingFound, rules, Len(rules), f)
  BY <1>2, <1>4, Zenon DEF Folds
<1>5. \E f : Is(f)
  BY <1>1, <1>3, FoldExists
<1>6. Is(g)
  BY <1>5, Zenon
<1>7. EvaluateRoutes(rules, p) = g[1 .. Len(rules)]
  BY <1>1 DEF EvaluateRoutes, FoldLeft, MapThenFoldSet, NothingFound, Scanned
<1>8. Folds(w, NothingFound, rules, Len(rules), g)
  BY <1>4, <1>6
<1> HIDE DEF g, Is
<1>9. PICK f : Steps(w, NothingFound, rules, f) /\ f[Len(rules)] = g[1 .. Len(rules)]
  BY <1>8, StepsOf
<1> QED
  BY <1>2, <1>7, <1>9 DEF Steps

-----------------------------------------------------------------------------
(* A sequence in which nothing is twice.                                   *)
Distinct(q) == \A i, j \in DOMAIN q : q[i] = q[j] => i = j

LEMMA ToSetIs ==
  ASSUME NEW S, NEW q \in Seq(S)
  PROVE  /\ ToSet(q) = {q[i] : i \in 1 .. Len(q)}
         /\ ToSet(q) \subseteq S
         /\ q \in Seq(ToSet(q))
  BY DEF ToSet

LEMMA EmptySequence ==
  ASSUME NEW S
  PROVE  <<>> \in Seq(S) /\ ToSet(<<>>) = {} /\ Distinct(<<>>)
<1>1. <<>> \in Seq(S) /\ DOMAIN <<>> = {}
  OBVIOUS
<1> QED
  BY <1>1 DEF ToSet, Distinct

LEMMA AppendIs ==
  ASSUME NEW S, NEW q \in Seq(S), NEW x \in S
  PROVE  /\ Append(q, x) \in Seq(S)
         /\ ToSet(Append(q, x)) = ToSet(q) \cup {x}
         /\ Distinct(q) /\ x \notin ToSet(q) => Distinct(Append(q, x))
<1> DEFINE r == Append(q, x)
<1>1. /\ r \in Seq(S) /\ Len(r) = Len(q) + 1 /\ Len(q) \in Nat
      /\ r[Len(q) + 1] = x /\ \A i \in 1 .. Len(q) : r[i] = q[i]
  OBVIOUS
<1>2. DOMAIN r = 1 .. Len(q) + 1 /\ DOMAIN q = 1 .. Len(q)
  BY <1>1
<1> HIDE DEF r
<1>3. ToSet(r) = ToSet(q) \cup {x}
  <2>1. \A i \in 1 .. Len(q) + 1 : i \in 1 .. Len(q) \/ i = Len(q) + 1
    BY <1>1
  <2>2. \A i \in 1 .. Len(q) : i \in 1 .. Len(q) + 1
    BY <1>1
  <2>3. Len(q) + 1 \in 1 .. Len(q) + 1
    BY <1>1
  <2> QED
    BY <1>1, <1>2, <2>1, <2>2, <2>3 DEF ToSet
<1>4. Distinct(q) /\ x \notin ToSet(q) => Distinct(r)
  <2>1. \A i \in 1 .. Len(q) + 1 : i \in 1 .. Len(q) \/ i = Len(q) + 1
    BY <1>1
  <2> QED
    BY <1>1, <1>2, <2>1 DEF ToSet, Distinct
<1> QED
  BY <1>1, <1>3, <1>4 DEF r

LEMMA ConcatIs ==
  ASSUME NEW S, NEW q \in Seq(S), NEW r \in Seq(S)
  PROVE  /\ q \o r \in Seq(S)
         /\ ToSet(q \o r) = ToSet(q) \cup ToSet(r)
<1> DEFINE z == q \o r
<1>1. /\ z \in Seq(S) /\ Len(z) = Len(q) + Len(r) /\ Len(q) \in Nat /\ Len(r) \in Nat
      /\ \A i \in 1 .. Len(q) : z[i] = q[i]
      /\ \A i \in 1 .. Len(r) : z[Len(q) + i] = r[i]
  OBVIOUS
<1>2. DOMAIN z = 1 .. Len(q) + Len(r) /\ DOMAIN q = 1 .. Len(q) /\ DOMAIN r = 1 .. Len(r)
  BY <1>1
<1> HIDE DEF z
<1>3. ASSUME NEW i \in 1 .. Len(q) + Len(r) PROVE z[i] \in ToSet(q) \cup ToSet(r)
  <2>1. CASE i <= Len(q)
    <3>1. i \in 1 .. Len(q)
      BY <1>1, <2>1
    <3> QED
      BY <1>1, <1>2, <3>1 DEF ToSet
  <2>2. CASE i > Len(q)
    <3>1. i - Len(q) \in 1 .. Len(r) /\ Len(q) + (i - Len(q)) = i
      BY <1>1, <2>2
    <3>2. z[i] = r[i - Len(q)]
      BY <1>1, <3>1
    <3> QED
      BY <1>2, <3>1, <3>2 DEF ToSet
  <2> QED
    BY <1>1, <2>1, <2>2
<1>4. ASSUME NEW i \in 1 .. Len(q) PROVE q[i] \in ToSet(z)
  <2>1. i \in 1 .. Len(q) + Len(r)
    BY <1>1
  <2> QED
    BY <1>1, <1>2, <2>1 DEF ToSet
<1>5. ASSUME NEW i \in 1 .. Len(r) PROVE r[i] \in ToSet(z)
  <2>1. Len(q) + i \in 1 .. Len(q) + Len(r)
    BY <1>1
  <2> QED
    BY <1>1, <1>2, <2>1 DEF ToSet
<1>6. ToSet(z) = ToSet(q) \cup ToSet(r)
  BY <1>2, <1>3, <1>4, <1>5 DEF ToSet
<1> QED
  BY <1>1, <1>6 DEF z

(* Unique keeps every entry, once.                                         *)
LEMMA UniqueIs ==
  ASSUME NEW S, NEW refs \in Seq(S)
  PROVE  Unique(refs) \in Seq(S) /\ ToSet(Unique(refs)) = ToSet(refs) /\ Distinct(Unique(refs))
<1>1. PICK f : /\ f[0] = <<>>
               /\ \A i \in 0 .. Len(refs) - 1 :
                     f[i + 1] = IF refs[i + 1] \in ToSet(f[i]) THEN f[i]
                                ELSE Append(f[i], refs[i + 1])
               /\ Unique(refs) = f[Len(refs)]
  BY UniqueSteps
<1> DEFINE First(i) == {refs[j] : j \in 1 .. i}
           T == {i \in 0 .. Len(refs) : f[i] \in Seq(S) /\ ToSet(f[i]) = First(i) /\ Distinct(f[i])}
<1>2. Len(refs) \in Nat
  OBVIOUS
<1>3. 0 \in T
  <2>1. First(0) = {} /\ 0 \in 0 .. Len(refs)
    BY <1>2
  <2> QED
    BY <1>1, <2>1, EmptySequence
<1>4. ASSUME NEW i \in 0 .. Len(refs) - 1, i \in T PROVE i + 1 \in T
  <2>1. refs[i + 1] \in S /\ i + 1 \in 0 .. Len(refs) /\ i \in Nat
    BY <1>2
  <2>2. First(i + 1) = First(i) \cup {refs[i + 1]}
    <3>1. \A j \in 1 .. i + 1 : j \in 1 .. i \/ j = i + 1
      BY <2>1
    <3>2. i + 1 \in 1 .. i + 1 /\ \A j \in 1 .. i : j \in 1 .. i + 1
      BY <2>1
    <3> QED
      BY <3>1, <3>2
  <2> HIDE DEF First
  <2>3. f[i] \in Seq(S) /\ ToSet(f[i]) = First(i) /\ Distinct(f[i])
    BY <1>4
  <2>4. CASE refs[i + 1] \in ToSet(f[i])
    <3>1. f[i + 1] = f[i]
      BY <1>1, <2>4
    <3> QED
      BY <2>1, <2>2, <2>3, <2>4, <3>1
  <2>5. CASE refs[i + 1] \notin ToSet(f[i])
    <3>1. f[i + 1] = Append(f[i], refs[i + 1])
      BY <1>1, <2>5
    <3>2. /\ f[i + 1] \in Seq(S) /\ Distinct(f[i + 1])
          /\ ToSet(f[i + 1]) = First(i) \cup {refs[i + 1]}
      BY <2>1, <2>3, <2>5, <3>1, AppendIs
    <3> QED
      BY <2>1, <2>2, <3>2
  <2> QED
    BY <2>4, <2>5
<1>5. Len(refs) \in T
  <2> HIDE DEF T
  <2>1. 0 .. Len(refs) \subseteq T
    BY <1>2, <1>3, <1>4, Upward
  <2> QED
    BY <1>2, <2>1
<1> QED
  BY <1>1, <1>5, ToSetIs

(* The chats a list of rules names.                                        *)
ChatsOf(rules) == UNION {ToSet(rules[i].chats) : i \in DOMAIN rules}

LEMMA NamesAre ==
  ASSUME NEW R, NEW rules \in Seq(R), \A i \in DOMAIN rules : IsSequence(rules[i].chats)
  PROVE  LET all == FoldLeft(LAMBDA named, rule : named \o rule.chats, <<>>, rules)
         IN all \in Seq(ChatsOf(rules)) /\ ToSet(all) = ChatsOf(rules)
<1>1. PICK f : /\ f[0] = <<>>
               /\ \A i \in 0 .. Len(rules) - 1 : f[i + 1] = f[i] \o rules[i + 1].chats
               /\ FoldLeft(LAMBDA named, rule : named \o rule.chats, <<>>, rules) = f[Len(rules)]
  BY NamesSteps
<1> DEFINE all == FoldLeft(LAMBDA named, rule : named \o rule.chats, <<>>, rules)
           S == ChatsOf(rules)
           First(i) == UNION {ToSet(rules[j].chats) : j \in 1 .. i}
           T == {i \in 0 .. Len(rules) : f[i] \in Seq(S) /\ ToSet(f[i]) = First(i)}
<1>2. all = f[Len(rules)]
  BY <1>1
<1> HIDE DEF all
<1>3. Len(rules) \in Nat /\ DOMAIN rules = 1 .. Len(rules)
  OBVIOUS
<1>4. 0 \in T
  <2>1. First(0) = {} /\ 0 \in 0 .. Len(rules)
    BY <1>3
  <2> QED
    BY <1>1, <2>1, EmptySequence
<1>5. ASSUME NEW i \in 0 .. Len(rules) - 1, i \in T PROVE i + 1 \in T
  <2>1. i + 1 \in 1 .. Len(rules) /\ i + 1 \in 0 .. Len(rules) /\ i \in Nat
    BY <1>3
  <2>2. First(i + 1) = First(i) \cup ToSet(rules[i + 1].chats)
    <3>1. \A j \in 1 .. i + 1 : j \in 1 .. i \/ j = i + 1
      BY <2>1
    <3>2. i + 1 \in 1 .. i + 1 /\ \A j \in 1 .. i : j \in 1 .. i + 1
      BY <2>1
    <3> QED
      BY <3>1, <3>2
  <2>3. rules[i + 1].chats \in Seq(S)
    <3>1. rules[i + 1].chats \in Seq(ToSet(rules[i + 1].chats))
      BY <1>3, <2>1 DEF IsSequence
    <3>2. ToSet(rules[i + 1].chats) \subseteq S
      BY <1>3, <2>1 DEF ChatsOf
    <3> HIDE DEF S
    <3> QED
      BY <3>1, <3>2
  <2> HIDE DEF First, S
  <2>4. f[i] \in Seq(S) /\ ToSet(f[i]) = First(i) /\ f[i + 1] = f[i] \o rules[i + 1].chats
    BY <1>1, <1>5
  <2>5. f[i + 1] \in Seq(S) /\ ToSet(f[i + 1]) = First(i) \cup ToSet(rules[i + 1].chats)
    BY <2>3, <2>4, ConcatIs
  <2> QED
    BY <2>1, <2>2, <2>5
<1>6. Len(rules) \in T
  <2> HIDE DEF T
  <2>1. 0 .. Len(rules) \subseteq T
    BY <1>3, <1>4, <1>5, Upward
  <2> QED
    BY <1>3, <2>1
<1>7. First(Len(rules)) = S
  BY <1>3 DEF ChatsOf
<1>8. all \in Seq(S) /\ ToSet(all) = S
  BY <1>2, <1>6, <1>7
<1> QED
  BY <1>8 DEF all

(* The rules that apply: those that match, with no stop before them.       *)
Halts(p, rule) == rule.stop /\ RouteMatches(p, rule)
Taken(p, rules, i) ==
  RouteMatches(p, rules[i]) /\ \A j \in 1 .. i - 1 : ~Halts(p, rules[j])

LEMMA ScanIs ==
  ASSUME NEW R, NEW rules \in Seq(R), NEW p,
         \A i \in DOMAIN rules : IsSequence(rules[i].chats) /\ rules[i].stop \in BOOLEAN
  PROVE  LET found == EvaluateRoutes(rules, p)
             taken == {i \in DOMAIN rules : Taken(p, rules, i)}
         IN /\ found.chats \in Seq(ChatsOf(rules)) /\ Distinct(found.chats)
            /\ ToSet(found.chats) = UNION {ToSet(rules[i].chats) : i \in taken}
            /\ found.matched <=> taken # {}
<1>1. PICK f : /\ f[0] = NothingFound
               /\ \A i \in 0 .. Len(rules) - 1 : f[i + 1] = Scanned(p, f[i], rules[i + 1])
               /\ EvaluateRoutes(rules, p) = f[Len(rules)]
  BY ScanSteps
<1> DEFINE S == ChatsOf(rules)
           First(i) == {j \in 1 .. i : Taken(p, rules, j)}
           NamedBy(i) == UNION {ToSet(rules[j].chats) : j \in First(i)}
           Halted(i) == \E j \in 1 .. i : Halts(p, rules[j])
           SoFar(i) == /\ f[i].chats \in Seq(S) /\ Distinct(f[i].chats)
                      /\ ToSet(f[i].chats) = NamedBy(i)
                      /\ f[i].matched = (First(i) # {}) /\ f[i].stopped = Halted(i)
           T == {i \in 0 .. Len(rules) : SoFar(i)}
<1>2. Len(rules) \in Nat /\ DOMAIN rules = 1 .. Len(rules)
  OBVIOUS
<1>3. 0 \in T
  <2>1. First(0) = {} /\ ~Halted(0) /\ 0 \in 0 .. Len(rules)
    BY <1>2
  <2>2. NamedBy(0) = {}
    BY <2>1
  <2>3. f[0].chats = <<>> /\ f[0].matched = FALSE /\ f[0].stopped = FALSE
    BY <1>1 DEF NothingFound
  <2>4. f[0].matched = (First(0) # {}) /\ f[0].stopped = Halted(0)
    BY <2>1, <2>3
  <2>5. f[0].chats \in Seq(S) /\ Distinct(f[0].chats) /\ ToSet(f[0].chats) = NamedBy(0)
    BY <2>2, <2>3, EmptySequence
  <2> QED
    BY <2>1, <2>4, <2>5
<1>4. ASSUME NEW i \in 0 .. Len(rules) - 1, SoFar(i) PROVE SoFar(i + 1)
  <2>1. i + 1 \in 1 .. Len(rules) /\ i \in Nat /\ (i + 1) - 1 = i
    BY <1>2
  <2> DEFINE rule == rules[i + 1]
  <2>2. \A j \in 1 .. i + 1 : j \in 1 .. i \/ j = i + 1
    BY <2>1
  <2>3. i + 1 \in 1 .. i + 1 /\ \A j \in 1 .. i : j \in 1 .. i + 1
    BY <2>1
  <2>4. Halted(i + 1) <=> Halted(i) \/ Halts(p, rule)
    BY <2>2, <2>3
  <2>5. Taken(p, rules, i + 1) <=> RouteMatches(p, rule) /\ ~Halted(i)
    BY <2>1 DEF Taken
  <2>6. First(i + 1) = IF Taken(p, rules, i + 1) THEN First(i) \cup {i + 1} ELSE First(i)
    BY <2>2, <2>3
  <2>7. NamedBy(i + 1) = IF Taken(p, rules, i + 1) THEN NamedBy(i) \cup ToSet(rule.chats) ELSE NamedBy(i)
    <3> HIDE DEF First
    <3> QED
      BY <2>6
  <2>8. f[i + 1] = Scanned(p, f[i], rule)
    BY <1>1
  <2>9. rule.chats \in Seq(S) /\ rule.stop \in BOOLEAN
    <3>1. rule.chats \in Seq(ToSet(rule.chats)) /\ rule.stop \in BOOLEAN
      BY <1>2, <2>1 DEF IsSequence
    <3>2. ToSet(rule.chats) \subseteq S
      BY <1>2, <2>1 DEF ChatsOf
    <3> HIDE DEF S
    <3> QED
      BY <3>1, <3>2
  <2>10. /\ f[i].chats \in Seq(S) /\ Distinct(f[i].chats) /\ ToSet(f[i].chats) = NamedBy(i)
         /\ f[i].matched = (First(i) # {}) /\ f[i].stopped = Halted(i)
    BY <1>4
  <2>11. CASE Taken(p, rules, i + 1)
    <3> HIDE DEF S, NamedBy, First, Halted, rule
    <3>1. f[i + 1] = [stopped |-> rule.stop, matched |-> TRUE,
                      chats |-> Unique(f[i].chats \o rule.chats)]
      BY <2>5, <2>8, <2>10, <2>11 DEF Scanned
    <3>2. f[i].chats \o rule.chats \in Seq(S)
          /\ ToSet(f[i].chats \o rule.chats) = NamedBy(i) \cup ToSet(rule.chats)
      BY <2>9, <2>10, ConcatIs
    <3>3. /\ f[i + 1].chats \in Seq(S) /\ Distinct(f[i + 1].chats)
          /\ ToSet(f[i + 1].chats) = NamedBy(i + 1)
      <4> DEFINE both == f[i].chats \o rule.chats
      <4>1. both \in Seq(S) /\ ToSet(both) = NamedBy(i) \cup ToSet(rule.chats)
        BY <3>2
      <4>2. f[i + 1].chats = Unique(both)
        BY <3>1
      <4> HIDE DEF both
      <4>3. /\ f[i + 1].chats \in Seq(S) /\ Distinct(f[i + 1].chats)
            /\ ToSet(f[i + 1].chats) = ToSet(both)
        BY <4>1, <4>2, UniqueIs
      <4> QED
        BY <2>7, <2>11, <4>1, <4>3
    <3>4. f[i + 1].matched = (First(i + 1) # {})
      <4>1. f[i + 1].matched = TRUE
        BY <3>1
      <4>2. i + 1 \in First(i + 1)
        BY <2>6, <2>11
      <4> QED
        BY <4>1, <4>2
    <3>5. f[i + 1].stopped = Halted(i + 1)
      <4>1. f[i + 1].stopped = rule.stop
        BY <3>1
      <4>2. Halted(i + 1) <=> rule.stop
        BY <2>4, <2>5, <2>11 DEF Halts
      <4>3. Halted(i + 1) \in BOOLEAN
        BY DEF Halted
      <4> QED
        BY <2>9, <4>1, <4>2, <4>3
    <3> QED
      BY <3>3, <3>4, <3>5
  <2>12. CASE ~Taken(p, rules, i + 1)
    <3> HIDE DEF S, NamedBy, First, rule
    <3>1. f[i + 1] = f[i]
      BY <2>5, <2>8, <2>10, <2>12 DEF Scanned
    <3>2. Halted(i + 1) <=> Halted(i)
      BY <2>4, <2>5, <2>12 DEF Halts
    <3>3. Halted(i + 1) = Halted(i)
      BY <3>2
    <3> QED
      BY <2>6, <2>7, <2>10, <2>12, <3>1, <3>3
  <2> QED
    BY <2>11, <2>12
<1>5. SoFar(Len(rules))
  <2>1. \A i \in 0 .. Len(rules) - 1 : i \in T => i + 1 \in T
    <3> HIDE DEF SoFar
    <3>1. \A i \in 0 .. Len(rules) - 1 : i + 1 \in 0 .. Len(rules)
      BY <1>2
    <3> QED
      BY <1>4, <3>1
  <2> HIDE DEF T
  <2>2. 0 .. Len(rules) \subseteq T
    BY <1>2, <1>3, <2>1, Upward
  <2> USE DEF T
  <2> HIDE DEF SoFar
  <2> QED
    BY <1>2, <2>2
<1> QED
  BY <1>1, <1>2, <1>5
-----------------------------------------------------------------------------
(* Globs.                                                                  *)
LEMMA Dropped ==
  ASSUME NEW S, NEW text \in Seq(S), NEW i \in 0 .. Len(text)
  PROVE  Drop(text, i) \in Seq(S) /\ Len(Drop(text, i)) = Len(text) - i
  BY DEF Drop

LEMMA LeastOf ==
  ASSUME NEW s \in SUBSET Nat, s # {}
  PROVE  Min(s) \in s /\ \A y \in s : Min(s) <= y
<1>1. \E m \in s : \A k \in s : m <= k
  BY Least
<1> QED
  BY <1>1 DEF Min

LEMMA EndOfNextIs ==
  ASSUME NEW S, NEW text \in Seq(S), NEW from \in Nat, NEW part, Len(part) \in Nat
  PROVE  LET end == EndOfNext(text, from, part)
         IN /\ end \in Nat
            /\ end <= Len(text) => /\ from <= end - Len(part)
                                   /\ HasPrefix(part, Drop(text, end - Len(part)))
            /\ \A i \in from .. Len(text) :
                 HasPrefix(part, Drop(text, i)) => end <= i + Len(part)
<1> DEFINE places == {i \in from .. Len(text) : HasPrefix(part, Drop(text, i))}
           end == EndOfNext(text, from, part)
<1>1. end = IF places = {} THEN Len(text) + 1 ELSE Min(places) + Len(part)
  BY DEF EndOfNext
<1>2. Len(text) \in Nat
  OBVIOUS
<1>3. CASE places = {}
  <2>1. end = Len(text) + 1
    BY <1>1, <1>3
  <2> HIDE DEF end
  <2> QED
    BY <1>2, <1>3, <2>1 DEF end
<1>4. CASE places # {}
  <2>1. end = Min(places) + Len(part)
    BY <1>1, <1>4
  <2>2. places \in SUBSET Nat
    BY <1>2
  <2>3. Min(places) \in places /\ \A y \in places : Min(places) <= y
    <3> HIDE DEF places
    <3> QED
      BY <1>4, <2>2, LeastOf
  <2> HIDE DEF end
  <2>4. /\ Min(places) \in Nat /\ from <= Min(places) /\ Min(places) <= Len(text)
        /\ HasPrefix(part, Drop(text, Min(places)))
    BY <1>2, <2>3
  <2>5. end \in Nat /\ end - Len(part) = Min(places)
    BY <2>1, <2>4
  <2>6. from <= end - Len(part) /\ HasPrefix(part, Drop(text, end - Len(part)))
    BY <2>4, <2>5
  <2>7. \A i \in from .. Len(text) : HasPrefix(part, Drop(text, i)) => end <= i + Len(part)
    <3> SUFFICES ASSUME NEW i \in from .. Len(text), HasPrefix(part, Drop(text, i))
                 PROVE  end <= i + Len(part)
      OBVIOUS
    <3>1. i \in places /\ i \in Nat
      BY <1>2
    <3>2. Min(places) <= i
      BY <2>3, <3>1
    <3> HIDE DEF places
    <3> QED
      BY <2>1, <2>4, <3>1, <3>2
  <2> QED
    BY <2>5, <2>6, <2>7 DEF end
<1> QED
  BY <1>3, <1>4

(* The inner parts, placed one after the other.                            *)
EndsOf(glob, text, f) ==
  /\ f[0] = Len(glob[1])
  /\ \A k \in 0 .. Len(glob) - 3 : f[k + 1] = EndOfNext(text, f[k], glob[k + 2])

LEMMA GlobParts ==
  ASSUME NEW glob, IsGlob(glob)
  PROVE  /\ glob \in Seq(ToSet(glob)) /\ Len(glob) \in Nat \ {0} /\ DOMAIN glob = 1 .. Len(glob)
         /\ \A i \in 1 .. Len(glob) : glob[i] \in Seq(ToSet(glob[i])) /\ Len(glob[i]) \in Nat
  BY DEF IsGlob, IsSequence

LEMMA PlacesExist ==
  ASSUME NEW glob, IsGlob(glob), Len(glob) > 1, NEW text
  PROVE  \E f : /\ EndsOf(glob, text, f)
                /\ GlobMatch(glob, text) <=>
                     /\ HasPrefix(glob[1], text)
                     /\ f[Len(glob) - 2] + Len(glob[Len(glob)]) <= Len(text)
                     /\ Drop(text, Len(text) - Len(glob[Len(glob)])) = glob[Len(glob)]
<1> DEFINE inner == SubSeq(glob, 2, Len(glob) - 1)
           n == Len(glob)
<1>1. glob \in Seq(ToSet(glob)) /\ n \in Nat \ {0}
  BY GlobParts
<1>2. /\ inner \in Seq(ToSet(glob)) /\ Len(inner) = n - 2
      /\ \A k \in 0 .. n - 3 : inner[k + 1] = glob[k + 2]
  <2> DEFINE m == n - 1
             q == SubSeq(glob, 2, m)
  <2>1. m \in Int /\ 2 \in Int /\ \A i \in 2 .. m : glob[i] \in ToSet(glob)
    BY <1>1
  <2> HIDE DEF m
  <2>2. /\ q \in Seq(ToSet(glob)) /\ Len(q) = IF 2 <= m THEN m - 2 + 1 ELSE 0
        /\ \A i \in 1 .. m - 2 + 1 : q[i] = glob[2 + i - 1]
    BY <2>1, SubSeqProperties
  <2> HIDE DEF q
  <2>3. Len(q) = n - 2 /\ \A k \in 0 .. n - 3 : q[k + 1] = glob[k + 2]
    <3>1. m = n - 1 /\ n \in Nat /\ n > 1
      BY <1>1 DEF m
    <3>2. \A k \in 0 .. n - 3 : k + 1 \in 1 .. m - 2 + 1 /\ 2 + (k + 1) - 1 = k + 2
      BY <3>1
    <3> QED
      BY <2>2, <3>1, <3>2
  <2>4. q = inner
    BY DEF q, m
  <2> QED
    BY <2>2, <2>3, <2>4
<1>4. PICK f : /\ f[0] = Len(glob[1])
               /\ \A i \in 0 .. Len(inner) - 1 : f[i + 1] = EndOfNext(text, f[i], inner[i + 1])
               /\ EndOfAll(text, Len(glob[1]), inner) = f[Len(inner)]
  <2> HIDE DEF inner
  <2>1. inner \in Seq(ToSet(glob))
    BY <1>2
  <2> QED
    BY <2>1, PlaceSteps
<1>5. EndsOf(glob, text, f)
  <2>1. (n - 2) - 1 = n - 3
    BY <1>1
  <2> QED
    BY <1>2, <1>4, <2>1 DEF EndsOf
<1>6. GlobMatch(glob, text) <=>
        /\ HasPrefix(glob[1], text)
        /\ f[n - 2] + Len(glob[n]) <= Len(text)
        /\ Drop(text, Len(text) - Len(glob[n])) = glob[n]
  <2> DEFINE end == EndOfAll(text, Len(glob[1]), inner)
  <2>1. end = f[n - 2]
    BY <1>2, <1>4
  <2>2. GlobMatch(glob, text) <=>
          /\ HasPrefix(glob[1], text)
          /\ end + Len(glob[n]) <= Len(text)
          /\ Drop(text, Len(text) - Len(glob[n])) = glob[n]
    <3>1. Len(glob) # 1
      OBVIOUS
    <3> QED
      BY <3>1 DEF GlobMatch, Last
  <2> HIDE DEF end
  <2> QED
    BY <2>1, <2>2
<1> QED
  BY <1>5, <1>6

LEMMA PlacesAreEnds ==
  ASSUME NEW glob, IsGlob(glob), Len(glob) > 1, NEW S, NEW text \in Seq(S), NEW f,
         EndsOf(glob, text, f), NEW k \in 0 .. Len(glob) - 2
  PROVE  f[k] \in Nat
<1> DEFINE n == Len(glob)
           T == {i \in 0 .. n - 2 : f[i] \in Nat}
<1>1. n \in Nat /\ n - 2 \in Nat /\ \A i \in 1 .. n : Len(glob[i]) \in Nat
  BY GlobParts
<1>2. 0 \in T
  BY <1>1 DEF EndsOf
<1>3. ASSUME NEW i \in 0 .. (n - 2) - 1, i \in T PROVE i + 1 \in T
  <2>1. i \in 0 .. n - 3 /\ i + 2 \in 1 .. n /\ i + 1 \in 0 .. n - 2
    BY <1>1
  <2>2. f[i + 1] = EndOfNext(text, f[i], glob[i + 2])
    BY <2>1 DEF EndsOf
  <2>3. f[i] \in Nat
    BY <1>3
  <2>4. f[i + 1] \in Nat
    BY <1>1, <2>1, <2>2, <2>3, EndOfNextIs
  <2> QED
    BY <2>1, <2>4
<1>4. 0 .. n - 2 \subseteq T
  <2> HIDE DEF T, n
  <2> QED
    BY <1>1, <1>2, <1>3, Upward
<1> QED
  BY <1>4

(* No place is after one that fits: an early place never spoils a match.   *)
LEMMA EarlyIsEnough ==
  ASSUME NEW glob, IsGlob(glob), Len(glob) > 1, NEW S, NEW text \in Seq(S), NEW f,
         EndsOf(glob, text, f), GlobMeans(glob, text)
  PROVE  /\ HasPrefix(glob[1], text)
         /\ f[Len(glob) - 2] + Len(glob[Len(glob)]) <= Len(text)
         /\ Drop(text, Len(text) - Len(glob[Len(glob)])) = glob[Len(glob)]
<1> DEFINE n == Len(glob)
           L == Len(text)
           last == glob[n]
<1>1. /\ n \in Nat /\ n - 2 \in Nat /\ DOMAIN glob = 1 .. n /\ L \in Nat
      /\ \A i \in 1 .. n : Len(glob[i]) \in Nat
  BY GlobParts
<1>ends. f[0] = Len(glob[1]) /\ \A k \in 0 .. n - 3 : f[k + 1] = EndOfNext(text, f[k], glob[k + 2])
  BY DEF EndsOf
<1>nats. \A k \in 0 .. n - 2 : f[k] \in Nat
  BY PlacesAreEnds
<1>several. n > 1
  OBVIOUS
<1>2. PICK pos \in [1 .. n -> 1 .. L + 1] :
         /\ pos[1] = 1
         /\ pos[n] = L + 1 - Len(last)
         /\ \A i \in 1 .. n : HasPrefix(glob[i], SubSeq(text, pos[i], L))
         /\ \A i \in 1 .. n - 1 : pos[i] + Len(glob[i]) <= pos[i + 1]
  <2>1. n # 1
    BY <1>1
  <2> QED
    BY <1>1, <2>1 DEF GlobMeans, Last
<1> HIDE DEF n, L, last
<1>3. \A i \in 1 .. n : pos[i] \in Nat /\ 1 <= pos[i] /\ pos[i] <= L + 1
  BY <1>1, <1>2
<1>4. HasPrefix(glob[1], text)
  <2>1. SubSeq(text, 1, L) = text
    BY SubSeqFull DEF L
  <2>2. 1 \in 1 .. n
    BY <1>1, <1>several
  <2> QED
    BY <1>2, <2>1, <2>2
<1> DEFINE T == {k \in 0 .. n - 2 : f[k] <= pos[k + 1] + Len(glob[k + 1]) - 1}
<1>5. 0 \in T
  <2>1. f[0] = Len(glob[1]) /\ 1 \in 1 .. n /\ pos[1] = 1
    BY <1>1, <1>2, <1>ends, <1>several
  <2>2. f[0] <= pos[1] + Len(glob[1]) - 1
    BY <1>1, <2>1
  <2> QED
    BY <1>1, <2>2
<1>6. ASSUME NEW k \in 0 .. (n - 2) - 1, k \in T PROVE k + 1 \in T
  <2>1. k \in 0 .. n - 3 /\ k + 1 \in 1 .. n - 1 /\ k + 2 \in 1 .. n /\ k + 1 \in 1 .. n
        /\ k + 1 \in 0 .. n - 2 /\ k \in 0 .. n - 2 /\ (k + 1) + 1 = k + 2
    BY <1>1
  <2>2. f[k] \in Nat /\ f[k + 1] = EndOfNext(text, f[k], glob[k + 2])
    BY <2>1, <1>ends, <1>nats
  <2>3. f[k] <= pos[k + 1] + Len(glob[k + 1]) - 1
    BY <1>6
  <2>4. pos[k + 1] + Len(glob[k + 1]) <= pos[k + 2]
    BY <1>2, <2>1
  <2> DEFINE i == pos[k + 2] - 1
  <2>5. i \in f[k] .. L /\ pos[k + 2] = i + 1
    <3>1. /\ pos[k + 1] \in Nat /\ pos[k + 2] \in Nat /\ pos[k + 2] <= L + 1
          /\ Len(glob[k + 1]) \in Nat /\ L \in Nat
      BY <1>1, <1>3, <2>1
    <3>2. i \in Nat /\ pos[k + 2] = i + 1
      BY <1>3, <2>1
    <3> HIDE DEF i
    <3> DEFINE low == f[k]
               a   == pos[k + 1]
               m   == Len(glob[k + 1])
               b   == pos[k + 2]
    <3>3. /\ low \in Nat /\ a \in Nat /\ m \in Nat /\ b \in Nat /\ L \in Nat
          /\ low <= a + m - 1 /\ a + m <= b /\ b = i + 1 /\ b <= L + 1
      BY <2>2, <2>3, <2>4, <3>1, <3>2
    <3> HIDE DEF low, a, m, b, L
    <3>4. low <= i /\ i <= L
      BY <3>2, <3>3
    <3>5. i \in low .. L
      BY <3>2, <3>3, <3>4
    <3> QED
      BY <3>2, <3>5 DEF low
  <2>6. HasPrefix(glob[k + 2], Drop(text, i))
    BY <1>2, <2>1, <2>5 DEF Drop, L
  <2> HIDE DEF i
  <2>7. f[k + 1] <= i + Len(glob[k + 2])
    <3>1. Len(glob[k + 2]) \in Nat
      BY <1>1, <2>1
    <3> QED
      BY <2>2, <2>5, <2>6, <3>1, EndOfNextIs DEF L
  <2>8. f[k + 1] <= pos[k + 2] + Len(glob[k + 2]) - 1
    <3>1. pos[k + 2] \in Nat /\ Len(glob[k + 2]) \in Nat
      BY <1>1, <1>3, <2>1
    <3>2. f[k + 1] \in Nat /\ i \in Int
      BY <1>nats, <2>1, <3>1 DEF i
    <3>3. pos[k + 2] = i + 1
      BY <2>5
    <3>4. i + Len(glob[k + 2]) = pos[k + 2] + Len(glob[k + 2]) - 1
      <4>1. \A x, y \in Int : (x - 1) + y = x + y - 1
        OBVIOUS
      <4>2. pos[k + 2] \in Int /\ Len(glob[k + 2]) \in Int
        BY <3>1
      <4> QED
        BY <4>1, <4>2, Zenon DEF i
    <3> QED
      BY <2>7, <3>4
  <2> QED
    BY <2>1, <2>8
<1>7. n - 2 \in T
  <2> HIDE DEF T
  <2>1. 0 .. n - 2 \subseteq T
    <3> QED
      BY <1>1, <1>5, <1>6, Upward
  <2> QED
    BY <1>1, <2>1
<1>8. f[n - 2] + Len(last) <= L
  <2>1. f[n - 2] <= pos[n - 1] + Len(glob[n - 1]) - 1
    <3>1. (n - 2) + 1 = n - 1
      BY <1>1
    <3> QED
      BY <1>7, <3>1
  <2>2. pos[n - 1] + Len(glob[n - 1]) <= pos[n]
    <3>1. n - 1 \in 1 .. n - 1 /\ (n - 1) + 1 = n
      BY <1>1, <1>several
    <3> QED
      BY <1>2, <3>1
  <2>3. n - 1 \in 1 .. n /\ n \in 1 .. n /\ n - 2 \in 0 .. n - 2
    BY <1>1, <1>several
  <2>4. f[n - 2] \in Nat /\ pos[n - 1] \in Nat /\ Len(glob[n - 1]) \in Nat /\ Len(last) \in Nat
    BY <1>1, <1>3, <1>nats, <2>3 DEF last
  <2>5. pos[n] = L + 1 - Len(last) /\ L \in Nat
    BY <1>1, <1>2
  <2>6. \A x, p, g, l, m \in Int : x <= p + g - 1 /\ p + g <= m + 1 - l => x + l <= m
    OBVIOUS
  <2>7. /\ f[n - 2] \in Int /\ pos[n - 1] \in Int /\ Len(glob[n - 1]) \in Int
        /\ Len(last) \in Int /\ L \in Int /\ pos[n - 1] + Len(glob[n - 1]) <= L + 1 - Len(last)
    BY <2>2, <2>4, <2>5
  <2> QED
    BY <2>1, <2>6, <2>7, Zenon
<1>9. Drop(text, L - Len(last)) = last
  <2>1. n \in 1 .. n /\ Len(last) \in Nat
    BY <1>1, <1>several DEF last
  <2>2. pos[n] = (L - Len(last)) + 1 /\ L - Len(last) \in 0 .. L
    BY <1>1, <1>2, <1>3, <2>1
  <2> DEFINE rest == Drop(text, L - Len(last))
  <2>3. rest \in Seq(S) /\ Len(rest) = Len(last)
    <3>1. L - Len(last) \in 0 .. Len(text) /\ L = Len(text) /\ L \in Nat
      BY <1>1, <2>2 DEF L
    <3>2. rest \in Seq(S) /\ Len(rest) = Len(text) - (L - Len(last))
      BY <3>1, Dropped
    <3> HIDE DEF rest
    <3> QED
      BY <2>1, <3>1, <3>2
  <2>4. HasPrefix(last, rest)
    BY <1>2, <2>1, <2>2 DEF Drop, L, last
  <2> HIDE DEF rest
  <2>5. SubSeq(rest, 1, Len(rest)) = rest
    BY <2>3, SubSeqFull
  <2>6. rest = last
    BY <2>3, <2>4, <2>5 DEF HasPrefix
  <2> QED
    BY <2>6 DEF rest
<1> QED
  BY <1>4, <1>8, <1>9 DEF n, L, last

LEMMA EarlyIsMeant ==
  ASSUME NEW glob, IsGlob(glob), Len(glob) > 1, NEW S, NEW text \in Seq(S), NEW f,
         EndsOf(glob, text, f),
         HasPrefix(glob[1], text),
         f[Len(glob) - 2] + Len(glob[Len(glob)]) <= Len(text),
         Drop(text, Len(text) - Len(glob[Len(glob)])) = glob[Len(glob)]
  PROVE  GlobMeans(glob, text)
<1> DEFINE n == Len(glob)
           L == Len(text)
           last == glob[n]
<1>0. \A i \in 1 .. n : glob[i] \in Seq(ToSet(glob[i]))
  BY GlobParts
<1>1. /\ n \in Nat /\ n - 2 \in Nat /\ DOMAIN glob = 1 .. n /\ L \in Nat
      /\ \A i \in 1 .. n : Len(glob[i]) \in Nat
  BY GlobParts
<1>ends. f[0] = Len(glob[1]) /\ \A k \in 0 .. n - 3 : f[k + 1] = EndOfNext(text, f[k], glob[k + 2])
  BY DEF EndsOf
<1>2. \A k \in 0 .. n - 2 : f[k] \in Nat
  BY PlacesAreEnds
<1>fits. n > 1 /\ f[n - 2] + Len(last) <= L /\ Drop(text, L - Len(last)) = last /\ last = glob[n]
  OBVIOUS
<1> HIDE DEF n, L, last
<1>3. ASSUME NEW k \in 0 .. n - 3, f[k + 1] <= L
      PROVE  /\ f[k] <= f[k + 1] - Len(glob[k + 2]) /\ f[k] <= L
             /\ HasPrefix(glob[k + 2], Drop(text, f[k + 1] - Len(glob[k + 2])))
  <2>1. k + 2 \in 1 .. n /\ k \in 0 .. n - 2 /\ k + 1 \in 0 .. n - 2
    BY <1>1
  <2>2. f[k] \in Nat /\ f[k + 1] \in Nat /\ Len(glob[k + 2]) \in Nat
        /\ f[k + 1] = EndOfNext(text, f[k], glob[k + 2])
    BY <1>1, <1>2, <1>ends, <2>1
  <2>3. /\ f[k] <= f[k + 1] - Len(glob[k + 2])
        /\ HasPrefix(glob[k + 2], Drop(text, f[k + 1] - Len(glob[k + 2])))
    BY <1>3, <2>2, EndOfNextIs DEF L
  <2> QED
    BY <1>1, <1>3, <2>2, <2>3
<1> DEFINE T == {k \in 0 .. n - 2 : f[(n - 2) - k] <= L}
<1>4. \A k \in 0 .. n - 2 : f[k] <= L
  <2>1. 0 \in T
    <3>1. (n - 2) - 0 = n - 2 /\ n - 2 \in 0 .. n - 2 /\ n \in 1 .. n
      BY <1>1, <1>fits
    <3>2. f[n - 2] \in Nat /\ Len(last) \in Nat
      BY <1>1, <1>2, <1>fits, <3>1
    <3>3. f[n - 2] <= L
      BY <1>1, <1>fits, <3>2
    <3> QED
      BY <3>1, <3>3
  <2>2. ASSUME NEW k \in 0 .. (n - 2) - 1, k \in T PROVE k + 1 \in T
    <3>1. /\ (n - 2) - (k + 1) \in 0 .. n - 3 /\ ((n - 2) - (k + 1)) + 1 = (n - 2) - k
          /\ k + 1 \in 0 .. n - 2
      BY <1>1
    <3>2. f[(n - 2) - k] <= L
      BY <2>2
    <3>3. f[(n - 2) - (k + 1)] <= L
      BY <1>3, <3>1, <3>2
    <3> QED
      BY <3>1, <3>3
  <2>3. 0 .. n - 2 \subseteq T
    <3> HIDE DEF T
    <3> QED
      BY <1>1, <2>1, <2>2, Upward
  <2> SUFFICES ASSUME NEW k \in 0 .. n - 2 PROVE f[k] <= L
    OBVIOUS
  <2>4. (n - 2) - k \in 0 .. n - 2 /\ (n - 2) - ((n - 2) - k) = k
    BY <1>1
  <2>5. (n - 2) - k \in T
    BY <2>3, <2>4
  <2> QED
    BY <2>4, <2>5
<1> DEFINE pos == [k \in 1 .. n |-> IF k = 1 THEN 1
                                   ELSE IF k = n THEN (L - Len(last)) + 1
                                   ELSE (f[k - 1] - Len(glob[k])) + 1]
<1>5. L - Len(last) \in 0 .. L /\ f[n - 2] <= L - Len(last)
  <2>1. n - 2 \in 0 .. n - 2 /\ n \in 1 .. n
    BY <1>1, <1>fits
  <2>2. f[n - 2] \in Nat /\ Len(last) \in Nat
    BY <1>1, <1>2, <1>fits, <2>1
  <2> QED
    BY <1>1, <1>fits, <2>2
<1>6. ASSUME NEW k \in 2 .. n - 1
      PROVE  /\ pos[k] = (f[k - 1] - Len(glob[k])) + 1
             /\ f[k - 2] <= f[k - 1] - Len(glob[k])
             /\ f[k - 1] - Len(glob[k]) \in 0 .. L
             /\ HasPrefix(glob[k], Drop(text, f[k - 1] - Len(glob[k])))
  <2>1. /\ k - 2 \in 0 .. n - 3 /\ (k - 2) + 1 = k - 1 /\ (k - 2) + 2 = k /\ k # 1 /\ k # n
        /\ k \in 1 .. n /\ k - 1 \in 0 .. n - 2 /\ k - 2 \in 0 .. n - 2
    BY <1>1
  <2>2. f[k - 1] <= L /\ f[k - 1] \in Nat /\ f[k - 2] \in Nat /\ Len(glob[k]) \in Nat
    BY <1>1, <1>2, <1>4, <2>1
  <2>3. /\ f[k - 2] <= f[k - 1] - Len(glob[k])
        /\ HasPrefix(glob[k], Drop(text, f[k - 1] - Len(glob[k])))
    BY <1>3, <2>1, <2>2
  <2>4. pos[k] = (f[k - 1] - Len(glob[k])) + 1
    BY <2>1
  <2>5. f[k - 1] - Len(glob[k]) \in 0 .. L
    <3>1. L \in Nat /\ f[k - 2] <= f[k - 1] - Len(glob[k])
      BY <1>1, <2>3
    <3>2. \A x, y, z, m \in Nat : x <= y - z /\ y <= m => y - z \in 0 .. m
      OBVIOUS
    <3> QED
      BY <2>2, <3>1, <3>2, Zenon
  <2> HIDE DEF pos
  <2> QED
    BY <2>3, <2>4, <2>5
<1>7. pos[1] = 1 /\ pos[n] = (L - Len(last)) + 1 /\ 1 \in 1 .. n /\ n \in 1 .. n /\ n # 1
  <2>1. 1 \in 1 .. n /\ n \in 1 .. n /\ n # 1
    BY <1>1, <1>fits
  <2>2. pos[1] = 1
    BY <2>1
  <2>3. pos[n] = (L - Len(last)) + 1
    BY <2>1
  <2> QED
    BY <2>1, <2>2, <2>3
<1>8. \A k \in 1 .. n : k = 1 \/ k = n \/ k \in 2 .. n - 1
  BY <1>1
<1>9. \A k \in 1 .. n : pos[k] \in 1 .. L + 1
  <2> SUFFICES ASSUME NEW k \in 1 .. n PROVE pos[k] \in 1 .. L + 1
    OBVIOUS
  <2> HIDE DEF pos
  <2>0. L \in Nat
    BY <1>1
  <2>1. CASE k = 1
    BY <1>7, <2>0, <2>1
  <2>2. CASE k = n
    BY <1>5, <1>7, <2>0, <2>2
  <2>3. CASE k \in 2 .. n - 1
    <3>1. pos[k] = (f[k - 1] - Len(glob[k])) + 1 /\ f[k - 1] - Len(glob[k]) \in 0 .. L
      BY <1>6, <2>3
    <3> QED
      BY <2>0, <3>1
  <2> QED
    BY <1>8, <2>1, <2>2, <2>3
<1>10. pos \in [1 .. n -> 1 .. L + 1]
  BY <1>9
<1>11. \A k \in 1 .. n : HasPrefix(glob[k], SubSeq(text, pos[k], L))
  <2> SUFFICES ASSUME NEW k \in 1 .. n PROVE HasPrefix(glob[k], SubSeq(text, pos[k], L))
    OBVIOUS
  <2> HIDE DEF pos
  <2>1. CASE k = 1
    BY <1>7, <2>1, SubSeqFull DEF L
  <2>2. CASE k = n
    <3>1. SubSeq(text, pos[n], L) = last
      BY <1>7, <1>fits DEF Drop, L
    <3>2. SubSeq(last, 1, Len(last)) = last /\ Len(last) \in Nat
      BY <1>0, <1>1, <1>7, <1>fits, SubSeqFull
    <3>3. HasPrefix(last, last)
      BY <3>2 DEF HasPrefix
    <3> QED
      BY <1>7, <1>fits, <2>2, <3>1, <3>3
  <2>3. CASE k \in 2 .. n - 1
    BY <1>6, <2>3 DEF Drop, L
  <2> QED
    BY <1>8, <2>1, <2>2, <2>3
<1>12. ASSUME NEW k \in 1 .. n - 1 PROVE pos[k] + Len(glob[k]) <= pos[k + 1]
  <2> HIDE DEF pos
  <2>1. k \in 1 .. n /\ k + 1 \in 1 .. n /\ k - 1 \in 0 .. n - 2
    BY <1>1
  <2>2. pos[k] + Len(glob[k]) = f[k - 1] + 1
    <3>1. CASE k = 1
      BY <1>1, <1>7, <1>ends, <3>1
    <3>2. CASE k # 1
      <4>1. k \in 2 .. n - 1
        BY <1>1, <3>2
      <4>2. f[k - 1] \in Nat /\ Len(glob[k]) \in Nat
        BY <1>1, <1>2, <2>1
      <4>3. pos[k] = (f[k - 1] - Len(glob[k])) + 1
        BY <1>6, <4>1
      <4> QED
        BY <4>2, <4>3
    <3> QED
      BY <3>1, <3>2
  <2>3. f[k - 1] + 1 <= pos[k + 1]
    <3>1. f[k - 1] \in Nat
      BY <1>2, <2>1
    <3>2. CASE k + 1 = n
      <4>1. k - 1 = n - 2
        BY <1>1, <3>2
      <4>2. pos[k + 1] = (L - Len(last)) + 1
        BY <1>7, <3>2
      <4>3. f[k - 1] <= L - Len(last) /\ L - Len(last) \in Nat
        BY <1>1, <1>5, <4>1
      <4> QED
        BY <3>1, <4>2, <4>3
    <3>3. CASE k + 1 # n
      <4>1. k + 1 \in 2 .. n - 1 /\ (k + 1) - 2 = k - 1
        BY <1>1, <3>3
      <4> QED
        BY <1>1, <1>6, <3>1, <4>1
    <3> QED
      BY <3>2, <3>3
  <2> QED
    BY <2>2, <2>3
<1>13. pos[n] = L + 1 - Len(last)
  BY <1>1, <1>5, <1>7
<1> HIDE DEF pos
<1> QED
  BY <1>1, <1>7, <1>fits, <1>10, <1>11, <1>12, <1>13 DEF GlobMeans, Last, n, L, last

LEMMA GlobIs ==
  ASSUME NEW glob, IsGlob(glob), NEW text, IsSequence(text)
  PROVE  GlobMatch(glob, text) <=> GlobMeans(glob, text)
<1>1. text \in Seq(ToSet(text)) /\ Len(glob) \in Nat \ {0}
  BY GlobParts DEF IsSequence
<1>2. CASE Len(glob) = 1
  BY <1>2 DEF GlobMatch, GlobMeans
<1>3. CASE Len(glob) > 1
  BY <1>1, <1>3, PlacesExist, EarlyIsEnough, EarlyIsMeant
<1>4. Len(glob) = 1 \/ Len(glob) > 1
  <2>1. Len(glob) \in Nat /\ Len(glob) # 0
    BY GlobParts
  <2> QED
    BY <2>1
<1> QED
  BY <1>2, <1>3, <1>4

(* What a selector finds are texts.                                        *)
LEMMA Texts ==
  ASSUME NEW p \in Payloads, NEW selector, NEW text \in ResolveSelector(p, selector)
  PROVE  IsSequence(text)
<1> DEFINE Fine(set) == \A t \in set : IsSequence(t)
<1>0. \A path : Fine(Scalars(p, path))
  BY HookAssumption DEF HookAssumption, Scalars
<1>1. \A path : Fine(At(p, path)) /\ <<>> \notin At(p, path)
  BY <1>0 DEF At
<1>2. ASSUME NEW a, NEW b, Fine(a), Fine(b) PROVE Fine(Or(a, b))
  BY <1>2 DEF Or
<1>3. Fine(Subtype(p)) /\ Fine(Kind(p))
  BY <1>1, <1>2 DEF Subtype, Kind
<1>4. ASSUME NEW r \in At(p, "ref") PROVE IsSequence(RefBranch(r)) /\ IsSequence(RefBranchBare(r))
  <2>1. r \in Seq(ToSet(r))
    BY <1>1 DEF IsSequence
  <2>2. IsSequence(<<Last(r)>>)
    <3>1. <<Last(r)>> \in Seq({Last(r)})
      OBVIOUS
    <3> QED
      BY <3>1, ToSetIs DEF IsSequence
  <2>3. CASE IsRef(r)
    <3>1. r # <<>>
      BY <1>1
    <3>2. Tail(r) \in Seq(ToSet(r))
      BY <2>1, <3>1, HeadTailProperties
    <3> QED
      BY <2>3, <3>2, ToSetIs DEF IsSequence, RefBranch, RefBranchBare
  <2>4. CASE ~IsRef(r)
    BY <1>1, <2>2, <2>4 DEF RefBranch, RefBranchBare
  <2> QED
    BY <2>3, <2>4
<1>5. Fine(Branch(p))
  <2>1. Fine({RefBranch(r) : r \in At(p, "ref")}) /\ Fine({RefBranchBare(r) : r \in At(p, "ref")})
    BY <1>4
  <2> QED
    BY <1>1, <1>2, <2>1 DEF Branch
<1> HIDE DEF Fine
<1>6. Fine(ResolveSelector(p, selector))
  BY <1>0, <1>1, <1>2, <1>3, <1>5 DEF ResolveSelector
<1> QED
  BY <1>6 DEF Fine

(* The engine finds a rule to match when it does as written.               *)
LEMMA RuleIs ==
  ASSUME NEW p \in Payloads, NEW rule, IsRule(rule)
  PROVE  RouteMatches(p, rule) <=> Means(p, rule)
<1>1. ASSUME NEW selector \in DOMAIN rule.match, selector # "event",
             NEW text \in ResolveSelector(p, selector), NEW m \in rule.match[selector]
      PROVE  Matches(m, text) <=> IF m \in DOMAIN Regex THEN text \in Regex[m] ELSE GlobMeans(m, text)
  <2>1. IsSequence(text)
    BY Texts
  <2>2. m \notin DOMAIN Regex => IsGlob(m)
    BY <1>1 DEF IsRule
  <2> QED
    BY <2>1, <2>2, GlobIs DEF Matches
<1> QED
  BY <1>1 DEF RouteMatches, Means
-----------------------------------------------------------------------------
(* Chats.                                                                  *)
NoTwoWays(chats, refs) ==
  \A r, t \in ToSet(refs) : Resolve(chats, r).id = Resolve(chats, t).id => r = t

LEMMA FirstRefIs ==
  ASSUME NEW chats, NEW S, NEW refs \in Seq(S), NEW id, NEW r \in ToSet(refs),
         Resolve(chats, r).id = id
  PROVE  /\ FirstRef(chats, refs, id) \in ToSet(refs)
         /\ Resolve(chats, FirstRef(chats, refs, id)).id = id
         /\ NoTwoWays(chats, refs) => FirstRef(chats, refs, id) = r
<1> DEFINE Is(i) == /\ Resolve(chats, refs[i]).id = id
                    /\ \A j \in 1 .. i - 1 : Resolve(chats, refs[j]).id # id
           at == {i \in DOMAIN refs : Resolve(chats, refs[i]).id = id}
<1>1. DOMAIN refs \in SUBSET Nat /\ DOMAIN refs = 1 .. Len(refs) /\ Len(refs) \in Nat
  OBVIOUS
<1>2. at \in SUBSET Nat /\ at # {}
  BY <1>1 DEF ToSet
<1>3. PICK k \in at : \A j \in at : k <= j
  <2> HIDE DEF at
  <2> QED
    BY <1>2, Least
<1>4. \A j \in 1 .. k - 1 : Resolve(chats, refs[j]).id # id
  <2> SUFFICES ASSUME NEW j \in 1 .. k - 1, Resolve(chats, refs[j]).id = id PROVE FALSE
    OBVIOUS
  <2>1. k \in 1 .. Len(refs) /\ j \in 1 .. Len(refs) /\ j < k
    BY <1>1, <1>3
  <2>2. j \in at
    BY <1>1, <2>1
  <2> QED
    BY <1>3, <2>1, <2>2
<1>5. k \in DOMAIN refs /\ Is(k)
  BY <1>3, <1>4
<1>6. FirstRef(chats, refs, id) = refs[CHOOSE i \in DOMAIN refs : Is(i)]
  BY DEF FirstRef
<1>7. PICK i \in DOMAIN refs : Is(i) /\ FirstRef(chats, refs, id) = refs[i]
  <2> HIDE DEF Is
  <2> QED
    BY <1>5, <1>6
<1>8. refs[i] \in ToSet(refs)
  BY DEF ToSet
<1> QED
  BY <1>7, <1>8 DEF NoTwoWays

LEMMA FirstRefSome ==
  ASSUME NEW chats, NEW refs, IsSequence(refs), NEW id, NEW r \in ToSet(refs),
         Resolve(chats, r).id = id
  PROVE  /\ FirstRef(chats, refs, id) \in ToSet(refs)
         /\ Resolve(chats, FirstRef(chats, refs, id)).id = id
         /\ NoTwoWays(chats, refs) => FirstRef(chats, refs, id) = r
<1>1. refs \in Seq(ToSet(refs))
  BY DEF IsSequence
<1> QED
  BY <1>1, FirstRefIs

(* The configuration as it is served.                                      *)
LookupIn(y, id) == IF id \in DOMAIN y.env THEN y.env[id] ELSE id
Unbound(y)      == {a \in DOMAIN y.chats : y.chats[a].bot \notin y.bots \cup {Absent}}
LoadedChats(y)  == [a \in DOMAIN y.chats |->
                      [id |-> LookupIn(y, y.chats[a].id), bot |-> y.chats[a].bot]]
ServedChats(y)  == [a \in DOMAIN y.chats |->
                      [id  |-> LookupIn(y, y.chats[a].id),
                       bot |-> IF a \in Unbound(y) THEN Absent ELSE y.chats[a].bot]]
MultiBot(y)     == y.bot = Absent /\ Cardinality(y.bots) > 1
BotIn(y, bound) ==
  LET single == IF y.bot # Absent THEN y.bot ELSE CHOOSE b \in y.bots : TRUE
  IN IF MultiBot(y) THEN IF bound \in y.bots THEN bound ELSE Absent
     ELSE IF bound \in {Absent, single} THEN single ELSE Absent

LEMMA SettingIs ==
  ASSUME NEW y \in Settings
  PROVE  /\ \A a \in DOMAIN y.chats :
               /\ LookupIn(y, y.chats[a].id) \in ChatIds \cup {Absent}
               /\ y.chats[a].id \in ChatIds \cup {Absent} => LookupIn(y, y.chats[a].id) = y.chats[a].id
         /\ IsFiniteSet(y.bots) /\ Absent \notin y.bots
         /\ IsSequence(y.senders)
         /\ \A i \in DOMAIN y.senders :
              LET s == y.senders[i]
              IN IsSequence(s.chats) /\ IsSequence(s.routes) /\ \A j \in DOMAIN s.routes : IsRule(s.routes[j])
<1>1. IsSetting(y)
  BY HookAssumption DEF HookAssumption
<1>2. ASSUME NEW i \in DOMAIN y.senders PROVE y.senders[i] \in ToSet(y.senders)
  BY DEF ToSet
<1> QED
  BY <1>1, <1>2 DEF IsSetting, LookupIn

LEMMA SenderIs ==
  ASSUME NEW y \in Settings, NEW i \in DOMAIN y.senders
  PROVE  LET s == y.senders[i]
         IN /\ s.chats \in Seq(ToSet(s.chats)) /\ s.routes \in Seq(ToSet(s.routes))
            /\ RouteChats(s) \in Seq(ChatsOf(s.routes)) /\ ToSet(RouteChats(s)) = ChatsOf(s.routes)
            /\ Declared(s) \in Seq(ToSet(Declared(s)))
<1> DEFINE s == y.senders[i]
<1>1. IsSequence(s.chats) /\ IsSequence(s.routes) /\ \A j \in DOMAIN s.routes : IsSequence(s.routes[j].chats)
  BY SettingIs DEF IsRule
<1> HIDE DEF s
<1>2. s.chats \in Seq(ToSet(s.chats)) /\ s.routes \in Seq(ToSet(s.routes))
  BY <1>1 DEF IsSequence
<1>3. RouteChats(s) \in Seq(ChatsOf(s.routes)) /\ ToSet(RouteChats(s)) = ChatsOf(s.routes)
  BY <1>1, <1>2, NamesAre DEF RouteChats
<1>4. Declared(s) \in Seq(ToSet(Declared(s)))
  BY <1>2, <1>3, ToSetIs DEF Declared
<1> QED
  BY <1>2, <1>3, <1>4 DEF s

(* A chat is resolved as written but for references and unknown bots.      *)
LEMMA ServedIs ==
  ASSUME NEW y \in Settings, NEW r
  PROVE  LET was == Resolve(y.chats, r)
             is  == Resolve(ServedChats(y), r)
         IN /\ was = Unresolved => is = Unresolved
            /\ r \in ChatIds => is = [id |-> r, bot |-> Absent] /\ was = is
            /\ is # Unresolved => is.id \in ChatIds
            /\ is = Unresolved => is.id = Absent /\ is.bot = Absent
            /\ was.id \in ChatIds => is.id = was.id
            /\ is.bot \in y.bots \cup {Absent}
            /\ is # Unresolved /\ Unbound(y) = {} => is.bot = was.bot
            /\ r \notin ChatIds /\ is # Unresolved =>
                 r \in DOMAIN y.chats /\ was = y.chats[r] /\ is = ServedChats(y)[r]
<1> DEFINE chats == ServedChats(y)
<1>1. DOMAIN chats = DOMAIN y.chats
      /\ \A a \in DOMAIN y.chats : /\ chats[a].id = LookupIn(y, y.chats[a].id)
                                   /\ chats[a].bot = IF a \in Unbound(y) THEN Absent ELSE y.chats[a].bot
  BY DEF ServedChats
<1>2. Absent \notin ChatIds
  BY RulesAssumption DEF RulesAssumption
<1>3. Unresolved.id = Absent /\ Unresolved.bot = Absent
  BY DEF Unresolved
<1>4. CASE r \in ChatIds
  <2>1. Resolve(chats, r) = [id |-> r, bot |-> Absent] /\ Resolve(y.chats, r) = [id |-> r, bot |-> Absent]
    BY <1>4 DEF Resolve
  <2> HIDE DEF chats
  <2> QED
    BY <1>2, <1>3, <1>4, <2>1 DEF chats
<1>5. CASE r \notin ChatIds /\ r \in DOMAIN y.chats
  <2>1. /\ LookupIn(y, y.chats[r].id) \in ChatIds \cup {Absent}
        /\ y.chats[r].id \in ChatIds \cup {Absent} => LookupIn(y, y.chats[r].id) = y.chats[r].id
    BY <1>5, SettingIs
  <2>2. Resolve(y.chats, r) = IF y.chats[r].id # Absent THEN y.chats[r] ELSE Unresolved
    BY <1>5 DEF Resolve
  <2>3. Resolve(chats, r) = IF chats[r].id # Absent THEN chats[r] ELSE Unresolved
    BY <1>1, <1>5 DEF Resolve
  <2>4. /\ chats[r].id = LookupIn(y, y.chats[r].id)
        /\ chats[r].bot = IF r \in Unbound(y) THEN Absent ELSE y.chats[r].bot
    BY <1>1, <1>5
  <2>5. r \notin Unbound(y) => y.chats[r].bot \in y.bots \cup {Absent}
    BY <1>5 DEF Unbound
  <2> HIDE DEF chats
  <2>6. Resolve(y.chats, r) = Unresolved => Resolve(chats, r) = Unresolved
    <3>1. SUFFICES ASSUME Resolve(y.chats, r) = Unresolved PROVE Resolve(chats, r) = Unresolved
      OBVIOUS
    <3>2. y.chats[r].id = Absent
      BY <1>3, <2>2, <3>1
    <3> QED
      BY <2>1, <2>3, <2>4, <3>2
  <2> QED
    BY <1>2, <1>3, <1>5, <2>1, <2>2, <2>3, <2>4, <2>5, <2>6 DEF chats
<1>6. CASE r \notin ChatIds /\ r \notin DOMAIN y.chats
  <2>1. Resolve(chats, r) = Unresolved /\ Resolve(y.chats, r) = Unresolved
    BY <1>1, <1>6 DEF Resolve
  <2> HIDE DEF chats
  <2> QED
    BY <1>2, <1>3, <1>6, <2>1 DEF chats
<1> QED
  BY <1>4, <1>5, <1>6
-----------------------------------------------------------------------------
(* `config validate' and serve.                                            *)
LEMMA CardinalityTwo ==
  ASSUME NEW set, IsFiniteSet(set), Cardinality(set) > 1
  PROVE  \E x, y \in set : x # y
<1> SUFFICES ASSUME \A x, y \in set : x = y PROVE FALSE
  OBVIOUS
<1>1. set # {}
  BY FS_EmptySet
<1>2. PICK x \in set : TRUE
  BY <1>1
<1>3. set = {x}
  BY <1>2
<1>4. Cardinality(set) = 1
  BY <1>3, FS_Singleton
<1> QED
  BY <1>4

LEMMA ClassifiedIs ==
  ASSUME NEW y \in Settings, NEW r
  PROVE  LET id == Classified(y.chats, r).id
         IN /\ id # Absent => /\ id \in ChatIds /\ id = Resolve(y.chats, r).id
                              /\ id = Resolve(ServedChats(y), r).id
                              /\ Resolve(ServedChats(y), r) # Unresolved
            /\ Resolve(y.chats, r).id \in ChatIds => id = Resolve(y.chats, r).id
<1>1. Absent \notin ChatIds /\ Unresolved.id = Absent
  BY RulesAssumption DEF RulesAssumption, Unresolved
<1> DEFINE was == Resolve(y.chats, r)
<1>2. was.id \in ChatIds => Classified(y.chats, r).id = was.id
  BY DEF Classified
<1>3. ASSUME was.id \notin ChatIds PROVE Classified(y.chats, r).id = Absent
  <2>1. was = Unresolved \/ (r \in DOMAIN y.chats /\ was = y.chats[r])
    BY <1>3 DEF Resolve
  <2>2. was = [id |-> was.id, bot |-> was.bot]
    <3>1. \A a \in DOMAIN y.chats : y.chats[a] = [id |-> y.chats[a].id, bot |-> y.chats[a].bot]
      BY HookAssumption DEF HookAssumption, IsSetting
    <3> QED
      BY <2>1, <3>1 DEF Unresolved
  <2>3. Classified(y.chats, r) = [was EXCEPT !.id = Absent]
    BY <1>3 DEF Classified
  <2> HIDE DEF was
  <2> QED
    BY <2>2, <2>3
<1>4. was.id \in ChatIds => /\ Resolve(ServedChats(y), r).id = was.id
                            /\ Resolve(ServedChats(y), r) # Unresolved
  BY <1>1, ServedIs
<1> QED
  BY <1>1, <1>2, <1>3, <1>4

LEMMA FirstKnown ==
  ASSUME NEW y \in Settings, NEW refs, IsSequence(refs), NEW r, Classified(y.chats, r).id # Absent,
         NEW t \in ToSet(refs), Classified(y.chats, t).id = Classified(y.chats, r).id
  PROVE  LET first == FirstRef(y.chats, refs, Classified(y.chats, r).id)
         IN first \in ToSet(refs) /\ Classified(y.chats, first).id = Classified(y.chats, r).id
<1> DEFINE id == Classified(y.chats, r).id
           first == FirstRef(y.chats, refs, id)
<1>1. Resolve(y.chats, t).id = id /\ id \in ChatIds
  BY ClassifiedIs
<1> HIDE DEF id
<1>2. first \in ToSet(refs) /\ Resolve(y.chats, first).id = id
  BY <1>1, FirstRefSome
<1>3. Classified(y.chats, first).id = id
  <2> HIDE DEF first
  <2> QED
    BY <1>1, <1>2, ClassifiedIs
<1> QED
  BY <1>2, <1>3 DEF id

(* What the check off line calls an error, serve refuses.                  *)
LEMMA ErrorsRefused ==
  ASSUME NEW y \in Settings, NEW i \in DOMAIN y.senders, Unbound(y) = {},
         OfflineError(y.chats, y.senders[i]),
         TargetsAccepted(ServedChats(y), MultiBot(y), y.senders[i])
  PROVE  FALSE
<1> DEFINE s == y.senders[i]
           chats == ServedChats(y)
           Was(r) == Resolve(y.chats, r)
           Is(r)  == Resolve(chats, r)
           Id(r)  == Classified(y.chats, r).id
<1>1. /\ s.chats \in Seq(ToSet(s.chats)) /\ Declared(s) \in Seq(ToSet(Declared(s)))
      /\ RouteChats(s) \in Seq(ChatsOf(s.routes))
  BY SenderIs
<1> HIDE DEF s, chats
<1>2. /\ \A r \in ToSet(Declared(s)) : Is(r) # Unresolved
      /\ \A r, t \in ToSet(Declared(s)) : Is(r).id = Is(t).id => r = t
      /\ Explicit(s) =>
           \A r \in ToSet(RouteChats(s)) :
             /\ Is(r) # Unresolved
             /\ \E t \in ToSet(s.chats) : Is(t).id = Is(r).id
             /\ ~BotConflict(chats, FirstRef(chats, s.chats, Is(r).id), r)
  BY DEF TargetsAccepted, IdsOf, s, chats
<1>3. \A r : Was(r) = Unresolved => Is(r) = Unresolved
  BY ServedIs DEF chats
<1>4. \A r : Id(r) # Absent => /\ Id(r) \in ChatIds /\ Id(r) = Was(r).id /\ Id(r) = Is(r).id
                               /\ Is(r) # Unresolved
  BY ClassifiedIs DEF chats
<1>5. Declared(s) = IF Explicit(s) THEN s.chats ELSE RouteChats(s)
  BY DEF Declared
<1>6. \A r \in ToSet(Declared(s)) \cup ToSet(RouteChats(s)) : ~Bad(y.chats, r)
  BY <1>2, <1>3, <1>5 DEF Bad
<1>7. ToSet(Declared(s) \o RouteChats(s)) = ToSet(Declared(s)) \cup ToSet(RouteChats(s))
  <2> DEFINE S == ToSet(Declared(s)) \cup ChatsOf(s.routes)
  <2>1. Declared(s) \in Seq(S) /\ RouteChats(s) \in Seq(S)
    BY <1>1
  <2> HIDE DEF S
  <2> QED
    BY <2>1, ConcatIs
<1>8. ~ \E r, t \in ToSet(Declared(s)) : r # t /\ Id(r) # Absent /\ Id(r) = Id(t)
  BY <1>2, <1>4
<1>9. PICK r \in ToSet(RouteChats(s)) :
        /\ Explicit(s) /\ Id(r) # Absent
        /\ IF \E t \in ToSet(s.chats) : Id(t) = Id(r)
           THEN OfflineConflict(y.chats, s, r)
           ELSE \A t \in ToSet(s.chats) : Id(t) # Absent
  BY <1>6, <1>7, <1>8 DEF OfflineError, s
<1>10. \E t \in ToSet(s.chats) : Id(t) = Id(r)
  <2> SUFFICES ASSUME \A t \in ToSet(s.chats) : Id(t) # Absent
               PROVE  \E t \in ToSet(s.chats) : Id(t) = Id(r)
    BY <1>9
  <2> QED
    BY <1>2, <1>4, <1>9
<1>11. PICK t \in ToSet(s.chats) : Id(t) = Id(r)
  BY <1>10
<1>12. OfflineConflict(y.chats, s, r)
  BY <1>9, <1>10
<1> DEFINE first == FirstRef(y.chats, s.chats, Id(r))
<1>13. first \in ToSet(s.chats) /\ Was(first).id = Id(r)
  <2> DEFINE id == Id(r)
  <2>1. Was(t).id = id
    BY <1>4, <1>9, <1>11
  <2> HIDE DEF id
  <2>2. FirstRef(y.chats, s.chats, id) \in ToSet(s.chats)
        /\ Was(FirstRef(y.chats, s.chats, id)).id = id
    BY <1>1, <2>1, FirstRefIs
  <2> QED
    BY <2>2 DEF id
<1>14. Is(first).id = Is(r).id /\ Is(first) # Unresolved /\ Is(r) # Unresolved
  <2>1. Was(first).id \in ChatIds
    BY <1>4, <1>9, <1>13
  <2>2. Is(first).id = Was(first).id
    BY <2>1, ServedIs DEF chats
  <2> HIDE DEF first
  <2> QED
    BY <1>2, <1>4, <1>5, <1>9, <1>13, <2>2
<1>15. FirstRef(chats, s.chats, Is(r).id) = first
  <2>1. NoTwoWays(chats, s.chats)
    BY <1>2, <1>5, <1>9 DEF NoTwoWays
  <2> HIDE DEF first
  <2> QED
    BY <1>1, <1>13, <1>14, <2>1, FirstRefIs
<1>16. /\ first # r /\ r \notin ChatIds /\ first \notin ChatIds
       /\ y.chats[r].bot # Absent /\ y.chats[first].bot # Absent
       /\ y.chats[r].bot # y.chats[first].bot
  <2>1. /\ first # r /\ Absent \notin {y.chats[x].bot : x \in {r, first} \ ChatIds}
        /\ r \notin ChatIds /\ first \notin ChatIds /\ y.chats[r].bot # y.chats[first].bot
    BY <1>12 DEF OfflineConflict
  <2> HIDE DEF first
  <2>2. r \in {r, first} \ ChatIds /\ first \in {r, first} \ ChatIds
    BY <2>1
  <2> QED
    BY <2>1, <2>2
<1>17. Is(r).bot = y.chats[r].bot /\ Is(first).bot = y.chats[first].bot
  BY <1>14, <1>16, ServedIs DEF chats
<1>18. BotConflict(chats, first, r)
  <2> HIDE DEF first
  <2> QED
    BY <1>16, <1>17 DEF BotConflict
<1> QED
  BY <1>2, <1>9, <1>15, <1>18

(* What serve refuses with every id known, the check off line has named.   *)
LEMMA RefusedNamed ==
  ASSUME NEW y \in Settings, NEW i \in DOMAIN y.senders, Unbound(y) = {},
         \A r \in ToSet(Declared(y.senders[i]) \o RouteChats(y.senders[i])) :
           Bad(y.chats, r) \/ Classified(y.chats, r).id # Absent,
         ~OfflineError(y.chats, y.senders[i]),
         ~OfflineWarning(y.chats, y.bots, y.senders[i])
  PROVE  TargetsAccepted(ServedChats(y), MultiBot(y), y.senders[i])
<1> DEFINE s == y.senders[i]
           chats == ServedChats(y)
           Was(r) == Resolve(y.chats, r)
           Is(r)  == Resolve(chats, r)
           Id(r)  == Classified(y.chats, r).id
<1>1. /\ s.chats \in Seq(ToSet(s.chats)) /\ Declared(s) \in Seq(ToSet(Declared(s)))
      /\ RouteChats(s) \in Seq(ChatsOf(s.routes))
  BY SenderIs
<1>2. /\ \A r \in ToSet(Declared(s) \o RouteChats(s)) : Id(r) # Absent
      /\ \A r, t \in ToSet(Declared(s)) : Id(r) # Absent /\ Id(r) = Id(t) => r = t
      /\ Explicit(s) => \A r \in ToSet(RouteChats(s)) :
           /\ Id(r) # Absent /\ (\E t \in ToSet(s.chats) : Id(t) = Id(r)) => ~OfflineConflict(y.chats, s, r)
           /\ Id(r) # Absent /\ (\A t \in ToSet(s.chats) : Id(t) # Absent)
                => \E t \in ToSet(s.chats) : Id(t) = Id(r)
  BY DEF OfflineError
<1>3. (\E x, z \in y.bots : x # z) =>
        \A r \in ToSet(Declared(s)) : r \notin ChatIds /\ (r \in DOMAIN y.chats => y.chats[r].bot # Absent)
  BY DEF OfflineWarning
<1> HIDE DEF s, chats
<1>4. \A r : Id(r) # Absent => /\ Id(r) \in ChatIds /\ Id(r) = Was(r).id /\ Id(r) = Is(r).id
                               /\ Is(r) # Unresolved
  BY ClassifiedIs DEF chats
<1>5. Declared(s) = IF Explicit(s) THEN s.chats ELSE RouteChats(s)
  BY DEF Declared
<1>6. \A r \in ToSet(Declared(s)) \cup ToSet(RouteChats(s)) : Id(r) # Absent
  <2> DEFINE S == ToSet(Declared(s)) \cup ChatsOf(s.routes)
  <2>1. Declared(s) \in Seq(S) /\ RouteChats(s) \in Seq(S)
    BY <1>1
  <2> HIDE DEF S
  <2>2. ToSet(Declared(s) \o RouteChats(s)) = ToSet(Declared(s)) \cup ToSet(RouteChats(s))
    BY <2>1, ConcatIs
  <2> QED
    BY <1>2, <2>2
<1>7. \A r \in ToSet(Declared(s)) : Is(r) # Unresolved
  BY <1>4, <1>6
<1>8. \A r : r \notin ChatIds /\ Is(r) # Unresolved => r \in DOMAIN y.chats /\ Is(r).bot = y.chats[r].bot
  BY ServedIs DEF chats
<1>9. \A r : r \in ChatIds => Is(r).bot = Absent
  BY ServedIs DEF chats
<1>10. MultiBot(y) => \A r \in ToSet(Declared(s)) : r \notin ChatIds /\ Is(r).bot # Absent
  <2> SUFFICES ASSUME MultiBot(y), NEW r \in ToSet(Declared(s))
               PROVE  r \notin ChatIds /\ Is(r).bot # Absent
    OBVIOUS
  <2>1. \E x, z \in y.bots : x # z
    BY SettingIs, CardinalityTwo DEF MultiBot
  <2> QED
    BY <1>3, <1>7, <1>8, <2>1
<1>11. \A r, t \in ToSet(Declared(s)) : Is(r).id = Is(t).id => r = t
  BY <1>2, <1>4, <1>6
<1>12. ASSUME Explicit(s), NEW r \in ToSet(RouteChats(s))
       PROVE  /\ Is(r) # Unresolved /\ Is(r).id \in IdsOf(chats, ToSet(s.chats))
              /\ ~BotConflict(chats, FirstRef(chats, s.chats, Is(r).id), r)
  <2>1. Id(r) # Absent /\ \A t \in ToSet(s.chats) : Id(t) # Absent
    BY <1>5, <1>6, <1>12
  <2>2. PICK t \in ToSet(s.chats) : Id(t) = Id(r)
    BY <1>2, <1>12, <2>1
  <2>3. ~OfflineConflict(y.chats, s, r)
    BY <1>2, <1>12, <2>1, <2>2
  <2>4. Is(r) # Unresolved /\ Is(t).id = Is(r).id /\ Was(t).id = Id(r) /\ Is(r).id = Id(r)
    BY <1>4, <2>1, <2>2
  <2>5. NoTwoWays(chats, s.chats)
    BY <1>5, <1>11, <1>12 DEF NoTwoWays
  <2>6. FirstRef(chats, s.chats, Is(r).id) = t
    BY <1>1, <2>4, <2>5, FirstRefIs
  <2> DEFINE first == FirstRef(y.chats, s.chats, Id(r))
  <2>7. first \in ToSet(s.chats) /\ Id(first) = Id(r)
    BY <1>1, <2>1, <2>2, FirstKnown DEF IsSequence
  <2>8. first = t
    <3> HIDE DEF first
    <3> QED
      BY <1>2, <1>5, <1>12, <2>1, <2>2, <2>7
  <2>9. Is(r).id \in IdsOf(chats, ToSet(s.chats))
    BY <2>4 DEF IdsOf
  <2>10. ~BotConflict(chats, t, r)
    <3> SUFFICES ASSUME BotConflict(chats, t, r) PROVE FALSE
      OBVIOUS
    <3>1. r # t /\ Is(r).bot # Absent /\ Is(t).bot # Absent /\ Is(r).bot # Is(t).bot
      BY DEF BotConflict
    <3>2. r \notin ChatIds /\ t \notin ChatIds
      BY <1>9, <3>1
    <3>3. Is(t) # Unresolved
      BY <1>4, <2>1
    <3>4. Is(r).bot = y.chats[r].bot /\ Is(t).bot = y.chats[t].bot
      BY <1>8, <2>4, <3>2, <3>3
    <3>5. OfflineConflict(y.chats, s, r)
      <4> HIDE DEF first
      <4>1. Absent \notin {y.chats[x].bot : x \in {r, t} \ ChatIds}
        BY <3>1, <3>4
      <4>2. FirstRef(y.chats, s.chats, Classified(y.chats, r).id) = t
        BY <2>8 DEF first
      <4> QED
        BY <3>1, <3>2, <3>4, <4>1, <4>2 DEF OfflineConflict
    <3> QED
      BY <2>3, <3>5
  <2> QED
    BY <2>4, <2>6, <2>9, <2>10
<1> QED
  BY <1>7, <1>10, <1>11, <1>12 DEF TargetsAccepted, s, chats
-----------------------------------------------------------------------------
(* The senders as served, and the chats an event is planned for.           *)
Secret(y, i) == LookupIn(y, y.senders[i].secret)

Rewritten(chats, scope, rules) ==
  [i \in DOMAIN rules |->
     [rules[i] EXCEPT !.chats = [j \in DOMAIN @ |-> scope[Resolve(chats, @[j]).id]]]]

ScopeOf(chats, refs) == [id \in IdsOf(chats, ToSet(refs)) |-> FirstRef(chats, refs, id)]

BuiltFrom(chats, secret, s) ==
  [secret  |-> secret,
   scope   |-> ScopeOf(chats, Declared(s)),
   targets |-> Unique(Declared(s)),
   routes  |-> Rewritten(chats, ScopeOf(chats, Declared(s)), s.routes)]

BuiltIn(y, s) == BuiltFrom(ServedChats(y), LookupIn(y, s.secret), s)

LEMMA BuiltIs ==
  ASSUME cfgChats = ServedChats(yaml), NEW s
  PROVE  Built(s) = BuiltIn(yaml, s)
<1>1. Lookup(s.secret) = LookupIn(yaml, s.secret)
  BY DEF Lookup, LookupIn
<1>2. Built(s) = BuiltFrom(cfgChats, Lookup(s.secret), s)
  BY Zenon DEF Built, BuiltFrom, ScopeOf, Rewritten
<1> QED
  BY <1>1, <1>2 DEF BuiltIn

(* A plan: references of the sender, a chat at most once, and together the *)
(* chats the event is for.                                                 *)
Routed(y, i, e, plan) ==
  LET Id(r) == Resolve(ServedChats(y), r).id
  IN /\ plan \in Seq(ToSet(Declared(y.senders[i])))
     /\ \A j, k \in 1 .. Len(plan) : Id(plan[j]) = Id(plan[k]) => j = k
     /\ {Id(plan[j]) : j \in 1 .. Len(plan)} = IdsOf(ServedChats(y), Named(y.senders[i], e))

Accepted(y, i) == TargetsAccepted(ServedChats(y), MultiBot(y), y.senders[i])

LEMMA AcceptedIs ==
  ASSUME NEW y \in Settings, NEW i \in DOMAIN y.senders, Accepted(y, i)
  PROVE  LET s     == y.senders[i]
             refs  == ToSet(Declared(s))
             Is(r) == Resolve(ServedChats(y), r)
         IN /\ \A r \in refs : Is(r).id \in ChatIds
            /\ NoTwoWays(ServedChats(y), Declared(s))
            /\ \A r \in refs : FirstRef(ServedChats(y), Declared(s), Is(r).id) = r
            /\ MultiBot(y) => \A r \in refs : Is(r).bot \in y.bots
            /\ \A r \in ToSet(RouteChats(s)) : \E t \in refs : Is(t).id = Is(r).id
<1> DEFINE s     == y.senders[i]
           chats == ServedChats(y)
           refs  == ToSet(Declared(s))
           Is(r) == Resolve(chats, r)
<1>1. /\ \A r \in refs : Is(r) # Unresolved
      /\ MultiBot(y) => \A r \in refs : Is(r).bot # Absent
      /\ NoTwoWays(chats, Declared(s))
      /\ Explicit(s) => \A r \in ToSet(RouteChats(s)) : \E t \in ToSet(s.chats) : Is(t).id = Is(r).id
  BY DEF Accepted, TargetsAccepted, NoTwoWays, IdsOf
<1>2. \A r \in refs : Is(r).id \in ChatIds
  BY <1>1, ServedIs
<1>3. MultiBot(y) => \A r \in refs : Is(r).bot \in y.bots
  BY <1>1, ServedIs
<1>4. IsSequence(Declared(s))
  BY SenderIs DEF IsSequence
<1>5. Declared(s) = IF Explicit(s) THEN s.chats ELSE RouteChats(s)
  BY DEF Declared
<1> HIDE DEF s, chats
<1>6. ASSUME NEW r \in refs PROVE FirstRef(chats, Declared(s), Is(r).id) = r
  BY <1>1, <1>4, FirstRefSome
<1>7. \A r \in ToSet(RouteChats(s)) : \E t \in refs : Is(t).id = Is(r).id
  BY <1>1, <1>5
<1> QED
  BY <1>1, <1>2, <1>3, <1>6, <1>7 DEF s, chats

(* Distinct references of an accepted sender are of distinct chats.        *)
LEMMA PlanFrom ==
  ASSUME NEW y \in Settings, NEW i \in DOMAIN y.senders, Accepted(y, i), NEW e, NEW plan,
         plan \in Seq(ToSet(Declared(y.senders[i]))), Distinct(plan),
         IdsOf(ServedChats(y), ToSet(plan)) = IdsOf(ServedChats(y), Named(y.senders[i], e))
  PROVE  Routed(y, i, e, plan)
<1> DEFINE Id(r) == Resolve(ServedChats(y), r).id
           refs  == ToSet(Declared(y.senders[i]))
<1>1. DOMAIN plan = 1 .. Len(plan) /\ \A j \in 1 .. Len(plan) : plan[j] \in refs
  OBVIOUS
<1>2. \A r, t \in refs : Id(r) = Id(t) => r = t
  BY AcceptedIs DEF NoTwoWays
<1>3. \A j, k \in 1 .. Len(plan) : Id(plan[j]) = Id(plan[k]) => j = k
  BY <1>1, <1>2 DEF Distinct
<1>4. {Id(plan[j]) : j \in 1 .. Len(plan)} = IdsOf(ServedChats(y), ToSet(plan))
  BY <1>1 DEF IdsOf, ToSet
<1> QED
  BY <1>3, <1>4 DEF Routed

LEMMA PartsOfBuilt ==
  ASSUME NEW y \in Settings, NEW i \in DOMAIN y.senders, Accepted(y, i)
  PROVE  LET s     == y.senders[i]
             run   == BuiltIn(y, s)
             refs  == ToSet(Declared(s))
             Id(r) == Resolve(ServedChats(y), r).id
         IN /\ run.secret = Secret(y, i) /\ run.targets = Unique(Declared(s))
            /\ DOMAIN run.scope = {Id(r) : r \in refs}
            /\ \A r \in refs : run.scope[Id(r)] = r
            /\ DOMAIN run.routes = DOMAIN s.routes
            /\ \A j \in DOMAIN s.routes :
                 run.routes[j] = [s.routes[j] EXCEPT !.chats =
                                    [k \in DOMAIN @ |-> run.scope[Id(@[k])]]]
<1>1. \A r \in ToSet(Declared(y.senders[i])) :
        FirstRef(ServedChats(y), Declared(y.senders[i]), Resolve(ServedChats(y), r).id) = r
  BY AcceptedIs
<1> DEFINE s == y.senders[i]
           run == BuiltIn(y, s)
           Id(r) == Resolve(ServedChats(y), r).id
<1>2. /\ run.secret = Secret(y, i) /\ run.targets = Unique(Declared(s))
      /\ run.scope = ScopeOf(ServedChats(y), Declared(s))
      /\ run.routes = Rewritten(ServedChats(y), run.scope, s.routes)
  BY DEF BuiltIn, BuiltFrom, Secret
<1> HIDE DEF run
<1>3. DOMAIN run.scope = {Id(r) : r \in ToSet(Declared(s))}
      /\ \A r \in ToSet(Declared(s)) : run.scope[Id(r)] = r
  BY <1>1, <1>2 DEF IdsOf, ScopeOf
<1>4. DOMAIN run.routes = DOMAIN s.routes
      /\ \A j \in DOMAIN s.routes :
           run.routes[j] = [s.routes[j] EXCEPT !.chats = [k \in DOMAIN @ |-> run.scope[Id(@[k])]]]
  BY <1>2 DEF Rewritten
<1> QED
  BY <1>2, <1>3, <1>4, Zenon DEF run

LEMMA TargetsPlan ==
  ASSUME NEW y \in Settings, NEW i \in DOMAIN y.senders, Accepted(y, i), NEW e,
         e.query = Absent, y.senders[i].routes = <<>>
  PROVE  Routed(y, i, e, BuiltIn(y, y.senders[i]).targets)
<1> DEFINE s == y.senders[i]
           plan == BuiltIn(y, s).targets
<1>1. plan = Unique(Declared(s))
  BY PartsOfBuilt
<1>2. Declared(s) \in Seq(ToSet(Declared(s))) /\ ToSet(RouteChats(s)) = ChatsOf(s.routes)
  BY SenderIs
<1> HIDE DEF plan
<1>3. plan \in Seq(ToSet(Declared(s))) /\ ToSet(plan) = ToSet(Declared(s)) /\ Distinct(plan)
  BY <1>1, <1>2, UniqueIs
<1>4. ToSet(Declared(s)) = ToSet(s.chats)
  <2>1. ChatsOf(s.routes) = {}
    <3>1. DOMAIN s.routes = {}
      OBVIOUS
    <3> QED
      BY <3>1 DEF ChatsOf
  <2>2. s.chats = <<>> => ToSet(s.chats) = {}
    BY EmptySequence
  <2> QED
    BY <1>2, <2>1, <2>2 DEF Declared, Explicit
<1>5. Named(s, e) = ToSet(s.chats)
  BY DEF Named
<1> QED
  BY <1>3, <1>4, <1>5, PlanFrom DEF plan

(* The references of an accepted sender its scope holds.                   *)
LEMMA OwnRefIs ==
  ASSUME NEW y \in Settings, NEW i \in DOMAIN y.senders, Accepted(y, i), NEW r,
         NEW t \in ToSet(Declared(y.senders[i])),
         Resolve(ServedChats(y), t).id = Resolve(ServedChats(y), r).id
  PROVE  LET own == BuiltIn(y, y.senders[i]).scope[Resolve(ServedChats(y), r).id]
         IN own \in ToSet(Declared(y.senders[i]))
            /\ Resolve(ServedChats(y), own).id = Resolve(ServedChats(y), r).id
  BY PartsOfBuilt

LEMMA OwnRefs ==
  ASSUME NEW y \in Settings, NEW i \in DOMAIN y.senders, Accepted(y, i), NEW q, IsSequence(q),
         \A r \in ToSet(q) : \E t \in ToSet(Declared(y.senders[i])) :
           Resolve(ServedChats(y), t).id = Resolve(ServedChats(y), r).id
  PROVE  LET own == [k \in DOMAIN q |->
                       BuiltIn(y, y.senders[i]).scope[Resolve(ServedChats(y), q[k]).id]]
         IN /\ own \in Seq(ToSet(Declared(y.senders[i])))
            /\ IdsOf(ServedChats(y), ToSet(own)) = IdsOf(ServedChats(y), ToSet(q))
<1> DEFINE refs  == ToSet(Declared(y.senders[i]))
           Id(r) == Resolve(ServedChats(y), r).id
           own   == [k \in DOMAIN q |-> BuiltIn(y, y.senders[i]).scope[Id(q[k])]]
<1>1. q \in Seq(ToSet(q)) /\ DOMAIN q = 1 .. Len(q) /\ Len(q) \in Nat
  BY DEF IsSequence
<1>2. \A k \in DOMAIN q : q[k] \in ToSet(q)
  BY DEF ToSet
<1>3. \A k \in DOMAIN q : own[k] \in refs /\ Id(own[k]) = Id(q[k])
  <2> SUFFICES ASSUME NEW k \in DOMAIN q PROVE own[k] \in refs /\ Id(own[k]) = Id(q[k])
    OBVIOUS
  <2>1. PICK t \in refs : Id(t) = Id(q[k])
    BY <1>2
  <2>2. own[k] = BuiltIn(y, y.senders[i]).scope[Id(q[k])]
    OBVIOUS
  <2> QED
    BY <2>1, <2>2, OwnRefIs
<1>4. own = [k \in 1 .. Len(q) |-> own[k]]
  BY <1>1
<1>5. DOMAIN own = DOMAIN q
  OBVIOUS
<1> HIDE DEF own
<1>6. own \in Seq(refs)
  BY <1>1, <1>3, <1>4
<1>7. IdsOf(ServedChats(y), ToSet(own)) = IdsOf(ServedChats(y), ToSet(q))
  BY <1>3, <1>5 DEF IdsOf, ToSet
<1> QED
  BY <1>6, <1>7 DEF own

(* The rules as rewritten match the events those written do.               *)
LEMMA RewrittenIs ==
  ASSUME NEW y \in Settings, NEW i \in DOMAIN y.senders, Accepted(y, i), NEW p \in Payloads
  PROVE  LET s     == y.senders[i]
             rules == BuiltIn(y, s).routes
         IN /\ rules \in Seq(ToSet(rules)) /\ DOMAIN rules = DOMAIN s.routes
            /\ \A j \in DOMAIN rules :
                 /\ rules[j].chats \in Seq(ToSet(Declared(s))) /\ IsSequence(rules[j].chats)
                 /\ rules[j].stop \in BOOLEAN /\ rules[j].stop = s.routes[j].stop
                 /\ IdsOf(ServedChats(y), ToSet(rules[j].chats))
                      = IdsOf(ServedChats(y), ToSet(s.routes[j].chats))
                 /\ RouteMatches(p, rules[j]) <=> Means(p, s.routes[j])
<1> DEFINE s      == y.senders[i]
           rules  == BuiltIn(y, s).routes
           scope  == BuiltIn(y, s).scope
           Own(q) == [k \in DOMAIN q |-> scope[Resolve(ServedChats(y), q[k]).id]]
<1>1. DOMAIN rules = DOMAIN s.routes
      /\ \A j \in DOMAIN s.routes : rules[j] = [s.routes[j] EXCEPT !.chats = Own(s.routes[j].chats)]
  BY PartsOfBuilt
<1>2. s.routes \in Seq(ToSet(s.routes)) /\ ToSet(RouteChats(s)) = ChatsOf(s.routes)
  BY SenderIs
<1>3. \A j \in DOMAIN s.routes : IsRule(s.routes[j])
  BY SettingIs
<1>4. \A r \in ChatsOf(s.routes) : \E t \in ToSet(Declared(s)) :
        Resolve(ServedChats(y), t).id = Resolve(ServedChats(y), r).id
  BY <1>2, AcceptedIs
<1>5. rules = [j \in DOMAIN s.routes |-> rules[j]]
  BY DEF BuiltIn, BuiltFrom, Rewritten
<1>6. ASSUME NEW j \in DOMAIN s.routes
      PROVE  /\ Own(s.routes[j].chats) \in Seq(ToSet(Declared(s)))
             /\ IdsOf(ServedChats(y), ToSet(Own(s.routes[j].chats)))
                  = IdsOf(ServedChats(y), ToSet(s.routes[j].chats))
  <2>1. IsSequence(s.routes[j].chats)
    BY <1>3 DEF IsRule
  <2>2. ToSet(s.routes[j].chats) \subseteq ChatsOf(s.routes)
    BY DEF ChatsOf
  <2>3. \A r \in ToSet(s.routes[j].chats) : \E t \in ToSet(Declared(s)) :
          Resolve(ServedChats(y), t).id = Resolve(ServedChats(y), r).id
    BY <1>4, <2>2
  <2> QED
    BY <2>1, <2>3, OwnRefs
<1> HIDE DEF rules, scope
<1>7. ASSUME NEW j \in DOMAIN s.routes
      PROVE  /\ rules[j].chats = Own(s.routes[j].chats) /\ rules[j].stop = s.routes[j].stop
             /\ rules[j].match = s.routes[j].match
  <2>1. s.routes[j] = [match |-> s.routes[j].match, chats |-> s.routes[j].chats,
                       stop |-> s.routes[j].stop]
    BY <1>3 DEF IsRule
  <2>2. rules[j] = [s.routes[j] EXCEPT !.chats = Own(s.routes[j].chats)]
    BY <1>1
  <2> DEFINE rule == s.routes[j]
             own  == Own(s.routes[j].chats)
  <2>3. rules[j] = [rule EXCEPT !.chats = own] /\ rule = [match |-> rule.match, chats |-> rule.chats, stop |-> rule.stop]
    BY <2>1, <2>2
  <2> HIDE DEF rule, own
  <2>4. rules[j].chats = own /\ rules[j].stop = rule.stop /\ rules[j].match = rule.match
    BY <2>3
  <2> QED
    BY <2>4 DEF rule, own
<1>8. ASSUME NEW j \in DOMAIN s.routes
      PROVE  RouteMatches(p, rules[j]) <=> Means(p, s.routes[j])
  <2>1. RouteMatches(p, rules[j]) <=> RouteMatches(p, s.routes[j])
    BY <1>7, Zenon DEF RouteMatches
  <2> QED
    BY <1>3, <2>1, RuleIs
<1>9. ASSUME NEW j \in DOMAIN s.routes PROVE s.routes[j].stop \in BOOLEAN
  BY <1>3 DEF IsRule
<1>10. rules \in Seq(ToSet(rules))
  <2>1. DOMAIN s.routes = 1 .. Len(s.routes) /\ Len(s.routes) \in Nat
    BY <1>2
  <2>2. \A j \in DOMAIN s.routes : rules[j] \in ToSet(rules)
    BY <1>1 DEF ToSet
  <2> QED
    BY <1>5, <2>1, <2>2
<1>11. ASSUME NEW j \in DOMAIN s.routes
       PROVE  /\ rules[j].chats \in Seq(ToSet(Declared(s))) /\ IsSequence(rules[j].chats)
              /\ IdsOf(ServedChats(y), ToSet(rules[j].chats))
                   = IdsOf(ServedChats(y), ToSet(s.routes[j].chats))
  <2> DEFINE own == Own(s.routes[j].chats)
  <2>1. rules[j].chats = own /\ own \in Seq(ToSet(Declared(s)))
        /\ IdsOf(ServedChats(y), ToSet(own)) = IdsOf(ServedChats(y), ToSet(s.routes[j].chats))
    BY <1>6, <1>7
  <2> HIDE DEF own
  <2>2. IsSequence(own)
    BY <2>1, ToSetIs DEF IsSequence
  <2> QED
    BY <2>1, <2>2
<1>12. ASSUME NEW j \in DOMAIN rules
       PROVE  /\ rules[j].chats \in Seq(ToSet(Declared(s))) /\ IsSequence(rules[j].chats)
              /\ rules[j].stop \in BOOLEAN /\ rules[j].stop = s.routes[j].stop
              /\ IdsOf(ServedChats(y), ToSet(rules[j].chats))
                   = IdsOf(ServedChats(y), ToSet(s.routes[j].chats))
              /\ RouteMatches(p, rules[j]) <=> Means(p, s.routes[j])
  <2>1. j \in DOMAIN s.routes
    BY <1>1
  <2> HIDE DEF s
  <2> QED
    BY <1>7, <1>8, <1>9, <1>11, <2>1
<1>13. DOMAIN rules = DOMAIN s.routes
  BY <1>1
<1> QED
  BY <1>10, <1>12, <1>13, Zenon DEF rules

LEMMA RoutesPlan ==
  ASSUME NEW y \in Settings, NEW i \in DOMAIN y.senders, Accepted(y, i), NEW e,
         e.payload \in Payloads, e.query = Absent, y.senders[i].routes # <<>>
  PROVE  Routed(y, i, e, EvaluateRoutes(BuiltIn(y, y.senders[i]).routes, e.payload).chats)
<1> DEFINE s     == y.senders[i]
           chats == ServedChats(y)
           rules == BuiltIn(y, s).routes
           p     == e.payload
           plan  == EvaluateRoutes(rules, p).chats
           taken == {j \in DOMAIN rules : Taken(p, rules, j)}
<1> HIDE DEF p, s, rules, plan, chats
<1>1. /\ rules \in Seq(ToSet(rules)) /\ DOMAIN rules = DOMAIN s.routes
      /\ \A j \in DOMAIN rules :
           /\ rules[j].chats \in Seq(ToSet(Declared(s))) /\ IsSequence(rules[j].chats)
           /\ rules[j].stop \in BOOLEAN /\ rules[j].stop = s.routes[j].stop
           /\ IdsOf(chats, ToSet(rules[j].chats)) = IdsOf(chats, ToSet(s.routes[j].chats))
           /\ RouteMatches(p, rules[j]) <=> Means(p, s.routes[j])
  BY RewrittenIs, Zenon DEF s, rules, p, chats
<1>2. plan \in Seq(ChatsOf(rules)) /\ Distinct(plan)
      /\ ToSet(plan) = UNION {ToSet(rules[j].chats) : j \in taken}
  BY <1>1, ScanIs DEF plan
<1>3. plan \in Seq(ToSet(Declared(s)))
  <2>1. \A j \in DOMAIN rules : ToSet(rules[j].chats) \subseteq ToSet(Declared(s))
    BY <1>1, ToSetIs
  <2>2. ChatsOf(rules) \subseteq ToSet(Declared(s))
    BY <2>1 DEF ChatsOf
  <2> QED
    BY <1>2, <2>2
<1>4. \A j \in DOMAIN rules : Halts(p, rules[j]) <=> s.routes[j].stop /\ Means(p, s.routes[j])
  BY <1>1 DEF Halts
<1>5. \A j \in DOMAIN rules : Taken(p, rules, j) <=> Applies(s, p, j)
  <2> SUFFICES ASSUME NEW j \in DOMAIN rules PROVE Taken(p, rules, j) <=> Applies(s, p, j)
    OBVIOUS
  <2>1. DOMAIN rules = 1 .. Len(rules) /\ Len(rules) \in Nat
    BY <1>1
  <2>2. \A k \in 1 .. j - 1 : k \in DOMAIN rules
    BY <2>1
  <2> QED
    BY <1>1, <1>4, <2>2, Zenon DEF Taken, Applies
<1>6. taken = {j \in DOMAIN s.routes : Applies(s, p, j)}
  BY <1>1, <1>5
<1>7. Named(s, e) = UNION {ToSet(s.routes[j].chats) : j \in taken}
  <2> HIDE DEF taken
  <2>1. s.routes # <<>>
    BY DEF s
  <2>2. Named(s, e) = UNION {ToSet(s.routes[j].chats) : j \in {k \in DOMAIN s.routes : Applies(s, e.payload, k)}}
    BY <2>1, Zenon DEF Named
  <2> QED
    BY <1>6, <2>2 DEF p
<1>8. IdsOf(chats, ToSet(plan)) = IdsOf(chats, Named(s, e))
  <2> DEFINE Mine(j) == ToSet(rules[j].chats)
             Said(j) == ToSet(s.routes[j].chats)
  <2>1. \A j \in taken : {Resolve(chats, r).id : r \in Mine(j)} = {Resolve(chats, r).id : r \in Said(j)}
    BY <1>1 DEF IdsOf
  <2>2. ToSet(plan) = UNION {Mine(j) : j \in taken} /\ Named(s, e) = UNION {Said(j) : j \in taken}
    BY <1>2, <1>7
  <2> HIDE DEF Mine, Said, taken
  <2>3. ASSUME NEW j \in taken, NEW r \in Mine(j)
        PROVE  \E t \in Said(j) : Resolve(chats, t).id = Resolve(chats, r).id
    <3>1. Resolve(chats, r).id \in {Resolve(chats, t).id : t \in Mine(j)}
      OBVIOUS
    <3> QED
      BY <2>1, <3>1
  <2>4. ASSUME NEW j \in taken, NEW r \in Said(j)
        PROVE  \E t \in Mine(j) : Resolve(chats, t).id = Resolve(chats, r).id
    <3>1. Resolve(chats, r).id \in {Resolve(chats, t).id : t \in Said(j)}
      OBVIOUS
    <3>2. Resolve(chats, r).id \in {Resolve(chats, t).id : t \in Mine(j)}
      BY <2>1, <3>1, Zenon
    <3> QED
      BY <3>2
  <2> QED
    BY <2>2, <2>3, <2>4 DEF IdsOf
<1> QED
  BY <1>2, <1>3, <1>8, PlanFrom DEF s, rules, plan, p, chats

LEMMA QueryPlan ==
  ASSUME NEW i \in DOMAIN yaml.senders, yaml \in Settings, Accepted(yaml, i),
         cfgChats = ServedChats(yaml), NEW e, e.query \in Queries, e.query # Absent,
         ScopeTargets(BuiltIn(yaml, yaml.senders[i]).scope, e.query) # Absent
  PROVE  Routed(yaml, i, e, ScopeTargets(BuiltIn(yaml, yaml.senders[i]).scope, e.query))
<1> DEFINE s     == yaml.senders[i]
           scope == BuiltIn(yaml, s).scope
           refs  == ToSet(Declared(s))
           q     == e.query
           Id(r) == Resolve(ServedChats(yaml), r).id
           own   == [k \in DOMAIN q |-> scope[Id(q[k])]]
<1>1. IsSequence(q)
  BY HookAssumption DEF HookAssumption
<1>2. DOMAIN scope = {Id(r) : r \in refs}
  BY PartsOfBuilt
<1>3. \A r \in refs : Id(r) \in ChatIds
  BY AcceptedIs
<1>4. \A r : CanonId(scope, r) = Id(r)
  <2> SUFFICES ASSUME NEW r PROVE CanonId(scope, r) = Id(r)
    OBVIOUS
  <2>1. r \in DOMAIN scope => r \in ChatIds
    BY <1>2, <1>3
  <2>2. r \in ChatIds => Id(r) = r
    BY DEF Resolve
  <2> QED
    BY <2>1, <2>2 DEF CanonId
<1> HIDE DEF scope, q
<1>5. /\ \A r \in ToSet(q) : Id(r) \in DOMAIN scope
      /\ ScopeTargets(scope, q) = Unique([k \in DOMAIN q |-> scope[CanonId(scope, q[k])]])
  <2>1. ScopeTargets(scope, q) # Absent
    BY DEF scope, q
  <2> QED
    BY <1>4, <2>1 DEF ScopeTargets
<1>6. own = [k \in DOMAIN q |-> scope[CanonId(scope, q[k])]]
  BY <1>4
<1>7. \A r \in ToSet(q) : \E t \in refs : Id(t) = Id(r)
  BY <1>2, <1>5
<1>8. own \in Seq(refs) /\ IdsOf(ServedChats(yaml), ToSet(own)) = IdsOf(ServedChats(yaml), ToSet(q))
  BY <1>1, <1>7, OwnRefs DEF scope
<1> HIDE DEF own
<1> DEFINE plan == Unique(own)
<1>9. plan \in Seq(refs) /\ ToSet(plan) = ToSet(own) /\ Distinct(plan)
  BY <1>8, UniqueIs
<1>10. ScopeTargets(scope, q) = plan
  BY <1>5, <1>6
<1>11. Named(s, e) = ToSet(q)
  BY DEF Named, q
<1> HIDE DEF plan
<1>12. Routed(yaml, i, e, plan)
  BY <1>8, <1>9, <1>11, PlanFrom
<1> QED
  BY <1>10, <1>12 DEF scope, q
-----------------------------------------------------------------------------
(* The invariant.                                                          *)
Prepared(y, all) ==
  /\ IsSequence(all) /\ Len(all) <= Len(y.senders)
  /\ \A i \in 1 .. Len(all) :
       all[i] = BuiltIn(y, y.senders[i]) /\ Accepted(y, i) /\ Secret(y, i) # Absent
  /\ \A i, j \in 1 .. Len(all) : Secret(y, i) = Secret(y, j) => i = j

StartInv ==
  /\ yaml \in Settings
  /\ phase \in {"load", "bots", "rules", "build", "serve", "refused"}
  /\ phase = "load" => cfgChats = yaml.chats
  /\ phase = "bots" => cfgChats = LoadedChats(yaml)
  /\ phase \in {"rules", "build", "serve"} => cfgChats = ServedChats(yaml)
  /\ phase \in {"load", "bots", "rules"} => senders = <<>>
  /\ phase \in {"build", "serve"} => Prepared(yaml, senders)
  /\ phase = "serve" => Len(senders) = Len(yaml.senders)

(* A plan part of which is done: what was posted is of the part done.      *)
Message(y, r) == LET at == Resolve(ServedChats(y), r)
                 IN [chat |-> at.id, bot |-> BotIn(y, at.bot)]

Underway(y, plan, left, sent, done) ==
  /\ IsSequence(left) /\ IsSequence(sent) /\ IsSequence(done)
  /\ Len(done) + Len(left) = Len(plan)
  /\ \A k \in 1 .. Len(left) : left[k] = plan[Len(done) + k]
  /\ \A k \in 1 .. Len(sent) : \E j \in 1 .. Len(done) : sent[k] = Message(y, plan[j])
  /\ \A k, l \in 1 .. Len(sent) : sent[k].chat = sent[l].chat => k = l
  /\ MultiBot(y) => "nobot" \notin ToSet(done)
  /\ "ok" \in ToSet(done) => sent # <<>>

Answering(y, i, e, left, sent, done) ==
  /\ i \in 1 .. Len(y.senders) /\ Secret(y, i) = e.token
  /\ \E plan : Routed(y, i, e, plan) /\ Underway(y, plan, left, sent, done)

EventInv ==
  /\ stage \in {"idle", "send", "answered"}
  /\ phase # "serve" => stage = "idle"
  /\ stage = "idle" => sender = 0 /\ reply = 0
  /\ sender = 0 => stage # "send" /\ posted = <<>> /\ outs = <<>> /\ reply # 502
  /\ sender # 0 => Answering(yaml, sender, event, targets, posted, outs)
  /\ sender # 0 /\ stage = "answered" => targets = <<>> /\ (reply = 200 => "ok" \in ToSet(outs))

HookInv == StartInv /\ EventInv

LEMMA HookStart == HookInit => HookInv
<1> SUFFICES ASSUME HookInit PROVE HookInv
  OBVIOUS
<1>1. StartInv
  BY DEF HookInit, StartInv
<1>2. EventInv
  BY DEF HookInit, EventInv
<1> QED
  BY <1>1, <1>2 DEF HookInv

LEMMA NothingBuilt == \A y \in Settings : Prepared(y, <<>>)
<1> SUFFICES ASSUME NEW y \in Settings PROVE Prepared(y, <<>>)
  OBVIOUS
<1>1. IsSequence(<<>>) /\ Len(<<>>) = 0
  BY EmptySequence DEF IsSequence
<1>2. y.senders \in Seq(ToSet(y.senders))
  BY SettingIs DEF IsSequence
<1>3. Len(y.senders) >= 0
  BY <1>2
<1>4. 1 .. 0 = {}
  OBVIOUS
<1> QED
  BY <1>1, <1>3, <1>4 DEF Prepared

(* One more sender is built.                                               *)
LEMMA OneMoreBuilt ==
  ASSUME NEW y \in Settings, NEW all, Prepared(y, all), Len(all) < Len(y.senders), NEW i, i = Len(all) + 1,
         Accepted(y, i), Secret(y, i) # Absent,
         \A j \in DOMAIN all : all[j].secret # Secret(y, i)
  PROVE  Prepared(y, Append(all, BuiltIn(y, y.senders[i])))
<1> DEFINE more == Append(all, BuiltIn(y, y.senders[i]))
           S == ToSet(all) \cup {BuiltIn(y, y.senders[i])}
<1>1. y.senders \in Seq(ToSet(y.senders)) /\ all \in Seq(ToSet(all))
  BY SettingIs DEF IsSequence, Prepared
<1>2. Len(y.senders) \in Nat /\ Len(all) \in Nat /\ i \in Int /\ DOMAIN all = 1 .. Len(all)
  BY <1>1
<1> DEFINE run == BuiltIn(y, y.senders[i])
<1> HIDE DEF run
<1>3. all \in Seq(ToSet(all) \cup {run}) /\ run \in ToSet(all) \cup {run}
  BY <1>1
<1> DEFINE next == Append(all, run)
<1>4. /\ next \in Seq(ToSet(all) \cup {run}) /\ Len(next) = i
      /\ next[i] = run /\ \A j \in 1 .. Len(all) : next[j] = all[j]
  BY <1>1, <1>2, <1>3
<1> HIDE DEF next
<1>5. IsSequence(next)
  BY <1>4, ToSetIs DEF IsSequence
<1>6. Len(next) <= Len(y.senders)
  BY <1>2, <1>4
<1>7. \A j \in 1 .. Len(next) : j \in 1 .. Len(all) \/ j = i
  BY <1>2, <1>4
<1>8. \A j \in 1 .. Len(all) : /\ all[j] = BuiltIn(y, y.senders[j]) /\ Accepted(y, j)
                               /\ Secret(y, j) # Absent
  BY DEF Prepared
<1>9. \A j \in 1 .. Len(next) : next[j] = BuiltIn(y, y.senders[j]) /\ Accepted(y, j) /\ Secret(y, j) # Absent
  BY <1>4, <1>7, <1>8 DEF run
<1>10. \A j \in 1 .. Len(all) : Secret(y, j) # Secret(y, i)
  <2>1. \A j \in 1 .. Len(all) : BuiltIn(y, y.senders[j]).secret = Secret(y, j)
    BY DEF BuiltIn, BuiltFrom, Secret
  <2> QED
    BY <1>2, <1>8, <2>1
<1>11. \A j, k \in 1 .. Len(next) : Secret(y, j) = Secret(y, k) => j = k
  <2>1. \A j, k \in 1 .. Len(all) : Secret(y, j) = Secret(y, k) => j = k
    BY DEF Prepared
  <2> QED
    BY <1>7, <1>10, <2>1
<1>12. Prepared(y, next)
  BY <1>5, <1>6, <1>9, <1>11 DEF Prepared
<1> QED
  BY <1>12 DEF next, run

LEMMA SameStart == StartInv /\ UNCHANGED cfgVars => StartInv'
  BY DEF StartInv, cfgVars

LEMMA SameEvent == EventInv /\ UNCHANGED <<yaml, eventVars>> /\ (stage # "idle" => phase' = "serve") => EventInv'
  BY DEF EventInv, eventVars

LEMMA LoadKeeps == HookInv /\ LoadSetting => HookInv'
<1> SUFFICES ASSUME HookInv, LoadSetting PROVE HookInv'
  OBVIOUS
<1>1. StartInv /\ EventInv /\ phase = "load" /\ UNCHANGED <<yaml, senders, eventVars>>
  BY DEF HookInv, LoadSetting, Refused
<1>2. stage = "idle" /\ cfgChats = yaml.chats /\ senders = <<>>
  BY <1>1 DEF StartInv, EventInv
<1>3. CASE Refused
  BY <1>1, <1>2, <1>3, SameEvent DEF Refused, StartInv, HookInv
<1>4. CASE phase' = "bots" /\ cfgChats' = [a \in DOMAIN yaml.chats |-> [yaml.chats[a] EXCEPT !.id = Lookup(@)]]
  <2>1. cfgChats' = LoadedChats(yaml)
    <3>1. \A a \in DOMAIN yaml.chats : yaml.chats[a] = [id |-> yaml.chats[a].id, bot |-> yaml.chats[a].bot]
      BY <1>1, HookAssumption DEF HookAssumption, IsSetting, StartInv
    <3>2. \A a \in DOMAIN yaml.chats :
            [yaml.chats[a] EXCEPT !.id = Lookup(@)]
              = [id |-> LookupIn(yaml, yaml.chats[a].id), bot |-> yaml.chats[a].bot]
      <4> SUFFICES ASSUME NEW a \in DOMAIN yaml.chats
                   PROVE  [yaml.chats[a] EXCEPT !.id = Lookup(@)]
                            = [id |-> LookupIn(yaml, yaml.chats[a].id), bot |-> yaml.chats[a].bot]
        OBVIOUS
      <4> DEFINE new == Lookup(yaml.chats[a].id)
      <4>1. new = LookupIn(yaml, yaml.chats[a].id)
        BY DEF Lookup, LookupIn
      <4>2. [yaml.chats[a] EXCEPT !.id = new] = [id |-> new, bot |-> yaml.chats[a].bot]
        <5> DEFINE chat == yaml.chats[a]
                   id   == yaml.chats[a].id
                   bot  == yaml.chats[a].bot
        <5>1. chat = [id |-> id, bot |-> bot]
          BY <3>1
        <5> HIDE DEF chat, id, bot, new
        <5>2. [chat EXCEPT !.id = new] = [id |-> new, bot |-> bot]
          BY <5>1
        <5> QED
          BY <5>2 DEF chat, bot
      <4> QED
        BY <4>1, <4>2
    <3> QED
      BY <1>4, <3>2 DEF LoadedChats
  <2>2. StartInv'
    BY <1>1, <1>2, <1>4, <2>1 DEF StartInv
  <2> QED
    BY <1>1, <1>2, <2>2, SameEvent DEF HookInv
<1> QED
  BY <1>3, <1>4 DEF LoadSetting

LEMMA BotsKeep == HookInv /\ CheckBots => HookInv'
<1> SUFFICES ASSUME HookInv, CheckBots PROVE HookInv'
  OBVIOUS
<1>1. StartInv /\ EventInv /\ phase = "bots" /\ UNCHANGED <<yaml, senders, eventVars>>
  BY DEF HookInv, CheckBots, Refused
<1>2. stage = "idle" /\ cfgChats = LoadedChats(yaml) /\ senders = <<>>
  BY <1>1 DEF StartInv, EventInv
<1>3. CASE Refused
  BY <1>1, <1>2, <1>3, SameEvent DEF Refused, StartInv, HookInv
<1>4. CASE /\ phase' = "rules"
           /\ cfgChats' = [a \in DOMAIN cfgChats |->
               IF a \in UnknownBots THEN [cfgChats[a] EXCEPT !.bot = Absent] ELSE cfgChats[a]]
  <2>1. cfgChats' = ServedChats(yaml)
    <3>1. UnknownBots = Unbound(yaml)
      BY DEF UnknownBots, Unbound
    <3>2. DOMAIN cfgChats = DOMAIN yaml.chats
          /\ \A a \in DOMAIN yaml.chats : cfgChats[a] = [id |-> LookupIn(yaml, yaml.chats[a].id), bot |-> yaml.chats[a].bot]
      BY <1>2 DEF LoadedChats
    <3>3. \A a \in DOMAIN yaml.chats :
            (IF a \in UnknownBots THEN [cfgChats[a] EXCEPT !.bot = Absent] ELSE cfgChats[a])
              = [id |-> LookupIn(yaml, yaml.chats[a].id),
                 bot |-> IF a \in Unbound(yaml) THEN Absent ELSE yaml.chats[a].bot]
      <4> SUFFICES ASSUME NEW a \in DOMAIN yaml.chats
                   PROVE  (IF a \in UnknownBots THEN [cfgChats[a] EXCEPT !.bot = Absent] ELSE cfgChats[a])
                            = [id |-> LookupIn(yaml, yaml.chats[a].id),
                               bot |-> IF a \in Unbound(yaml) THEN Absent ELSE yaml.chats[a].bot]
        OBVIOUS
      <4>1. [cfgChats[a] EXCEPT !.bot = Absent] = [id |-> LookupIn(yaml, yaml.chats[a].id), bot |-> Absent]
        <5> DEFINE chat == cfgChats[a]
                   id   == LookupIn(yaml, yaml.chats[a].id)
                   bot  == yaml.chats[a].bot
        <5>1. chat = [id |-> id, bot |-> bot]
          BY <3>2
        <5> HIDE DEF chat, id, bot
        <5>2. [chat EXCEPT !.bot = Absent] = [id |-> id, bot |-> Absent]
          BY <5>1
        <5> QED
          BY <5>2 DEF chat, id
      <4> QED
        BY <3>1, <3>2, <4>1, Zenon
    <3> QED
      BY <1>4, <3>2, <3>3 DEF ServedChats
  <2>2. StartInv'
    BY <1>1, <1>2, <1>4, <2>1 DEF StartInv
  <2> QED
    BY <1>1, <1>2, <2>2, SameEvent DEF HookInv
<1> QED
  BY <1>3, <1>4 DEF CheckBots

LEMMA RulesKeep == HookInv /\ CheckRules => HookInv'
<1> SUFFICES ASSUME HookInv, CheckRules PROVE HookInv'
  OBVIOUS
<1>1. /\ StartInv /\ EventInv /\ phase = "rules" /\ phase' \in {"build", "refused"}
      /\ UNCHANGED <<yaml, cfgChats, senders, eventVars>>
  BY DEF HookInv, CheckRules, Refused
<1>2. stage = "idle" /\ cfgChats = ServedChats(yaml) /\ Prepared(yaml, senders)
  BY <1>1, NothingBuilt DEF StartInv, EventInv
<1>3. StartInv'
  BY <1>1, <1>2 DEF StartInv
<1> QED
  BY <1>1, <1>2, <1>3, SameEvent DEF HookInv

LEMMA BuildKeeps == HookInv /\ BuildSender => HookInv'
<1> SUFFICES ASSUME HookInv, BuildSender PROVE HookInv'
  OBVIOUS
<1>1. /\ StartInv /\ EventInv /\ phase = "build" /\ Len(senders) < Len(yaml.senders)
      /\ UNCHANGED <<yaml, cfgChats, eventVars>>
  BY DEF HookInv, BuildSender, Refused
<1>2. stage = "idle" /\ cfgChats = ServedChats(yaml) /\ Prepared(yaml, senders) /\ yaml \in Settings
  BY <1>1 DEF StartInv, EventInv
<1> DEFINE i == Len(senders) + 1
<1>3. CASE Refused
  BY <1>1, <1>2, <1>3, SameEvent DEF Refused, StartInv, HookInv
<1>4. CASE ~Refused
  <2>1. /\ TargetsAccepted(cfgChats, multiBot, yaml.senders[i])
        /\ Lookup(yaml.senders[i].secret) # Absent
        /\ \A j \in DOMAIN senders : senders[j].secret # Lookup(yaml.senders[i].secret)
        /\ senders' = Append(senders, Built(yaml.senders[i])) /\ phase' = phase
    BY <1>4, Zenon DEF BuildSender
  <2>2. Lookup(yaml.senders[i].secret) = Secret(yaml, i)
    BY DEF Lookup, LookupIn, Secret
  <2>3. multiBot = MultiBot(yaml)
    BY DEF multiBot, MultiBot
  <2>4. Accepted(yaml, i)
    BY <1>2, <2>1, <2>3 DEF Accepted
  <2>5. Built(yaml.senders[i]) = BuiltIn(yaml, yaml.senders[i])
    BY <1>2, BuiltIs
  <2>6. Prepared(yaml, senders')
    <3> DEFINE k == i
    <3>1. k = Len(senders) + 1
      OBVIOUS
    <3> HIDE DEF k
    <3>2. Prepared(yaml, Append(senders, BuiltIn(yaml, yaml.senders[k])))
      <4>1. Accepted(yaml, k) /\ Secret(yaml, k) # Absent
            /\ \A j \in DOMAIN senders : senders[j].secret # Secret(yaml, k)
        BY <2>1, <2>2, <2>4 DEF k
      <4> QED
        BY <1>1, <1>2, <3>1, <4>1, OneMoreBuilt
    <3> QED
      BY <2>1, <2>5, <3>2 DEF k
  <2>7. StartInv'
    BY <1>1, <1>2, <2>1, <2>6 DEF StartInv
  <2> QED
    BY <1>1, <1>2, <2>7, SameEvent DEF HookInv
<1> QED
  BY <1>3, <1>4

LEMMA ServeKeeps == HookInv /\ Serve => HookInv'
<1> SUFFICES ASSUME HookInv, Serve PROVE HookInv'
  OBVIOUS
<1>1. /\ StartInv /\ EventInv /\ phase = "build" /\ phase' = "serve" /\ Len(senders) = Len(yaml.senders)
      /\ UNCHANGED <<yaml, cfgChats, senders, eventVars>>
  BY DEF HookInv, Serve
<1>2. StartInv'
  BY <1>1 DEF StartInv
<1> QED
  BY <1>1, <1>2, SameEvent DEF HookInv

LEMMA Begun ==
  ASSUME NEW y, NEW i, NEW e, NEW plan, Routed(y, i, e, plan)
  PROVE  Underway(y, plan, plan, <<>>, <<>>)
<1>1. plan \in Seq(ToSet(Declared(y.senders[i])))
  BY DEF Routed
<1>2. IsSequence(plan) /\ Len(plan) \in Nat
  BY <1>1, ToSetIs DEF IsSequence
<1>3. IsSequence(<<>>) /\ Len(<<>>) = 0 /\ ToSet(<<>>) = {}
  BY EmptySequence DEF IsSequence
<1>4. 1 .. 0 = {} /\ 0 + Len(plan) = Len(plan) /\ \A k \in 1 .. Len(plan) : 0 + k = k
  BY <1>2
<1> QED
  BY <1>2, <1>3, <1>4 DEF Underway

(* The next chat of a plan has a bot when there are several.               *)
LEMMA NextIs ==
  ASSUME NEW y \in Settings, NEW i \in DOMAIN y.senders, Accepted(y, i), NEW e, NEW plan,
         Routed(y, i, e, plan), NEW left, NEW sent, NEW done, Underway(y, plan, left, sent, done),
         left # <<>>
  PROVE  /\ Len(done) + 1 \in 1 .. Len(plan) /\ Head(left) = plan[Len(done) + 1]
         /\ MultiBot(y) => BotIn(y, Resolve(ServedChats(y), Head(left)).bot) # Absent
<1>1. /\ left \in Seq(ToSet(left)) /\ done \in Seq(ToSet(done)) /\ Len(done) + Len(left) = Len(plan)
      /\ \A k \in 1 .. Len(left) : left[k] = plan[Len(done) + k]
  BY DEF Underway, IsSequence
<1>2. Len(left) \in Nat \ {0} /\ Len(done) \in Nat /\ Head(left) = left[1]
  BY <1>1
<1>3. Len(done) + 1 \in 1 .. Len(plan) /\ Head(left) = plan[Len(done) + 1]
  <2>1. 1 \in 1 .. Len(left) /\ Len(done) + 1 \in 1 .. Len(plan)
    BY <1>1, <1>2
  <2> QED
    BY <1>1, <1>2, <2>1
<1>4. plan \in Seq(ToSet(Declared(y.senders[i])))
  BY DEF Routed
<1>5. Head(left) \in ToSet(Declared(y.senders[i]))
  BY <1>3, <1>4
<1>6. MultiBot(y) => Resolve(ServedChats(y), Head(left)).bot \in y.bots
  BY <1>5, AcceptedIs
<1>7. Absent \notin y.bots
  BY SettingIs
<1> QED
  BY <1>3, <1>6, <1>7 DEF BotIn

LEMMA OneMoreDone ==
  ASSUME NEW y \in Settings, NEW i \in DOMAIN y.senders, Accepted(y, i), NEW e, NEW plan,
         Routed(y, i, e, plan), NEW left, NEW sent, NEW done, Underway(y, plan, left, sent, done),
         left # <<>>, NEW out, NEW more,
         \/ more = sent /\ out # "ok" /\ (MultiBot(y) => out # "nobot")
         \/ more = Append(sent, Message(y, Head(left))) /\ out # "nobot"
  PROVE  Underway(y, plan, Tail(left), more, Append(done, out))
<1> DEFINE rest == Tail(left)
           all  == Append(done, out)
           n    == Len(done)
           ref  == Head(left)
<1>1. /\ left \in Seq(ToSet(left)) /\ done \in Seq(ToSet(done)) /\ sent \in Seq(ToSet(sent))
      /\ n + Len(left) = Len(plan)
      /\ \A k \in 1 .. Len(left) : left[k] = plan[n + k]
      /\ \A k \in 1 .. Len(sent) : \E j \in 1 .. n : sent[k] = Message(y, plan[j])
      /\ \A k, l \in 1 .. Len(sent) : sent[k].chat = sent[l].chat => k = l
      /\ MultiBot(y) => "nobot" \notin ToSet(done)
      /\ "ok" \in ToSet(done) => sent # <<>>
  BY DEF Underway, IsSequence
<1>2. n \in Nat /\ Len(left) \in Nat \ {0} /\ Len(sent) \in Nat
  BY <1>1
<1>3. n + 1 \in 1 .. Len(plan) /\ ref = plan[n + 1]
  BY NextIs
<1>4. rest \in Seq(ToSet(left)) /\ Len(rest) = Len(left) - 1
      /\ \A k \in 1 .. Len(rest) : rest[k] = left[k + 1]
  BY <1>1, <1>2, HeadTailProperties
<1>5. IsSequence(rest) /\ \A k \in 1 .. Len(rest) : rest[k] = plan[(n + 1) + k]
  <2>1. \A k \in 1 .. Len(rest) : k + 1 \in 1 .. Len(left) /\ n + (k + 1) = (n + 1) + k
    BY <1>2, <1>4
  <2> HIDE DEF rest, n
  <2> QED
    BY <1>1, <1>4, <2>1, ToSetIs DEF IsSequence
<1>6. all \in Seq(ToSet(done) \cup {out}) /\ ToSet(all) = ToSet(done) \cup {out} /\ Len(all) = n + 1
  <2>1. done \in Seq(ToSet(done) \cup {out}) /\ out \in ToSet(done) \cup {out}
    BY <1>1
  <2> QED
    BY <2>1, AppendIs
<1>7. IsSequence(all) /\ Len(all) + Len(rest) = Len(plan) /\ (MultiBot(y) => "nobot" \notin ToSet(all))
  <2>1. Len(all) + Len(rest) = Len(plan)
    BY <1>1, <1>2, <1>4, <1>6
  <2> HIDE DEF all
  <2> QED
    BY <1>1, <1>6, <2>1, ToSetIs DEF IsSequence
<1>8. /\ IsSequence(more)
      /\ \A k \in 1 .. Len(more) : \E j \in 1 .. n + 1 : more[k] = Message(y, plan[j])
      /\ \A k, l \in 1 .. Len(more) : more[k].chat = more[l].chat => k = l
  <2>1. \A j \in 1 .. n : j \in 1 .. n + 1 /\ j # n + 1 /\ j \in 1 .. Len(plan)
    BY <1>2, <1>3
  <2>2. n + 1 \in 1 .. n + 1
    BY <1>2
  <2>3. CASE more = sent
    BY <1>1, <2>1, <2>3 DEF IsSequence
  <2>4. CASE more = Append(sent, Message(y, ref))
    <3> DEFINE msg == Message(y, ref)
               S   == ToSet(sent) \cup {msg}
    <3> HIDE DEF msg
    <3>1. sent \in Seq(S) /\ msg \in S /\ more = Append(sent, msg)
      BY <1>1, <2>4 DEF msg
    <3>2. /\ more \in Seq(S) /\ Len(more) = Len(sent) + 1
          /\ more[Len(sent) + 1] = msg /\ \A k \in 1 .. Len(sent) : more[k] = sent[k]
      BY <3>1
    <3>3. \A k \in 1 .. Len(more) : k \in 1 .. Len(sent) \/ k = Len(sent) + 1
      BY <1>2, <3>2
    <3>4. msg = Message(y, plan[n + 1])
      BY <1>3 DEF msg
    <3>5. ASSUME NEW k \in 1 .. Len(more) PROVE \E j \in 1 .. n + 1 : more[k] = Message(y, plan[j])
      <4>1. CASE k \in 1 .. Len(sent)
        <5>1. PICK j \in 1 .. n : sent[k] = Message(y, plan[j])
          BY <1>1, <4>1
        <5>2. j \in 1 .. n + 1 /\ more[k] = Message(y, plan[j])
          BY <2>1, <3>2, <4>1, <5>1
        <5> QED
          BY <5>2
      <4>2. CASE k = Len(sent) + 1
        BY <2>2, <3>2, <3>4, <4>2
      <4> QED
        BY <3>3, <4>1, <4>2
    <3>6. ASSUME NEW k \in 1 .. Len(sent) PROVE sent[k].chat # msg.chat
      <4>1. PICK j \in 1 .. n : sent[k] = Message(y, plan[j])
        BY <1>1
      <4>2. Resolve(ServedChats(y), plan[j]).id # Resolve(ServedChats(y), plan[n + 1]).id
        BY <1>3, <2>1 DEF Routed
      <4>3. \A r : Message(y, r).chat = Resolve(ServedChats(y), r).id
        BY DEF Message
      <4> QED
        BY <3>4, <4>1, <4>2, <4>3
    <3>7. \A k, l \in 1 .. Len(more) : more[k].chat = more[l].chat => k = l
      BY <1>1, <3>2, <3>3, <3>6
    <3>8. IsSequence(more)
      BY <3>2, ToSetIs DEF IsSequence
    <3> QED
      BY <3>5, <3>7, <3>8
  <2> QED
    BY <2>3, <2>4
<1>9. Len(all) = n + 1
  BY <1>6
<1>10. "ok" \in ToSet(all) => more # <<>>
  <2>1. CASE more = sent /\ out # "ok"
    BY <1>1, <1>6, <2>1
  <2>2. CASE more = Append(sent, Message(y, ref))
    BY <1>1, <2>2
  <2> QED
    BY <2>1, <2>2
<1> HIDE DEF rest, all, n
<1>11. Underway(y, plan, rest, more, all)
  BY <1>5, <1>7, <1>8, <1>9, <1>10 DEF Underway
<1> QED
  BY <1>11 DEF rest, all

LEMMA SendKeeps == HookInv /\ FanoutSend => HookInv'
<1> SUFFICES ASSUME HookInv, FanoutSend PROVE HookInv'
  OBVIOUS
<1>1. /\ StartInv /\ EventInv /\ stage = "send" /\ targets # <<>> /\ targets' = Tail(targets)
      /\ UNCHANGED <<cfgVars, stage, event, sender, reply>>
  BY DEF HookInv, FanoutSend
<1>2. phase = "serve" /\ sender # 0 /\ Answering(yaml, sender, event, targets, posted, outs)
  BY <1>1 DEF EventInv
<1>3. cfgChats = ServedChats(yaml) /\ Prepared(yaml, senders) /\ Len(senders) = Len(yaml.senders)
      /\ yaml \in Settings
  BY <1>1, <1>2 DEF StartInv
<1>4. PICK plan : Routed(yaml, sender, event, plan) /\ Underway(yaml, plan, targets, posted, outs)
  BY <1>2 DEF Answering
<1>5. sender \in 1 .. Len(yaml.senders) /\ Accepted(yaml, sender)
  BY <1>2, <1>3 DEF Answering, Prepared
<1>6. sender \in DOMAIN yaml.senders
  <2>1. yaml.senders \in Seq(ToSet(yaml.senders))
    BY <1>3, SettingIs DEF IsSequence
  <2> QED
    BY <1>5, <2>1
<1> DEFINE at  == Resolve(ServedChats(yaml), Head(targets))
           bot == BotIn(yaml, at.bot)
<1>7. \A bound : BotFor(bound) = BotIn(yaml, bound)
  BY DEF BotFor, BotIn, multiBot, MultiBot, SingleBot
<1>8. MultiBot(yaml) => bot # Absent
  BY <1>1, <1>3, <1>4, <1>5, <1>6, NextIs
<1>9. \E out : /\ outs' = Append(outs, out)
               /\ \/ posted' = posted /\ out # "ok" /\ (MultiBot(yaml) => out # "nobot")
                  \/ posted' = Append(posted, Message(yaml, Head(targets))) /\ out # "nobot"
  <2>1. \/ bot = Absent /\ outs' = Append(outs, "nobot") /\ posted' = posted
        \/ /\ bot # Absent
           /\ \E out \in {"ok", "failed"} :
                /\ outs' = Append(outs, out)
                /\ \/ out = "failed" /\ posted' = posted
                   \/ posted' = Append(posted, [chat |-> at.id, bot |-> bot])
    BY <1>3, <1>7, Zenon DEF FanoutSend
  <2>2. [chat |-> at.id, bot |-> bot] = Message(yaml, Head(targets))
    BY DEF Message
  <2> HIDE DEF at, bot
  <2>3. "failed" # "ok" /\ "nobot" # "ok" /\ \A out \in {"ok", "failed"} : out # "nobot"
    OBVIOUS
  <2> QED
    BY <1>8, <2>1, <2>2, <2>3
<1>10. Underway(yaml, plan, targets', posted', outs')
  BY <1>1, <1>3, <1>4, <1>5, <1>6, <1>9, OneMoreDone
<1>11. Answering(yaml, sender, event, targets', posted', outs')
  BY <1>2, <1>4, <1>10 DEF Answering
<1>12. StartInv'
  BY <1>1, SameStart
<1>13. yaml' = yaml /\ sender' = sender /\ event' = event /\ stage' = "send" /\ phase' = "serve"
       /\ reply' = reply
  BY <1>1, <1>2 DEF cfgVars
<1>14. EventInv'
  BY <1>2, <1>11, <1>13 DEF EventInv
<1> QED
  BY <1>12, <1>14 DEF HookInv

LEMMA AnswerKeeps == HookInv /\ Answer => HookInv'
<1> SUFFICES ASSUME HookInv, Answer PROVE HookInv'
  OBVIOUS
<1>1. /\ StartInv /\ EventInv /\ stage = "send" /\ stage' = "answered" /\ targets = <<>>
      /\ UNCHANGED <<cfgVars, event, sender, targets, posted, outs>>
  BY DEF HookInv, Answer
<1>2. phase = "serve" /\ sender # 0 /\ Answering(yaml, sender, event, targets, posted, outs)
  BY <1>1 DEF EventInv
<1>3. StartInv'
  BY <1>1, SameStart
<1>4. reply' = 200 => "ok" \in ToSet(outs')
  BY <1>1 DEF Answer
<1>5. EventInv'
  BY <1>1, <1>2, <1>4 DEF EventInv, cfgVars
<1> QED
  BY <1>3, <1>5 DEF HookInv

LEMMA NoEntries ==
  ASSUME NEW S, NEW q \in Seq(S)
  PROVE  DOMAIN q = {} <=> q = <<>>
<1>1. DOMAIN q = 1 .. Len(q) /\ Len(q) \in Nat
  OBVIOUS
<1>2. q = <<>> => DOMAIN q = {}
  OBVIOUS
<1>3. DOMAIN q = {} => Len(q) = 0
  BY <1>1
<1> QED
  BY <1>2, <1>3, EmptySeq

LEMMA ReceiveKeeps == HookInv /\ (\E e \in Events : Receive(e)) => HookInv'
<1> SUFFICES ASSUME HookInv, NEW e \in Events, Receive(e) PROVE HookInv'
  OBVIOUS
<1>1. StartInv /\ EventInv /\ phase = "serve" /\ stage = "idle"
  BY DEF HookInv, Receive
<1>2. sender = 0 /\ posted = <<>> /\ outs = <<>> /\ reply = 0
  BY <1>1 DEF EventInv
<1>3. cfgChats = ServedChats(yaml) /\ Prepared(yaml, senders) /\ Len(senders) = Len(yaml.senders)
      /\ yaml \in Settings
  BY <1>1 DEF StartInv
<1>4. e.payload \in Payloads /\ e.query \in Queries
  BY DEF Events
<1>5. ASSUME NEW status, status # 502, Responded(e, status) PROVE HookInv'
  <2>1. StartInv'
    BY <1>1, <1>5, SameStart DEF Responded
  <2>2. EventInv'
    BY <1>1, <1>2, <1>5 DEF Responded, EventInv, cfgVars
  <2> QED
    BY <2>1, <2>2 DEF HookInv
<1>6. ASSUME NEW i \in 1 .. Len(yaml.senders), Secret(yaml, i) = e.token, NEW plan,
             Routed(yaml, i, e, plan), Deliver(e, i, plan)
      PROVE  HookInv'
  <2>1. StartInv'
    BY <1>1, <1>6, SameStart DEF Deliver
  <2>2. Underway(yaml, plan, plan, <<>>, <<>>)
    BY <1>6, Begun
  <2>3. Answering(yaml, i, e, plan, <<>>, <<>>)
    BY <1>6, <2>2 DEF Answering
  <2>4. yaml' = yaml /\ phase' = "serve" /\ stage' = "send" /\ sender' = i /\ event' = e
        /\ targets' = plan /\ posted' = <<>> /\ outs' = <<>> /\ reply' = 0
    BY <1>1, <1>2, <1>6 DEF Deliver, cfgVars
  <2>5. i # 0
    OBVIOUS
  <2>6. EventInv'
    BY <2>3, <2>4, <2>5 DEF EventInv
  <2> QED
    BY <2>1, <2>6 DEF HookInv
<1>7. CASE Hits(e.token) = {}
  BY <1>5, <1>7 DEF Receive
<1>8. CASE Hits(e.token) # {}
  <2> DEFINE i == CHOOSE h \in Hits(e.token) : \A j \in Hits(e.token) : h <= j
             s == yaml.senders[i]
             run == senders[i]
             asked == ScopeTargets(run.scope, e.query)
             found == EvaluateRoutes(run.routes, e.payload)
  <2>1. Hits(e.token) \in SUBSET Nat /\ \A h \in Hits(e.token) : h \in 1 .. Len(senders) /\ senders[h].secret = e.token
    <3>1. senders \in Seq(ToSet(senders))
      BY <1>3 DEF Prepared, IsSequence
    <3>2. DOMAIN senders = 1 .. Len(senders)
      BY <3>1
    <3> QED
      BY <3>2 DEF Hits
  <2>2. \E h \in Hits(e.token) : \A j \in Hits(e.token) : h <= j
    BY <1>8, <2>1, Least
  <2>3. i \in Hits(e.token)
    BY <2>2
  <2>4. \/ \E status \in {200, 400, 403} : Responded(e, status)
        \/ e.query # Absent /\ asked # Absent /\ Deliver(e, i, asked)
        \/ e.query = Absent /\ run.routes # <<>> /\ Deliver(e, i, found.chats)
        \/ e.query = Absent /\ run.routes = <<>> /\ Deliver(e, i, run.targets)
    <3>1. IF ~PassesFilter(e.payload, s) THEN Responded(e, 200)
          ELSE IF Rendered(e.payload, s) = "broken" THEN Responded(e, 400)
          ELSE IF Rendered(e.payload, s) = "blank" THEN Responded(e, 200)
          ELSE IF e.query # Absent
          THEN IF e.query = <<>> THEN Responded(e, 400)
               ELSE IF asked = Absent THEN Responded(e, 403)
               ELSE Deliver(e, i, asked)
          ELSE IF run.routes # <<>>
          THEN IF found.matched THEN Deliver(e, i, found.chats) ELSE Responded(e, 200)
          ELSE Deliver(e, i, run.targets)
      BY <1>8 DEF Receive
    <3>2. 200 \in {200, 400, 403} /\ 400 \in {200, 400, 403} /\ 403 \in {200, 400, 403}
      OBVIOUS
    <3> HIDE DEF i, s, run, asked, found
    <3>3. CASE Responded(e, 200) \/ Responded(e, 400) \/ Responded(e, 403)
      BY <3>2, <3>3, Zenon
    <3>4. CASE ~Responded(e, 200) /\ ~Responded(e, 400) /\ ~Responded(e, 403)
      <4>1. IF e.query # Absent
            THEN IF e.query = <<>> THEN Responded(e, 400)
                 ELSE IF asked = Absent THEN Responded(e, 403)
                 ELSE Deliver(e, i, asked)
            ELSE IF run.routes # <<>>
            THEN IF found.matched THEN Deliver(e, i, found.chats) ELSE Responded(e, 200)
            ELSE Deliver(e, i, run.targets)
        BY <3>1, <3>4
      <4> QED
        BY <3>4, <4>1
    <3> QED
      BY <3>3, <3>4
  <2> HIDE DEF i
  <2>5. /\ i \in 1 .. Len(yaml.senders) /\ run = BuiltIn(yaml, s) /\ Accepted(yaml, i)
    BY <1>3, <2>1, <2>3 DEF Prepared
  <2>6. i \in DOMAIN yaml.senders
    <3>1. yaml.senders \in Seq(ToSet(yaml.senders))
      BY <1>3, SettingIs DEF IsSequence
    <3> QED
      BY <2>5, <3>1
  <2>7. Secret(yaml, i) = e.token
    BY <1>3, <2>1, <2>3, <2>5, <2>6, PartsOfBuilt
  <2>8. run.routes = <<>> <=> s.routes = <<>>
    <3>1. DOMAIN run.routes = DOMAIN s.routes
      BY <1>3, <2>5, <2>6, PartsOfBuilt
    <3>2. s.routes \in Seq(ToSet(s.routes))
      BY <1>3, <2>6, SenderIs
    <3> DEFINE rules == run.routes
    <3>4. DOMAIN s.routes = {} <=> s.routes = <<>>
      BY <3>2, NoEntries
    <3>5. rules \in Seq(ToSet(rules))
      BY <1>3, <1>4, <2>5, <2>6, RewrittenIs
    <3>6. DOMAIN rules = {} <=> rules = <<>>
      BY <3>5, NoEntries
    <3> QED
      BY <3>1, <3>4, <3>6
  <2>9. CASE \E status \in {200, 400, 403} : Responded(e, status)
    BY <1>5, <2>9
  <2>10. CASE e.query # Absent /\ asked # Absent /\ Deliver(e, i, asked)
    <3>1. Routed(yaml, i, e, asked)
      BY <1>3, <1>4, <2>5, <2>6, <2>10, QueryPlan
    <3> HIDE DEF asked
    <3> QED
      BY <1>6, <2>5, <2>7, <2>10, <3>1
  <2>11. CASE e.query = Absent /\ run.routes # <<>> /\ Deliver(e, i, found.chats)
    <3>1. Routed(yaml, i, e, found.chats)
      BY <1>3, <1>4, <2>5, <2>6, <2>8, <2>11, RoutesPlan
    <3> HIDE DEF found
    <3> QED
      BY <1>6, <2>5, <2>7, <2>11, <3>1
  <2>12. CASE e.query = Absent /\ run.routes = <<>> /\ Deliver(e, i, run.targets)
    <3>1. Routed(yaml, i, e, run.targets)
      BY <1>3, <1>4, <2>5, <2>6, <2>8, <2>12, TargetsPlan
    <3> HIDE DEF run
    <3> QED
      BY <1>6, <2>5, <2>7, <2>12, <3>1
  <2> QED
    BY <2>4, <2>9, <2>10, <2>11, <2>12
<1> QED
  BY <1>7, <1>8

(* In every state the configuration is as serve has prepared it so far,    *)
(* and the event as far as it is sent has gone to a part of the chats      *)
(* planned for it (LoadForServe, buildGitlabConfig, handleGitlab).         *)
THEOREM HookInvariance == HookSpec => []HookInv
<1>1. ASSUME HookInv, [HookNext]_hookVars PROVE HookInv'
  <2>1. CASE UNCHANGED hookVars
    <3>1. UNCHANGED cfgVars /\ UNCHANGED eventVars /\ yaml' = yaml /\ phase' = phase
      BY <2>1 DEF hookVars, cfgVars
    <3>2. StartInv' /\ EventInv'
      BY <1>1, <3>1, SameStart DEF HookInv, EventInv, eventVars
    <3> QED
      BY <3>2 DEF HookInv
  <2>2. CASE HookNext
    BY <1>1, <2>2, LoadKeeps, BotsKeep, RulesKeep, BuildKeeps, ServeKeeps, ReceiveKeeps,
       SendKeeps, AnswerKeeps DEF HookNext
  <2> QED
    BY <1>1, <2>1, <2>2
<1> QED
  BY <1>1, HookStart, PTL DEF HookSpec

(* As many chats as a plan has references.                                 *)
LEMMA PlanLength ==
  ASSUME NEW y, NEW i, NEW e, NEW plan, Routed(y, i, e, plan)
  PROVE  Len(plan) = Cardinality(IdsOf(ServedChats(y), Named(y.senders[i], e)))
<1> DEFINE Id(r) == Resolve(ServedChats(y), r).id
           ids   == {Id(plan[j]) : j \in 1 .. Len(plan)}
           f     == [j \in 1 .. Len(plan) |-> Id(plan[j])]
<1>1. Len(plan) \in Nat
  BY DEF Routed
<1>2. \A j, k \in 1 .. Len(plan) : Id(plan[j]) = Id(plan[k]) => j = k
  BY DEF Routed
<1>3. ids = IdsOf(ServedChats(y), Named(y.senders[i], e))
  BY DEF Routed
<1>4. f \in Bijection(1 .. Len(plan), ids)
  <2>1. f \in [1 .. Len(plan) -> ids]
    OBVIOUS
  <2>2. \A j, k \in 1 .. Len(plan) : f[j] = f[k] => j = k
    BY <1>2
  <2>3. \A id \in ids : \E j \in 1 .. Len(plan) : f[j] = id
    OBVIOUS
  <2> HIDE DEF f, ids
  <2> QED
    BY <2>1, <2>2, <2>3 DEF Bijection, Injection, IsInjective, Surjection
<1>5. IsFiniteSet(1 .. Len(plan)) /\ Cardinality(1 .. Len(plan)) = Len(plan)
  <2> DEFINE n == Len(plan)
  <2>1. n \in Nat
    BY <1>1
  <2> HIDE DEF n
  <2>2. 1 \in Int /\ n \in Int
    BY <2>1
  <2>3. IsFiniteSet(1 .. n) /\ Cardinality(1 .. n) = IF 1 > n THEN 0 ELSE n - 1 + 1
    BY <2>2, FS_Interval
  <2>4. IsFiniteSet(1 .. n) /\ Cardinality(1 .. n) = n
    BY <2>1, <2>3
  <2> QED
    BY <2>4 DEF n
<1> HIDE DEF f, ids
<1>6. Cardinality(1 .. Len(plan)) = Cardinality(ids)
  <2>1. ExistsBijection(1 .. Len(plan), ids)
    BY <1>4 DEF ExistsBijection
  <2> QED
    BY <1>5, <2>1, FS_Bijection
<1> QED
  BY <1>3, <1>5, <1>6

(* What was posted for a plan is of the chats it is for.                   *)
LEMMA PostedIs ==
  ASSUME NEW y \in Settings, NEW i \in DOMAIN y.senders, Accepted(y, i), NEW e, NEW plan,
         Routed(y, i, e, plan), NEW left, NEW sent, NEW done, Underway(y, plan, left, sent, done),
         NEW k \in DOMAIN sent
  PROVE  LET chats == ServedChats(y)
             refs  == Declared(y.senders[i])
         IN /\ sent[k].chat \in IdsOf(chats, Named(y.senders[i], e)) \cap IdsOf(chats, ToSet(refs))
            /\ sent[k].bot = BotIn(y, Resolve(chats, FirstRef(chats, refs, sent[k].chat)).bot)
            /\ \A l \in DOMAIN sent : sent[k].chat = sent[l].chat => k = l
<1> DEFINE chats == ServedChats(y)
           refs  == Declared(y.senders[i])
           Is(r) == Resolve(chats, r)
<1>1. /\ sent \in Seq(ToSet(sent)) /\ done \in Seq(ToSet(done)) /\ left \in Seq(ToSet(left))
      /\ Len(done) + Len(left) = Len(plan)
  BY DEF Underway, IsSequence
<1>2. DOMAIN sent = 1 .. Len(sent) /\ Len(done) \in Nat /\ Len(left) \in Nat
  BY <1>1
<1>3. PICK j \in 1 .. Len(done) : sent[k] = Message(y, plan[j])
  BY <1>2 DEF Underway
<1>4. j \in 1 .. Len(plan)
  BY <1>1, <1>2
<1>5. plan \in Seq(ToSet(refs)) /\ {Is(plan[l]).id : l \in 1 .. Len(plan)} = IdsOf(chats, Named(y.senders[i], e))
  BY DEF Routed
<1>6. plan[j] \in ToSet(refs) /\ sent[k].chat = Is(plan[j]).id /\ sent[k].bot = BotIn(y, Is(plan[j]).bot)
  BY <1>3, <1>4, <1>5 DEF Message
<1>7. FirstRef(chats, refs, Is(plan[j]).id) = plan[j]
  BY <1>6, AcceptedIs
<1>8. sent[k].chat \in IdsOf(chats, Named(y.senders[i], e)) /\ sent[k].chat \in IdsOf(chats, ToSet(refs))
  BY <1>4, <1>5, <1>6 DEF IdsOf
<1>9. \A l \in DOMAIN sent : sent[k].chat = sent[l].chat => k = l
  BY <1>2 DEF Underway
<1> QED
  BY <1>6, <1>7, <1>8, <1>9

(* An event reaches the chats its sender's rules or its request name, each *)
(* once and through its own bot, and no other (handleGitlab).              *)
THEOREM EventReaches == HookSpec => []EventReachesItsChats
<1>1. ASSUME HookInv PROVE EventReachesItsChats
  <2>1. StartInv /\ EventInv
    BY <1>1 DEF HookInv
  <2>2. CASE sender = 0
    <3>1. posted = <<>> /\ reply # 502 /\ DOMAIN posted = {}
      BY <2>1, <2>2 DEF EventInv
    <3> QED
      BY <2>2, <3>1 DEF EventReachesItsChats
  <2>3. CASE sender # 0
    <3>1. phase = "serve" /\ Answering(yaml, sender, event, targets, posted, outs)
      BY <2>1, <2>3 DEF EventInv
    <3>2. cfgChats = ServedChats(yaml) /\ Prepared(yaml, senders) /\ Len(senders) = Len(yaml.senders)
          /\ yaml \in Settings
      BY <2>1, <3>1 DEF StartInv
    <3>3. PICK plan : Routed(yaml, sender, event, plan) /\ Underway(yaml, plan, targets, posted, outs)
      BY <3>1 DEF Answering
    <3>4. sender \in 1 .. Len(yaml.senders) /\ Accepted(yaml, sender) /\ Secret(yaml, sender) = event.token
      BY <3>1, <3>2 DEF Answering, Prepared
    <3>5. DOMAIN yaml.senders = 1 .. Len(yaml.senders)
      <4>1. yaml.senders \in Seq(ToSet(yaml.senders))
        BY <3>2, SettingIs DEF IsSequence
      <4> QED
        BY <4>1
    <3> DEFINE s == yaml.senders[sender]
    <3>6. multiBot = MultiBot(yaml) /\ \A bound : BotFor(bound) = BotIn(yaml, bound)
      BY DEF BotFor, BotIn, multiBot, MultiBot, SingleBot
    <3>7. \A i \in DOMAIN yaml.senders : Lookup(yaml.senders[i].secret) = event.token <=> i = sender
      <4>1. \A i \in DOMAIN yaml.senders : Lookup(yaml.senders[i].secret) = Secret(yaml, i)
        BY DEF Lookup, LookupIn, Secret
      <4>2. \A i, j \in 1 .. Len(yaml.senders) : Secret(yaml, i) = Secret(yaml, j) => i = j
        BY <3>2 DEF Prepared
      <4> QED
        BY <3>4, <3>5, <4>1, <4>2
    <3>8. stage = "answered" => Len(outs) = Cardinality(IdsOf(cfgChats, Named(s, event)))
      <4> SUFFICES ASSUME stage = "answered"
                   PROVE  Len(outs) = Cardinality(IdsOf(cfgChats, Named(s, event)))
        OBVIOUS
      <4>1. targets = <<>> /\ Len(targets) = 0
        BY <2>1, <2>3 DEF EventInv
      <4>2. Len(outs) + Len(targets) = Len(plan) /\ outs \in Seq(ToSet(outs))
        BY <3>3 DEF Underway, IsSequence
      <4>3. Len(outs) = Len(plan)
        BY <4>1, <4>2
      <4> QED
        BY <3>2, <3>3, <4>3, PlanLength
    <3>9. multiBot => "nobot" \notin ToSet(outs)
      BY <3>3, <3>6 DEF Underway
    <3>10. ASSUME NEW i \in DOMAIN posted
           PROVE  /\ posted[i].chat \in IdsOf(cfgChats, Named(s, event)) \cap IdsOf(cfgChats, ToSet(Declared(s)))
                  /\ posted[i].bot =
                       BotFor(Resolve(cfgChats, FirstRef(cfgChats, Declared(s), posted[i].chat)).bot)
                  /\ \A j \in DOMAIN posted : posted[i].chat = posted[j].chat => i = j
      BY <3>2, <3>3, <3>4, <3>5, <3>6, PostedIs
    <3>11. stage = "answered" /\ reply = 200 => posted # <<>>
      BY <2>1, <2>3, <3>3 DEF EventInv, Underway
    <3> QED
      BY <2>3, <3>7, <3>8, <3>9, <3>10, <3>11 DEF EventReachesItsChats
  <2> QED
    BY <2>2, <2>3
<1> QED
  BY <1>1, HookInvariance, PTL

(* What `config validate' says of a sender's chats, serve does             *)
(* (validateCrossReferences, buildGitlabSender).                           *)
THEOREM Mirrors == HookSpec => []ValidateMirrorsServe
<1>1. ASSUME HookInv PROVE ValidateMirrorsServe
  <2> SUFFICES ASSUME phase = "build", NEW i \in DOMAIN yaml.senders
               PROVE  LET s == yaml.senders[i]
                          accepted == TargetsAccepted(cfgChats, multiBot, s)
                      IN /\ OfflineError(yaml.chats, s) /\ UnknownBots = {} => ~accepted
                         /\ ~accepted /\ Decided(s)
                              => \/ OfflineError(yaml.chats, s)
                                 \/ OfflineWarning(yaml.chats, yaml.bots, s)
                                 \/ UnknownBots # {}
    BY Zenon DEF ValidateMirrorsServe
  <2>1. cfgChats = ServedChats(yaml) /\ yaml \in Settings
    BY <1>1 DEF HookInv, StartInv
  <2>2. UnknownBots = Unbound(yaml) /\ multiBot = MultiBot(yaml)
    BY DEF UnknownBots, Unbound, multiBot, MultiBot
  <2> DEFINE s == yaml.senders[i]
  <2>3. OfflineError(yaml.chats, s) /\ Unbound(yaml) = {}
          => ~TargetsAccepted(ServedChats(yaml), MultiBot(yaml), s)
    BY <2>1, ErrorsRefused
  <2>4. ~OfflineError(yaml.chats, s) /\ ~OfflineWarning(yaml.chats, yaml.bots, s)
          /\ Unbound(yaml) = {} /\ Decided(s) => TargetsAccepted(ServedChats(yaml), MultiBot(yaml), s)
    BY <2>1, RefusedNamed, Zenon DEF Decided
  <2> QED
    BY <2>1, <2>2, <2>3, <2>4
<1> QED
  BY <1>1, HookInvariance, PTL
=============================================================================
