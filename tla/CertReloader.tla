---------------------------- MODULE CertReloader ----------------------------
(***************************************************************************)
(* The TLS certificate of the server: two files that something else        *)
(* replaces, read one after the other at start and by a ticker.  A version *)
(* stands for the content of a file; a certificate and a key belong        *)
(* together when their versions are equal.                                 *)
(***************************************************************************)
EXTENDS Integers

CONSTANTS MaxVersion, MaxAttempts   \* MaxVersion is a bound

ASSUME ReloaderAssumption == {MaxVersion, MaxAttempts} \subseteq Nat \ {0}

VARIABLES disk,    \* the two files, 0 for one that is missing or cannot be read
          step,    \* the next read of readStablePair
          attempt,
          buf,     \* what this attempt has read
          hash,    \* lastCertHash and lastKeyHash
          served   \* the certificate handshakes get

certVars == <<disk, step, attempt, buf, hash, served>>

Versions == 0 .. MaxVersion
Files    == [cert : Versions, key : Versions]
NoFiles  == [cert |-> 0, key |-> 0]

CertTypeOK ==
  /\ disk \in Files /\ buf \in Files /\ hash \in Files
  /\ step \in {"rest", "cert", "key", "again", "ok", "failed"}
  /\ attempt \in 1 .. MaxAttempts
  /\ served \in Versions

CertInit ==
  /\ disk \in {[cert |-> 1, key |-> 1], [cert |-> 1, key |-> 0]}
  /\ step = "rest" /\ attempt = 1
  /\ buf = NoFiles /\ hash = NoFiles /\ served = 0
-----------------------------------------------------------------------------
(* Whoever renews the certificate: one file after the other in any order,  *)
(* both at once as Kubernetes does, or by removing the old one first.      *)
Rotate ==
  /\ \E v \in 1 .. MaxVersion :
       \/ v > disk.cert /\ v > disk.key /\ disk' = [cert |-> v, key |-> v]
       \/ v > disk.cert /\ disk' = [disk EXCEPT !.cert = v]
       \/ v > disk.key  /\ disk' = [disk EXCEPT !.key = v]
       \/ disk.cert # 0 /\ disk' = [disk EXCEPT !.cert = 0]
  /\ UNCHANGED <<step, attempt, buf, hash, served>>

BeginReload ==
  /\ step = "rest"
  /\ step' = "cert" /\ attempt' = 1
  /\ UNCHANGED <<disk, buf, hash, served>>

ReloadFails ==
  /\ step' = "failed"
  /\ UNCHANGED <<disk, attempt, buf, hash, served>>

(* One ReadFile of readStablePair; an error ends the reload.               *)
Read(s, file, follows) ==
  /\ step = s
  /\ \/ disk[file] = 0 /\ ReloadFails
     \/ /\ disk[file] # 0
        /\ buf' = [buf EXCEPT ![file] = disk[file]]
        /\ step' = follows
        /\ UNCHANGED <<disk, attempt, hash, served>>

ReadCert == Read("cert", "cert", "key")
ReadKey  == Read("key", "key", "again")

(* reload, with a pair that was read stably.                               *)
Install ==
  IF served # 0 /\ buf = hash
  THEN step' = "ok" /\ UNCHANGED <<hash, served>>
  ELSE \/ /\ buf.cert # buf.key
          /\ step' = "failed" /\ UNCHANGED <<hash, served>>
       \/ /\ buf.cert = buf.key
          /\ step' = "ok" /\ hash' = buf /\ served' = buf.cert

(* The certificate is read again to see whether it changed meanwhile.      *)
ReadAgain ==
  /\ step = "again"
  /\ \/ disk.cert = 0 /\ ReloadFails
     \/ disk.cert # 0 /\ disk.cert = buf.cert /\ Install /\ UNCHANGED <<disk, attempt, buf>>
     \/ /\ disk.cert \notin {0, buf.cert} /\ attempt < MaxAttempts
        /\ step' = "cert" /\ attempt' = attempt + 1
        /\ UNCHANGED <<disk, buf, hash, served>>
     \/ disk.cert \notin {0, buf.cert} /\ attempt = MaxAttempts /\ ReloadFails

Reload == ReadCert \/ ReadKey \/ ReadAgain

(* loadInitial fails the start; run logs the error and waits for a tick.   *)
EndReload ==
  /\ step \in {"ok", "failed"}
  /\ step' = "rest"
  /\ UNCHANGED <<disk, attempt, buf, hash, served>>
=============================================================================
