----------------------------- MODULE MCSyncSend -----------------------------
(***************************************************************************)
(* Two jobs of a bot with a secret, a second that meets it in the cache,   *)
(* and a bot with a configured token.  Without a cache there are fewer     *)
(* states and room for a third token.                                      *)
(***************************************************************************)
EXTENDS SyncSend, TLC

CONSTANTS b1, b2, b3

MCWork == {"send", "lookup", "create", "fresh", "refresh", "clear"} \X {b1}
          \cup {<<"get", b2>>, <<"post", b3>>}

MCMaxTokens == [none |-> 3, file |-> 2, vault |-> 2]

JobSymmetry == Permutations(Jobs)
=============================================================================
