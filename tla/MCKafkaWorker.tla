---------------------------- MODULE MCKafkaWorker ----------------------------
EXTENDS KafkaWorker, TLC

CONSTANTS w1, w2,
          m1, m2,       \* for a bot with a secret
          m3, m4, m5,   \* for a bot with a token; for no bot; for a bot with a secret
          b1, b2, unknown

MCBotOf == (m1 :> b1) @@ (m2 :> b1) @@ (m3 :> b2) @@ (m4 :> unknown) @@ (m5 :> b1)

Symmetry == Permutations(Workers)
=============================================================================
