---------------------------- MODULE MCServerRun ----------------------------
EXTENDS ServerRun

CONSTANTS r1, r2

MCRules == << [events |-> <<"message">>, async |-> FALSE],
              [events |-> <<"message", "*">>, async |-> TRUE] >>

MCSecretOf == [b \in {"botA", "botB"} |-> IF b = "botA" THEN "secretA" ELSE "secretB"]
MCNow == 1000

Token(alg, aud, secret, exp, nbf) ==
  [alg |-> alg, aud |-> aud, signedWith |-> secret, exp |-> exp, nbf |-> nbf]
GoodToken == Token("HS256", "botA", "secretA", 940, 1060)

Command(token, wellFormed, system, text) ==
  [endpoint |-> "command", token |-> token, wellFormed |-> wellFormed, bot |-> "botA",
   system |-> system, text |-> text]

MCTaken == {[endpoint |-> "notification", token |-> GoodToken, wellFormed |-> TRUE]}

MCPayloads == [r \in Callbacks |-> IF r = r2 THEN MCTaken ELSE MCTaken \cup
  { Command(GoodToken, TRUE, FALSE, "hello"),
    Command(GoodToken, TRUE, TRUE, "chat_created"),
    Command(GoodToken, FALSE, FALSE, "hello"),
    Command(Token("none", "botA", "secretA", 2000, 0), TRUE, FALSE, "hello"),
    Command(Token("HS256", "botB", "secretB", 2000, 0), TRUE, FALSE, "hello"),
    Command(Token("HS256", "botA", "secretA", 939, 0), TRUE, FALSE, "hello") }]
=============================================================================
