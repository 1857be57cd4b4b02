---------------------------- MODULE MCGitlabHook ----------------------------
EXTENDS GitlabHook

CONSTANTS u1, u2, u3,                     \* chat ids
          ops, ops2, dev, ref, void, gone, \* aliases; one from the environment,
                                          \* one without an id, one not there
          b1, b2, ghost,                  \* bots, the last not configured
          envId, envKey, envKey2,         \* references to the environment
          t1, t2,                         \* tokens
          team, other,                    \* names of senders
          regRel                          \* a regular expression, /^rel/

MCDefaultKeys == {[kind |-> "pipeline", sub |-> Absent]}
MCRegex       == regRel :> {<<"rel-", "rel-", "x">>, <<"rel-", "x">>}

Chats(devBot) == (ops :> [id |-> u1, bot |-> b1]) @@ (ops2 :> [id |-> u1, bot |-> b2])
                 @@ (dev :> [id |-> u2, bot |-> devBot])
                 @@ (ref :> [id |-> envId, bot |-> b2])
                 @@ (void :> [id |-> Absent, bot |-> Absent])

On(selector, patterns) == selector :> patterns
Rule(match, chats, stop) == [match |-> match, chats |-> chats, stop |-> stop]
Always   == [s \in {} |-> {}]
Release  == On("branch", {<<<<"rel-">>, <<"rel-">>>>})
Failed   == On("event", {[kind |-> "pipeline", sub |-> "failed"]})
         @@ On("labels", {regRel, <<<<"x">>>>})

RuleLists == { <<>>,
  <<Rule(Release, <<ops>>, TRUE), Rule(Always, <<dev>>, FALSE)>>,
  <<Rule(Failed, <<dev, u1>>, FALSE), Rule(Release, <<dev>>, TRUE), Rule(Always, <<ops>>, FALSE)>>,
  <<Rule(Failed, <<ops2>>, FALSE), Rule(Release, <<ref>>, FALSE)>>,
  <<Rule(Release, <<u1>>, FALSE), Rule(Failed, <<dev, ops>>, FALSE)>>,
  <<Rule(Failed, <<ops>>, FALSE), Rule(Always, <<ops2, void>>, FALSE)>>,
  <<Rule(Release, <<dev, u1, ops>>, FALSE)>> }
ChatLists == { <<>>, <<ops>>, <<ops, dev>>, <<dev, u1>>, <<ops, ops2>>, <<dev, ref>>,
               <<ops, gone>>, <<ref, ops>> }
NoTemplates == [k \in {} |-> ""]
Templates == { NoTemplates,
  ([kind |-> "pipeline", sub |-> AnySub] :> "blank")
    @@ ([kind |-> "pipeline", sub |-> "failed"] :> "text"),
  ([kind |-> "pipeline", sub |-> "failed"] :> "broken") @@ (DefaultKey :> "blank") }
Filters == { <<{}, {}>>,
             <<{[kind |-> "pipeline", sub |-> AnySub]}, {[kind |-> "pipeline", sub |-> "ok"]}>> }

Sender(chats, routes, templates, filter, secret, name, files) ==
  [chats |-> chats, routes |-> routes, templates |-> templates, only |-> filter[1],
   exclude |-> filter[2], secret |-> secret, name |-> name, files |-> files]

First == { Sender(c, r, NoTemplates, <<{}, {}>>, envKey, team, FALSE) :
             c \in ChatLists, r \in RuleLists }
         \cup { Sender(<<ops, dev>>, <<>>, t, f, envKey, Absent, FALSE) :
                  t \in Templates, f \in Filters }
Second == { <<>>, <<Sender(<<dev>>, <<>>, NoTemplates, <<{}, {}>>, envKey2, other, TRUE)>>,
            <<Sender(<<u2>>, <<>>, NoTemplates, <<{}, {}>>, envKey, team, FALSE)>> }
Starts2 == { <<{b1, b2}, Absent, FALSE, b2>>, <<{b1, b2}, b1, FALSE, b1>>,
             <<{b1, b2}, Absent, FALSE, ghost>>, <<{b1}, Absent, TRUE, b1>>,
             <<{b1}, Absent, FALSE, Absent>>, <<{b1, b2}, ghost, FALSE, b2>> }
Envs == { (envId :> i) @@ (envKey :> t1) @@ (envKey2 :> k) : i \in {u1, u3, Absent}, k \in {t1, t2} }

MCSettings ==
  { [chats |-> Chats(w[4]), bots |-> w[1], bot |-> w[2], failFast |-> w[3],
     env |-> e, senders |-> <<s>> \o t] :
      w \in Starts2, e \in Envs, s \in First, t \in Second }

Text(text)     == [string |-> TRUE, scalars |-> {text}]
Array(scalars) == [string |-> FALSE, scalars |-> scalars]
Payload(kind, status, branch, labels) ==
  ("object_kind" :> Text(<<kind>>)) @@ ("object_attributes.status" :> status)
  @@ ("object_attributes.ref" :> Text(branch)) @@ ("ref" :> Text(branch)) @@ ("labels" :> Array(labels))
MCPayloads == { Payload("pipeline", Text(<<"failed">>), <<"rel-", "x">>, {<<"x">>, <<"y">>}),
                Payload("pipeline", Text(<<"ok">>), <<"rel-", "rel-">>, {}),
                Payload("pipeline", Array({<<"failed">>}), <<>>, {<<"x">>}),
                Payload("push", Array({}), <<"refs/heads/", "rel-">>, {<<"rel-", "x">>}),
                Payload("push", Array({}), <<"refs/heads/">>, {}) }
MCQueries == { Absent, <<>>, <<u1, dev>>, <<ops2, ops>>, <<dev, ref, u2>>, <<gone>> }
=============================================================================
