# express-botx: TLA+ verification project

express-botx sends messages to eXpress chats through the BotX API. One binary
offers one-shot commands (`send`, `chats`, `bot`, ...), an HTTP server (`serve`)
that sends on request, and an asynchronous mode in which producers
(`serve --enqueue`, `enqueue`) put work messages on a RabbitMQ or Kafka queue and
`worker` processes send them.

This directory models the parts where state, concurrency and failure meet,
checks them with TLC on small instances and proves the central safety
properties with TLAPS for every instance.

## Inventory

| Component | State | Operations | Hard behaviour |
|---|---|---|---|
| worker (`internal/cmd/worker.go`) | ready/healthy flags, cached client and token per bot | start, handleMessage, retry, refresh, reply, drain | retries after ambiguous sends, signals in the middle of a retry, crash between send and ack |
| RabbitMQ driver (`internal/queue/rabbitmq`) | connection, prefetched delivery | publish, consume, ack, nack, requeue | redelivery, lost connection, forgotten answer with prefetch 1 |
| Kafka driver (`internal/queue/kafka`) | group offset, fetch position | publish, fetch, commit | cumulative commits, rebalance during a handler, commit over a cancelled context |
| catalog (`internal/queue/catalog.go`, worker publisher, enqueue consumers) | snapshot in memory and on disk | build, publish, update, expire, resolve | old snapshots overtaking new ones, expiry, crash while writing |
| BotX client (`botx/`) | token, generation, request in flight | do, currentToken, renewToken | one shared renewal for many callers, cancelled waiters |
| membership checker (`internal/server/membership.go`) | cache, lookups in flight | check, run, sweep | collapsed lookups, limits, stale answers, fail closed |
| bot senders, lookups (`internal/cmd/serve.go`) | client token per bot | newBotSender, Send, Edit, GetUserByEmail | a token shared by concurrent requests without a lock, repeated calls |
| token caches (`internal/token`) | file or Vault document | Get, Set, Delete | read-modify-write of the whole document by many processes |
| send pipeline (`internal/server/handler_send.go`, `auth.go`, `multisend.go`) | none across requests | authorize targets, resolve bot and chat, fan-out, answer | partial failure and its status, scope checked on the chat really sent to |
| alert webhooks (`handler_*.go`) | none | render, send | as the send pipeline |
| GitLab webhook (`handler_gitlab.go`, `gitlab_routing.go`, `buildGitlabSender`) | senders built at start | build, filter, route, scope, deliver | order and stop of rules, globs, several names of one chat, several bots |
| callbacks (`internal/server/callback*.go`, `handler_callback.go`) | wait group, context | refuse, route, dispatch awaited and async | handlers that outlive their request, panics |
| server lifecycle (`internal/server/server.go`) | listener, goroutines | Run, shutdown | order of shutdown steps, timeouts, handlers still starting |
| TLS reloader (`internal/server/tls.go`) | certificate, hashes | reload, run | two files swapped under the reader |
| configuration (`internal/config`) | the loaded values | load, choose bot and chat, validate, save | several ways to a bot, a check repeated by hand elsewhere |
| configuration commands (`internal/cmd/bot.go`, `chats.go`, `server_apikey.go`, `config.go`) | YAML file | add, set, remove, import, edit | rewriting a shared file without a lock, one default chat |
| chat administration (`internal/cmd/chats_admin.go`) | none | find, create, members | find-then-create |
| message building (`internal/botapi`), mentions (`internal/mentions`) | none | truncate, filter, scan | boundaries of texts |
| metrics, APM, error tracking, logging, input, secrets | counters | - | instrumentation |

How they interact: producers resolve a message's bot and chat (through the
configuration or through the catalog that workers publish) and hand it to the
queue; a driver calls `handleMessage` in its consuming goroutine and settles
the message by what it returns; the handler uses one cached client per bot,
`authenticate` and the token cache shared between processes. The synchronous
server calls a bot sender from each request goroutine, after the key's scope
(and, for some keys, the bot's chat membership) was checked. Commands are
processes of their own, which meet the server and each other in two files: the
configuration and the token cache.

What makes each part correct is listed as hazards with their lines in
`PROJECT.json`; the properties below answer them.

## Modules

| Module | Models | Notes |
|---|---|---|
| `WorkDelivery` | the contract of the queue (`queue.go`): at least once | abstract specification: a published message stays queued until it was posted, owed nothing, or was given up |
| `Worker` | `runWorker`, `handleMessage`, `publishResult`, `authenticate` | state and actions common to both drivers; also the properties that do not depend on the driver |
| `RabbitWorker` | `rabbitmq/driver.go` with workers | EXTENDS `Worker`, adds the broker, gives Next and the specification |
| `KafkaWorker` | `kafka/driver.go` with workers | EXTENDS `Worker`, adds log, offsets and group |
| `BotxToken` | `botx/client.go`: the token of one client and `do` | concurrent callers of one client |
| `Membership` | `internal/server/membership.go`, `membershipLookup` | concurrent checks, cache, lookups, clock |
| `SendPipeline` | `handler_send.go` (synchronous), `auth.go`, `multisend.go`, the alert webhooks, `handler_mattermost.go` | requests with several chats: scope, membership gate, fan-out, status, and the client's retry |
| `CatalogCache` | `queue/catalog.go`, the catalog's publisher and consumers, `runServeEnqueue`'s `sendFn`, `enqueue.go` | catalogs from several workers, the server's snapshot in memory and on disk, routing of one request by it |
| `SyncSend` | bot senders and user lookups of `serve.go`, `authenticate` and `refreshToken` (`cmd.go`), `internal/token`, `chats create`, `bot token` | requests and commands that share clients and a token cache |
| `CertReloader` | `internal/server/tls.go` | two files and their reader |
| `ServerRun` | `Server.Run`, the callback handlers and their routing, JWT | EXTENDS `CertReloader`; the server from start to return |
| `ConfigContent` | the choice of bot and chat in `config.go`, what each command makes of a configuration | pure operators |
| `ConfigFile` | `SaveConfig` and the commands that read, rewrite and edit the file | EXTENDS `ConfigContent`; processes on one file |
| `GitlabRules` | filter, templates, selectors, globs, `evaluateRoutes`, the checks of a sender's chats at start and in `config validate` | pure operators |
| `GitlabHook` | `LoadForServe`, `buildGitlabSender`, `handleGitlab`, `gitlabDeliver` | EXTENDS `GitlabRules`; start and one event |
| `WorkerProofs`, `RabbitWorkerProofs`, `KafkaWorkerProofs`, `MembershipProofs`, `CatalogCacheProofs`, `SyncSendProofs` | proofs about the module of that name | see below |
| `ServerProofs` | proofs about `SendPipeline` and `ServerRun` | the two share no state |
| `ClientProofs` | proofs about `BotxToken`, `ConfigFile` and `GitlabHook` | the three share no state |
| `MC...` | TLC instances of the module of that name | message values, tables, symmetry |

### Worker

`pc[w]` is where the goroutine of the consumer is: `down`, `idle` (in the
driver's loop), then through the handler `handle`, `try` (top of an attempt),
`send`, `sending` (request out), `refresh`, `backoff`, `reply`, `settle` (handler
returned), and `drain` (ConsumeWork returned). `job[w]` holds the handler's
locals: the message, the attempt, whether this send is the one after a refresh,
and the verdict. `tok[w][b]` is the token in the worker's cached client of bot `b`,
`cache` the token cache shared by all processes, `live[b]` the token BotX accepts.
A token is its version number. `delivered`, `verdicts` and `results` are history:
posts that reached a chat, what workers concluded about messages, statuses published.

Each action is one atomic piece of the handler between two interactions with
the outside. `Dispatch` is bot lookup, client creation and dry run; `Try` is
lazy authentication; `BeginSend`/`FinishSend` the request, whose outcome is
success, 401 or an error after which the message may or may not have reached
the chat; `Refresh` is the second `authenticate`; `Backoff` the select between
the timer and the context; `Reply` is `publishResult`.

The parsing of mentions uses a client of its own without a cache, so it leaves
the modelled state alone and is not an action.

### Disturbances

`faults` counts everything the outside does to the system: signals, crashes,
lost connections, expired sessions, failed or ambiguous calls. `MaxFaults` bounds
it; liveness is "once the disturbances have stopped". BotX revoking a token
(`MaxToken`) and an expiring cache entry are bounded separately. A message BotX
refuses (`Refused`), a malformed body and an unknown bot are properties of the
message and cost nothing.

### RabbitWorker

The broker pushes the head of `queue` to a linked consumer without an unanswered
delivery (Qos 1). `Settle` acks on nil, requeues when the context is cancelled, and
otherwise drops. Answers over a dead link are lost. When a connection ends the
broker puts the unanswered delivery back at the head. After `ConnLost` the client
library may drop the delivery it had buffered or still hand it over.

### KafkaWorker

One partition. A rebalance gives it to a running member, which reads on from
the group's offset; the former owner may still be in its handler and still
commits. A commit sets the group's offset to any value, lower ones included.
Over a cancelled context the offset may be stored or not. A failed commit with a
live context ends ConsumeWork, and is a disturbance.

### BotxToken

`token`, `gen` and `inflight` are the client's fields under its mutex; `calls` are the
`tokenCall` values with the phase of the goroutine that runs each (`asking`,
`stored` under the lock, `closed` after it). Each caller makes one call of `do`:
`pc[c]` is where it is and `held[c]` its locals. `StartTokenCall` is the part of
`currentToken` or `renewToken` under the lock; `WaitToken` the select; `Send` a
request with its three outcomes (answer, 401, no answer, after which BotX may
have acted). A caller starts at most two token requests, so the pair of caller
and "second" names a request and the token it obtains. Two assumptions about
BotX: each token request obtains a token of its own, and a 401 means the token
was revoked. The methods of `messages.go`, `chats.go` and `users.go` add paths,
bodies and decoding around `do` and keep no state.

### Membership

`cache`, `inflight` and `calls` are the checker's maps and `membershipCall` values;
a request makes one check, so its name also names the lookup it may start. The
part of `check` under the lock is one of four actions' disjuncts: fresh entry,
join, refuse at the limit, start. What BotX answers is any truth value at the
moment it is asked (`Tell`); the answer may travel until the lookup's timeout.
`now` is the clock. Time passes only while no goroutine is ready to run, so the
properties about age count waiting for BotX, not scheduling. Entries remember
the lookup they came from (`by`), which only the properties read.

### SendPipeline

`req`, `targets`, `next` and `outs` are the locals of one request's handler; `pc` says
whether it is checking its chats, about to send to the next, has a request out at
BotX, or has answered. The surfaces differ in the chat they fall back to
(`TargetsOf`), in whether an address that does not resolve is an outcome or a
refusal (`Misaddressed`), and in the edit that keys with a scope may not make. Two
clients touch each other only through the membership cache and BotX, so a cache
that other requests filled is what the second attempt of one client meets.

`Membership` is the detail of `Check`: here a lookup is one step at the moment BotX
answers, and `entry` holds the answer and when it runs out. A send ends as succeeded,
or as failed with or without having reached the chat. The client may repeat a
request answered 502 or 503; that is its choice, not the server's.
`since`, `lastIn`, `posted` and `unsure` are read by properties only. Left out: the
GitLab webhook (`GitlabHook`), and the form of requests beyond being valid. The asynchronous branch
of `handleSend` is in `CatalogCache`.

### CatalogCache

`building[w]` is the snapshot between `BuildCatalogSnapshot`, which stamps it, and the
publication; `log` is what was published, the history properties look back on and, with
Kafka, the topic. `snapshot`, `file` and `link` are the server's cache, its file and its
subscription, `inbox` the snapshots on their way. `Update` writes the temporary file and
`Save` renames it, with the cache's lock held between them (`saving`), so a crash there
loses the memory and leaves the former file. A snapshot replaces another whatever their
ages. `ConnLost` ends the subscription for good, as the code does: the goroutine that
runs `ConsumeCatalog` is not started again.

A request is a record of what `/send` or the command line says; `pc`, `next`, `pending` and
`outs` are the locals of the handler, or of `runEnqueue`, and `queued` what reached the
work queue. `Get` is the server's cache for the one and the file of that moment for the
other, and is read again for each chat. `Route` covers `sendFn` and `resolveViaCatalog`, which
resolve alike. A content of a catalog is three functions: the chat and the bound bot of a
chat's alias, and the bot of a bot's alias.

Simplifications: one server, one request, one clock for all hosts, chats of a request
distinct, a cache file configured, no keys scoped by membership (the server refuses to
start with them in this mode), and no graceful shutdown, which for this state is a crash
without losses. An enqueue command that is killed leaves a prefix of its messages, as one
whose last publications fail does.

### SyncSend

A job is a request of the server or a command, a process of its own; `job[j].at` is where
it is and the record its locals: the token it got, the one refused first, the one it sent.
`client` is `client.Token` of each sender and resolver, as the two words of a Go string:
requests write and read them without a lock, so a reader may meet words of two tokens. If
the tokens have one length that is the first of them, otherwise a text BotX never issued
(`Garbled`); a string of a length without bytes panics. `cache` is the document of all
tokens. `Copy`, `Truncate` and `Write` are the three steps of `Set` and `Delete`: read all
entries, empty the file, write them all; with Vault a failed read leaves `Set` with its own
entry. `Got` is what a job does with a token, whichever way it got it. `Call` is one call of
BotX; a call that failed for its caller may have been carried out. `chats create` makes two.
The server makes its senders at start, one bot after the other, and goes on without the
token of a bot that got none. After a refusal a job calls `refreshToken` once at most;
a request whose client has no token yet has called it before its first call of BotX, too.

`BotxToken` is the client library of the public package; the program's own commands and
server use `internal/botapi`, whose client has only the field.

### CertReloader and ServerRun

A version stands for the content of a file, and a certificate and a key belong together
when their versions agree. `Rotate` lets whoever renews them replace one, the other, both
at once, or take one away first. `step` is the next read of `readStablePair`.

`phase` is where `Run` is, `serve`, `poller` and `waiter` are its goroutines, `wg` the handlers
the wait group counts, `conn[r]` a request's connection: `orphan` when its client has gone
while the handler goes on. `Route` is the set of the rules that an event
meets, `at[r]` the rule the loop over them has come to, `Rest(r)` those behind it, `Due(r)` those that must have run.
The payloads are one for each refusal and each way to an event. Handlers are external: they last, end,
give up when their context is cancelled, or panic, and nothing forces them to end. `http.Server` is
modelled by what Go promises of it: `Shutdown` closes the listener and waits for the
requests it finds, and leaves them running when its time is up. The wait group is a set, and starting a handler
once the waiter was woken and has not returned is the misuse that makes `sync` panic
(`crashed`).

### ConfigContent and ConfigFile

A content of the file is a record of bots, chats, keys and the cache type. `ConfigContent` has the
choice of a bot (by flag, by credentials, the only one, the one bound to the chat, to the
only chat or to the default) as `Load`, `LoadForServe` and `LoadForAPI` make it, and one operator per command
that changes a content. Ids stand for UUIDs, `Slug` and numbers for the aliases import
makes up, `AutoNames` for the names `bot add` makes up (when all are taken it fails, which the code's never are).
`ImportAll` and `Import` are folds, as the loops are: `ImportOne` takes a chat, `ImportBot` a bot. An alias written like an id
is taken for the id by `ResolveChatRef`, so of a chat given that way `BoundBot` promises the bot but not the id; a sole
or default chat has the id of its section (`RequiredId`). Of several aliases of one chat `chat add --name` takes any, as
`buildChatIDIndex` walks a map (`FoundAliases`).

In `ConfigFile` each process reads, may ask BotX, and writes; `fd[p]` is its open file, since `os.WriteFile`
empties the file it opened before it fills it. A reader in between finds an empty
configuration, which is valid. `config edit` checks that the file is what its user saw
and then renames a new one over it; `stale` are the edits that were overtaken between the
two. `Stop` kills a command anywhere.

Left out: listing commands, a file that does not exist yet, writes that arrive in several pieces.

### GitlabRules and GitlabHook

A text is a sequence of pieces, a payload maps a dotted path to the scalars found there and whether they are one string
(`At`, for the fields of an event) or may be elements of an array (`Scalars`, for other selectors), a
glob is the sequence of its parts; a regular expression is the set of the texts it is found
in. `GlobMatch` is `globMatch` part by part, by the ends of the places it finds, and `GlobMeans`, in the properties, says what a glob
means without an order of reading. `Unique` is the map of chats already seen, which spans the rules of a scan. `GitlabHook` loads a setting, checks and builds its senders one
after the other, and takes one event; the chats are sent to one by one. A chat's id, once its reference is resolved, is a chat id or empty
(`IsSetting`): `config validate` demands it of the ids that are written down, and nobody checks the others. The environment is part of a setting,
so that what `config validate` says without it can be held against what serve does with it
(`OfflineError`, `OfflineWarning` against `TargetsAccepted`).

Left out: rendering beyond broken, blank or text; credentials of flags or environment that replace configured bots;
the asynchronous mode.

## Runs

| Run | Question | Bounds |
|---|---|---|
| `RabbitDelivery` | nothing lost or dropped early, nothing forgotten, no duplicate without a disturbance; refinement of `WorkDelivery` | 2 workers, 2 messages (1 refused), 1 retry, 2 disturbances, 2 token versions |
| `RabbitMixed` | with a token cache, a configured token and a malformed body: a dry-run worker stays silent beside a sending one, every message is settled, shutdown terminates | 2 workers, 3 messages, 2 bots, 1 disturbance |
| `KafkaDelivery` | no offset passes an unfinished message, no message is skipped, every message is finished with; refinement | 2 members, 2 messages (1 malformed), 2 disturbances, a bot with a configured token that may be revoked |
| `BotxToken` | one token request at a time, no needless renewal, no repeated change, no caller failed by another, every call ends | 2 callers |
| `Membership` | collapsed lookups, limits, answers backed by BotX, bounded age, every check ends | 2 requests, 2 bots, 1 chat in 2 spellings, room for 1 lookup and 1 entry, lifetimes 3 and 1, clock to 4 |
| `SendPipeline` | no chat before all were checked, each send checked again, status true to the outcomes, retries harmless, a key with one chat reaches it | 1 client, 15 requests, 2 attempts, 2 bots or 1, lifetimes 2 and 1, clock to 4, 1 change of membership |
| `CatalogCache` | each route whole from one published, unexpired snapshot; scope on the resolved chat; refusals leave nothing on the queue; the file survives every crash | 2 workers with different catalogs, RabbitMQ or Kafka, 9 requests, lifetime 1, clock to 2, 2 or 3 snapshots, 1 fault |
| `ServerRun` | a clean return leaves nothing running; an accepted callback ran every rule for it; a signalled server returns; a certificate that stays gets served | 2 callbacks, an awaited and an async rule, 7 payloads, 2 versions of a certificate, 3 attempts |
| `ConfigFile` | never two defaults; each command changes what it was asked to; with several bots each works as the bot its chat is bound to | 2 processes, 23 commands, 3 of them run, 4 contents at first, 4 edits, one with an alias written like an id |
| `SyncSend` | tokens stay with their bot, no operation is done twice, whoever is told of a refusal was refused two tokens | 2 jobs, 3 bots, no cache, a file or Vault, 2 requests or commands beside the server's start, 2 or 3 tokens, 2 revocations or expiries |
| `GitlabHook` | an event reaches the chats its rules name, once, by the right bot; `config validate` agrees with serve | 6696 settings (routes, chats, templates, filters, second senders, bots, environments), 5 payloads, 6 queries, one event, sends that fail with and without having posted |
| `RabbitStaleToken` | violation: the refresh repeats the rejected token | 1 worker, 1 message, cache on |

Why these bounds are enough: two workers and two messages give every overlap
of one delivery with its redelivery to another process and with the delivery
behind it; two disturbances allow a crash after a lost answer and a signal
during the recovery; one retry passes every exit of the retry loop, whose
iterations do not differ otherwise. The mixed run has fewer disturbances and
token versions because bots, caches and bodies interact with the broker through
one delivery at a time, and because liveness is checked on the full state graph.
What the safety properties of these runs say is proved for any bounds.

Two callers are enough for a token request that one starts and the other joins
or comes late to, with every order of their 401s; the safety properties are
proved for any number. No run has a client built with a token: what is promised
of it (`StaticKept`) is proved. Two requests give a lookup that the other joins, meets
in the cache, or is refused for; the lifetimes (3 and 1) differ, so an answer kept with
the wrong one is seen; with one place for lookups and entries the limits are met at
once. More of each is what the proofs are for.

In `SendPipeline` the requests are chosen one for each way through the checks: chats
by alias, by id, repeated, unknown or with an id that is no UUID, keys with every
kind of scope, a signature's bot. Positive answers last two ticks and the clock runs
to four, so an answer can expire between the check of a chat and the send to it, and
between two attempts; the bot may leave or come in meanwhile.

In `CatalogCache` the newer configuration moves an alias to another chat and another bot,
gives a bot's alias another bot, and adds an alias; the requests mix ids and aliases, with
the bot named by id, by alias, or by the chat's binding. Two snapshots and a clock to two
with lifetime one let each catalog replace the other and expire between two chats. One
fault is enough for each of: killed between the two halves of an update, subscription
lost or never made, file not written, catalog or message published with an error or not
at all.

In `ServerRun` the second callback is always one that is accepted, so that its handlers can
outlive the shutdown while the first is of any kind. A certificate and callbacks do not touch each
other: a server with a certificate gets no requests (`TlsCallbacks`), which keeps the two apart
in the state space while the joins at the end are checked with both. Two versions and
a missing file give every order of two files under three reads; three attempts are the code's.

In `ConfigFile` three commands are two that overlap and one that goes on from what they
left; both bots list one chat, two chats share a name, so import meets aliases and ids that are
taken. Each kind of command is there, with the options on which its branches depend.
In `SyncSend` the commands beside sends and lookups are given to the bot with a secret, and a third
token, needed where two revocations hit one request, only to the kind without a cache.
In `GitlabHook` each list of rules, chats and filters is there for a branch: a stop before
and after a match, an alias and an id of one chat, two aliases bound to different bots, ids from the
environment that fall on a chat of the sender or are missing, an unknown bot; and a payload for a status that is no string
and for a ref that is only a prefix.

Deadlock is not checked: with the disturbances used up and every message
settled an idle worker waits for good, which is what it should do; a server returns, and
callers, requests and commands have their answers and nothing more is asked.

Fairness (liveness properties only): the supervisor starts a process that ended, the
broker pushes, some member gets the partition, a running process takes its next step. Go's select chooses among
ready cases at random, so a cancelled context is not passed over for ever:
strong fairness of `ReturnOnSignal` and `PollerStops`. Nothing is assumed of disturbances. In `BotxToken`
and `Membership` goroutines run and requests to BotX end, by their timeouts (the HTTP
client's and the ones of the detached contexts) if nothing else; BotX need not
answer and time need not pass. In `ServerRun` the goroutines of the server run, reads of
files end and the timer of the shutdown fires; callback handlers and clients may go on for ever, and nothing makes
the certificate stay, which is the premise of `RotationServed`.

## What the violation run says

**Refresh against a cache.** The worker refreshes with `authenticate`, which
answers from the token cache; with a cache the rejected token is used again.
`send` and `serve` call `refreshToken`, which asks BotX (`RefusedTwice` of `SyncSend` is the same promise,
and holds there).

## Seen while modelling

Behaviour the models contain and no run singles out, for whoever decides about the code:

- A Kafka message whose handler failed is passed by the next commit of its partition, which
  `kafka/driver.go:197-199` does not expect (`Concluded` counts it as given up).
- One delivery whose membership check was unavailable turns the answer into 503, failed ones
  beside it or not; `docs/integrations.md:147-149` has 502 for that mix.
- `docs/integrations.md:1350-1352` lets a shutdown wait for background handlers; `server.go:663` cancels
  their context before it waits.
- `/healthz` of a worker reports a flag set once at start, not the connection
  (`docs/async-queues.md`); a server whose catalog subscription ended goes on with its last
  snapshot until that expires.
- A comment at `serve.go:264` has bots that failed to authenticate retried every 10 seconds; a bot whose token could not be had
  at start gets one with its first request. Another, at `serve.go:325`, speaks of avoiding races on the shared token, which
  concurrent requests of one sender still have.
- Two commands that rewrite the configuration, or two processes that rewrite the token file, lose one of the
  changes; one that reads a file another has just emptied takes it for an empty
  configuration and writes that back with its own change.
- `config chat add` and `import` with `--no-cache` write `cache.type: none` into the file.
- `chat import --overwrite` may leave a chat without an alias or with two; `chat add --name` without an alias may
  repoint one it made up; `chat add --chat-id` does not keep the bot an alias was bound to.
- A Vault `Set` whose read failed writes its own entry alone.
- GitLab rules compare ids of chats as they are spelled: two spellings of one UUID are two chats.

## Proofs

`WorkerProofs` and `RabbitWorkerProofs` prove, for any number of workers,
messages, bots, tokens, retries and disturbances, from `WorkerAssumption` alone:

- `Invariance`: `Spec => []IInv`
- `TypeCorrect`, `AckSafety`, `DropSafety`, `NothingForgotten`, `ReplySafety`
- `Conservation`, `DryRunsSilent`, and `Refinement`: the driver with its workers implements `WorkDelivery`
- `Duplicates`: `Spec => []DuplicatesNeedFaults`

`AckedMeansDelivered` and `DroppedMeansGivenUp` speak about the broker's books;
that they stay true depends on what the worker's verdict is worth. `SettledInv`, the first part of `IInv`, has
two bridges: `WorkerInv` (a verdict "sent" was earned by a post, "failed" by giving
up, "none" at the end only under a cancelled context) and `LinkInv` (over a live
link the broker awaits exactly the delivery the worker handles or has buffered). `OnePlace` keeps the
places of a message apart, and `FromBroker` says that what a worker has in hand was published,
also over a link that is gone: the contract lets only published messages be posted.
Each action has a lemma; the worker's own actions are reduced first to what they
may change (`OnlyMoves`, `Monotone`), so that the broker's part of the invariant needs
no case split over the handler.

`DuplicatesNeedFaults` counts the posts of a whole history, and no part of a state says how many there were.
Its invariant (`Paid`) counts what may still come: the queue or a producer that has not published owes one post,
each worker that holds the message undecided one, each whose send was cut off by a signal one more; together with the
posts made these are never more than one and the disturbances so far. `PostPaid` shows it of the handler,
`Balanced` is what every other step does to the one worker it moves: something changes hands, or a disturbance
pays. The debts of other workers are cardinalities of sets that change by one element (`OneChanges`).

`KafkaWorkerProofs` uses the same lemmas about the worker, and `MemberAssumption` (no member is the mark
for none), for `Invariance`, `CommitSafety`, `NoSkipping` and `Refinement`: the log with its group implements
`WorkDelivery`. What carries them is `Passed`, the messages that were settled, given up or unreadable:
it only grows, so what a member knows of the messages before its own stays true when it loses
the partition. `PositionInv` says that the owner stands where everything before it is passed,
but for the message it is in the middle of, and `HandlingInv` the same of a
member in its handler, owner or not. A commit by whoever sets the offset to one below which
all is passed; the next owner starts there. Offsets taken back are covered because nothing says
the offset grows. For `Refinement` every step is one of `WorkDelivery` under the mapping of the module's `Delivery` instance
or leaves it alone: publication, an attempt (`MapAttempt`), and what ends a message (`MapCommit`).

`ClientProofs`, about `BotxToken`, proves for any number of callers `Invariance`, `OneRequest`,
`NoDoubleApply`, `NoHarm`, `NoRefresh`, and the action properties `NoNeedlessRenewal`
and `FreshRetry`. The invariant that carries them is `PairOK`: each generation has one
token, and a caller that holds a generation holds its token, so comparing
generations compares tokens. Steps of a caller are reduced to what they leave
alone (`CallerFrame`), steps of a token request to keeping or replacing the pair.

`ClientProofs`, about `ConfigFile`, proves for any processes, commands, contents, edits and listings
`FileInvariance`, `Asks` and `Binds`, from `ContentAssumption` (a bot has a name, a chat's id is not the empty text, listings are of ids) and
`ConfigAssumption` (the file is valid at first). What a command makes of the content it read is one lemma for each operator of
`ConfigContent` (`PutChatIs`, `ChatFoundIs`, `BotAddIs`, ...): a default is set only where no other chat has it, whatever the file
had become. An import is a fold over the listed chats, and `import --all` one over the bots around it; `Imported` is what
every policy keeps on the way (no alias goes, what is new or moved was listed, the default stays), and `Indexed` what holds
as long as nothing is overwritten: the index is that of the ids in the file, so no chat gets a second alias. Both are proved
over the number of entries taken (`ChatsImported`, `BotsImported`). `ProcessInv` is `FileInv` and `OnlyWhatWasAsked` said of
each process by itself; no step of another process touches what one is about to write, so the plan made at the read is the one
written. `Binds` needs no invariant: it holds of every content.

`ClientProofs`, about `GitlabHook`, proves for any configurations, environments, globs, rules, payloads and requests `HookInvariance`,
`EventReaches` and `Mirrors`, from `RulesAssumption` and `HookAssumption`, which say what has which form (`IsSetting`, `IsRule`, `IsGlob`).
The engine comes first. `GlobIs`: a glob matches what it means. That the parts take the first place they find loses no match
because no first place ends after one that fits (`EarlyIsEnough`), and gives none away because the places
found are one way to read the text (`EarlyIsMeant`). `ScanIs`: the scan collects the chats of the rules that apply,
each once, and `RuleIs` that these are the rules as the configuration means them. The same induction over the entries
taken that serves the import carries the folds here. Then the chats: `Routed` says of a plan that its references are the sender's, each of a chat of its own,
and together those the event is for; every way `handleGitlab` chooses chats comes to such a plan (`TargetsPlan`,
`RoutesPlan`, `QueryPlan`), although rules and requests name chats by other references (`OwnRefs`), because a sender was
accepted only with each chat named in one way (`AcceptedIs`). `HookInv` says at which point of the start the chats are as written, loaded or served,
that the senders built are those accepted ones with distinct secrets (`Prepared`), and of an event on the way that what was posted is of
the part of its plan that is done, and something was if one of its sends succeeded (`Underway`). A chat at most once and the number of outcomes follow: a plan is a bijection onto the chats (`PlanLength`).
`Mirrors` is about the two checks alone: `ErrorsRefused` and `RefusedNamed` hold of any configuration, and `HookInv` only says that
the chats serve checks are the written ones with references replaced and unknown bots dropped (`ServedIs`).

`MembershipProofs` proves for any number of requests, bots and chats and any limits
and lifetimes `Invariance`, `Collapsed`, `NeverStuck`, `FailClosed`, `Limits` and `Recent`.
`InFlightOK` says that the lookup in flight for a key is the running one of that
key; `EntriesOK` and `TimeOK` bound the age of entries and of answers on the way.

`CatalogCacheProofs` proves for any workers, catalogs, keys, requests, lifetimes and faults
`Invariance`, `Routed`, `Scoped`, `AllOrNothing` and `NeverTorn`, from `CatalogAssumption` alone.
`OnlyPublished` ties memory and inbox to what was published; `InOrder` counts outcomes and
pending messages against the chats of the request, which is what makes an "ok" stand for
the right chat; the rest of `RequestOK` says of pending messages what is promised of
queued ones. Steps of the catalog are reduced to adding to the log (`RequestKept`), steps
of a request to leaving the catalog alone (`CatalogKept`); `RoutedBacked` is the one argument
over the branches of the routing.

`SyncSendProofs` proves for any number of bots, requests, commands and revocations and each kind of cache
`Invariance`, `TokensStayHome`, `Once` and `Twice`, from `SyncAssumption` alone. `OwnToken` is not inductive:
an unlocked read may garble a job's token, and a job stores a token in client and cache. `IInv` of that module
adds that the token a job is about to store is one BotX gave its bot, so what is garbled is
sent and refused and never kept. For `DoneOnce`, nothing is done before a job's end
(`Undone`), runs of `chats create` that do not overlap are one at a time (`Sole`), and one
that is about to create has found no chat (`NoneYet`). For `RefusedTwice`, a token a request was given and has not begun
to write into the client is in no client and known to no other request (`Novel`), so nobody can put back what
was refused: that is why the unlocked writes of `client.Token` cannot make a sender repeat it (`ClientFresh`).
That no client is made while requests run (`InTurn`) is part of the argument.

`ServerProofs`, about `SendPipeline`, proves for any number of clients, chats and bots `Invariance`, `CheckedFirst`, `Truthful`,
`Harmless`, `OwnReached` and `SendsChecked`, from `PipelineAssumption` and `PairsAssumption`. `Found` says which
targets a request has resolved and checked, `Placed` that sending starts with all of them checked, `Accounted`
that what reached a chat is one known success of this attempt and the sends whose outcome is unknown. One success is
one only if no target is named twice: that is what `parseChatIDs` must return, a fold over the names. It is
proved of every list by least counterexample (`Least`, `Upward`), with sets where the library's
induction theorems would need an operator.

`ServerProofs`, about `ServerRun`, proves for any callbacks, rules, payloads, certificates and attempts `RunInvariance` and
`Handled`, from the assumptions of `ServerRun` and `CertReloader`. `RunInv` is kept in three parts: the types, what is true of the callbacks (`Requested`: which handlers the wait group counts and
which requests wait for theirs, and `Followed`, where a request's loop over the rules has come to), and what is true of `Run` and its goroutines
(`Living`: `Drained`, `Joined` and `CleanReturn`). They meet in the wait group: a running async handler is counted (`Counted`),
a waiter woken means none is (`Drained`), and `Run` returns nil only past it, so `CleanReturn` finds nothing running.
An accepted callback has run every rule for it because the loop leaves a rule behind only once its handler was
started, and one it awaits only once that is done (`Loop`).

What a theorem says and no run lists (acknowledged means delivered, one lookup per pair, the limits and so on)
is part of `IInv` or follows from it, which is an invariant of the RabbitMQ, client, membership and catalog runs
(`RunInv` and `FileInv` of the server's and the file's).

Checked by TLC only: `RefreshReplacesToken`, which does not hold, and liveness, which the prover cannot express.

## Plan

Done: the queues, their workers and contract; the client's token; the membership checker; the send pipeline; the catalog; bot senders
with the token cache; server, callbacks and certificate; the configuration file; GitLab.

Left: `SendPipeline` and `GitlabHook` with the asynchronous mode behind them.

Not modelled: formatting, rendering and truncation of messages and the parsing of mentions, which are functions
of one text that keep nothing; HTTP, YAML and flag syntax; metrics, logging,
APM, error tracking; the protocols of Vault and of secrets; what exec and webhook handlers do.
