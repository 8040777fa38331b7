# TLA+ models of the SENERGY platform connector

The connector stands between an MQTT broker (VerneMQ) and the SENERGY platform
(Kafka, device repository, device manager, Keycloak, memcached). The broker
asks it over HTTP webhooks whether clients may connect, publish, subscribe, and
tells it when they go. Accepted publishes become Kafka messages, device
notifications and command responses; commands of the platform are published to
the broker.

The modules of this directory describe the parts of the connector in which
concurrency, failures and the order of things decide whether it works. TLC
checks them on small instances, TLAPS proves the most important theorems for
every value of the constants. `PROJECT.json` lists components, runs, mutants
(mistaken forms of a definition which a property must notice), theorems, known
hazards, and for every definition the lines of `src/` it stands for.

    tlc -config CommandQueue.cfg MCCommandQueue.tla            # check a run
    tlapm CommandQueue_proofs.tla                              # check proofs

## Inventory of the system

| part | state it keeps | operations | talks to |
|---|---|---|---|
| command hand-over, `lib/command.go`, `lib/mqtt.go` | a buffered channel and its workers; the MQTT client's connection | queued and direct handler, publish with MQTT 4 and 5, reconnect, shutdown | Kafka and HTTP command consumers call it; memcached (correlation); broker |
| connection log, `webhooks/vernemqtt/{online,subscribe,unsubscribe,disconnect}.go`, `handler/command` | none of its own: the log in Kafka must follow the broker | the four webhooks | broker calls; user management, device repository, log |
| login, `webhooks/vernemqtt/login.go` | none | check of password or certificate, of the client id as hub, of the identity of a certificate user | broker; Keycloak, device repository |
| publish and its handlers, `publish.go`, `handler/*` | the waiting room and caches of the event handler, the correlation store of the response handler | a chain of handlers event, response, (command), process, export, notifications, errormessage, fog, health; each ignores, accepts, rejects or fails | broker; Kafka, memcached, device repository |
| health reports, `handler/health` | a cache of confirmed (user, client id) pairs | publish of a report, hub check | device repository, Kafka |
| wireless M-Bus, `handler/event/nimbus.go`, `waiting_room.go` | device cache, last telegram of a device, notes of writes, waiting room | decode a telegram, create and update its device type, check keys, write attributes, publish values | device manager and repository, memcached, waiting room, Kafka |
| responses and errors of devices, `handler/response`, `handler/errormessage` | the correlations in memcached | look up the command an answer belongs to, forward the answer | memcached, Kafka |
| disconnect command, `disconnectcmd.go` | a timer for each delayed command | list the sessions of a user, disconnect them one by one | VerneMQ's HTTP API |
| start and shutdown, `lib/lib.go`, `lib/mqtt.go`, `main.go`, `webhooks.go` | the root context, the MQTT clients that run | handlers, webhook server, ten attempts to connect an MQTT client, command handler, consumers; errors and cancellation end it | everything |
| webhook timeout, `httptimeouthandler.go` | a timer for each call | ends the process when a webhook takes too long | |
| configuration, metrics, API documentation, helpers | | pure input and output | |

How they interact: the broker calls the webhooks of one client one after the
other and those of different clients concurrently; the connector runs one
goroutine per call. Publish and subscribe walk the same list of handlers, in
the order of `lib.go:198-217`, and the first one that does not answer
*Unhandled* decides. A command leaves through the command hand-over, which
stores a correlation that the response handler looks up when the device
answers. Telegrams enter through the event handler like every other event, but
update device, device type and waiting room on their way. Memcached is shared
between instances; the caches are tolerated to lose entries at any time.

What is hard, and what must hold:

* *Command hand-over.* Concurrent senders, receivers and the close of one
  channel, blocked senders, shutdown, a broker that goes away in the middle of
  a QoS 2 exchange. No command may be lost silently, doubled or handled after a
  refusal, and the correlation must be stored before a device sees the command.
* *Connection log.* Overlapping and abandoned webhook calls, reports that fail
  one by one, exits in the middle. The log must be right once the calls that
  are known to have failed are made good.
* *Health reports.* A cache that is read and written with clock readings that
  are older than its lock; answers that come with errors. No report of a user
  who has no access may pass, and no failed check may count as an answer.
* *Wireless M-Bus.* Read-modify-write of devices and device types over HTTP by
  handlers that overlap, work with cached copies and race with the owner. No
  attribute of the owner may be lost, and the status must settle.
* *Dispatch.* Each handler has its own rules for the topic, the owner and the
  hub, and its own ideas of error and rejection; the answer to the broker
  depends on all of them.
* *Answers of devices.* A device may answer both copies of a command, at any
  time and to another process than the one that sent the command. Its answer
  must find the correlation for as long as memcached keeps it.
* *Disconnect command.* The sessions are listed after the delay and ended by
  client id, one by one, while clients come and go. What the user had must be
  gone, and nobody else's session ended that was not opened in between.
* *Start.* The login webhook must be up before the connector's own MQTT client
  logs in through it, failed attempts must not leave clients behind, and the
  connector must survive a command that names its own user.

## Modules

| module | models | state and actions |
|---|---|---|
| `CommandIntake` | what the queued handler promises | `backlog`, `status`; `Offer`, `Refuse`, `Begin`, `Finish`, `Shut`, `Stop` |
| `CommandQueue` | `GetQueuedCommandHandler`, `GetCommandHandler`, both `Publish`, shutdown | `queue` and `senders` are the channel's buffer and its blocked senders, `worker` and `step` say where each handler stands, `saved` and `delivered` what memcached and the broker have |
| `CommandRoundtrip` | `correlation.New` and `Save`, the `Publish` of response and error handler | extends `CommandQueue`; `authOnly` is `config.MqttPublishAuthOnly`, `entries` are the correlations in memcached, `reply` what became of the answer to each delivered copy |
| `DisconnectCommand` | `/disconnect-command`, `execDisconnectCommand`, `httptimeouthandler.go` | `session` and `opened` are the broker's sessions; `stage` says where a call stands, `todo` is the rest of its client ids, `answer` what the caller was told, `"lost"` for an ok that comes after the server's `WriteTimeout` |
| `Startup` | `lib.Start`, `InitWebhooks`, `MqttStart`, `main` | extends `DisconnectCommand`; `boot` is the line `Start` has reached, `server` the goroutine of the webhook server, `tries` and `running` the MQTT clients, `publisher` the one that sends commands |
| `HealthHandler` | `Handler.Publish`, `isAccessibleHub`, `hubCheckCache` | `expiry` and `nextPrune` are the fields of the cache, `pc` the line a request has reached, `seenAt` and `addedAt` the two readings of the clock |
| `WmbusAttributes` | `recordWmbusReceiver`, `updateDeviceDecryptionStatus`, `replaceLegacyKeyOk` | `stored` is the device in the device manager, `cached` its copy in the device cache, `seen` and `written` the notes in memcached, `device` and `fresh` the copies a handler works with |
| `WmbusTelegram` | `handleWmbusEvent`, `ensureWmbusDeviceType`, `EnsureWaitingRoom`, the loop over the keys | `deviceType` is the type in the device repository, `cachedType` its copy in the cache, `last` and `roomNote` the entries in memcached; `pc` says where a handler stands, `existing` which type it read, `decoded` what it decoded |
| `TopicDispatch` | `/publish`, `/subscribe`, `/login`, `HandleTopicSubscribe`, the checks and answers of all handlers | a call has its `hook`, `client` and the topics `asked`; `todo` and `at` are the topic and the handler it has reached, `granted`, `refused`, `produced` and `answer` what came of it; `config` is one of all configurations, `assigned` what the platform has as the hub's devices |
| `ConnectionLog` | `/online`, `/subscribe`, `/unsubscribe`, `/disconnect`, the command handler's `Subscribe` | `connected` and `subs` are the broker's, `hubLog` and `deviceLog` the log's; a call has its `hook`, `topics` and what is left `todo`; a topic is its kind, its device and the rest of it, as a device has many (its services, the wildcard, the form with the owner) |

An `MC...` module instantiates a model for TLC and a `..._proofs` module holds
its theorems. `CommandQueue` implements `CommandIntake` under the mapping at the
end of the module: the backlog is the channel's buffer followed by the blocked
senders. Two modules are compositions: every step of `CommandRoundtrip` is one
of `CommandQueue`, with the correlation stored as the command saves it, or one
of memcached and the device. Every step of `Startup` is one of
`DisconnectCommand`, whose broker is the one the connector's own clients log in
to, or one of `Start`. Both facts are theorems.

What the models leave out on purpose: payloads and topics as strings (a topic
is what a handler makes of it: its kind, its device and what tells it from
the device's other topics), logging, metrics, and everything a remote service
does except that it answers or fails. A failing request may have been carried
out: the models let the effect happen or not. The device cache of
`WmbusAttributes` may be stale, but the device manager is taken to read its own
writes; a delay there is not modelled.

In `CommandQueue` a send, a receive and the close of the channel are atomic, as
the Go runtime makes them; a receive that finds a blocked sender moves its
value into the buffer, as the runtime does. In `HealthHandler` the lock of the
cache makes look-up and addition atomic, while the clock is read before.
In `DisconnectCommand` a session is a client id and a number, so that a client
that came back is told from the one that was listed. The list of client ids is
a set: its order is VerneMQ's. `held` and `listed` are history variables, the
user's sessions when the call came and when VerneMQ listed them.
`ConnectionLog` has three history variables. `suspect` collects what a report
is known to be missing or wrong about: it failed, came late, was skipped, was
made before its request was refused, or came from a client to whose hub the
device does not belong. `alone` says that no other call of the client ran
during a call, and `dropped` of which devices a client has unsubscribed from a
plain topic since it last subscribed to one of theirs.
In `WmbusTelegram` a device type is a set of fields. `nimbus.go:475-489` compares
the numbers of services and outputs before those of the fields; every type made
here has one service with one output (`nimbus_test.go:371-376`), and a type that
someone edits by hand in the repository is not modelled.

## Runs

| run | question | bounds and why they are enough |
|---|---|---|
| `command_queue` | no command lost or misplaced; accepted commands handled, blocked callers answered; refinement of `CommandIntake` with its fairness | four commands with two workers, and a channel of two: two callers blocked before a worker takes one, or one in a handler and one blocked, or both workers busy and the channel full; MQTT 4 with one loss of the link, so that a publish waits |
| `command_roundtrip` | nil means delivered, no command is handed over twice, an answer finds its command | the direct handler with two concurrent callers, both topics, MQTT 5 with its timeout and one loss of the link, a response or an error message to each of the four copies, with and without `MqttPublishAuthOnly`, entries that expire at any step |
| `startup` | the start ends and consumes behind a listening server, no version 4 client stays behind, the publisher comes back; a disconnect command does what its ok says and no more, whether or not the ok reaches the caller | two attempts (one to fail, one to stay), both versions, three modes of the command; one client id that two users share, two sessions one after the other, so that it changes hands between list and disconnect; one call, as calls share nothing but the broker |
| `health_safety` | cache bounded, confirmed entries only, nothing forwarded or denied by a failed check | three requests, two hubs (one with a bad id), two places, three clock ticks with a duration of one: entries expire, the cache overflows |
| `wmbus_attributes` | no write takes away what another wrote | two overlapping handlers, a receiver with and one without id, a tool's origin, one edit |
| `wmbus_key_ok` | the stored status settles | two handlers and one edit; receivers without id, as the other attribute plays no part |
| `wmbus_telegram` | the device type settles with all fields and then stays so, unknown devices are offered, known ones published | two overlapping handlers, a plain telegram with one field and an encrypted one with that field and another, a wrong key before the right one, one failing request or dismissal; two handlers suffice for a stale read and for a poorer type over a richer one, one failure for a telegram that is noted but not handled |
| `wmbus_decoded` | *violation*: a wrong key behind the right one wipes what was decoded | the same, keys in the other order |
| `connection_log` | the log is wrong only where a report is known to be missing; an unsubscription logs its plain topics | a hub of two devices and a client that is no hub and shares one of them; topics of two services of one device, one of the other, one malformed; three sessions, three requests of up to two topics (subscribe, leave one of two, come back), two overlapping calls, one fault |
| `connection_unsubscribe` | *violation*: unsubscribe of a shared topic logs nothing | one session, one topic in each of two requests, no fault |
| `topic_dispatch` | only what a topic allows is forwarded or granted; the answer says what became of each topic | all 32 configurations; a user with a hub, an administrator and the connector itself; one topic for each way a handler reads one, lists of two for what one topic does to another; one device, which may join or leave the hub at any step |
| `login_unanswered` | *violation*: a login with `CheckHub` has no answer | the same |

Types are checked in one run of a module where they are cheap, and proved for
every module.

Deadlock checking is off where the model has a bound on sessions, requests or
time and really ends.

### Fairness

`CommandQueue!Fairness` is weak fairness of the goroutines of workers and
shutdown, of a handler under way, and of the reconnect (both clients are
configured to reconnect). No caller has to call and the link need not break.
A worker that waits for a token of the version 4 client waits for the
connection; that it comes back in the end is the assumption behind
`AcceptedIsHandled`, and the code has no timeout that would replace it.

`CommandRoundtrip` needs none: its run asks for safety only. That a caller is
answered is asked where there is a queue to wait in, in `command_queue`.

`Startup!Fairness` is weak fairness of `Start`, of the goroutine that listens,
and of an own MQTT client that has no connection (both clients are configured to
reconnect, and a login of the connector's own user asks nobody else,
`login.go:69`). Nothing is assumed of VerneMQ's HTTP API, which may never
answer, nor of the timer beside a webhook, which may be off (the default of
`WebhookTimeout` is 0): whether a disconnect command comes to its end is left open.

`WmbusAttributes!Fairness` says that telegrams keep coming, that a request which
is made again and again succeeds in the end (strong fairness, as a request may
fail any number of times in between), and that cache entries expire.

`WmbusTelegram!Fairness` says that the meter sends each of its telegrams again,
that handlers get on (every request is answered or fails), and that an entry of
a cache that nobody renews expires: the device type, the last telegram and the
look-up in the waiting room. Nothing is assumed of the owner, who may adopt
or dismiss the device or do neither.

`TopicDispatch!Fairness` is weak fairness of the goroutine of the one call that
is followed: every request to the platform is answered or fails, as the HTTP
and Kafka clients have timeouts. No call need come, and the hub may change
while a call runs.

## Disagreements between code and text

* `wmbus_decoded`: the loop over the keys (`nimbus.go:173`) goes on after the
  right key; a further one that is wrong replaces the decoded message by nil,
  and nil is published, although `nimbus.go:56` says that the decoded message
  is. With the right key last, or none right at all, the comment is true
  (`DecodedIsPublished`), and nil is published for no other telegrams than
  those a right key decrypts before the last key fails (`NilIsWiped`).
* `connection_unsubscribe`: a device subscribed through `$share/...` stays
  connected in the log when it unsubscribes (`unsubscribe.go:68`). The plain
  topics of a call that runs to its end, in which no topic is malformed, are
  logged as disconnected, for the devices no other hub has, unless a report
  about them failed, came late or was skipped (`PlainIsLogged`).
* `login_unanswered`: with `CheckHub`, `/login` writes nothing for a hub that
  exists (`login.go:115`), where its comment (`login.go:40`) promises an
  `OkResponse`. No other call ends without an answer (`OnlyHubsUnanswered`),
  and without `CheckHub` no login does (`LoginsAnswered`).

Four more show in the models without a run of their own. A malformed topic that
begins with `command` ends the unsubscription (`unsubscribe.go:74`;
`UnsubscribeStops` in `ConnectionLog`), so that the topics behind it stay
connected in the log although the broker has dropped them, against the same
comment (`unsubscribe.go:35`). And one topic of several is enough to log its
device as disconnected (`unsubscribe.go:67-88`; `ForgetTopic`), although
commands to its other services still reach it. The repository's test client
subscribes and unsubscribes service by service (`src/test/client/mqtt.go:64`);
no text says what the log should then show. The time of a health
message is read after two remote calls (`health/handler.go:162`; `stamp` in
`HealthHandler`), while `docs/health-reports.md:50` calls it the receive time.
The get and the set of a receiver's entry (`nimbus.go:296`, `:304`; `CheckSeen`
and `MarkSeen` in `WmbusAttributes`) are two steps, so that two overlapping
telegrams are both recorded, while the comment at `nimbus.go:289` promises one
write per interval.

## Proofs

All theorems are proved without assumptions other than the named ones about the
constants; two state a further one themselves. `IntakeImplemented` is about the
queued handler (`Queued`). `DecodedIsPublished` says where a comment that a run
refutes is true after all, so that its assumption excludes what that run shows.
`SettledTypeStays` speaks of a telegram that has more fields than any other kind
(`Richer`, a part of `RichTypeStays`), as there is one in the run and mostly at a
meter; the case without is among the limits below.

* `CommandQueue_proofs`. `TypeCorrect` needs facts about `Append` and `Tail`,
  stated as lemmas. `PlacementCorrect` proves `EachCommandInOnePlace` and
  (in `BlocksOnlyWhenFull`) `BlockedOnlyWhileFull` with an inductive invariant that adds what a command's
  step and its caller's state have to do with each other. `DeliveryCorrect`
  does the same for nil, and on the way for two facts no run needs to check:
  the correlation is stored before any copy is published
  (`CorrelationBeforePublish`), and the legacy topic comes after the owner's
  (`LegacyAfterOwner`). `NeverHandledTwice`
  is an action property that follows from the placement. `IntakeImplemented`
  maps every step to one of `CommandIntake` or to none.
* `CommandRoundtrip_proofs`. `RoundtripRunsQueue`: the composition adds no
  behaviour to `CommandQueue`, so that its theorems hold here as well. The
  inductive invariant `RoundtripInv` says that what was saved is an entry or
  has expired, and that only a delivered copy is answered; with
  `CorrelationBeforePublish` an answer that is looked up and misses its
  correlation is one whose correlation expired (`KnownUnlessExpired`). `RoundtripKeepsPromises` states once more, of
  the composition, what the command handler promises.
* `Startup_proofs`. For the command, `HeldInv` follows the user's sessions
  from the call to its end: while the command waits they are the user's if they
  exist at all, while it disconnects they are among the rest of its list,
  as a number is never used again. `ListedInv` says of the rest of the list
  where it came from. `CommandRunsOut`: a step of the command leaves fewer stages
  before it or, among those that disconnect, fewer clients, and neither another
  command nor a client that returns puts it back. There may be infinitely many
  client ids; `FiniteInv` says that those with a session are finitely many.
  `StartupRunsCommand` shows that `Startup` adds no
  behaviour to `DisconnectCommand`, which carries both over
  (`CommandsBesideStart`). For the start,
  `BootInv` and `ClientsInv` (together `StartInv`) say that the attempt that is
  waited for runs and has no session, and that with version 4 it is the only one
  that runs or has one; the server listens from the first login on.
  `StartRunsOut` counts the steps `Start` can still take, three for each
  attempt that is left: each of its steps lowers the number, and no login,
  webhook or lost session raises it.
* `HealthHandler_proofs`. The inductive invariant adds to the properties what
  holds of a request at each of its lines: which clock readings and which
  answer it has, and that what another request confirmed stays confirmed.
  `EvictionMakesRoom` needs no more than the bound of the cache: a key that the
  pruning has just removed leaves room for its own renewal, so that nothing
  valid is evicted for it, although the key is looked for too late
  (`cache.go:63-74`).
* `WmbusAttributes_proofs`. The inductive invariant says that a handler in the
  middle of recording has a receiver with an id, that the legacy origins a
  handler read are among those stored when its telegram came, and that the
  status it writes is known. From it each action property follows case by case
  over the four writes. `ConvergedStays` is about what the run `wmbus_key_ok`
  finds to come about: `Converged` says that the stored `wmbus/key-ok` is right
  and that no cached device and no handler contradicts it. Only an edit
  of the owner ends that, whatever fails, is carried out although it fails, or
  expires.
* `WmbusTelegram_proofs`. `DecodedInv` follows
  what a handler has decoded through the loop over the keys; `NilIsWiped` and
  `DecodedIsPublished` come from it. `SettledTypeStays`: once the type of the
  richest telegram is stored, no older one is cached and no handler holds
  another, that is so for good, field by field. The reason is that the richest
  type needs no update by any telegram (`RichestNeedsNoUpdate`), so that only a
  handler that has read another type writes, and there is none.
* `ConnectionLog_proofs`. `LogMatchesBroker` alone says nothing of calls that
  are still running. The inductive invariant adds three groups. `CallInv`: a
  call that is alone is the only one of its client, and the broker waits for
  one at a time. `BrokerInv`: while a call is alone or waited for, its client
  keeps (or misses) its session; a client without a session has no
  subscription; topics subscribed to, and those a subscription has got past,
  are allowed; the devices of an undisturbed unsubscription are among those
  dropped. `Granting`:
  what a subscription has reported stands, or is suspected, until the broker
  grants it. The log is then followed entry by entry (`HubEntry`,
  `DeviceEntry`): a step reports about an entry, makes a call with a report
  open about it, puts it under suspicion, or leaves it alone. `Forgetting` says
  of an unsubscription that its plain topics are logged, suspected or still on
  its list; `PlainIsLogged` comes from it.
* `TopicDispatch_proofs`. The allowances (`MayAct`, `MaySubscribe`) speak of a
  topic and its user, the code of handlers and stages. The inductive invariant
  connects them: a topic that is held for the hub check, the existence check or
  the action was claimed by its handler, is well-formed and has passed the
  checks before that stage (`StageInv`); a message is one topic that only the
  answer settles, and nothing is produced before the answer (`CallInv`). The
  results of a handler are four lemmas (`Replied`, `Settled`, `PassedOn`,
  `Proceeded`), to which each action is reduced. A second invariant,
  `SubscriptionInv`, says that the topics granted, refused and still to do are
  those asked for; from it every topic is answered (`TopicsAreAnswered`), and a
  refusal spares the other topics (`OthersAreRefusedAlone`). `AnswerInv` says
  which calls may end without an answer. `CallsComeToAnEnd` counts the topics
  still to do and, for the one under way, the handlers and stages ahead of it:
  each step of the call lowers the number.

Model-checked only are the liveness properties and the fairness part of the
refinement, as the proof system has no rules for `ENABLED`. Every invariant and
action property of a passing run is a theorem. Of four liveness properties the
part that is no matter of fairness is proved as well: `CallsComeToAnEnd` and
`StartRunsOut` are the variants of `EveryCallIsAnswered` and `StartEnds`, which
leave to TLC that some step is always enabled until the end is reached;
`ConvergedStays` and `SettledTypeStays` say that what `KeyOkSettles` and
`DeviceTypeSettles` find to be reached is not lost again.

## Limits

* The run of `WmbusTelegram` has telegrams of which one carries all fields. Two
  telegrams with equally many but different fields replace each other's device
  type for ever (`nimbus.go:505`), and of two with different numbers the larger
  type wins whatever the fields are; nothing says what should happen then.
* `LogMatchesBroker` says what the code does when a hub leaves one of several
  topics of a device: the log shows it as disconnected until the hub
  subscribes to one of its topics again. It speaks of devices that belong to
  one hub and that nobody shares through `$share`; of a device that two hubs
  have, the last report wins.
* `LogMatchesBroker` and `PlainUnsubscribed` say nothing of an entry in
  `suspect`. So they leave open what an entry is worth after a report of its
  own that failed (also one of a topic that was accepted all the same,
  `command/handler.go`), after the hub's own report failed on disconnect and
  none of its devices was reported, after a subscription that was refused when
  some of its topics had been reported, for the topics behind a malformed one,
  after a call that overlapped another of its client, and after a report by a
  client that is not the device's hub. What they do say is that none of these
  makes any other entry wrong, and that the next report of the hub that is not
  disturbed makes the entry right again.
* `TopicDispatch` follows one call: calls share only what the platform and its
  caches hold, and a cache there is one of the answers the platform may give.
  What a user may use does not change during a call (only the devices of the
  hub do), so that a cached access that was withdrawn is not noticed.
  User names and user ids are not told apart (`errormessage/handler.go:79`
  hands the id to a function that expects the name, which then fails; the
  message is taken either way). That an answer to a subscription lists refused
  topics behind granted ones (`webhooks.go:100`) is not modelled, as both are
  sets.
* `CommandRoundtrip` has no two commands with one correlation id (the
  library's correlation service makes a new one with every `Save`), and says nothing of what the platform
  does with a second answer: the correlation stays when it is read
  (`response/handler.go:91`), so that a repeated answer is forwarded again.
* `DisconnectCommand` leaves out that the closure of the delay and the handler
  assign the same `err` (`disconnectcmd.go:71`, `:83`): the race reaches only
  what is logged. A command whose request fails has told its caller ok all the
  same (`disconnectcmd.go:97`); `OkEndsSessions` therefore speaks of commands
  in which none failed. The model has no durations: an ok may be lost at any
  time, as the server's `WriteTimeout` of 10 s (`webhooks.go:205`) loses one
  that comes later, and the timer beside a webhook (`WebhookTimeout`, 0 by
  default, which is off) may end the process at any time when it is on. That a
  caller is answered is therefore not claimed. `OthersAreSpared` permits what
  the list by client id cannot prevent: a session that another user opened
  under a listed client id before its turn came is ended as well.
* `Startup` is one instance of the connector. While a second one listens, a
  login may go through that one, and `ConsumesBehindServer` says nothing of the
  broker. A login of the version 4 client whose answer is lost leaves a session
  that the broker ends by itself; this is not modelled. The webhooks that
  `Startup` serves are the login of its own clients and `/disconnect-command`.
* A crash of the connector is an action of `ConnectionLog`. In `CommandQueue`
  and `Startup` it ends everything there is, and the Kafka consumer decides what comes again.
  The cache of `HealthHandler` lives in the process and begins anew, as in its
  `Init`; the notes of the wireless M-Bus models are in memcached and survive,
  and a handler that ends in the middle is one whose next request fails.

## Plan

1. `CommandQueue`, `CommandIntake` - done, proved.
2. `HealthHandler` - done, proved.
3. `WmbusAttributes` - done, proved.
4. `ConnectionLog` - done, proved.
5. `WmbusTelegram` - done, proved.
6. `TopicDispatch` - done, proved.
7. `CommandRoundtrip` - done, proved.
8. `DisconnectCommand` - done, proved as part of `Startup`.
9. `Startup` - done, proved.
10. To prove: that `TopicDispatch` implements a gate which knows no handlers,
    and that nobody gets ahead of a caller who waits in `CommandQueue`, stated
    of the channel and not of the intake it implements.
11. To model: two instances of the connector that share a broker, for the
    login of one through the webhook of the other (9), and two kinds of
    telegram of which neither carries all fields, once the code says what the
    device type should then be (`nimbus.go:505`).

Not modelled and not planned: configuration, metrics, API documentation, TLS
and string helpers (pure input and output), and the insides of the external
services: VerneMQ, Kafka, memcached, Keycloak, device manager and repository.
