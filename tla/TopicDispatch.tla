---------------------------- MODULE TopicDispatch ----------------------------
(***************************************************************************)
(* The webhooks /publish, /subscribe and /login: lib/webhooks/vernemqtt    *)
(* and the handlers of lib/handler, which lib/lib.go puts into a list.  A  *)
(* message, or each topic of a subscription, is offered to one handler     *)
(* after the other until one does not answer Unhandled.                    *)
(*                                                                         *)
(* Calls share nothing but the platform, so the module follows one call at *)
(* a time, while others change which devices belong to a hub.  Every       *)
(* request to the platform may fail.  The optional handlers, fog and       *)
(* health, are configured.  What subscriptions do to the connection log is *)
(* in ConnectionLog, the handler of health reports in HealthHandler, that  *)
(* of telegrams in WmbusTelegram.                                          *)
(*                                                                         *)
(* An operator marked as a fault is no part of the specification: it is    *)
(* the mistaken form of the definition that follows it, with which a run   *)
(* shows that its property would notice the mistake.                       *)
(***************************************************************************)
EXTENDS Naturals, Sequences

CONSTANTS
  Clients,     \* client ids; each may be the id of a hub
  Users,
  UserOf,      \* the user a client logs in as
  OwnUser,     \* the user of the connector itself
  Admins,
  NoUser,      \* a topic without an owner
  Devices,
  Access,      \* the devices a user may use
  HubAccess,   \* the hubs a user may use
  Placeholder, \* the hub id + or # in a topic of processes
  Published,   \* topics of messages, see TopicType
  Subscribed   \* lists of topics of subscriptions

Kinds == {"event", "response", "command", "processes", "export", "notifications",
          "error", "fog", "upstream", "health", "other"}

(* A topic: the prefix it begins with; its owner, device or hub; whether   *)
(* it has as many parts as the handler wants, one only, others, or a       *)
(* longer first part (eventhandling/foo/bar); its service.                 *)
TopicType == [kind : Kinds, owner : Users \cup {NoUser},
              target : Devices \cup Clients \cup {Placeholder},
              parts : {"right", "one", "wrong", "long"},
              service : {"known", "unknown", "+"}]

ASSUME DispatchAssumption ==
  /\ UserOf \in [Clients -> Users]
  /\ Admins \subseteq Users
  /\ NoUser \notin Users
  /\ Access \in [Users -> SUBSET Devices]
  /\ HubAccess \in [Users -> SUBSET Clients]
  /\ Placeholder \notin Clients
  /\ Published \subseteq TopicType
  /\ Subscribed \subseteq Seq(TopicType)

VARIABLES
  config,   \* the configuration, which never changes
  hook,     \* the webhook that is called
  client,   \* the client it is called for
  asked,    \* the topics of the call
  todo,     \* those that are not settled yet; the first one is under way
  payload,  \* the payload of a message can be read
  assigned, \* the devices of the hub the client is, as the platform has them
  at,       \* the place in the list of handlers
  phase,    \* how far the handler is
  granted, refused, \* topics of a subscription that are settled
  produced, \* the message was handed to the platform
  answer,   \* the answer to the broker
  failed,   \* history: a request of the call failed
  seen      \* history: devices that belonged to the hub during the call

callVars == <<config, hook, client, asked, payload>>
settledVars == <<granted, refused, answer, todo>>
vars == <<callVars, settledVars, assigned, at, phase, produced, failed, seen>>

-----------------------------------------------------------------------------
(* The list of lib.go, with the optional handlers. *)
Handlers == <<"event", "response", "command", "processes", "export",
              "notifications", "error", "fog", "health">>

Configs == [CheckHub : BOOLEAN, ForceTopicsWithOwner : BOOLEAN,
            ForceWildcard : BOOLEAN, MqttPublishAuthOnly : BOOLEAN,
            ErrorOnValidation : BOOLEAN]

(* What each state is made of. *)
TypeOK ==
  /\ config \in Configs
  /\ hook \in {"none", "publish", "subscribe", "login"}
  /\ client \in Clients
  /\ asked \in Seq(TopicType) /\ todo \in Seq(TopicType)
  /\ payload \in BOOLEAN
  /\ assigned \subseteq Devices
  /\ at \in 1..(Len(Handlers) + 1)
  /\ phase \in {"idle", "walk", "hub", "act", "limit", "exists", "done"}
  /\ granted \subseteq TopicType /\ refused \subseteq TopicType
  /\ produced \in BOOLEAN
  /\ answer \in {"none", "ok", "redirect", "error"}
  /\ failed \in BOOLEAN
  /\ seen \subseteq Devices

Init ==
  /\ config \in Configs /\ client \in Clients
  /\ phase = "idle" /\ hook = "none"
  /\ asked = <<>> /\ todo = <<>> /\ payload = TRUE
  /\ assigned = {} /\ seen = {}
  /\ at = 1
  /\ granted = {} /\ refused = {}
  /\ produced = FALSE /\ answer = "none" /\ failed = FALSE

user == UserOf[client]
topic == Head(todo)
handler == Handlers[at]

-----------------------------------------------------------------------------
(* The broker calls a webhook. *)
Receive(name, c, ts) ==
  /\ phase = "idle"
  /\ phase' = "walk" /\ hook' = name /\ client' = c
  /\ asked' = ts /\ todo' = ts
  /\ payload' \in BOOLEAN
  /\ assigned' \in SUBSET Devices
  /\ seen' = assigned'
  /\ UNCHANGED <<config, granted, refused, produced, answer, failed, at>>

Publish(c, t) == Receive("publish", c, <<t>>)
Subscribe(c, ts) == Receive("subscribe", c, ts)
Login(c) == Receive("login", c, <<>>)

(* Others change what the hub consists of. *)
Assign(ds) ==
  /\ phase \notin {"idle", "done"}
  /\ assigned' = ds
  /\ seen' = seen \cup ds
  /\ UNCHANGED <<callVars, settledVars, at, phase, produced, failed>>

(* The call is over. *)
Return ==
  /\ phase = "done" /\ phase' = "idle" /\ hook' = "none"
  /\ asked' = <<>> /\ todo' = <<>> /\ payload' = TRUE
  /\ assigned' = {} /\ seen' = {}
  /\ at' = 1
  /\ granted' = {} /\ refused' = {}
  /\ produced' = FALSE /\ answer' = "none" /\ failed' = FALSE
  /\ UNCHANGED <<config, client>>

-----------------------------------------------------------------------------
(* What a result of a handler makes of the call. *)

Reply(text) ==
  /\ answer' = text /\ phase' = "done"
  /\ UNCHANGED <<granted, refused, todo, at>>

NextTopic ==
  /\ todo' = Tail(todo) /\ at' = 1 /\ phase' = "walk"
  /\ UNCHANGED answer

Accepted ==
  \/ hook = "publish" /\ Reply("ok")
  \/ hook = "subscribe" /\ granted' = granted \cup {topic} /\ NextTopic /\ UNCHANGED refused

(* Faults: a refused topic is left out of the answer, or becomes an error. *)
ForgottenTopic == NextTopic /\ UNCHANGED <<granted, refused>>
RefusedAsError == Reply("error")

RefusedTopic == refused' = refused \cup {topic} /\ NextTopic /\ UNCHANGED granted

(* HandleTopicSubscribe makes an error of a rejection that has one; a      *)
(* message is redirected to ignored/.                                      *)
Rejected == Reply(IF hook = "publish" THEN "redirect" ELSE "error")

Error == Reply("error")

(* Fault: a handler is passed over. *)
SkipsOne == at' = at + 2 /\ UNCHANGED <<settledVars, phase>>

Unhandled == at' = at + 1 /\ UNCHANGED <<settledVars, phase>>

Proceed(to) == phase' = to /\ UNCHANGED <<settledVars, at>>

Keeping == UNCHANGED <<callVars, assigned, seen>>
Quiet == Keeping /\ UNCHANGED <<produced, failed>>
Failing == Keeping /\ failed' = TRUE

-----------------------------------------------------------------------------
(* The request cannot be decoded. *)
Unreadable ==
  /\ phase = "walk" /\ at = 1 /\ todo = asked
  /\ Error /\ Failing /\ UNCHANGED produced

(* The connector's own client is let through; its password is compared. *)
OwnClient ==
  /\ phase = "walk" /\ user = OwnUser
  /\ Reply("ok") \/ (hook = "login" /\ Error)
  /\ Quiet

Walking == phase = "walk" /\ hook # "login" /\ user # OwnUser

AnswerSubscription ==
  /\ Walking /\ hook = "subscribe" /\ todo = <<>>
  /\ Reply("ok")
  /\ Quiet

(* Fault: a message that nobody takes is not answered. *)
NoHandlerUnanswered ==
  /\ Walking /\ todo # <<>> /\ at > Len(Handlers)
  /\ IF hook = "publish" THEN Reply("none") ELSE RefusedTopic
  /\ Quiet

(* No handler takes the topic. *)
NoHandler ==
  /\ Walking /\ todo # <<>> /\ at > Len(Handlers)
  /\ IF hook = "publish" THEN Rejected ELSE RefusedTopic
  /\ Quiet

-----------------------------------------------------------------------------
(* What the handlers make of a topic as it is written. *)

ParseTopic == {"event", "response", "command"}  \* handlers that use it

OwnerMissing(t) == config.ForceTopicsWithOwner /\ t.owner = NoUser

Ignores(h, t) ==
  \/ h # t.kind /\ ~(h = "fog" /\ t.kind = "upstream")
  \/ hook = "publish" /\ h \in {"command", "export", "notifications"}
  \/ hook = "subscribe" /\ h \in {"event", "response", "error"}
  \/ t.parts = "one" /\ h = "processes"
  \/ t.parts = "long" /\ h = "error"
  \/ t.parts = "long" /\ h \in ParseTopic /\ ~OwnerMissing(t)

Malformed(h, t) ==
  \/ h \in ParseTopic /\ (t.parts \in {"one", "wrong"} \/ OwnerMissing(t))
  \/ h = "health" /\ hook = "publish" /\ ~payload

(* These reject without an error. *)
NotForSubscribers(h, t) ==
  \/ h \in {"export", "notifications"} /\ t.parts = "one"
  \/ h = "health" /\ hook = "subscribe"

WildcardMissing(h, t) == h = "command" /\ config.ForceWildcard /\ t.service # "+"

Offered == Walking /\ todo # <<>> /\ at <= Len(Handlers)

Visit ==
  /\ Offered
  /\ \/ Ignores(handler, topic) /\ Unhandled
     \/ /\ ~Ignores(handler, topic)
        /\ \/ Malformed(handler, topic) /\ Rejected
           \/ ~Malformed(handler, topic) /\ WildcardMissing(handler, topic) /\ Error
           \/ NotForSubscribers(handler, topic) /\ RefusedTopic
           \/ handler = "fog" /\ Proceed("act")
  /\ Quiet

Asks(h, t) ==
  /\ ~Ignores(h, t) /\ ~Malformed(h, t) /\ ~WildcardMissing(h, t) /\ ~NotForSubscribers(h, t)
  /\ h # "fog"

-----------------------------------------------------------------------------
(* What they make of it with the user's token or id. *)

(* Fault: the owner in the topic is not compared. *)
OwnsAnyTopic(t) == t.owner \in Users \cup {NoUser}

OwnsTopic(t) == t.owner = NoUser \/ user \in Admins \/ t.owner = user

AskAboutDevice(t) ==
  IF ~OwnsTopic(t) THEN Rejected ELSE Proceed(IF config.CheckHub THEN "hub" ELSE "act")

(* checkTopicAccess *)
AskAboutProcesses(t) ==
  \/ (user \in Admins \/ t.target = client) /\ Accepted
  \/ user \notin Admins /\ t.target = Placeholder /\ Rejected
  \/ user \notin Admins /\ t.target \notin {client, Placeholder} /\ Proceed("exists")

AskAboutUser(t) == IF t.owner = user THEN Accepted ELSE RefusedTopic

AskAboutError(t) ==
  IF \/ t.owner \notin {NoUser, user}
     \/ t.parts = "wrong"
     \/ t.parts = "right" /\ OwnerMissing(t)
  THEN Rejected ELSE Proceed("act")

Ask ==
  /\ Offered /\ Asks(handler, topic)
  /\ \/ handler \in ParseTopic /\ AskAboutDevice(topic)
     \/ handler = "processes" /\ AskAboutProcesses(topic)
     \/ handler \in {"export", "notifications"} /\ AskAboutUser(topic)
     \/ handler = "error" /\ AskAboutError(topic)
     \/ handler = "health" /\ Proceed("exists")
  /\ Quiet

(* The handler of error messages returns Unhandled when it gets no token,  *)
(* and an error when it cannot parse it.                                   *)
AskFails ==
  /\ Offered /\ Asks(handler, topic)
  /\ Error \/ (handler = "error" /\ Unhandled)
  /\ Failing /\ UNCHANGED produced

-----------------------------------------------------------------------------
(* Hubs. *)

HubDenied == IF handler = "response" THEN Error ELSE Rejected

(* handler.CheckHub *)
CheckHub ==
  /\ phase = "hub"
  /\ IF client \in HubAccess[user] /\ topic.target \in assigned THEN Proceed("act") ELSE HubDenied
  /\ Quiet

CheckHubFails == phase = "hub" /\ HubDenied /\ Failing /\ UNCHANGED produced

(* Fault: the client is checked where the topic names a hub. *)
ClientAsHub(t) == client

HubOf(t) == IF handler = "processes" THEN t.target ELSE client

ExistsHub ==
  /\ phase = "exists" /\ hook # "login"
  /\ IF HubOf(topic) \notin HubAccess[user] THEN Rejected
     ELSE IF handler = "processes" THEN Accepted ELSE Proceed("act")
  /\ Quiet

ExistsHubFails == phase = "exists" /\ Error /\ Failing /\ UNCHANGED produced

-----------------------------------------------------------------------------
(* What is done with a topic that passed. *)

Known(t) == t.target \in Access[user] /\ t.service = "known"

(* An event is taken and dropped when nothing but the access is wanted,    *)
(* when its service is unknown, or, unless configured otherwise, when it   *)
(* does not validate.  An event of an inaccessible device is rejected, or  *)
(* answered with an error if the platform says that access was denied.     *)
ActOnEvent(t) ==
  \/ ~payload /\ Rejected /\ UNCHANGED produced
  \/ /\ payload /\ ~config.CheckHub /\ ~Known(t)
     /\ IF t.target \notin Access[user] THEN Rejected ELSE Accepted
     /\ UNCHANGED produced
  \/ /\ payload /\ config.MqttPublishAuthOnly /\ (config.CheckHub \/ Known(t))
     /\ Accepted /\ UNCHANGED produced
  \/ /\ payload /\ ~config.MqttPublishAuthOnly /\ config.CheckHub /\ ~Known(t)
     /\ Rejected \/ (t.target \notin Access[user] /\ Error)
     /\ UNCHANGED produced
  \/ /\ payload /\ ~config.MqttPublishAuthOnly /\ Known(t)
     /\ \/ Accepted /\ produced' = TRUE
        \/ (IF config.ErrorOnValidation THEN Error ELSE Accepted) /\ UNCHANGED produced

EventFails(t) ==
  /\ payload /\ ~(config.CheckHub /\ config.MqttPublishAuthOnly)
  /\ Error
  /\ produced' \in IF config.MqttPublishAuthOnly \/ ~Known(t) THEN {FALSE} ELSE BOOLEAN

(* Without a correlation, a response is taken and dropped. *)
ActOnResponse ==
  \/ config.MqttPublishAuthOnly /\ Accepted /\ UNCHANGED produced
  \/ ~config.MqttPublishAuthOnly /\ ~payload /\ Error /\ UNCHANGED produced
  \/ ~config.MqttPublishAuthOnly /\ payload /\ Accepted /\ produced' \in BOOLEAN

ResponseFails ==
  /\ ~config.MqttPublishAuthOnly /\ payload
  /\ \/ Error /\ produced' \in BOOLEAN
     \/ Accepted /\ UNCHANGED produced

ActOnCommand(t) ==
  /\ IF t.target \in Access[user] THEN Accepted ELSE Rejected
  /\ UNCHANGED produced

(* Fault: an error message that was forwarded is left to the next handler. *)
ActOnErrorUnhandled ==
  /\ at' = at + 1 /\ phase' = "walk" /\ UNCHANGED settledVars
  /\ produced' \in BOOLEAN

(* Error messages are taken whether or not they can be forwarded. *)
ActOnError == Accepted /\ produced' \in BOOLEAN

(* Only messages of upstream topics are forwarded. *)
ActOnFog(t) ==
  IF t.kind = "fog" \/ hook = "subscribe" THEN Accepted /\ UNCHANGED produced
  ELSE IF payload THEN Accepted /\ produced' = TRUE ELSE Error /\ UNCHANGED produced

Act ==
  /\ phase = "act"
  /\ \/ handler = "event" /\ ActOnEvent(topic)
     \/ handler = "response" /\ ActOnResponse
     \/ handler = "command" /\ ActOnCommand(topic)
     \/ handler = "error" /\ ActOnError
     \/ handler = "fog" /\ ActOnFog(topic)
     \/ handler = "health" /\ Accepted /\ produced' = TRUE
  /\ Keeping /\ UNCHANGED failed

ForwardFails ==
  /\ handler = "health" \/ (topic.kind = "upstream" /\ hook = "publish" /\ payload)
  /\ Error /\ produced' \in BOOLEAN

ActFails ==
  /\ phase = "act"
  /\ \/ handler = "event" /\ EventFails(topic)
     \/ handler = "response" /\ ResponseFails
     \/ handler = "command" /\ Rejected /\ UNCHANGED produced
     \/ ForwardFails
  /\ Failing

-----------------------------------------------------------------------------
(* Login: session and credentials, the limit of connections, the hub.  A   *)
(* client whose hub exists is not answered.                                *)

CheckCredentials ==
  /\ phase = "walk" /\ hook = "login" /\ user # OwnUser
  /\ Error \/ Proceed("limit")
  /\ Quiet

CredentialsFail ==
  /\ phase = "walk" /\ hook = "login" /\ user # OwnUser
  /\ Error /\ Failing /\ UNCHANGED produced

CheckLimit ==
  /\ phase = "limit"
  /\ Error \/ (IF config.CheckHub THEN Proceed("exists") ELSE Reply("ok"))
  /\ Quiet

LoginHub ==
  /\ phase = "exists" /\ hook = "login"
  /\ IF client \in HubAccess[user] THEN Reply("none") ELSE Error
  /\ Quiet

-----------------------------------------------------------------------------
Handle ==
  \/ Unreadable \/ OwnClient \/ AnswerSubscription \/ NoHandler
  \/ Visit \/ Ask \/ AskFails
  \/ CheckHub \/ CheckHubFails \/ ExistsHub \/ ExistsHubFails
  \/ Act \/ ActFails
  \/ CheckCredentials \/ CredentialsFail \/ CheckLimit \/ LoginHub

Next ==
  \/ \E c \in Clients : \/ \E t \in Published : Publish(c, t)
                        \/ \E ts \in Subscribed : Subscribe(c, ts)
                        \/ Login(c)
  \/ Handle
  \/ \E ds \in SUBSET Devices : Assign(ds)
  \/ Return

Spec == Init /\ [][Next]_vars

(* A call that has come is dealt with: every request to the platform is    *)
(* answered or fails.                                                      *)
Fairness == WF_vars(Handle)

FairSpec == Spec /\ Fairness

-----------------------------------------------------------------------------
(* Whom a topic allows, whichever handler it meets and in whatever order   *)
(* that handler checks.                                                    *)

IsOwner(t) == t.owner \in {NoUser, user} \/ (user \in Admins /\ t.kind # "error")

OfHub(t) == config.CheckHub => client \in HubAccess[user] /\ t.target \in seen

MayAct(t) ==
  \/ t.kind = "upstream" /\ payload
  \/ t.kind = "health" /\ payload /\ client \in HubAccess[user]
  \/ t.kind = "error" /\ IsOwner(t)
  \/ /\ t.kind \in {"event", "response"} /\ payload
     /\ IsOwner(t) /\ ~OwnerMissing(t) /\ OfHub(t)
     /\ ~config.MqttPublishAuthOnly
     /\ t.kind = "event" => Known(t)

MaySubscribe(t) ==
  \/ t.kind \in {"fog", "upstream"}
  \/ t.kind \in {"export", "notifications"} /\ t.owner = user
  \/ t.kind = "processes" /\ (user \in Admins \/ t.target \in HubAccess[user] \cup {client})
  \/ /\ t.kind = "command" /\ ~WildcardMissing("command", t)
     /\ IsOwner(t) /\ ~OwnerMissing(t) /\ OfHub(t)
     /\ t.target \in Access[user]

(* Nothing reaches the platform but a published message of a user whom its *)
(* topic allows; with CheckHub, of a device that belonged to the client's  *)
(* hub at some moment of the call, though it may have left it since        *)
(* (event/handler.go, response/handler.go, errormessage/handler.go,        *)
(* health/handler.go).                                                     *)
ProducedWasAllowed == produced => hook = "publish" /\ MayAct(Head(asked))

(* No topic of a subscription is granted to a user whom it does not allow  *)
(* (command/handler.go, process/handler.go, export/handler.go).            *)
GrantsWereAllowed == \A t \in granted : MaySubscribe(t)

(* A message that is redirected to ignored/ with a note to the user has    *)
(* not been handed to the platform, also when a handler before gave it up  *)
(* with an error (publish.go:86-113).                                      *)
RedirectedWasNotProduced == answer = "redirect" => ~produced

(* The answer to a subscription names every topic of the request, granted  *)
(* or refused, or is an error (subscribe.go:62-80).                        *)
EveryTopicAnswered ==
  hook = "subscribe" /\ answer = "ok" /\ user # OwnUser =>
    granted \cup refused = {asked[i] : i \in DOMAIN asked}

(* As long as no request fails, a refused topic is an error of the whole   *)
(* subscription only for commands and processes: the others are refused    *)
(* one by one, whatever stands beside them (health/handler.go:124,         *)
(* helper.go:76).                                                          *)
RefusedAlone ==
  hook = "subscribe" /\ answer = "error" /\ ~failed =>
    \E i \in DOMAIN asked : asked[i].kind \in {"command", "processes"}

(* Every call gets an answer in the end, but a login with CheckHub         *)
(* (publish.go, subscribe.go, login.go).                                   *)
EveryCallIsAnswered ==
  phase = "walk" ~>
    phase = "done" /\ (answer # "none" \/ (hook = "login" /\ config.CheckHub))

(* login.go:40-41 documents an OkResponse or an ErrorResponse for every    *)
(* login (login.go:106-116).                                               *)
LoginIsAnswered == hook = "login" /\ phase = "done" => answer # "none"
=============================================================================
