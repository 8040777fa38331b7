---------------------------- MODULE ConnectionLog ----------------------------
(***************************************************************************)
(* The connection log of hubs and devices, kept by the webhooks /online,   *)
(* /subscribe, /unsubscribe and /disconnect: lib/webhooks/vernemqtt and    *)
(* lib/handler/command.                                                    *)
(*                                                                         *)
(* The broker calls the webhooks of one client one after the other, and    *)
(* goes on when an answer takes too long although the handler still runs;  *)
(* the calls of different clients overlap anyway.  Every request to the    *)
(* user management, the device repository or the log may fail, and the     *)
(* connector may exit in the middle of its calls.                          *)
(*                                                                         *)
(* An operator marked as a fault is no part of the specification: it is    *)
(* the mistaken form of the definition that follows it, with which a run   *)
(* shows that its property would notice the mistake.                       *)
(***************************************************************************)
EXTENDS Integers, FiniteSets

CONSTANTS
  Clients,      \* client ids
  Hubs,         \* those that are the id of a hub
  Devices,
  DevicesOf,    \* the devices of a hub; none for other clients
  Access,       \* the devices the user of a client may use
  CheckHub,     \* config.CheckHub
  Topics,       \* command topics <<kind, d, rest>>, many for a device d: its
                \* services, the wildcard, the form with the owner
  Refused,      \* the topics of a client that have another form or owner than
                \* the configuration asks for
  Calls,        \* concurrent webhook calls
  MaxSessions,  \* bound: how many sessions are begun
  MaxRequests,  \* bound: how many SUBSCRIBE and UNSUBSCRIBE are sent
  MaxTopics,    \* bound: topics of such a request
  MaxFaults     \* bound: how often a report fails, the broker gives up or the connector exits

(* "plain": command/...; "shared": $share/group/command/...; "malformed":  *)
(* begins with "command", but has not the three or four parts of a command *)
(* topic, and speaks of no device.                                         *)
Kinds == {"plain", "shared", "malformed"}

DeviceOf(topic) == topic[2]

DevicesIn(ts) == {DeviceOf(t) : t \in {u \in ts : u[1] # "malformed"}}

(* /unsubscribe looks only at topics that begin with "command", and leaves *)
(* out those of devices the user cannot use.                               *)
LeftTopics(c, ts) == {t \in ts : t[1] = "plain" /\ DeviceOf(t) \in Access[c]}

ASSUME LogAssumption ==
  /\ Hubs \subseteq Clients
  /\ Clients \cap Devices = {}
  /\ DevicesOf \in [Clients -> SUBSET Devices]
  /\ Access \in [Clients -> SUBSET Devices]
  /\ CheckHub \in BOOLEAN
  /\ \A t \in Topics : t[1] \in Kinds /\ DeviceOf(t) \in Devices
  /\ Refused \in [Clients -> SUBSET Topics]
  /\ MaxSessions \in Nat /\ MaxRequests \in Nat
  /\ MaxTopics \in Nat /\ MaxFaults \in Nat

VARIABLES
  connected,  \* the broker has a session of the client
  subs,       \* the topics the broker has subscribed the client to
  hubLog,     \* what the log says of a client
  deviceLog,  \* what the log says of a device
  hook,       \* the webhook of a call
  client,     \* the client it is about
  topics,     \* the topics of the request
  todo,       \* the topics or devices the handler has not come to yet
  waiting,    \* the broker waits for the answer
  alone,      \* history: no other call of the client ran meanwhile
  suspect,    \* history: a report about it failed, was late, was skipped or
              \* came from a client it does not belong to
  dropped,    \* history: the devices of which a client has unsubscribed from a
              \* plain topic since it last subscribed to one
  sessions, requests, faults

brokerVars == <<connected, subs, dropped>>
logVars == <<hubLog, deviceLog, suspect>>
callVars == <<hook, client, topics, todo, waiting, alone>>
boundVars == <<sessions, requests, faults>>
vars == <<brokerVars, logVars, callVars, boundVars>>

-----------------------------------------------------------------------------
(* The form and the owner of the topic, CheckHub, and the look-up of the   *)
(* device with the user's token.                                           *)
Allowed(c, t) ==
  /\ t[1] # "malformed"
  /\ t \notin Refused[c]
  /\ CheckHub => c \in Hubs /\ DeviceOf(t) \in DevicesOf[c]
  /\ DeviceOf(t) \in Access[c]

Hooks == {"none", "online", "subscribe", "unsubscribe", "disconnect", "devices"}

Running(k) == hook[k] # "none"
RunningOf(c) == {k \in Calls : Running(k) /\ client[k] = c}
BrokerWaits(c) == \E k \in RunningOf(c) : waiting[k]

TypeOK ==
  /\ connected \in [Clients -> BOOLEAN]
  /\ subs \in [Clients -> SUBSET Topics]
  /\ hubLog \in [Clients -> {"on", "off"}]
  /\ deviceLog \in [Devices -> {"on", "off"}]
  /\ suspect \subseteq Clients \cup Devices
  /\ dropped \in [Clients -> SUBSET Devices]
  /\ hook \in [Calls -> Hooks]
  /\ client \in [Calls -> Clients]
  /\ topics \in [Calls -> SUBSET Topics]
  /\ todo \in [Calls -> SUBSET (Topics \cup Devices)]
  /\ waiting \in [Calls -> BOOLEAN]
  /\ alone \in [Calls -> BOOLEAN]
  /\ sessions \in 0..MaxSessions
  /\ requests \in 0..MaxRequests
  /\ faults \in 0..MaxFaults

Init ==
  /\ connected = [c \in Clients |-> FALSE]
  /\ subs = [c \in Clients |-> {}]
  /\ hubLog = [c \in Clients |-> "off"]
  /\ deviceLog = [d \in Devices |-> "off"]
  /\ suspect = {}
  /\ dropped = [c \in Clients |-> {}]
  /\ hook = [k \in Calls |-> "none"]
  /\ client \in [Calls -> Clients]
  /\ topics = [k \in Calls |-> {}]
  /\ todo = [k \in Calls |-> {}]
  /\ waiting = [k \in Calls |-> FALSE]
  /\ alone = [k \in Calls |-> FALSE]
  /\ sessions = 0 /\ requests = 0 /\ faults = 0

-----------------------------------------------------------------------------
(* The broker and its clients. *)

(* The broker calls a webhook; calls of the client it gave up may still run. *)
Call(k, c, name, ts, left) ==
  /\ ~Running(k)
  /\ ~BrokerWaits(c)
  /\ hook' = [hook EXCEPT ![k] = name]
  /\ client' = [client EXCEPT ![k] = c]
  /\ topics' = [topics EXCEPT ![k] = ts]
  /\ todo' = [todo EXCEPT ![k] = left]
  /\ waiting' = [waiting EXCEPT ![k] = TRUE]
  /\ alone' = [q \in Calls |->
                 IF q = k THEN RunningOf(c) = {}
                 ELSE alone[q] /\ q \notin RunningOf(c)]

Connect(k, c) ==
  /\ ~connected[c]
  /\ sessions < MaxSessions
  /\ sessions' = sessions + 1
  /\ connected' = [connected EXCEPT ![c] = TRUE]
  /\ Call(k, c, "online", {}, {})
  /\ UNCHANGED <<subs, dropped, logVars, requests, faults>>

Offline(k, c) ==
  /\ connected[c]
  /\ connected' = [connected EXCEPT ![c] = FALSE]
  /\ subs' = [subs EXCEPT ![c] = {}]
  /\ Call(k, c, "disconnect", {}, {})
  /\ UNCHANGED <<dropped, logVars, boundVars>>

Request(c, ts) ==
  /\ connected[c]
  /\ requests < MaxRequests
  /\ requests' = requests + 1
  /\ ts # {} /\ Cardinality(ts) <= MaxTopics

Subscribe(k, c, ts) ==
  /\ Request(c, ts)
  /\ Call(k, c, "subscribe", ts, ts)
  /\ UNCHANGED <<brokerVars, logVars, sessions, faults>>

(* A client may unsubscribe from what it has never subscribed to. *)
Unsubscribe(k, c, ts) ==
  /\ Request(c, ts)
  /\ subs' = [subs EXCEPT ![c] = @ \ ts]
  /\ dropped' = [dropped EXCEPT ![c] = @ \cup DevicesIn(LeftTopics(c, ts))]
  /\ Call(k, c, "unsubscribe", ts, ts)
  /\ UNCHANGED <<connected, logVars, sessions, faults>>

(* The answer takes too long: the broker refuses a subscription and goes on *)
(* otherwise.                                                               *)
GiveUp(k) ==
  /\ Running(k) /\ waiting[k]
  /\ faults < MaxFaults
  /\ faults' = faults + 1
  /\ waiting' = [waiting EXCEPT ![k] = FALSE]
  /\ alone' = [alone EXCEPT ![k] = @ /\ hook[k] # "subscribe"]
  /\ suspect' = suspect \cup (IF hook[k] = "subscribe" THEN DevicesIn(topics[k]) ELSE {})
  /\ UNCHANGED <<brokerVars, hubLog, deviceLog, hook, client, topics, todo, sessions, requests>>

-----------------------------------------------------------------------------
(* Reports to the log. *)

Done(k) ==
  /\ hook' = [hook EXCEPT ![k] = "none"]
  /\ topics' = [topics EXCEPT ![k] = {}]
  /\ todo' = [todo EXCEPT ![k] = {}]
  /\ waiting' = [waiting EXCEPT ![k] = FALSE]
  /\ alone' = [alone EXCEPT ![k] = FALSE]
  /\ UNCHANGED client

Goes(k, name, left) ==
  /\ hook' = [hook EXCEPT ![k] = name]
  /\ todo' = [todo EXCEPT ![k] = left]
  /\ UNCHANGED <<client, topics, waiting, alone>>

(* A report about a hub or a device of the hub settles what the log says,  *)
(* unless another call of the client reports about the same thing.         *)
Settles(k, x) == alone[k] /\ (x = client[k] \/ x \in DevicesOf[client[k]])

Settle(k, x) == suspect' = IF Settles(k, x) THEN suspect \ {x} ELSE suspect \cup {x}

ReportHub(k, status) ==
  /\ hubLog' = [hubLog EXCEPT ![client[k]] = status]
  /\ Settle(k, client[k])
  /\ UNCHANGED <<deviceLog, faults>>

ReportDevice(k, d, status) ==
  /\ deviceLog' = [deviceLog EXCEPT ![d] = status]
  /\ Settle(k, d)
  /\ UNCHANGED <<hubLog, faults>>

(* Reports that fail or are not made; a failed one may have arrived. *)
Fault(xs) ==
  /\ faults < MaxFaults
  /\ faults' = faults + 1
  /\ suspect' = suspect \cup xs

HubFault(k, status, xs) ==
  /\ Fault(xs)
  /\ hubLog' \in {hubLog, [hubLog EXCEPT ![client[k]] = status]}
  /\ UNCHANGED deviceLog

DeviceFault(d, status) ==
  /\ Fault({d})
  /\ deviceLog' \in {deviceLog, [deviceLog EXCEPT ![d] = status]}
  /\ UNCHANGED hubLog

-----------------------------------------------------------------------------
(* The handlers. *)

(* online: the log takes hubs only; whatever fails is logged only. *)
Online(k) ==
  /\ hook[k] = "online"
  /\ \/ client[k] \in Hubs /\ ReportHub(k, "on")
     \/ client[k] \in Hubs /\ HubFault(k, "on", {client[k]})
     \/ client[k] \notin Hubs /\ UNCHANGED <<logVars, faults>>
  /\ Done(k)
  /\ UNCHANGED <<brokerVars, sessions, requests>>

(* subscribe: the command handler accepts a topic even if its report fails. *)
AcceptTopic(k, t) ==
  /\ hook[k] = "subscribe" /\ t \in todo[k]
  /\ Allowed(client[k], t)
  /\ \/ ReportDevice(k, DeviceOf(t), "on")
     \/ DeviceFault(DeviceOf(t), "on")
  /\ Goes(k, "subscribe", todo[k] \ {t})
  /\ UNCHANGED <<brokerVars, sessions, requests>>

(* HandleTopicSubscribe turns a rejection with an error into an error, and *)
(* that ends the request: the broker subscribes none of its topics, those  *)
(* included whose devices are in the log as connected by now.              *)
RefuseRequest(k, t) ==
  /\ hook[k] = "subscribe" /\ t \in todo[k]
  /\ \/ ~Allowed(client[k], t) /\ UNCHANGED faults
     \/ faults < MaxFaults /\ faults' = faults + 1
  /\ suspect' = suspect \cup DevicesIn(topics[k] \ todo[k])
  /\ Done(k)
  /\ UNCHANGED <<brokerVars, hubLog, deviceLog, sessions, requests>>

GrantRequest(k) ==
  /\ hook[k] = "subscribe" /\ todo[k] = {}
  /\ IF waiting[k]
     THEN /\ subs' = [subs EXCEPT ![client[k]] = @ \cup topics[k]]
          /\ dropped' = [dropped EXCEPT ![client[k]] = @ \ DevicesIn(topics[k])]
     ELSE UNCHANGED <<subs, dropped>>
  /\ Done(k)
  /\ UNCHANGED <<connected, logVars, boundVars>>

(* Fault: the first report that fails ends the handler. *)
ForgetTopicOrStop(k, t) ==
  /\ hook[k] = "unsubscribe" /\ t \in todo[k]
  /\ t[1] # "malformed"
  /\ IF t \in LeftTopics(client[k], todo[k])
     THEN \/ ReportDevice(k, DeviceOf(t), "off") /\ Goes(k, "unsubscribe", todo[k] \ {t})
          \/ DeviceFault(DeviceOf(t), "off") /\ Goes(k, "unsubscribe", {})
     ELSE UNCHANGED <<logVars, faults>> /\ Goes(k, "unsubscribe", todo[k] \ {t})
  /\ UNCHANGED <<brokerVars, sessions, requests>>

(* One topic is enough to log its device as disconnected, whatever others  *)
(* of it the client keeps.                                                 *)
ForgetTopic(k, t) ==
  /\ hook[k] = "unsubscribe" /\ t \in todo[k]
  /\ t[1] # "malformed"
  /\ IF t \in LeftTopics(client[k], todo[k])
     THEN ReportDevice(k, DeviceOf(t), "off") \/ DeviceFault(DeviceOf(t), "off")
     ELSE UNCHANGED <<logVars, faults>>
  /\ Goes(k, "unsubscribe", todo[k] \ {t})
  /\ UNCHANGED <<brokerVars, sessions, requests>>

(* A topic that cannot be parsed ends the handler: the topics after it are *)
(* not reported.                                                           *)
UnsubscribeStops(k, t) ==
  /\ hook[k] = "unsubscribe" /\ t \in todo[k]
  /\ t[1] = "malformed"
  /\ suspect' = suspect \cup DevicesIn(LeftTopics(client[k], todo[k]))
  /\ Done(k)
  /\ UNCHANGED <<brokerVars, hubLog, deviceLog, boundVars>>

(* Without a token of the user nothing is reported. *)
UnsubscribeFails(k) ==
  /\ hook[k] = "unsubscribe" /\ todo[k] = topics[k]
  /\ Fault(DevicesIn(LeftTopics(client[k], todo[k])))
  /\ Done(k)
  /\ UNCHANGED <<brokerVars, hubLog, deviceLog, sessions, requests>>

(* disconnect: without the hub or its report no device is reported. *)
DisconnectHub(k) ==
  /\ hook[k] = "disconnect"
  /\ \/ /\ client[k] \in Hubs
        /\ ReportHub(k, "off")
        /\ Goes(k, "devices", DevicesOf[client[k]])
     \/ /\ client[k] \in Hubs
        /\ HubFault(k, "off", {client[k]} \cup DevicesOf[client[k]])
        /\ Done(k)
     \/ /\ client[k] \notin Hubs
        /\ UNCHANGED <<logVars, faults>>
        /\ Done(k)
  /\ UNCHANGED <<brokerVars, sessions, requests>>

(* Fault: the first device that fails ends the handler. *)
DisconnectDeviceOrStop(k, d) ==
  /\ hook[k] = "devices" /\ d \in todo[k]
  /\ \/ ReportDevice(k, d, "off") /\ Goes(k, "devices", todo[k] \ {d})
     \/ DeviceFault(d, "off") /\ Goes(k, "devices", {})
  /\ UNCHANGED <<brokerVars, sessions, requests>>

DisconnectDevice(k, d) ==
  /\ hook[k] = "devices" /\ d \in todo[k]
  /\ \/ ReportDevice(k, d, "off")
     \/ DeviceFault(d, "off")
  /\ Goes(k, "devices", todo[k] \ {d})
  /\ UNCHANGED <<brokerVars, sessions, requests>>

Answer(k) ==
  /\ hook[k] \in {"unsubscribe", "devices"} /\ todo[k] = {}
  /\ Done(k)
  /\ UNCHANGED <<brokerVars, logVars, boundVars>>

-----------------------------------------------------------------------------
(* What a call would still have reported, or has to take back. *)
Unreported(k) ==
  {x \in Clients \cup Devices :
     \/ hook[k] \in {"online", "disconnect"} /\ x = client[k]
     \/ hook[k] = "disconnect" /\ x \in DevicesOf[client[k]]
     \/ hook[k] = "devices" /\ x \in todo[k]
     \/ hook[k] = "subscribe" /\ x \in DevicesIn(topics[k] \ todo[k])
     \/ hook[k] = "unsubscribe" /\ x \in DevicesIn(LeftTopics(client[k], todo[k]))}

(* The connector exits, as a webhook timeout makes it do, and starts again. *)
Exit ==
  /\ \E k \in Calls : Running(k)
  /\ Fault(UNION {Unreported(k) : k \in Calls})
  /\ hook' = [k \in Calls |-> "none"]
  /\ topics' = [k \in Calls |-> {}]
  /\ todo' = [k \in Calls |-> {}]
  /\ waiting' = [k \in Calls |-> FALSE]
  /\ alone' = [k \in Calls |-> FALSE]
  /\ UNCHANGED <<brokerVars, hubLog, deviceLog, client, sessions, requests>>

-----------------------------------------------------------------------------
Broker(k) ==
  \/ GiveUp(k)
  \/ \E c \in Clients :
       \/ Connect(k, c) \/ Offline(k, c)
       \/ \E ts \in SUBSET Topics : Subscribe(k, c, ts) \/ Unsubscribe(k, c, ts)

Handler(k) ==
  \/ Online(k)
  \/ GrantRequest(k) \/ UnsubscribeFails(k)
  \/ DisconnectHub(k)
  \/ Answer(k)
  \/ \E t \in todo[k] :
       \/ AcceptTopic(k, t) \/ RefuseRequest(k, t)
       \/ ForgetTopic(k, t) \/ UnsubscribeStops(k, t)
       \/ DisconnectDevice(k, t)

Next == Exit \/ \E k \in Calls : Broker(k) \/ Handler(k)

Spec == Init /\ [][Next]_vars

-----------------------------------------------------------------------------
(* Some call of the client has yet to report about it. *)
Open(c, x) == \E k \in RunningOf(c) : x \in Unreported(k)

(* The device belongs to no other hub. *)
OwnDevice(c, d) == d \in DevicesOf[c] /\ \A e \in Clients \ {c} : d \notin DevicesOf[e]

(* Nobody shares the commands of the device. *)
Unshared(d) == \A t \in Topics : t[1] = "shared" => DeviceOf(t) # d

SubscribedTo(c, d) == d \in DevicesIn(subs[c])

(* online.go:33, subscribe.go, unsubscribe.go:35 and disconnect.go:37: once *)
(* the webhooks of a hub have reported, the log shows what the broker       *)
(* knows.  The hub is on while it has a session.  A device is on while the  *)
(* hub is subscribed to its commands and has not unsubscribed from any of   *)
(* its topics since it last subscribed to one: the log follows the last     *)
(* request, a device from which one of two topics is left is off.  A        *)
(* failed, late, abandoned, refused or foreign report leaves no other entry *)
(* wrong than its own, and the next undisturbed one puts it right.          *)
LogMatchesBroker ==
  \A c \in Hubs :
    /\ c \notin suspect /\ ~Open(c, c) => (hubLog[c] = "on" <=> connected[c])
    /\ \A d \in DevicesOf[c] \ suspect :
         OwnDevice(c, d) /\ Unshared(d) /\ ~Open(c, d) =>
           (deviceLog[d] = "on" <=> SubscribedTo(c, d) /\ d \notin dropped[c])

(* unsubscribe.go:35: the webhook logs the device as disconnected, here one *)
(* of which the client keeps no other topic.  The topic of a shared         *)
(* subscription does not begin with "command", though the subscription      *)
(* logged the device as connected.                                          *)
UnsubscribeLogsDisconnected ==
  [][\A k \in Calls :
       Answer(k) /\ hook[k] = "unsubscribe" =>
         \A t \in topics[k] :
           \/ SubscribedTo(client[k], DeviceOf(t))
           \/ DeviceOf(t) \in suspect
           \/ deviceLog[DeviceOf(t)] = "off"]_vars

(* unsubscribe.go:35-88: the same of what the webhook looks at.  A call     *)
(* about plain and shared topics that ends of itself has logged every       *)
(* device of the hub among the plain ones as disconnected, whatever other   *)
(* calls, failed reports and other topics came between.  One malformed      *)
(* topic is enough to make it end before.                                   *)
PlainUnsubscribed ==
  [][\A k \in Calls :
       /\ hook[k] = "unsubscribe" /\ hook'[k] = "none" /\ faults' = faults
       /\ \A t \in topics[k] : t[1] # "malformed"
       => \A t \in LeftTopics(client[k], topics[k]) :
            OwnDevice(client[k], DeviceOf(t)) =>
              DeviceOf(t) \in suspect' \/ deviceLog'[DeviceOf(t)] = "off"]_vars
=============================================================================
