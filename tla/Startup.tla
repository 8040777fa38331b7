------------------------------ MODULE Startup ------------------------------
(***************************************************************************)
(* The start of the connector: lib.Start (lib.go), InitWebhooks            *)
(* (webhooks.go), MqttStart (mqtt.go) and main.  The webhook server and    *)
(* the MQTT clients run beside it.  The connector's own MQTT client is a   *)
(* client of the broker like others: it logs in through the connector's    *)
(* own webhook, its session is listed and ended by /disconnect-command     *)
(* when that names the connector's user, and it connects again by itself.  *)
(*                                                                         *)
(* There is one instance of the connector.  Before the server listens the  *)
(* broker gets no answer from a webhook, so nobody can log in.             *)
(***************************************************************************)
EXTENDS DisconnectCommand, Sequences, FiniteSets

CONSTANTS
  OwnUser,     \* config.AuthClientId
  OwnIds,      \* the client ids of the attempts: AuthClientId and a UUID
  MaxSessions  \* bound: sessions a client id has one after the other

OwnClients == {OwnIds[i] : i \in DOMAIN OwnIds}

ASSUME StartAssumption ==
  /\ OwnUser \in Users
  /\ OwnIds \in Seq(Clients) /\ OwnIds # <<>>
  /\ \A i, j \in DOMAIN OwnIds : OwnIds[i] = OwnIds[j] => i = j
  /\ MaxSessions \in Nat

VARIABLES
  settings,  \* further parts of the configuration
  boot,      \* where Start stands
  server,    \* the goroutine of the webhook server: off, starting, listening
  tries,     \* attempts to start an MQTT client
  running,   \* own clients that connect whenever they have no connection
  publisher  \* the client the command handler was made with, 0 before

startVars == <<settings, boot, server, tries, running, publisher>>
vars == <<commandVars, startVars>>

(* health: the health handler is not configured, or configured well. *)
Settings == [health : BOOLEAN, MqttVersion : {"4", "5"}]

Boot == {"prepare", "handlers", "webhooks", "connect", "await", "pause",
         "handler", "consumer", "started", "stopping"}

TypeOK ==
  /\ CommandTypeOK
  /\ settings \in Settings
  /\ boot \in Boot
  /\ server \in {"off", "starting", "listening"}
  /\ tries \in 0..Len(OwnIds)
  /\ running \subseteq DOMAIN OwnIds
  /\ publisher \in 0..Len(OwnIds)

Init ==
  /\ CommandInit
  /\ settings \in Settings
  /\ boot = "prepare"
  /\ server = "off"
  /\ tries = 0
  /\ running = {}
  /\ publisher = 0

Connected(i) == session[OwnIds[i]] = OwnUser

-----------------------------------------------------------------------------
(* The steps of Start.  An error is returned to main, which ends the       *)
(* process with log.Fatal.                                                 *)

Goto(from, to) == up /\ boot = from /\ boot' = to
Beside == UNCHANGED <<commandVars, settings, server>>
Quiet == Beside /\ UNCHANGED <<tries, running, publisher>>

Fatal(from) ==
  /\ up /\ boot = from
  /\ up' = FALSE
  /\ UNCHANGED <<mode, brokerVars, callVars, startVars>>

(* Configuration, library, producer, connection logger and metrics. *)
Prepare == Goto("prepare", "handlers") /\ Quiet

(* Of the handlers only the one for health reports can fail to be made. *)
MakeHandlers ==
  /\ settings.health /\ Goto("handlers", "webhooks")
  /\ Quiet

(* InitWebhooks returns at once; the server is a goroutine. *)
InitWebhooks ==
  /\ Goto("webhooks", "connect")
  /\ server' = "starting"
  /\ UNCHANGED <<commandVars, settings, tries, running, publisher>>

(* ListenAndServe: a port that is in use ends the process. *)
Listen ==
  /\ up /\ server = "starting"
  /\ \/ server' = "listening" /\ UNCHANGED up
     \/ up' = FALSE /\ UNCHANGED server
  /\ UNCHANGED <<mode, brokerVars, callVars>>
  /\ UNCHANGED <<settings, boot, tries, running, publisher>>

MqttStart ==
  /\ Goto("connect", "await")
  /\ tries' = tries + 1
  /\ running' = running \cup {tries + 1}
  /\ Beside /\ UNCHANGED publisher

(* Fault: a client connects only while Start waits for it. *)
OwnLoginOnce(i) ==
  /\ up /\ server = "listening" /\ boot = "await" /\ i = tries
  /\ i \in running /\ ~Connected(i)
  /\ Open(OwnIds[i], OwnUser) /\ boot' = "handler"
  /\ UNCHANGED <<mode, callVars, up>>
  /\ UNCHANGED <<settings, server, tries, running, publisher>>

(* An own client connects.  The attempt that waits for it succeeds; with   *)
(* version 5 its minute may be over at the same moment.                    *)
OwnLogin(i) ==
  /\ up /\ server = "listening"
  /\ i \in running /\ ~Connected(i)
  /\ Open(OwnIds[i], OwnUser)
  /\ IF boot = "await" /\ i = tries
     THEN \/ boot' = "handler"
          \/ settings.MqttVersion = "5" /\ boot' = "pause"
     ELSE UNCHANGED boot
  /\ UNCHANGED <<mode, callVars, up>>
  /\ UNCHANGED <<settings, server, tries, running, publisher>>

(* Fault: with version 4, too, a failed client goes on trying. *)
ConnectRetries ==
  /\ Goto("await", "pause")
  /\ Quiet

(* The attempt fails.  The version 4 client gives up; the connection       *)
(* manager of version 5 goes on trying, unless it was never made.          *)
MqttFails ==
  /\ Goto("await", "pause")
  /\ \/ running' = running \ {tries}
     \/ settings.MqttVersion = "5" /\ UNCHANGED running
  /\ Beside /\ UNCHANGED <<tries, publisher>>

(* Fault: the error of the attempts is shadowed in the loop. *)
NextTryShadowed ==
  /\ Goto("pause", IF tries < Len(OwnIds) THEN "connect" ELSE "handler")
  /\ Quiet

(* Five seconds after each failed attempt, also after the last. *)
NextTry ==
  /\ tries < Len(OwnIds) /\ Goto("pause", "connect")
  /\ Quiet

SetCommandHandler ==
  /\ Goto("handler", "consumer")
  /\ publisher' = tries
  /\ Beside /\ UNCHANGED <<tries, running>>

StartConsumer == Goto("consumer", "started") /\ Quiet

(* Fault: when all attempts have failed Start tries on. *)
StartFailsButForMqtt ==
  \/ Fatal("prepare") \/ Fatal("consumer")
  \/ ~settings.health /\ Fatal("handlers")

StartFails ==
  \/ Fatal("prepare") \/ Fatal("consumer")
  \/ ~settings.health /\ Fatal("handlers")
  \/ tries = Len(OwnIds) /\ Fatal("pause")

StartStep ==
  \/ Prepare \/ MakeHandlers \/ InitWebhooks \/ MqttStart \/ MqttFails
  \/ NextTry \/ SetCommandHandler \/ StartConsumer \/ StartFails

-----------------------------------------------------------------------------
(* What happens beside it. *)

(* The root context is cancelled; signals before end the process at once.  *)
Cancel == Goto("started", "stopping") /\ Quiet

StopClient(i) ==
  /\ up /\ boot = "stopping" /\ i \in running
  /\ running' = running \ {i}
  /\ Close(OwnIds[i])
  /\ UNCHANGED <<mode, callVars, up>>
  /\ UNCHANGED <<settings, boot, server, tries, publisher>>

(* The other clients, and losses of the connector's own connections. *)
BrokerStep ==
  /\ \/ /\ server = "listening"
        /\ \E c \in Clients \ OwnClients, u \in Users \ {OwnUser} :
             opened[c] < MaxSessions /\ ClientOpens(c, u)
     \/ \E c \in Clients :
          ClientCloses(c) /\ (c \in OwnClients => opened[c] < MaxSessions)
  /\ UNCHANGED startVars

Webhook(k) ==
  /\ \/ server = "listening" /\ (Refuse(k) \/ \E u \in Users : Receive(k, u))
     \/ Executing(k) \/ WebhookTimesOut(k)
  /\ UNCHANGED startVars

Ended == ~up /\ UNCHANGED vars

Next ==
  \/ StartStep \/ Listen \/ \E i \in DOMAIN OwnIds : OwnLogin(i) \/ StopClient(i)
  \/ BrokerStep \/ \E k \in Calls : Webhook(k)
  \/ Cancel \/ (Exit /\ UNCHANGED startVars) \/ Ended

Spec == Init /\ [][Next]_vars

(* Start and the goroutine of the server get on: every request they make   *)
(* is answered or fails.  A running client connects in the end, as the     *)
(* login of the connector's user asks nobody else (login.go:69).  Nothing  *)
(* is assumed of VerneMQ's HTTP API.                                       *)
Fairness ==
  /\ WF_vars(StartStep) /\ WF_vars(Listen)
  /\ \A i \in DOMAIN OwnIds : WF_vars(OwnLogin(i))

FairSpec == Spec /\ Fairness

-----------------------------------------------------------------------------
(* Start succeeds or the process ends, however many attempts it takes      *)
(* (lib.go:224-255, main.go:73-76).                                        *)
StartEnds == up /\ boot = "prepare" ~> boot = "started" \/ ~up

(* Commands are consumed only behind a webhook server that listens, though *)
(* Start never waits for it: the login of the client it waits for went     *)
(* through that server (lib.go:224-249).                                   *)
ConsumesBehindServer ==
  boot \in {"handler", "consumer", "started"} => server = "listening"

(* No client of a failed attempt is left behind to hold a session of its   *)
(* own beside the publisher's: with version 4.  The connection managers of *)
(* version 5 stay, but no more than attempts were made (mqtt.go:36-57,     *)
(* mqtt.go:96-141).                                                        *)
NoClientLeftBehind ==
  \A i \in DOMAIN OwnIds :
    i \in running \/ session[OwnIds[i]] # NoUser =>
      i <= tries /\ (i < tries => settings.MqttVersion = "5")

(* The connector comes back: whatever ended the session of the client it   *)
(* publishes with, a lost link or a command that names the connector's     *)
(* user, the client gets a new one (mqtt.go:41, mqtt.go:107).              *)
PublisherReturns ==
  boot = "started" ~>
    (publisher # 0 /\ Connected(publisher)) \/ boot = "stopping" \/ ~up
=============================================================================
