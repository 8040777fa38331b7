---------------------------- MODULE CommandQueue ----------------------------
(***************************************************************************)
(* The way of a command from the platform to the MQTT broker:              *)
(* GetQueuedCommandHandler and GetCommandHandler of lib/command.go, the    *)
(* Publish and Start functions of lib/mqtt.go, the choice between the      *)
(* direct and the queued handler in lib/lib.go and the shutdown of         *)
(* main.go.                                                                *)
(*                                                                         *)
(* A command is a call of the handler: the Kafka consumer and the HTTP     *)
(* command consumer call it concurrently.  With more than one worker the   *)
(* call sends the command into a buffered channel; a sender that finds the *)
(* channel full blocks, a sender that finds or gets it closed panics and   *)
(* recovers with an error.  With one worker or none the caller runs the    *)
(* handler itself.                                                         *)
(*                                                                         *)
(* An operator marked as a fault is no part of the specification: it is    *)
(* the mistaken form of the definition that follows it, with which a run   *)
(* shows that its property would notice the mistake.                       *)
(***************************************************************************)
EXTENDS Integers, Sequences, Functions

CONSTANTS
  Commands,              \* the calls of the asynchronous command handler
  NoCommand,             \* what a resting worker holds
  CommandWorkerCount,    \* config.CommandWorkerCount
  ForceTopicsWithOwner,  \* config.ForceTopicsWithOwner
  MqttVersion,           \* config.MqttVersion
  MaxLinkLosses          \* bound: how often the broker connection breaks

ASSUME ConfigAssumption ==
  /\ NoCommand \notin Commands
  /\ CommandWorkerCount \in Nat
  /\ ForceTopicsWithOwner \in BOOLEAN
  /\ MqttVersion \in {"4", "5"}
  /\ MaxLinkLosses \in Nat

VARIABLES
  call,       \* what the caller of the handler sees
  queue,      \* the buffer of the channel
  senders,    \* callers blocked in the send, in the order they arrived
  closed,     \* the channel is closed
  cancelled,  \* the root context is cancelled
  worker,     \* the command each worker is handling
  step,       \* where the handler stands with each command
  saved,      \* commands whose correlation is in memcached
  delivered,  \* pairs <<topic, command>> the broker has received
  link,       \* the connection of the MQTT client
  losses,     \* how often the link was lost so far
  up          \* the process is running

intakeVars == <<call, queue, senders, closed>>
handlerVars == <<worker, step, saved, delivered>>
linkVars == <<link, losses>>
vars == <<intakeVars, handlerVars, linkVars, cancelled, up>>

Workers == 1..CommandWorkerCount
Queued == CommandWorkerCount > 1
Topics == {"owner", "legacy"}

CallState == {"none", "blocked", "running", "accepted", "failed", "refused"}
Busy == {"save", "owner", "owner_wait", "legacy", "legacy_wait"}
Handled == {"ok", "err"}

TypeOK ==
  /\ call \in [Commands -> CallState]
  /\ queue \in Seq(Commands)
  /\ senders \in Seq(Commands)
  /\ closed \in BOOLEAN
  /\ cancelled \in BOOLEAN
  /\ worker \in [Workers -> Commands \cup {NoCommand}]
  /\ step \in [Commands -> {"idle"} \cup Busy \cup Handled]
  /\ saved \subseteq Commands
  /\ delivered \subseteq (Topics \X Commands)
  /\ link \in {"up", "lost", "closed"}
  /\ losses \in 0..MaxLinkLosses
  /\ up \in BOOLEAN

Init ==
  /\ call = [c \in Commands |-> "none"]
  /\ queue = <<>>
  /\ senders = <<>>
  /\ closed = FALSE
  /\ cancelled = FALSE
  /\ worker = [w \in Workers |-> NoCommand]
  /\ step = [c \in Commands |-> "idle"]
  /\ saved = {}
  /\ delivered = {}
  /\ link = "up"
  /\ losses = 0
  /\ up = TRUE

-----------------------------------------------------------------------------
(* The caller's side. *)

(* The channel has room: the send succeeds and the caller gets nil. *)
Enqueue(c) ==
  /\ up
  /\ call[c] = "none"
  /\ ~closed
  /\ Len(queue) < CommandWorkerCount
  /\ queue' = Append(queue, c)
  /\ call' = [call EXCEPT ![c] = "accepted"]
  /\ UNCHANGED <<senders, closed, handlerVars, linkVars, cancelled, up>>

(* Fault: the last blocked sender is served first. *)
BlockInFront(c) ==
  /\ up /\ call[c] = "none" /\ ~closed
  /\ Len(queue) = CommandWorkerCount
  /\ senders' = <<c>> \o senders
  /\ call' = [call EXCEPT ![c] = "blocked"]
  /\ UNCHANGED <<queue, closed, handlerVars, linkVars, cancelled, up>>

(* The channel is full: the caller waits behind the senders before it. *)
Block(c) ==
  /\ up
  /\ call[c] = "none"
  /\ ~closed
  /\ Len(queue) = CommandWorkerCount
  /\ senders' = Append(senders, c)
  /\ call' = [call EXCEPT ![c] = "blocked"]
  /\ UNCHANGED <<queue, closed, handlerVars, linkVars, cancelled, up>>

(* A send on the closed channel panics; the deferred recover turns the     *)
(* panic into the error the caller gets.                                   *)
RefuseClosed(c) ==
  /\ up
  /\ call[c] = "none"
  /\ closed
  /\ call' = [call EXCEPT ![c] = "refused"]
  /\ UNCHANGED <<queue, senders, closed, handlerVars, linkVars, cancelled, up>>

(* Without workers the caller runs the handler and waits for its result. *)
CallDirect(c) ==
  /\ up
  /\ call[c] = "none"
  /\ call' = [call EXCEPT ![c] = "running"]
  /\ step' = [step EXCEPT ![c] = "save"]
  /\ UNCHANGED <<queue, senders, closed, worker, saved, delivered, linkVars,
                 cancelled, up>>

-----------------------------------------------------------------------------
(* The workers' side. *)

(* Fault: a receive that does not serve the blocked senders. *)
TakeWithoutWakeup(w) ==
  /\ up /\ worker[w] = NoCommand /\ queue # <<>>
  /\ worker' = [worker EXCEPT ![w] = Head(queue)]
  /\ step' = [step EXCEPT ![Head(queue)] = "save"]
  /\ queue' = Tail(queue)
  /\ UNCHANGED <<senders, call, closed, saved, delivered, linkVars, cancelled, up>>

(* A worker receives the head of the channel.  The receive moves the       *)
(* longest blocked sender into the place that became free, and its caller  *)
(* returns nil.                                                            *)
Take(w) ==
  /\ up
  /\ worker[w] = NoCommand
  /\ queue # <<>>
  /\ worker' = [worker EXCEPT ![w] = Head(queue)]
  /\ step' = [step EXCEPT ![Head(queue)] = "save"]
  /\ IF senders = <<>>
     THEN /\ queue' = Tail(queue)
          /\ UNCHANGED <<senders, call>>
     ELSE /\ queue' = Append(Tail(queue), Head(senders))
          /\ senders' = Tail(senders)
          /\ call' = [call EXCEPT ![Head(senders)] = "accepted"]
  /\ UNCHANGED <<closed, saved, delivered, linkVars, cancelled, up>>

(* Fault: an error ends the loop of the worker. *)
ReturnEndingWorker(c, result) ==
  /\ step' = [step EXCEPT ![c] = result]
  /\ worker' = [w \in Workers |->
                  IF worker[w] = c /\ result = "ok" THEN NoCommand ELSE worker[w]]
  /\ UNCHANGED call

(* The handler returns: a worker only logs the error and is free again, a  *)
(* direct caller gets the result.                                          *)
Return(c, result) ==
  /\ step' = [step EXCEPT ![c] = result]
  /\ worker' = [w \in Workers |->
                  IF worker[w] = c THEN NoCommand ELSE worker[w]]
  /\ call' = IF Queued THEN call
             ELSE [call EXCEPT ![c] = IF result = "ok" THEN "accepted"
                                                       ELSE "failed"]

(* Fault: the error of Save is logged and the command goes out. *)
SaveUnchecked(c) ==
  /\ up /\ step[c] = "save"
  /\ saved' \in {saved, saved \cup {c}}
  /\ step' = [step EXCEPT ![c] = "owner"]
  /\ UNCHANGED <<intakeVars, worker, delivered, linkVars, cancelled, up>>

(* correlationservice.Save: memcached stores the command or fails. *)
SaveCorrelation(c) ==
  /\ up
  /\ step[c] = "save"
  /\ \/ /\ saved' = saved \cup {c}
        /\ step' = [step EXCEPT ![c] = "owner"]
        /\ UNCHANGED <<call, worker>>
     \/ /\ Return(c, "err")
        /\ UNCHANGED saved
  /\ UNCHANGED <<queue, senders, closed, delivered, linkVars, cancelled, up>>

(* The client hands a message over while it is connected; the version 4    *)
(* client also while it reconnects.                                        *)
TakesMessages == link = "up" \/ (MqttVersion = "4" /\ link = "lost")

(* mqtt.Publish hands the message to the client and waits for its token. *)
Publish(c) ==
  /\ up
  /\ step[c] \in {"owner", "legacy"}
  /\ TakesMessages
  /\ step' = [step EXCEPT ![c] = IF step[c] = "owner" THEN "owner_wait"
                                                      ELSE "legacy_wait"]
  /\ UNCHANGED <<intakeVars, worker, saved, delivered, linkVars, cancelled, up>>

(* Fault: an unconnected client is logged and the publish returns nil. *)
PublishUnconnectedAsSuccess(c) ==
  /\ up /\ step[c] \in {"owner", "legacy"} /\ ~TakesMessages
  /\ Return(c, "ok")
  /\ UNCHANGED <<queue, senders, closed, saved, delivered, linkVars, cancelled, up>>

(* mqtt.Publish finds the client unconnected and fails at once. *)
PublishUnconnected(c) ==
  /\ up
  /\ step[c] \in {"owner", "legacy"}
  /\ ~TakesMessages
  /\ Return(c, "err")
  /\ UNCHANGED <<queue, senders, closed, saved, delivered, linkVars, cancelled,
                 up>>

(* Fault: the topic is named after the step. *)
TopicOfStep(c) == step[c]

TopicOf(c) == IF step[c] \in {"owner", "owner_wait"} THEN "owner" ELSE "legacy"

(* The broker completes the QoS 2 exchange.  After the topic with the      *)
(* owner comes the legacy topic, unless the configuration forbids it.      *)
Acknowledged(c) ==
  /\ step[c] \in {"owner_wait", "legacy_wait"}
  /\ link = "up"
  /\ delivered' = delivered \cup {<<TopicOf(c), c>>}
  /\ IF step[c] = "owner_wait" /\ ~ForceTopicsWithOwner
     THEN /\ step' = [step EXCEPT ![c] = "legacy"]
          /\ UNCHANGED <<call, worker>>
     ELSE Return(c, "ok")

(* Fault: a failed publish starts the handler over. *)
UnacknowledgedRetried(c) ==
  /\ step[c] \in {"owner_wait", "legacy_wait"}
  /\ link = "closed" \/ MqttVersion = "5"
  /\ step' = [step EXCEPT ![c] = "save"]
  /\ UNCHANGED <<call, worker, delivered>>

(* The publish fails after the message was handed over: the client was     *)
(* disconnected or, with version 5, lost its connection or waited a        *)
(* minute.  Whether the broker got the message is open.                    *)
Unacknowledged(c) ==
  /\ step[c] \in {"owner_wait", "legacy_wait"}
  /\ link = "closed" \/ MqttVersion = "5"
  /\ delivered' \in {delivered, delivered \cup {<<TopicOf(c), c>>}}
  /\ Return(c, "err")

PublishReturns(c) ==
  /\ up
  /\ Acknowledged(c) \/ Unacknowledged(c)
  /\ UNCHANGED <<queue, senders, closed, saved, linkVars, cancelled, up>>

-----------------------------------------------------------------------------
(* Connection, shutdown and end of the process. *)

LinkLost ==
  /\ up
  /\ link = "up"
  /\ losses < MaxLinkLosses
  /\ link' = "lost"
  /\ losses' = losses + 1
  /\ UNCHANGED <<intakeVars, handlerVars, cancelled, up>>

Reconnect ==
  /\ up
  /\ link = "lost"
  /\ link' = "up"
  /\ UNCHANGED <<losses, intakeVars, handlerVars, cancelled, up>>

(* A signal arrives and main cancels the root context. *)
Cancel ==
  /\ up
  /\ ~cancelled
  /\ cancelled' = TRUE
  /\ UNCHANGED <<intakeVars, handlerVars, linkVars, up>>

(* Fault: the shutdown throws the buffered commands away. *)
CloseQueueAndDrain ==
  /\ up /\ Queued /\ cancelled /\ ~closed
  /\ closed' = TRUE
  /\ queue' = <<>>
  /\ senders' = <<>>
  /\ call' = [c \in Commands |->
                IF call[c] = "blocked" THEN "refused" ELSE call[c]]
  /\ UNCHANGED <<handlerVars, linkVars, cancelled, up>>

(* Closing the channel makes every blocked sender panic. *)
CloseQueue ==
  /\ up
  /\ Queued
  /\ cancelled
  /\ ~closed
  /\ closed' = TRUE
  /\ senders' = <<>>
  /\ call' = [c \in Commands |->
                IF call[c] = "blocked" THEN "refused" ELSE call[c]]
  /\ UNCHANGED <<queue, handlerVars, linkVars, cancelled, up>>

DisconnectMqtt ==
  /\ up
  /\ cancelled
  /\ link # "closed"
  /\ link' = "closed"
  /\ UNCHANGED <<losses, intakeVars, handlerVars, cancelled, up>>

(* main returns a second after it cancelled the context, whatever is still *)
(* queued; a fatal error elsewhere ends the process at any other moment.   *)
Exit ==
  /\ up
  /\ up' = FALSE
  /\ UNCHANGED <<intakeVars, handlerVars, linkVars, cancelled>>

Ended == ~up /\ UNCHANGED vars

-----------------------------------------------------------------------------
(* Start gives the consumer one of the two handlers. *)
Offered(c) ==
  IF Queued THEN Enqueue(c) \/ Block(c) \/ RefuseClosed(c) ELSE CallDirect(c)

Handling(c) ==
  \/ SaveCorrelation(c)
  \/ Publish(c)
  \/ PublishUnconnected(c)
  \/ PublishReturns(c)

Next ==
  \/ \E c \in Commands : Offered(c) \/ Handling(c)
  \/ \E w \in Workers : Take(w)
  \/ LinkLost \/ Reconnect
  \/ Cancel \/ CloseQueue \/ DisconnectMqtt
  \/ Exit \/ Ended

Spec == Init /\ [][Next]_vars

(* The goroutines of the workers and of the shutdown run, a handler that   *)
(* is under way gets on, the client reconnects (AutoReconnect) and a       *)
(* connected broker answers.  Nothing makes a caller call, the link break  *)
(* or the process end.                                                     *)
Fairness ==
  /\ \A w \in Workers : WF_vars(Take(w))
  /\ \A c \in Commands : WF_vars(Handling(c))
  /\ WF_vars(Reconnect)
  /\ WF_vars(CloseQueue)
  /\ WF_vars(DisconnectMqtt)

FairSpec == Spec /\ Fairness

-----------------------------------------------------------------------------
(* Safety. *)

Accepted(c) == call[c] = "accepted"
UnderWay == {c \in Commands : step[c] \in Busy}

(* A waiting command is in exactly one place.  While it has not been begun *)
(* an accepted command is in the channel, once; a blocked caller's command *)
(* is among the senders, once; no two workers hold the same command; and   *)
(* a refused command was never begun.  This is about the channel of        *)
(* GetQueuedCommandHandler under concurrent senders, receivers and close.  *)
EachCommandInOnePlace ==
  Queued =>
    /\ IsInjective(queue \o senders)
    /\ Range(queue) = {c \in Commands : Accepted(c) /\ step[c] = "idle"}
    /\ Range(senders) = {c \in Commands : call[c] = "blocked"}
    /\ {worker[w] : w \in Workers} \ {NoCommand} = UnderWay
    /\ \A v, w \in Workers :
         v # w => worker[v] = NoCommand \/ worker[v] # worker[w]
    /\ \A c \in Commands : step[c] # "idle" => Accepted(c)

(* The channel never holds more than its capacity, and a caller waits only *)
(* while the channel is open and full: no wake-up is lost.                 *)
BlockedOnlyWhileFull ==
  /\ Len(queue) <= CommandWorkerCount
  /\ senders # <<>> => ~closed /\ Len(queue) = CommandWorkerCount

(* A device can only see a command whose correlation can be looked up: the *)
(* response handler would not know the answer otherwise.                   *)
CorrelationBeforePublish ==
  \A c \in Commands :
    (step[c] \in Busy \ {"save"} \/ \E t \in Topics : <<t, c>> \in delivered)
      => c \in saved

(* The legacy topic is served after the topic with the owner, and never    *)
(* when the configuration forces topics with owner.                        *)
LegacyAfterOwner ==
  \A c \in Commands :
    step[c] \in {"legacy", "legacy_wait"} \/ <<"legacy", c>> \in delivered
      => <<"owner", c>> \in delivered /\ ~ForceTopicsWithOwner

(* A handler that returned nil has brought the command to every topic; the *)
(* caller of the direct handler can rely on it.                            *)
NilMeansDelivered ==
  \A c \in Commands :
    (step[c] = "ok" \/ (~Queued /\ Accepted(c))) =>
      /\ <<"owner", c>> \in delivered
      /\ ~ForceTopicsWithOwner => <<"legacy", c>> \in delivered

(* No command is handled twice: a handler never goes back to its first     *)
(* step, and what was handled stays handled.                               *)
HandledOnce ==
  [][\A c \in Commands :
       /\ step[c] # "idle" /\ step[c] # "save" => step'[c] # "save"
       /\ step[c] \in Handled => step'[c] = step[c]]_vars

-----------------------------------------------------------------------------
(* Liveness. *)

(* A command the caller was told is accepted is handled, with or without   *)
(* success, unless the process ends first.                                 *)
AcceptedIsHandled ==
  \A c \in Commands : Accepted(c) ~> (step[c] \in Handled \/ ~up)

(* A caller that waits, for room in the channel or for the broker, gets    *)
(* its answer unless the process ends first.                               *)
CallerIsAnswered ==
  \A c \in Commands :
    call[c] \in {"blocked", "running"}
      ~> (call[c] \in {"accepted", "failed", "refused"} \/ ~up)

-----------------------------------------------------------------------------
(* The queued handler implements the intake: the backlog is the channel    *)
(* and, behind it, the blocked senders.                                    *)
intakeStatus ==
  [c \in Commands |->
     IF      step[c] \in Busy     THEN "begun"
     ELSE IF step[c] \in Handled  THEN "done"
     ELSE IF call[c] = "none"     THEN "new"
     ELSE IF call[c] = "refused"  THEN "refused"
     ELSE "waiting"]

Intake == INSTANCE CommandIntake WITH
  Parallel <- CommandWorkerCount,
  alive    <- up,
  open     <- ~closed,
  backlog  <- queue \o senders,
  status   <- intakeStatus

(* Commands are begun in the order of the calls, at most                   *)
(* CommandWorkerCount at a time, none after a refusal, and as long as the  *)
(* process runs the workers keep beginning them.                           *)
ImplementsIntake == Intake!FairSpec
=============================================================================
