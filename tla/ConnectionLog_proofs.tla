------------------------ MODULE ConnectionLog_proofs ------------------------
(***************************************************************************)
(* The log matches the broker, for any number of clients, devices, calls   *)
(* and faults.  The inductive invariant says what a call knows while it    *)
(* runs: which other calls of its client there are (Rested, Solitary,      *)
(* OneWaits), what the broker has done for its client (Attended, Requests, *)
(* Subscriptions) and what it has reported so far (Granting).              *)
(***************************************************************************)
EXTENDS ConnectionLog, TLAPS

(* A call that does not run has nothing to do. *)
Rested ==
  \A k \in Calls :
    ~Running(k) => topics[k] = {} /\ todo[k] = {} /\ ~waiting[k] /\ ~alone[k]

(* A call that is alone is the only one of its client. *)
Solitary ==
  \A k, q \in Calls : alone[k] /\ Running(q) /\ client[q] = client[k] => q = k

(* The broker waits for one call of a client at a time. *)
OneWaits ==
  \A k, q \in Calls : waiting[k] /\ waiting[q] /\ client[q] = client[k] => q = k

CallInv == Rested /\ Solitary /\ OneWaits

(* While a call is alone, or the broker waits for it, its client keeps or  *)
(* misses its session.                                                     *)
Attended ==
  \A k \in Calls :
    alone[k] \/ waiting[k] =>
      /\ hook[k] \in {"online", "subscribe", "unsubscribe"} => connected[client[k]]
      /\ hook[k] \in {"disconnect", "devices"} => ~connected[client[k]]

(* A client without a session has no subscription, others have allowed ones. *)
Subscriptions ==
  \A c \in Clients :
    /\ ~connected[c] => subs[c] = {}
    /\ \A t \in subs[c] : Allowed(c, t)

SubscribeRequest(k) ==
  /\ topics[k] \subseteq Topics
  /\ todo[k] \subseteq topics[k]
  /\ alone[k] => waiting[k]
  /\ \A t \in topics[k] \ todo[k] : Allowed(client[k], t)

UnsubscribeRequest(k) ==
  /\ topics[k] \subseteq Topics
  /\ todo[k] \subseteq topics[k]
  /\ alone[k] => DevicesIn(LeftTopics(client[k], topics[k])) \subseteq dropped[client[k]]

DevicesRequest(k) ==
  /\ client[k] \in Hubs
  /\ todo[k] \subseteq DevicesOf[client[k]]

Requests ==
  \A k \in Calls :
    /\ hook[k] = "subscribe" => SubscribeRequest(k)
    /\ hook[k] = "unsubscribe" => UnsubscribeRequest(k)
    /\ hook[k] = "devices" => DevicesRequest(k)

BrokerInv == Attended /\ Subscriptions /\ Requests

(* What a subscription has reported stands, or is suspected, until the     *)
(* broker grants the request.                                              *)
Granting ==
  \A k \in Calls, c \in Hubs : \A d \in DevicesOf[c] :
    /\ hook[k] = "subscribe" /\ client[k] = c
    /\ OwnDevice(c, d)
    /\ d \in DevicesIn(topics[k] \ todo[k])
    => d \in suspect \/ (waiting[k] /\ deviceLog[d] = "on")

ConnInv == TypeOK /\ CallInv /\ BrokerInv /\ Granting /\ LogMatchesBroker

-----------------------------------------------------------------------------
LEMMA TopicFacts ==
  \A t \in Topics : t[1] \in Kinds /\ DeviceOf(t) \in Devices
  BY LogAssumption DEF LogAssumption

LEMMA DevicesInTopics ==
  /\ \A ts \in SUBSET Topics : DevicesIn(ts) \subseteq Devices
  /\ \A c, ts : LeftTopics(c, ts) \subseteq ts
  BY TopicFacts DEF DevicesIn, LeftTopics

LEMMA HubFacts ==
  /\ Hubs \subseteq Clients
  /\ Clients \cap Devices = {}
  /\ \A c \in Clients : DevicesOf[c] \subseteq Devices
  BY LogAssumption DEF LogAssumption

(* A device of its own is a device of no other client. *)
LEMMA OwnCaller ==
  ASSUME NEW c \in Clients, NEW d, OwnDevice(c, d), NEW e \in Clients, d \in DevicesOf[e]
  PROVE  e = c
  BY DEF OwnDevice

-----------------------------------------------------------------------------
(* Types. *)

CallTypesOK ==
  /\ hook \in [Calls -> Hooks]
  /\ client \in [Calls -> Clients]
  /\ topics \in [Calls -> SUBSET Topics]
  /\ todo \in [Calls -> SUBSET (Topics \cup Devices)]
  /\ waiting \in [Calls -> BOOLEAN]
  /\ alone \in [Calls -> BOOLEAN]

LEMMA CallTypes ==
  ASSUME TypeOK, NEW k \in Calls, NEW c \in Clients, NEW name \in Hooks,
         NEW ts \in SUBSET Topics, NEW left \in SUBSET (Topics \cup Devices),
         Call(k, c, name, ts, left)
  PROVE  CallTypesOK'
  BY DEF TypeOK, CallTypesOK, Call, RunningOf, Running

LEMMA DoneTypes ==
  ASSUME TypeOK, NEW k \in Calls, Done(k)
  PROVE  CallTypesOK'
  BY DEF TypeOK, CallTypesOK, Done, Hooks

LEMMA GoesTypes ==
  ASSUME TypeOK, NEW k \in Calls, NEW name \in Hooks,
         NEW left \in SUBSET (Topics \cup Devices), Goes(k, name, left)
  PROVE  CallTypesOK'
  BY DEF TypeOK, CallTypesOK, Goes

LogTypes ==
  /\ hubLog \in [Clients -> {"on", "off"}]
  /\ deviceLog \in [Devices -> {"on", "off"}]
  /\ suspect \subseteq Clients \cup Devices
  /\ faults \in 0..MaxFaults

LEMMA ReportTypes ==
  ASSUME TypeOK, NEW k \in Calls, NEW status \in {"on", "off"}
  PROVE  /\ ReportHub(k, status) => LogTypes'
         /\ \A d \in Devices : ReportDevice(k, d, status) => LogTypes'
         /\ \A xs \in SUBSET (Clients \cup Devices) :
              HubFault(k, status, xs) => LogTypes'
         /\ \A d \in Devices : DeviceFault(d, status) => LogTypes'
         /\ UNCHANGED <<logVars, faults>> => LogTypes'
  <1> USE LogAssumption DEF LogAssumption, TypeOK, LogTypes, Settle, Fault, logVars
  <1>1. ReportHub(k, status) => LogTypes'
    BY DEF ReportHub
  <1>2. ASSUME NEW d \in Devices PROVE ReportDevice(k, d, status) => LogTypes'
    BY DEF ReportDevice
  <1>3. ASSUME NEW xs \in SUBSET (Clients \cup Devices), HubFault(k, status, xs)
        PROVE  LogTypes'
    BY <1>3 DEF HubFault
  <1>4. ASSUME NEW d \in Devices, DeviceFault(d, status) PROVE LogTypes'
    BY <1>4 DEF DeviceFault
  <1> QED BY <1>1, <1>2, <1>3, <1>4

LEMMA TypeInit == Init => TypeOK
  BY LogAssumption DEF LogAssumption, Init, TypeOK, Hooks

LEMMA TypeStep ==
  ASSUME TypeOK, BrokerInv, [Next]_vars
  PROVE  TypeOK'
  <1> USE DEF Hooks, CallTypesOK
  <1>0. {} \in SUBSET Topics /\ {} \in SUBSET (Topics \cup Devices) OBVIOUS
  <1>1. ASSUME NEW k \in Calls, NEW c \in Clients,
               \/ Connect(k, c) \/ Offline(k, c)
               \/ \E ts \in SUBSET Topics : Subscribe(k, c, ts) \/ Unsubscribe(k, c, ts)
        PROVE  TypeOK'
    <2>1. CASE Connect(k, c)
      <3>1. sessions' \in 0..MaxSessions
        BY <2>1, LogAssumption DEF LogAssumption, Connect, TypeOK
      <3>2. Call(k, c, "online", {}, {}) BY <2>1 DEF Connect
      <3>3. CallTypesOK' BY <1>0, <3>2, CallTypes
      <3>4. QED
        BY <2>1, <3>1, <3>3 DEF Connect, TypeOK, logVars
    <2>2. CASE Offline(k, c)
      <3>1. Call(k, c, "disconnect", {}, {}) BY <2>2 DEF Offline
      <3>2. CallTypesOK' BY <1>0, <3>1, CallTypes
      <3>3. QED BY <2>2, <3>2 DEF Offline, TypeOK, logVars, boundVars
    <2>3. ASSUME NEW ts \in SUBSET Topics, Subscribe(k, c, ts) \/ Unsubscribe(k, c, ts)
          PROVE  TypeOK'
      <3>1. requests' \in 0..MaxRequests
        BY <2>3, LogAssumption DEF LogAssumption, Subscribe, Unsubscribe, Request, TypeOK
      <3>2. CASE Subscribe(k, c, ts)
        <4>1. Call(k, c, "subscribe", ts, ts) BY <3>2 DEF Subscribe
        <4>2. CallTypesOK' BY <4>1, CallTypes
        <4> QED BY <3>1, <3>2, <4>2 DEF Subscribe, TypeOK, logVars, brokerVars
      <3>3. CASE Unsubscribe(k, c, ts)
        <4>1. Call(k, c, "unsubscribe", ts, ts) BY <3>3 DEF Unsubscribe
        <4>2. CallTypesOK' BY <4>1, CallTypes
        <4>3. DevicesIn(LeftTopics(c, ts)) \subseteq Devices BY DevicesInTopics
        <4> QED BY <3>1, <3>3, <4>2, <4>3 DEF Unsubscribe, TypeOK, logVars
      <3>4. QED BY <2>3, <3>2, <3>3
    <2>4. QED BY <1>1, <2>1, <2>2, <2>3
  <1>2. ASSUME NEW k \in Calls, GiveUp(k) PROVE TypeOK'
    <2>1. faults' \in 0..MaxFaults
      BY <1>2, LogAssumption DEF LogAssumption, GiveUp, TypeOK
    <2>2. DevicesIn(topics[k]) \subseteq Devices
      BY DevicesInTopics DEF TypeOK
    <2>3. QED
      BY <1>2, <2>1, <2>2 DEF GiveUp, TypeOK, brokerVars
  <1>3. ASSUME NEW k \in Calls, Online(k) PROVE TypeOK'
    <2>1. client[k] \in Clients BY DEF TypeOK
    <2>2. LogTypes' BY <1>3, <2>1, ReportTypes DEF Online
    <2>3. QED BY <1>3, <2>2, DoneTypes DEF Online, TypeOK, LogTypes, brokerVars
  <1>4. ASSUME NEW k \in Calls, GrantRequest(k) PROVE TypeOK'
    <2>1. subs' \in [Clients -> SUBSET Topics] /\ dropped' \in [Clients -> SUBSET Devices]
      BY <1>4 DEF GrantRequest, TypeOK
    <2>2. QED BY <1>4, <2>1, DoneTypes DEF GrantRequest, TypeOK, logVars, boundVars
  <1>5. ASSUME NEW k \in Calls, UnsubscribeFails(k) PROVE TypeOK'
    <2>1. DevicesIn(LeftTopics(client[k], todo[k])) \subseteq Devices
      BY <1>5, DevicesInTopics DEF UnsubscribeFails, TypeOK
    <2>2. faults' \in 0..MaxFaults
      BY <1>5, LogAssumption DEF LogAssumption, UnsubscribeFails, Fault, TypeOK
    <2>3. QED
      BY <1>5, <2>1, <2>2, DoneTypes DEF UnsubscribeFails, Fault, TypeOK, brokerVars
  <1>6. ASSUME NEW k \in Calls, DisconnectHub(k) PROVE TypeOK'
    <2>1. /\ client[k] \in Clients
          /\ DevicesOf[client[k]] \in SUBSET (Topics \cup Devices)
          /\ {client[k]} \cup DevicesOf[client[k]] \in SUBSET (Clients \cup Devices)
      BY HubFacts DEF TypeOK
    <2>2. LogTypes' BY <1>6, <2>1, ReportTypes DEF DisconnectHub
    <2>3. CASE Done(k)
      BY <1>6, <2>2, <2>3, DoneTypes DEF DisconnectHub, TypeOK, LogTypes, brokerVars
    <2>4. CASE Goes(k, "devices", DevicesOf[client[k]])
      BY <1>6, <2>1, <2>2, <2>4, GoesTypes DEF DisconnectHub, TypeOK, LogTypes, brokerVars
    <2>5. QED BY <1>6, <2>3, <2>4 DEF DisconnectHub
  <1>7. ASSUME NEW k \in Calls, Answer(k) PROVE TypeOK'
    BY <1>7, DoneTypes DEF Answer, TypeOK, logVars, brokerVars, boundVars
  <1>8. ASSUME NEW k \in Calls, NEW t \in todo[k], AcceptTopic(k, t) \/ ForgetTopic(k, t)
        PROVE  TypeOK'
    <2>1. /\ t \in Topics
          /\ DeviceOf(t) \in Devices
          /\ todo[k] \ {t} \in SUBSET (Topics \cup Devices)
      BY <1>8, TopicFacts
      DEF AcceptTopic, ForgetTopic, BrokerInv, Requests, SubscribeRequest,
          UnsubscribeRequest, TypeOK
    <2>2. LogTypes' BY <1>8, <2>1, ReportTypes DEF AcceptTopic, ForgetTopic
    <2>3. QED
      BY <1>8, <2>1, <2>2, GoesTypes
      DEF AcceptTopic, ForgetTopic, TypeOK, LogTypes, brokerVars
  <1>9. ASSUME NEW k \in Calls, NEW t \in todo[k], RefuseRequest(k, t) PROVE TypeOK'
    <2>1. DevicesIn(topics[k] \ todo[k]) \subseteq Devices
      BY DevicesInTopics DEF TypeOK
    <2>2. faults' \in 0..MaxFaults
      BY <1>9, LogAssumption DEF LogAssumption, RefuseRequest, TypeOK
    <2>3. QED
      BY <1>9, <2>1, <2>2, DoneTypes DEF RefuseRequest, TypeOK, brokerVars
  <1>10. ASSUME NEW k \in Calls, NEW d \in todo[k], DisconnectDevice(k, d) PROVE TypeOK'
    <2>1. d \in Devices /\ todo[k] \ {d} \in SUBSET (Topics \cup Devices)
      BY <1>10, HubFacts
      DEF DisconnectDevice, BrokerInv, Requests, DevicesRequest, TypeOK
    <2>2. LogTypes' BY <1>10, <2>1, ReportTypes DEF DisconnectDevice
    <2>3. QED
      BY <1>10, <2>1, <2>2, GoesTypes DEF DisconnectDevice, TypeOK, LogTypes, brokerVars
  <1>11. CASE Exit
    <2>1. \A k \in Calls : Unreported(k) \subseteq Clients \cup Devices
      BY DEF Unreported
    <2>2. suspect' \subseteq Clients \cup Devices
      BY <1>11, <2>1 DEF Exit, Fault, TypeOK
    <2>3. faults' \in 0..MaxFaults
      BY <1>11, LogAssumption DEF LogAssumption, Exit, Fault, TypeOK
    <2>4. QED BY <1>11, <2>2, <2>3 DEF Exit, Fault, TypeOK, brokerVars
  <1>12. ASSUME NEW k \in Calls, NEW t \in todo[k], UnsubscribeStops(k, t) PROVE TypeOK'
    <2>1. todo[k] \in SUBSET Topics
      BY <1>12 DEF UnsubscribeStops, BrokerInv, Requests, UnsubscribeRequest, TypeOK
    <2>2. DevicesIn(LeftTopics(client[k], todo[k])) \subseteq Devices
      BY <2>1, DevicesInTopics
    <2>3. QED
      BY <1>12, <2>2, DoneTypes DEF UnsubscribeStops, TypeOK, brokerVars, boundVars
  <1>13. CASE UNCHANGED vars
    BY <1>13 DEF TypeOK, vars, brokerVars, logVars, callVars, boundVars
  <1> QED
    BY <1>1, <1>2, <1>3, <1>4, <1>5, <1>6, <1>7, <1>8, <1>9, <1>10, <1>11, <1>12,
       <1>13
    DEF Next, Broker, Handler

-----------------------------------------------------------------------------
(* How a call begins, goes on and ends, seen from itself and from others. *)

Untouched(q) ==
  /\ hook'[q] = hook[q] /\ client'[q] = client[q]
  /\ topics'[q] = topics[q] /\ todo'[q] = todo[q]
  /\ waiting'[q] = waiting[q]

LEMMA CallBegins ==
  ASSUME TypeOK, Rested, NEW k \in Calls, NEW c \in Clients, NEW name, NEW ts, NEW left,
         Call(k, c, name, ts, left)
  PROVE  /\ hook'[k] = name /\ client'[k] = c /\ topics'[k] = ts /\ todo'[k] = left
         /\ waiting'[k] /\ (alone'[k] <=> RunningOf(c) = {})
         /\ \A q \in Calls \ {k} :
              /\ Untouched(q)
              /\ waiting[q] => client[q] # c
              /\ alone'[q] => alone[q] /\ client[q] # c
  <1>1. \A q \in Calls : waiting[q] \/ alone[q] => Running(q) BY DEF Rested
  <1> QED
    BY <1>1 DEF TypeOK, Call, RunningOf, BrokerWaits, Untouched

LEMMA CallEnds ==
  ASSUME TypeOK, NEW k \in Calls, Done(k)
  PROVE  /\ hook'[k] = "none" /\ client'[k] = client[k]
         /\ topics'[k] = {} /\ todo'[k] = {} /\ ~waiting'[k] /\ ~alone'[k]
         /\ \A q \in Calls \ {k} : Untouched(q) /\ alone'[q] = alone[q]
  BY DEF TypeOK, Done, Untouched

LEMMA CallGoesOn ==
  ASSUME TypeOK, NEW k \in Calls, NEW name, NEW left, Goes(k, name, left)
  PROVE  /\ hook'[k] = name /\ client'[k] = client[k] /\ topics'[k] = topics[k]
         /\ todo'[k] = left /\ waiting'[k] = waiting[k] /\ alone' = alone
         /\ \A q \in Calls \ {k} : Untouched(q)
  BY DEF TypeOK, Goes, Untouched

(* The broker gives up a call: it runs on, and is not waited for. *)
LEMMA CallGivenUp ==
  ASSUME TypeOK, NEW k \in Calls, GiveUp(k)
  PROVE  /\ Running(k) /\ waiting[k] /\ ~waiting'[k]
         /\ hook' = hook /\ client' = client /\ topics' = topics /\ todo' = todo
         /\ alone'[k] => alone[k] /\ hook[k] # "subscribe"
         /\ \A q \in Calls \ {k} : waiting'[q] = waiting[q] /\ alone'[q] = alone[q]
  BY DEF TypeOK, GiveUp

(* Every step begins, continues, gives up, ends or breaks off calls, or    *)
(* changes nothing.                                                        *)
StepsOn(k) ==
  \/ \E left \in SUBSET todo[k] :
       /\ hook[k] \in {"subscribe", "unsubscribe", "devices"}
       /\ Goes(k, hook[k], left)
       /\ hook[k] = "subscribe" => \A t \in todo[k] \ left : Allowed(client[k], t)
  \/ /\ hook[k] = "disconnect"
     /\ client[k] \in Hubs
     /\ Goes(k, "devices", DevicesOf[client[k]])

LEMMA HandlerKinds ==
  ASSUME NEW k \in Calls, Handler(k)
  PROVE  /\ Running(k)
         /\ \/ Done(k) /\ (UNCHANGED brokerVars \/ GrantRequest(k))
            \/ StepsOn(k) /\ UNCHANGED brokerVars
  <1>1. CASE \/ Online(k) \/ GrantRequest(k) \/ UnsubscribeFails(k) \/ Answer(k)
             \/ \E t \in todo[k] : RefuseRequest(k, t) \/ UnsubscribeStops(k, t)
    BY <1>1
    DEF Online, GrantRequest, UnsubscribeFails, Answer, RefuseRequest, UnsubscribeStops,
        Running
  <1>2. CASE DisconnectHub(k)
    BY <1>2 DEF DisconnectHub, StepsOn, Running
  <1>3. ASSUME NEW t \in todo[k],
               AcceptTopic(k, t) \/ ForgetTopic(k, t) \/ DisconnectDevice(k, t)
        PROVE  Running(k) /\ StepsOn(k) /\ UNCHANGED brokerVars
    <2>1. /\ Goes(k, hook[k], todo[k] \ {t})
          /\ hook[k] \in {"subscribe", "unsubscribe", "devices"}
          /\ hook[k] = "subscribe" => Allowed(client[k], t)
          /\ UNCHANGED brokerVars
      BY <1>3 DEF AcceptTopic, ForgetTopic, DisconnectDevice
    <2>2. todo[k] \ {t} \in SUBSET todo[k] OBVIOUS
    <2>3. QED BY <2>1, <2>2 DEF StepsOn, Running
  <1> QED BY <1>1, <1>2, <1>3 DEF Handler

(* A handler's step is its own call's. *)
LEMMA HandlerOthers ==
  ASSUME TypeOK, NEW k \in Calls, Handler(k)
  PROVE  /\ Running(k) /\ connected' = connected
         /\ \A q \in Calls \ {k} : Untouched(q) /\ alone'[q] = alone[q]
  <1>1. Running(k) /\ connected' = connected
    BY HandlerKinds DEF brokerVars, GrantRequest
  <1>2. CASE Done(k) BY <1>1, <1>2, CallEnds
  <1>3. CASE StepsOn(k)
    <2>1. PICK name, left : Goes(k, name, left) BY <1>3 DEF StepsOn
    <2>2. QED BY <1>1, <2>1, CallGoesOn
  <1> QED BY <1>2, <1>3, HandlerKinds

LEMMA StepKinds ==
  ASSUME [Next]_vars
  PROVE  \/ \E k \in Calls, c \in Clients :
              \/ Connect(k, c) \/ Offline(k, c)
              \/ \E ts \in SUBSET Topics : Subscribe(k, c, ts) \/ Unsubscribe(k, c, ts)
         \/ \E k \in Calls : GiveUp(k)
         \/ \E k \in Calls : StepsOn(k) /\ Running(k) /\ UNCHANGED brokerVars
         \/ \E k \in Calls :
              /\ Done(k) /\ Running(k)
              /\ UNCHANGED brokerVars \/ GrantRequest(k)
         \/ Exit
         \/ UNCHANGED vars
  BY HandlerKinds DEF Next, Broker

LEMMA CallInit == Init => CallInv
  BY DEF Init, CallInv, Rested, Solitary, OneWaits, Running

LEMMA CallStep ==
  ASSUME TypeOK, CallInv, [Next]_vars
  PROVE  CallInv'
  <1> USE DEF CallInv, Rested, Solitary, OneWaits, Running
  <1>1. ASSUME NEW k \in Calls, NEW c \in Clients,
               NEW name \in {"online", "subscribe", "unsubscribe", "disconnect"},
               NEW ts, NEW left, Call(k, c, name, ts, left)
        PROVE  CallInv'
    <2>1. \A q \in Calls : q \notin RunningOf(c) <=> ~Running(q) \/ client[q] # c
      BY DEF RunningOf
    <2>2. QED BY <1>1, <2>1, CallBegins DEF Untouched
  <1>2. ASSUME NEW k \in Calls, GiveUp(k) PROVE CallInv'
    BY <1>2, CallGivenUp
  <1>3. ASSUME NEW k \in Calls, NEW name \in Hooks \ {"none"}, NEW left,
               Goes(k, name, left), Running(k)
        PROVE  CallInv'
    BY <1>3, CallGoesOn DEF Untouched
  <1>4. ASSUME NEW k \in Calls, Done(k) PROVE CallInv'
    BY <1>4, CallEnds DEF Untouched
  <1>5. CASE Exit
    BY <1>5 DEF Exit
  <1>6. CASE UNCHANGED vars
    BY <1>6 DEF vars, callVars
  <1>7. ASSUME NEW k \in Calls, NEW c \in Clients,
               \/ Connect(k, c) \/ Offline(k, c)
               \/ \E ts \in SUBSET Topics : Subscribe(k, c, ts) \/ Unsubscribe(k, c, ts)
        PROVE  CallInv'
    <2>1. \E name \in {"online", "subscribe", "unsubscribe", "disconnect"}, ts, left \in SUBSET Topics :
            Call(k, c, name, ts, left)
      BY <1>7 DEF Connect, Offline, Subscribe, Unsubscribe
    <2>2. QED BY <1>1, <2>1
  <1>8. ASSUME NEW k \in Calls, StepsOn(k), Running(k) PROVE CallInv'
    BY <1>3, <1>8 DEF StepsOn, Hooks
  <1> QED
    BY <1>2, <1>4, <1>5, <1>6, <1>7, <1>8, StepKinds

-----------------------------------------------------------------------------
(* What the broker has done for the client of a call. *)

LEMMA BrokerInit == Init => BrokerInv
  BY DEF Init, BrokerInv, Attended, Subscriptions, Requests

LEMMA AttendedStep ==
  ASSUME TypeOK, CallInv, Attended, [Next]_vars
  PROVE  Attended'
  <1> USE DEF Attended
  <1>0. Rested BY DEF CallInv
  <1>1. ASSUME NEW k \in Calls, NEW c \in Clients, Connect(k, c) PROVE Attended'
    <2>1. Call(k, c, "online", {}, {}) /\ connected' = [connected EXCEPT ![c] = TRUE]
      BY <1>1 DEF Connect
    <2>2. QED BY <1>0, <2>1, CallBegins DEF TypeOK, Untouched
  <1>2. ASSUME NEW k \in Calls, NEW c \in Clients, Offline(k, c) PROVE Attended'
    <2>1. Call(k, c, "disconnect", {}, {}) /\ connected' = [connected EXCEPT ![c] = FALSE]
      BY <1>2 DEF Offline
    <2>2. QED BY <1>0, <2>1, CallBegins DEF TypeOK, Untouched
  <1>3. ASSUME NEW k \in Calls, NEW c \in Clients, NEW ts,
               Subscribe(k, c, ts) \/ Unsubscribe(k, c, ts)
        PROVE  Attended'
    <2>1. PICK name \in {"subscribe", "unsubscribe"} : Call(k, c, name, ts, ts)
      BY <1>3 DEF Subscribe, Unsubscribe
    <2>2. connected' = connected /\ connected[c]
      BY <1>3 DEF Subscribe, Unsubscribe, Request, brokerVars
    <2>3. QED BY <1>0, <2>1, <2>2, CallBegins DEF Untouched
  <1>4. ASSUME NEW k \in Calls, GiveUp(k) PROVE Attended'
    <2>1. connected' = connected BY <1>4 DEF GiveUp, brokerVars
    <2>2. QED BY <1>4, <2>1, CallGivenUp
  <1>5. ASSUME NEW k \in Calls, StepsOn(k), UNCHANGED brokerVars PROVE Attended'
    <2>1. connected' = connected BY <1>5 DEF brokerVars
    <2>2. PICK name, left : /\ Goes(k, name, left)
                            /\ name = hook[k] \/ (hook[k] = "disconnect" /\ name = "devices")
      BY <1>5 DEF StepsOn
    <2>3. QED BY <2>1, <2>2, CallGoesOn DEF Untouched
  <1>6. ASSUME NEW k \in Calls, Done(k), UNCHANGED brokerVars \/ GrantRequest(k)
        PROVE  Attended'
    <2>1. connected' = connected BY <1>6 DEF brokerVars, GrantRequest
    <2>2. QED BY <1>6, <2>1, CallEnds DEF Untouched
  <1>7. CASE Exit
    BY <1>7 DEF Exit
  <1>8. CASE UNCHANGED vars
    BY <1>8 DEF vars, callVars, brokerVars
  <1> QED
    BY <1>1, <1>2, <1>3, <1>4, <1>5, <1>6, <1>7, <1>8, StepKinds

LEMMA SubscriptionsStep ==
  ASSUME TypeOK, BrokerInv, [Next]_vars
  PROVE  Subscriptions'
  <1> USE DEF Subscriptions
  <1>0. Subscriptions BY DEF BrokerInv
  <1>1. ASSUME \/ \E k \in Calls, c \in Clients : Connect(k, c) \/ Offline(k, c)
               \/ \E k \in Calls, c \in Clients, ts \in SUBSET Topics :
                    Subscribe(k, c, ts) \/ Unsubscribe(k, c, ts)
        PROVE  Subscriptions'
    <2>1. ASSUME NEW k \in Calls, NEW c \in Clients, Connect(k, c) \/ Offline(k, c)
          PROVE  Subscriptions'
      BY <1>0, <2>1 DEF Connect, Offline, TypeOK, Allowed
    <2>2. ASSUME NEW k \in Calls, NEW c \in Clients, NEW ts \in SUBSET Topics,
                 Subscribe(k, c, ts) \/ Unsubscribe(k, c, ts)
          PROVE  Subscriptions'
      BY <1>0, <2>2 DEF Subscribe, Unsubscribe, brokerVars, TypeOK, Allowed
    <2>3. QED BY <1>1, <2>1, <2>2
  <1>2. ASSUME NEW k \in Calls, GrantRequest(k) PROVE Subscriptions'
    <2>1. SubscribeRequest(k) /\ todo[k] = {}
      BY <1>2 DEF GrantRequest, BrokerInv, Requests
    <2>2. waiting[k] => connected[client[k]]
      BY <1>2 DEF GrantRequest, BrokerInv, Attended
    <2>3. \A t \in topics[k] : Allowed(client[k], t)
      BY <2>1 DEF SubscribeRequest
    <2>4. client[k] \in Clients BY DEF TypeOK
    <2>5. QED BY <1>0, <1>2, <2>2, <2>3, <2>4 DEF GrantRequest, TypeOK, Allowed
  <1>3. ASSUME UNCHANGED <<connected, subs>> PROVE Subscriptions'
    BY <1>0, <1>3 DEF Allowed
  <1> QED
    BY <1>1, <1>2, <1>3, StepKinds DEF GiveUp, Exit, vars, brokerVars

(* What a call has been asked stays as it is for the others. *)
LEMMA RequestKept ==
  ASSUME TypeOK, Rested, Requests, NEW q \in Calls, Untouched(q),
         alone'[q] => alone[q],
         alone'[q] /\ hook[q] = "unsubscribe" =>
           dropped[client[q]] \subseteq dropped'[client[q]]
  PROVE  /\ hook'[q] = "subscribe" => SubscribeRequest(q)'
         /\ hook'[q] = "unsubscribe" => UnsubscribeRequest(q)'
         /\ hook'[q] = "devices" => DevicesRequest(q)'
  BY DEF Requests, Untouched, SubscribeRequest, UnsubscribeRequest, DevicesRequest,
         Allowed, DevicesIn, LeftTopics

LEMMA RequestsStep ==
  ASSUME TypeOK, CallInv, BrokerInv, [Next]_vars
  PROVE  Requests'
  <1>0. Rested /\ Requests BY DEF CallInv, BrokerInv
  <1>1. ASSUME NEW k \in Calls, NEW c \in Clients, Connect(k, c) \/ Offline(k, c)
        PROVE  Requests'
    <2>1. PICK name \in {"online", "disconnect"} : Call(k, c, name, {}, {})
      BY <1>1 DEF Connect, Offline
    <2>2. dropped' = dropped BY <1>1 DEF Connect, Offline
    <2>3. ASSUME NEW q \in Calls \ {k}
          PROVE  /\ hook'[q] = "subscribe" => SubscribeRequest(q)'
                 /\ hook'[q] = "unsubscribe" => UnsubscribeRequest(q)'
                 /\ hook'[q] = "devices" => DevicesRequest(q)'
      <3>1. Untouched(q) /\ (alone'[q] => alone[q]) BY <1>0, <2>1, CallBegins
      <3>2. client[q] \in Clients BY DEF TypeOK
      <3>3. QED BY <1>0, <2>2, <3>1, <3>2, RequestKept
    <2>4. hook'[k] \in {"online", "disconnect"} BY <1>0, <2>1, CallBegins
    <2>5. QED BY <2>3, <2>4 DEF Requests
  <1>2. ASSUME NEW k \in Calls, NEW c \in Clients, NEW ts \in SUBSET Topics,
               Subscribe(k, c, ts) \/ Unsubscribe(k, c, ts)
        PROVE  Requests'
    <2>1. PICK name \in {"subscribe", "unsubscribe"} :
            /\ Call(k, c, name, ts, ts)
            /\ name = "subscribe" => dropped' = dropped
            /\ name = "unsubscribe" =>
                 dropped' = [dropped EXCEPT ![c] = @ \cup DevicesIn(LeftTopics(c, ts))]
      BY <1>2 DEF Subscribe, Unsubscribe, brokerVars
    <2>2. \A e \in Clients : dropped[e] \subseteq dropped'[e]
      BY <2>1 DEF TypeOK
    <2>3. ASSUME NEW q \in Calls \ {k}
          PROVE  /\ hook'[q] = "subscribe" => SubscribeRequest(q)'
                 /\ hook'[q] = "unsubscribe" => UnsubscribeRequest(q)'
                 /\ hook'[q] = "devices" => DevicesRequest(q)'
      <3>1. Untouched(q) /\ (alone'[q] => alone[q]) BY <1>0, <2>1, CallBegins
      <3>2. client[q] \in Clients BY DEF TypeOK
      <3>3. QED BY <1>0, <2>2, <3>1, <3>2, RequestKept
    <2>4. /\ hook'[k] = name /\ client'[k] = c /\ topics'[k] = ts /\ todo'[k] = ts
          /\ waiting'[k]
      BY <1>0, <2>1, CallBegins
    <2>5. CASE name = "subscribe"
      BY <2>3, <2>4, <2>5 DEF Requests, SubscribeRequest
    <2>6. CASE name = "unsubscribe"
      <3>1. DevicesIn(LeftTopics(c, ts)) \subseteq dropped'[c] BY <2>1, <2>6 DEF TypeOK
      <3>3. UnsubscribeRequest(k)'
        BY <2>4, <3>1 DEF UnsubscribeRequest, DevicesIn, LeftTopics
      <3>4. QED BY <2>3, <2>4, <2>6, <3>3 DEF Requests
    <2>7. QED BY <2>5, <2>6
  <1>3. ASSUME NEW k \in Calls, GiveUp(k) PROVE Requests'
    <2>1. dropped' = dropped BY <1>3 DEF GiveUp, brokerVars
    <2>2. QED
      BY <1>0, <1>3, <2>1, CallGivenUp
      DEF Requests, SubscribeRequest, UnsubscribeRequest, DevicesRequest, Allowed, DevicesIn,
          LeftTopics
  <1>4. ASSUME NEW k \in Calls, StepsOn(k), UNCHANGED brokerVars PROVE Requests'
    <2>1. dropped' = dropped BY <1>4 DEF brokerVars
    <2>2. ASSUME NEW name, NEW left, Goes(k, name, left)
          PROVE  \A q \in Calls \ {k} :
                   /\ hook'[q] = "subscribe" => SubscribeRequest(q)'
                   /\ hook'[q] = "unsubscribe" => UnsubscribeRequest(q)'
                   /\ hook'[q] = "devices" => DevicesRequest(q)'
      <3>1. ASSUME NEW q \in Calls \ {k} PROVE Untouched(q) /\ (alone'[q] => alone[q])
        BY <2>2, CallGoesOn
      <3>2. QED BY <1>0, <2>1, <3>1, RequestKept
    <2>3. ASSUME NEW left \in SUBSET todo[k],
                 hook[k] \in {"subscribe", "unsubscribe", "devices"},
                 Goes(k, hook[k], left),
                 hook[k] = "subscribe" =>
                   \A t \in todo[k] \ left : Allowed(client[k], t)
          PROVE  Requests'
      <3>1. /\ hook'[k] = hook[k] /\ client'[k] = client[k] /\ topics'[k] = topics[k]
            /\ todo'[k] = left /\ waiting'[k] = waiting[k] /\ alone'[k] = alone[k]
        BY <2>3, CallGoesOn
      <3>2. /\ hook[k] = "subscribe" => SubscribeRequest(k)'
            /\ hook[k] = "unsubscribe" => UnsubscribeRequest(k)'
            /\ hook[k] = "devices" => DevicesRequest(k)'
        BY <1>0, <2>1, <2>3, <3>1
        DEF Requests, SubscribeRequest, UnsubscribeRequest, DevicesRequest, Allowed,
            DevicesIn, LeftTopics
      <3>3. QED BY <2>2, <2>3, <3>1, <3>2 DEF Requests
    <2>4. ASSUME client[k] \in Hubs, Goes(k, "devices", DevicesOf[client[k]])
          PROVE  Requests'
      <3>1. hook'[k] = "devices" /\ client'[k] = client[k]
            /\ todo'[k] = DevicesOf[client[k]]
        BY <2>4, CallGoesOn
      <3>2. QED BY <2>2, <2>4, <3>1 DEF Requests, DevicesRequest
    <2>5. QED BY <1>4, <2>3, <2>4 DEF StepsOn
  <1>5. ASSUME NEW k \in Calls, Done(k), Running(k),
               UNCHANGED brokerVars \/ GrantRequest(k)
        PROVE  Requests'
    <2>1. ASSUME NEW q \in Calls \ {k}
          PROVE  /\ hook'[q] = "subscribe" => SubscribeRequest(q)'
                 /\ hook'[q] = "unsubscribe" => UnsubscribeRequest(q)'
                 /\ hook'[q] = "devices" => DevicesRequest(q)'
      <3>1. Untouched(q) /\ alone'[q] = alone[q] BY <1>5, CallEnds
      <3>2. alone[q] => client[q] # client[k]
        BY <1>5 DEF CallInv, Solitary
      <3>3. alone[q] => dropped'[client[q]] = dropped[client[q]]
        BY <1>5, <3>2 DEF GrantRequest, TypeOK, brokerVars
      <3>4. QED BY <1>0, <3>1, <3>3, RequestKept
    <2>2. hook'[k] = "none" BY <1>5, CallEnds
    <2>3. QED BY <2>1, <2>2 DEF Requests
  <1>6. CASE Exit
    BY <1>6 DEF Exit, Requests
  <1>7. CASE UNCHANGED vars
    BY <1>0, <1>7
    DEF vars, callVars, brokerVars, Requests, SubscribeRequest, UnsubscribeRequest,
        DevicesRequest, Allowed, DevicesIn, LeftTopics
  <1> QED
    BY <1>1, <1>2, <1>3, <1>4, <1>5, <1>6, <1>7, StepKinds

LEMMA BrokerStep ==
  ASSUME TypeOK, CallInv, BrokerInv, [Next]_vars
  PROVE  BrokerInv'
  BY AttendedStep, SubscriptionsStep, RequestsStep DEF BrokerInv

-----------------------------------------------------------------------------
(* What a step does to the log. *)

LEMMA HubReport ==
  ASSUME TypeOK, NEW k \in Calls, NEW status \in {"on", "off"}, NEW xs,
         ReportHub(k, status) \/ HubFault(k, status, xs)
  PROVE  /\ deviceLog' = deviceLog
         /\ \A c \in Clients \ {client[k]} : hubLog'[c] = hubLog[c]
         /\ \A x : x # client[k] /\ x \in suspect => x \in suspect'
         /\ HubFault(k, status, xs) => xs \subseteq suspect'
         /\ ReportHub(k, status) =>
              client[k] \in suspect' \/ (alone[k] /\ hubLog'[client[k]] = status)
  BY DEF TypeOK, ReportHub, HubFault, Fault, Settle, Settles

LEMMA DeviceReport ==
  ASSUME TypeOK, NEW k \in Calls, NEW x \in Devices, NEW status \in {"on", "off"},
         ReportDevice(k, x, status) \/ DeviceFault(x, status)
  PROVE  /\ hubLog' = hubLog
         /\ \A y \in Devices \ {x} : deviceLog'[y] = deviceLog[y]
         /\ \A y : y # x /\ y \in suspect => y \in suspect'
         /\ \/ x \in suspect'
            \/ alone[k] /\ x \in DevicesOf[client[k]] /\ deviceLog'[x] = status
  <1>1. x # client[k] BY HubFacts DEF TypeOK
  <1> QED
    BY <1>1 DEF TypeOK, ReportDevice, DeviceFault, Fault, Settle, Settles

(* The call of c has yet to report about x, or has to take a report back. *)
Misses(k, c, x) == Running(k) /\ client[k] = c /\ x \in Unreported(k)

LEMMA OpenMisses ==
  ASSUME NEW c, NEW x
  PROVE  /\ Open(c, x) <=> \E k \in Calls : Misses(k, c, x)
         /\ Open(c, x)' <=> \E k \in Calls : Misses(k, c, x)'
  BY DEF Open, Misses, RunningOf, Running, Unreported

LEMMA OpenKept ==
  ASSUME NEW k \in Calls, NEW c, NEW x, \A q \in Calls \ {k} : Untouched(q),
         Misses(k, c, x) => Misses(k, c, x)', Open(c, x)
  PROVE  Open(c, x)'
  <1>1. \A q \in Calls \ {k} : Misses(q, c, x)' <=> Misses(q, c, x)
    BY DEF Misses, Untouched, Unreported, Running, DevicesIn, LeftTopics
  <1> QED BY <1>1, OpenMisses

LEMMA HubMisses ==
  ASSUME TypeOK, Requests, NEW k \in Calls, NEW c \in Hubs
  PROVE  Misses(k, c, c) <=> hook[k] \in {"online", "disconnect"} /\ client[k] = c
  <1>1. /\ c \in Clients /\ c \notin Devices /\ client[k] \in Clients
        /\ c \notin DevicesOf[client[k]]
    BY HubFacts DEF TypeOK
  <1>2. \A ts \in SUBSET Topics : c \notin DevicesIn(ts)
    BY <1>1, DevicesInTopics
  <1>3. topics[k] \ todo[k] \in SUBSET Topics BY DEF TypeOK
  <1>4. hook[k] = "unsubscribe" => LeftTopics(client[k], todo[k]) \in SUBSET Topics
    BY DevicesInTopics DEF Requests, UnsubscribeRequest
  <1>5. hook[k] = "devices" => c \notin todo[k]
    BY <1>1 DEF Requests, DevicesRequest
  <1> QED BY <1>1, <1>2, <1>3, <1>4, <1>5 DEF Misses, Unreported, Running

LEMMA DeviceMisses ==
  ASSUME TypeOK, NEW k \in Calls, NEW c \in Hubs, NEW d \in DevicesOf[c]
  PROVE  /\ c \in Clients /\ d \in Devices /\ d \notin Clients
         /\ Misses(k, c, d) <=>
              /\ client[k] = c
              /\ \/ hook[k] = "disconnect"
                 \/ hook[k] = "devices" /\ d \in todo[k]
                 \/ hook[k] = "subscribe" /\ d \in DevicesIn(topics[k] \ todo[k])
                 \/ /\ hook[k] = "unsubscribe"
                    /\ d \in DevicesIn(LeftTopics(client[k], todo[k]))
  <1>1. c \in Clients /\ d \in Devices /\ d \notin Clients /\ client[k] \in Clients
    BY HubFacts DEF TypeOK
  <1> QED BY <1>1 DEF Misses, Unreported, Running

HubEntry(c) ==
  c \notin suspect /\ ~Open(c, c) => (hubLog[c] = "on" <=> connected[c])

DeviceEntry(c, d) ==
  d \notin suspect /\ ~Open(c, d) =>
    (deviceLog[d] = "on" <=> SubscribedTo(c, d) /\ d \notin dropped[c])

LEMMA LogByEntries ==
  /\ LogMatchesBroker <=>
       \A c \in Hubs :
         /\ HubEntry(c)
         /\ \A d \in DevicesOf[c] :
              OwnDevice(c, d) /\ Unshared(d) => DeviceEntry(c, d)
  /\ LogMatchesBroker' <=>
       \A c \in Hubs :
         /\ HubEntry(c)'
         /\ \A d \in DevicesOf[c] :
              OwnDevice(c, d) /\ Unshared(d) => DeviceEntry(c, d)'
  BY DEF LogMatchesBroker, HubEntry, DeviceEntry, OwnDevice, Unshared

-----------------------------------------------------------------------------
(* The entry of a hub. *)

LEMMA HubQuiet ==
  ASSUME NEW c \in Hubs, HubEntry(c), connected'[c] = connected[c],
         hubLog'[c] = hubLog[c], c \in suspect => c \in suspect',
         Open(c, c) => Open(c, c)'
  PROVE  HubEntry(c)'
  BY DEF HubEntry

LEMMA HubBrokerStep ==
  ASSUME TypeOK, Rested, Requests, NEW c \in Hubs, HubEntry(c),
         NEW k \in Calls, Broker(k)
  PROVE  HubEntry(c)'
  <1>0. c \in Clients BY HubFacts
  <1>1. ASSUME NEW e \in Clients, NEW name, NEW ts, Call(k, e, name, ts, ts),
               connected'[c] # connected[c] => e = c /\ name \in {"online", "disconnect"},
               UNCHANGED logVars
        PROVE  HubEntry(c)'
    <2>1. /\ hook'[k] = name /\ client'[k] = e
          /\ \A q \in Calls \ {k} : Untouched(q)
      BY <1>1, CallBegins
    <2>2. CASE e = c /\ name \in {"online", "disconnect"}
      <3>1. Misses(k, c, c)' BY <1>0, <2>1, <2>2 DEF Misses, Unreported, Running
      <3>2. QED BY <3>1, OpenMisses DEF HubEntry
    <2>3. CASE ~(e = c /\ name \in {"online", "disconnect"})
      <3>1. ~Misses(k, c, c) BY <1>1 DEF Misses, Call
      <3>2. Open(c, c) => Open(c, c)' BY <2>1, <3>1, OpenKept
      <3>3. QED BY <1>1, <2>3, <3>2, HubQuiet DEF logVars
    <2>4. QED BY <2>2, <2>3
  <1>2. ASSUME NEW e \in Clients, Connect(k, e) \/ Offline(k, e) PROVE HubEntry(c)'
    <2>1. PICK name \in {"online", "disconnect"} : Call(k, e, name, {}, {})
      BY <1>2 DEF Connect, Offline
    <2>2. connected'[c] # connected[c] => e = c
      BY <1>0, <1>2 DEF Connect, Offline, TypeOK
    <2>3. UNCHANGED logVars BY <1>2 DEF Connect, Offline
    <2>4. QED BY <1>1, <2>1, <2>2, <2>3
  <1>3. ASSUME NEW e \in Clients, NEW ts, Subscribe(k, e, ts) \/ Unsubscribe(k, e, ts)
        PROVE  HubEntry(c)'
    <2>1. PICK name : Call(k, e, name, ts, ts)
      BY <1>3 DEF Subscribe, Unsubscribe
    <2>2. UNCHANGED <<connected, logVars>>
      BY <1>3 DEF Subscribe, Unsubscribe, brokerVars
    <2>3. QED BY <1>1, <2>1, <2>2
  <1>4. CASE GiveUp(k)
    <2>1. Open(c, c) => Open(c, c)'
      BY <1>4, CallGivenUp DEF Open, RunningOf, Unreported, Running, DevicesIn, LeftTopics
    <2>2. QED BY <1>4, <2>1, HubQuiet DEF GiveUp, brokerVars
  <1> QED BY <1>2, <1>3, <1>4 DEF Broker

LEMMA HubHandlerStep ==
  ASSUME TypeOK, Requests, Attended, NEW c \in Hubs, HubEntry(c),
         NEW k \in Calls, Handler(k)
  PROVE  HubEntry(c)'
  <1>0. /\ c \in Clients /\ c \notin Devices /\ client[k] \in Clients
        /\ connected' = connected
        /\ \A q \in Calls \ {k} : Untouched(q)
    BY HubFacts, HandlerOthers DEF TypeOK
  <1>1. ASSUME ~(hook[k] \in {"online", "disconnect"} /\ client[k] = c),
               hubLog'[c] = hubLog[c], c \in suspect => c \in suspect'
        PROVE  HubEntry(c)'
    <2>1. ~Misses(k, c, c) BY <1>1, HubMisses
    <2>2. Open(c, c) => Open(c, c)' BY <1>0, <2>1, OpenKept
    <2>3. QED BY <1>0, <1>1, <2>2, HubQuiet
  <1>2. ASSUME NEW status \in {"on", "off"}, NEW xs,
               ReportHub(k, status) \/ (HubFault(k, status, xs) /\ client[k] \in xs),
               alone[k] => (status = "on" <=> connected[client[k]])
        PROVE  HubEntry(c)'
    <2>1. CASE client[k] = c
      BY <1>0, <1>2, <2>1, HubReport DEF HubEntry
    <2>2. CASE client[k] # c
      BY <1>0, <1>1, <1>2, <2>2, HubReport
    <2>3. QED BY <2>1, <2>2
  <1>3. ASSUME UNCHANGED <<hubLog, suspect>>, client[k] \notin Hubs PROVE HubEntry(c)'
    BY <1>1, <1>3
  <1>4. CASE Online(k)
    <2>1. alone[k] => connected[client[k]] BY <1>4 DEF Online, Attended
    <2>2. CASE ReportHub(k, "on") \/ HubFault(k, "on", {client[k]})
      BY <1>2, <2>1, <2>2
    <2>3. CASE client[k] \notin Hubs /\ UNCHANGED logVars
      BY <1>3, <2>3 DEF logVars
    <2>4. QED BY <1>4, <2>2, <2>3 DEF Online
  <1>5. CASE DisconnectHub(k)
    <2>1. alone[k] => ~connected[client[k]] BY <1>5 DEF DisconnectHub, Attended
    <2>2. CASE \/ ReportHub(k, "off")
               \/ HubFault(k, "off", {client[k]} \cup DevicesOf[client[k]])
      BY <1>2, <2>1, <2>2
    <2>3. CASE client[k] \notin Hubs /\ UNCHANGED logVars
      BY <1>3, <2>3 DEF logVars
    <2>4. QED BY <1>5, <2>2, <2>3 DEF DisconnectHub
  <1>6. CASE GrantRequest(k) \/ UnsubscribeFails(k) \/ Answer(k)
    BY <1>1, <1>6 DEF GrantRequest, UnsubscribeFails, Answer, Fault, logVars
  <1>7. ASSUME NEW t \in todo[k], RefuseRequest(k, t) \/ UnsubscribeStops(k, t)
        PROVE  HubEntry(c)'
    BY <1>1, <1>7 DEF RefuseRequest, UnsubscribeStops
  <1>8. ASSUME NEW t \in todo[k],
               AcceptTopic(k, t) \/ ForgetTopic(k, t) \/ DisconnectDevice(k, t)
        PROVE  HubEntry(c)'
    <2>1. hook[k] \in {"subscribe", "unsubscribe", "devices"}
      BY <1>8 DEF AcceptTopic, ForgetTopic, DisconnectDevice
    <2>2. /\ AcceptTopic(k, t) \/ ForgetTopic(k, t) => DeviceOf(t) \in Devices
          /\ DisconnectDevice(k, t) => t \in Devices
      BY <1>8, <2>1, TopicFacts, HubFacts
      DEF AcceptTopic, ForgetTopic, DisconnectDevice, Requests, SubscribeRequest,
          UnsubscribeRequest, DevicesRequest, TypeOK
    <2>3. \/ UNCHANGED logVars
          \/ \E x \in Devices, status \in {"on", "off"} :
               ReportDevice(k, x, status) \/ DeviceFault(x, status)
      BY <1>8, <2>2 DEF AcceptTopic, ForgetTopic, DisconnectDevice
    <2>4. hubLog' = hubLog /\ (c \in suspect => c \in suspect')
      BY <1>0, <2>3, DeviceReport DEF logVars
    <2>5. QED BY <1>1, <2>1, <2>4
  <1> QED BY <1>4, <1>5, <1>6, <1>7, <1>8 DEF Handler

LEMMA HubEntryStep ==
  ASSUME TypeOK, CallInv, BrokerInv, NEW c \in Hubs, HubEntry(c), [Next]_vars
  PROVE  HubEntry(c)'
  <1>0. Rested /\ Requests /\ Attended BY DEF CallInv, BrokerInv
  <1>1. CASE Exit
    <2>1. UNCHANGED <<connected, hubLog>> /\ (c \in suspect => c \in suspect')
      BY <1>1 DEF Exit, Fault, brokerVars
    <2>2. Open(c, c) => c \in suspect'
      BY <1>1 DEF Exit, Fault, Open, RunningOf
    <2>3. QED BY <2>1, <2>2 DEF HubEntry
  <1>2. CASE UNCHANGED vars
    BY <1>2
    DEF vars, callVars, brokerVars, logVars, HubEntry, Open, RunningOf, Unreported, Running,
        DevicesIn, LeftTopics
  <1> QED
    BY <1>0, <1>1, <1>2, HubBrokerStep, HubHandlerStep DEF Next

-----------------------------------------------------------------------------
(* The entry of a hub's own device. *)

(* The handlers' reports about it. *)
ReportsAbout(k, d, status) ==
  \/ /\ status = "on"
     /\ \E t \in todo[k] : DeviceOf(t) = d /\ AcceptTopic(k, t)
  \/ /\ status = "off"
     /\ \E t \in LeftTopics(client[k], todo[k]) : DeviceOf(t) = d /\ ForgetTopic(k, t)
  \/ status = "off" /\ d \in todo[k] /\ DisconnectDevice(k, d)

QuietAbout(d) == deviceLog'[d] = deviceLog[d] /\ (d \in suspect => d \in suspect')

(* A report about a client's own device is the client's, or leaves the     *)
(* entry suspected.                                                        *)
LEMMA DeviceReports ==
  ASSUME TypeOK, Requests, NEW c \in Clients, NEW d \in Devices, OwnDevice(c, d),
         NEW k \in Calls, Handler(k)
  PROVE  /\ \/ QuietAbout(d)
            \/ \E status \in {"on", "off"} : ReportsAbout(k, d, status)
         /\ \A status \in {"on", "off"} :
              ReportsAbout(k, d, status) =>
                d \in suspect' \/ (client[k] = c /\ alone[k] /\ deviceLog'[d] = status)
  <1>0. d \notin Clients /\ client[k] \in Clients
    BY HubFacts DEF TypeOK
  <1>1. ASSUME Online(k) \/ DisconnectHub(k) PROVE QuietAbout(d)
    <2>1. \/ UNCHANGED logVars
          \/ \E status \in {"on", "off"} : \E xs :
               ReportHub(k, status) \/ HubFault(k, status, xs)
      BY <1>1 DEF Online, DisconnectHub
    <2>2. QED BY <1>0, <2>1, HubReport DEF QuietAbout, logVars
  <1>2. ASSUME \/ GrantRequest(k) \/ UnsubscribeFails(k) \/ Answer(k)
               \/ \E t \in todo[k] : RefuseRequest(k, t) \/ UnsubscribeStops(k, t)
        PROVE  QuietAbout(d)
    BY <1>2
    DEF GrantRequest, UnsubscribeFails, Answer, RefuseRequest, UnsubscribeStops, Fault,
        logVars, QuietAbout
  <1>3. ASSUME NEW x \in Devices, NEW status \in {"on", "off"},
               ReportDevice(k, x, status) \/ DeviceFault(x, status)
        PROVE  /\ x # d => QuietAbout(d)
               /\ x = d =>
                    \/ d \in suspect'
                    \/ client[k] = c /\ alone[k] /\ deviceLog'[d] = status
    BY <1>0, <1>3, DeviceReport, OwnCaller DEF QuietAbout
  <1>4. ASSUME NEW t \in todo[k], AcceptTopic(k, t)
        PROVE  /\ DeviceOf(t) # d => QuietAbout(d)
               /\ DeviceOf(t) = d =>
                    \/ d \in suspect'
                    \/ client[k] = c /\ alone[k] /\ deviceLog'[d] = "on"
    <2>1. DeviceOf(t) \in Devices
      BY <1>4, TopicFacts DEF AcceptTopic, Requests, SubscribeRequest
    <2>2. QED BY <1>3, <1>4, <2>1 DEF AcceptTopic
  <1>5. ASSUME NEW t \in todo[k], ForgetTopic(k, t)
        PROVE  /\ DeviceOf(t) # d \/ t \notin LeftTopics(client[k], todo[k]) => QuietAbout(d)
               /\ DeviceOf(t) = d /\ t \in LeftTopics(client[k], todo[k]) =>
                    \/ d \in suspect'
                    \/ client[k] = c /\ alone[k] /\ deviceLog'[d] = "off"
    <2>1. DeviceOf(t) \in Devices
      BY <1>5, TopicFacts DEF ForgetTopic, Requests, UnsubscribeRequest
    <2>2. UNCHANGED logVars => QuietAbout(d) BY DEF logVars, QuietAbout
    <2>3. QED BY <1>3, <1>5, <2>1, <2>2 DEF ForgetTopic
  <1>6. ASSUME NEW x \in todo[k], DisconnectDevice(k, x)
        PROVE  /\ x # d => QuietAbout(d)
               /\ x = d =>
                    \/ d \in suspect'
                    \/ client[k] = c /\ alone[k] /\ deviceLog'[d] = "off"
    <2>1. x \in Devices
      BY <1>6, HubFacts DEF DisconnectDevice, Requests, DevicesRequest, TypeOK
    <2>2. QED BY <1>3, <1>6, <2>1 DEF DisconnectDevice
  <1>7. QuietAbout(d) \/ \E status \in {"on", "off"} : ReportsAbout(k, d, status)
    BY <1>1, <1>2, <1>4, <1>5, <1>6 DEF Handler, ReportsAbout
  <1>8. LeftTopics(client[k], todo[k]) \subseteq todo[k] BY DevicesInTopics
  <1> QED BY <1>4, <1>5, <1>6, <1>7, <1>8 DEF ReportsAbout

(* The broker and the client's requests leave the device as it was. *)
KeepsDevice(c, d) ==
  /\ SubscribedTo(c, d)' <=> SubscribedTo(c, d)
  /\ d \in dropped'[c] <=> d \in dropped[c]

LEMMA DeviceQuiet ==
  ASSUME NEW c \in Hubs, NEW d, DeviceEntry(c, d), QuietAbout(d), KeepsDevice(c, d),
         Open(c, d) => Open(c, d)'
  PROVE  DeviceEntry(c, d)'
  BY DEF DeviceEntry, QuietAbout, KeepsDevice

LEMMA DeviceKept ==
  ASSUME NEW c, NEW d, subs'[c] = subs[c], dropped'[c] = dropped[c]
  PROVE  KeepsDevice(c, d)
  BY DEF KeepsDevice, SubscribedTo, DevicesIn

LEMMA DeviceBrokerStep ==
  ASSUME TypeOK, Rested, Subscriptions, NEW c \in Hubs, NEW d \in DevicesOf[c],
         Unshared(d), DeviceEntry(c, d), NEW k \in Calls, Broker(k)
  PROVE  DeviceEntry(c, d)'
  <1>0. c \in Clients /\ d \in Devices BY HubFacts
  <1>1. ASSUME NEW e \in Clients, NEW name, NEW ts, Call(k, e, name, ts, ts),
               UNCHANGED logVars, KeepsDevice(c, d)
        PROVE  DeviceEntry(c, d)'
    <2>1. \A q \in Calls \ {k} : Untouched(q) BY <1>1, CallBegins
    <2>2. ~Misses(k, c, d) BY <1>1 DEF Misses, Call
    <2>3. Open(c, d) => Open(c, d)' BY <2>1, <2>2, OpenKept
    <2>4. QED BY <1>1, <2>3, DeviceQuiet DEF logVars, QuietAbout
  <1>3. ASSUME NEW e \in Clients, Connect(k, e) PROVE DeviceEntry(c, d)'
    BY <1>1, <1>3, DeviceKept DEF Connect
  <1>4. ASSUME NEW e \in Clients, Offline(k, e) PROVE DeviceEntry(c, d)'
    <2>1. Call(k, e, "disconnect", {}, {}) /\ UNCHANGED logVars BY <1>4 DEF Offline
    <2>2. CASE e = c
      <3>1. hook'[k] = "disconnect" /\ client'[k] = c BY <2>1, <2>2, CallBegins
      <3>2. Misses(k, c, d)' BY <1>0, <3>1 DEF Misses, Unreported, Running
      <3>3. QED BY <3>2, OpenMisses DEF DeviceEntry
    <2>3. CASE e # c
      <3>1. subs'[c] = subs[c] /\ dropped'[c] = dropped[c]
        BY <1>0, <1>4, <2>3 DEF Offline, TypeOK
      <3>2. QED BY <1>1, <2>1, <3>1, DeviceKept
    <2>4. QED BY <2>2, <2>3
  <1>5. ASSUME NEW e \in Clients, NEW ts \in SUBSET Topics, Subscribe(k, e, ts)
        PROVE  DeviceEntry(c, d)'
    BY <1>1, <1>5, DeviceKept DEF Subscribe, brokerVars
  <1>6. ASSUME NEW e \in Clients, NEW ts \in SUBSET Topics, Unsubscribe(k, e, ts)
        PROVE  DeviceEntry(c, d)'
    <2>1. Call(k, e, "unsubscribe", ts, ts) /\ UNCHANGED logVars
      BY <1>6 DEF Unsubscribe
    <2>2. CASE e = c /\ d \in DevicesIn(LeftTopics(c, ts))
      <3>1. hook'[k] = "unsubscribe" /\ client'[k] = c /\ todo'[k] = ts
        BY <2>1, <2>2, CallBegins
      <3>2. Misses(k, c, d)'
        BY <1>0, <2>2, <3>1 DEF Misses, Unreported, Running, DevicesIn, LeftTopics
      <3>3. QED BY <3>2, OpenMisses DEF DeviceEntry
    <2>3. CASE e = c /\ d \notin DevicesIn(LeftTopics(c, ts))
      <3>1. subs'[c] = subs[c] \ ts
        BY <1>0, <1>6, <2>3 DEF Unsubscribe, TypeOK
      <3>2. d \in dropped'[c] <=> d \in dropped[c]
        BY <1>0, <1>6, <2>3 DEF Unsubscribe, TypeOK
      <3>3. ASSUME NEW t \in subs[c], t[1] # "malformed", DeviceOf(t) = d PROVE t \notin ts
        <4>1. Allowed(c, t) /\ t \in Topics BY <1>0, <3>3 DEF Subscriptions, TypeOK
        <4>2. t[1] \in Kinds /\ t[1] # "shared" /\ d \in Access[c]
          BY <3>3, <4>1, TopicFacts DEF Unshared, Allowed
        <4>3. t[1] = "plain" BY <3>3, <4>2 DEF Kinds
        <4>4. QED BY <2>3, <3>3, <4>2, <4>3 DEF DevicesIn, LeftTopics
      <3>4. SubscribedTo(c, d)' <=> SubscribedTo(c, d)
        BY <3>1, <3>3 DEF SubscribedTo, DevicesIn
      <3>5. QED BY <1>1, <2>1, <3>2, <3>4 DEF KeepsDevice
    <2>4. CASE e # c
      <3>1. subs'[c] = subs[c] /\ dropped'[c] = dropped[c]
        BY <1>0, <1>6, <2>4 DEF Unsubscribe, TypeOK
      <3>2. QED BY <1>1, <2>1, <3>1, DeviceKept
    <2>5. QED BY <2>2, <2>3, <2>4
  <1>7. CASE GiveUp(k)
    <2>1. Open(c, d) => Open(c, d)'
      BY <1>7, CallGivenUp DEF Open, RunningOf, Unreported, Running, DevicesIn, LeftTopics
    <2>2. QED BY <1>7, <2>1, DeviceKept, DeviceQuiet DEF GiveUp, brokerVars, QuietAbout
  <1> QED BY <1>3, <1>4, <1>5, <1>6, <1>7 DEF Broker

(* The steps that do not report about the device. *)
LEMMA DeviceUnreportedStep ==
  ASSUME TypeOK, Requests, Granting, NEW c \in Hubs, NEW d \in DevicesOf[c],
         OwnDevice(c, d), DeviceEntry(c, d), NEW k \in Calls, Handler(k),
         \A status \in {"on", "off"} : ~ReportsAbout(k, d, status)
  PROVE  DeviceEntry(c, d)'
  <1>0. /\ c \in Clients /\ d \in Devices /\ d \notin Clients
        /\ client[k] \in Clients
        /\ \A q \in Calls \ {k} : Untouched(q)
        /\ QuietAbout(d)
    BY HubFacts, HandlerOthers, DeviceReports DEF TypeOK
  <1>1. ASSUME KeepsDevice(c, d), Misses(k, c, d) => Misses(k, c, d)' \/ d \in suspect'
        PROVE  DeviceEntry(c, d)'
    <2>1. CASE d \in suspect' BY <2>1 DEF DeviceEntry
    <2>2. CASE Misses(k, c, d) => Misses(k, c, d)'
      <3>1. Open(c, d) => Open(c, d)' BY <1>0, <2>2, OpenKept
      <3>2. QED BY <1>0, <1>1, <3>1, DeviceQuiet
    <2>3. QED BY <1>1, <2>1, <2>2
  <1>2. UNCHANGED brokerVars => KeepsDevice(c, d)
    BY DeviceKept DEF brokerVars
  <1>3. CASE Online(k)
    <2>1. ~Misses(k, c, d) BY <1>3, DeviceMisses DEF Online
    <2>2. QED BY <1>1, <1>2, <1>3, <2>1 DEF Online
  <1>4. CASE GrantRequest(k)
    <2>1. CASE client[k] = c /\ d \in DevicesIn(topics[k])
      <3>1. d \in DevicesIn(topics[k] \ todo[k])
        BY <1>4, <2>1 DEF GrantRequest
      <3>2. d \in suspect \/ (waiting[k] /\ deviceLog[d] = "on")
        BY <1>4, <2>1, <3>1 DEF Granting, GrantRequest
      <3>3. ASSUME waiting[k], deviceLog[d] = "on" PROVE DeviceEntry(c, d)'
        <4>1. topics[k] \subseteq subs'[c] /\ d \notin dropped'[c]
          BY <1>0, <1>4, <2>1, <3>3 DEF GrantRequest, TypeOK
        <4>2. SubscribedTo(c, d)' BY <2>1, <4>1 DEF SubscribedTo, DevicesIn
        <4>3. QED BY <1>0, <3>3, <4>1, <4>2 DEF DeviceEntry, QuietAbout
      <3>4. QED BY <1>0, <3>2, <3>3 DEF DeviceEntry, QuietAbout
    <2>2. CASE ~(client[k] = c /\ d \in DevicesIn(topics[k]))
      <3>1. ~Misses(k, c, d)
        BY <1>4, <2>2, DeviceMisses DEF GrantRequest, DevicesIn
      <3>2. KeepsDevice(c, d)
        <4>1. CASE client[k] # c
          <5>1. subs'[c] = subs[c] /\ dropped'[c] = dropped[c]
            BY <1>0, <1>4, <4>1 DEF GrantRequest, TypeOK
          <5>2. QED BY <5>1, DeviceKept
        <4>2. CASE d \notin DevicesIn(topics[k])
          <5>1. subs'[c] = subs[c] \/ subs'[c] = subs[c] \cup topics[k]
            BY <1>0, <1>4 DEF GrantRequest, TypeOK
          <5>2. d \in dropped'[c] <=> d \in dropped[c]
            BY <1>0, <1>4, <4>2 DEF GrantRequest, TypeOK
          <5>3. SubscribedTo(c, d)' <=> SubscribedTo(c, d)
            BY <4>2, <5>1 DEF SubscribedTo, DevicesIn
          <5>4. QED BY <5>2, <5>3 DEF KeepsDevice
        <4>3. QED BY <2>2, <4>1, <4>2
      <3>3. QED BY <1>1, <3>1, <3>2
    <2>3. QED BY <2>1, <2>2
  <1>5. CASE UnsubscribeFails(k)
    <2>1. Misses(k, c, d) => d \in suspect'
      BY <1>5, DeviceMisses DEF UnsubscribeFails, Fault
    <2>2. QED BY <1>1, <1>2, <1>5, <2>1 DEF UnsubscribeFails
  <1>6. CASE Answer(k)
    <2>1. ~Misses(k, c, d) BY <1>6, DeviceMisses DEF Answer, DevicesIn, LeftTopics
    <2>2. QED BY <1>1, <1>2, <1>6, <2>1 DEF Answer
  <1>7. ASSUME NEW t \in todo[k], RefuseRequest(k, t) PROVE DeviceEntry(c, d)'
    <2>1. Misses(k, c, d) => d \in suspect'
      BY <1>7, DeviceMisses DEF RefuseRequest
    <2>2. QED BY <1>1, <1>2, <1>7, <2>1 DEF RefuseRequest
  <1>8. ASSUME NEW t \in todo[k], UnsubscribeStops(k, t) PROVE DeviceEntry(c, d)'
    <2>1. Misses(k, c, d) => d \in suspect'
      BY <1>8, DeviceMisses DEF UnsubscribeStops
    <2>2. QED BY <1>1, <1>2, <1>8, <2>1 DEF UnsubscribeStops
  <1>9. CASE DisconnectHub(k)
    <2>1. ASSUME client[k] = c PROVE Misses(k, c, d)' \/ d \in suspect'
      <3>1. CASE Goes(k, "devices", DevicesOf[client[k]])
        <4>1. hook'[k] = "devices" /\ client'[k] = c /\ todo'[k] = DevicesOf[c]
          BY <2>1, <3>1, CallGoesOn
        <4>2. QED BY <1>0, <4>1 DEF Misses, Unreported, Running
      <3>2. CASE HubFault(k, "off", {client[k]} \cup DevicesOf[client[k]])
        BY <2>1, <3>2 DEF HubFault, Fault
      <3>3. QED BY <1>9, <2>1, <3>1, <3>2 DEF DisconnectHub
    <2>2. Misses(k, c, d) => client[k] = c BY DEF Misses
    <2>3. QED BY <1>1, <1>2, <1>9, <2>1, <2>2 DEF DisconnectHub
  <1>10. ASSUME NEW x \in todo[k],
                AcceptTopic(k, x) \/ ForgetTopic(k, x) \/ DisconnectDevice(k, x)
         PROVE  DeviceEntry(c, d)'
    <2>1. /\ Goes(k, hook[k], todo[k] \ {x})
          /\ hook[k] \in {"subscribe", "unsubscribe", "devices"}
      BY <1>10 DEF AcceptTopic, ForgetTopic, DisconnectDevice
    <2>2. /\ hook'[k] = hook[k] /\ topics'[k] = topics[k] /\ todo'[k] = todo[k] \ {x}
          /\ client'[k] = client[k]
      BY <2>1, CallGoesOn
    <2>3. /\ hook[k] = "unsubscribe" =>
               DeviceOf(x) # d \/ x \notin LeftTopics(client[k], todo[k])
          /\ hook[k] = "devices" => x # d
      BY <1>10 DEF ReportsAbout, AcceptTopic, ForgetTopic, DisconnectDevice
    <2>4. Misses(k, c, d) => Misses(k, c, d)'
      BY <1>0, <2>1, <2>2, <2>3 DEF Misses, Unreported, Running, DevicesIn, LeftTopics
    <2>5. QED
      BY <1>1, <1>2, <1>10, <2>4 DEF AcceptTopic, ForgetTopic, DisconnectDevice
  <1> QED BY <1>3, <1>4, <1>5, <1>6, <1>7, <1>8, <1>9, <1>10 DEF Handler

(* The steps that do. *)
LEMMA DeviceReportedStep ==
  ASSUME TypeOK, Requests, Attended, Subscriptions, NEW c \in Hubs, NEW d \in DevicesOf[c],
         OwnDevice(c, d), NEW k \in Calls, Handler(k),
         NEW status \in {"on", "off"}, ReportsAbout(k, d, status)
  PROVE  DeviceEntry(c, d)'
  <1>0. /\ c \in Clients /\ d \in Devices /\ d \notin Clients
        /\ d \in suspect' \/ (client[k] = c /\ alone[k] /\ deviceLog'[d] = status)
    BY HubFacts, DeviceReports
  <1>1. SUFFICES ASSUME client[k] = c, alone[k], deviceLog'[d] = status
                 PROVE  DeviceEntry(c, d)'
    BY <1>0 DEF DeviceEntry
  <1>2. ASSUME NEW t \in todo[k], DeviceOf(t) = d, AcceptTopic(k, t)
        PROVE  DeviceEntry(c, d)'
    <2>1. /\ hook'[k] = "subscribe" /\ topics'[k] = topics[k] /\ todo'[k] = todo[k] \ {t}
          /\ client'[k] = c /\ t \in topics[k]
      BY <1>1, <1>2, CallGoesOn DEF AcceptTopic, Requests, SubscribeRequest
    <2>2. t[1] # "malformed" BY <1>2 DEF AcceptTopic, Allowed
    <2>3. d \in DevicesIn(topics'[k] \ todo'[k]) BY <1>2, <2>1, <2>2 DEF DevicesIn
    <2>4. Misses(k, c, d)'
      BY <1>0, <2>1, <2>3 DEF Misses, Unreported, Running, DevicesIn
    <2>5. QED BY <2>4, OpenMisses DEF DeviceEntry
  <1>3. ASSUME NEW t \in LeftTopics(client[k], todo[k]), DeviceOf(t) = d, ForgetTopic(k, t),
               status = "off"
        PROVE  DeviceEntry(c, d)'
    <2>1. todo[k] \subseteq topics[k]
          /\ DevicesIn(LeftTopics(c, topics[k])) \subseteq dropped[c]
      BY <1>1, <1>3 DEF ForgetTopic, Requests, UnsubscribeRequest
    <2>2. d \in dropped[c] BY <1>1, <1>3, <2>1 DEF DevicesIn, LeftTopics
    <2>3. dropped' = dropped BY <1>3 DEF ForgetTopic, brokerVars
    <2>4. QED BY <1>1, <1>3, <2>2, <2>3 DEF DeviceEntry
  <1>4. ASSUME d \in todo[k], DisconnectDevice(k, d), status = "off"
        PROVE  DeviceEntry(c, d)'
    <2>1. subs[c] = {}
      BY <1>0, <1>1, <1>4 DEF DisconnectDevice, Attended, Subscriptions
    <2>2. subs' = subs BY <1>4 DEF DisconnectDevice, brokerVars
    <2>3. QED BY <1>1, <1>4, <2>1, <2>2 DEF DeviceEntry, SubscribedTo, DevicesIn
  <1> QED BY <1>2, <1>3, <1>4 DEF ReportsAbout

LEMMA DeviceEntryStep ==
  ASSUME TypeOK, CallInv, BrokerInv, Granting, NEW c \in Hubs, NEW d \in DevicesOf[c],
         OwnDevice(c, d), Unshared(d), DeviceEntry(c, d), [Next]_vars
  PROVE  DeviceEntry(c, d)'
  <1>0. Rested /\ Requests /\ Attended /\ Subscriptions BY DEF CallInv, BrokerInv
  <1>1. CASE Exit
    <2>1. UNCHANGED <<subs, dropped, deviceLog>> /\ (d \in suspect => d \in suspect')
      BY <1>1 DEF Exit, Fault, brokerVars
    <2>2. Open(c, d) => d \in suspect'
      BY <1>1 DEF Exit, Fault, Open, RunningOf
    <2>3. QED BY <2>1, <2>2 DEF DeviceEntry, SubscribedTo, DevicesIn
  <1>2. CASE UNCHANGED vars
    BY <1>2
    DEF vars, callVars, brokerVars, logVars, DeviceEntry, SubscribedTo, Open, RunningOf,
        Unreported, Running, DevicesIn, LeftTopics
  <1> QED
    BY <1>0, <1>1, <1>2, DeviceBrokerStep, DeviceUnreportedStep, DeviceReportedStep DEF Next

-----------------------------------------------------------------------------
(* A subscription's reports until it is granted. *)

Stands(q, c, d) ==
  hook[q] = "subscribe" /\ client[q] = c /\ d \in DevicesIn(topics[q] \ todo[q])
    => d \in suspect \/ (waiting[q] /\ deviceLog[d] = "on")

LEMMA GrantingByCalls ==
  /\ Granting <=>
       \A q \in Calls, c \in Hubs : \A d \in DevicesOf[c] :
         OwnDevice(c, d) => Stands(q, c, d)
  /\ Granting' <=>
       \A q \in Calls, c \in Hubs : \A d \in DevicesOf[c] :
         OwnDevice(c, d) => Stands(q, c, d)'
  BY DEF Granting, Stands, OwnDevice

LEMMA StandsBrokerStep ==
  ASSUME TypeOK, Rested, NEW q \in Calls, NEW c, NEW d, Stands(q, c, d),
         NEW k \in Calls, Broker(k)
  PROVE  Stands(q, c, d)'
  <1> USE DEF Stands
  <1>1. ASSUME NEW e \in Clients, NEW name, NEW ts, Call(k, e, name, ts, ts),
               UNCHANGED logVars
        PROVE  Stands(q, c, d)'
    <2>1. CASE q = k
      <3>1. topics'[q] \ todo'[q] = {} BY <1>1, <2>1, CallBegins
      <3>2. QED BY <3>1 DEF DevicesIn
    <2>2. CASE q # k
      BY <1>1, <2>2, CallBegins DEF Untouched, logVars, DevicesIn
    <2>3. QED BY <2>1, <2>2
  <1>2. CASE GiveUp(k)
    <2>1. CASE q = k
      <3>1. hook[k] = "subscribe" => DevicesIn(topics[k]) \subseteq suspect'
        BY <1>2 DEF GiveUp
      <3>2. QED BY <1>2, <2>1, <3>1, CallGivenUp DEF DevicesIn
    <2>2. CASE q # k
      BY <1>2, <2>2, CallGivenUp DEF GiveUp, DevicesIn
    <2>3. QED BY <2>1, <2>2
  <1>3. ASSUME NEW e \in Clients, NEW ts \in SUBSET Topics,
               \/ Connect(k, e) \/ Offline(k, e)
               \/ Subscribe(k, e, ts) \/ Unsubscribe(k, e, ts)
        PROVE  Stands(q, c, d)'
    BY <1>1, <1>3 DEF Connect, Offline, Subscribe, Unsubscribe
  <1> QED BY <1>2, <1>3 DEF Broker

LEMMA StandsHandlerStep ==
  ASSUME TypeOK, Solitary, Requests, NEW q \in Calls, NEW c \in Hubs,
         NEW d \in DevicesOf[c], OwnDevice(c, d), Stands(q, c, d),
         NEW k \in Calls, Handler(k)
  PROVE  Stands(q, c, d)'
  <1> USE DEF Stands
  <1>0. c \in Clients /\ d \in Devices BY HubFacts
  <1>1. CASE q # k
    <2>1. Untouched(q) BY <1>1, HandlerOthers
    <2>2. CASE QuietAbout(d)
      BY <2>1, <2>2 DEF Untouched, QuietAbout, DevicesIn
    <2>3. ASSUME NEW status \in {"on", "off"}, ReportsAbout(k, d, status)
          PROVE  Stands(q, c, d)'
      <3>1. Running(k) BY HandlerOthers
      <3>2. d \in suspect' \/ (client[k] = c /\ alone[k])
        BY <1>0, <2>3, DeviceReports
      <3>3. CASE /\ hook[q] = "subscribe" /\ client[q] = c
                 /\ d \in DevicesIn(topics[q] \ todo[q])
        <4>1. Running(q) BY <3>3 DEF Running
        <4>2. ~(client[k] = c /\ alone[k]) BY <1>1, <3>3, <4>1 DEF Solitary
        <4>3. QED BY <3>2, <4>2
      <3>4. CASE ~(/\ hook[q] = "subscribe" /\ client[q] = c
                   /\ d \in DevicesIn(topics[q] \ todo[q]))
        BY <2>1, <3>4 DEF Untouched, DevicesIn
      <3>5. QED BY <3>3, <3>4
    <2>4. QED BY <1>0, <2>2, <2>3, DeviceReports
  <1>2. CASE q = k
    <2>1. CASE hook'[k] # "subscribe" BY <1>2, <2>1
    <2>2. ASSUME NEW t \in todo[k], AcceptTopic(k, t) PROVE Stands(k, c, d)'
      <3>1. /\ topics'[k] = topics[k] /\ todo'[k] = todo[k] \ {t}
            /\ waiting'[k] = waiting[k] /\ client'[k] = client[k]
        BY <2>2, CallGoesOn DEF AcceptTopic
      <3>2. CASE DeviceOf(t) = d
        <4>1. ReportsAbout(k, d, "on") BY <2>2, <3>2 DEF ReportsAbout
        <4>2. alone[k] => waiting[k]
          BY <2>2 DEF AcceptTopic, Requests, SubscribeRequest
        <4>3. QED BY <1>0, <3>1, <4>1, <4>2, DeviceReports
      <3>3. CASE DeviceOf(t) # d
        <4>1. hook[k] = "subscribe" BY <2>2 DEF AcceptTopic
        <4>2. d \in DevicesIn(topics'[k] \ todo'[k]) => d \in DevicesIn(topics[k] \ todo[k])
          BY <3>1, <3>3 DEF DevicesIn
        <4>3. \A status \in {"on", "off"} : ~ReportsAbout(k, d, status)
          <5>1. ASSUME NEW u \in todo[k], AcceptTopic(k, u) PROVE u = t
            BY <3>1, <5>1, CallGoesOn DEF AcceptTopic
          <5>2. QED
            BY <3>3, <4>1, <5>1 DEF ReportsAbout, ForgetTopic, DisconnectDevice
        <4>4. QuietAbout(d) BY <1>0, <4>3, DeviceReports
        <4>5. QED BY <1>2, <3>1, <4>1, <4>2, <4>4 DEF QuietAbout, DevicesIn
      <3>4. QED BY <3>2, <3>3
    <2>3. (\E t \in todo[k] : AcceptTopic(k, t)) \/ hook'[k] # "subscribe"
      <3>1. CASE Done(k) BY <3>1, CallEnds
      <3>2. CASE DisconnectHub(k)
        BY <3>2, CallEnds, CallGoesOn DEF DisconnectHub
      <3>3. ASSUME NEW t \in todo[k], ForgetTopic(k, t) \/ DisconnectDevice(k, t)
            PROVE  hook'[k] # "subscribe"
        BY <3>3, CallGoesOn DEF ForgetTopic, DisconnectDevice
      <3>4. QED
        BY <3>1, <3>2, <3>3
        DEF Handler, Online, GrantRequest, UnsubscribeFails, Answer, RefuseRequest,
            UnsubscribeStops
    <2>4. QED BY <1>2, <2>1, <2>2, <2>3
  <1> QED BY <1>1, <1>2

LEMMA GrantingStep ==
  ASSUME TypeOK, CallInv, BrokerInv, Granting, [Next]_vars
  PROVE  Granting'
  <1>0. Rested /\ Solitary /\ Requests BY DEF CallInv, BrokerInv
  <1>1. ASSUME NEW q \in Calls, NEW c \in Hubs, NEW d \in DevicesOf[c], OwnDevice(c, d)
        PROVE  Stands(q, c, d)'
    <2>1. Stands(q, c, d) BY <1>1, GrantingByCalls
    <2>2. CASE Exit BY <2>2 DEF Exit, Stands
    <2>3. CASE UNCHANGED vars
      BY <2>1, <2>3 DEF vars, callVars, logVars, Stands, DevicesIn
    <2>4. QED
      BY <1>0, <1>1, <2>1, <2>2, <2>3, StandsBrokerStep, StandsHandlerStep DEF Next
  <1> QED BY <1>1, GrantingByCalls

-----------------------------------------------------------------------------
LEMMA LogInit == Init => Granting /\ LogMatchesBroker
  BY HubFacts DEF Init, Granting, LogMatchesBroker, SubscribedTo, DevicesIn

LEMMA LogStep ==
  ASSUME TypeOK, CallInv, BrokerInv, Granting, LogMatchesBroker, [Next]_vars
  PROVE  LogMatchesBroker'
  BY HubEntryStep, DeviceEntryStep, LogByEntries

(* The invariant of the webhooks and the log. *)
THEOREM ConnectionInvariant == Spec => []ConnInv
  <1>1. Init => ConnInv
    BY TypeInit, CallInit, BrokerInit, LogInit DEF ConnInv
  <1>2. ConnInv /\ [Next]_vars => ConnInv'
    BY TypeStep, CallStep, BrokerStep, GrantingStep, LogStep DEF ConnInv
  <1> QED BY <1>1, <1>2, PTL DEF Spec

(* online.go, subscribe.go, unsubscribe.go, disconnect.go: every variable keeps *)
(* its type, whatever the broker, the faults and the calls in between do.       *)
THEOREM ConnectionTypes == Spec => []TypeOK
  <1>1. ConnInv => TypeOK BY DEF ConnInv
  <1> QED BY <1>1, ConnectionInvariant, PTL

(* online.go:33, subscribe.go, unsubscribe.go:35 and disconnect.go:37: an entry *)
(* of the log about which no call is running, and whose last report was made    *)
(* undisturbed, shows what the broker knows.                                    *)
THEOREM LogCorrect == Spec => []LogMatchesBroker
  <1>1. ConnInv => LogMatchesBroker BY DEF ConnInv
  <1> QED BY <1>1, ConnectionInvariant, PTL


-----------------------------------------------------------------------------
(* What an unsubscription leaves in the log. *)

(* What an unsubscription has reported stands, or is suspected. *)
Forgotten(q, c, d) ==
  /\ hook[q] = "unsubscribe" /\ client[q] = c
  /\ d \in DevicesIn(LeftTopics(c, topics[q] \ todo[q]))
  => d \in suspect \/ deviceLog[d] = "off"

Forgetting ==
  \A q \in Calls, c \in Clients, d \in Devices : OwnDevice(c, d) => Forgotten(q, c, d)

LEMMA ForgottenLater ==
  ASSUME NEW q, NEW c, NEW d
  PROVE  Forgotten(q, c, d)' <=>
           (/\ hook'[q] = "unsubscribe" /\ client'[q] = c
            /\ d \in DevicesIn(LeftTopics(c, topics'[q] \ todo'[q]))
            => d \in suspect' \/ deviceLog'[d] = "off")
  BY DEF Forgotten, DevicesIn, LeftTopics

LEMMA ForgottenBrokerStep ==
  ASSUME TypeOK, Rested, NEW q \in Calls, NEW c, NEW d \in Devices, Forgotten(q, c, d),
         NEW k \in Calls, Broker(k)
  PROVE  Forgotten(q, c, d)'
  <1>1. ASSUME NEW e \in Clients, NEW name, NEW ts, Call(k, e, name, ts, ts),
               UNCHANGED logVars
        PROVE  Forgotten(q, c, d)'
    <2>1. CASE q = k
      <3>1. topics'[q] \ todo'[q] = {} BY <1>1, <2>1, CallBegins
      <3>2. QED BY <3>1, ForgottenLater DEF DevicesIn, LeftTopics
    <2>2. CASE q # k
      BY <1>1, <2>2, CallBegins, ForgottenLater DEF Untouched, logVars, Forgotten
    <2>3. QED BY <2>1, <2>2
  <1>2. CASE GiveUp(k)
    BY <1>2, CallGivenUp, ForgottenLater DEF GiveUp, Forgotten
  <1>3. ASSUME NEW e \in Clients, NEW ts \in SUBSET Topics,
               \/ Connect(k, e) \/ Offline(k, e)
               \/ Subscribe(k, e, ts) \/ Unsubscribe(k, e, ts)
        PROVE  Forgotten(q, c, d)'
    BY <1>1, <1>3 DEF Connect, Offline, Subscribe, Unsubscribe
  <1> QED BY <1>2, <1>3 DEF Broker

LEMMA ForgottenHandlerStep ==
  ASSUME TypeOK, Solitary, Requests, NEW q \in Calls, NEW c \in Clients,
         NEW d \in Devices, OwnDevice(c, d), Forgotten(q, c, d),
         NEW k \in Calls, Handler(k)
  PROVE  Forgotten(q, c, d)'
  <1>1. CASE q # k
    <2>1. Untouched(q) /\ Running(k) BY <1>1, HandlerOthers
    <2>2. CASE QuietAbout(d)
      BY <2>1, <2>2, ForgottenLater DEF Untouched, QuietAbout, Forgotten
    <2>3. CASE ~QuietAbout(d) /\ hook[q] = "unsubscribe" /\ client[q] = c
      <3>1. d \in suspect' \/ (client[k] = c /\ alone[k])
        BY <2>3, DeviceReports
      <3>2. Running(q) BY <2>3 DEF Running
      <3>3. ~(client[k] = c /\ alone[k]) BY <1>1, <2>3, <3>2 DEF Solitary
      <3>4. QED BY <3>1, <3>3, ForgottenLater
    <2>4. QED BY <2>1, <2>2, <2>3, ForgottenLater DEF Untouched
  <1>2. CASE q = k
    <2>1. CASE hook'[k] # "unsubscribe" BY <1>2, <2>1, ForgottenLater
    <2>2. ASSUME NEW t \in todo[k], ForgetTopic(k, t) PROVE Forgotten(k, c, d)'
      <3>1. /\ hook[k] = "unsubscribe" /\ client'[k] = client[k]
            /\ topics'[k] = topics[k] /\ todo'[k] = todo[k] \ {t}
        BY <2>2, CallGoesOn DEF ForgetTopic
      <3>2. CASE t \in LeftTopics(client[k], todo[k]) /\ DeviceOf(t) = d
        <4>1. ReportDevice(k, d, "off") \/ DeviceFault(d, "off")
          BY <2>2, <3>2 DEF ForgetTopic
        <4>2. d \in suspect' \/ deviceLog'[d] = "off" BY <4>1, DeviceReport
        <4>3. QED BY <4>2, ForgottenLater
      <3>3. CASE /\ ~(t \in LeftTopics(client[k], todo[k]) /\ DeviceOf(t) = d)
                 /\ client[k] = c
        <4>1. \A status \in {"on", "off"} : ~ReportsAbout(k, d, status)
          <5>1. ASSUME NEW u \in todo[k], ForgetTopic(k, u) PROVE u = t
            BY <3>1, <5>1, CallGoesOn DEF ForgetTopic
          <5>2. LeftTopics(client[k], todo[k]) \subseteq todo[k] BY DevicesInTopics
          <5>3. QED
            BY <3>1, <3>3, <5>1, <5>2 DEF ReportsAbout, AcceptTopic, DisconnectDevice
        <4>2. QuietAbout(d) BY <4>1, DeviceReports
        <4>3. d \in DevicesIn(LeftTopics(c, topics'[k] \ todo'[k])) =>
                d \in DevicesIn(LeftTopics(c, topics[k] \ todo[k]))
          BY <3>1, <3>3 DEF DevicesIn, LeftTopics
        <4>4. QED
          BY <1>2, <3>1, <3>3, <4>2, <4>3, ForgottenLater DEF QuietAbout, Forgotten
      <3>4. QED BY <3>1, <3>2, <3>3, ForgottenLater
    <2>3. (\E t \in todo[k] : ForgetTopic(k, t)) \/ hook'[k] # "unsubscribe"
      <3>1. CASE Done(k) BY <3>1, CallEnds
      <3>2. CASE DisconnectHub(k)
        BY <3>2, CallEnds, CallGoesOn DEF DisconnectHub
      <3>3. ASSUME NEW t \in todo[k], AcceptTopic(k, t) \/ DisconnectDevice(k, t)
            PROVE  hook'[k] # "unsubscribe"
        BY <3>3, CallGoesOn DEF AcceptTopic, DisconnectDevice
      <3>4. QED
        BY <3>1, <3>2, <3>3
        DEF Handler, Online, GrantRequest, UnsubscribeFails, Answer, RefuseRequest,
            UnsubscribeStops
    <2>4. QED BY <1>2, <2>1, <2>2, <2>3
  <1> QED BY <1>1, <1>2

LEMMA ForgettingStep ==
  ASSUME TypeOK, CallInv, BrokerInv, Forgetting, [Next]_vars
  PROVE  Forgetting'
  <1>0. Rested /\ Solitary /\ Requests BY DEF CallInv, BrokerInv
  <1>1. ASSUME NEW q \in Calls, NEW c \in Clients, NEW d \in Devices, OwnDevice(c, d)
        PROVE  Forgotten(q, c, d)'
    <2>1. Forgotten(q, c, d) BY <1>1 DEF Forgetting
    <2>2. CASE Exit BY <2>2, ForgottenLater DEF Exit
    <2>3. CASE UNCHANGED vars
      BY <2>1, <2>3, ForgottenLater DEF vars, callVars, logVars, Forgotten
    <2>4. QED
      BY <1>0, <1>1, <2>1, <2>2, <2>3, ForgottenBrokerStep, ForgottenHandlerStep DEF Next
  <1> QED BY <1>1 DEF Forgetting, OwnDevice

LEMMA ForgettingInvariant == Spec => []Forgetting
  <1>1. Init => Forgetting BY DEF Init, Forgetting, Forgotten
  <1>2. ConnInv /\ Forgetting /\ [Next]_vars => Forgetting'
    BY ForgettingStep DEF ConnInv
  <1> QED BY <1>1, <1>2, ConnectionInvariant, PTL DEF Spec

(* A call about well-formed topics that ends without a fault has come to   *)
(* the last of them.                                                       *)
LEMMA UnsubscribeEnds ==
  ASSUME TypeOK, BrokerInv, NEW k \in Calls, hook[k] = "unsubscribe", hook'[k] = "none",
         faults' = faults, \A t \in topics[k] : t[1] # "malformed", [Next]_vars
  PROVE  Answer(k)
  <1>0. /\ Running(k) /\ k \in Calls /\ todo[k] \subseteq topics[k]
        /\ faults \in 0..MaxFaults /\ MaxFaults \in Nat
    BY LogAssumption DEF Running, BrokerInv, Requests, UnsubscribeRequest, TypeOK, LogAssumption
  <1>1. ASSUME NEW q \in Calls, Broker(q) PROVE FALSE
    <2>1. ~Running(q) => q # k BY <1>0
    <2>2. hook'[k] = hook[k]
      BY <1>1, <2>1
      DEF Broker, GiveUp, Connect, Offline, Subscribe, Unsubscribe, Call, TypeOK
    <2>3. QED BY <2>2
  <1>2. ASSUME NEW q \in Calls, Handler(q) PROVE Answer(k)
    <2>1. q = k BY <1>2, HandlerOthers DEF Untouched
    <2>2. ASSUME NEW t \in todo[k], ForgetTopic(k, t) PROVE FALSE
      BY <2>2, CallGoesOn DEF ForgetTopic
    <2>3. ~UnsubscribeFails(k) BY <1>0 DEF UnsubscribeFails, Fault
    <2>4. \A t \in todo[k] : ~UnsubscribeStops(k, t) BY <1>0 DEF UnsubscribeStops
    <2>5. QED
      BY <1>2, <2>1, <2>2, <2>3, <2>4
      DEF Handler, Online, GrantRequest, DisconnectHub, AcceptTopic, RefuseRequest,
          DisconnectDevice
  <1>3. ~Exit BY <1>0 DEF Exit, Fault
  <1>4. ~UNCHANGED vars BY DEF vars, callVars
  <1> QED BY <1>1, <1>2, <1>3, <1>4 DEF Next

LEMMA AnswerForgets ==
  ASSUME TypeOK, BrokerInv, Forgetting, NEW k \in Calls, Answer(k), hook[k] = "unsubscribe",
         NEW t \in LeftTopics(client[k], topics[k]), OwnDevice(client[k], DeviceOf(t))
  PROVE  DeviceOf(t) \in suspect' \/ deviceLog'[DeviceOf(t)] = "off"
  <1>1. client[k] \in Clients /\ t \in Topics
    BY DevicesInTopics DEF BrokerInv, Requests, UnsubscribeRequest, TypeOK
  <1>2. DeviceOf(t) \in Devices BY <1>1, TopicFacts
  <1>3. topics[k] \ todo[k] = topics[k] BY DEF Answer
  <1>4. DeviceOf(t) \in DevicesIn(LeftTopics(client[k], topics[k] \ todo[k]))
    BY <1>3 DEF DevicesIn, LeftTopics
  <1>5. DeviceOf(t) \in suspect \/ deviceLog[DeviceOf(t)] = "off"
    BY <1>1, <1>2, <1>4 DEF Forgetting, Forgotten
  <1> QED BY <1>5 DEF Answer, logVars

(* unsubscribe.go:35-88: an unsubscription without a malformed topic ends  *)
(* with every device of the hub it names in a plain topic logged as        *)
(* disconnected, or suspected, however the calls of the client overlap and *)
(* whatever shared topics or other devices it names besides.               *)
THEOREM PlainIsLogged == Spec => PlainUnsubscribed
  <1>1. ConnInv /\ Forgetting /\ [Next]_vars =>
          [\A k \in Calls :
             /\ hook[k] = "unsubscribe" /\ hook'[k] = "none" /\ faults' = faults
             /\ \A t \in topics[k] : t[1] # "malformed"
             => \A t \in LeftTopics(client[k], topics[k]) :
                  OwnDevice(client[k], DeviceOf(t)) =>
                    DeviceOf(t) \in suspect' \/ deviceLog'[DeviceOf(t)] = "off"]_vars
    BY UnsubscribeEnds, AnswerForgets DEF ConnInv
  <1> QED
    BY <1>1, ConnectionInvariant, ForgettingInvariant, PTL DEF PlainUnsubscribed, Spec
=============================================================================
