------------------------ MODULE TopicDispatch_proofs ------------------------
(***************************************************************************)
(* What reaches the platform, and what a client may subscribe to, was      *)
(* allowed: proofs for any users, devices, hubs and topics.                *)
(*                                                                         *)
(* The inductive invariant says of a topic that has come to the hub check  *)
(* or further that the checks before were passed, and by which handler.    *)
(***************************************************************************)
EXTENDS TopicDispatch, SequenceTheorems, TLAPS

Answers == {"none", "ok", "redirect", "error"}
Phases == {"idle", "walk", "hub", "act", "limit", "exists", "done"}

(* A handler has the topic. *)
Held == phase \in {"hub", "act"} \/ (phase = "exists" /\ hook # "login")

StageInv ==
  /\ phase = "limit" => hook = "login"
  /\ Held => /\ hook \in {"publish", "subscribe"} /\ todo # <<>>
             /\ ~Ignores(handler, topic)
             /\ handler # "fog" => Asks(handler, topic)
  /\ phase = "hub" => handler \in ParseTopic /\ OwnsTopic(topic)
  /\ phase = "exists" /\ hook # "login" => handler \in {"processes", "health"}
  /\ phase = "act" =>
       /\ handler \in ParseTopic => OwnsTopic(topic) /\ OfHub(topic)
       /\ handler = "error" => topic.owner \in {NoUser, user}
       /\ handler = "health" => client \in HubAccess[user]

(* A message is one topic, which is settled only by the answer. *)
CallInv ==
  /\ hook = "publish" => todo = asked /\ todo # <<>>
  /\ phase # "done" => ~produced
  /\ phase = "idle" <=> hook = "none"
  /\ phase = "idle" => granted = {}
  /\ assigned \subseteq seen

DispatchInv ==
  /\ TypeOK
  /\ StageInv
  /\ CallInv
  /\ ProducedWasAllowed
  /\ GrantsWereAllowed
  /\ RedirectedWasNotProduced

-----------------------------------------------------------------------------
LEMMA HandlersLength == Len(Handlers) = 9
BY DEF Handlers

LEMMA TopicFacts ==
  ASSUME TypeOK, todo # <<>>
  PROVE  topic \in TopicType /\ Tail(todo) \in Seq(TopicType)
BY DEF TypeOK, topic

(* The definitions behind the allowances keep their meaning while nothing  *)
(* of the call changes and devices are only seen to come.                  *)
LEMMA AllowancesLast ==
  ASSUME UNCHANGED callVars, seen \subseteq seen', NEW t
  PROVE  /\ MayAct(t) => MayAct(t)'
         /\ MaySubscribe(t) => MaySubscribe(t)'
BY DEF callVars, MayAct, MaySubscribe, user, IsOwner, OwnerMissing, OfHub, Known,
       WildcardMissing

(* The answer ends the call. *)
LEMMA Replied ==
  ASSUME DispatchInv, phase \notin {"idle", "done"},
         NEW text \in Answers, Reply(text), Keeping,
         failed' \in BOOLEAN, produced' \in BOOLEAN,
         produced' => produced \/ (hook = "publish" /\ MayAct(topic)),
         text = "redirect" => ~produced'
  PROVE  DispatchInv'
<1>1. TypeOK'
  BY DEF DispatchInv, TypeOK, Reply, Keeping, callVars, Answers
<1>2. StageInv'
  BY DEF Reply, StageInv, Held
<1>3. CallInv'
  BY DEF DispatchInv, CallInv, Reply, Keeping, callVars
<1>4. \A t : MayAct(t) => MayAct(t)'
  BY AllowancesLast DEF Keeping
<1>5. \A t : MaySubscribe(t) => MaySubscribe(t)'
  BY AllowancesLast DEF Keeping
<1>6. ProducedWasAllowed'
  BY <1>4 DEF DispatchInv, ProducedWasAllowed, CallInv, Keeping, callVars, topic
<1>7. GrantsWereAllowed'
  BY <1>5 DEF DispatchInv, GrantsWereAllowed, Reply
<1>8. RedirectedWasNotProduced'
  BY DEF RedirectedWasNotProduced, Reply
<1> QED
  BY <1>1, <1>2, <1>3, <1>6, <1>7, <1>8 DEF DispatchInv

(* A topic of a subscription is settled. *)
LEMMA Settled ==
  ASSUME DispatchInv, phase \notin {"idle", "done"}, todo # <<>>, hook = "subscribe", NextTopic, Keeping,
         failed' \in BOOLEAN, UNCHANGED produced,
         refused' \subseteq refused \cup {topic},
         granted' \subseteq granted \cup {topic},
         topic \in granted' => topic \in granted \/ MaySubscribe(topic)
  PROVE  DispatchInv'
<1>0. topic \in TopicType /\ Tail(todo) \in Seq(TopicType)
  BY TopicFacts DEF DispatchInv
<1>1. TypeOK'
  BY <1>0, HandlersLength DEF DispatchInv, TypeOK, NextTopic, Keeping, callVars
<1>2. StageInv'
  BY DEF NextTopic, StageInv, Held
<1>3. CallInv'
  BY DEF DispatchInv, CallInv, NextTopic, Keeping, callVars
<1>4. \A t : MaySubscribe(t) => MaySubscribe(t)'
  BY AllowancesLast DEF Keeping
<1>5. ProducedWasAllowed' /\ RedirectedWasNotProduced'
  BY DEF DispatchInv, CallInv, ProducedWasAllowed, RedirectedWasNotProduced
<1>6. GrantsWereAllowed'
  BY <1>4 DEF DispatchInv, GrantsWereAllowed
<1> QED
  BY <1>1, <1>2, <1>3, <1>5, <1>6 DEF DispatchInv

(* The topic goes to the next handler. *)
LEMMA PassedOn ==
  ASSUME DispatchInv, phase = "walk", at <= Len(Handlers), Unhandled, Keeping,
         failed' \in BOOLEAN, UNCHANGED produced
  PROVE  DispatchInv'
<1>1. TypeOK'
  BY HandlersLength DEF DispatchInv, TypeOK, Unhandled, settledVars, Keeping, callVars
<1>2. StageInv'
  BY DEF Unhandled, StageInv, Held
<1>3. CallInv'
  BY DEF DispatchInv, CallInv, Unhandled, settledVars, Keeping, callVars
<1>4. \A t : MaySubscribe(t) => MaySubscribe(t)'
  BY AllowancesLast DEF Keeping
<1>5. ProducedWasAllowed' /\ RedirectedWasNotProduced'
  BY DEF DispatchInv, CallInv, ProducedWasAllowed, RedirectedWasNotProduced
<1>6. GrantsWereAllowed'
  BY <1>4 DEF DispatchInv, GrantsWereAllowed, Unhandled, settledVars
<1> QED
  BY <1>1, <1>2, <1>3, <1>5, <1>6 DEF DispatchInv

(* The handler gets on. *)
LEMMA Proceeded ==
  ASSUME DispatchInv, phase \notin {"idle", "done"},
         NEW to \in Phases \ {"idle", "done"}, Proceed(to), Keeping,
         failed' \in BOOLEAN, UNCHANGED produced, StageInv'
  PROVE  DispatchInv'
<1>1. TypeOK'
  BY DEF DispatchInv, TypeOK, Proceed, settledVars, Keeping, callVars, Phases
<1>3. CallInv'
  BY DEF DispatchInv, CallInv, Proceed, settledVars, Keeping, callVars, Phases
<1>4. \A t : MaySubscribe(t) => MaySubscribe(t)'
  BY AllowancesLast DEF Keeping
<1>5. ProducedWasAllowed' /\ RedirectedWasNotProduced'
  BY DEF DispatchInv, CallInv, ProducedWasAllowed, RedirectedWasNotProduced
<1>6. GrantsWereAllowed'
  BY <1>4 DEF DispatchInv, GrantsWereAllowed, Proceed, settledVars
<1> QED
  BY <1>1, <1>3, <1>5, <1>6 DEF DispatchInv

-----------------------------------------------------------------------------
(* Nothing but the stage changes: the topic and the handler stay what they *)
(* are, and so does what is asked of them.                                 *)
LEMMA StageKept ==
  ASSUME UNCHANGED callVars, UNCHANGED <<todo, at>>, seen \subseteq seen'
  PROVE  /\ topic' = topic /\ handler' = handler /\ user' = user
         /\ UNCHANGED <<config, hook, client, asked, payload>>
         /\ Ignores(handler, topic)' <=> Ignores(handler, topic)
         /\ Asks(handler, topic)' <=> Asks(handler, topic)
         /\ OwnsTopic(topic)' <=> OwnsTopic(topic)
         /\ OfHub(topic) => OfHub(topic)'
<1>1. /\ topic' = topic /\ handler' = handler /\ user' = user
      /\ UNCHANGED <<config, hook, client, asked, payload>>
  BY DEF callVars, topic, handler, user
<1>2. Ignores(handler, topic)' <=> Ignores(handler, topic)
  BY <1>1 DEF Ignores, OwnerMissing
<1>3. OwnsTopic(topic)' <=> OwnsTopic(topic)
  BY <1>1 DEF OwnsTopic
<1>4. OfHub(topic) => OfHub(topic)'
  BY <1>1 DEF OfHub
<1>5. Asks(handler, topic)' <=> Asks(handler, topic)
  BY <1>1, <1>2 DEF Asks, Malformed, WildcardMissing, NotForSubscribers, OwnerMissing
<1> QED
  BY <1>1, <1>2, <1>3, <1>4, <1>5

(* A handler, or the webhook itself, turns the call down. *)
LEMMA TurnedDown ==
  ASSUME DispatchInv, phase \notin {"idle", "done"}, Rejected \/ Error \/ HubDenied, Keeping,
         failed' \in BOOLEAN, UNCHANGED produced
  PROVE  DispatchInv'
<1>1. \E text \in Answers : Reply(text)
  BY DEF Rejected, Error, HubDenied, Answers
<1>2. produced' \in BOOLEAN /\ ~produced'
  BY DEF DispatchInv, TypeOK, CallInv
<1> QED
  BY <1>1, <1>2, Replied

LEMMA TopicRefused ==
  ASSUME DispatchInv, phase \notin {"idle", "done"}, todo # <<>>, hook = "subscribe",
         RefusedTopic, Keeping, failed' \in BOOLEAN, UNCHANGED produced
  PROVE  DispatchInv'
BY Settled DEF RefusedTopic

LEMMA TopicAccepted ==
  ASSUME DispatchInv, phase \notin {"idle", "done"}, todo # <<>>, Accepted, Keeping,
         failed' \in BOOLEAN, produced' \in BOOLEAN,
         hook = "publish" => (produced' => produced \/ MayAct(topic)),
         hook = "subscribe" => MaySubscribe(topic) /\ UNCHANGED produced
  PROVE  DispatchInv'
<1>1. CASE hook = "publish" /\ Reply("ok")
  BY <1>1, Replied DEF Answers
<1>2. CASE hook = "subscribe" /\ granted' = granted \cup {topic} /\ NextTopic /\ UNCHANGED refused
  BY <1>2, Settled
<1> QED
  BY <1>1, <1>2 DEF Accepted

-----------------------------------------------------------------------------
(* The steps of a handler. *)

LEMMA VisitStep == DispatchInv /\ Visit => DispatchInv'
<1> SUFFICES ASSUME DispatchInv, Visit PROVE DispatchInv'
  OBVIOUS
<1>1. /\ Keeping /\ UNCHANGED <<produced, failed>>
      /\ failed' \in BOOLEAN
      /\ phase = "walk" /\ todo # <<>> /\ at <= Len(Handlers)
      /\ hook \in {"publish", "subscribe"}
  BY DEF DispatchInv, TypeOK, CallInv, Visit, Quiet, Offered, Walking
<1>2. CASE Unhandled
  BY <1>1, <1>2, PassedOn
<1>3. CASE Rejected \/ Error
  BY <1>1, <1>3, TurnedDown
<1>4. CASE ~Ignores(handler, topic) /\ NotForSubscribers(handler, topic) /\ RefusedTopic
  <2>1. hook = "subscribe"
    BY <1>1, <1>4 DEF Ignores, NotForSubscribers
  <2> QED
    BY <1>1, <1>4, <2>1, TopicRefused
<1>5. CASE ~Ignores(handler, topic) /\ handler = "fog" /\ Proceed("act")
  <2>1. /\ topic' = topic /\ handler' = handler /\ UNCHANGED hook
        /\ ~Ignores(handler, topic)'
    BY <1>1, <1>5, StageKept DEF Keeping, Proceed, settledVars
  <2>2. StageInv'
    BY <1>1, <1>5, <2>1 DEF StageInv, Held, Proceed, settledVars, ParseTopic
  <2> QED
    BY <1>1, <1>5, <2>2, Proceeded DEF Phases
<1> QED
  BY <1>2, <1>3, <1>4, <1>5 DEF Visit

(* What a topic that a handler asks about is like. *)
LEMMA AskedTopic ==
  ASSUME ~Ignores(handler, topic), handler # "fog"
  PROVE  /\ topic.kind = handler
         /\ handler \in {"export", "notifications", "command"} => hook # "publish"
         /\ handler \in {"event", "response", "error"} => hook # "subscribe"
BY DEF Ignores

LEMMA AskStep == DispatchInv /\ Ask => DispatchInv'
<1> SUFFICES ASSUME DispatchInv, Ask PROVE DispatchInv'
  OBVIOUS
<1>1. /\ Keeping /\ UNCHANGED <<produced, failed>>
      /\ failed' \in BOOLEAN /\ produced' \in BOOLEAN
      /\ phase = "walk" /\ todo # <<>>
      /\ hook \in {"publish", "subscribe"}
      /\ Asks(handler, topic) /\ ~Ignores(handler, topic) /\ handler # "fog"
  BY DEF DispatchInv, TypeOK, CallInv, Ask, Asks, Quiet, Offered, Walking
<1>2. /\ topic.kind = handler
      /\ handler \in {"export", "notifications"} => hook = "subscribe"
  BY <1>1, AskedTopic
<1>3. CASE Rejected
  BY <1>1, <1>3, TurnedDown
<1>4. CASE Accepted /\ MaySubscribe(topic)
  BY <1>1, <1>4, TopicAccepted
<1>5. ASSUME NEW to \in {"hub", "act", "exists"}, Proceed(to),
             to = "hub" => handler \in ParseTopic /\ OwnsTopic(topic),
             to = "exists" => handler \in {"processes", "health"},
             to = "act" => /\ handler \in ParseTopic => OwnsTopic(topic) /\ OfHub(topic)
                           /\ handler = "error" => topic.owner \in {NoUser, user}
                           /\ handler # "health"
      PROVE  DispatchInv'
  <2>1. /\ topic' = topic /\ handler' = handler /\ user' = user
        /\ UNCHANGED <<config, hook, client, todo>>
        /\ ~Ignores(handler, topic)' /\ Asks(handler, topic)'
        /\ OwnsTopic(topic)' <=> OwnsTopic(topic)
        /\ OfHub(topic) => OfHub(topic)'
    BY <1>1, <1>5, StageKept DEF Keeping, Proceed, settledVars
  <2>2. StageInv'
    BY <1>1, <1>5, <2>1 DEF StageInv, Held, Proceed
  <2> QED
    BY <1>1, <1>5, <2>2, Proceeded DEF Phases
<1>6. CASE handler \in ParseTopic /\ AskAboutDevice(topic)
  <2>1. ~config.CheckHub => OfHub(topic)
    BY DEF OfHub
  <2> QED
    BY <1>3, <1>5, <1>6, <2>1 DEF AskAboutDevice, ParseTopic
<1>7. CASE handler = "processes" /\ AskAboutProcesses(topic)
  <2>1. user \in Admins \/ topic.target = client => MaySubscribe(topic)
    BY <1>2, <1>7 DEF MaySubscribe
  <2> QED
    BY <1>3, <1>4, <1>5, <1>7, <2>1 DEF AskAboutProcesses
<1>8. CASE handler \in {"export", "notifications"} /\ AskAboutUser(topic)
  <2>1. topic.owner = user => MaySubscribe(topic)
    BY <1>2, <1>8 DEF MaySubscribe
  <2>2. CASE RefusedTopic
    BY <1>1, <1>2, <1>8, <2>2, TopicRefused
  <2> QED
    BY <1>4, <1>8, <2>1, <2>2 DEF AskAboutUser
<1>9. CASE handler = "error" /\ AskAboutError(topic)
  BY <1>3, <1>5, <1>9 DEF AskAboutError, ParseTopic
<1>10. CASE handler = "health" /\ Proceed("exists")
  BY <1>5, <1>10
<1> QED
  BY <1>6, <1>7, <1>8, <1>9, <1>10 DEF Ask

LEMMA HubStep ==
  DispatchInv /\ (CheckHub \/ CheckHubFails \/ ExistsHub \/ ExistsHubFails) => DispatchInv'
<1> SUFFICES ASSUME DispatchInv, CheckHub \/ CheckHubFails \/ ExistsHub \/ ExistsHubFails
             PROVE  DispatchInv'
  OBVIOUS
<1>1. /\ Keeping /\ UNCHANGED produced
      /\ failed' \in BOOLEAN /\ produced' \in BOOLEAN
      /\ phase \in {"hub", "exists"}
  BY DEF DispatchInv, TypeOK, CheckHub, CheckHubFails, ExistsHub, ExistsHubFails, Quiet, Failing
<1>2. CASE Rejected \/ Error \/ HubDenied
  BY <1>1, <1>2, TurnedDown
<1>3. CASE CheckHub /\ ~HubDenied
  <2>1. /\ phase = "hub" /\ Proceed("act") /\ todo # <<>>
        /\ hook \in {"publish", "subscribe"}
        /\ handler \in ParseTopic /\ OwnsTopic(topic) /\ ~Ignores(handler, topic)
        /\ handler \notin {"fog", "error", "health"}
        /\ Asks(handler, topic)
        /\ OfHub(topic)
    BY <1>3 DEF CheckHub, DispatchInv, StageInv, Held, CallInv, OfHub, ParseTopic
  <2>2. /\ topic' = topic /\ handler' = handler /\ UNCHANGED <<hook, todo>>
        /\ ~Ignores(handler, topic)' /\ Asks(handler, topic)'
        /\ OwnsTopic(topic)' /\ OfHub(topic)'
    BY <1>1, <2>1, StageKept DEF Keeping, Proceed, settledVars
  <2>3. StageInv'
    BY <2>1, <2>2 DEF StageInv, Held, Proceed
  <2> QED
    BY <1>1, <2>1, <2>3, Proceeded DEF Phases
<1>4. CASE ExistsHub /\ ~Rejected
  <2>1. /\ phase = "exists" /\ todo # <<>>
        /\ hook \in {"publish", "subscribe"}
        /\ handler \in {"processes", "health"}
        /\ ~Ignores(handler, topic) /\ Asks(handler, topic)
        /\ HubOf(topic) \in HubAccess[user]
    BY <1>4 DEF ExistsHub, DispatchInv, StageInv, Held
  <2>2. CASE handler = "processes"
    <3>1. topic.kind = "processes" /\ topic.target \in HubAccess[user] /\ Accepted
      BY <1>4, <2>1, <2>2, AskedTopic DEF ExistsHub, HubOf
    <3>2. MaySubscribe(topic)
      BY <3>1 DEF MaySubscribe
    <3> QED
      BY <1>1, <2>1, <3>1, <3>2, TopicAccepted
  <2>3. CASE handler = "health"
    <3>1. client \in HubAccess[user] /\ Proceed("act")
      BY <1>4, <2>1, <2>3 DEF ExistsHub, HubOf
    <3>2. /\ topic' = topic /\ handler' = handler /\ user' = user
          /\ UNCHANGED <<hook, client, todo>>
          /\ ~Ignores(handler, topic)' /\ Asks(handler, topic)'
      BY <1>1, <2>1, <3>1, StageKept DEF Keeping, Proceed, settledVars
    <3>3. StageInv'
      BY <2>1, <2>3, <3>1, <3>2 DEF StageInv, Held, Proceed, ParseTopic
    <3> QED
      BY <1>1, <3>1, <3>3, Proceeded DEF Phases
  <2> QED
    BY <2>1, <2>2, <2>3
<1> QED
  BY <1>2, <1>3, <1>4 DEF CheckHubFails, ExistsHubFails

(* Every way in which acting on a topic ends: the call is answered or the  *)
(* topic of a subscription accepted, and what is produced may be.          *)
LEMMA ActOutcome ==
  ASSUME DispatchInv, Act \/ ActFails
  PROVE  /\ Keeping /\ failed' \in BOOLEAN /\ produced' \in BOOLEAN
         /\ phase = "act" /\ todo # <<>> /\ ~produced
         /\ hook \in {"publish", "subscribe"}
         /\ ~Ignores(handler, topic) /\ (handler # "fog" => Asks(handler, topic))
<1>1. phase = "act" /\ Keeping /\ failed' \in BOOLEAN /\ produced \in BOOLEAN
  BY DEF Act, ActFails, Failing, DispatchInv, TypeOK
<1>2. /\ todo # <<>> /\ ~produced
      /\ hook \in {"publish", "subscribe"}
      /\ ~Ignores(handler, topic) /\ (handler # "fog" => Asks(handler, topic))
  BY <1>1 DEF DispatchInv, StageInv, Held, CallInv
<1>3. produced' \in BOOLEAN
  BY <1>1 DEF Act, ActFails, ActOnEvent, ActOnResponse, ActOnCommand, ActOnError,
              ActOnFog, EventFails, ResponseFails, ForwardFails
<1> QED
  BY <1>1, <1>2, <1>3

(* A message is only forwarded where its topic allows it. *)
LEMMA MessageAllowed ==
  ASSUME DispatchInv, phase = "act", hook = "publish",
         ~Ignores(handler, topic), handler # "fog" => Asks(handler, topic)
  PROVE  /\ handler = "event" /\ payload /\ ~config.MqttPublishAuthOnly /\ Known(topic)
              => MayAct(topic)
         /\ handler = "response" /\ payload /\ ~config.MqttPublishAuthOnly
              => MayAct(topic)
         /\ handler = "error" => MayAct(topic)
         /\ handler = "health" => MayAct(topic)
         /\ topic.kind = "upstream" /\ payload => MayAct(topic)
<1>1. CASE handler \in {"event", "response"}
  <2>1. topic.kind = handler /\ Asks(handler, topic)
    BY <1>1, AskedTopic
  <2>2. OwnsTopic(topic) /\ OfHub(topic)
    BY <1>1 DEF DispatchInv, StageInv, ParseTopic
  <2>3. ~OwnerMissing(topic)
    BY <1>1, <2>1 DEF Asks, Malformed, ParseTopic
  <2>4. IsOwner(topic)
    BY <1>1, <2>1, <2>2 DEF OwnsTopic, IsOwner
  <2> QED
    BY <1>1, <2>1, <2>2, <2>3, <2>4 DEF MayAct
<1>2. CASE handler = "error"
  <2>1. topic.kind = "error" /\ topic.owner \in {NoUser, user}
    BY <1>2, AskedTopic DEF DispatchInv, StageInv
  <2> QED
    BY <1>2, <2>1 DEF MayAct, IsOwner
<1>3. CASE handler = "health"
  <2>1. topic.kind = "health" /\ Asks(handler, topic) /\ client \in HubAccess[user]
    BY <1>3, AskedTopic DEF DispatchInv, StageInv
  <2>2. payload
    BY <1>3, <2>1 DEF Asks, Malformed
  <2> QED
    BY <1>3, <2>1, <2>2 DEF MayAct
<1>4. topic.kind = "upstream" /\ payload => MayAct(topic)
  BY DEF MayAct
<1> QED
  BY <1>1, <1>2, <1>3, <1>4

LEMMA ActStep == DispatchInv /\ (Act \/ ActFails) => DispatchInv'
<1> SUFFICES ASSUME DispatchInv, Act \/ ActFails PROVE DispatchInv'
  OBVIOUS
<1>1. /\ Keeping /\ failed' \in BOOLEAN /\ produced' \in BOOLEAN
      /\ phase = "act" /\ todo # <<>> /\ ~produced
      /\ hook \in {"publish", "subscribe"}
      /\ ~Ignores(handler, topic) /\ (handler # "fog" => Asks(handler, topic))
  BY ActOutcome
<1>2. CASE (Rejected \/ Error) /\ UNCHANGED produced
  BY <1>1, <1>2, TurnedDown
<1>3. ASSUME hook = "publish", Accepted \/ Error,
             produced' => MayAct(topic)
      PROVE  DispatchInv'
  BY <1>1, <1>3, TopicAccepted, Replied DEF Error, Answers
<1>4. ASSUME hook = "subscribe", Accepted, UNCHANGED produced, MaySubscribe(topic)
      PROVE  DispatchInv'
  BY <1>1, <1>4, TopicAccepted
<1>5. handler # "fog" =>
        /\ topic.kind = handler
        /\ handler \in {"event", "response", "error"} => hook = "publish"
        /\ handler = "command" => hook = "subscribe"
  BY <1>1, AskedTopic
<1>6. handler = "health" => hook = "publish"
  BY <1>1 DEF Asks, NotForSubscribers
<1>7. CASE handler = "event" /\ (ActOnEvent(topic) \/ EventFails(topic))
  <2>1. hook = "publish"
    BY <1>5, <1>7
  <2>2. produced' => payload /\ ~config.MqttPublishAuthOnly /\ Known(topic)
    BY <1>1, <1>7 DEF ActOnEvent, EventFails
  <2>3. produced' => MayAct(topic)
    BY <1>1, <1>7, <2>1, <2>2, MessageAllowed
  <2>4. \/ Accepted \/ Error
        \/ Rejected /\ UNCHANGED produced
    BY <1>7 DEF ActOnEvent, EventFails
  <2> QED
    BY <1>2, <1>3, <2>1, <2>3, <2>4
<1>8. CASE handler = "response" /\ (ActOnResponse \/ ResponseFails)
  <2>1. hook = "publish"
    BY <1>5, <1>8
  <2>2. produced' => payload /\ ~config.MqttPublishAuthOnly
    BY <1>1, <1>8 DEF ActOnResponse, ResponseFails
  <2>3. produced' => MayAct(topic)
    BY <1>1, <1>8, <2>1, <2>2, MessageAllowed
  <2>4. Accepted \/ Error
    BY <1>8 DEF ActOnResponse, ResponseFails
  <2> QED
    BY <1>3, <2>1, <2>3, <2>4
<1>9. CASE handler = "command" /\ ActOnCommand(topic)
  <2>1. /\ hook = "subscribe" /\ topic.kind = "command"
        /\ Asks(handler, topic)
    BY <1>1, <1>5, <1>9
  <2>2. OwnsTopic(topic) /\ OfHub(topic)
    BY <1>1, <1>9 DEF DispatchInv, StageInv, ParseTopic
  <2>3. ~OwnerMissing(topic) /\ ~WildcardMissing("command", topic)
    BY <1>9, <2>1 DEF Asks, Malformed, ParseTopic
  <2>4. topic.target \in Access[user] => MaySubscribe(topic)
    BY <2>1, <2>2, <2>3 DEF OwnsTopic, IsOwner, MaySubscribe
  <2> QED
    BY <1>2, <1>4, <1>9, <2>1, <2>4 DEF ActOnCommand
<1>10. CASE handler = "error" /\ ActOnError
  <2>1. hook = "publish"
    BY <1>5, <1>10
  <2> QED
    BY <1>1, <1>3, <1>10, <2>1, MessageAllowed DEF ActOnError
<1>11. CASE handler = "fog" /\ ActOnFog(topic)
  <2>1. topic.kind \in {"fog", "upstream"}
    BY <1>1, <1>11 DEF Ignores
  <2>2. CASE hook = "subscribe"
    <3>1. MaySubscribe(topic)
      BY <2>1 DEF MaySubscribe
    <3> QED
      BY <1>4, <1>11, <2>2, <3>1 DEF ActOnFog
  <2>3. CASE hook = "publish"
    <3>1. produced' => MayAct(topic)
      BY <1>1, <1>11, <2>1, <2>3, MessageAllowed DEF ActOnFog
    <3> QED
      BY <1>3, <1>11, <2>3, <3>1 DEF ActOnFog
  <2> QED
    BY <1>1, <2>2, <2>3
<1>12. CASE handler = "health" /\ Accepted /\ produced' = TRUE
  BY <1>1, <1>3, <1>6, <1>12, MessageAllowed
<1>13. CASE handler = "command" /\ Rejected /\ UNCHANGED produced
  BY <1>2, <1>13
<1>14. CASE ForwardFails
  <2>1. hook = "publish" /\ MayAct(topic)
    BY <1>1, <1>6, <1>14, MessageAllowed DEF ForwardFails
  <2> QED
    BY <1>3, <1>14, <2>1 DEF ForwardFails
<1> QED
  BY <1>7, <1>8, <1>9, <1>10, <1>11, <1>12, <1>13, <1>14 DEF Act, ActFails

(* The other steps of a call: a request that cannot be decoded, the own    *)
(* client, the end of the list of handlers or of topics, and the login.    *)
LEMMA EndStep ==
  DispatchInv /\ (AskFails \/ Unreadable \/ OwnClient \/ AnswerSubscription \/ NoHandler)
    => DispatchInv'
<1> SUFFICES ASSUME DispatchInv,
                    AskFails \/ Unreadable \/ OwnClient \/ AnswerSubscription \/ NoHandler
             PROVE  DispatchInv'
  OBVIOUS
<1>1. /\ Keeping /\ UNCHANGED produced
      /\ failed' \in BOOLEAN /\ produced' \in BOOLEAN
      /\ phase = "walk" /\ hook # "none"
  BY DEF DispatchInv, TypeOK, CallInv, AskFails, Unreadable, OwnClient, AnswerSubscription,
         NoHandler, Quiet, Failing, Offered, Walking
<1>2. ASSUME NEW text \in Answers, Reply(text) PROVE DispatchInv'
  <2>1. ~produced'
    BY <1>1 DEF DispatchInv, CallInv
  <2> QED
    BY <1>1, <1>2, <2>1, Replied
<1>3. CASE AskFails
  <2>1. at <= Len(Handlers)
    BY <1>3 DEF AskFails, Offered
  <2> QED
    BY <1>1, <1>2, <1>3, <2>1, PassedOn DEF AskFails, Error, Answers
<1>4. CASE NoHandler
  <2>1. todo # <<>> /\ (Rejected \/ (hook = "subscribe" /\ RefusedTopic))
    BY <1>1, <1>4 DEF NoHandler, Walking, DispatchInv, TypeOK
  <2> QED
    BY <1>1, <2>1, TurnedDown, TopicRefused
<1>5. CASE Unreadable \/ OwnClient \/ AnswerSubscription
  BY <1>2, <1>5 DEF Unreadable, OwnClient, AnswerSubscription, Error, Answers
<1> QED
  BY <1>3, <1>4, <1>5

LEMMA LoginStep ==
  DispatchInv /\ (CheckCredentials \/ CredentialsFail \/ CheckLimit \/ LoginHub)
    => DispatchInv'
<1> SUFFICES ASSUME DispatchInv,
                    CheckCredentials \/ CredentialsFail \/ CheckLimit \/ LoginHub
             PROVE  DispatchInv'
  OBVIOUS
<1>1. /\ Keeping /\ UNCHANGED produced
      /\ failed' \in BOOLEAN /\ produced' \in BOOLEAN
      /\ phase \in {"walk", "limit", "exists"}
  BY DEF DispatchInv, TypeOK, CheckCredentials, CredentialsFail, CheckLimit, LoginHub,
         Quiet, Failing
<1>2. ASSUME NEW text \in Answers, Reply(text) PROVE DispatchInv'
  <2>1. ~produced'
    BY <1>1 DEF DispatchInv, CallInv
  <2> QED
    BY <1>1, <1>2, <2>1, Replied
<1>3. CASE hook = "login" /\ (Proceed("limit") \/ Proceed("exists"))
  <2>1. StageInv'
    BY <1>1, <1>3 DEF StageInv, Held, Proceed, Keeping, callVars
  <2> QED
    BY <1>1, <1>3, <2>1, Proceeded DEF Phases
<1>4. CheckLimit => hook = "login"
  BY DEF CheckLimit, DispatchInv, StageInv
<1> QED
  BY <1>2, <1>3, <1>4
  DEF CheckCredentials, CredentialsFail, CheckLimit, LoginHub, Error, Answers

LEMMA HandleStep == DispatchInv /\ Handle => DispatchInv'
BY VisitStep, AskStep, HubStep, ActStep, EndStep, LoginStep DEF Handle

-----------------------------------------------------------------------------
(* The steps of the broker and of the platform. *)

LEMMA ReceiveStep ==
  ASSUME DispatchInv, NEW name, NEW c \in Clients, NEW ts \in Seq(TopicType),
         name \in {"publish", "subscribe", "login"}, name = "publish" => ts # <<>>,
         Receive(name, c, ts)
  PROVE  DispatchInv'
<1>1. TypeOK'
  BY HandlersLength DEF DispatchInv, TypeOK, Receive
<1>2. StageInv'
  BY DEF Receive, StageInv, Held
<1>3. CallInv' /\ ~produced'
  BY DEF DispatchInv, CallInv, Receive
<1>4. ProducedWasAllowed' /\ GrantsWereAllowed' /\ RedirectedWasNotProduced'
  BY <1>3 DEF DispatchInv, CallInv, Receive, ProducedWasAllowed, GrantsWereAllowed,
              RedirectedWasNotProduced
<1> QED
  BY <1>1, <1>2, <1>3, <1>4 DEF DispatchInv

LEMMA AssignStep ==
  ASSUME DispatchInv, NEW ds \in SUBSET Devices, Assign(ds)
  PROVE  DispatchInv'
<1>1. TypeOK'
  BY DEF DispatchInv, TypeOK, Assign, callVars, settledVars
<1>2. UNCHANGED <<callVars, settledVars, at, phase, produced>> /\ seen \subseteq seen'
  BY DEF Assign
<1>3. /\ topic' = topic /\ handler' = handler /\ user' = user
      /\ UNCHANGED <<hook, client, asked, todo>>
      /\ Ignores(handler, topic)' <=> Ignores(handler, topic)
      /\ Asks(handler, topic)' <=> Asks(handler, topic)
      /\ OwnsTopic(topic)' <=> OwnsTopic(topic)
      /\ OfHub(topic) => OfHub(topic)'
  BY <1>2, StageKept DEF settledVars
<1>4. StageInv'
  BY <1>2, <1>3 DEF DispatchInv, StageInv, Held
<1>5. CallInv'
  BY <1>2, <1>3 DEF DispatchInv, CallInv, Assign, settledVars
<1>6. \A t : (MayAct(t) => MayAct(t)') /\ (MaySubscribe(t) => MaySubscribe(t)')
  BY <1>2, AllowancesLast
<1>7. ProducedWasAllowed' /\ GrantsWereAllowed' /\ RedirectedWasNotProduced'
  BY <1>2, <1>3, <1>6 DEF DispatchInv, ProducedWasAllowed, GrantsWereAllowed,
                          RedirectedWasNotProduced, settledVars
<1> QED
  BY <1>1, <1>4, <1>5, <1>7 DEF DispatchInv

LEMMA ReturnStep == DispatchInv /\ Return => DispatchInv'
<1> SUFFICES ASSUME DispatchInv, Return PROVE DispatchInv'
  OBVIOUS
<1>1. <<>> \in Seq(TopicType) /\ {} \in SUBSET Devices /\ {} \in SUBSET TopicType
  OBVIOUS
<1>2. TypeOK'
  <2>1. asked' \in Seq(TopicType) /\ todo' \in Seq(TopicType)
    BY <1>1 DEF Return
  <2>2. at' \in 1..(Len(Handlers) + 1)
    BY HandlersLength DEF Return
  <2> QED
    BY <2>1, <2>2 DEF DispatchInv, TypeOK, Return
<1>3. StageInv' /\ CallInv'
  BY DEF Return, StageInv, Held, CallInv
<1>4. ProducedWasAllowed' /\ GrantsWereAllowed' /\ RedirectedWasNotProduced'
  BY DEF Return, ProducedWasAllowed, GrantsWereAllowed, RedirectedWasNotProduced
<1> QED
  BY <1>2, <1>3, <1>4 DEF DispatchInv

LEMMA InitialInv == Init => DispatchInv
<1> SUFFICES ASSUME Init PROVE DispatchInv
  OBVIOUS
<1>1. <<>> \in Seq(TopicType) /\ {} \in SUBSET Devices /\ {} \in SUBSET TopicType
  OBVIOUS
<1>2. TypeOK
  <2>1. asked \in Seq(TopicType) /\ todo \in Seq(TopicType)
    BY <1>1 DEF Init
  <2>2. at \in 1..(Len(Handlers) + 1)
    BY HandlersLength DEF Init
  <2> QED
    BY <2>1, <2>2 DEF TypeOK, Init
<1>3. StageInv /\ CallInv
  BY DEF Init, StageInv, Held, CallInv
<1>4. ProducedWasAllowed /\ GrantsWereAllowed /\ RedirectedWasNotProduced
  BY DEF Init, ProducedWasAllowed, GrantsWereAllowed, RedirectedWasNotProduced
<1> QED
  BY <1>2, <1>3, <1>4 DEF DispatchInv

LEMMA StutterStep == DispatchInv /\ UNCHANGED vars => DispatchInv'
<1> SUFFICES ASSUME DispatchInv, UNCHANGED vars PROVE DispatchInv'
  OBVIOUS
<1>1. /\ UNCHANGED <<callVars, settledVars, assigned, at, phase, produced, failed, seen>>
      /\ seen \subseteq seen'
  BY DEF vars
<1>2. TypeOK'
  BY <1>1 DEF DispatchInv, TypeOK, callVars, settledVars
<1>3. /\ topic' = topic /\ handler' = handler /\ user' = user
      /\ UNCHANGED <<hook, client, asked, todo>>
      /\ Ignores(handler, topic)' <=> Ignores(handler, topic)
      /\ Asks(handler, topic)' <=> Asks(handler, topic)
      /\ OwnsTopic(topic)' <=> OwnsTopic(topic)
      /\ OfHub(topic) => OfHub(topic)'
  BY <1>1, StageKept DEF settledVars
<1>4. StageInv' /\ CallInv'
  BY <1>1, <1>3 DEF DispatchInv, StageInv, Held, CallInv, settledVars
<1>5. \A t : (MayAct(t) => MayAct(t)') /\ (MaySubscribe(t) => MaySubscribe(t)')
  BY <1>1, AllowancesLast
<1>6. ProducedWasAllowed' /\ GrantsWereAllowed' /\ RedirectedWasNotProduced'
  BY <1>1, <1>3, <1>5 DEF DispatchInv, ProducedWasAllowed, GrantsWereAllowed,
                          RedirectedWasNotProduced, settledVars
<1> QED
  BY <1>2, <1>4, <1>6 DEF DispatchInv

LEMMA NextStep == DispatchInv /\ [Next]_vars => DispatchInv'
<1> SUFFICES ASSUME DispatchInv, [Next]_vars PROVE DispatchInv'
  OBVIOUS
<1>1. ASSUME NEW c \in Clients, NEW t \in Published, Publish(c, t) PROVE DispatchInv'
  <2>1. <<t>> \in Seq(TopicType) /\ <<t>> # <<>>
    BY DispatchAssumption
  <2> QED
    BY <1>1, <2>1, ReceiveStep DEF Publish
<1>2. ASSUME NEW c \in Clients, NEW ts \in Subscribed, Subscribe(c, ts) PROVE DispatchInv'
  <2>1. ts \in Seq(TopicType)
    BY DispatchAssumption
  <2> QED
    BY <1>2, <2>1, ReceiveStep DEF Subscribe
<1>3. ASSUME NEW c \in Clients, Login(c) PROVE DispatchInv'
  <2>1. <<>> \in Seq(TopicType)
    OBVIOUS
  <2> QED
    BY <1>3, <2>1, ReceiveStep DEF Login
<1> QED
  BY <1>1, <1>2, <1>3, HandleStep, AssignStep, ReturnStep, StutterStep DEF Next

(* The invariant of the module holds in every reachable state. *)
THEOREM DispatchInvariant == Spec => []DispatchInv
BY InitialInv, NextStep, PTL DEF Spec

(* Every reachable state is of the declared types, for any clients, users, *)
(* topics and devices (publish.go, subscribe.go, login.go).                *)
THEOREM DispatchTypes == Spec => []TypeOK
<1>1. DispatchInv => TypeOK
  BY DEF DispatchInv
<1> QED
  BY <1>1, DispatchInvariant, PTL

(* Nothing is forwarded but what its topic allows its user, in every       *)
(* configuration and whatever else fails (the Publish methods of the       *)
(* handlers).                                                              *)
THEOREM OnlyAllowedProduced == Spec => []ProducedWasAllowed
<1>1. DispatchInv => ProducedWasAllowed
  BY DEF DispatchInv
<1> QED
  BY <1>1, DispatchInvariant, PTL

(* A message that is redirected to ignored/ has not been forwarded, also   *)
(* when handlers before gave it up (publish.go:86-113).                    *)
THEOREM OnlyUnproducedRedirected == Spec => []RedirectedWasNotProduced
<1>1. DispatchInv => RedirectedWasNotProduced
  BY DEF DispatchInv
<1> QED
  BY <1>1, DispatchInvariant, PTL

(* No topic is granted but one that allows its user to subscribe (the      *)
(* Subscribe methods of the handlers).                                     *)
THEOREM OnlyAllowedGranted == Spec => []GrantsWereAllowed
<1>1. DispatchInv => GrantsWereAllowed
  BY DEF DispatchInv
<1> QED
  BY <1>1, DispatchInvariant, PTL

-----------------------------------------------------------------------------
(* Subscriptions: no topic gets lost between the handlers, and which of    *)
(* them can fail the whole request.                                        *)

TopicsOf(ts) == {ts[i] : i \in DOMAIN ts}

(* What one step makes of a subscription. *)
Carried == UNCHANGED settledVars /\ phase' \notin {"idle", "done"}
TopicSettled ==
  /\ todo # <<>> /\ NextTopic
  /\ granted' \cup refused' = granted \cup refused \cup {topic}
Ungranted ==
  /\ Reply("error")
  /\ failed' \/ (todo # <<>> /\ topic.kind \in {"command", "processes"})
Answered == Reply("ok") /\ (todo = <<>> \/ user = OwnUser)

SubscriptionStep == Carried \/ TopicSettled \/ Ungranted \/ Answered

(* A handler that turns a topic down on its own account, without a failed  *)
(* request, turns down the subscription if it is the one for commands or   *)
(* the one for processes (helper.go:76).                                   *)
LEMMA TurnedDownAlone ==
  ASSUME hook = "subscribe", todo # <<>>, handler \in {"command", "processes"},
         topic.kind = handler, Rejected \/ Error \/ HubDenied
  PROVE  SubscriptionStep
BY DEF Rejected, Error, HubDenied, SubscriptionStep, Ungranted

LEMMA TopicDone ==
  ASSUME hook = "subscribe", todo # <<>>, RefusedTopic \/ Accepted
  PROVE  SubscriptionStep
BY DEF RefusedTopic, Accepted, SubscriptionStep, TopicSettled

(* With a failed request the whole subscription is an error. *)
LEMMA SubscriptionFails ==
  ASSUME hook = "subscribe", Rejected \/ Error \/ HubDenied, failed' = TRUE
  PROVE  SubscriptionStep
BY DEF Rejected, Error, HubDenied, SubscriptionStep, Ungranted

LEMMA SubscriptionVisit ==
  ASSUME DispatchInv, hook = "subscribe", Visit \/ Ask
  PROVE  SubscriptionStep
<1>1. todo # <<>> /\ phase = "walk" /\ topic \in TopicType
  BY TopicFacts DEF DispatchInv, Visit, Ask, Offered, Walking
<1>2. ASSUME Unhandled \/ \E to \in {"act", "hub", "exists"} : Proceed(to)
      PROVE  SubscriptionStep
  BY <1>1, <1>2 DEF Unhandled, Proceed, SubscriptionStep, Carried
<1>3. ASSUME ~Ignores(handler, topic), handler # "fog"
      PROVE  /\ topic.kind = handler
             /\ handler \notin {"event", "response", "error"}
  BY <1>3 DEF Ignores
<1>4. CASE Visit
  <2>1. CASE Ignores(handler, topic) /\ Unhandled
    BY <1>2, <2>1
  <2>2. CASE ~Ignores(handler, topic) /\ Malformed(handler, topic) /\ Rejected
    <3>1. handler \in ParseTopic
      BY <2>2 DEF Malformed
    <3>2. handler = "command" /\ topic.kind = handler
      BY <1>3, <2>2, <3>1 DEF ParseTopic
    <3> QED
      BY <1>1, <2>2, <3>2, TurnedDownAlone
  <2>3. CASE ~Ignores(handler, topic) /\ WildcardMissing(handler, topic) /\ Error
    BY <1>1, <1>3, <2>3, TurnedDownAlone DEF WildcardMissing
  <2>4. CASE RefusedTopic
    BY <1>1, <2>4, TopicDone
  <2>5. CASE Proceed("act")
    BY <1>2, <2>5
  <2> QED
    BY <1>4, <2>1, <2>2, <2>3, <2>4, <2>5 DEF Visit
<1>5. CASE Ask
  <2>1. ~Ignores(handler, topic) /\ handler # "fog"
    BY <1>5 DEF Ask, Asks
  <2>2. topic.kind = handler /\ handler \notin {"event", "response", "error"}
    BY <1>3, <2>1
  <2>3. CASE handler \in ParseTopic /\ AskAboutDevice(topic)
    <3>1. handler = "command"
      BY <2>2, <2>3 DEF ParseTopic
    <3>2. CASE Rejected
      BY <1>1, <2>2, <3>1, <3>2, TurnedDownAlone
    <3> QED
      BY <1>2, <2>3, <3>2 DEF AskAboutDevice
  <2>4. CASE handler = "processes" /\ AskAboutProcesses(topic)
    <3>1. CASE Rejected
      BY <1>1, <2>2, <2>4, <3>1, TurnedDownAlone
    <3>2. CASE Accepted
      BY <1>1, <3>2, TopicDone
    <3> QED
      BY <1>2, <2>4, <3>1, <3>2 DEF AskAboutProcesses
  <2>5. CASE AskAboutUser(topic)
    BY <1>1, <2>5, TopicDone DEF AskAboutUser
  <2>6. CASE handler = "health" /\ Proceed("exists")
    BY <1>2, <2>6
  <2> QED
    BY <1>5, <2>2, <2>3, <2>4, <2>5, <2>6 DEF Ask
<1> QED
  BY <1>4, <1>5

LEMMA SubscriptionHub ==
  ASSUME DispatchInv, hook = "subscribe",
         CheckHub \/ CheckHubFails \/ ExistsHub \/ ExistsHubFails
  PROVE  SubscriptionStep
<1>1. /\ todo # <<>> /\ ~Ignores(handler, topic)
      /\ phase \in {"hub", "exists"}
      /\ phase = "hub" => handler \in ParseTopic
      /\ phase = "exists" => handler \in {"processes", "health"}
      /\ handler # "fog" => Asks(handler, topic)
  BY DEF DispatchInv, StageInv, Held, CheckHub, CheckHubFails, ExistsHub, ExistsHubFails
<1>2. handler \in {"command", "processes"} /\ topic.kind = handler
  BY <1>1 DEF Ignores, Asks, NotForSubscribers, ParseTopic
<1>3. CASE Rejected \/ Error \/ HubDenied
  BY <1>1, <1>2, <1>3, TurnedDownAlone
<1>4. CASE Accepted
  BY <1>1, <1>4, TopicDone
<1>5. CASE Proceed("act")
  BY <1>5 DEF Proceed, SubscriptionStep, Carried
<1> QED
  BY <1>3, <1>4, <1>5 DEF CheckHub, CheckHubFails, ExistsHub, ExistsHubFails

LEMMA SubscriptionAct ==
  ASSUME DispatchInv, hook = "subscribe", Act \/ ActFails
  PROVE  SubscriptionStep
<1>1. /\ todo # <<>> /\ ~Ignores(handler, topic)
      /\ handler # "fog" => Asks(handler, topic)
  BY DEF DispatchInv, StageInv, Held, Act, ActFails
<1>2. /\ handler \notin {"event", "response", "error", "health"}
      /\ handler # "fog" => topic.kind = handler
  BY <1>1 DEF Ignores, Asks, NotForSubscribers
<1>3. CASE Act /\ handler = "command"
  BY <1>1, <1>2, <1>3, TurnedDownAlone, TopicDone DEF Act, ActOnCommand
<1>4. CASE Act /\ handler = "fog"
  BY <1>1, <1>4, TopicDone DEF Act, ActOnFog
<1>5. CASE ActFails
  BY <1>2, <1>5, SubscriptionFails DEF ActFails, ForwardFails, Failing
<1> QED
  BY <1>2, <1>3, <1>4, <1>5 DEF Act

(* Every step of the webhook is one of these. *)
LEMMA SubscriptionSteps ==
  ASSUME DispatchInv, hook = "subscribe", Handle
  PROVE  SubscriptionStep /\ UNCHANGED callVars
<1>1. CASE Unreadable
  BY <1>1, SubscriptionFails DEF Unreadable, Failing, Keeping
<1>2. CASE OwnClient \/ AnswerSubscription
  BY <1>2 DEF OwnClient, AnswerSubscription, Quiet, Keeping, SubscriptionStep, Answered
<1>3. CASE NoHandler
  BY <1>3, TopicDone DEF NoHandler, Quiet, Keeping
<1>4. CASE Visit \/ Ask
  BY <1>4, SubscriptionVisit DEF Visit, Ask, Quiet, Keeping
<1>5. CASE AskFails
  <2>1. Keeping /\ failed' = TRUE /\ (Error \/ Unhandled) /\ phase = "walk"
    BY <1>5 DEF AskFails, Failing, Offered, Walking
  <2>2. CASE Error
    BY <2>1, <2>2, SubscriptionFails DEF Keeping
  <2>3. CASE Unhandled
    BY <2>1, <2>3 DEF Unhandled, Keeping, SubscriptionStep, Carried
  <2> QED
    BY <2>1, <2>2, <2>3
<1>6. CASE CheckHub \/ CheckHubFails \/ ExistsHub \/ ExistsHubFails
  BY <1>6, SubscriptionHub
  DEF CheckHub, CheckHubFails, ExistsHub, ExistsHubFails, Quiet, Failing, Keeping
<1>7. CASE Act \/ ActFails
  BY <1>7, SubscriptionAct DEF Act, ActFails, Failing, Keeping
<1>8. ~(CheckCredentials \/ CredentialsFail \/ CheckLimit \/ LoginHub)
  BY DEF CheckCredentials, CredentialsFail, CheckLimit, LoginHub, DispatchInv, StageInv
<1> QED
  BY <1>1, <1>2, <1>3, <1>4, <1>5, <1>6, <1>7, <1>8 DEF Handle

(* Until the answer every topic is settled or still to be offered. *)
SubscriptionInv ==
  /\ hook = "subscribe" /\ phase \notin {"idle", "done"} =>
       granted \cup refused \cup TopicsOf(todo) = TopicsOf(asked)
  /\ hook = "subscribe" /\ phase \notin {"idle", "done"} => answer = "none"
  /\ phase = "idle" => hook = "none" /\ granted = {} /\ refused = {} /\ answer = "none"
  /\ EveryTopicAnswered
  /\ RefusedAlone

(* The head of a sequence and the rest of it.                              *)
LEMMA HeadAndRest ==
  ASSUME NEW S, NEW ts \in Seq(S), ts # <<>>
  PROVE  TopicsOf(ts) = {Head(ts)} \cup TopicsOf(Tail(ts))
<1>1. /\ Len(ts) \in Nat \ {0} /\ Head(ts) = ts[1]
      /\ DOMAIN ts = 1..Len(ts) /\ DOMAIN Tail(ts) = 1..(Len(ts) - 1)
      /\ \A i \in 1..(Len(ts) - 1) : Tail(ts)[i] = ts[i + 1]
  BY HeadTailProperties, LenProperties, EmptySeq
<1>2. ASSUME NEW i \in 1..Len(ts) PROVE ts[i] \in {Head(ts)} \cup TopicsOf(Tail(ts))
  <2>1. CASE i = 1
    BY <1>1, <2>1
  <2>2. CASE i # 1
    <3>1. i - 1 \in 1..(Len(ts) - 1) /\ Tail(ts)[i - 1] = ts[i]
      BY <1>1, <2>2
    <3> QED
      BY <1>1, <3>1 DEF TopicsOf
  <2> QED
    BY <2>1, <2>2
<1>3. ASSUME NEW i \in 1..(Len(ts) - 1) PROVE Tail(ts)[i] \in TopicsOf(ts)
  BY <1>1, <1>3 DEF TopicsOf
<1>4. ts[1] \in TopicsOf(ts)
  BY <1>1 DEF TopicsOf
<1>5. TopicsOf(ts) \subseteq {Head(ts)} \cup TopicsOf(Tail(ts))
  BY <1>1, <1>2 DEF TopicsOf
<1>6. {Head(ts)} \cup TopicsOf(Tail(ts)) \subseteq TopicsOf(ts)
  BY <1>1, <1>3, <1>4 DEF TopicsOf
<1> QED
  BY <1>5, <1>6

LEMMA SubscriptionHandled ==
  ASSUME DispatchInv, SubscriptionInv, hook = "subscribe", Handle
  PROVE  SubscriptionInv'
<1>1. SubscriptionStep /\ hook' = hook /\ asked' = asked /\ user' = user
  BY SubscriptionSteps DEF callVars, user
<1>2. phase \notin {"idle", "done"}
  BY DEF DispatchInv, CallInv, Handle, Unreadable, OwnClient, AnswerSubscription,
         NoHandler, Visit, Ask, AskFails, CheckHub, CheckHubFails, ExistsHub,
         ExistsHubFails, Act, ActFails, CheckCredentials, CredentialsFail,
         CheckLimit, LoginHub, Walking, Offered
<1>3. /\ granted \cup refused \cup TopicsOf(todo) = TopicsOf(asked)
      /\ answer = "none"
  BY <1>2 DEF SubscriptionInv
<1>4. todo # <<>> => TopicsOf(todo) = {topic} \cup TopicsOf(Tail(todo))
  BY HeadAndRest DEF DispatchInv, TypeOK, topic
<1>5. CASE Carried
  BY <1>1, <1>3, <1>5
  DEF Carried, settledVars, SubscriptionInv, EveryTopicAnswered, RefusedAlone
<1>6. CASE TopicSettled
  <2>1. granted' \cup refused' \cup TopicsOf(todo') = TopicsOf(asked)
    BY <1>3, <1>4, <1>6 DEF TopicSettled, NextTopic
  <2>2. answer' = "none" /\ phase' = "walk"
    BY <1>3, <1>6 DEF TopicSettled, NextTopic
  <2>3. TopicsOf(todo)' = TopicsOf(todo') /\ TopicsOf(asked)' = TopicsOf(asked)
    BY <1>1 DEF TopicsOf
  <2> QED
    BY <2>1, <2>2, <2>3 DEF SubscriptionInv, EveryTopicAnswered, RefusedAlone
<1>7. CASE Ungranted
  <2>1. answer' = "error" /\ phase' = "done"
    BY <1>7 DEF Ungranted, Reply
  <2>2. ASSUME ~failed' PROVE \E i \in DOMAIN asked : asked[i].kind \in {"command", "processes"}
    <3>1. todo # <<>> /\ topic.kind \in {"command", "processes"}
      BY <1>7, <2>2 DEF Ungranted
    <3>2. topic \in TopicsOf(asked)
      BY <1>3, <1>4, <3>1
    <3> QED
      BY <3>1, <3>2 DEF TopicsOf
  <2> QED
    BY <1>1, <2>1, <2>2 DEF SubscriptionInv, EveryTopicAnswered, RefusedAlone
<1>8. CASE Answered
  <2>1. answer' = "ok" /\ phase' = "done" /\ UNCHANGED <<granted, refused>>
    BY <1>8 DEF Answered, Reply
  <2>2. user # OwnUser => granted \cup refused = TopicsOf(asked)
    <3>1. TopicsOf(<<>>) = {}
      BY DEF TopicsOf
    <3> QED
      BY <1>3, <1>8, <3>1 DEF Answered
  <2> QED
    BY <1>1, <2>1, <2>2 DEF SubscriptionInv, EveryTopicAnswered, RefusedAlone, TopicsOf
<1> QED
  BY <1>1, <1>5, <1>6, <1>7, <1>8 DEF SubscriptionStep

LEMMA SubscriptionNext ==
  ASSUME DispatchInv, SubscriptionInv, [Next]_vars
  PROVE  SubscriptionInv'
<1>1. ASSUME UNCHANGED <<callVars, settledVars, phase, failed>> PROVE SubscriptionInv'
  BY <1>1 DEF callVars, settledVars, SubscriptionInv, EveryTopicAnswered,
              RefusedAlone, TopicsOf, user
<1>2. ASSUME NEW name, NEW c, NEW ts, Receive(name, c, ts) PROVE SubscriptionInv'
  <2>1. /\ phase = "idle" /\ phase' = "walk" /\ todo' = ts /\ asked' = ts
        /\ UNCHANGED <<granted, refused, answer>>
    BY <1>2 DEF Receive
  <2>2. granted' = {} /\ refused' = {} /\ answer' = "none"
    BY <2>1 DEF SubscriptionInv
  <2> QED
    BY <2>1, <2>2 DEF SubscriptionInv, EveryTopicAnswered, RefusedAlone, TopicsOf
<1>3. CASE Return
  BY <1>3 DEF Return, SubscriptionInv, EveryTopicAnswered, RefusedAlone
<1>4. CASE Handle /\ hook = "subscribe"
  BY <1>4, SubscriptionHandled
<1>5. CASE Handle /\ hook # "subscribe"
  <2>1. hook' = hook
    BY <1>5
    DEF Handle, Unreadable, OwnClient, AnswerSubscription, NoHandler, Visit, Ask,
        AskFails, CheckHub, CheckHubFails, ExistsHub, ExistsHubFails, Act, ActFails,
        CheckCredentials, CredentialsFail, CheckLimit, LoginHub, Quiet, Failing,
        Keeping, callVars
  <2>2. phase # "idle"
    BY <1>5
    DEF Handle, Unreadable, OwnClient, AnswerSubscription, NoHandler, Visit, Ask,
        AskFails, CheckHub, CheckHubFails, ExistsHub, ExistsHubFails, Act, ActFails,
        CheckCredentials, CredentialsFail, CheckLimit, LoginHub, Walking, Offered
  <2>3. phase' # "idle"
    BY <1>5, <2>1, <2>2, HandleStep DEF DispatchInv, CallInv
  <2> QED
    BY <1>5, <2>1, <2>3 DEF SubscriptionInv, EveryTopicAnswered, RefusedAlone
<1>6. ASSUME NEW ds \in SUBSET Devices, Assign(ds) PROVE SubscriptionInv'
  BY <1>1, <1>6 DEF Assign
<1> QED
  BY <1>1, <1>2, <1>3, <1>4, <1>5, <1>6 DEF Next, Publish, Subscribe, Login, vars

LEMMA SubscriptionInvariant == Spec => []SubscriptionInv
<1>1. Init => SubscriptionInv
  BY DEF Init, SubscriptionInv, EveryTopicAnswered, RefusedAlone
<1>2. DispatchInv /\ SubscriptionInv /\ [Next]_vars => SubscriptionInv'
  BY SubscriptionNext
<1> QED
  BY <1>1, <1>2, DispatchInvariant, PTL DEF Spec

(* The answer to a subscription grants or refuses each of its topics,      *)
(* however many, whichever handlers they meet (subscribe.go:62-80).        *)
THEOREM TopicsAreAnswered == Spec => []EveryTopicAnswered
<1>1. SubscriptionInv => EveryTopicAnswered
  BY DEF SubscriptionInv
<1> QED
  BY <1>1, SubscriptionInvariant, PTL

(* As long as no request fails only a topic of commands or processes can   *)
(* fail the topics beside it (health/handler.go:124, helper.go:76).        *)
THEOREM OthersAreRefusedAlone == Spec => []RefusedAlone
<1>1. SubscriptionInv => RefusedAlone
  BY DEF SubscriptionInv
<1> QED
  BY <1>1, SubscriptionInvariant, PTL

-----------------------------------------------------------------------------
(* How every call ends. *)

(* The login of a client whose hub exists, which login.go does not answer. *)
HubLogin ==
  hook = "login" /\ config.CheckHub /\ user # OwnUser /\ client \in HubAccess[user]

(* What one step makes of a call: it is over, its topic is settled or goes *)
(* to the next handler, or the handler gets further with it.               *)
CallEnds ==
  /\ phase # "done" /\ phase' = "done" /\ UNCHANGED <<todo, at>>
  /\ answer' # "none" \/ HubLogin

TopicEnds == todo # <<>> /\ NextTopic

TopicGoesOn == Unhandled /\ phase = "walk" /\ at <= Len(Handlers)

Further(p) ==
  \/ phase = "walk" /\ p \in {"limit", "hub", "exists", "act"}
  \/ phase = "limit" /\ p = "exists"
  \/ phase \in {"hub", "exists"} /\ p = "act"

GetsFurther ==
  \E p \in Phases :
    /\ Proceed(p) /\ Further(p)
    /\ hook = "login" => user # OwnUser
    /\ hook = "login" /\ p = "exists" => config.CheckHub

CallStep == CallEnds \/ TopicEnds \/ TopicGoesOn \/ GetsFurther

(* A call that ended has an answer unless it is the login of a hub.        *)
AnswerInv ==
  /\ phase = "limit" \/ (phase = "exists" /\ hook = "login") => user # OwnUser
  /\ phase = "exists" /\ hook = "login" => config.CheckHub
  /\ phase = "done" => answer # "none" \/ HubLogin

LEMMA RepliedCall ==
  ASSUME phase # "done", NEW text \in {"ok", "redirect", "error"}, Reply(text)
  PROVE  CallStep
BY DEF Reply, CallStep, CallEnds

LEMMA TopicOutcome ==
  ASSUME phase # "done", todo # <<>>, Accepted \/ Rejected \/ Error \/ RefusedTopic
  PROVE  CallStep
BY RepliedCall DEF Accepted, Rejected, Error, RefusedTopic, CallStep, TopicEnds

LEMMA FailedCall ==
  ASSUME phase # "done", Error \/ Rejected \/ HubDenied
  PROVE  CallStep
BY RepliedCall DEF Rejected, Error, HubDenied

LEMMA OfferedStep ==
  ASSUME DispatchInv, Visit \/ Ask \/ AskFails
  PROVE  CallStep
<1>1. /\ todo # <<>> /\ phase = "walk" /\ at <= Len(Handlers)
      /\ hook # "login"
  BY DEF Visit, Ask, AskFails, Offered, Walking
<1>2. ASSUME NEW p \in {"hub", "exists", "act"}, Proceed(p) PROVE CallStep
  BY <1>1, <1>2 DEF CallStep, GetsFurther, Further, Phases
<1>3. CASE Visit
  BY <1>1, <1>2, <1>3, TopicOutcome DEF Visit, CallStep, TopicGoesOn
<1>4. CASE Ask
  BY <1>1, <1>2, <1>4, TopicOutcome
  DEF Ask, AskAboutDevice, AskAboutProcesses, AskAboutUser, AskAboutError
<1>5. CASE AskFails
  BY <1>1, <1>5, FailedCall DEF AskFails, CallStep, TopicGoesOn
<1> QED
  BY <1>3, <1>4, <1>5

LEMMA HeldStep ==
  ASSUME DispatchInv, AnswerInv,
         CheckHub \/ CheckHubFails \/ ExistsHub \/ ExistsHubFails \/ Act \/ ActFails
  PROVE  CallStep
<1>1. phase \in {"hub", "exists", "act"}
  BY DEF CheckHub, CheckHubFails, ExistsHub, ExistsHubFails, Act, ActFails
<1>2. CASE ExistsHubFails
  BY <1>1, <1>2, FailedCall DEF ExistsHubFails
<1>3. CASE CheckHub \/ CheckHubFails \/ ExistsHub \/ Act \/ ActFails
  <2>1. todo # <<>> /\ hook # "login"
    BY <1>3 DEF DispatchInv, StageInv, Held, CheckHub, CheckHubFails, ExistsHub,
                Act, ActFails
  <2>2. CASE Proceed("act") /\ phase \in {"hub", "exists"}
    BY <2>1, <2>2 DEF CallStep, GetsFurther, Further, Phases
  <2>3. CASE CheckHub \/ CheckHubFails
    BY <1>1, <2>2, <2>3, FailedCall DEF CheckHub, CheckHubFails
  <2>4. CASE ExistsHub
    BY <1>1, <2>1, <2>2, <2>4, TopicOutcome DEF ExistsHub
  <2>5. CASE Act \/ ActFails
    BY <1>1, <2>1, <2>5, TopicOutcome
    DEF Act, ActOnEvent, ActOnResponse, ActOnCommand, ActOnError, ActOnFog,
        ActFails, EventFails, ResponseFails, ForwardFails
  <2> QED
    BY <1>3, <2>3, <2>4, <2>5
<1> QED
  BY <1>2, <1>3

LEMMA LoginSteps ==
  ASSUME AnswerInv, DispatchInv,
         CheckCredentials \/ CredentialsFail \/ CheckLimit \/ LoginHub
  PROVE  CallStep
<1>1. CASE CheckCredentials \/ CredentialsFail
  BY <1>1, FailedCall
  DEF CheckCredentials, CredentialsFail, CallStep, GetsFurther, Further, Phases
<1>2. CASE CheckLimit
  <2>1. phase = "limit" /\ user # OwnUser
    BY <1>2 DEF CheckLimit, AnswerInv
  <2> QED
    BY <1>2, <2>1, RepliedCall, FailedCall
    DEF CheckLimit, CallStep, GetsFurther, Further, Phases
<1>3. CASE LoginHub
  <2>1. phase = "exists" /\ hook = "login" /\ user # OwnUser /\ config.CheckHub
    BY <1>3 DEF LoginHub, AnswerInv
  <2>2. CASE client \in HubAccess[user]
    BY <1>3, <2>1, <2>2 DEF LoginHub, Reply, HubLogin, CallStep, CallEnds
  <2>3. CASE client \notin HubAccess[user]
    BY <1>3, <2>1, <2>3, FailedCall DEF LoginHub
  <2> QED
    BY <2>2, <2>3
<1> QED
  BY <1>1, <1>2, <1>3

(* Every step of a handler is one of these. *)
LEMMA CallSteps ==
  ASSUME DispatchInv, AnswerInv, Handle
  PROVE  CallStep /\ UNCHANGED <<config, hook, client>>
<1>1. UNCHANGED <<config, hook, client>>
  BY DEF Handle, Unreadable, OwnClient, AnswerSubscription, NoHandler, Visit, Ask,
         AskFails, CheckHub, CheckHubFails, ExistsHub, ExistsHubFails, Act, ActFails,
         CheckCredentials, CredentialsFail, CheckLimit, LoginHub, Quiet, Failing,
         Keeping, callVars
<1>2. CASE Unreadable
  BY <1>1, <1>2, FailedCall DEF Unreadable
<1>3. CASE OwnClient \/ AnswerSubscription
  BY <1>1, <1>3, RepliedCall, FailedCall DEF OwnClient, AnswerSubscription, Walking
<1>4. CASE NoHandler
  BY <1>1, <1>4, TopicOutcome DEF NoHandler, Walking
<1> QED
  BY <1>1, <1>2, <1>3, <1>4, OfferedStep, HeldStep, LoginSteps DEF Handle

LEMMA AnswerStep ==
  ASSUME DispatchInv, AnswerInv, [Next]_vars
  PROVE  AnswerInv'
<1>1. ASSUME phase' \in {"idle", "walk"} PROVE AnswerInv'
  BY <1>1 DEF AnswerInv
<1>2. ASSUME UNCHANGED <<config, hook, client, phase, answer>> PROVE AnswerInv'
  BY <1>2 DEF AnswerInv, HubLogin, user
<1>3. CASE Handle
  <2>1. CallStep /\ UNCHANGED <<config, hook, client>>
    BY <1>3, CallSteps
  <2>2. user' = user
    BY <2>1 DEF user
  <2>3. CASE CallEnds
    BY <2>1, <2>2, <2>3 DEF CallEnds, AnswerInv, HubLogin
  <2>4. CASE TopicEnds
    BY <1>1, <2>4 DEF TopicEnds, NextTopic
  <2>5. CASE TopicGoesOn
    BY <1>1, <2>5 DEF TopicGoesOn, Unhandled
  <2>6. CASE GetsFurther
    <3>1. PICK p \in Phases : /\ Proceed(p) /\ Further(p)
                              /\ hook = "login" => user # OwnUser
                              /\ hook = "login" /\ p = "exists" => config.CheckHub
      BY <2>6 DEF GetsFurther
    <3>2. p # "done" /\ phase' = p
      BY <3>1 DEF Further, Proceed
    <3>3. p = "limit" => hook = "login"
      BY <1>3, <2>1, <3>2, HandleStep DEF DispatchInv, StageInv
    <3> QED
      BY <2>1, <2>2, <3>1, <3>2, <3>3 DEF AnswerInv
  <2> QED
    BY <2>1, <2>3, <2>4, <2>5, <2>6 DEF CallStep
<1>4. ASSUME NEW name, NEW c, NEW ts, Receive(name, c, ts) PROVE AnswerInv'
  BY <1>1, <1>4 DEF Receive
<1>5. ASSUME NEW ds, Assign(ds) PROVE AnswerInv'
  BY <1>2, <1>5 DEF Assign, callVars, settledVars
<1>6. CASE Return
  BY <1>1, <1>6 DEF Return
<1>7. CASE UNCHANGED vars
  BY <1>2, <1>7 DEF vars, callVars, settledVars
<1> QED
  BY <1>3, <1>4, <1>5, <1>6, <1>7 DEF Next, Publish, Subscribe, Login

LEMMA AnswerInvariant == Spec => []AnswerInv
<1>1. Init => AnswerInv
  BY DEF Init, AnswerInv
<1>2. DispatchInv /\ AnswerInv /\ [Next]_vars => AnswerInv'
  BY AnswerStep
<1> QED
  BY <1>1, <1>2, DispatchInvariant, PTL DEF Spec

(* login.go:106-116: the one call that ends without an answer is the login *)
(* of a client whose hub exists, with CheckHub; publish.go, subscribe.go   *)
(* and all other branches of login.go answer.                              *)
THEOREM OnlyHubsUnanswered ==
  Spec => [](phase = "done" => answer # "none" \/ HubLogin)
<1>1. AnswerInv => (phase = "done" => answer # "none" \/ HubLogin)
  BY DEF AnswerInv
<1> QED
  BY <1>1, AnswerInvariant, PTL

(* login.go:40-41: without CheckHub every login is answered, as the        *)
(* documentation of the webhook says.                                      *)
THEOREM LoginsAnswered == Spec => [](~config.CheckHub => LoginIsAnswered)
<1>1. AnswerInv => (~config.CheckHub => LoginIsAnswered)
  BY DEF AnswerInv, HubLogin, LoginIsAnswered
<1> QED
  BY <1>1, AnswerInvariant, PTL

-----------------------------------------------------------------------------
(* How long a call takes at most. *)

Rank(p) ==
  IF p = "walk" THEN 5 ELSE IF p = "limit" THEN 4 ELSE IF p = "hub" THEN 3
  ELSE IF p = "exists" THEN 2 ELSE IF p = "act" THEN 1 ELSE 0

(* A bound of the steps that are left: topics, handlers of the first one,  *)
(* requests of the handler.                                                *)
Left == 60 * Len(todo) + 6 * (Len(Handlers) + 1 - at) + Rank(phase)

LEMMA LeftDecreases ==
  ASSUME DispatchInv, AnswerInv, Handle
  PROVE  Left \in Nat /\ Left' < Left
<1> DEFINE n == Len(todo)
<1>1. /\ n \in Nat /\ at \in 1..10 /\ Len(Handlers) = 9
      /\ \A p : Rank(p) \in 0..5
  BY HandlersLength DEF DispatchInv, TypeOK, Rank
<1>2. Left = 60 * n + 6 * (10 - at) + Rank(phase)
  BY <1>1 DEF Left
<1>3. Left' = 60 * Len(todo') + 6 * (10 - at') + Rank(phase')
  <2>1. Rank(phase)' = Rank(phase')
    BY DEF Rank
  <2>2. Len(Handlers)' = Len(Handlers)
    BY DEF Handlers
  <2>3. Left' = 60 * Len(todo)' + 6 * (Len(Handlers)' + 1 - at') + Rank(phase)'
    BY DEF Left
  <2>4. Len(Handlers)' + 1 = 10 /\ Len(todo)' = Len(todo')
    BY <1>1, <2>2
  <2>5. at' \in Int /\ Len(todo') \in Nat
    BY HandleStep, HandlersLength DEF DispatchInv, TypeOK
  <2> QED
    BY <1>1, <2>1, <2>3, <2>4, <2>5
<1>4. phase # "idle" /\ CallStep
  BY CallSteps
  DEF Handle, Unreadable, OwnClient, AnswerSubscription, NoHandler, Visit, Ask,
      AskFails, CheckHub, CheckHubFails, ExistsHub, ExistsHubFails, Act, ActFails,
      CheckCredentials, CredentialsFail, CheckLimit, LoginHub, Walking, Offered
<1>5. CASE CallEnds
  <2>1. Rank(phase) > 0 /\ Rank(phase') = 0
    BY <1>4, <1>5 DEF CallEnds, DispatchInv, TypeOK, Rank
  <2> QED
    BY <1>1, <1>2, <1>3, <1>5, <2>1 DEF CallEnds
<1>6. CASE TopicEnds
  <2>1. n > 0 /\ Len(todo') = n - 1 /\ at' = 1 /\ phase' = "walk"
    BY <1>6 DEF TopicEnds, NextTopic, DispatchInv, TypeOK
  <2>2. CASE phase = "walk"
    BY <1>1, <1>2, <1>3, <2>1, <2>2
  <2> QED
    BY <1>1, <1>2, <1>3, <2>1 DEF Rank
<1>7. CASE TopicGoesOn
  BY <1>1, <1>2, <1>3, <1>7 DEF TopicGoesOn, Unhandled, settledVars
<1>8. CASE GetsFurther
  <2>1. /\ Rank(phase') < Rank(phase) /\ UNCHANGED <<todo, at>>
    BY <1>8 DEF GetsFurther, Further, Proceed, Rank, settledVars
  <2> QED
    BY <1>1, <1>2, <1>3, <2>1
<1>9. Left \in Nat
  BY <1>1, <1>2
<1> QED
  BY <1>4, <1>5, <1>6, <1>7, <1>8, <1>9 DEF CallStep

(* publish.go, subscribe.go, login.go, helper.go: each step of a call      *)
(* brings it nearer to its end, however long the list of its topics and    *)
(* whatever others do to the hub meanwhile; the handlers never go round in *)
(* circles.  With it EveryCallIsAnswered rests on Handle being enabled.    *)
THEOREM CallsComeToAnEnd == Spec => [][Handle => Left \in Nat /\ Left' < Left]_vars
<1>1. DispatchInv /\ AnswerInv /\ [Next]_vars => [Handle => Left \in Nat /\ Left' < Left]_vars
  BY LeftDecreases
<1> QED
  BY <1>1, DispatchInvariant, AnswerInvariant, PTL DEF Spec
=============================================================================
