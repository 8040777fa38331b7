--------------------------- MODULE Startup_proofs ---------------------------
(***************************************************************************)
(* Proofs about DisconnectCommand and Startup: the command for any number  *)
(* of clients, users and calls, the start for any number of attempts, and  *)
(* that the start with everything beside it does nothing to sessions and   *)
(* calls that DisconnectCommand does not.                                  *)
(***************************************************************************)
EXTENDS Startup, FiniteSetTheorems, TLAPS

(* What the command keeps about the sessions it has to end. *)
HeldInv ==
  /\ \A k \in Calls : \A s \in held[k] : s[2] <= opened[s[1]]
  /\ \A k \in Calls : stage[k] \in {"waiting", "listing"} =>
       /\ user[k] \in Users
       /\ \A s \in held[k] : Exists(s) => session[s[1]] = user[k]
  /\ \A k \in Calls : stage[k] = "disconnecting" =>
       \A s \in held[k] : Exists(s) => s[1] \in todo[k]
  /\ OkEndsSessions

(* What it keeps about the sessions it may end. *)
ListedInv ==
  /\ \A k \in Calls : stage[k] \in {"none", "waiting", "listing"} => todo[k] = {}
  /\ \A k \in Calls : stage[k] = "disconnecting" =>
       \A c \in todo[k] : \E s \in listed[k] :
         /\ s[1] = c /\ s[2] <= opened[c]
         /\ s[2] = opened[c] => session[c] \in {user[k], NoUser}

CommandInv == CommandTypeOK /\ HeldInv /\ ListedInv

-----------------------------------------------------------------------------
(* The operations on the broker that the actions share. *)

(* SessionsOf: what vmq-admin lists are sessions of clients that exist and *)
(* belong to the user (disconnectcmd.go:104-131).                          *)
LEMMA SessionsOfUser ==
  ASSUME CommandTypeOK, NEW u \in Users
  PROVE  /\ SessionsOf(u) \in SUBSET Sessions
         /\ \A s \in SessionsOf(u) : s[2] = opened[s[1]] /\ session[s[1]] = u
         /\ \A s \in Sessions :
              Exists(s) /\ session[s[1]] = u => s \in SessionsOf(u)
BY DEF CommandTypeOK, SessionsOf, Sessions, Exists

(* Open and Close: no session that is over comes into being again, and     *)
(* numbers only grow (the broker's side of disconnectcmd.go:133-151).      *)
LEMMA OpenKeeps ==
  ASSUME CommandTypeOK, DisconnectAssumption, NEW c \in Clients,
         NEW u \in Users, Open(c, u)
  PROVE  /\ session' \in [Clients -> Users \cup {NoUser}]
         /\ opened' \in [Clients -> Nat]
         /\ \A d \in Clients : opened[d] <= opened'[d]
         /\ \A d \in Clients : opened'[d] = opened[d] => session'[d] = session[d]
         /\ \A s \in Sessions : s[2] <= opened[s[1]] /\ Exists(s)' =>
              Exists(s) /\ session'[s[1]] = session[s[1]]
BY DEF CommandTypeOK, Open, Exists, Sessions

LEMMA CloseKeeps ==
  ASSUME CommandTypeOK, DisconnectAssumption, NEW c \in Clients, Close(c)
  PROVE  /\ session' \in [Clients -> Users \cup {NoUser}]
         /\ opened' = opened
         /\ \A d \in Clients : session'[d] \in {session[d], NoUser}
         /\ \A s \in Sessions : Exists(s)' =>
              s[1] # c /\ Exists(s) /\ session'[s[1]] = session[s[1]]
BY DEF CommandTypeOK, Close, Exists, Sessions

-----------------------------------------------------------------------------
(* The command. *)

(* At the start no call is under way (disconnectcmd.go:41). *)
LEMMA CommandInitInv == CommandInit => CommandInv
<1> SUFFICES ASSUME CommandInit PROVE CommandInv
  OBVIOUS
<1>1. {} \in SUBSET Clients /\ {} \in SUBSET Sessions
  OBVIOUS
<1>2. CommandTypeOK
  BY <1>1 DEF CommandInit, CommandTypeOK, Stages, Answers
<1>3. \A k \in Calls : stage[k] = "none" /\ todo[k] = {} /\ held[k] = {}
  BY DEF CommandInit
<1>4. HeldInv /\ ListedInv
  BY <1>3 DEF HeldInv, ListedInv, OkEndsSessions
<1> QED
  BY <1>2, <1>4 DEF CommandInv

(* What the caller has been told when the handler is done                  *)
(* (disconnectcmd.go:83).                                                  *)
LEMMA ToldIsAnswer ==
  ASSUME CommandTypeOK, NEW k \in Calls, NEW told \in Told(k)
  PROVE  told \in Answers
BY DEF Told, CommandTypeOK, Answers

(* Every step keeps the types (disconnectcmd.go:41-151). *)
LEMMA CommandTypeStep ==
  ASSUME DisconnectAssumption, CommandTypeOK, [CommandNext]_commandVars
  PROVE  CommandTypeOK'
<1>1. CASE UNCHANGED commandVars
  BY <1>1 DEF CommandTypeOK, commandVars, brokerVars, callVars
<1>2. ASSUME NEW c \in Clients, ClientCloses(c) PROVE CommandTypeOK'
  BY <1>2, CloseKeeps DEF ClientCloses, CommandTypeOK, callVars
<1>3. ASSUME NEW c \in Clients, NEW u \in Users, ClientOpens(c, u)
      PROVE  CommandTypeOK'
  BY <1>3, OpenKeeps DEF ClientOpens, CommandTypeOK, callVars
<1>4. ASSUME NEW k \in Calls, Refuse(k) PROVE CommandTypeOK'
  BY <1>4 DEF Refuse, CommandTypeOK, brokerVars, Stages, Answers
<1>5. ASSUME NEW k \in Calls, NEW u \in Users, Receive(k, u)
      PROVE  CommandTypeOK'
  BY <1>5, SessionsOfUser DEF Receive, Delayed, CommandTypeOK, brokerVars,
                              Stages, Answers
<1>6. ASSUME NEW k \in Calls, TimerFires(k) PROVE CommandTypeOK'
  BY <1>6 DEF TimerFires, CommandTypeOK, brokerVars, Stages
<1>7. ASSUME NEW k \in Calls, ListSessions(k) PROVE CommandTypeOK'
  <2>1. SessionsOf(user[k]) \in SUBSET Sessions
    BY DEF CommandTypeOK, SessionsOf, Sessions
  <2>2. {s[1] : s \in SessionsOf(user[k])} \in SUBSET Clients
    BY <2>1 DEF Sessions
  <2>3. UNCHANGED <<mode, session, opened, user, held, up>>
    BY <1>7 DEF ListSessions, brokerVars
  <2>4. /\ listed' \in [Calls -> SUBSET Sessions]
        /\ todo' \in [Calls -> SUBSET Clients]
    <3>1. CASE List(k)
      BY <3>1, <2>1, <2>2 DEF List, CommandTypeOK
    <3>2. CASE UNCHANGED <<listed, todo>>
      BY <3>2 DEF CommandTypeOK
    <3> QED
      BY <1>7, <3>1, <3>2 DEF ListSessions
  <2>5. /\ stage' \in [Calls -> Stages]
        /\ failed' \in [Calls -> BOOLEAN]
        /\ answer' \in [Calls -> Answers]
    <3>1. CASE Finish(k, TRUE)
      BY <3>1, ToldIsAnswer DEF Finish, CommandTypeOK, Stages
    <3>2. CASE stage' = [stage EXCEPT ![k] = "disconnecting"] /\ UNCHANGED <<failed, answer>>
      BY <3>2 DEF CommandTypeOK, Stages
    <3> QED
      BY <1>7, <3>1, <3>2 DEF ListSessions
  <2> QED
    BY <2>3, <2>4, <2>5 DEF CommandTypeOK
<1>8. ASSUME NEW k \in Calls, DisconnectClient(k) PROVE CommandTypeOK'
  <2>1. todo[k] \in SUBSET Clients
    BY DEF CommandTypeOK
  <2>2. PICK c \in todo[k] :
          \/ /\ Close(c)
             /\ todo' = [todo EXCEPT ![k] = @ \ {c}]
             /\ UNCHANGED <<stage, failed, answer>>
          \/ /\ Close(c) \/ UNCHANGED brokerVars
             /\ Finish(k, TRUE) /\ UNCHANGED todo
    BY <1>8 DEF DisconnectClient
  <2>3. /\ session' \in [Clients -> Users \cup {NoUser}]
        /\ opened' \in [Clients -> Nat]
    BY <2>1, <2>2, CloseKeeps DEF CommandTypeOK, brokerVars
  <2>4. UNCHANGED <<mode, user, held, listed, up>>
    BY <1>8 DEF DisconnectClient
  <2>5. todo' \in [Calls -> SUBSET Clients]
    BY <2>1, <2>2 DEF CommandTypeOK
  <2>6. /\ stage' \in [Calls -> Stages]
        /\ failed' \in [Calls -> BOOLEAN]
        /\ answer' \in [Calls -> Answers]
    <3>1. CASE Finish(k, TRUE)
      BY <3>1, ToldIsAnswer DEF Finish, CommandTypeOK, Stages
    <3>2. CASE UNCHANGED <<stage, failed, answer>>
      BY <3>2 DEF CommandTypeOK
    <3> QED
      BY <2>2, <3>1, <3>2
  <2> QED
    BY <2>3, <2>4, <2>5, <2>6 DEF CommandTypeOK
<1>9. ASSUME NEW k \in Calls, AllDisconnected(k) PROVE CommandTypeOK'
  BY <1>9, ToldIsAnswer DEF AllDisconnected, Finish, CommandTypeOK, brokerVars, Stages
<1>10. ASSUME NEW k \in Calls, WebhookTimesOut(k) PROVE CommandTypeOK'
  BY <1>10 DEF WebhookTimesOut, CommandTypeOK, brokerVars, callVars
<1>11. ASSUME Exit PROVE CommandTypeOK'
  BY <1>11 DEF Exit, CommandTypeOK, brokerVars, callVars
<1> QED
  BY <1>1, <1>2, <1>3, <1>4, <1>5, <1>6, <1>7, <1>8, <1>9, <1>10, <1>11
  DEF CommandNext, Executing

-----------------------------------------------------------------------------
(* The sessions that were held. *)

(* What is left alone: a step that changes nothing but the configuration,  *)
(* the answer of a call that is not done, or whether the process is up.    *)
LEMMA HeldUnchanged ==
  ASSUME HeldInv, brokerVars' = brokerVars, stage' = stage, user' = user,
         todo' = todo, failed' = failed, answer' = answer, held' = held
  PROVE  HeldInv'
BY DEF HeldInv, OkEndsSessions, Exists, brokerVars

(* The broker opens or ends a session while no call takes a step. *)
LEMMA HeldBrokerStep ==
  ASSUME DisconnectAssumption, CommandTypeOK, HeldInv,
         stage' = stage, user' = user, todo' = todo, failed' = failed,
         answer' = answer, held' = held,
         NEW c \in Clients,
         Close(c) \/ \E u \in Users : Open(c, u)
  PROVE  HeldInv'
<1>1. /\ \A d \in Clients : opened[d] <= opened'[d]
      /\ opened \in [Clients -> Nat] /\ opened' \in [Clients -> Nat]
      /\ \A s \in Sessions : s[2] <= opened[s[1]] /\ Exists(s)' =>
           Exists(s) /\ session'[s[1]] = session[s[1]]
  BY OpenKeeps, CloseKeeps DEF CommandTypeOK
<1>2. \A k \in Calls : \A s \in held[k] :
        s \in Sessions /\ s[1] \in Clients /\ s[2] \in Nat
  BY DEF CommandTypeOK, Sessions
<1>3. \A k \in Calls : \A s \in held[k] :
        /\ s[2] <= opened'[s[1]]
        /\ Exists(s)' => Exists(s) /\ session'[s[1]] = session[s[1]]
  BY <1>1, <1>2 DEF HeldInv
<1> QED
  BY <1>3 DEF HeldInv, OkEndsSessions

(* A step of one call leaves what the invariant says of the others.        *)
LEMMA HeldCallStep ==
  ASSUME HeldInv, UNCHANGED brokerVars, NEW k \in Calls,
         \A j \in Calls : j # k =>
           /\ stage'[j] = stage[j] /\ user'[j] = user[j] /\ todo'[j] = todo[j]
           /\ failed'[j] = failed[j] /\ answer'[j] = answer[j]
           /\ held'[j] = held[j],
         \A s \in held'[k] : s[2] <= opened[s[1]],
         stage'[k] \in {"waiting", "listing"} =>
           /\ user'[k] \in Users
           /\ \A s \in held'[k] : Exists(s) => session[s[1]] = user'[k],
         stage'[k] = "disconnecting" =>
           \A s \in held'[k] : Exists(s) => s[1] \in todo'[k],
         stage'[k] = "done" /\ answer'[k] # "error" /\ ~failed'[k] =>
           \A s \in held'[k] : ~Exists(s)
  PROVE  HeldInv'
BY DEF HeldInv, OkEndsSessions, Exists, brokerVars

(* Every step keeps it (disconnectcmd.go:70-101). *)
LEMMA HeldStep ==
  ASSUME DisconnectAssumption, CommandTypeOK, HeldInv, [CommandNext]_commandVars
  PROVE  HeldInv'
<1>1. CASE UNCHANGED commandVars
  BY <1>1, HeldUnchanged DEF commandVars, callVars
<1>2. ASSUME NEW c \in Clients, ClientCloses(c) PROVE HeldInv'
  BY <1>2, HeldBrokerStep DEF ClientCloses, callVars
<1>3. ASSUME NEW c \in Clients, NEW u \in Users, ClientOpens(c, u)
      PROVE  HeldInv'
  BY <1>3, HeldBrokerStep DEF ClientOpens, callVars
<1>4. ASSUME NEW k \in Calls, Refuse(k) PROVE HeldInv'
  <2>1. stage'[k] = "done" /\ answer'[k] = "error" /\ held'[k] = held[k]
    BY <1>4 DEF Refuse, CommandTypeOK
  <2>2. \A j \in Calls : j # k => stage'[j] = stage[j] /\ answer'[j] = answer[j]
    BY <1>4 DEF Refuse, CommandTypeOK
  <2> QED
    BY <1>4, <2>1, <2>2, HeldCallStep DEF Refuse, HeldInv
<1>5. ASSUME NEW k \in Calls, NEW u \in Users, Receive(k, u) PROVE HeldInv'
  <2>1. /\ stage'[k] \in {"waiting", "listing"} /\ user'[k] = u
        /\ held'[k] = SessionsOf(u)
    BY <1>5 DEF Receive, CommandTypeOK
  <2>2. \A j \in Calls : j # k =>
          /\ stage'[j] = stage[j] /\ user'[j] = user[j]
          /\ answer'[j] = answer[j] /\ held'[j] = held[j]
    BY <1>5 DEF Receive, CommandTypeOK
  <2>3. \A s \in held'[k] : s[2] <= opened[s[1]] /\ session[s[1]] = u
    BY <2>1, SessionsOfUser DEF CommandTypeOK, Sessions
  <2>4. UNCHANGED brokerVars /\ todo' = todo /\ failed' = failed
    BY <1>5 DEF Receive
  <2> QED
    BY <2>1, <2>2, <2>3, <2>4, HeldCallStep
<1>6. ASSUME NEW k \in Calls, TimerFires(k) PROVE HeldInv'
  <2>1. stage[k] = "waiting" /\ stage'[k] = "listing"
    BY <1>6 DEF TimerFires, CommandTypeOK
  <2>2. \A j \in Calls : j # k => stage'[j] = stage[j]
    BY <1>6 DEF TimerFires, CommandTypeOK
  <2> QED
    BY <1>6, <2>1, <2>2, HeldCallStep DEF TimerFires, HeldInv
<1>7. ASSUME NEW k \in Calls, ListSessions(k) PROVE HeldInv'
  <2>0. /\ stage[k] = "listing" /\ UNCHANGED brokerVars
        /\ user' = user /\ held' = held
    BY <1>7 DEF ListSessions
  <2>1. CASE List(k) /\ stage' = [stage EXCEPT ![k] = "disconnecting"]
             /\ UNCHANGED <<failed, answer>>
    <3>1. /\ stage'[k] = "disconnecting"
          /\ todo'[k] = {s[1] : s \in SessionsOf(user[k])}
          /\ \A j \in Calls : j # k => stage'[j] = stage[j] /\ todo'[j] = todo[j]
      BY <2>1 DEF List, CommandTypeOK
    <3>2. \A s \in held[k] : Exists(s) => s \in SessionsOf(user[k])
      <4>1. user[k] \in Users
        BY <2>0 DEF HeldInv
      <4>2. held[k] \in SUBSET Sessions
        BY DEF CommandTypeOK
      <4> QED
        BY <2>0, <4>1, <4>2, SessionsOfUser DEF HeldInv
    <3>3. \A s \in held'[k] : Exists(s) => s[1] \in todo'[k]
      BY <2>0, <3>1, <3>2
    <3> QED
      BY <2>0, <2>1, <3>1, <3>3, HeldCallStep DEF HeldInv
  <2>2. CASE Finish(k, TRUE) /\ UNCHANGED <<listed, todo>>
    <3>1. stage'[k] = "done" /\ failed'[k] = TRUE
      BY <2>2 DEF Finish, CommandTypeOK
    <3>2. \A j \in Calls : j # k => /\ stage'[j] = stage[j]
                                   /\ failed'[j] = failed[j]
                                   /\ answer'[j] = answer[j]
      BY <2>2 DEF Finish, CommandTypeOK
    <3> QED
      BY <2>0, <2>2, <3>1, <3>2, HeldCallStep DEF HeldInv
  <2> QED
    BY <1>7, <2>1, <2>2 DEF ListSessions
<1>8. ASSUME NEW k \in Calls, DisconnectClient(k) PROVE HeldInv'
  <2>0. stage[k] = "disconnecting" /\ user' = user /\ held' = held
    BY <1>8 DEF DisconnectClient
  <2>1. todo[k] \in SUBSET Clients
    BY DEF CommandTypeOK
  <2>2. PICK c \in todo[k] :
          \/ /\ Close(c)
             /\ todo' = [todo EXCEPT ![k] = @ \ {c}]
             /\ UNCHANGED <<stage, failed, answer>>
          \/ /\ Close(c) \/ UNCHANGED brokerVars
             /\ Finish(k, TRUE) /\ UNCHANGED todo
    BY <1>8 DEF DisconnectClient
  <2>3. /\ opened' = opened
        /\ \A s \in Sessions : Exists(s)' =>
             Exists(s) /\ session'[s[1]] = session[s[1]]
    BY <2>1, <2>2, CloseKeeps DEF brokerVars, Exists
  <2>4. \A j \in Calls : held[j] \in SUBSET Sessions
    BY DEF CommandTypeOK
  <2>5. CASE /\ Close(c)
             /\ todo' = [todo EXCEPT ![k] = @ \ {c}]
             /\ UNCHANGED <<stage, failed, answer>>
    <3>1. \A s \in Sessions : Exists(s)' => s[1] # c
      BY <2>1, <2>5, CloseKeeps
    <3>2. \A s \in held[k] : Exists(s)' => s[1] \in todo'[k]
      BY <2>0, <2>3, <2>4, <2>5, <3>1 DEF HeldInv, CommandTypeOK
    <3>3. \A j \in Calls : j # k => todo'[j] = todo[j]
      BY <2>5 DEF CommandTypeOK
    <3> QED
      BY <2>0, <2>3, <2>4, <2>5, <3>2, <3>3 DEF HeldInv, OkEndsSessions
  <2>6. CASE Finish(k, TRUE) /\ UNCHANGED todo
    <3>1. stage'[k] = "done" /\ failed'[k] = TRUE
      BY <2>6 DEF Finish, CommandTypeOK
    <3>2. \A j \in Calls : j # k => /\ stage'[j] = stage[j]
                                   /\ failed'[j] = failed[j]
                                   /\ answer'[j] = answer[j]
      BY <2>6 DEF Finish, CommandTypeOK
    <3> QED
      BY <2>0, <2>3, <2>4, <2>6, <3>1, <3>2 DEF HeldInv, OkEndsSessions
  <2> QED
    BY <2>2, <2>5, <2>6
<1>9. ASSUME NEW k \in Calls, AllDisconnected(k) PROVE HeldInv'
  <2>0. /\ stage[k] = "disconnecting" /\ todo[k] = {} /\ UNCHANGED brokerVars
        /\ user' = user /\ held' = held /\ todo' = todo
    BY <1>9 DEF AllDisconnected
  <2>1. stage'[k] = "done"
    BY <1>9 DEF AllDisconnected, Finish, CommandTypeOK
  <2>2. \A j \in Calls : j # k => /\ stage'[j] = stage[j]
                                 /\ failed'[j] = failed[j]
                                 /\ answer'[j] = answer[j]
    BY <1>9 DEF AllDisconnected, Finish, CommandTypeOK
  <2>3. \A s \in held[k] : ~Exists(s)
    BY <2>0 DEF HeldInv
  <2> QED
    BY <2>0, <2>1, <2>2, <2>3, HeldCallStep DEF HeldInv
<1>10. ASSUME NEW k \in Calls, WebhookTimesOut(k) PROVE HeldInv'
  BY <1>10, HeldUnchanged DEF WebhookTimesOut, callVars
<1>11. ASSUME Exit PROVE HeldInv'
  BY <1>11, HeldUnchanged DEF Exit, callVars
<1> QED
  BY <1>1, <1>2, <1>3, <1>4, <1>5, <1>6, <1>7, <1>8, <1>9, <1>10, <1>11
  DEF CommandNext, Executing

-----------------------------------------------------------------------------
(* The sessions that were listed. *)

(* What one call must keep when it takes a step, the broker aside. *)
LEMMA ListedCallStep ==
  ASSUME ListedInv, UNCHANGED brokerVars, NEW k \in Calls,
         \A j \in Calls : j # k =>
           /\ stage'[j] = stage[j] /\ user'[j] = user[j]
           /\ todo'[j] = todo[j] /\ listed'[j] = listed[j],
         stage'[k] \in {"none", "waiting", "listing"} => todo'[k] = {},
         stage'[k] = "disconnecting" =>
           \A c \in todo'[k] : \E s \in listed'[k] :
             /\ s[1] = c /\ s[2] <= opened[c]
             /\ s[2] = opened[c] => session[c] \in {user'[k], NoUser}
  PROVE  ListedInv'
BY DEF ListedInv, brokerVars

(* A client comes or goes while some clients are still to be disconnected. *)
LEMMA ListedBrokerStep ==
  ASSUME DisconnectAssumption, CommandTypeOK, ListedInv,
         user' = user, listed' = listed, NEW c \in Clients,
         Close(c) \/ \E u \in Users : Open(c, u),
         NEW k \in Calls, stage[k] = "disconnecting",
         NEW d \in todo[k]
  PROVE  \E s \in listed'[k] :
           /\ s[1] = d /\ s[2] <= opened'[d]
           /\ s[2] = opened'[d] => session'[d] \in {user'[k], NoUser}
<1>1. d \in Clients /\ listed[k] \in SUBSET Sessions
  BY DEF CommandTypeOK
<1>2. PICK s \in listed[k] :
        /\ s[1] = d /\ s[2] <= opened[d]
        /\ s[2] = opened[d] => session[d] \in {user[k], NoUser}
  BY DEF ListedInv
<1>3. s[2] \in Nat /\ opened[d] \in Nat
  BY <1>1, <1>2 DEF CommandTypeOK, Sessions
<1>4. CASE Close(c)
  <2>1. opened' = opened /\ session'[d] \in {session[d], NoUser}
    BY <1>1, <1>4, CloseKeeps
  <2> QED
    BY <1>2, <2>1
<1>5. CASE \E u \in Users : Open(c, u)
  <2>1. /\ opened'[d] \in Nat /\ opened[d] <= opened'[d]
        /\ opened'[d] = opened[d] => session'[d] = session[d]
    BY <1>1, <1>5, OpenKeeps
  <2>2. s[2] <= opened'[d]
    BY <1>2, <1>3, <2>1
  <2>3. s[2] = opened'[d] => session'[d] \in {user[k], NoUser}
    BY <1>2, <1>3, <2>1
  <2> QED
    BY <1>2, <2>2, <2>3
<1> QED
  BY <1>4, <1>5

(* Every step keeps it (disconnectcmd.go:91-99). *)
LEMMA ListedStep ==
  ASSUME DisconnectAssumption, CommandTypeOK, ListedInv, [CommandNext]_commandVars
  PROVE  ListedInv'
<1>1. ASSUME stage' = stage, user' = user, todo' = todo, listed' = listed,
             UNCHANGED brokerVars
      PROVE  ListedInv'
  BY <1>1 DEF ListedInv, brokerVars
<1>2. ASSUME stage' = stage, user' = user, todo' = todo, listed' = listed,
             NEW c \in Clients, Close(c) \/ \E u \in Users : Open(c, u)
      PROVE  ListedInv'
  <2>1. \A k \in Calls : stage[k] = "disconnecting" =>
          \A d \in todo[k] : \E s \in listed'[k] :
            /\ s[1] = d /\ s[2] <= opened'[d]
            /\ s[2] = opened'[d] => session'[d] \in {user'[k], NoUser}
    BY <1>2, ListedBrokerStep
  <2> QED
    BY <1>2, <2>1 DEF ListedInv
<1>3. CASE UNCHANGED commandVars
  BY <1>1, <1>3 DEF commandVars, callVars
<1>4. ASSUME NEW c \in Clients, ClientCloses(c) PROVE ListedInv'
  BY <1>2, <1>4 DEF ClientCloses, callVars
<1>5. ASSUME NEW c \in Clients, NEW u \in Users, ClientOpens(c, u)
      PROVE  ListedInv'
  BY <1>2, <1>5 DEF ClientOpens, callVars
<1>6. ASSUME NEW k \in Calls, Refuse(k) PROVE ListedInv'
  <2>1. stage'[k] = "done"
    BY <1>6 DEF Refuse, CommandTypeOK
  <2>2. \A j \in Calls : j # k => stage'[j] = stage[j]
    BY <1>6 DEF Refuse, CommandTypeOK
  <2> QED
    BY <1>6, <2>1, <2>2, ListedCallStep DEF Refuse
<1>7. ASSUME NEW k \in Calls, NEW u \in Users, Receive(k, u) PROVE ListedInv'
  <2>1. stage'[k] \in {"waiting", "listing"} /\ stage[k] = "none"
    BY <1>7 DEF Receive, CommandTypeOK
  <2>2. \A j \in Calls : j # k => stage'[j] = stage[j] /\ user'[j] = user[j]
    BY <1>7 DEF Receive, CommandTypeOK
  <2>3. UNCHANGED brokerVars /\ todo' = todo /\ listed' = listed
    BY <1>7 DEF Receive
  <2>4. todo'[k] = {} /\ stage'[k] # "disconnecting"
    BY <2>1, <2>3 DEF ListedInv
  <2> QED
    BY <2>2, <2>3, <2>4, ListedCallStep
<1>8. ASSUME NEW k \in Calls, TimerFires(k) PROVE ListedInv'
  <2>1. stage[k] = "waiting" /\ stage'[k] = "listing"
    BY <1>8 DEF TimerFires, CommandTypeOK
  <2>2. \A j \in Calls : j # k => stage'[j] = stage[j]
    BY <1>8 DEF TimerFires, CommandTypeOK
  <2>3. UNCHANGED brokerVars /\ todo' = todo /\ listed' = listed /\ user' = user
    BY <1>8 DEF TimerFires
  <2>4. todo'[k] = {}
    BY <2>1, <2>3 DEF ListedInv
  <2> QED
    BY <2>1, <2>2, <2>3, <2>4, ListedCallStep
<1>9. ASSUME NEW k \in Calls, ListSessions(k) PROVE ListedInv'
  <2>0. UNCHANGED brokerVars /\ user' = user
    BY <1>9 DEF ListSessions
  <2>1. CASE List(k) /\ stage' = [stage EXCEPT ![k] = "disconnecting"]
    <3>1. /\ stage'[k] = "disconnecting" /\ listed'[k] = SessionsOf(user[k])
          /\ todo'[k] = {s[1] : s \in SessionsOf(user[k])}
          /\ \A j \in Calls : j # k => /\ stage'[j] = stage[j]
                                     /\ todo'[j] = todo[j]
                                     /\ listed'[j] = listed[j]
      BY <2>1 DEF List, CommandTypeOK
    <3>2. \A s \in SessionsOf(user[k]) :
            /\ s[1] \in Clients /\ s[2] = opened[s[1]]
            /\ session[s[1]] = user[k] /\ opened[s[1]] \in Nat
      BY DEF SessionsOf, CommandTypeOK
    <3>3. \A c \in todo'[k] : \E s \in listed'[k] :
            /\ s[1] = c /\ s[2] <= opened[c]
            /\ s[2] = opened[c] => session[c] \in {user'[k], NoUser}
      BY <2>0, <3>1, <3>2
    <3> QED
      BY <2>0, <3>1, <3>3, ListedCallStep
  <2>2. CASE Finish(k, TRUE) /\ UNCHANGED <<listed, todo>>
    <3>1. stage'[k] = "done"
      BY <2>2 DEF Finish, CommandTypeOK
    <3>2. \A j \in Calls : j # k => stage'[j] = stage[j]
      BY <2>2 DEF Finish, CommandTypeOK
    <3> QED
      BY <2>0, <2>2, <3>1, <3>2, ListedCallStep
  <2> QED
    BY <1>9, <2>1, <2>2 DEF ListSessions
<1>10. ASSUME NEW k \in Calls, DisconnectClient(k) PROVE ListedInv'
  <2>0. stage[k] = "disconnecting" /\ user' = user /\ listed' = listed
    BY <1>10 DEF DisconnectClient
  <2>1. PICK c \in todo[k] :
          \/ /\ Close(c)
             /\ todo' = [todo EXCEPT ![k] = @ \ {c}]
             /\ UNCHANGED <<stage, failed, answer>>
          \/ /\ Close(c) \/ UNCHANGED brokerVars
             /\ Finish(k, TRUE) /\ UNCHANGED todo
    BY <1>10 DEF DisconnectClient
  <2>2. c \in Clients
    BY DEF CommandTypeOK
  <2>3. \A j \in Calls : stage[j] = "disconnecting" =>
          \A d \in todo[j] : \E s \in listed'[j] :
            /\ s[1] = d /\ s[2] <= opened'[d]
            /\ s[2] = opened'[d] => session'[d] \in {user'[j], NoUser}
    <3>1. CASE Close(c)
      BY <2>0, <2>2, <3>1, ListedBrokerStep
    <3>2. CASE UNCHANGED brokerVars
      BY <2>0, <3>2 DEF ListedInv, brokerVars
    <3> QED
      BY <2>1, <3>1, <3>2
  <2>4. \A j \in Calls :
          /\ stage'[j] \in {stage[j], "done"}
          /\ todo'[j] \in SUBSET todo[j]
    BY <2>1 DEF Finish, CommandTypeOK
  <2>5. \A j \in Calls : stage'[j] \in {"none", "waiting", "listing"} => todo'[j] = {}
    BY <2>4 DEF ListedInv
  <2>6. ASSUME NEW j \in Calls, stage'[j] = "disconnecting", NEW d \in todo'[j]
        PROVE  \E s \in listed'[j] :
                 /\ s[1] = d /\ s[2] <= opened'[d]
                 /\ s[2] = opened'[d] => session'[d] \in {user'[j], NoUser}
    <3>1. stage[j] = "disconnecting" /\ d \in todo[j]
      BY <2>4, <2>6
    <3> QED
      BY <2>3, <3>1
  <2> QED
    BY <2>5, <2>6 DEF ListedInv
<1>11. ASSUME NEW k \in Calls, AllDisconnected(k) PROVE ListedInv'
  <2>1. stage'[k] = "done"
    BY <1>11 DEF AllDisconnected, Finish, CommandTypeOK
  <2>2. \A j \in Calls : j # k => stage'[j] = stage[j]
    BY <1>11 DEF AllDisconnected, Finish, CommandTypeOK
  <2> QED
    BY <1>11, <2>1, <2>2, ListedCallStep DEF AllDisconnected
<1>12. ASSUME NEW k \in Calls, WebhookTimesOut(k) PROVE ListedInv'
  BY <1>1, <1>12 DEF WebhookTimesOut, callVars
<1>13. ASSUME Exit PROVE ListedInv'
  BY <1>1, <1>13 DEF Exit, callVars
<1> QED
  BY <1>3, <1>4, <1>5, <1>6, <1>7, <1>8, <1>9, <1>10, <1>11, <1>12, <1>13
  DEF CommandNext, Executing

(* A client id leaves the list of a call only as it is disconnected, so    *)
(* the invariant says whose session it had (disconnectcmd.go:95-100).      *)
LEMMA SparedStep ==
  ASSUME DisconnectAssumption, CommandInv, [CommandNext]_commandVars,
         NEW k \in Calls, NEW c \in Clients,
         c \in todo[k], c \notin todo'[k], session[c] \notin {user[k], NoUser}
  PROVE  \E s \in listed[k] : s[1] = c /\ s[2] < opened[c]
<1>1. stage[k] = "disconnecting"
  <2>1. \E j \in Calls : ListSessions(j) \/ DisconnectClient(j)
    BY DEF CommandNext, Executing, ClientCloses, ClientOpens, Refuse, Receive,
           TimerFires, AllDisconnected, WebhookTimesOut, Exit, callVars, commandVars
  <2>2. PICK j \in Calls : ListSessions(j) \/ DisconnectClient(j)
    BY <2>1
  <2>3. j = k
    BY <2>2 DEF ListSessions, DisconnectClient, List, CommandInv, CommandTypeOK
  <2>4. stage[k] # "listing"
    BY DEF CommandInv, ListedInv
  <2> QED
    BY <2>2, <2>3, <2>4 DEF ListSessions, DisconnectClient
<1>2. PICK s \in listed[k] :
        /\ s[1] = c /\ s[2] <= opened[c]
        /\ s[2] = opened[c] => session[c] \in {user[k], NoUser}
  BY <1>1 DEF CommandInv, ListedInv
<1>3. s[2] \in Nat /\ opened[c] \in Nat
  BY <1>2 DEF CommandInv, CommandTypeOK, Sessions
<1> QED
  BY <1>2, <1>3

-----------------------------------------------------------------------------
(* The theorems about the command. *)

(* All three parts together are inductive. *)
LEMMA CommandInvariant == CommandSpec => []CommandInv
<1>1. CommandInv /\ [CommandNext]_commandVars => CommandInv'
  BY DisconnectAssumption, CommandTypeStep, HeldStep, ListedStep DEF CommandInv
<1> QED
  BY <1>1, CommandInitInv, PTL DEF CommandSpec

(* Every reachable state is of the declared types. *)
THEOREM CommandTypeCorrect == CommandSpec => []CommandTypeOK
BY CommandInvariant, PTL DEF CommandInv

(* A command that is done without a failed request has ended every session *)
(* of the user that there was when it came (disconnectcmd.go:63-101).      *)
THEOREM OkMeansEnded == CommandSpec => []OkEndsSessions
<1>1. CommandInv => OkEndsSessions
  BY DEF CommandInv, HeldInv
<1> QED
  BY <1>1, CommandInvariant, PTL

(* The session of another user is only ended under a client id that the    *)
(* user had when the sessions were listed (disconnectcmd.go:95-100).       *)
THEOREM OthersSpared == CommandSpec => OthersAreSpared
<1>1. CommandInv /\ [CommandNext]_commandVars =>
        [\A k \in Calls, c \in Clients :
           c \in todo[k] /\ c \notin todo'[k] /\ session[c] \notin {user[k], NoUser} =>
             \E s \in listed[k] : s[1] = c /\ s[2] < opened[c]]_commandVars
  BY DisconnectAssumption, SparedStep
<1> QED
  BY <1>1, CommandInvariant, PTL DEF CommandSpec, OthersAreSpared

-----------------------------------------------------------------------------
(* What a command still has to do. *)

(* The clients that have a session; however many client ids there are,     *)
(* these are finitely many, and so are those a command lists.              *)
Online == {c \in Clients : session[c] # NoUser}

FiniteInv ==
  /\ IsFiniteSet(Online)
  /\ \A k \in Calls : IsFiniteSet(todo[k])

LEMMA FiniteInit == CommandInit => FiniteInv
<1> SUFFICES ASSUME CommandInit PROVE FiniteInv
  OBVIOUS
<1>1. Online = {} /\ \A k \in Calls : todo[k] = {}
  BY DEF CommandInit, Online
<1> QED
  BY <1>1, FS_EmptySet DEF FiniteInv

(* The broker has one client more, or fewer. *)
LEMMA OnlineStep ==
  ASSUME DisconnectAssumption, CommandTypeOK, IsFiniteSet(Online),
         \/ session' = session
         \/ \E c \in Clients : Close(c) \/ \E u \in Users : Open(c, u)
  PROVE  IsFiniteSet(Online')
<1>1. CASE session' = session
  BY <1>1 DEF Online
<1>2. ASSUME NEW c \in Clients, Close(c) \/ \E u \in Users : Open(c, u)
      PROVE  IsFiniteSet(Online')
  <2>1. \A d \in Clients : d # c => session'[d] = session[d]
    BY <1>2 DEF Close, Open, CommandTypeOK
  <2>2. Online' \subseteq Online \cup {c}
    BY <2>1 DEF Online
  <2>3. IsFiniteSet(Online \cup {c})
    BY FS_AddElement
  <2> QED
    BY <2>2, <2>3, FS_Subset
<1> QED
  BY <1>1, <1>2

(* A step of the list is the call's own. *)
LEMMA ListStep ==
  ASSUME CommandTypeOK, [CommandNext]_commandVars, NEW k \in Calls
  PROVE  \/ UNCHANGED <<stage[k], todo[k]>>
         \/ stage[k] = "none" /\ stage'[k] # "none" /\ todo'[k] = todo[k]
         \/ TimerFires(k) \/ ListSessions(k) \/ DisconnectClient(k)
         \/ AllDisconnected(k)
<1>1. CASE UNCHANGED commandVars
  BY <1>1 DEF commandVars, callVars
<1>2. CASE Exit \/ \E c \in Clients : ClientCloses(c) \/ \E u \in Users : ClientOpens(c, u)
  BY <1>2 DEF Exit, ClientCloses, ClientOpens, callVars
<1>3. ASSUME NEW j \in Calls,
             Refuse(j) \/ (\E u \in Users : Receive(j, u)) \/ WebhookTimesOut(j)
      PROVE  \/ UNCHANGED <<stage[k], todo[k]>>
             \/ stage[k] = "none" /\ stage'[k] # "none" /\ todo'[k] = todo[k]
  BY <1>3 DEF Refuse, Receive, WebhookTimesOut, callVars, CommandTypeOK
<1>4. ASSUME NEW j \in Calls, j # k, Executing(j)
      PROVE  UNCHANGED <<stage[k], todo[k]>>
  <2>1. CASE TimerFires(j) \/ AllDisconnected(j)
    BY <1>4, <2>1 DEF TimerFires, AllDisconnected, Finish, CommandTypeOK
  <2>2. CASE ListSessions(j)
    BY <1>4, <2>2 DEF ListSessions, List, Finish, CommandTypeOK
  <2>3. CASE DisconnectClient(j)
    BY <1>4, <2>3 DEF DisconnectClient, Finish, CommandTypeOK
  <2> QED
    BY <1>4, <2>1, <2>2, <2>3 DEF Executing
<1> QED
  BY <1>1, <1>2, <1>3, <1>4 DEF CommandNext, Executing

(* What one step does to the sessions. *)
LEMMA SessionStep ==
  ASSUME CommandTypeOK, [CommandNext]_commandVars
  PROVE  \/ session' = session
         \/ \E c \in Clients : Close(c) \/ \E u \in Users : Open(c, u)
<1>1. ASSUME NEW k \in Calls, DisconnectClient(k)
      PROVE  session' = session \/ \E c \in Clients : Close(c)
  <2>1. todo[k] \in SUBSET Clients
    BY DEF CommandTypeOK
  <2> QED
    BY <1>1, <2>1 DEF DisconnectClient, brokerVars
<1> QED
  BY <1>1
  DEF CommandNext, Executing, ClientCloses, ClientOpens, Refuse, Receive,
      TimerFires, ListSessions, AllDisconnected, WebhookTimesOut, Exit,
      brokerVars, commandVars

LEMMA FiniteStep ==
  ASSUME DisconnectAssumption, CommandTypeOK, HeldInv, FiniteInv,
         [CommandNext]_commandVars
  PROVE  FiniteInv'
<1>1. IsFiniteSet(Online')
  BY OnlineStep, SessionStep DEF FiniteInv
<1>2. ASSUME NEW k \in Calls PROVE IsFiniteSet(todo'[k])
  <2>1. CASE todo'[k] \subseteq todo[k]
    BY <2>1, FS_Subset DEF FiniteInv
  <2>2. CASE ListSessions(k)
    <3>1. CASE List(k)
      <4>1. todo'[k] = {s[1] : s \in SessionsOf(user[k])}
        BY <3>1 DEF List, CommandTypeOK
      <4>2. user[k] # NoUser
        BY <2>2, DisconnectAssumption
        DEF ListSessions, HeldInv, DisconnectAssumption
      <4>3. todo'[k] \subseteq Online
        BY <4>1, <4>2 DEF SessionsOf, Online
      <4> QED
        BY <4>3, FS_Subset DEF FiniteInv
    <3> QED
      BY <2>1, <2>2, <3>1 DEF ListSessions
  <2>3. CASE DisconnectClient(k)
    <3>1. todo'[k] \subseteq todo[k]
      BY <2>3 DEF DisconnectClient, CommandTypeOK
    <3> QED
      BY <2>1, <3>1
  <2> QED
    BY <2>1, <2>2, <2>3, ListStep DEF TimerFires, AllDisconnected
<1> QED
  BY <1>1, <1>2 DEF FiniteInv

(* The stages a command has behind itself when it is done. *)
StagesLeft == [s \in Stages |->
  CASE s = "none" -> 4 [] s = "waiting" -> 3 [] s = "listing" -> 2
    [] s = "disconnecting" -> 1 [] OTHER -> 0]

(* A call has fewer stages before it, or in the same one fewer clients.    *)
Nearer(k) ==
  \/ StagesLeft[stage'[k]] < StagesLeft[stage[k]]
  \/ /\ stage'[k] = stage[k]
     /\ Cardinality(todo[k]) \in Nat
     /\ Cardinality(todo'[k]) < Cardinality(todo[k])

LEMMA NearerStep ==
  ASSUME CommandTypeOK, FiniteInv, [CommandNext]_commandVars, NEW k \in Calls
  PROVE  /\ Executing(k) => Nearer(k)
         /\ Nearer(k) \/ UNCHANGED <<stage[k], todo[k]>>
<1>s. /\ StagesLeft["none"] = 4 /\ StagesLeft["waiting"] = 3
      /\ StagesLeft["listing"] = 2 /\ StagesLeft["disconnecting"] = 1
      /\ StagesLeft["done"] = 0
  BY DEF StagesLeft, Stages
<1>1. CASE stage[k] = "none" /\ stage'[k] # "none" /\ todo'[k] = todo[k]
  <2>1. stage'[k] \in Stages
    BY DisconnectAssumption, CommandTypeStep DEF CommandTypeOK
  <2>2. Nearer(k)
    BY <1>1, <1>s, <2>1 DEF Nearer, Stages
  <2> QED
    BY <2>2
<1>2. ASSUME TimerFires(k) PROVE Nearer(k)
  <2>1. stage[k] = "waiting" /\ stage'[k] = "listing"
    BY <1>2 DEF TimerFires, CommandTypeOK
  <2> QED
    BY <1>s, <2>1 DEF Nearer
<1>3. ASSUME ListSessions(k) PROVE Nearer(k)
  <2>1. stage[k] = "listing" /\ stage'[k] \in {"disconnecting", "done"}
    BY <1>3 DEF ListSessions, Finish, CommandTypeOK
  <2> QED
    BY <1>s, <2>1 DEF Nearer
<1>4. ASSUME AllDisconnected(k) PROVE Nearer(k)
  <2>1. stage[k] = "disconnecting" /\ stage'[k] = "done"
    BY <1>4 DEF AllDisconnected, Finish, CommandTypeOK
  <2> QED
    BY <1>s, <2>1 DEF Nearer
<1>5. ASSUME DisconnectClient(k) PROVE Nearer(k)
  <2>1. stage[k] = "disconnecting"
    BY <1>5 DEF DisconnectClient
  <2>2. CASE stage'[k] = "done"
    BY <1>s, <2>1, <2>2 DEF Nearer
  <2>3. ASSUME NEW c \in todo[k], todo'[k] = todo[k] \ {c}, stage' = stage
        PROVE  Nearer(k)
    <3>1. IsFiniteSet(todo[k])
      BY DEF FiniteInv
    <3>2. /\ Cardinality(todo[k]) \in Nat
          /\ Cardinality(todo'[k]) = Cardinality(todo[k]) - 1
      BY <2>3, <3>1, FS_CardinalityType, FS_RemoveElement
    <3> QED
      BY <2>3, <3>2 DEF Nearer
  <2>4. \/ stage'[k] = "done"
        \/ stage' = stage /\ \E c \in todo[k] : todo'[k] = todo[k] \ {c}
    BY <1>5 DEF DisconnectClient, Finish, CommandTypeOK
  <2> QED
    BY <2>2, <2>3, <2>4
<1>6. Executing(k) => Nearer(k)
  BY <1>2, <1>3, <1>4, <1>5 DEF Executing
<1> QED
  BY <1>1, <1>2, <1>3, <1>4, <1>5, <1>6, ListStep

(* A command cannot go on for ever: each of its steps brings it nearer to  *)
(* its end, and nothing else puts it back - no other command and no client *)
(* that returns while its session is ended, as the list is not read again  *)
(* (disconnectcmd.go:89-102).                                              *)
THEOREM CommandRunsOut ==
  CommandSpec =>
    [][\A k \in Calls : /\ Executing(k) => Nearer(k)
                        /\ Nearer(k) \/ UNCHANGED <<stage[k], todo[k]>>]_commandVars
<1>1. CommandInv /\ FiniteInv /\ [CommandNext]_commandVars =>
        [\A k \in Calls : /\ Executing(k) => Nearer(k)
                          /\ Nearer(k) \/ UNCHANGED <<stage[k], todo[k]>>]_commandVars
  BY NearerStep DEF CommandInv
<1>2. CommandInv /\ FiniteInv /\ [CommandNext]_commandVars => FiniteInv'
  BY DisconnectAssumption, FiniteStep DEF CommandInv
<1> QED
  BY <1>1, <1>2, FiniteInit, CommandInvariant, PTL DEF CommandSpec

-----------------------------------------------------------------------------
(* The start. *)

(* To sessions and calls every step of the start and of what happens       *)
(* beside it is a step of DisconnectCommand or none: the connector's own   *)
(* clients are clients of the broker like others (mqtt.go:38-141).         *)
LEMMA StartStepIsCommandStep ==
  ASSUME StartAssumption, CommandTypeOK, Next
  PROVE  [CommandNext]_commandVars
<1>1. ASSUME NEW from, Fatal(from) PROVE CommandNext
  BY <1>1 DEF Fatal, CommandNext, Exit
<1>2. CASE StartStep
  BY <1>1, <1>2
  DEF StartStep, Prepare, MakeHandlers, InitWebhooks, MqttStart, MqttFails,
      NextTry, SetCommandHandler, StartConsumer, StartFails, Quiet, Beside
<1>3. CASE Listen
  <2>1. CASE UNCHANGED up
    BY <1>3, <2>1 DEF Listen, commandVars
  <2>2. CASE up' = FALSE
    BY <1>3, <2>2 DEF Listen, CommandNext, Exit
  <2> QED
    BY <1>3, <2>1, <2>2 DEF Listen
<1>4. ASSUME NEW i \in DOMAIN OwnIds, OwnLogin(i) PROVE CommandNext
  <2>1. OwnIds[i] \in Clients /\ OwnUser \in Users
    BY StartAssumption DEF StartAssumption
  <2> QED
    BY <1>4, <2>1 DEF OwnLogin, CommandNext, ClientOpens
<1>5. ASSUME NEW i \in DOMAIN OwnIds, StopClient(i)
      PROVE  [CommandNext]_commandVars
  <2>1. OwnIds[i] \in Clients
    BY StartAssumption DEF StartAssumption
  <2>2. CASE session[OwnIds[i]] # NoUser
    BY <1>5, <2>1, <2>2 DEF StopClient, CommandNext, ClientCloses
  <2>3. CASE session[OwnIds[i]] = NoUser
    <3>1. session' = session
      BY <1>5, <2>1, <2>3 DEF StopClient, Close, CommandTypeOK
    <3> QED
      BY <1>5, <3>1 DEF StopClient, Close, commandVars, brokerVars
  <2> QED
    BY <2>2, <2>3
<1>6. CASE BrokerStep
  BY <1>6 DEF BrokerStep, CommandNext
<1>7. ASSUME NEW k \in Calls, Webhook(k) PROVE CommandNext
  BY <1>7 DEF Webhook, CommandNext
<1>8. CASE Cancel \/ (Exit /\ UNCHANGED startVars) \/ Ended
  BY <1>8 DEF Cancel, Quiet, Beside, CommandNext, Ended, vars
<1> QED
  BY <1>2, <1>3, <1>4, <1>5, <1>6, <1>7, <1>8 DEF Next

(* The start is an environment of the command: what is proved of the       *)
(* command holds while the connector starts, runs and stops.               *)
THEOREM StartupRunsCommand == Spec => CommandSpec
<1>1. Init => CommandInit
  BY DEF Init
<1>2. CommandTypeOK /\ [Next]_vars => [CommandNext]_commandVars
  BY StartAssumption, StartStepIsCommandStep DEF vars, commandVars
<1>3. CommandTypeOK /\ [Next]_vars => CommandTypeOK'
  BY <1>2, DisconnectAssumption, CommandTypeStep
<1>4. Init => CommandTypeOK
  BY <1>1, CommandInitInv DEF CommandInv
<1> QED
  BY <1>1, <1>2, <1>3, <1>4, PTL DEF Spec, CommandSpec

(* The connector's own sessions are no exception to what a command says it *)
(* has done, nor do its clients that come back make it end the session of  *)
(* another user (disconnectcmd.go:63-101, mqtt.go:38-141).                 *)
THEOREM CommandsBesideStart == Spec => []OkEndsSessions /\ OthersAreSpared
BY StartupRunsCommand, OkMeansEnded, OthersSpared, PTL

(* Where Start stands, what is running and what it took to get there. *)
BootInv ==
  /\ boot \in {"handler", "consumer", "started", "stopping"} =>
       server = "listening" /\ tries # 0
  /\ boot \in {"prepare", "handlers", "webhooks"} => tries = 0
  /\ boot = "connect" => tries < Len(OwnIds)
  /\ boot = "await" =>
       tries # 0 /\ tries \in running /\ session[OwnIds[tries]] = NoUser

(* The clients that are left; with version 4 only the one that is waited   *)
(* for or was waited for last.                                             *)
ClientsInv ==
  /\ \A i \in running : i <= tries
  /\ \A i \in DOMAIN OwnIds : session[OwnIds[i]] # NoUser => i <= tries
  /\ settings.MqttVersion = "4" =>
       /\ \A i \in running : i = tries
       /\ \A i \in DOMAIN OwnIds : session[OwnIds[i]] # NoUser => i = tries
       /\ boot \in {"connect", "pause"} =>
            /\ running = {}
            /\ \A i \in DOMAIN OwnIds : session[OwnIds[i]] = NoUser

StartInv == TypeOK /\ BootInv /\ ClientsInv

LEMMA StartInitInv == StartAssumption /\ Init => StartInv
<1> SUFFICES ASSUME StartAssumption, Init PROVE StartInv
  OBVIOUS
<1>1. CommandTypeOK
  BY CommandInitInv DEF Init, CommandInv
<1>2. \A i \in DOMAIN OwnIds : session[OwnIds[i]] = NoUser
  BY DEF Init, CommandInit, StartAssumption
<1>3. {} \in SUBSET DOMAIN OwnIds /\ Len(OwnIds) \in Nat
  BY DEF StartAssumption
<1>4. TypeOK
  BY <1>1, <1>3 DEF Init, TypeOK, Boot
<1>5. BootInv /\ ClientsInv
  BY <1>2 DEF Init, BootInv, ClientsInv
<1> QED
  BY <1>4, <1>5 DEF StartInv

(* The sessions of the connector's own clients begin with OwnLogin only. *)
LEMMA OwnSessions ==
  ASSUME StartAssumption, CommandTypeOK, DisconnectAssumption,
         BrokerStep \/ \E k \in Calls : Webhook(k),
         NEW i \in DOMAIN OwnIds, session[OwnIds[i]] = NoUser
  PROVE  session'[OwnIds[i]] = NoUser
<1>1. OwnIds[i] \in Clients /\ OwnIds[i] \in OwnClients
  BY DEF StartAssumption, OwnClients
<1>2. ASSUME NEW c \in Clients, Close(c) PROVE session'[OwnIds[i]] = NoUser
  BY <1>1, <1>2, CloseKeeps
<1>3. CASE session' = session
  BY <1>3
<1>4. ASSUME NEW c \in Clients \ OwnClients, NEW u \in Users, ClientOpens(c, u)
      PROVE  session'[OwnIds[i]] = NoUser
  BY <1>1, <1>4 DEF ClientOpens, Open, CommandTypeOK
<1>5. CASE BrokerStep
  BY <1>2, <1>4, <1>5 DEF BrokerStep, ClientCloses
<1>6. ASSUME NEW k \in Calls, Webhook(k) PROVE session'[OwnIds[i]] = NoUser
  <2>1. \/ session' = session
        \/ \E c \in todo[k] : Close(c)
    BY <1>6 DEF Webhook, Executing, Refuse, Receive, TimerFires, ListSessions,
                DisconnectClient, AllDisconnected, WebhookTimesOut, brokerVars
  <2>2. todo[k] \in SUBSET Clients
    BY DEF CommandTypeOK
  <2> QED
    BY <1>2, <1>3, <2>1, <2>2
<1> QED
  BY <1>5, <1>6

(* Every step of the start keeps where it stands and what is running       *)
(* (lib.go:224-255, mqtt.go:38-141).                                       *)
LEMMA StartInvStep ==
  ASSUME StartAssumption, DisconnectAssumption, StartInv, [Next]_vars
  PROVE  StartInv'
<1> USE DEF StartInv
<1>t. CommandTypeOK'
  <2>1. [CommandNext]_commandVars
    BY StartStepIsCommandStep DEF vars, commandVars, TypeOK
  <2> QED
    BY <2>1, CommandTypeStep DEF TypeOK
<1>n. /\ Len(OwnIds) \in Nat /\ DOMAIN OwnIds = 1..Len(OwnIds)
      /\ Len(OwnIds) # 0 /\ tries \in Nat
  BY DEF StartAssumption, TypeOK
<1>1. CASE UNCHANGED vars
  BY <1>1, <1>t DEF vars, startVars, commandVars, brokerVars, TypeOK, BootInv,
                    ClientsInv
<1>2. ASSUME Prepare \/ MakeHandlers \/ InitWebhooks \/ StartConsumer \/ Cancel
      PROVE  StartInv'
  BY <1>2, <1>t, <1>n
  DEF Prepare, MakeHandlers, InitWebhooks, StartConsumer, Cancel, Goto, Quiet,
      Beside, commandVars, brokerVars, TypeOK, Boot, BootInv, ClientsInv
<1>3. CASE NextTry
  BY <1>3, <1>t, <1>n
  DEF NextTry, Goto, Quiet, Beside, commandVars, brokerVars, TypeOK, Boot,
      BootInv, ClientsInv
<1>4. CASE SetCommandHandler
  BY <1>4, <1>t, <1>n
  DEF SetCommandHandler, Goto, Beside, commandVars, brokerVars, TypeOK, Boot,
      BootInv, ClientsInv
<1>5. ASSUME up' = FALSE, UNCHANGED <<mode, brokerVars, callVars, startVars>>
      PROVE  StartInv'
  BY <1>5, <1>t DEF startVars, brokerVars, TypeOK, BootInv, ClientsInv
<1>6. CASE StartFails
  BY <1>5, <1>6 DEF StartFails, Fatal
<1>7. CASE Listen
  BY <1>7, <1>t DEF Listen, brokerVars, TypeOK, BootInv, ClientsInv
<1>8. CASE MqttStart
  <2>1. /\ tries' = tries + 1 /\ running' = running \cup {tries + 1}
        /\ boot = "connect" /\ boot' = "await"
        /\ UNCHANGED <<commandVars, settings, server, publisher>>
    BY <1>8 DEF MqttStart, Goto, Beside
  <2>2. tries + 1 \in DOMAIN OwnIds
    BY <1>n, <2>1 DEF BootInv
  <2>3. TypeOK'
    BY <1>t, <1>n, <2>1, <2>2 DEF TypeOK, Boot
  <2>4. session' = session
    BY <2>1 DEF commandVars, brokerVars
  <2>5. session[OwnIds[tries + 1]] = NoUser
    BY <1>n, <2>2 DEF ClientsInv
  <2>6. BootInv'
    BY <1>n, <2>1, <2>4, <2>5 DEF BootInv
  <2>7. running \subseteq DOMAIN OwnIds
    BY DEF TypeOK
  <2>8. ClientsInv'
    BY <1>n, <2>1, <2>4, <2>7 DEF ClientsInv
  <2> QED
    BY <2>3, <2>6, <2>8
<1>9. CASE MqttFails
  <2>1. /\ tries' = tries /\ boot = "await" /\ boot' = "pause"
        /\ running' \in SUBSET running
        /\ running' = running \ {tries} \/ settings.MqttVersion = "5"
        /\ UNCHANGED <<commandVars, settings, server, publisher>>
    BY <1>9 DEF MqttFails, Goto, Beside
  <2>2. session' = session
    BY <2>1 DEF commandVars, brokerVars
  <2>3. TypeOK'
    BY <1>t, <2>1 DEF TypeOK, Boot
  <2>4. BootInv'
    BY <2>1 DEF BootInv
  <2>5. ClientsInv'
    BY <1>n, <2>1, <2>2 DEF ClientsInv, BootInv
  <2> QED
    BY <2>3, <2>4, <2>5
<1>10. ASSUME NEW i \in DOMAIN OwnIds, OwnLogin(i) PROVE StartInv'
  <2>1. /\ i \in running /\ server = "listening"
        /\ boot' \in {boot, "handler", "pause"}
        /\ boot' # boot => boot = "await" /\ i = tries
        /\ boot' = "pause" /\ boot # "pause" => settings.MqttVersion = "5"
        /\ boot = "await" /\ i = tries => boot' # "await"
        /\ UNCHANGED <<settings, server, tries, running, publisher>>
    BY <1>10 DEF OwnLogin
  <2>2. /\ OwnIds[i] \in Clients
        /\ \A j \in DOMAIN OwnIds : j # i => OwnIds[j] # OwnIds[i]
        /\ \A j \in DOMAIN OwnIds : OwnIds[j] \in Clients
    BY DEF StartAssumption
  <2>3. \A j \in DOMAIN OwnIds : j # i => session'[OwnIds[j]] = session[OwnIds[j]]
    BY <1>10, <2>2 DEF OwnLogin, Open, TypeOK, CommandTypeOK
  <2>4. TypeOK'
    BY <1>t, <2>1 DEF TypeOK, Boot
  <2>5. boot = "await" => tries \in DOMAIN OwnIds
    BY DEF BootInv, TypeOK
  <2>6. BootInv'
    BY <1>n, <2>1, <2>3, <2>5 DEF BootInv
  <2>7. ClientsInv'
    <3>1. i <= tries
      BY <2>1 DEF ClientsInv
    <3>2. settings.MqttVersion = "4" => i = tries /\ boot \notin {"connect", "pause"}
      BY <2>1 DEF ClientsInv
    <3>3. \A j \in DOMAIN OwnIds :
            session'[OwnIds[j]] # NoUser => j = i \/ session[OwnIds[j]] # NoUser
      BY <2>3
    <3>4. settings.MqttVersion = "4" => boot' \notin {"connect", "pause"}
      BY <2>1, <3>2
    <3> QED
      BY <2>1, <3>1, <3>2, <3>3, <3>4 DEF ClientsInv
  <2> QED
    BY <2>4, <2>6, <2>7
<1>11. ASSUME NEW i \in DOMAIN OwnIds, StopClient(i) PROVE StartInv'
  <2>1. /\ boot = "stopping" /\ running' = running \ {i}
        /\ UNCHANGED <<settings, boot, server, tries, publisher>>
    BY <1>11 DEF StopClient
  <2>2. OwnIds[i] \in Clients /\ Close(OwnIds[i])
    BY <1>11 DEF StopClient, StartAssumption
  <2>3. \A j \in DOMAIN OwnIds : session'[OwnIds[j]] \in {session[OwnIds[j]], NoUser}
    BY <2>2, CloseKeeps DEF TypeOK, StartAssumption
  <2>4. TypeOK'
    BY <1>t, <2>1 DEF TypeOK
  <2> QED
    BY <2>1, <2>3, <2>4 DEF BootInv, ClientsInv
<1>12. ASSUME BrokerStep \/ \E k \in Calls : Webhook(k) PROVE StartInv'
  <2>1. UNCHANGED startVars
    BY <1>12 DEF BrokerStep, Webhook
  <2>2. \A i \in DOMAIN OwnIds :
          session[OwnIds[i]] = NoUser => session'[OwnIds[i]] = NoUser
    BY <1>12, OwnSessions DEF TypeOK
  <2>3. TypeOK'
    BY <1>t, <2>1 DEF TypeOK, startVars
  <2>4. boot = "await" => tries \in DOMAIN OwnIds
    BY DEF BootInv, TypeOK
  <2> QED
    BY <2>1, <2>2, <2>3, <2>4 DEF BootInv, ClientsInv, startVars
<1>13. CASE (Exit /\ UNCHANGED startVars) \/ Ended
  BY <1>1, <1>5, <1>13 DEF Exit, Ended
<1> QED
  BY <1>1, <1>2, <1>3, <1>4, <1>6, <1>7, <1>8, <1>9, <1>10, <1>11, <1>12, <1>13
  DEF Next, StartStep

LEMMA StartInvariant == Spec => []StartInv
<1>1. StartInv /\ [Next]_vars => StartInv'
  BY StartAssumption, DisconnectAssumption, StartInvStep
<1>2. Init => StartInv
  BY StartAssumption, StartInitInv
<1> QED
  BY <1>1, <1>2, PTL DEF Spec

(* Every reachable state is of the declared types. *)
THEOREM StartTypeCorrect == Spec => []TypeOK
BY StartInvariant, PTL DEF StartInv

(* Without waiting for the webhook server Start consumes commands only     *)
(* once it listens (lib.go:224-249).                                       *)
THEOREM ServerFirst == Spec => []ConsumesBehindServer
<1>1. StartInv => ConsumesBehindServer
  BY DEF StartInv, BootInv, ConsumesBehindServer
<1> QED
  BY <1>1, StartInvariant, PTL

(* With version 4 an attempt that failed leaves no client and no session   *)
(* behind, whatever the number of attempts (mqtt.go:52-66, mqtt.go:96-141).*)
THEOREM FailedClientsGone == Spec => []NoClientLeftBehind
<1>1. StartInv => NoClientLeftBehind
  <2> SUFFICES ASSUME StartInv, NEW i \in DOMAIN OwnIds,
                      i \in running \/ session[OwnIds[i]] # NoUser
               PROVE  i <= tries /\ (i < tries => settings.MqttVersion = "5")
    BY DEF NoClientLeftBehind
  <2>1. i <= tries
    BY DEF StartInv, ClientsInv
  <2>2. settings.MqttVersion = "4" => i = tries
    BY DEF StartInv, ClientsInv
  <2>3. settings.MqttVersion \in {"4", "5"} /\ tries \in Nat
    BY DEF StartInv, TypeOK, Settings
  <2> QED
    BY <2>1, <2>2, <2>3
<1> QED
  BY <1>1, StartInvariant, PTL

-----------------------------------------------------------------------------
(* What Start still has to do. *)

(* Steps there are at most from each place, the further attempts aside:    *)
(* each of them takes three, and so does the way from connect by way of    *)
(* await to pause (lib.go:47-255).                                         *)
Ahead == [b \in Boot |->
  CASE b = "prepare"  -> 13 [] b = "handlers" -> 12 [] b = "webhooks" -> 11
    [] b = "await"    -> 6  [] b = "pause"    -> 5  [] b = "connect"  -> 4
    [] b = "handler"  -> 4  [] b = "consumer" -> 3  [] b = "started"  -> 2
    [] OTHER -> 1]

AttemptsLeft == Len(OwnIds) - tries

StartLeft == IF up THEN Ahead[boot] + 3 * AttemptsLeft ELSE 0

(* How one step of the whole system may change it. *)
LEMMA StartLeftFalls ==
  ASSUME StartAssumption, StartInv, StartInv', [Next]_vars
  PROVE  /\ StartLeft' \in Nat /\ StartLeft' <= StartLeft
         /\ StartStep => StartLeft' < StartLeft
<1>n. /\ AttemptsLeft \in Nat /\ AttemptsLeft' \in Nat
      /\ boot \in Boot /\ boot' \in Boot /\ up \in BOOLEAN /\ up' \in BOOLEAN
  BY DEF StartInv, TypeOK, CommandTypeOK, StartAssumption, AttemptsLeft
<1>a. /\ \A b \in Boot : Ahead[b] \in Nat /\ Ahead[b] > 0
      /\ Ahead["prepare"] = 13 /\ Ahead["handlers"] = 12
      /\ Ahead["webhooks"] = 11 /\ Ahead["connect"] = 4
      /\ Ahead["await"] = 6 /\ Ahead["pause"] = 5 /\ Ahead["handler"] = 4
      /\ Ahead["consumer"] = 3 /\ Ahead["started"] = 2 /\ Ahead["stopping"] = 1
  BY DEF Ahead, Boot
<1>s. Ahead' = Ahead
  BY DEF Ahead
<1>p. /\ StartLeft \in Nat /\ StartLeft' \in Nat
      /\ up => StartLeft > 0
  <2>1. Ahead[boot] \in Nat /\ Ahead[boot] > 0 /\ Ahead[boot'] \in Nat
    BY <1>n, <1>a
  <2>2. StartLeft' = IF up' THEN Ahead[boot'] + 3 * AttemptsLeft' ELSE 0
    BY <1>s DEF StartLeft
  <2> QED
    BY <1>n, <2>1, <2>2 DEF StartLeft
(* It falls with the place, and with an attempt that is begun. *)
<1>1. ASSUME up, up' = up, AttemptsLeft' = AttemptsLeft,
             Ahead[boot'] < Ahead[boot]
      PROVE  StartLeft' < StartLeft
  <2>1. StartLeft' = Ahead[boot'] + 3 * AttemptsLeft
    BY <1>1, <1>s DEF StartLeft
  <2> QED
    BY <1>1, <1>n, <1>a, <2>1 DEF StartLeft
<1>2. ASSUME UNCHANGED <<boot, tries>>, up' \in {up, FALSE}
      PROVE  StartLeft' <= StartLeft
  <2>1. AttemptsLeft' = AttemptsLeft
    BY <1>2 DEF AttemptsLeft
  <2>2. CASE up' = up
    BY <1>2, <1>s, <1>p, <2>1, <2>2 DEF StartLeft
  <2>3. CASE up' = FALSE
    BY <1>p, <2>3 DEF StartLeft
  <2> QED
    BY <1>2, <2>2, <2>3
<1>3. ASSUME up, up' = FALSE PROVE StartLeft' < StartLeft
  <2>1. StartLeft' = 0
    BY <1>3 DEF StartLeft
  <2> QED
    BY <1>3, <1>p, <2>1
<1>4. ASSUME StartStep PROVE StartLeft' < StartLeft
  <2>1. CASE StartFails
    BY <1>3, <2>1 DEF StartFails, Fatal
  <2>2. ASSUME NEW from, NEW to, Goto(from, to), up' = up, tries' = tries,
               Ahead[to] < Ahead[from]
        PROVE  StartLeft' < StartLeft
    BY <1>1, <2>2 DEF Goto, AttemptsLeft
  <2>3. CASE Prepare \/ MakeHandlers \/ InitWebhooks \/ MqttFails \/ NextTry
             \/ SetCommandHandler \/ StartConsumer
    BY <1>a, <2>2, <2>3
    DEF Prepare, MakeHandlers, InitWebhooks, MqttFails, NextTry,
        SetCommandHandler, StartConsumer, Quiet, Beside, commandVars
  <2>4. CASE MqttStart
    <3>1. /\ up /\ up' = up /\ boot = "connect" /\ boot' = "await"
          /\ tries' = tries + 1
      BY <2>4 DEF MqttStart, Goto, Beside, commandVars
    <3>2. AttemptsLeft' = AttemptsLeft - 1
      BY <1>n, <3>1 DEF AttemptsLeft, StartAssumption, StartInv, TypeOK
    <3>3. /\ StartLeft = 4 + 3 * AttemptsLeft
          /\ StartLeft' = 6 + 3 * AttemptsLeft'
      BY <1>a, <1>s, <3>1 DEF StartLeft
    <3> QED
      BY <1>n, <3>2, <3>3
  <2> QED
    BY <1>4, <2>1, <2>3, <2>4 DEF StartStep
(* What goes on beside Start never puts it back. *)
<1>5. ASSUME \/ Listen \/ BrokerStep \/ \E k \in Calls : Webhook(k)
             \/ \E i \in DOMAIN OwnIds : StopClient(i)
             \/ (Exit /\ UNCHANGED startVars) \/ Ended \/ UNCHANGED vars
      PROVE  StartLeft' <= StartLeft
  <2>1. UNCHANGED <<boot, tries>>
    BY <1>5 DEF Listen, BrokerStep, Webhook, StopClient, Ended, startVars, vars
  <2>2. ASSUME BrokerStep PROVE up' = up
    BY <2>2 DEF BrokerStep, ClientOpens, ClientCloses
  <2>3. ASSUME NEW k \in Calls, Webhook(k) PROVE up' \in {up, FALSE}
    BY <2>3 DEF Webhook, Refuse, Receive, Executing, TimerFires, ListSessions,
                DisconnectClient, AllDisconnected, WebhookTimesOut
  <2>4. up' \in {up, FALSE}
    BY <1>5, <2>2, <2>3 DEF Listen, StopClient, Exit, Ended, vars, commandVars
  <2> QED
    BY <1>2, <2>1, <2>4
<1>6. ASSUME Cancel \/ \E i \in DOMAIN OwnIds : OwnLogin(i)
      PROVE  StartLeft' <= StartLeft
  <2>1. up /\ up' = up /\ tries' = tries
    BY <1>6 DEF Cancel, Goto, Quiet, Beside, commandVars, OwnLogin
  <2>2. boot' # boot => Ahead[boot'] < Ahead[boot]
    BY <1>6, <1>a DEF Cancel, Goto, OwnLogin
  <2>3. CASE boot' = boot
    BY <1>2, <2>1, <2>3
  <2>4. CASE boot' # boot
    <3>1. StartLeft' < StartLeft
      BY <1>1, <2>1, <2>2, <2>4 DEF AttemptsLeft
    <3> QED
      BY <1>p, <3>1
  <2> QED
    BY <2>3, <2>4
<1>7. StartLeft' <= StartLeft
  BY <1>p, <1>4, <1>5, <1>6 DEF Next
<1> QED
  BY <1>p, <1>4, <1>7

(* Start cannot go on for ever, however many attempts it takes and         *)
(* whatever the broker, the webhooks and the connector's own clients do    *)
(* meanwhile: each of its steps brings it nearer to its end, and nothing   *)
(* beside it puts it back (lib.go:47-255, main.go:73-76).                  *)
THEOREM StartRunsOut ==
  Spec => [][/\ StartLeft' \in Nat /\ StartLeft' <= StartLeft
             /\ StartStep => StartLeft' < StartLeft]_vars
<1>1. StartInv /\ StartInv' /\ [Next]_vars =>
        [/\ StartLeft' \in Nat /\ StartLeft' <= StartLeft
         /\ StartStep => StartLeft' < StartLeft]_vars
  BY StartAssumption, StartLeftFalls
<1> QED
  BY <1>1, StartInvariant, PTL DEF Spec
=============================================================================
