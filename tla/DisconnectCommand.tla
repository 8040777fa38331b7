------------------------- MODULE DisconnectCommand -------------------------
(***************************************************************************)
(* The webhook /disconnect-command (disconnectcmd.go): the sessions of a   *)
(* user are listed with VerneMQ's HTTP API and ended one by one, at once   *)
(* or, with config.DisconnectCommandDelay, later and behind the answer.    *)
(* Meanwhile clients come and go, also under a client id that another      *)
(* user had before.  A session of the broker is a client id and a number:  *)
(* a client that comes back has a new one.                                 *)
(*                                                                         *)
(* Every request to VerneMQ may fail, whether or not it took effect, or    *)
(* never be answered: http.DefaultClient has no timeout.  The webhook      *)
(* itself has one if config.WebhookTimeout is set, and then the process    *)
(* ends (httptimeouthandler.go).  The server drops what a handler writes   *)
(* later than 10 seconds after the request came (webhooks.go:205).  The    *)
(* model knows no durations: a call without delay may take that long.      *)
(*                                                                         *)
(* An operator marked as a fault is the mistaken form of the definition    *)
(* that follows it, and no part of the specification.                      *)
(***************************************************************************)
EXTENDS Naturals

CONSTANTS
  Clients,         \* client ids
  Users,           \* user names
  NoUser,          \* the "user" of a client id without session
  Calls,           \* calls of /disconnect-command
  WebhookTimeout   \* config.WebhookTimeout > 0

ASSUME DisconnectAssumption ==
  NoUser \notin Users /\ WebhookTimeout \in BOOLEAN

VARIABLES
  mode,     \* what the configuration makes of a command
  session,  \* the user of the session of each client id
  opened,   \* the number of its latest session
  stage,    \* where each call stands
  user,     \* cmd.Username
  todo,     \* the rest of clientIds in execDisconnectCommand
  failed,   \* a request to VerneMQ failed
  answer,   \* what the caller was told; "lost" when it was told too late
  held,     \* history: the sessions of the user when the call came
  listed,   \* history: the sessions that were listed
  up        \* the process is running

brokerVars == <<session, opened>>
callVars == <<stage, user, todo, failed, answer, held, listed>>
commandVars == <<mode, brokerVars, callVars, up>>

(* Without VmqAdminApiUrl or with a DisconnectCommandDelay that cannot be  *)
(* parsed every command is refused; a delay may be configured or not.      *)
Modes == {"refused", "at once", "delayed"}

Sessions == Clients \X Nat
SessionsOf(u) == {<<c, opened[c]>> : c \in {d \in Clients : session[d] = u}}
Exists(s) == session[s[1]] # NoUser /\ opened[s[1]] = s[2]

Stages == {"none", "waiting", "listing", "disconnecting", "done"}
Answers == {"none", "ok", "error", "lost"}

CommandTypeOK ==
  /\ mode \in Modes
  /\ session \in [Clients -> Users \cup {NoUser}]
  /\ opened \in [Clients -> Nat]
  /\ stage \in [Calls -> Stages]
  /\ user \in [Calls -> Users \cup {NoUser}]
  /\ todo \in [Calls -> SUBSET Clients]
  /\ failed \in [Calls -> BOOLEAN]
  /\ answer \in [Calls -> Answers]
  /\ held \in [Calls -> SUBSET Sessions]
  /\ listed \in [Calls -> SUBSET Sessions]
  /\ up \in BOOLEAN

CommandInit ==
  /\ mode \in Modes
  /\ session = [c \in Clients |-> NoUser]
  /\ opened = [c \in Clients |-> 0]
  /\ stage = [k \in Calls |-> "none"]
  /\ user = [k \in Calls |-> NoUser]
  /\ todo = [k \in Calls |-> {}]
  /\ failed = [k \in Calls |-> FALSE]
  /\ answer = [k \in Calls |-> "none"]
  /\ held = [k \in Calls |-> {}]
  /\ listed = [k \in Calls |-> {}]
  /\ up = TRUE

-----------------------------------------------------------------------------
(* The broker and its clients. *)

(* A client connects, as a new one or in place of the one that was there. *)
Open(c, u) ==
  /\ session' = [session EXCEPT ![c] = u]
  /\ opened' = [opened EXCEPT ![c] = @ + 1]

ClientOpens(c, u) ==
  /\ up
  /\ Open(c, u)
  /\ UNCHANGED <<mode, callVars, up>>

Close(c) == session' = [session EXCEPT ![c] = NoUser] /\ UNCHANGED opened

ClientCloses(c) ==
  /\ up /\ session[c] # NoUser
  /\ Close(c)
  /\ UNCHANGED <<mode, callVars, up>>

-----------------------------------------------------------------------------
(* The webhook. *)

(* The message cannot be read, or the configuration is not sufficient. *)
Refuse(k) ==
  /\ up /\ stage[k] = "none"
  /\ stage' = [stage EXCEPT ![k] = "done"]
  /\ answer' = [answer EXCEPT ![k] = "error"]
  /\ UNCHANGED <<mode, brokerVars, user, todo, failed, held, listed, up>>

Delayed == mode = "delayed"

(* With a delay the timer is set and the caller is told ok. *)
Receive(k, u) ==
  /\ up /\ stage[k] = "none" /\ mode # "refused"
  /\ user' = [user EXCEPT ![k] = u]
  /\ held' = [held EXCEPT ![k] = SessionsOf(u)]
  /\ stage' = [stage EXCEPT ![k] = IF Delayed THEN "waiting" ELSE "listing"]
  /\ answer' = [answer EXCEPT ![k] = IF Delayed THEN "ok" ELSE @]
  /\ UNCHANGED <<mode, brokerVars, todo, failed, listed, up>>

TimerFires(k) ==
  /\ up /\ stage[k] = "waiting"
  /\ stage' = [stage EXCEPT ![k] = "listing"]
  /\ UNCHANGED <<mode, brokerVars, user, todo, failed, answer, held, listed, up>>

(* A caller who still waits is told ok, in time or not. *)
Told(k) == IF answer[k] = "none" THEN {"ok", "lost"} ELSE {answer[k]}

(* execDisconnectCommand returns: its error is only logged. *)
Finish(k, err) ==
  /\ stage' = [stage EXCEPT ![k] = "done"]
  /\ failed' = [failed EXCEPT ![k] = err]
  /\ \E told \in Told(k) : answer' = [answer EXCEPT ![k] = told]

(* Fault: the list is not restricted to the user. *)
ListAll(k) ==
  /\ listed' = [listed EXCEPT ![k] = SessionsOf(user[k])]
  /\ todo' = [todo EXCEPT ![k] = {c \in Clients : session[c] # NoUser}]

(* session show --user: connected or not, one line per session. *)
List(k) ==
  /\ listed' = [listed EXCEPT ![k] = SessionsOf(user[k])]
  /\ todo' = [todo EXCEPT ![k] = {s[1] : s \in SessionsOf(user[k])}]

ListSessions(k) ==
  /\ up /\ stage[k] = "listing"
  /\ \/ /\ List(k)
        /\ stage' = [stage EXCEPT ![k] = "disconnecting"]
        /\ UNCHANGED <<failed, answer>>
     \/ Finish(k, TRUE) /\ UNCHANGED <<listed, todo>>
  /\ UNCHANGED <<mode, brokerVars, user, held, up>>

(* session disconnect --cleanup ends whatever session the client id has    *)
(* by now.  The first failing request leaves the rest undone.              *)
DisconnectClient(k) ==
  /\ up /\ stage[k] = "disconnecting"
  /\ \E c \in todo[k] :
       \/ /\ Close(c)
          /\ todo' = [todo EXCEPT ![k] = @ \ {c}]
          /\ UNCHANGED <<stage, failed, answer>>
       \/ /\ Close(c) \/ UNCHANGED brokerVars
          /\ Finish(k, TRUE) /\ UNCHANGED todo
  /\ UNCHANGED <<mode, user, held, listed, up>>

(* Fault: the command is done after its first client. *)
AllDisconnectedEarly(k) ==
  /\ up /\ stage[k] = "disconnecting" /\ (todo[k] = {} \/ listed[k] # {})
  /\ Finish(k, FALSE)
  /\ UNCHANGED <<mode, brokerVars, user, todo, held, listed, up>>

AllDisconnected(k) ==
  /\ up /\ stage[k] = "disconnecting" /\ todo[k] = {}
  /\ Finish(k, FALSE)
  /\ UNCHANGED <<mode, brokerVars, user, todo, held, listed, up>>

(* The timer of the webhook, which also runs while VerneMQ does not answer. *)
WebhookTimesOut(k) ==
  /\ up /\ WebhookTimeout
  /\ stage[k] # "none" /\ answer[k] = "none"
  /\ up' = FALSE
  /\ UNCHANGED <<mode, brokerVars, callVars>>

(* The process ends for another reason; timers and running commands with it. *)
Exit == up /\ up' = FALSE /\ UNCHANGED <<mode, brokerVars, callVars>>

-----------------------------------------------------------------------------
Executing(k) ==
  TimerFires(k) \/ ListSessions(k) \/ DisconnectClient(k) \/ AllDisconnected(k)

CommandNext ==
  \/ \E c \in Clients : ClientCloses(c) \/ \E u \in Users : ClientOpens(c, u)
  \/ \E k \in Calls : \/ Refuse(k) \/ \E u \in Users : Receive(k, u)
                      \/ Executing(k) \/ WebhookTimesOut(k)
  \/ Exit

CommandSpec == CommandInit /\ [][CommandNext]_commandVars

-----------------------------------------------------------------------------
(* A command that is done, and of which no request failed, has done what   *)
(* it was to do, whether its ok came in time, too late or before: every    *)
(* session the user had when the call came is over, however clients came   *)
(* and went since (disconnectcmd.go:63-101).  A command of which a request *)
(* failed may leave sessions, and its caller is told ok all the same.      *)
OkEndsSessions ==
  \A k \in Calls :
    stage[k] = "done" /\ answer[k] # "error" /\ ~failed[k] =>
      \A s \in held[k] : ~Exists(s)

(* A session of another user is only ended by the command when its client  *)
(* id had a session of the user as the sessions were listed, and it was    *)
(* opened after that (disconnectcmd.go:95-100).                            *)
OthersAreSpared ==
  [][\A k \in Calls, c \in Clients :
       c \in todo[k] /\ c \notin todo'[k] /\ session[c] \notin {user[k], NoUser} =>
         \E s \in listed[k] : s[1] = c /\ s[2] < opened[c]]_commandVars
=============================================================================
