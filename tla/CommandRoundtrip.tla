-------------------------- MODULE CommandRoundtrip --------------------------
(***************************************************************************)
(* A command and its answers: CommandQueue, the correlations in memcached  *)
(* (correlation.New in lib.go, Save in command.go) and the handlers of     *)
(* response/handler.go and errormessage/handler.go that look them up.      *)
(*                                                                         *)
(* A device hears each copy of a command the broker has, on the topic with *)
(* owner and on the legacy topic, and may answer each, with a response or  *)
(* with error/command/{correlation_id}.  Any process of the connector may  *)
(* get the answer: also one that was started after the process that sent   *)
(* the command ended.  Entries of memcached expire at any time.            *)
(* With config.MqttPublishAuthOnly a response is only checked by the       *)
(* handler and never looked up, an error message still is.                 *)
(***************************************************************************)
EXTENDS CommandQueue

VARIABLES
  authOnly, \* config.MqttPublishAuthOnly, the same in every process
  entries,  \* commands whose correlation can be looked up
  expired,  \* history: commands whose correlation memcached gave up
  reply     \* what became of the answer to each copy

replyVars == <<authOnly, entries, expired, reply>>
roundtripVars == <<vars, replyVars>>

Copies == Topics \X Commands
Answers == {"response", "error"}
Settled == {"accepted", "forwarded", "missed", "failed"}

RoundtripTypeOK ==
  /\ TypeOK
  /\ authOnly \in BOOLEAN
  /\ entries \subseteq Commands
  /\ expired \subseteq Commands
  /\ reply \in [Copies -> {"none"} \cup Answers \cup Settled]

RoundtripInit ==
  /\ Init
  /\ authOnly \in BOOLEAN
  /\ entries = {}
  /\ expired = {}
  /\ reply = [p \in Copies |-> "none"]

-----------------------------------------------------------------------------
(* Save makes the entry; nothing else of the command handling does. *)
Stored ==
  /\ entries' = entries \cup (saved' \ saved)
  /\ UNCHANGED <<authOnly, expired, reply>>

Expire(c) ==
  /\ c \in entries
  /\ entries' = entries \ {c}
  /\ expired' = expired \cup {c}
  /\ UNCHANGED <<vars, authOnly, reply>>

Answer(p) ==
  /\ p \in delivered /\ reply[p] = "none"
  /\ \E answer \in Answers : reply' = [reply EXCEPT ![p] = answer]
  /\ UNCHANGED <<vars, authOnly, entries, expired>>

Settle(p, result) == reply' = [reply EXCEPT ![p] = result]

(* The answer goes to the platform with the command it belongs to; the     *)
(* correlation stays.                                                      *)
Forward(p) ==
  /\ p[2] \in entries
  /\ Settle(p, "forwarded") \/ Settle(p, "failed")

(* No entry, or no answer of memcached within the timeout: the message is  *)
(* taken for an old one, accepted and forgotten.                           *)
Forget(p) ==
  Settle(p, "failed") \/ (p[2] \notin entries /\ Settle(p, "missed"))

(* With MqttPublishAuthOnly a response is accepted once the checks before  *)
(* it have passed: no look-up, nothing sent.                               *)
LetPass(p) == Settle(p, "accepted") \/ Settle(p, "failed")

OnlyChecked(p) == authOnly /\ reply[p] = "response"

HandleAnswer(p) ==
  /\ reply[p] \in Answers
  /\ \/ OnlyChecked(p) /\ LetPass(p)
     \/ ~OnlyChecked(p) /\ (Forward(p) \/ Forget(p))
  /\ UNCHANGED <<vars, authOnly, entries, expired>>

RoundtripNext ==
  \/ Next /\ Stored
  \/ \E c \in Commands : Expire(c)
  \/ \E p \in Copies : Answer(p) \/ HandleAnswer(p)

RoundtripSpec == RoundtripInit /\ [][RoundtripNext]_roundtripVars

-----------------------------------------------------------------------------
(* A device that answers is known: its answer only misses the correlation  *)
(* when memcached gave that up, never because the command went out before  *)
(* it was stored, because an earlier answer used it up, or because the     *)
(* process that sent the command has ended (response/handler.go:94-98,     *)
(* errormessage/handler.go:128, command.go:78-99).                         *)
MissedOnlyIfExpired ==
  \A p \in Copies : reply[p] = "missed" => p[2] \in expired
=============================================================================
