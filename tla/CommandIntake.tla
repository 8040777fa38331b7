--------------------------- MODULE CommandIntake ---------------------------
(***************************************************************************)
(* What the asynchronous command handler promises to its callers: commands *)
(* are begun in the order in which they were offered, at most Parallel of  *)
(* them are under way at a time, and none is begun after it was refused.   *)
(* How the channel, the blocked senders and the workers bring this about   *)
(* is the business of CommandQueue, which implements this specification.   *)
(***************************************************************************)
EXTENDS Integers, Sequences, FiniteSets

CONSTANTS Commands,   \* the calls of the handler
          Parallel    \* how many commands may be under way at a time

VARIABLES alive,      \* the process is running
          open,       \* offers are still taken
          backlog,    \* offered commands not yet begun, oldest first
          status      \* what became of each command

vars == <<alive, open, backlog, status>>

Status == {"new", "waiting", "begun", "done", "refused"}

TypeOK ==
  /\ alive \in BOOLEAN
  /\ open \in BOOLEAN
  /\ backlog \in Seq(Commands)
  /\ status \in [Commands -> Status]

Init ==
  /\ alive = TRUE
  /\ open = TRUE
  /\ backlog = <<>>
  /\ status = [c \in Commands |-> "new"]

UnderWay == {c \in Commands : status[c] = "begun"}

(* A caller offers a command; it queues up behind the earlier ones. *)
Offer(c) ==
  /\ alive
  /\ open
  /\ status[c] = "new"
  /\ backlog' = Append(backlog, c)
  /\ status' = [status EXCEPT ![c] = "waiting"]
  /\ UNCHANGED <<alive, open>>

(* After the intake was shut every offer is refused. *)
Refuse(c) ==
  /\ alive
  /\ ~open
  /\ status[c] = "new"
  /\ status' = [status EXCEPT ![c] = "refused"]
  /\ UNCHANGED <<alive, open, backlog>>

(* The oldest waiting command is begun when there is room for one more. *)
Begin ==
  /\ alive
  /\ backlog # <<>>
  /\ Cardinality(UnderWay) < Parallel
  /\ backlog' = Tail(backlog)
  /\ status' = [status EXCEPT ![Head(backlog)] = "begun"]
  /\ UNCHANGED <<alive, open>>

Finish(c) ==
  /\ alive
  /\ status[c] = "begun"
  /\ status' = [status EXCEPT ![c] = "done"]
  /\ UNCHANGED <<alive, open, backlog>>

(* Shutting the intake keeps a prefix of the backlog and refuses the rest. *)
Shut ==
  /\ alive
  /\ open
  /\ open' = FALSE
  /\ \E kept \in 0..Len(backlog) :
       /\ backlog' = SubSeq(backlog, 1, kept)
       /\ status' = [c \in Commands |->
                       IF \E i \in (kept + 1)..Len(backlog) : backlog[i] = c
                       THEN "refused" ELSE status[c]]
  /\ UNCHANGED alive

(* The process may stop at any time; what is waiting is lost then. *)
Stop ==
  /\ alive
  /\ alive' = FALSE
  /\ UNCHANGED <<open, backlog, status>>

Next ==
  \/ \E c \in Commands : Offer(c) \/ Refuse(c) \/ Finish(c)
  \/ Begin
  \/ Shut
  \/ Stop

Spec == Init /\ [][Next]_vars

(* A running process keeps beginning and finishing what it accepted. *)
Fairness ==
  /\ WF_vars(Begin)
  /\ \A c \in Commands : WF_vars(Finish(c))

FairSpec == Spec /\ Fairness
=============================================================================
