---------------------- MODULE CommandRoundtrip_proofs ----------------------
(***************************************************************************)
(* Proofs about CommandRoundtrip, with or without a queue, for any number  *)
(* of commands, workers and losses of the link.  What is proved of         *)
(* CommandQueue holds with the answers of the devices as well.             *)
(***************************************************************************)
EXTENDS CommandRoundtrip, CommandQueue_proofs

(* Next to the answers a command is handled as without them: they do not   *)
(* touch what the command handler works on (command.go:69-105).            *)
THEOREM RoundtripRunsQueue == RoundtripSpec => Spec
<1>1. RoundtripInit => Init
  BY DEF RoundtripInit
<1>2. [RoundtripNext]_roundtripVars => [Next]_vars
  BY DEF RoundtripNext, roundtripVars, Expire, Answer, HandleAnswer
<1> QED
  BY <1>1, <1>2, PTL DEF RoundtripSpec, Spec

(* What the command handler promises it promises beside the answers too:   *)
(* no copy goes out before its correlation is saved, nil is returned only  *)
(* for a command that is published, and no command is handled twice        *)
(* (command.go:39-105).                                                    *)
THEOREM RoundtripKeepsPromises ==
  RoundtripSpec =>
    /\ [](CorrelationBeforePublish /\ LegacyAfterOwner /\ NilMeansDelivered)
    /\ HandledOnce
BY RoundtripRunsQueue, DeliveryCorrect, NeverHandledTwice, PTL

(* A correlation that was stored stays stored or has expired, and a        *)
(* message the broker has stays delivered (command.go:78-99).              *)
LEMMA NothingIsTakenBack ==
  ASSUME TypeOK, [Next]_vars
  PROVE  saved \subseteq saved' /\ delivered \subseteq delivered'
<1>1. CASE UNCHANGED vars
  BY <1>1 DEF vars, handlerVars
<1>2. ASSUME NEW c \in Commands, Offered(c)
      PROVE  saved \subseteq saved' /\ delivered \subseteq delivered'
  BY <1>2 DEF Offered, Enqueue, Block, RefuseClosed, CallDirect, handlerVars
<1>3. ASSUME NEW c \in Commands, Handling(c)
      PROVE  saved \subseteq saved' /\ delivered \subseteq delivered'
  BY <1>3 DEF Handling, SaveCorrelation, Publish, PublishUnconnected,
              PublishReturns, Acknowledged, Unacknowledged
<1>4. ASSUME NEW w \in Workers, Take(w)
      PROVE  saved \subseteq saved' /\ delivered \subseteq delivered'
  BY <1>4 DEF Take
<1>5. CASE LinkLost \/ Reconnect \/ Cancel \/ CloseQueue \/ DisconnectMqtt
           \/ Exit \/ Ended
  BY <1>1, <1>5
  DEF LinkLost, Reconnect, Cancel, CloseQueue, DisconnectMqtt, Exit, Ended,
      handlerVars
<1> QED
  BY <1>1, <1>2, <1>3, <1>4, <1>5 DEF Next

(* What the correlations and the answers have to do with the commands.     *)
RoundtripInv ==
  /\ RoundtripTypeOK
  /\ saved \subseteq entries \cup expired
  /\ \A p \in Copies : reply[p] # "none" => p \in delivered
  /\ MissedOnlyIfExpired

LEMMA RoundtripInitInv == RoundtripInit => RoundtripInv
<1> SUFFICES ASSUME RoundtripInit PROVE RoundtripInv
  OBVIOUS
<1>1. TypeOK
  BY TypeInit DEF RoundtripInit
<1>2. {} \in SUBSET Commands
  OBVIOUS
<1>3. RoundtripTypeOK
  BY <1>1, <1>2 DEF RoundtripInit, RoundtripTypeOK
<1>4. saved = {} /\ \A p \in Copies : reply[p] = "none"
  BY DEF RoundtripInit, Init
<1> QED
  BY <1>3, <1>4 DEF RoundtripInv, MissedOnlyIfExpired

(* A step of the command handling, with the entry Save makes.              *)
LEMMA RoundtripQueueStep ==
  ASSUME RoundtripInv, Next, Stored
  PROVE  RoundtripInv'
<1>1. TypeOK /\ TypeOK'
  BY TypeStep DEF RoundtripInv, RoundtripTypeOK
<1>2. saved \subseteq saved' /\ delivered \subseteq delivered'
  BY <1>1, NothingIsTakenBack
<1>3. saved' \subseteq Commands
  BY <1>1 DEF TypeOK
<1>4. RoundtripTypeOK'
  BY <1>1, <1>3 DEF RoundtripInv, RoundtripTypeOK, Stored
<1> QED
  BY <1>2, <1>4 DEF RoundtripInv, Stored, MissedOnlyIfExpired

(* An answer to a copy that was delivered, and what becomes of it.         *)
LEMMA RoundtripAnswerStep ==
  ASSUME RoundtripInv, CorrelationBeforePublish, NEW p \in Copies,
         Answer(p) \/ HandleAnswer(p)
  PROVE  RoundtripInv'
<1>1. UNCHANGED vars /\ saved' = saved /\ delivered' = delivered
  BY DEF Answer, HandleAnswer, vars, handlerVars
<1>2. entries' = entries /\ expired' = expired /\ authOnly' = authOnly
  BY DEF Answer, HandleAnswer
<1>3. PICK result \in Answers \cup Settled :
        /\ reply' = [reply EXCEPT ![p] = result]
        /\ result = "missed" => p[2] \notin entries
  BY DEF Answer, HandleAnswer, LetPass, Forward, Forget, Settle, Settled, Answers
<1>4. p \in delivered
  BY DEF Answer, HandleAnswer, Answers, RoundtripInv
<1>5. p[2] \in saved
  <2>1. p[1] \in Topics /\ p[2] \in Commands /\ p = <<p[1], p[2]>>
    BY DEF Copies
  <2> QED
    BY <1>4, <2>1 DEF CorrelationBeforePublish
<1>6. reply \in [Copies -> {"none"} \cup Answers \cup Settled]
  BY DEF RoundtripInv, RoundtripTypeOK
<1>7. TypeOK'
  BY <1>1, TypeStep DEF RoundtripInv, RoundtripTypeOK
<1>8. RoundtripTypeOK'
  BY <1>2, <1>3, <1>6, <1>7 DEF RoundtripInv, RoundtripTypeOK
<1>9. \A q \in Copies : reply'[q] # "none" => q \in delivered'
  BY <1>1, <1>3, <1>4, <1>6 DEF RoundtripInv, Answers, Settled
<1>10. MissedOnlyIfExpired'
  BY <1>2, <1>3, <1>5, <1>6 DEF RoundtripInv, MissedOnlyIfExpired, Answers
<1> QED
  BY <1>1, <1>2, <1>8, <1>9, <1>10 DEF RoundtripInv

LEMMA RoundtripStep ==
  ASSUME RoundtripInv, CorrelationBeforePublish, [RoundtripNext]_roundtripVars
  PROVE  RoundtripInv'
<1>1. CASE UNCHANGED roundtripVars
  <2>1. UNCHANGED vars /\ saved' = saved /\ delivered' = delivered
    BY <1>1 DEF roundtripVars, vars, handlerVars
  <2>2. TypeOK'
    BY <2>1, TypeStep DEF RoundtripInv, RoundtripTypeOK
  <2> QED
    BY <1>1, <2>1, <2>2
    DEF RoundtripInv, RoundtripTypeOK, MissedOnlyIfExpired, roundtripVars, replyVars
<1>2. CASE Next /\ Stored
  BY <1>2, RoundtripQueueStep
<1>3. ASSUME NEW c \in Commands, Expire(c) PROVE RoundtripInv'
  <2>1. UNCHANGED vars /\ saved' = saved /\ delivered' = delivered
    BY <1>3 DEF Expire, vars, handlerVars
  <2>2. TypeOK'
    BY <2>1, TypeStep DEF RoundtripInv, RoundtripTypeOK
  <2> QED
    BY <1>3, <2>1, <2>2
    DEF Expire, RoundtripInv, RoundtripTypeOK, MissedOnlyIfExpired
<1>4. ASSUME NEW p \in Copies, Answer(p) \/ HandleAnswer(p) PROVE RoundtripInv'
  BY <1>4, RoundtripAnswerStep
<1> QED
  BY <1>1, <1>2, <1>3, <1>4 DEF RoundtripNext

(* The invariant rests on the one of the command handler. *)
LEMMA RoundtripInvariant == RoundtripSpec => []RoundtripInv
<1>1. RoundtripSpec => []CorrelationBeforePublish
  BY RoundtripRunsQueue, DeliveryCorrect, PTL
<1> QED
  BY <1>1, RoundtripInitInv, RoundtripStep, PTL DEF RoundtripSpec

(* Every reachable state is of the declared types. *)
THEOREM RoundtripTypeCorrect == RoundtripSpec => []RoundtripTypeOK
<1>1. RoundtripInv => RoundtripTypeOK
  BY DEF RoundtripInv
<1> QED
  BY <1>1, RoundtripInvariant, PTL

(* An answer to a command the connector has published is only taken for an *)
(* old one when memcached has given the correlation up: whatever the order *)
(* of publishes, answers, repeated answers, failures and the end of the    *)
(* process (response/handler.go:94-98, command.go:78-99).                  *)
THEOREM KnownUnlessExpired == RoundtripSpec => []MissedOnlyIfExpired
<1>1. RoundtripInv => MissedOnlyIfExpired
  BY DEF RoundtripInv
<1> QED
  BY <1>1, RoundtripInvariant, PTL
=============================================================================
