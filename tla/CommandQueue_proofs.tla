------------------------ MODULE CommandQueue_proofs ------------------------
(***************************************************************************)
(* Theorems about CommandQueue, for any set of commands, any number of     *)
(* workers, both MQTT versions and any bound on the link losses.           *)
(***************************************************************************)
EXTENDS CommandQueue, SequenceTheorems, FiniteSetTheorems, TLAPS

-----------------------------------------------------------------------------
(* Sequences without repetition. *)

(* Appending an element that does not occur keeps a sequence free of       *)
(* repetitions and adds the element to its range.                          *)
LEMMA AppendFacts ==
  ASSUME NEW S, NEW s \in Seq(S), NEW e \in S
  PROVE  /\ Append(s, e) \in Seq(S)
         /\ Len(Append(s, e)) = Len(s) + 1
         /\ Range(Append(s, e)) = Range(s) \cup {e}
         /\ IsInjective(s) /\ e \notin Range(s) => IsInjective(Append(s, e))
<1>1. /\ Append(s, e) \in Seq(S)
      /\ Len(Append(s, e)) = Len(s) + 1
      /\ \A i \in 1..Len(s) : Append(s, e)[i] = s[i]
      /\ Append(s, e)[Len(s) + 1] = e
      /\ Len(s) \in Nat
      /\ DOMAIN s = 1..Len(s)
      /\ DOMAIN Append(s, e) = 1..(Len(s) + 1)
  BY AppendProperties, LenProperties
<1>2. Range(Append(s, e)) = Range(s) \cup {e}
  BY <1>1 DEF Range
<1>3. ASSUME IsInjective(s), e \notin Range(s)
      PROVE  IsInjective(Append(s, e))
  BY <1>1, <1>3 DEF IsInjective, Range
<1> QED
  BY <1>1, <1>2, <1>3

(* Removing the head of a sequence without repetitions removes it from the *)
(* range.                                                                  *)
LEMMA TailFacts ==
  ASSUME NEW S, NEW s \in Seq(S), s # <<>>
  PROVE  /\ Head(s) \in S
         /\ Head(s) \in Range(s)
         /\ Tail(s) \in Seq(S)
         /\ Len(Tail(s)) = Len(s) - 1
         /\ Len(s) \in Nat \ {0}
         /\ IsInjective(s) => /\ IsInjective(Tail(s))
                              /\ Range(Tail(s)) = Range(s) \ {Head(s)}
<1>1. /\ Head(s) = s[1]
      /\ Head(s) \in S
      /\ Tail(s) \in Seq(S)
      /\ Len(Tail(s)) = Len(s) - 1
      /\ Len(s) \in Nat \ {0}
      /\ DOMAIN s = 1..Len(s)
      /\ DOMAIN Tail(s) = 1..(Len(s) - 1)
      /\ \A i \in 1..(Len(s) - 1) : Tail(s)[i] = s[i + 1]
  BY HeadTailProperties, LenProperties, EmptySeq
<1>2. Head(s) \in Range(s)
  BY <1>1 DEF Range
<1>3. ASSUME IsInjective(s)
      PROVE  IsInjective(Tail(s)) /\ Range(Tail(s)) = Range(s) \ {Head(s)}
  <2>1. IsInjective(Tail(s))
    BY <1>1, <1>3 DEF IsInjective
  <2>2. Range(Tail(s)) \subseteq Range(s) \ {Head(s)}
    BY <1>1, <1>3 DEF IsInjective, Range
  <2>3. ASSUME NEW i \in 1..Len(s), s[i] # Head(s)
        PROVE  s[i] \in Range(Tail(s))
    <3>1. i - 1 \in 1..(Len(s) - 1) /\ Tail(s)[i - 1] = s[i]
      BY <1>1, <2>3
    <3> QED
      BY <1>1, <3>1 DEF Range
  <2>4. Range(s) \ {Head(s)} \subseteq Range(Tail(s))
    BY <1>1, <2>3 DEF Range
  <2> QED
    BY <2>1, <2>2, <2>4
<1> QED
  BY <1>1, <1>2, <1>3

(* A concatenation without repetitions has disjoint halves without         *)
(* repetitions.                                                            *)
LEMMA ConcatFacts ==
  ASSUME NEW S, NEW s \in Seq(S), NEW t \in Seq(S)
  PROVE  /\ s \o t \in Seq(S)
         /\ Len(s \o t) = Len(s) + Len(t)
         /\ Range(s \o t) = Range(s) \cup Range(t)
         /\ IsInjective(s \o t) => /\ IsInjective(s)
                                   /\ IsInjective(t)
                                   /\ Range(s) \cap Range(t) = {}
<1>1. /\ s \o t \in Seq(S)
      /\ Len(s \o t) = Len(s) + Len(t)
      /\ Len(s) \in Nat /\ Len(t) \in Nat
      /\ DOMAIN s = 1..Len(s) /\ DOMAIN t = 1..Len(t)
      /\ DOMAIN (s \o t) = 1..(Len(s) + Len(t))
      /\ \A i \in 1..(Len(s) + Len(t)) :
           (s \o t)[i] = IF i <= Len(s) THEN s[i] ELSE t[i - Len(s)]
  BY ConcatProperties, LenProperties
<1>2. \A i \in 1..Len(t) :
        i + Len(s) \in 1..(Len(s) + Len(t)) /\ (s \o t)[i + Len(s)] = t[i]
  BY <1>1
<1>3. \A i \in 1..Len(s) :
        i \in 1..(Len(s) + Len(t)) /\ (s \o t)[i] = s[i]
  BY <1>1
<1>4. Range(s \o t) = Range(s) \cup Range(t)
  BY RangeConcatenation
<1>5. ASSUME IsInjective(s \o t)
      PROVE  IsInjective(s) /\ IsInjective(t) /\ Range(s) \cap Range(t) = {}
  <2>1. IsInjective(s)
    <3> SUFFICES ASSUME NEW i \in 1..Len(s), NEW j \in 1..Len(s), s[i] = s[j]
                 PROVE  i = j
      BY <1>1 DEF IsInjective
    <3> QED
      BY <1>1, <1>3, <1>5 DEF IsInjective
  <2>2. IsInjective(t)
    <3> SUFFICES ASSUME NEW i \in 1..Len(t), NEW j \in 1..Len(t), t[i] = t[j]
                 PROVE  i = j
      BY <1>1 DEF IsInjective
    <3>1. i + Len(s) = j + Len(s)
      BY <1>1, <1>2, <1>5 DEF IsInjective
    <3> QED
      BY <1>1, <3>1
  <2>3. ASSUME NEW i \in 1..Len(s), NEW j \in 1..Len(t), s[i] = t[j]
        PROVE  FALSE
    <3>1. i = j + Len(s)
      BY <1>1, <1>2, <1>3, <1>5, <2>3 DEF IsInjective
    <3> QED
      BY <1>1, <3>1
  <2>4. Range(s) \cap Range(t) = {}
    BY <1>1, <2>3 DEF Range
  <2> QED
    BY <2>1, <2>2, <2>4
<1> QED
  BY <1>1, <1>4, <1>5
(* A sender joins the end of the backlog s \o t of buffer and senders. *)
LEMMA BacklogAppend ==
  ASSUME NEW S, NEW s \in Seq(S), NEW t \in Seq(S), NEW e \in S
  PROVE  /\ s \o Append(t, e) = Append(s \o t, e)
         /\ t = <<>> => Append(s, e) \o t = Append(s \o t, e)
<1>1. Append(t, e) = t \o <<e>> /\ <<e>> \in Seq(S)
  BY AppendIsConcat
<1>2. s \o t \in Seq(S)
  BY ConcatProperties
<1>3. Append(s \o t, e) = (s \o t) \o <<e>>
  BY <1>2, AppendIsConcat
<1>4. s \o Append(t, e) = Append(s \o t, e)
  BY <1>1, <1>3, ConcatAssociative
<1>5. Append(s, e) \in Seq(S)
  BY AppendProperties
<1>6. t = <<>> => Append(s, e) \o t = Append(s \o t, e)
  BY <1>5, ConcatEmptySeq
<1> QED
  BY <1>4, <1>6

(* A receive removes the head of the backlog, with or without a sender     *)
(* that moves up into the buffer.                                          *)
LEMMA BacklogTail ==
  ASSUME NEW S, NEW s \in Seq(S), NEW t \in Seq(S), s # <<>>
  PROVE  /\ s \o t # <<>>
         /\ Head(s \o t) = Head(s)
         /\ Tail(s) \o t = Tail(s \o t)
         /\ t # <<>> => Append(Tail(s), Head(t)) \o Tail(t) = Tail(s \o t)
<1>1. /\ s \o t \in Seq(S)
      /\ Len(s \o t) = Len(s) + Len(t)
      /\ Len(s) \in Nat \ {0} /\ Len(t) \in Nat
      /\ \A i \in 1..(Len(s) + Len(t)) :
           (s \o t)[i] = IF i <= Len(s) THEN s[i] ELSE t[i - Len(s)]
  BY ConcatProperties, LenProperties, EmptySeq
<1>2. s \o t # <<>>
  BY ConcatEqualIffEmpty
<1>3. /\ Tail(s) \in Seq(S)
      /\ Len(Tail(s)) = Len(s) - 1
      /\ \A i \in 1..(Len(s) - 1) : Tail(s)[i] = s[i + 1]
  BY HeadTailProperties
<1>4. /\ Tail(s \o t) \in Seq(S)
      /\ Len(Tail(s \o t)) = Len(s) + Len(t) - 1
      /\ \A i \in 1..(Len(s) + Len(t) - 1) : Tail(s \o t)[i] = (s \o t)[i + 1]
  BY <1>1, <1>2, HeadTailProperties
<1>5. /\ Tail(s) \o t \in Seq(S)
      /\ Len(Tail(s) \o t) = Len(s) - 1 + Len(t)
      /\ \A i \in 1..(Len(s) - 1 + Len(t)) :
           (Tail(s) \o t)[i] =
             IF i <= Len(s) - 1 THEN Tail(s)[i] ELSE t[i - (Len(s) - 1)]
  BY <1>3, ConcatProperties
<1>6. Tail(s) \o t = Tail(s \o t)
  <2>1. ASSUME NEW i \in 1..(Len(s) - 1 + Len(t))
        PROVE  (Tail(s) \o t)[i] = Tail(s \o t)[i]
    <3>1. CASE i <= Len(s) - 1
      BY <1>1, <1>3, <1>4, <1>5, <3>1
    <3>2. CASE i > Len(s) - 1
      <4>1. (Tail(s) \o t)[i] = t[i - (Len(s) - 1)]
        BY <1>1, <1>5, <3>2
      <4>2. Tail(s \o t)[i] = t[i + 1 - Len(s)]
        BY <1>1, <1>4, <3>2
      <4>3. i - (Len(s) - 1) = i + 1 - Len(s)
        BY <1>1
      <4> QED
        BY <4>1, <4>2, <4>3
    <3> QED
      BY <1>1, <3>1, <3>2
  <2> QED
    BY <1>1, <1>4, <1>5, <2>1, SeqEqual
<1>7. Head(s \o t) = Head(s)
  <2>1. (s \o t)[1] = s[1]
    BY <1>1
  <2> QED
    BY <1>1, <1>2, <2>1
<1>8. ASSUME t # <<>>
      PROVE  Append(Tail(s), Head(t)) \o Tail(t) = Tail(s \o t)
  <2>1. /\ Head(t) \in S /\ Tail(t) \in Seq(S)
        /\ t = <<Head(t)>> \o Tail(t)
    <3>1. t = <<Head(t)>> \o Tail(t)
      <4>1. Len(t) \in Nat \ {0} /\ Head(t) = t[1] /\ t[1] \in S
        BY <1>8, EmptySeq, ElementOfSeq
      <4>2. SubSeq(t, 1, Len(t)) = <<t[1]>> \o SubSeq(t, 1 + 1, Len(t))
        BY <4>1, SubSeqRecursiveFirst
      <4>3. SubSeq(t, 1, Len(t)) = t /\ Tail(t) = SubSeq(t, 2, Len(t))
        BY <1>8, SubSeqFull, TailIsSubSeq
      <4> QED
        BY <4>1, <4>2, <4>3
    <3> QED
      BY <1>8, <3>1, HeadTailProperties
  <2>2. Append(Tail(s), Head(t)) = Tail(s) \o <<Head(t)>>
    BY <1>3, <2>1, AppendIsConcat
  <2>3. <<Head(t)>> \in Seq(S)
    BY <2>1
  <2>4. (Tail(s) \o <<Head(t)>>) \o Tail(t) = Tail(s) \o (<<Head(t)>> \o Tail(t))
    BY <1>3, <2>1, <2>3, ConcatAssociative
  <2> QED
    BY <1>6, <2>1, <2>2, <2>4
<1> QED
  BY <1>2, <1>6, <1>7, <1>8

-----------------------------------------------------------------------------
(* Type correctness. *)

(* What the handler's return leaves well typed. *)
LEMMA ReturnType ==
  ASSUME TypeOK, NEW c \in Commands, NEW result \in Handled,
         Return(c, result)
  PROVE  /\ step' \in [Commands -> {"idle"} \cup Busy \cup Handled]
         /\ worker' \in [Workers -> Commands \cup {NoCommand}]
         /\ call' \in [Commands -> CallState]
BY DEF TypeOK, Return, Handled, CallState

LEMMA TypeInit == Init => TypeOK
<1> SUFFICES ASSUME Init PROVE TypeOK
  OBVIOUS
<1>1. queue \in Seq(Commands) /\ senders \in Seq(Commands)
  BY EmptySeq DEF Init
<1>2. losses \in 0..MaxLinkLosses
  BY ConfigAssumption DEF Init
<1> QED
  BY <1>1, <1>2 DEF Init, TypeOK, CallState

LEMMA TypeStep == TypeOK /\ [Next]_vars => TypeOK'
<1> SUFFICES ASSUME TypeOK, [Next]_vars PROVE TypeOK'
  OBVIOUS
<1> USE DEF TypeOK
<1>1. ASSUME NEW c \in Commands, Enqueue(c) PROVE TypeOK'
  <2>1. queue' \in Seq(Commands)
    BY <1>1, AppendFacts DEF Enqueue
  <2> QED
    BY <1>1, <2>1 DEF Enqueue, CallState, handlerVars, linkVars
<1>2. ASSUME NEW c \in Commands, Block(c) PROVE TypeOK'
  <2>1. senders' \in Seq(Commands)
    BY <1>2, AppendFacts DEF Block
  <2> QED
    BY <1>2, <2>1 DEF Block, CallState, handlerVars, linkVars
<1>3. ASSUME NEW c \in Commands, RefuseClosed(c) PROVE TypeOK'
  BY <1>3 DEF RefuseClosed, CallState, handlerVars, linkVars
<1>4. ASSUME NEW c \in Commands, CallDirect(c) PROVE TypeOK'
  BY <1>4 DEF CallDirect, CallState, Busy, linkVars
<1>5. ASSUME NEW c \in Commands, SaveCorrelation(c) PROVE TypeOK'
  <2>1. CASE Return(c, "err") /\ UNCHANGED saved
    BY <1>5, <2>1, ReturnType DEF SaveCorrelation, Handled, linkVars
  <2>2. CASE /\ saved' = saved \cup {c}
             /\ step' = [step EXCEPT ![c] = "owner"]
             /\ UNCHANGED <<call, worker>>
    BY <1>5, <2>2 DEF SaveCorrelation, Busy, linkVars
  <2> QED
    BY <1>5, <2>1, <2>2 DEF SaveCorrelation
<1>6. ASSUME NEW c \in Commands, Publish(c) PROVE TypeOK'
  BY <1>6 DEF Publish, Busy, intakeVars, linkVars
<1>7. ASSUME NEW c \in Commands, PublishUnconnected(c) PROVE TypeOK'
  BY <1>7, ReturnType DEF PublishUnconnected, Handled, linkVars
<1>8. ASSUME NEW c \in Commands, PublishReturns(c) PROVE TypeOK'
  <2>1. delivered' \subseteq (Topics \X Commands)
    BY <1>8 DEF PublishReturns, Acknowledged, Unacknowledged, TopicOf, Topics
  <2>2. CASE \E result \in Handled : Return(c, result)
    BY <1>8, <2>1, <2>2, ReturnType DEF PublishReturns, linkVars
  <2>3. CASE ~ \E result \in Handled : Return(c, result)
    BY <1>8, <2>1, <2>3
    DEF PublishReturns, Acknowledged, Unacknowledged, Busy, Handled, linkVars
  <2> QED
    BY <2>2, <2>3
<1>9. ASSUME NEW w \in Workers, Take(w) PROVE TypeOK'
  <2>1. Head(queue) \in Commands /\ Tail(queue) \in Seq(Commands)
    BY <1>9, TailFacts DEF Take
  <2>2. /\ worker' \in [Workers -> Commands \cup {NoCommand}]
        /\ step' \in [Commands -> {"idle"} \cup Busy \cup Handled]
    BY <1>9, <2>1 DEF Take, Busy
  <2>3. CASE senders = <<>>
    BY <1>9, <2>1, <2>2, <2>3 DEF Take, linkVars
  <2>4. CASE senders # <<>>
    <3>1. Head(senders) \in Commands /\ Tail(senders) \in Seq(Commands)
      BY <2>4, TailFacts
    <3>2. queue' = Append(Tail(queue), Head(senders)) /\ senders' = Tail(senders)
      BY <1>9, <2>4 DEF Take
    <3>3. queue' \in Seq(Commands)
      BY <2>1, <3>1, <3>2, AppendFacts
    <3>4. call' \in [Commands -> CallState]
      BY <1>9, <2>4, <3>1 DEF Take, CallState
    <3> QED
      BY <1>9, <2>2, <3>1, <3>2, <3>3, <3>4 DEF Take, linkVars
  <2> QED
    BY <2>3, <2>4
<1>10. CASE LinkLost
  BY <1>10, ConfigAssumption DEF LinkLost, intakeVars, handlerVars
<1>11. CASE Reconnect
  BY <1>11 DEF Reconnect, intakeVars, handlerVars
<1>12. CASE Cancel
  BY <1>12 DEF Cancel, intakeVars, handlerVars, linkVars
<1>13. CASE CloseQueue
  <2>1. senders' \in Seq(Commands)
    BY <1>13, EmptySeq DEF CloseQueue
  <2> QED
    BY <1>13, <2>1 DEF CloseQueue, CallState, handlerVars, linkVars
<1>14. CASE DisconnectMqtt
  BY <1>14 DEF DisconnectMqtt, intakeVars, handlerVars
<1>15. CASE Exit
  BY <1>15 DEF Exit, intakeVars, handlerVars, linkVars
<1>16. CASE UNCHANGED vars
  BY <1>16 DEF vars, intakeVars, handlerVars, linkVars
<1> QED
  BY <1>1, <1>2, <1>3, <1>4, <1>5, <1>6, <1>7, <1>8, <1>9, <1>10, <1>11,
     <1>12, <1>13, <1>14, <1>15, <1>16
  DEF Next, Offered, Handling, Ended

(* Every variable keeps its type in every behaviour. *)
THEOREM TypeCorrect == Spec => []TypeOK
BY TypeInit, TypeStep, PTL DEF Spec

-----------------------------------------------------------------------------
(* Where the commands are. *)

(* Without workers nothing is ever queued or held by a worker, and a       *)
(* caller waits exactly while its handler runs.                            *)
DirectUnqueued ==
  ~Queued =>
    /\ queue = <<>>
    /\ senders = <<>>
    /\ \A w \in Workers : worker[w] = NoCommand
    /\ \A c \in Commands :
         /\ call[c] = "none" <=> step[c] = "idle"
         /\ Accepted(c) <=> step[c] = "ok"

PlacementInv ==
  /\ TypeOK
  /\ EachCommandInOnePlace
  /\ BlockedOnlyWhileFull
  /\ DirectUnqueued

LEMMA PlacementInit == Init => PlacementInv
<1> SUFFICES ASSUME Init PROVE PlacementInv
  OBVIOUS
<1>1. TypeOK
  BY TypeInit
<1>2. /\ queue \o senders = <<>>
      /\ Len(queue) = 0
  BY EmptySeq, ConcatEmptySeq DEF Init
<1>3. /\ IsInjective(<<>>)
      /\ Range(<<>>) = {}
  BY DEF IsInjective, Range
<1>4. EachCommandInOnePlace
  <2>1. Range(queue) = {} /\ Range(senders) = {} /\ IsInjective(queue \o senders)
    BY <1>2, <1>3 DEF Init
  <2>2. UnderWay = {} /\ \A c \in Commands : call[c] = "none" /\ step[c] = "idle"
    BY DEF Init, UnderWay, Busy
  <2>3. \A w \in Workers : worker[w] = NoCommand
    BY DEF Init
  <2> QED
    BY <2>1, <2>2, <2>3 DEF EachCommandInOnePlace, Accepted
<1>5. BlockedOnlyWhileFull
  BY <1>2, ConfigAssumption DEF BlockedOnlyWhileFull, Init
<1>6. DirectUnqueued
  BY DEF DirectUnqueued, Init, Accepted
<1> QED
  BY <1>1, <1>4, <1>5, <1>6 DEF PlacementInv

(* What the invariant says of the backlog before a step. *)
LEMMA BacklogParts ==
  ASSUME PlacementInv, Queued
  PROVE  /\ queue \o senders \in Seq(Commands)
         /\ IsInjective(queue) /\ IsInjective(senders)
         /\ Range(queue \o senders) = Range(queue) \cup Range(senders)
         /\ Range(queue) \cap Range(senders) = {}
         /\ Len(queue) \in Nat
BY ConcatFacts, LenProperties DEF PlacementInv, TypeOK, EachCommandInOnePlace

(* A step of a handler that neither begins nor ends it moves no command. *)
LEMMA PlacementMiddle ==
  ASSUME PlacementInv, TypeOK', NEW c \in Commands, NEW next \in Busy,
         step[c] \in Busy, step' = [step EXCEPT ![c] = next],
         UNCHANGED <<call, worker, queue, senders, closed>>
  PROVE  PlacementInv'
<1> USE DEF PlacementInv
<1>1. \A d \in Commands :
        /\ step'[d] \in Busy <=> step[d] \in Busy
        /\ step'[d] = "idle" <=> step[d] = "idle"
        /\ step'[d] = "ok" <=> step[d] = "ok"
  BY DEF TypeOK, Busy
<1>2. EachCommandInOnePlace'
  BY <1>1 DEF EachCommandInOnePlace, UnderWay, Accepted
<1>3. BlockedOnlyWhileFull'
  BY DEF BlockedOnlyWhileFull
<1>4. DirectUnqueued'
  BY <1>1 DEF DirectUnqueued, Accepted
<1> QED
  BY <1>2, <1>3, <1>4

(* When the handler returns exactly its worker becomes free. *)
LEMMA PlacementReturn ==
  ASSUME PlacementInv, TypeOK', NEW c \in Commands, NEW result \in Handled,
         step[c] \in Busy, Return(c, result),
         UNCHANGED <<queue, senders, closed>>
  PROVE  PlacementInv'
<1> USE DEF PlacementInv
<1>1. /\ step'[c] = result
      /\ \A d \in Commands \ {c} : step'[d] = step[d]
      /\ result \notin Busy /\ result # "idle"
      /\ step[c] # "idle"
  BY DEF Return, TypeOK, Busy, Handled
<1>2. CASE Queued
  <2>1. call' = call
    BY <1>2 DEF Return
  <2>2. \A w \in Workers :
          worker'[w] = IF worker[w] = c THEN NoCommand ELSE worker[w]
    BY DEF Return
  <2>3. UnderWay' = UnderWay \ {c}
    BY <1>1 DEF UnderWay
  <2>4. {worker'[w] : w \in Workers} \ {NoCommand} = UnderWay'
    <3>1. {worker'[w] : w \in Workers} \ {NoCommand}
            = ({worker[w] : w \in Workers} \ {NoCommand}) \ {c}
      BY <2>2
    <3> QED
      BY <1>2, <2>3, <3>1 DEF EachCommandInOnePlace
  <2>5. Range(queue)' = {d \in Commands : Accepted(d) /\ step[d] = "idle"}'
    BY <1>1, <1>2, <2>1 DEF EachCommandInOnePlace, Accepted
  <2>6. \A v, w \in Workers :
          v # w => worker'[v] = NoCommand \/ worker'[v] # worker'[w]
    BY <1>2, <2>2 DEF EachCommandInOnePlace
  <2>7. \A d \in Commands : step'[d] # "idle" => Accepted(d)'
    BY <1>1, <1>2, <2>1 DEF EachCommandInOnePlace, Accepted
  <2>8. EachCommandInOnePlace'
    BY <1>2, <2>1, <2>4, <2>5, <2>6, <2>7 DEF EachCommandInOnePlace
  <2> QED
    BY <1>2, <2>8 DEF BlockedOnlyWhileFull, DirectUnqueued, Queued
<1>3. CASE ~Queued
  <2>1. \A w \in Workers : worker'[w] = NoCommand
    BY <1>3 DEF Return, DirectUnqueued
  <2>2. \A d \in Commands \ {c} : call'[d] = call[d]
    BY <1>3 DEF Return, TypeOK
  <2>3. call'[c] = IF result = "ok" THEN "accepted" ELSE "failed"
    BY <1>3 DEF Return, TypeOK
  <2>4. DirectUnqueued'
    BY <1>1, <1>3, <2>1, <2>2, <2>3 DEF DirectUnqueued, Accepted
  <2> QED
    BY <1>3, <2>4 DEF BlockedOnlyWhileFull, EachCommandInOnePlace, Queued
<1> QED
  BY <1>2, <1>3

(* A caller's command joins the backlog, in the buffer or behind it. *)
LEMMA PlacementOffered ==
  ASSUME PlacementInv, TypeOK', NEW c \in Commands, Offered(c)
  PROVE  PlacementInv'
<1> USE DEF PlacementInv
<1>1. CASE Queued /\ Enqueue(c)
  <2>1. Queued /\ call[c] = "none" /\ step[c] = "idle" /\ Len(queue) < CommandWorkerCount
    BY <1>1 DEF Enqueue, EachCommandInOnePlace, Accepted
  <2>2. /\ queue' = Append(queue, c)
        /\ call' = [call EXCEPT ![c] = "accepted"]
        /\ UNCHANGED <<senders, closed, worker, step>>
    BY <1>1 DEF Enqueue, handlerVars
  <2>3. senders = <<>>
    BY <2>1, BacklogParts DEF BlockedOnlyWhileFull
  <2>4. queue' \o senders' = Append(queue \o senders, c)
    BY <2>2, <2>3, BacklogAppend DEF TypeOK
  <2>5. c \notin Range(queue) /\ c \notin Range(senders)
    BY <2>1 DEF EachCommandInOnePlace, Accepted
  <2>6. IsInjective(queue' \o senders')
    <3>1. /\ queue \o senders \in Seq(Commands)
          /\ IsInjective(queue \o senders)
          /\ c \notin Range(queue \o senders)
      BY <2>1, <2>5, BacklogParts DEF EachCommandInOnePlace
    <3>2. IsInjective(Append(queue \o senders, c))
      BY <3>1, AppendFacts
    <3> QED
      BY <2>4, <3>2
  <2>7. Range(queue') = Range(queue) \cup {c} /\ Len(queue') = Len(queue) + 1
    BY <2>2, AppendFacts DEF TypeOK
  <2>8. /\ call'[c] = "accepted"
        /\ \A d \in Commands \ {c} : call'[d] = call[d]
    BY <2>2 DEF TypeOK
  <2>9. Range(queue') = {d \in Commands : Accepted(d) /\ step[d] = "idle"}'
    BY <2>1, <2>2, <2>7, <2>8 DEF EachCommandInOnePlace, Accepted
  <2>10. Range(senders') = {d \in Commands : call[d] = "blocked"}'
    BY <2>1, <2>2, <2>8 DEF EachCommandInOnePlace
  <2>11. \A d \in Commands : step'[d] # "idle" => Accepted(d)'
    BY <2>1, <2>2, <2>8 DEF EachCommandInOnePlace, Accepted
  <2>12. EachCommandInOnePlace'
    BY <2>1, <2>2, <2>6, <2>9, <2>10, <2>11
    DEF EachCommandInOnePlace, UnderWay
  <2>13. BlockedOnlyWhileFull'
    BY <2>1, <2>2, <2>3, <2>7, BacklogParts, ConfigAssumption
    DEF BlockedOnlyWhileFull
  <2> QED
    BY <2>1, <2>12, <2>13 DEF DirectUnqueued, Queued
<1>2. CASE Queued /\ Block(c)
  <2>1. /\ Queued /\ call[c] = "none" /\ step[c] = "idle"
        /\ ~closed /\ Len(queue) = CommandWorkerCount
    BY <1>2 DEF Block, EachCommandInOnePlace, Accepted
  <2>2. /\ senders' = Append(senders, c)
        /\ call' = [call EXCEPT ![c] = "blocked"]
        /\ UNCHANGED <<queue, closed, worker, step>>
    BY <1>2 DEF Block, handlerVars
  <2>4. queue' \o senders' = Append(queue \o senders, c)
    BY <2>2, BacklogAppend DEF TypeOK
  <2>5. c \notin Range(queue) /\ c \notin Range(senders)
    BY <2>1 DEF EachCommandInOnePlace, Accepted
  <2>6. IsInjective(queue' \o senders')
    <3>1. /\ queue \o senders \in Seq(Commands)
          /\ IsInjective(queue \o senders)
          /\ c \notin Range(queue \o senders)
      BY <2>1, <2>5, BacklogParts DEF EachCommandInOnePlace
    <3>2. IsInjective(Append(queue \o senders, c))
      BY <3>1, AppendFacts
    <3> QED
      BY <2>4, <3>2
  <2>7. Range(senders') = Range(senders) \cup {c}
    BY <2>2, AppendFacts DEF TypeOK
  <2>8. /\ call'[c] = "blocked"
        /\ \A d \in Commands \ {c} : call'[d] = call[d]
    BY <2>2 DEF TypeOK
  <2>9. Range(queue') = {d \in Commands : Accepted(d) /\ step[d] = "idle"}'
    BY <2>1, <2>2, <2>8 DEF EachCommandInOnePlace, Accepted
  <2>10. Range(senders') = {d \in Commands : call[d] = "blocked"}'
    BY <2>1, <2>2, <2>7, <2>8 DEF EachCommandInOnePlace
  <2>11. \A d \in Commands : step'[d] # "idle" => Accepted(d)'
    BY <2>1, <2>2, <2>8 DEF EachCommandInOnePlace, Accepted
  <2>12. EachCommandInOnePlace'
    BY <2>1, <2>2, <2>6, <2>9, <2>10, <2>11
    DEF EachCommandInOnePlace, UnderWay
  <2>13. BlockedOnlyWhileFull'
    BY <2>1, <2>2 DEF BlockedOnlyWhileFull
  <2> QED
    BY <2>1, <2>12, <2>13 DEF DirectUnqueued, Queued
<1>3. CASE Queued /\ RefuseClosed(c)
  <2>1. /\ Queued /\ call[c] = "none" /\ step[c] = "idle"
        /\ call' = [call EXCEPT ![c] = "refused"]
        /\ UNCHANGED <<queue, senders, closed, worker, step>>
    BY <1>3 DEF RefuseClosed, EachCommandInOnePlace, Accepted, handlerVars
  <2>2. /\ call'[c] = "refused"
        /\ \A d \in Commands \ {c} : call'[d] = call[d]
    BY <2>1 DEF TypeOK
  <2>3. EachCommandInOnePlace'
    BY <2>1, <2>2 DEF EachCommandInOnePlace, UnderWay, Accepted
  <2> QED
    BY <2>1, <2>3 DEF BlockedOnlyWhileFull, DirectUnqueued, Queued
<1>4. CASE ~Queued /\ CallDirect(c)
  <2>1. /\ ~Queued
        /\ call' = [call EXCEPT ![c] = "running"]
        /\ step' = [step EXCEPT ![c] = "save"]
        /\ UNCHANGED <<queue, senders, closed, worker>>
    BY <1>4 DEF CallDirect
  <2>2. DirectUnqueued'
    BY <2>1 DEF DirectUnqueued, Accepted, TypeOK
  <2> QED
    BY <2>1, <2>2 DEF BlockedOnlyWhileFull, EachCommandInOnePlace, Queued
<1> QED
  BY <1>1, <1>2, <1>3, <1>4 DEF Offered

(* A worker takes the head of the backlog and the first blocked sender, if *)
(* there is one, moves up into the buffer.                                 *)
LEMMA PlacementTake ==
  ASSUME PlacementInv, TypeOK', NEW w \in Workers, Take(w)
  PROVE  PlacementInv'
<1> USE DEF PlacementInv
<1> DEFINE h == Head(queue)
<1>1. /\ queue # <<>> /\ worker[w] = NoCommand
      /\ worker' = [worker EXCEPT ![w] = h]
      /\ step' = [step EXCEPT ![h] = "save"]
      /\ closed' = closed
  BY DEF Take
<1>2. Queued
  BY <1>1 DEF DirectUnqueued
<1>3. /\ h \in Commands /\ h \in Range(queue)
      /\ Tail(queue) \in Seq(Commands)
      /\ Len(Tail(queue)) = Len(queue) - 1
      /\ Len(queue) \in Nat \ {0}
      /\ Range(Tail(queue)) = Range(queue) \ {h}
  BY <1>1, <1>2, TailFacts, BacklogParts DEF TypeOK
<1>4. /\ call[h] = "accepted" /\ step[h] = "idle" /\ h \notin Range(senders)
  BY <1>2, <1>3, BacklogParts DEF EachCommandInOnePlace, Accepted
<1>5. /\ step'[h] = "save"
      /\ \A d \in Commands \ {h} : step'[d] = step[d]
      /\ worker'[w] = h
      /\ \A v \in Workers \ {w} : worker'[v] = worker[v]
  BY <1>1, <1>3 DEF TypeOK
<1>6. h # NoCommand /\ \A v \in Workers : worker[v] # h
  <2>1. h \notin UnderWay
    BY <1>4 DEF UnderWay, Busy
  <2> QED
    BY <1>2, <1>3, <2>1, ConfigAssumption DEF EachCommandInOnePlace
<1>7. {worker'[v] : v \in Workers} \ {NoCommand} = UnderWay'
  <2>1. UnderWay' = UnderWay \cup {h}
    BY <1>3, <1>5 DEF UnderWay, Busy
  <2>2. {worker'[v] : v \in Workers} \ {NoCommand}
          = ({worker[v] : v \in Workers} \ {NoCommand}) \cup {h}
    BY <1>1, <1>5, <1>6
  <2> QED
    BY <1>2, <2>1, <2>2 DEF EachCommandInOnePlace
<1>8. \A u, v \in Workers :
        u # v => worker'[u] = NoCommand \/ worker'[u] # worker'[v]
  BY <1>2, <1>5, <1>6 DEF EachCommandInOnePlace
<1>9. IsInjective(Tail(queue \o senders))
  <2>1. /\ queue \o senders \in Seq(Commands)
        /\ queue \o senders # <<>>
        /\ IsInjective(queue \o senders)
    BY <1>1, <1>2, BacklogParts, BacklogTail DEF EachCommandInOnePlace, TypeOK
  <2> QED
    BY <2>1, TailFacts
<1>10. CASE senders = <<>>
  <2>1. queue' = Tail(queue) /\ senders' = <<>> /\ call' = call
    BY <1>10 DEF Take
  <2>2. queue' \o senders' = Tail(queue \o senders)
    BY <1>1, <1>10, <2>1, BacklogTail DEF TypeOK
  <2>3. Range(queue') = {d \in Commands : Accepted(d) /\ step[d] = "idle"}'
    BY <1>2, <1>3, <1>5, <2>1 DEF EachCommandInOnePlace, Accepted
  <2>4. Range(senders') = {d \in Commands : call[d] = "blocked"}'
    BY <1>2, <1>10, <2>1 DEF EachCommandInOnePlace
  <2>5. \A d \in Commands : step'[d] # "idle" => Accepted(d)'
    BY <1>2, <1>4, <1>5, <2>1 DEF EachCommandInOnePlace, Accepted
  <2>6. EachCommandInOnePlace'
    BY <1>7, <1>8, <1>9, <2>2, <2>3, <2>4, <2>5 DEF EachCommandInOnePlace
  <2>7. BlockedOnlyWhileFull'
    <3>1. Len(queue) <= CommandWorkerCount /\ Len(queue') <= Len(queue)
      BY <1>3, <2>1 DEF BlockedOnlyWhileFull
    <3>2. Len(queue') <= CommandWorkerCount
      BY <1>3, <2>1, <3>1, ConfigAssumption
    <3> QED
      BY <2>1, <3>2 DEF BlockedOnlyWhileFull
  <2> QED
    BY <1>2, <2>6, <2>7 DEF DirectUnqueued, Queued
<1>11. CASE senders # <<>>
  <2> DEFINE s == Head(senders)
  <2>1. /\ queue' = Append(Tail(queue), s)
        /\ senders' = Tail(senders)
        /\ call' = [call EXCEPT ![s] = "accepted"]
    BY <1>11 DEF Take
  <2>2. queue' \o senders' = Tail(queue \o senders)
    <3>1. /\ queue \in Seq(Commands) /\ senders \in Seq(Commands)
          /\ queue # <<>> /\ senders # <<>>
      BY <1>1, <1>11 DEF TypeOK
    <3>2. Append(Tail(queue), Head(senders)) \o Tail(senders)
            = Tail(queue \o senders)
      BY <3>1, BacklogTail, Zenon
    <3> QED
      BY <2>1, <3>2, Zenon
  <2>3. /\ s \in Commands /\ s \in Range(senders)
        /\ Range(Tail(senders)) = Range(senders) \ {s}
    BY <1>2, <1>11, TailFacts, BacklogParts DEF TypeOK
  <2>4. call[s] = "blocked" /\ step[s] = "idle" /\ s # h
    BY <1>2, <1>4, <2>3 DEF EachCommandInOnePlace, Accepted
  <2>5. call'[s] = "accepted" /\ \A d \in Commands \ {s} : call'[d] = call[d]
    BY <2>1, <2>3 DEF TypeOK
  <2>6. /\ Range(queue') = (Range(queue) \ {h}) \cup {s}
        /\ Len(queue') = Len(queue)
    <3>1. /\ Range(Append(Tail(queue), s)) = Range(Tail(queue)) \cup {s}
          /\ Len(Append(Tail(queue), s)) = Len(Tail(queue)) + 1
      BY <1>3, <2>3, AppendFacts
    <3> HIDE DEF h, s
    <3>2. Len(Tail(queue)) + 1 = Len(queue)
      BY <1>3
    <3> QED
      BY <1>3, <2>1, <3>1, <3>2
  <2>7. Range(queue') = {d \in Commands : Accepted(d) /\ step[d] = "idle"}'
    BY <1>2, <1>5, <2>3, <2>4, <2>5, <2>6 DEF EachCommandInOnePlace, Accepted
  <2>8. Range(senders') = {d \in Commands : call[d] = "blocked"}'
    BY <1>2, <2>1, <2>3, <2>5 DEF EachCommandInOnePlace
  <2>9. \A d \in Commands : step'[d] # "idle" => Accepted(d)'
    BY <1>2, <1>4, <1>5, <2>4, <2>5 DEF EachCommandInOnePlace, Accepted
  <2>10. EachCommandInOnePlace'
    BY <1>7, <1>8, <1>9, <2>2, <2>7, <2>8, <2>9 DEF EachCommandInOnePlace
  <2>11. BlockedOnlyWhileFull'
    BY <1>1, <1>11, <2>6 DEF BlockedOnlyWhileFull
  <2> QED
    BY <1>2, <2>10, <2>11 DEF DirectUnqueued, Queued
<1> QED
  BY <1>10, <1>11

(* Closing the channel refuses exactly the blocked senders. *)
LEMMA PlacementClose ==
  ASSUME PlacementInv, TypeOK', CloseQueue
  PROVE  PlacementInv'
<1> USE DEF PlacementInv
<1>1. /\ Queued
      /\ senders' = <<>>
      /\ \A c \in Commands :
           call'[c] = IF call[c] = "blocked" THEN "refused" ELSE call[c]
      /\ UNCHANGED <<queue, worker, step>>
  BY DEF CloseQueue, handlerVars
<1>2. queue' \o senders' = queue
  BY <1>1, ConcatEmptySeq DEF TypeOK
<1>3. Range(<<>>) = {}
  BY DEF Range
<1>4. EachCommandInOnePlace'
  BY <1>1, <1>2, <1>3, BacklogParts
  DEF EachCommandInOnePlace, UnderWay, Accepted
<1>5. BlockedOnlyWhileFull'
  BY <1>1 DEF BlockedOnlyWhileFull
<1> QED
  BY <1>1, <1>4, <1>5 DEF DirectUnqueued, Queued

LEMMA PlacementStep == PlacementInv /\ [Next]_vars => PlacementInv'
<1> SUFFICES ASSUME PlacementInv, [Next]_vars PROVE PlacementInv'
  OBVIOUS
<1>1. TypeOK'
  BY TypeStep DEF PlacementInv
<1>2. ASSUME NEW c \in Commands, Offered(c) PROVE PlacementInv'
  BY <1>1, <1>2, PlacementOffered
<1>3. ASSUME NEW c \in Commands, SaveCorrelation(c) PROVE PlacementInv'
  <2>1. CASE Return(c, "err")
    BY <1>1, <1>3, <2>1, PlacementReturn DEF SaveCorrelation, Busy, Handled
  <2>2. CASE step' = [step EXCEPT ![c] = "owner"] /\ UNCHANGED <<call, worker>>
    BY <1>1, <1>3, <2>2, PlacementMiddle DEF SaveCorrelation, Busy
  <2> QED
    BY <1>3, <2>1, <2>2 DEF SaveCorrelation
<1>4. ASSUME NEW c \in Commands, Publish(c) PROVE PlacementInv'
  <2>1. PICK next \in Busy : step' = [step EXCEPT ![c] = next]
    BY <1>4 DEF Publish, Busy
  <2> QED
    BY <1>1, <1>4, <2>1, PlacementMiddle DEF Publish, Busy, intakeVars
<1>5. ASSUME NEW c \in Commands, PublishUnconnected(c) PROVE PlacementInv'
  BY <1>1, <1>5, PlacementReturn DEF PublishUnconnected, Busy, Handled
<1>6. ASSUME NEW c \in Commands, PublishReturns(c) PROVE PlacementInv'
  <2>1. step[c] \in Busy /\ UNCHANGED <<queue, senders, closed>>
    BY <1>6 DEF PublishReturns, Acknowledged, Unacknowledged, Busy
  <2>2. CASE step' = [step EXCEPT ![c] = "legacy"] /\ UNCHANGED <<call, worker>>
    BY <1>1, <2>1, <2>2, PlacementMiddle DEF Busy
  <2>3. CASE Return(c, "ok") \/ Return(c, "err")
    BY <1>1, <2>1, <2>3, PlacementReturn DEF Handled
  <2> QED
    BY <1>6, <2>2, <2>3 DEF PublishReturns, Acknowledged, Unacknowledged
<1>7. ASSUME NEW w \in Workers, Take(w) PROVE PlacementInv'
  BY <1>1, <1>7, PlacementTake
<1>8. CASE CloseQueue
  BY <1>1, <1>8, PlacementClose
<1>9. CASE UNCHANGED <<intakeVars, worker, step>>
  BY <1>1, <1>9
  DEF PlacementInv, EachCommandInOnePlace, BlockedOnlyWhileFull,
      DirectUnqueued, UnderWay, Accepted, intakeVars
<1>10. LinkLost \/ Reconnect \/ Cancel \/ DisconnectMqtt \/ Exit \/ UNCHANGED vars
         => UNCHANGED <<intakeVars, worker, step>>
  BY DEF LinkLost, Reconnect, Cancel, DisconnectMqtt, Exit, vars, handlerVars
<1> QED
  BY <1>2, <1>3, <1>4, <1>5, <1>6, <1>7, <1>8, <1>9, <1>10
  DEF Next, Handling, Ended

(* Every accepted command is in one place, once, until it was handled,     *)
(* whatever the number of callers and workers and whenever the channel is  *)
(* closed (command.go:39-66).                                              *)
THEOREM PlacementCorrect == Spec => []EachCommandInOnePlace
<1>1. PlacementInv => EachCommandInOnePlace
  BY DEF PlacementInv
<1> QED
  BY <1>1, PlacementInit, PlacementStep, PTL DEF Spec

(* A caller blocks only while the channel is open and full                 *)
(* (command.go:39-66).                                                     *)
THEOREM BlocksOnlyWhenFull == Spec => []BlockedOnlyWhileFull
<1>1. PlacementInv => BlockedOnlyWhileFull
  BY DEF PlacementInv
<1> QED
  BY <1>1, PlacementInit, PlacementStep, PTL DEF Spec

-----------------------------------------------------------------------------
(* What was published, and that nothing is handled twice. *)

DeliveryInv ==
  /\ PlacementInv
  /\ CorrelationBeforePublish
  /\ LegacyAfterOwner
  /\ NilMeansDelivered

(* A step that delivers nothing and leads no handler past the save.        *)
LEMMA DeliveryQuiet ==
  ASSUME DeliveryInv, PlacementInv', UNCHANGED <<saved, delivered>>,
         \A c \in Commands : \/ step'[c] = step[c]
                             \/ step'[c] \in {"save", "err"}
  PROVE  DeliveryInv'
<1> USE DEF DeliveryInv
<1>1. CorrelationBeforePublish'
  BY DEF CorrelationBeforePublish, Busy
<1>2. LegacyAfterOwner'
  BY DEF LegacyAfterOwner
<1>3. ASSUME NEW c \in Commands, ~Queued, Accepted(c)' PROVE step'[c] = "ok"
  BY <1>3 DEF PlacementInv, DirectUnqueued, Accepted, Queued
<1>4. NilMeansDelivered'
  BY <1>3 DEF NilMeansDelivered, Queued
<1> QED
  BY <1>1, <1>2, <1>4

LEMMA DeliveryInit == Init => DeliveryInv
<1> SUFFICES ASSUME Init PROVE DeliveryInv
  OBVIOUS
<1>1. PlacementInv
  BY PlacementInit
<1>2. \A c \in Commands : step[c] = "idle" /\ call[c] = "none"
  BY DEF Init
<1> QED
  BY <1>1, <1>2
  DEF DeliveryInv, CorrelationBeforePublish, LegacyAfterOwner,
      NilMeansDelivered, Accepted, Busy, Init

LEMMA DeliveryStep == DeliveryInv /\ [Next]_vars => DeliveryInv'
<1> SUFFICES ASSUME DeliveryInv, [Next]_vars PROVE DeliveryInv'
  OBVIOUS
<1>1. PlacementInv' /\ TypeOK /\ TypeOK'
  BY PlacementStep DEF DeliveryInv, PlacementInv
<1>2. ASSUME NEW c \in Commands, SaveCorrelation(c),
             step' = [step EXCEPT ![c] = "owner"], saved' = saved \cup {c}
      PROVE  DeliveryInv'
  <2>1. step[c] = "save" /\ step'[c] = "owner" /\ delivered' = delivered
        /\ \A d \in Commands \ {c} : step'[d] = step[d]
    BY <1>1, <1>2 DEF SaveCorrelation, TypeOK
  <2>2. CorrelationBeforePublish'
    BY <1>2, <2>1 DEF DeliveryInv, CorrelationBeforePublish
  <2>3. LegacyAfterOwner'
    BY <2>1 DEF DeliveryInv, LegacyAfterOwner
  <2>4. NilMeansDelivered'
    BY <1>1, <2>1
    DEF DeliveryInv, NilMeansDelivered, PlacementInv, DirectUnqueued, Accepted,
        Queued
  <2> QED
    BY <1>1, <2>2, <2>3, <2>4 DEF DeliveryInv
<1>3. ASSUME NEW c \in Commands, Publish(c) PROVE DeliveryInv'
  <2>1. /\ step[c] \in {"owner", "legacy"}
        /\ step'[c] = IF step[c] = "owner" THEN "owner_wait" ELSE "legacy_wait"
        /\ \A d \in Commands \ {c} : step'[d] = step[d]
        /\ UNCHANGED <<saved, delivered>>
    BY <1>1, <1>3 DEF Publish, TypeOK
  <2>2. CorrelationBeforePublish'
    BY <2>1 DEF DeliveryInv, CorrelationBeforePublish, Busy
  <2>3. LegacyAfterOwner'
    BY <2>1 DEF DeliveryInv, LegacyAfterOwner
  <2>4. NilMeansDelivered'
    BY <1>1, <2>1
    DEF DeliveryInv, NilMeansDelivered, PlacementInv, DirectUnqueued, Accepted,
        Queued
  <2> QED
    BY <1>1, <2>2, <2>3, <2>4 DEF DeliveryInv
<1>4. ASSUME NEW c \in Commands, PublishReturns(c), Acknowledged(c)
      PROVE  DeliveryInv'
  <2>1. /\ step[c] \in {"owner_wait", "legacy_wait"}
        /\ step'[c] = IF step[c] = "owner_wait" /\ ~ForceTopicsWithOwner
                      THEN "legacy" ELSE "ok"
        /\ \A d \in Commands \ {c} : step'[d] = step[d]
        /\ saved' = saved
    BY <1>1, <1>4 DEF PublishReturns, Acknowledged, Return, TypeOK
  <2>2. delivered' = delivered \cup {<<IF step[c] = "owner_wait" THEN "owner"
                                                               ELSE "legacy", c>>}
    BY <1>4 DEF Acknowledged, TopicOf
  <2>3. CorrelationBeforePublish'
    BY <2>1, <2>2 DEF DeliveryInv, CorrelationBeforePublish, Busy
  <2>4. LegacyAfterOwner'
    BY <2>1, <2>2 DEF DeliveryInv, LegacyAfterOwner
  <2>5. NilMeansDelivered'
    BY <1>1, <2>1, <2>2
    DEF DeliveryInv, NilMeansDelivered, LegacyAfterOwner, PlacementInv,
        DirectUnqueued, Accepted, Queued
  <2> QED
    BY <1>1, <2>3, <2>4, <2>5 DEF DeliveryInv
<1>5. ASSUME NEW c \in Commands, PublishReturns(c), Unacknowledged(c)
      PROVE  DeliveryInv'
  <2>1. /\ step[c] \in {"owner_wait", "legacy_wait"}
        /\ step'[c] = "err"
        /\ \A d \in Commands \ {c} : step'[d] = step[d]
        /\ saved' = saved
    BY <1>1, <1>5 DEF PublishReturns, Unacknowledged, Return, TypeOK
  <2>2. \/ delivered' = delivered
        \/ delivered' = delivered \cup {<<IF step[c] = "owner_wait" THEN "owner"
                                                               ELSE "legacy", c>>}
    BY <1>5 DEF Unacknowledged, TopicOf
  <2>3. CorrelationBeforePublish'
    BY <2>1, <2>2 DEF DeliveryInv, CorrelationBeforePublish, Busy
  <2>4. LegacyAfterOwner'
    BY <2>1, <2>2 DEF DeliveryInv, LegacyAfterOwner
  <2>5. NilMeansDelivered'
    BY <1>1, <2>1, <2>2
    DEF DeliveryInv, NilMeansDelivered, PlacementInv, DirectUnqueued, Accepted,
        Queued
  <2> QED
    BY <1>1, <2>3, <2>4, <2>5 DEF DeliveryInv
<1>6. ASSUME NEW c \in Commands,
             Return(c, "err"), UNCHANGED <<saved, delivered>>
      PROVE  DeliveryInv'
  BY <1>1, <1>6, DeliveryQuiet DEF Return, TypeOK
<1>7. ASSUME NEW c \in Commands, Offered(c) PROVE DeliveryInv'
  BY <1>1, <1>7, DeliveryQuiet
  DEF Offered, Enqueue, Block, RefuseClosed, CallDirect, handlerVars, TypeOK
<1>8. ASSUME NEW w \in Workers, Take(w) PROVE DeliveryInv'
  BY <1>1, <1>8, DeliveryQuiet DEF Take, TypeOK
<1>9. CASE UNCHANGED <<step, saved, delivered>>
  BY <1>1, <1>9, DeliveryQuiet
<1>10. LinkLost \/ Reconnect \/ Cancel \/ CloseQueue \/ DisconnectMqtt \/ Exit
         \/ UNCHANGED vars => UNCHANGED <<step, saved, delivered>>
  BY DEF LinkLost, Reconnect, Cancel, CloseQueue, DisconnectMqtt, Exit, vars,
         handlerVars
<1>11. ASSUME NEW c \in Commands, Handling(c) PROVE DeliveryInv'
  BY <1>2, <1>3, <1>4, <1>5, <1>6, <1>11
  DEF Handling, SaveCorrelation, PublishUnconnected, PublishReturns
<1> QED
  BY <1>7, <1>8, <1>9, <1>10, <1>11 DEF Next, Ended

(* No device sees a command whose correlation was not saved before, the    *)
(* legacy topic follows the topic with the owner, and a handler that       *)
(* returned nil has served every topic.                                    *)
THEOREM DeliveryCorrect ==
  Spec => [](CorrelationBeforePublish /\ LegacyAfterOwner /\ NilMeansDelivered)
<1>1. DeliveryInv
        => CorrelationBeforePublish /\ LegacyAfterOwner /\ NilMeansDelivered
  BY DEF DeliveryInv
<1> QED
  BY <1>1, DeliveryInit, DeliveryStep, PTL DEF Spec

(* What one step may do to the handling of a command. *)
HandlesOnce ==
  \A c \in Commands :
    /\ step[c] # "idle" /\ step[c] # "save" => step'[c] # "save"
    /\ step[c] \in Handled => step'[c] = step[c]

LEMMA HandledOnceStep == PlacementInv /\ [Next]_vars => HandlesOnce
<1> SUFFICES ASSUME PlacementInv, [Next]_vars PROVE HandlesOnce
  OBVIOUS
<1> USE DEF PlacementInv, TypeOK
<1>1. ASSUME NEW c \in Commands, Handling(c) PROVE HandlesOnce
  <2>1. step[c] \in Busy
    BY <1>1 DEF Handling, SaveCorrelation, Publish, PublishUnconnected,
                PublishReturns, Acknowledged, Unacknowledged, Busy
  <2>2. step'[c] # "save" /\ \A d \in Commands \ {c} : step'[d] = step[d]
    BY <1>1 DEF Handling, SaveCorrelation, Publish, PublishUnconnected,
                PublishReturns, Acknowledged, Unacknowledged, Return
  <2> QED
    BY <2>1, <2>2 DEF HandlesOnce, Busy, Handled
<1>2. ASSUME NEW w \in Workers, Take(w) PROVE HandlesOnce
  <2>1. queue # <<>> /\ Queued
    BY <1>2 DEF Take, DirectUnqueued
  <2>2. Head(queue) \in Range(queue) /\ Head(queue) \in Commands
    BY <2>1, TailFacts
  <2>3. step[Head(queue)] = "idle"
    BY <2>1, <2>2 DEF EachCommandInOnePlace
  <2>4. \A d \in Commands \ {Head(queue)} : step'[d] = step[d]
    BY <1>2, <2>2 DEF Take
  <2> QED
    BY <2>3, <2>4 DEF HandlesOnce, Handled
<1>3. ASSUME NEW c \in Commands, Offered(c) PROVE HandlesOnce
  <2>1. CASE ~Queued /\ CallDirect(c)
    <3>1. step[c] = "idle"
      BY <2>1 DEF CallDirect, DirectUnqueued
    <3> QED
      BY <2>1, <3>1 DEF CallDirect, HandlesOnce, Handled
  <2>2. CASE UNCHANGED step
    BY <2>2 DEF HandlesOnce
  <2> QED
    BY <1>3, <2>1, <2>2 DEF Offered, Enqueue, Block, RefuseClosed, handlerVars
<1>4. CASE UNCHANGED step
  BY <1>4 DEF HandlesOnce
<1>5. LinkLost \/ Reconnect \/ Cancel \/ CloseQueue \/ DisconnectMqtt \/ Exit
         \/ UNCHANGED vars => UNCHANGED step
  BY DEF LinkLost, Reconnect, Cancel, CloseQueue, DisconnectMqtt, Exit, vars,
         handlerVars
<1> QED
  BY <1>1, <1>2, <1>3, <1>4, <1>5 DEF Next, Ended

(* No command is handled twice, by any worker or direct caller. *)
THEOREM NeverHandledTwice == Spec => HandledOnce
<1>1. PlacementInv /\ [Next]_vars => [HandlesOnce]_vars
  BY HandledOnceStep
<1>2. HandledOnce <=> [][HandlesOnce]_vars
  BY DEF HandledOnce, HandlesOnce
<1> QED
  BY <1>1, <1>2, PlacementInit, PlacementStep, PTL DEF Spec

-----------------------------------------------------------------------------
(* The queued handler implements the intake. *)

(* The status of the intake changes where call or step change.             *)
LEMMA StatusStep ==
  ASSUME PlacementInv, PlacementInv', Queued, NEW c \in Commands,
         NEW new \in {"waiting", "refused", "begun", "done"},
         intakeStatus'[c] = new,
         \A d \in Commands \ {c} : intakeStatus'[d] = intakeStatus[d]
  PROVE  intakeStatus' = [intakeStatus EXCEPT ![c] = new]
<1>1. DOMAIN intakeStatus = Commands /\ DOMAIN intakeStatus' = Commands
  BY DEF intakeStatus
<1>2. /\ intakeStatus = [d \in Commands |-> intakeStatus[d]]
      /\ intakeStatus' = [d \in Commands |-> intakeStatus'[d]]
  BY DEF intakeStatus
<1> QED
  BY <1>1, <1>2

(* Fewer commands are under way than there are workers while one rests.    *)
LEMMA FreeWorker ==
  ASSUME PlacementInv, Queued, NEW w \in Workers, worker[w] = NoCommand
  PROVE  Cardinality(UnderWay) < CommandWorkerCount
<1> USE DEF PlacementInv, TypeOK
<1> DEFINE V == {v \in Workers : worker[v] # NoCommand}
           f == [v \in V |-> worker[v]]
<1>1. IsFiniteSet(Workers) /\ Cardinality(Workers) = CommandWorkerCount
  BY FS_Interval, ConfigAssumption DEF Workers, Queued
<1>2. /\ IsFiniteSet(Workers \ {w})
      /\ Cardinality(Workers \ {w}) = CommandWorkerCount - 1
  BY <1>1, FS_RemoveElement
<1>3. IsFiniteSet(V) /\ Cardinality(V) <= CommandWorkerCount - 1
  BY <1>2, FS_Subset
<1>4. UnderWay = {worker[v] : v \in Workers} \ {NoCommand}
  BY DEF EachCommandInOnePlace
<1>5. f \in Surjection(V, UnderWay)
  BY <1>4 DEF Surjection
<1>6. IsFiniteSet(UnderWay) /\ Cardinality(UnderWay) <= Cardinality(V)
  BY <1>3, <1>5, FS_Surjection
<1>7. Cardinality(UnderWay) \in Nat /\ Cardinality(V) \in Nat
  BY <1>3, <1>6, FS_CardinalityType
<1> QED
  BY <1>3, <1>6, <1>7, ConfigAssumption

LEMMA IntakeInit == Init => Intake!Init
<1> SUFFICES ASSUME Init PROVE Intake!Init
  OBVIOUS
<1>1. queue \o senders = <<>>
  BY EmptySeq, ConcatEmptySeq DEF Init
<1>2. intakeStatus = [c \in Commands |-> "new"]
  BY DEF Init, intakeStatus, Busy, Handled
<1> QED
  BY <1>1, <1>2 DEF Init, Intake!Init

LEMMA IntakeOffered ==
  ASSUME PlacementInv, PlacementInv', Queued, NEW c \in Commands, Offered(c)
  PROVE  Intake!Offer(c) \/ Intake!Refuse(c)
<1> USE DEF PlacementInv, TypeOK
<1>1. up /\ call[c] = "none" /\ step[c] = "idle"
  BY DEF Offered, Enqueue, Block, RefuseClosed, CallDirect,
         EachCommandInOnePlace, Accepted
<1>2. intakeStatus[c] = "new"
  BY <1>1 DEF intakeStatus, Busy, Handled
<1>3. /\ step' = step /\ up' = up /\ closed' = closed
      /\ \A d \in Commands \ {c} : call'[d] = call[d]
  BY DEF Offered, Enqueue, Block, RefuseClosed, CallDirect, handlerVars
<1>4. \A d \in Commands \ {c} : intakeStatus'[d] = intakeStatus[d]
  BY <1>3 DEF intakeStatus
<1>5. CASE Enqueue(c) \/ Block(c)
  <2>1. ~closed /\ call'[c] \in {"accepted", "blocked"}
    BY <1>5 DEF Enqueue, Block
  <2>2. intakeStatus'[c] = "waiting"
    BY <1>1, <1>3, <2>1 DEF intakeStatus, Busy, Handled
  <2>3. intakeStatus' = [intakeStatus EXCEPT ![c] = "waiting"]
    BY <1>4, <2>2, StatusStep
  <2>4. queue' \o senders' = Append(queue \o senders, c)
    <3>1. CASE Enqueue(c)
      <4>1. /\ queue' = Append(queue, c) /\ senders' = senders
            /\ Len(queue) < CommandWorkerCount
        BY <3>1 DEF Enqueue
      <4>2. senders = <<>>
        BY <4>1, BacklogParts DEF BlockedOnlyWhileFull
      <4> QED
        BY <4>1, <4>2, BacklogAppend
    <3>2. CASE Block(c)
      BY <3>2, BacklogAppend DEF Block
    <3> QED
      BY <1>5, <3>1, <3>2
  <2> QED
    BY <1>1, <1>2, <1>3, <2>1, <2>3, <2>4 DEF Intake!Offer
<1>6. CASE RefuseClosed(c)
  <2>1. /\ closed /\ call'[c] = "refused"
        /\ queue' = queue /\ senders' = senders
    BY <1>6 DEF RefuseClosed
  <2>2. intakeStatus'[c] = "refused"
    BY <1>1, <1>3, <2>1 DEF intakeStatus, Busy, Handled
  <2>3. intakeStatus' = [intakeStatus EXCEPT ![c] = "refused"]
    BY <1>4, <2>2, StatusStep
  <2> QED
    BY <1>1, <1>2, <1>3, <2>1, <2>3 DEF Intake!Refuse
<1> QED
  BY <1>5, <1>6 DEF Offered

LEMMA IntakeTake ==
  ASSUME PlacementInv, PlacementInv', Queued, NEW w \in Workers, Take(w)
  PROVE  Intake!Begin
<1> USE DEF PlacementInv, TypeOK
<1> DEFINE h == Head(queue)
<1>1. /\ up /\ queue # <<>> /\ worker[w] = NoCommand
      /\ step' = [step EXCEPT ![h] = "save"]
      /\ up' = up /\ closed' = closed
  BY DEF Take
<1>2. /\ queue \in Seq(Commands) /\ senders \in Seq(Commands)
      /\ h \in Commands /\ h \in Range(queue)
  BY <1>1, TailFacts
<1>3. /\ queue \o senders # <<>>
      /\ Head(queue \o senders) = h
      /\ queue' \o senders' = Tail(queue \o senders)
  <2>1. CASE senders = <<>>
    BY <1>1, <1>2, <2>1, BacklogTail DEF Take
  <2>2. CASE senders # <<>>
    <3>1. /\ queue \in Seq(Commands) /\ senders \in Seq(Commands)
          /\ queue # <<>> /\ senders # <<>>
      BY <1>1, <1>2, <2>2
    <3>2. /\ Append(Tail(queue), Head(senders)) \o Tail(senders)
              = Tail(queue \o senders)
          /\ queue \o senders # <<>>
          /\ Head(queue \o senders) = Head(queue)
      BY <3>1, BacklogTail, Zenon
    <3>3. queue' = Append(Tail(queue), Head(senders)) /\ senders' = Tail(senders)
      BY <2>2 DEF Take
    <3> QED
      BY <3>2, <3>3, Zenon
  <2> QED
    BY <2>1, <2>2
<1>4. step[h] = "idle" /\ call[h] = "accepted" /\ step'[h] = "save"
  BY <1>1, <1>2 DEF EachCommandInOnePlace, Accepted
<1>5. \A d \in Commands \ {h} : step'[d] = step[d]
  BY <1>1, <1>2
<1>6. \A d \in Commands :
        \/ call'[d] = call[d]
        \/ call[d] = "blocked" /\ call'[d] = "accepted"
  <2>1. CASE senders = <<>>
    BY <2>1 DEF Take
  <2>2. CASE senders # <<>>
    <3>1. Head(senders) \in Commands /\ call[Head(senders)] = "blocked"
      BY <2>2, TailFacts DEF EachCommandInOnePlace
    <3> QED
      BY <2>2, <3>1 DEF Take
  <2> QED
    BY <2>1, <2>2
<1>7. intakeStatus'[h] = "begun"
  BY <1>2, <1>4, <1>6 DEF intakeStatus, Busy
<1>8. \A d \in Commands \ {h} : intakeStatus'[d] = intakeStatus[d]
  BY <1>5, <1>6 DEF intakeStatus
<1>9. intakeStatus' = [intakeStatus EXCEPT ![h] = "begun"]
  BY <1>2, <1>7, <1>8, StatusStep
<1>10. Intake!UnderWay = UnderWay
  BY DEF UnderWay, Intake!UnderWay, intakeStatus
<1>11. Intake!Cardinality(Intake!UnderWay) < CommandWorkerCount
  <2>1. Intake!Cardinality(UnderWay) = Cardinality(UnderWay)
    BY DEF Cardinality, Intake!Cardinality
  <2> QED
    BY <1>1, <1>10, <2>1, FreeWorker
<1>12. intakeStatus' = [intakeStatus EXCEPT ![Head(queue \o senders)] = "begun"]
  BY <1>3, <1>9
<1> HIDE DEF h, PlacementInv, TypeOK
<1> QED
  BY <1>1, <1>3, <1>11, <1>12 DEF Intake!Begin

LEMMA IntakeClose ==
  ASSUME PlacementInv, Queued, CloseQueue
  PROVE  Intake!Shut
<1> USE DEF PlacementInv, TypeOK
<1> DEFINE b == queue \o senders
<1>1. /\ up /\ ~closed /\ closed' = TRUE /\ up' = up
      /\ queue' = queue /\ senders' = <<>> /\ step' = step
      /\ \A c \in Commands :
           call'[c] = IF call[c] = "blocked" THEN "refused" ELSE call[c]
  BY DEF CloseQueue, handlerVars
<1>2. /\ Len(b) = Len(queue) + Len(senders)
      /\ Len(queue) \in Nat /\ Len(senders) \in Nat
      /\ b \in Seq(Commands)
      /\ \A i \in 1..Len(b) :
           b[i] = IF i <= Len(queue) THEN queue[i] ELSE senders[i - Len(queue)]
      /\ DOMAIN senders = 1..Len(senders)
  BY ConcatProperties, LenProperties
<1>3. Len(queue) \in 0..Len(b)
  BY <1>2
<1>4. queue' \o senders' = SubSeq(b, 1, Len(queue))
  <2>1. queue' \o senders' = queue
    BY <1>1, ConcatEmptySeq
  <2>2. SubSeq(b, 1, Len(queue)) = queue
    <3>1. \A i \in 1..Len(queue) : b[i] \in Commands
      BY <1>2, ElementOfSeq
    <3>2. /\ SubSeq(b, 1, Len(queue)) \in Seq(Commands)
          /\ Len(SubSeq(b, 1, Len(queue))) = Len(queue)
          /\ \A i \in 1..Len(queue) : SubSeq(b, 1, Len(queue))[i] = b[i]
      <4> HIDE DEF b
      <4>1. 1 \in Int /\ Len(queue) \in Int
        BY <1>2
      <4>2. /\ SubSeq(b, 1, Len(queue)) \in Seq(Commands)
            /\ Len(SubSeq(b, 1, Len(queue)))
                 = IF 1 <= Len(queue) THEN Len(queue) - 1 + 1 ELSE 0
            /\ \A i \in 1..(Len(queue) - 1 + 1) :
                 SubSeq(b, 1, Len(queue))[i] = b[1 + i - 1]
        BY <3>1, <4>1, SubSeqProperties
      <4> QED
        BY <1>2, <4>2
    <3>3. \A i \in 1..Len(queue) : SubSeq(b, 1, Len(queue))[i] = queue[i]
      BY <1>2, <3>2
    <3> QED
      BY <3>2, <3>3, SeqEqual
  <2> QED
    BY <2>1, <2>2
<1>5. ASSUME NEW c \in Commands
      PROVE  call[c] = "blocked"
               <=> \E i \in (Len(queue) + 1)..Len(b) : b[i] = c
  <2>1. call[c] = "blocked" <=> \E j \in 1..Len(senders) : senders[j] = c
    <3>1. Range(senders) = {d \in Commands : call[d] = "blocked"}
      BY DEF EachCommandInOnePlace
    <3>2. c \in Range(senders) <=> \E j \in 1..Len(senders) : senders[j] = c
      BY <1>2 DEF Range
    <3> QED
      BY <3>1, <3>2
  <2>2. ASSUME NEW j \in 1..Len(senders)
        PROVE  /\ j + Len(queue) \in (Len(queue) + 1)..Len(b)
               /\ b[j + Len(queue)] = senders[j]
    BY <1>2
  <2>3. ASSUME NEW i \in (Len(queue) + 1)..Len(b)
        PROVE  i - Len(queue) \in 1..Len(senders) /\ b[i] = senders[i - Len(queue)]
    BY <1>2
  <2> HIDE DEF b, PlacementInv, TypeOK
  <2>4. ASSUME NEW j \in 1..Len(senders), senders[j] = c
        PROVE  \E i \in (Len(queue) + 1)..Len(b) : b[i] = c
    BY <2>2, <2>4
  <2>5. ASSUME NEW i \in (Len(queue) + 1)..Len(b), b[i] = c
        PROVE  \E j \in 1..Len(senders) : senders[j] = c
    BY <2>3, <2>5
  <2> QED
    BY <2>1, <2>4, <2>5
<1>6. intakeStatus' = [c \in Commands |->
        IF \E i \in (Len(queue) + 1)..Len(b) : b[i] = c
        THEN "refused" ELSE intakeStatus[c]]
  <2>1. ASSUME NEW c \in Commands
        PROVE  intakeStatus'[c] = IF call[c] = "blocked" THEN "refused"
                                                         ELSE intakeStatus[c]
    <3>1. call[c] = "blocked" => step[c] = "idle"
      BY DEF EachCommandInOnePlace, Accepted
    <3> QED
      BY <1>1, <3>1 DEF intakeStatus, Busy, Handled
  <2>2. intakeStatus' = [c \in Commands |-> intakeStatus'[c]]
    BY DEF intakeStatus
  <2> QED
    BY <1>5, <2>1, <2>2
<1> HIDE DEF PlacementInv, TypeOK
<1> QED
  BY <1>1, <1>3, <1>4, <1>6 DEF Intake!Shut

LEMMA IntakeHandling ==
  ASSUME PlacementInv, PlacementInv', Queued, NEW c \in Commands, Handling(c)
  PROVE  Intake!Finish(c) \/ UNCHANGED Intake!vars
<1> USE DEF PlacementInv, TypeOK
<1>1. /\ up /\ step[c] \in Busy
      /\ UNCHANGED <<up, closed, queue, senders, call>>
      /\ \A d \in Commands \ {c} : step'[d] = step[d]
      /\ step'[c] \in Busy \cup Handled
  BY DEF Handling, SaveCorrelation, Publish, PublishUnconnected, PublishReturns,
         Acknowledged, Unacknowledged, Return, intakeVars, Busy, Handled
<1>2. intakeStatus[c] = "begun"
  BY <1>1 DEF intakeStatus
<1>3. \A d \in Commands \ {c} : intakeStatus'[d] = intakeStatus[d]
  BY <1>1 DEF intakeStatus
<1>4. CASE step'[c] \in Busy
  <2>1. intakeStatus'[c] = "begun"
    BY <1>4 DEF intakeStatus
  <2>2. intakeStatus' = intakeStatus
    BY <1>2, <1>3, <2>1 DEF intakeStatus
  <2> QED
    BY <1>1, <2>2 DEF Intake!vars
<1>5. CASE step'[c] \in Handled
  <2>1. intakeStatus'[c] = "done"
    BY <1>5 DEF intakeStatus, Busy, Handled
  <2>2. intakeStatus' = [intakeStatus EXCEPT ![c] = "done"]
    BY <1>3, <2>1, StatusStep
  <2> QED
    BY <1>1, <1>2, <2>2 DEF Intake!Finish
<1> QED
  BY <1>1, <1>4, <1>5

LEMMA IntakeStep ==
  ASSUME PlacementInv, PlacementInv', Queued, [Next]_vars
  PROVE  [Intake!Next]_(Intake!vars)
<1>1. ASSUME NEW c \in Commands, Offered(c) PROVE Intake!Next
  BY <1>1, IntakeOffered DEF Intake!Next
<1>2. ASSUME NEW c \in Commands, Handling(c)
      PROVE  [Intake!Next]_(Intake!vars)
  BY <1>2, IntakeHandling DEF Intake!Next
<1>3. ASSUME NEW w \in Workers, Take(w) PROVE Intake!Next
  BY <1>3, IntakeTake DEF Intake!Next
<1>4. CASE CloseQueue
  BY <1>4, IntakeClose DEF Intake!Next
<1>5. CASE Exit
  <2>1. Intake!Stop
    BY <1>5 DEF Exit, Intake!Stop, intakeVars, handlerVars, intakeStatus
  <2> QED
    BY <2>1 DEF Intake!Next
<1>6. CASE UNCHANGED <<intakeVars, step, up>>
  BY <1>6 DEF Intake!vars, intakeVars, intakeStatus
<1>7. LinkLost \/ Reconnect \/ Cancel \/ DisconnectMqtt \/ UNCHANGED vars
        => UNCHANGED <<intakeVars, step, up>>
  BY DEF LinkLost, Reconnect, Cancel, DisconnectMqtt, vars, handlerVars
<1> QED
  BY <1>1, <1>2, <1>3, <1>4, <1>5, <1>6, <1>7 DEF Next, Ended

(* The queued handler implements the intake, but for the progress the      *)
(* intake promises: begun in the order of the calls, no more at a time     *)
(* than there are workers, nothing begun that was refused.                 *)
THEOREM IntakeImplemented ==
  ASSUME Queued
  PROVE  Spec => Intake!Spec
<1>1. PlacementInv /\ PlacementInv' /\ [Next]_vars => [Intake!Next]_(Intake!vars)
  BY IntakeStep
<1>2. Init => Intake!Init
  BY IntakeInit
<1> QED
  BY <1>1, <1>2, PlacementInit, PlacementStep, PTL DEF Spec, Intake!Spec
=============================================================================
