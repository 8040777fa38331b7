------------------------ MODULE HealthHandler_proofs ------------------------
(***************************************************************************)
(* Theorems about HealthHandler, for any number of concurrent reports,     *)
(* users and client ids, any cache size and any duration.                  *)
(***************************************************************************)
EXTENDS HealthHandler, FiniteSetTheorems, TLAPS

(* How far a request has come decides what is known of it. *)
BeforeLookUp == {"idle", "token", "now"}
BeforeReply == BeforeLookUp \cup {"has", "ask"}
BeforeAdd == BeforeReply \cup {"replied", "now_add"}

RequestInv ==
  \A r \in Requests :
    /\ pc[r] \in BeforeLookUp => seenAt[r] = Never
    /\ pc[r] \in BeforeReply => reply[r] = "none"
    /\ pc[r] \in BeforeAdd => addedAt[r] = Never
    /\ pc[r] \in {"now_add", "add"} => Confirmed(r)
    /\ pc[r] = "add" => addedAt[r] # Never
    /\ pc[r] # "done" => result[r] = "none"

HealthInv ==
  /\ TypeOK
  /\ RequestInv
  /\ CacheBounded
  /\ EntriesWereConfirmed
  /\ ForwardedOnlyIfConfirmed
  /\ DeniedOnlyByAnswer

(* No step takes back what another request relies on: a confirmation, its  *)
(* clock reading, or whose it is.                                          *)
Lasting ==
  /\ UNCHANGED <<user, hub>>
  /\ \A q \in Requests :
       /\ Confirmed(q) => Confirmed(q)'
       /\ addedAt[q] # Never => addedAt'[q] = addedAt[q]

-----------------------------------------------------------------------------
LEMMA HealthInit == Init => HealthInv
<1> SUFFICES ASSUME Init PROVE HealthInv
  OBVIOUS
<1>1. DOMAIN expiry = {}
  BY DEF Init, NoEntries
<1>2. IsFiniteSet({}) /\ Cardinality({}) = 0
  BY FS_EmptySet
<1>3. TypeOK
  BY <1>1, HealthAssumption
  DEF Init, TypeOK, Never, Replies, Steps, Results
<1>4. CacheBounded
  BY <1>1, <1>2, HealthAssumption DEF CacheBounded
<1>5. RequestInv
  BY DEF Init, RequestInv, BeforeAdd, BeforeReply, BeforeLookUp
<1> QED
  BY <1>1, <1>3, <1>4, <1>5
  DEF HealthInv, EntriesWereConfirmed, ForwardedOnlyIfConfirmed,
      DeniedOnlyByAnswer, Init

(* The cache after an addition, with its keys and their expiries. *)
LEMMA AddFacts ==
  ASSUME HealthInv, NEW k \in Keys, NEW now \in Nat, AddEntry(k, now)
  PROVE  /\ CacheBounded'
         /\ DOMAIN expiry' \subseteq Keys
         /\ nextPrune' \in Nat
         /\ \A e \in DOMAIN expiry' :
              \/ e = k /\ expiry'[e] = now + Duration
              \/ e \in DOMAIN expiry /\ expiry'[e] = expiry[e]
<1> USE DEF HealthInv
<1> DEFINE P == Pruned(now)
<1>1. CASE Duration > 0
  <2>1. /\ expiry' = [e \in Kept(k, now) \cup {k} |->
                        IF e = k THEN now + Duration ELSE expiry[e]]
        /\ nextPrune' = IF now >= nextPrune THEN now + Duration ELSE nextPrune
    BY <1>1 DEF AddEntry
  <2>2. DOMAIN expiry' = Kept(k, now) \cup {k}
    BY <2>1
  <2>3. P \subseteq DOMAIN expiry /\ Kept(k, now) \in {{}, P}
    BY DEF Pruned, Kept
  <2>4. /\ IsFiniteSet(P)
        /\ Cardinality(P) \in Nat
        /\ Cardinality(P) <= MaxEntries
    <3>1. /\ IsFiniteSet(DOMAIN expiry) /\ IsFiniteSet(P)
          /\ Cardinality(P) <= Cardinality(DOMAIN expiry)
          /\ Cardinality(DOMAIN expiry) <= MaxEntries
      BY <2>3, FS_Subset DEF CacheBounded
    <3>2. Cardinality(P) \in Nat /\ Cardinality(DOMAIN expiry) \in Nat
      BY <3>1, FS_CardinalityType
    <3> QED
      BY <3>1, <3>2, HealthAssumption
  <2>5. /\ IsFiniteSet(Kept(k, now) \cup {k})
        /\ Cardinality(Kept(k, now) \cup {k}) <= MaxEntries
    <3>1. CASE k \in P
      <4>1. Kept(k, now) \cup {k} = P
        BY <3>1 DEF Kept
      <4> QED
        BY <2>4, <4>1
    <3>2. CASE k \notin P /\ Cardinality(P) < MaxEntries
      <4>1. Kept(k, now) = P
        BY <2>4, <3>2, HealthAssumption DEF Kept
      <4>2. /\ IsFiniteSet(P \cup {k})
            /\ Cardinality(P \cup {k}) = Cardinality(P) + 1
        BY <2>4, <3>2, FS_AddElement
      <4> HIDE DEF P
      <4> QED
        BY <2>4, <3>2, <4>1, <4>2, HealthAssumption
    <3>3. CASE k \notin P /\ Cardinality(P) >= MaxEntries
      <4>1. Kept(k, now) \cup {k} = {k}
        BY <3>3 DEF Kept
      <4>2. IsFiniteSet({k}) /\ Cardinality({k}) = 1
        BY FS_Singleton
      <4>3. 1 <= MaxEntries
        BY HealthAssumption
      <4> QED
        BY <4>1, <4>2, <4>3
    <3> QED
      BY <2>4, <3>1, <3>2, <3>3, HealthAssumption
  <2>6. DOMAIN expiry' \subseteq Keys
    BY <2>2, <2>3 DEF TypeOK
  <2>7. \A e \in DOMAIN expiry' :
          \/ e = k /\ expiry'[e] = now + Duration
          \/ e \in DOMAIN expiry /\ expiry'[e] = expiry[e]
    BY <2>1, <2>2, <2>3
  <2>8. nextPrune' \in Nat
    BY <2>1, HealthAssumption DEF TypeOK
  <2> QED
    BY <2>2, <2>5, <2>6, <2>7, <2>8 DEF CacheBounded
<1>2. CASE ~(Duration > 0)
  BY <1>2 DEF AddEntry, cacheVars, CacheBounded, TypeOK
<1> QED
  BY <1>1, <1>2

-----------------------------------------------------------------------------
(* Types and what is known of single requests. *)

LEMMA ReturnFacts ==
  ASSUME TypeOK, NEW r \in Requests, NEW answer \in Results, Return(r, answer)
  PROVE  /\ pc' \in [Requests -> Steps]
         /\ result' \in [Requests -> Results \cup {"none"}]
         /\ pc'[r] = "done" /\ result'[r] = answer
         /\ \A q \in Requests \ {r} : pc'[q] = pc[q] /\ result'[q] = result[q]
BY DEF TypeOK, Return, Steps

LEMMA GotoFacts ==
  ASSUME TypeOK, NEW r \in Requests, NEW next \in Steps, Goto(r, next)
  PROVE  /\ pc' \in [Requests -> Steps]
         /\ result' = result
         /\ pc'[r] = next
         /\ \A q \in Requests \ {r} : pc'[q] = pc[q]
BY DEF TypeOK, Goto

LEMMA HealthTypeStep == HealthInv /\ [Next]_vars => TypeOK'
<1> SUFFICES ASSUME HealthInv, [Next]_vars PROVE TypeOK'
  OBVIOUS
<1>0. TypeOK /\ HealthInv
  BY DEF HealthInv
<1>1. CASE Tick
  <2>1. clock' \in 1..MaxClock
    BY <1>0, <1>1, HealthAssumption DEF Tick, TypeOK
  <2> QED
    BY <1>0, <1>1, <2>1 DEF Tick, TypeOK, cacheVars, reportVars
<1>2. ASSUME NEW r \in Requests, Receive(r) PROVE TypeOK'
  <2>1. \/ Goto(r, "token") \/ Return(r, "rejected")
    BY <1>2 DEF Receive
  <2>2. pc' \in [Requests -> Steps] /\ result' \in [Requests -> Results \cup {"none"}]
    BY <1>0, <2>1, ReturnFacts, GotoFacts DEF Steps, Results, TypeOK
  <2> QED
    BY <1>0, <1>2, <2>2 DEF Receive, TypeOK, cacheVars, reportVars
<1>3. ASSUME NEW r \in Requests, Handle(r) PROVE TypeOK'
  <2>1. \/ \E answer \in Results : Return(r, answer)
        \/ \E next \in Steps : Goto(r, next)
    BY <1>3 DEF Handle, GetToken, ReadClock, LookUp, ExistsHub, UseReply,
                ReadClockAgain, Add, Encode, Produce, Steps, Results
  <2>2. pc' \in [Requests -> Steps] /\ result' \in [Requests -> Results \cup {"none"}]
    BY <1>0, <2>1, ReturnFacts, GotoFacts DEF TypeOK
  <2>3. CASE Add(r)
    <3>1. AddEntry(Key(r), addedAt[r]) /\ Key(r) \in Keys /\ addedAt[r] \in Nat
      BY <1>0, <2>3 DEF Add, TypeOK, Key, Keys
    <3>2. /\ DOMAIN expiry' \subseteq Keys
          /\ nextPrune' \in Nat
          /\ \A e \in DOMAIN expiry' :
               \/ e = Key(r) /\ expiry'[e] = addedAt[r] + Duration
               \/ e \in DOMAIN expiry /\ expiry'[e] = expiry[e]
      BY <1>0, <3>1, AddFacts
    <3>3. \A e \in DOMAIN expiry' : expiry'[e] \in Nat
      BY <1>0, <3>1, <3>2, HealthAssumption DEF TypeOK
    <3> QED
      BY <1>0, <2>2, <2>3, <3>2, <3>3 DEF Add, TypeOK, reportVars
  <2>4. CASE ~Add(r)
    <3>1. /\ UNCHANGED <<clock, expiry, nextPrune, user, hub>>
          /\ seenAt' \in [Requests -> 0..MaxClock]
          /\ addedAt' \in [Requests -> 0..MaxClock]
          /\ stamp' \in [Requests -> 0..MaxClock]
      BY <1>0, <1>3, <2>4
      DEF Handle, GetToken, ReadClock, LookUp, ExistsHub, UseReply,
          ReadClockAgain, Encode, Produce, TypeOK, cacheVars, reportVars
    <3>2. reply' \in [Requests -> Replies \cup {"none"}]
      BY <1>0, <1>3, <2>4
      DEF Handle, GetToken, ReadClock, LookUp, ExistsHub, UseReply,
          ReadClockAgain, Encode, Produce, TypeOK
    <3> QED
      BY <1>0, <2>2, <3>1, <3>2 DEF TypeOK
  <2> QED
    BY <2>3, <2>4
<1>4. CASE UNCHANGED vars
  BY <1>0, <1>4 DEF vars, TypeOK, cacheVars, reportVars
<1> QED
  BY <1>1, <1>2, <1>3, <1>4 DEF Next

LEMMA RequestStep == HealthInv /\ [Next]_vars => RequestInv' /\ Lasting
<1> SUFFICES ASSUME HealthInv, [Next]_vars PROVE RequestInv' /\ Lasting
  OBVIOUS
<1> USE DEF HealthInv
<1>0. \A t \in Nat \ {0} : t # Never
  BY DEF Never
<1>1. CASE UNCHANGED <<pc, user, hub, seenAt, addedAt, reply, result>>
  BY <1>1 DEF RequestInv, Lasting, Confirmed
<1>2. CASE Tick \/ UNCHANGED vars
  BY <1>1, <1>2 DEF Tick, vars, reportVars
<1>3. ASSUME NEW r \in Requests,
             UNCHANGED <<user, hub, seenAt, addedAt, reply>>,
             \E answer \in Results : Return(r, answer)
      PROVE  RequestInv' /\ Lasting
  BY <1>3, ReturnFacts
  DEF RequestInv, Lasting, Confirmed, BeforeAdd, BeforeReply, BeforeLookUp
<1>4. ASSUME NEW r \in Requests, Receive(r) PROVE RequestInv' /\ Lasting
  <2>1. CASE Return(r, "rejected")
    BY <1>3, <1>4, <2>1 DEF Receive, Results, reportVars
  <2>2. CASE Goto(r, "token")
    BY <1>4, <2>2, GotoFacts
    DEF Receive, reportVars, Steps, RequestInv, Lasting, Confirmed, BeforeAdd, BeforeReply,
        BeforeLookUp
  <2> QED
    BY <1>4, <2>1, <2>2 DEF Receive
<1>5. ASSUME NEW r \in Requests, NEW next \in Steps, Goto(r, next),
             UNCHANGED <<user, hub, seenAt, addedAt, reply>>,
             \/ next = "now" /\ pc[r] = "token"
             \/ next \in {"forward", "ask"} /\ pc[r] = "has"
             \/ next = "now_add" /\ pc[r] = "replied" /\ Confirmed(r)
             \/ next \in {"forward", "produce"} /\ pc[r] \in {"add", "forward"}
      PROVE  RequestInv' /\ Lasting
  BY <1>5, GotoFacts
  DEF RequestInv, Lasting, Confirmed, BeforeAdd, BeforeReply, BeforeLookUp
<1>6. ASSUME NEW r \in Requests, ReadClock(r) PROVE RequestInv' /\ Lasting
  <2>1. /\ pc[r] = "now" /\ Goto(r, "has")
        /\ UNCHANGED <<user, hub, addedAt, reply>>
        /\ \A q \in Requests \ {r} : seenAt'[q] = seenAt[q]
    BY <1>6 DEF ReadClock, reportVars, TypeOK
  <2> QED
    BY <2>1, GotoFacts
    DEF Steps, RequestInv, Lasting, Confirmed, BeforeAdd, BeforeReply,
        BeforeLookUp
<1>7. ASSUME NEW r \in Requests, ExistsHub(r) PROVE RequestInv' /\ Lasting
  <2>1. /\ pc[r] = "ask" /\ Goto(r, "replied")
        /\ UNCHANGED <<user, hub, seenAt, addedAt>>
        /\ \A q \in Requests \ {r} : reply'[q] = reply[q]
    BY <1>7 DEF ExistsHub, reportVars, TypeOK
  <2>2. reply[r] = "none"
    BY <2>1 DEF RequestInv, BeforeReply
  <2> QED
    BY <2>1, <2>2, GotoFacts
    DEF Steps, RequestInv, Lasting, Confirmed, BeforeAdd, BeforeReply,
        BeforeLookUp
<1>8. ASSUME NEW r \in Requests, ReadClockAgain(r)
      PROVE  RequestInv' /\ Lasting
  <2>1. /\ pc[r] = "now_add" /\ Goto(r, "add")
        /\ UNCHANGED <<user, hub, seenAt, reply>>
        /\ addedAt'[r] = clock
        /\ \A q \in Requests \ {r} : addedAt'[q] = addedAt[q]
    BY <1>8 DEF ReadClockAgain, reportVars, TypeOK
  <2>2. addedAt'[r] # Never /\ addedAt[r] = Never /\ Confirmed(r)
    BY <2>1 DEF RequestInv, BeforeAdd, TypeOK, Never
  <2> QED
    BY <2>1, <2>2, GotoFacts
    DEF Steps, RequestInv, Lasting, Confirmed, BeforeAdd, BeforeReply,
        BeforeLookUp
<1>9. ASSUME NEW r \in Requests,
             GetToken(r) \/ LookUp(r) \/ UseReply(r) \/ Add(r) \/ Encode(r)
               \/ Produce(r)
      PROVE  RequestInv' /\ Lasting
  <2>1. UNCHANGED <<user, hub, seenAt, addedAt, reply>>
    BY <1>9 DEF GetToken, LookUp, UseReply, Add, Encode, Produce, reportVars
  <2>2. CASE GetToken(r) \/ UseReply(r) \/ Encode(r) \/ Produce(r)
    BY <1>3, <1>5, <2>1, <2>2
    DEF GetToken, UseReply, Encode, Produce, Results, Steps, Confirmed
  <2>3. CASE LookUp(r) \/ Add(r)
    BY <1>5, <2>1, <2>3 DEF LookUp, Add, Steps
  <2> QED
    BY <1>9, <2>2, <2>3
<1> QED
  BY <1>2, <1>4, <1>6, <1>7, <1>8, <1>9 DEF Next, Handle

-----------------------------------------------------------------------------
(* The cache and the reports. *)

LEMMA CacheStep ==
  HealthInv /\ [Next]_vars => CacheBounded' /\ EntriesWereConfirmed'
<1> SUFFICES ASSUME HealthInv, [Next]_vars
             PROVE  CacheBounded' /\ EntriesWereConfirmed'
  OBVIOUS
<1> USE DEF HealthInv
<1>1. RequestInv' /\ Lasting /\ TypeOK'
  BY RequestStep, HealthTypeStep
<1>2. ASSUME NEW k \in DOMAIN expiry
      PROVE  \E q \in Requests :
               /\ Key(q)' = k
               /\ Confirmed(q)'
               /\ addedAt'[q] # Never
               /\ expiry[k] = addedAt'[q] + Duration
  <2>1. PICK q \in Requests : /\ Key(q) = k
                              /\ Confirmed(q)
                              /\ addedAt[q] # Never
                              /\ expiry[k] = addedAt[q] + Duration
    BY <1>2 DEF EntriesWereConfirmed
  <2> QED
    BY <1>1, <2>1 DEF Lasting, Key
<1>3. CASE UNCHANGED expiry
  BY <1>2, <1>3 DEF CacheBounded, EntriesWereConfirmed
<1>4. ASSUME NEW r \in Requests, Add(r)
      PROVE  CacheBounded' /\ EntriesWereConfirmed'
  <2>1. /\ AddEntry(Key(r), addedAt[r])
        /\ pc[r] = "add"
        /\ Key(r) \in Keys
        /\ addedAt[r] \in Nat
        /\ addedAt' = addedAt
    BY <1>4 DEF Add, TypeOK, Key, Keys
  <2>2. /\ CacheBounded'
        /\ \A e \in DOMAIN expiry' :
             \/ e = Key(r) /\ expiry'[e] = addedAt[r] + Duration
             \/ e \in DOMAIN expiry /\ expiry'[e] = expiry[e]
    BY <2>1, AddFacts
  <2>3. /\ Key(r)' = Key(r)
        /\ Confirmed(r)'
        /\ addedAt'[r] # Never
    BY <1>1, <2>1 DEF RequestInv, Lasting, Key
  <2>4. ASSUME NEW e \in DOMAIN expiry'
        PROVE  \E q \in Requests :
                 /\ Key(q)' = e
                 /\ Confirmed(q)'
                 /\ addedAt'[q] # Never
                 /\ expiry'[e] = addedAt'[q] + Duration
    <3>1. CASE e = Key(r) /\ expiry'[e] = addedAt[r] + Duration
      BY <2>1, <2>3, <3>1
    <3>2. CASE e \in DOMAIN expiry /\ expiry'[e] = expiry[e]
      BY <1>2, <3>2
    <3> QED
      BY <2>2, <2>4, <3>1, <3>2
  <2> QED
    BY <2>2, <2>4 DEF EntriesWereConfirmed
<1> QED
  BY <1>3, <1>4
  DEF Next, Handle, Tick, Receive, GetToken, ReadClock, LookUp, ExistsHub,
      UseReply, ReadClockAgain, Encode, Produce, vars, cacheVars

(* What lets a report through. *)
Backed(r) ==
  \/ Confirmed(r)
  \/ \E q \in Requests \ {r} :
       /\ Key(q) = Key(r)
       /\ Confirmed(q)
       /\ addedAt[q] # Never
       /\ seenAt[r] < addedAt[q] + Duration

LEMMA ForwardStep ==
  HealthInv /\ [Next]_vars => ForwardedOnlyIfConfirmed'
<1> SUFFICES ASSUME HealthInv, [Next]_vars,
                    NEW r \in Requests,
                    (pc[r] \in {"forward", "produce"} \/ result[r] = "accepted")'
             PROVE  Backed(r)'
  BY DEF ForwardedOnlyIfConfirmed, Backed
<1> USE DEF HealthInv
<1>1. Lasting /\ RequestInv
  BY RequestStep
<1>2. ASSUME Backed(r), seenAt'[r] = seenAt[r]
      PROVE  Backed(r)'
  BY <1>1, <1>2 DEF Backed, Lasting, Key
<1>3. CASE pc'[r] = pc[r] /\ result'[r] = result[r]
  <2>1. pc[r] \in {"forward", "produce"} \/ result[r] = "accepted"
    BY <1>3
  <2>2. Backed(r)
    BY <2>1 DEF ForwardedOnlyIfConfirmed, Backed
  <2>3. pc[r] # "now"
    BY <1>1, <2>1 DEF RequestInv
  <2>4. seenAt'[r] = seenAt[r]
    BY <2>3
    DEF Next, Handle, Tick, Receive, GetToken, ReadClock, LookUp, ExistsHub,
        UseReply, ReadClockAgain, Add, Encode, Produce, vars, TypeOK
  <2> QED
    BY <1>2, <2>2, <2>4
<1>4. CASE Encode(r) \/ Produce(r)
  <2>1. pc[r] \in {"forward", "produce"} /\ seenAt' = seenAt
    BY <1>4 DEF Encode, Produce
  <2> QED
    BY <1>2, <2>1 DEF ForwardedOnlyIfConfirmed, Backed
<1>5. CASE Add(r)
  <2>1. Confirmed(r) /\ seenAt' = seenAt
    BY <1>1, <1>5 DEF Add, RequestInv
  <2> QED
    BY <1>2, <2>1 DEF Backed
<1>6. CASE LookUp(r)
  <2>1. /\ pc[r] = "has" /\ seenAt' = seenAt /\ result' = result
        /\ pc'[r] = IF Has(Key(r), seenAt[r]) THEN "forward" ELSE "ask"
    BY <1>6, GotoFacts DEF LookUp, Steps
  <2>2. result[r] = "none"
    BY <1>1, <2>1 DEF RequestInv
  <2>3. Has(Key(r), seenAt[r])
    BY <2>1, <2>2
  <2>4. PICK q \in Requests : /\ Key(q) = Key(r)
                              /\ Confirmed(q)
                              /\ addedAt[q] # Never
                              /\ expiry[Key(r)] = addedAt[q] + Duration
    BY <2>3 DEF Has, EntriesWereConfirmed
  <2>5. seenAt[r] < addedAt[q] + Duration
    BY <2>3, <2>4 DEF Has
  <2>6. Backed(r)
    BY <2>4, <2>5 DEF Backed
  <2> QED
    BY <1>2, <2>1, <2>6
<1>7. CASE Receive(r) \/ GetToken(r) \/ ReadClock(r) \/ ExistsHub(r)
           \/ UseReply(r) \/ ReadClockAgain(r)
  <2>1. /\ pc[r] # "done"
        /\ \/ \E next \in Steps \ {"forward", "produce"} : Goto(r, next)
           \/ \E answer \in Results \ {"accepted"} : Return(r, answer)
    BY <1>7 DEF Receive, GetToken, ReadClock, ExistsHub, UseReply,
                ReadClockAgain, Steps, Results
  <2>2. result[r] = "none"
    BY <1>1, <2>1 DEF RequestInv
  <2> QED
    BY <2>1, <2>2, GotoFacts, ReturnFacts
<1>8. ASSUME NEW q \in Requests \ {r}, Receive(q) \/ Handle(q)
      PROVE  pc'[r] = pc[r] /\ result'[r] = result[r]
  <2>1. \/ \E next \in Steps : Goto(q, next)
        \/ \E answer \in Results : Return(q, answer)
    BY <1>8 DEF Receive, Handle, GetToken, ReadClock, LookUp, ExistsHub,
                UseReply, ReadClockAgain, Add, Encode, Produce, Steps, Results
  <2> QED
    BY <2>1, GotoFacts, ReturnFacts
<1>9. CASE Tick \/ UNCHANGED vars
  BY <1>3, <1>9 DEF Tick, vars
<1> QED
  BY <1>3, <1>4, <1>5, <1>6, <1>7, <1>8, <1>9 DEF Next, Handle

LEMMA DenialStep == HealthInv /\ [Next]_vars => DeniedOnlyByAnswer'
<1> SUFFICES ASSUME HealthInv, [Next]_vars,
                    NEW r \in Requests,
                    result'[r] = "rejected", seenAt'[r] # Never
             PROVE  reply'[r] = "no"
  BY DEF DeniedOnlyByAnswer
<1> USE DEF HealthInv
<1>1. RequestInv /\ RequestInv'
  BY RequestStep
<1>2. CASE UseReply(r)
  <2>1. /\ pc[r] = "replied" /\ reply' = reply
        /\ reply[r] = "no" \/ Return(r, "error") \/ Goto(r, "now_add")
    BY <1>2 DEF UseReply
  <2>2. result[r] = "none"
    BY <1>1, <2>1 DEF RequestInv
  <2> QED
    BY <2>1, <2>2, GotoFacts, ReturnFacts DEF Steps, Results
<1>3. CASE Receive(r) \/ GetToken(r)
  <2>1. pc[r] \in BeforeLookUp /\ seenAt' = seenAt
    BY <1>3 DEF Receive, GetToken, BeforeLookUp
  <2> QED
    BY <1>1, <2>1 DEF RequestInv
<1>4. CASE Encode(r) \/ Produce(r) \/ ReadClock(r) \/ LookUp(r) \/ ExistsHub(r)
           \/ ReadClockAgain(r) \/ Add(r)
  <2>1. /\ pc[r] # "done"
        /\ \/ \E next \in Steps : Goto(r, next)
           \/ \E answer \in Results \ {"rejected"} : Return(r, answer)
    BY <1>4 DEF Encode, Produce, ReadClock, LookUp, ExistsHub, ReadClockAgain,
                Add, Steps, Results
  <2>2. result[r] = "none"
    BY <1>1, <2>1 DEF RequestInv
  <2> QED
    BY <2>1, <2>2, GotoFacts, ReturnFacts
<1>5. CASE result'[r] = result[r] /\ seenAt'[r] = seenAt[r] /\ reply'[r] = reply[r]
  BY <1>5 DEF DeniedOnlyByAnswer
<1>6. ASSUME NEW q \in Requests \ {r}, Receive(q) \/ Handle(q)
      PROVE  /\ result'[r] = result[r]
             /\ seenAt'[r] = seenAt[r]
             /\ reply'[r] = reply[r]
  <2>1. \/ \E next \in Steps : Goto(q, next)
        \/ \E answer \in Results : Return(q, answer)
    BY <1>6 DEF Receive, Handle, GetToken, ReadClock, LookUp, ExistsHub,
                UseReply, ReadClockAgain, Add, Encode, Produce, Steps, Results
  <2>2. result'[r] = result[r]
    BY <2>1, GotoFacts, ReturnFacts
  <2>3. seenAt'[r] = seenAt[r] /\ reply'[r] = reply[r]
    BY <1>6 DEF Receive, Handle, GetToken, ReadClock, LookUp, ExistsHub,
                UseReply, ReadClockAgain, Add, Encode, Produce, TypeOK
  <2> QED
    BY <2>2, <2>3
<1> QED
  BY <1>2, <1>3, <1>4, <1>5, <1>6 DEF Next, Handle, Tick, vars

(* The types, the cache's bound and the reports' guarantees are inductive  *)
(* together with what is known of each request.                            *)
THEOREM HealthInvariant == Spec => []HealthInv
<1>1. HealthInv /\ [Next]_vars => HealthInv'
  BY HealthTypeStep, RequestStep, CacheStep, ForwardStep, DenialStep
  DEF HealthInv
<1> QED
  BY <1>1, HealthInit, PTL DEF Spec

(* The cache never outgrows its bound. *)
THEOREM CacheIsBounded == Spec => []CacheBounded
<1>1. HealthInv => CacheBounded
  BY DEF HealthInv
<1> QED
  BY <1>1, HealthInvariant, PTL

(* What the cache holds goes back to a plain yes, not older than Duration  *)
(* when it was entered (handler.go:187-196).                               *)
THEOREM OnlyConfirmedCached == Spec => []EntriesWereConfirmed
<1>1. HealthInv => EntriesWereConfirmed
  BY DEF HealthInv
<1> QED
  BY <1>1, HealthInvariant, PTL

(* Only a confirmed user and client id gets a report through, by its own   *)
(* check or one not older than Duration (handler.go:155-174).              *)
THEOREM OnlyConfirmedForwarded == Spec => []ForwardedOnlyIfConfirmed
<1>1. HealthInv => ForwardedOnlyIfConfirmed
  BY DEF HealthInv
<1> QED
  BY <1>1, HealthInvariant, PTL

(* A denial is never taken from the cache. *)
THEOREM DenialsAreNotCached == Spec => []DeniedOnlyByAnswer
<1>1. HealthInv => DeniedOnlyByAnswer
  BY DEF HealthInv
<1> QED
  BY <1>1, HealthInvariant, PTL

(* An addition drops a key only for one of two reasons (cache.go:63-74).   *)
LEMMA EvictionStep ==
  ASSUME TypeOK, CacheBounded, NEW r \in Requests, Add(r),
         NEW k \in DOMAIN expiry \ DOMAIN expiry'
  PROVE  \/ expiry[k] <= addedAt[r]
         \/ /\ Cardinality(DOMAIN expiry) >= MaxEntries
            /\ Key(r) \notin DOMAIN expiry
<1> DEFINE now == addedAt[r]
           left == Pruned(now)
<1>1. now \in Nat /\ nextPrune \in Nat /\ expiry[k] \in Nat /\ MaxEntries \in Nat
  BY HealthAssumption DEF TypeOK
<1>2. k \notin Kept(Key(r), now)
  BY DEF Add, AddEntry, cacheVars
<1>3. CASE k \notin left
  BY <1>1, <1>3 DEF Pruned
<1>4. CASE k \in left
  <2>1. Key(r) \notin left /\ Cardinality(left) >= MaxEntries
    BY <1>2, <1>4 DEF Kept
  <2>2. left \subseteq DOMAIN expiry
    BY DEF Pruned
  <2>3. /\ IsFiniteSet(left)
        /\ Cardinality(left) <= Cardinality(DOMAIN expiry)
        /\ Cardinality(left) = Cardinality(DOMAIN expiry) => left = DOMAIN expiry
    BY <2>2, FS_Subset DEF CacheBounded
  <2>4. Cardinality(left) \in Nat /\ Cardinality(DOMAIN expiry) \in Nat
    BY <2>3, FS_CardinalityType DEF CacheBounded
  <2>5. Cardinality(left) = Cardinality(DOMAIN expiry)
    BY <1>1, <2>1, <2>3, <2>4 DEF CacheBounded
  <2> HIDE DEF left
  <2> QED
    BY <1>1, <2>1, <2>3, <2>4, <2>5
<1> QED
  BY <1>3, <1>4

(* A valid entry makes room only for a new key in a full cache.  That the  *)
(* key is looked for after the pruning does not matter: a key that was     *)
(* pruned itself leaves room for its renewal, as the cache was within its  *)
(* bound (cache.go:63-74).                                                 *)
THEOREM EvictionMakesRoom == Spec => EvictsOnlyForNewKey
<1>1. HealthInv /\ [Next]_vars =>
        [\A r \in Requests, k \in DOMAIN expiry \ DOMAIN expiry' :
           Add(r) => \/ expiry[k] <= addedAt[r]
                     \/ /\ Cardinality(DOMAIN expiry) >= MaxEntries
                        /\ Key(r) \notin DOMAIN expiry]_vars
  BY EvictionStep DEF HealthInv
<1> QED
  BY <1>1, HealthInvariant, PTL DEF Spec, EvictsOnlyForNewKey
=============================================================================
