---------------------------- MODULE HealthHandler ----------------------------
(***************************************************************************)
(* The health report handler and its cache of hub checks:                  *)
(* lib/handler/health/handler.go and cache.go.                             *)
(*                                                                         *)
(* The webhook server runs one handler per publish, so reports are handled *)
(* concurrently.  The cache is locked for a look-up or an addition, but    *)
(* the clock is read before the lock is taken, and between the look-up,    *)
(* the hub check and the addition everything else may happen.  The user    *)
(* management, the device repository and Kafka answer as they like.        *)
(*                                                                         *)
(* An operator marked as a fault is no part of the specification: it is    *)
(* the mistaken form of the definition that follows it, with which a run   *)
(* shows that its property would notice the mistake.                       *)
(***************************************************************************)
EXTENDS Integers, FiniteSets

CONSTANTS
  Requests,    \* publishes on the health topic
  Users,
  Hubs,        \* the client ids
  BadHubs,     \* client ids that are empty or a dot segment
  Duration,    \* config.HubCheckCacheDuration, in clock ticks; 0 disables
  MaxEntries,  \* maxHubCheckCacheEntries
  MaxClock     \* bound: the last clock tick

ASSUME HealthAssumption ==
  /\ BadHubs \subseteq Hubs
  /\ Duration \in Nat
  /\ MaxEntries \in Nat \ {0}
  /\ MaxClock \in Nat \ {0}

VARIABLES
  clock,      \* what now() returns
  expiry,     \* hubCheckCache.expiry: keys to the end of their validity
  nextPrune,  \* hubCheckCache.nextPrune
  pc,         \* where the handler of a request stands
  user, hub,  \* the publisher of a request and its client id
  seenAt,     \* the clock reading a request looked the cache up with
  addedAt,    \* the clock reading a request adds its entry with
  reply,      \* what the device repository answered to a request
  stamp,      \* the time in the Kafka message
  result      \* what the handler returned

cacheVars == <<expiry, nextPrune>>
reportVars == <<user, hub>>
vars == <<clock, cacheVars, pc, reportVars, seenAt, addedAt, reply, stamp, result>>

Keys == Users \X Hubs
Never == 0

(* ExistsHub reports exists = true also together with a transport error. *)
Replies == {"yes", "no", "error", "yes_error"}
Steps == {"idle", "token", "now", "has", "ask", "replied", "now_add", "add",
          "forward", "produce", "done"}
Results == {"accepted", "rejected", "error"}

TypeOK ==
  /\ clock \in 1..MaxClock
  /\ DOMAIN expiry \subseteq Keys
  /\ \A k \in DOMAIN expiry : expiry[k] \in Nat
  /\ nextPrune \in Nat
  /\ pc \in [Requests -> Steps]
  /\ user \in [Requests -> Users]
  /\ hub \in [Requests -> Hubs]
  /\ seenAt \in [Requests -> 0..MaxClock]
  /\ addedAt \in [Requests -> 0..MaxClock]
  /\ reply \in [Requests -> Replies \cup {"none"}]
  /\ stamp \in [Requests -> 0..MaxClock]
  /\ result \in [Requests -> Results \cup {"none"}]

NoEntries == [k \in {} |-> Never]
Key(r) == <<user[r], hub[r]>>

Init ==
  /\ clock = 1
  /\ expiry = NoEntries
  /\ nextPrune = Never
  /\ pc = [r \in Requests |-> "idle"]
  /\ user \in [Requests -> Users]
  /\ hub \in [Requests -> Hubs]
  /\ seenAt = [r \in Requests |-> Never]
  /\ addedAt = [r \in Requests |-> Never]
  /\ reply = [r \in Requests |-> "none"]
  /\ stamp = [r \in Requests |-> Never]
  /\ result = [r \in Requests |-> "none"]

-----------------------------------------------------------------------------
(* hubCheckCache. *)

(* Fault: an entry still counts at the moment it expires. *)
HasInclusive(k, now) == Duration > 0 /\ k \in DOMAIN expiry /\ now <= expiry[k]

(* has: a key counts while the caller's clock reading is before its expiry. *)
Has(k, now) == Duration > 0 /\ k \in DOMAIN expiry /\ now < expiry[k]

(* add, first part: once per Duration the expired keys are deleted. *)
Pruned(now) ==
  IF now >= nextPrune THEN {k \in DOMAIN expiry : now < expiry[k]}
                      ELSE DOMAIN expiry

(* Fault: a full cache is not emptied. *)
KeptWhenFull(k, now) == Pruned(now)

(* Fault: renewing a key empties a full cache, too. *)
KeptUnlessFull(k, now) ==
  IF Cardinality(Pruned(now)) >= MaxEntries THEN {} ELSE Pruned(now)

(* add, second part: a new key that finds the cache full empties it. *)
Kept(k, now) ==
  IF k \notin Pruned(now) /\ Cardinality(Pruned(now)) >= MaxEntries
  THEN {} ELSE Pruned(now)

AddEntry(k, now) ==
  IF Duration > 0
  THEN /\ expiry' = [e \in Kept(k, now) \cup {k} |->
                       IF e = k THEN now + Duration ELSE expiry[e]]
       /\ nextPrune' = IF now >= nextPrune THEN now + Duration ELSE nextPrune
  ELSE UNCHANGED cacheVars

-----------------------------------------------------------------------------
(* Handler.Publish and isAccessibleHub. *)

Return(r, answer) ==
  /\ pc' = [pc EXCEPT ![r] = "done"]
  /\ result' = [result EXCEPT ![r] = answer]

Goto(r, next) ==
  /\ pc' = [pc EXCEPT ![r] = next]
  /\ UNCHANGED result

(* A publish on the health topic arrives.  A payload that is too large or  *)
(* not a JSON object is rejected before anything is asked.                 *)
Receive(r) ==
  /\ pc[r] = "idle"
  /\ Goto(r, "token") \/ Return(r, "rejected")
  /\ UNCHANGED <<clock, cacheVars, reportVars, seenAt, addedAt, reply, stamp>>

(* GetCachedUserToken; then a client id that names no single hub is denied *)
(* without a look-up.                                                      *)
GetToken(r) ==
  /\ pc[r] = "token"
  /\ \/ Goto(r, "now") /\ hub[r] \notin BadHubs
     \/ Return(r, "rejected") /\ hub[r] \in BadHubs
     \/ Return(r, "error")
  /\ UNCHANGED <<clock, cacheVars, reportVars, seenAt, addedAt, reply, stamp>>

(* this.now(), the argument of the look-up. *)
ReadClock(r) ==
  /\ pc[r] = "now"
  /\ seenAt' = [seenAt EXCEPT ![r] = clock]
  /\ Goto(r, "has")
  /\ UNCHANGED <<clock, cacheVars, reportVars, addedAt, reply, stamp>>

LookUp(r) ==
  /\ pc[r] = "has"
  /\ Goto(r, IF Has(Key(r), seenAt[r]) THEN "forward" ELSE "ask")
  /\ UNCHANGED <<clock, cacheVars, reportVars, seenAt, addedAt, reply, stamp>>

(* The device repository answers ExistsHub, or fails to. *)
ExistsHub(r) ==
  /\ pc[r] = "ask"
  /\ \E answer \in Replies : reply' = [reply EXCEPT ![r] = answer]
  /\ Goto(r, "replied")
  /\ UNCHANGED <<clock, cacheVars, reportVars, seenAt, addedAt, stamp>>

(* Fault: the answer is looked at before the error. *)
UseReplyBeforeError(r) ==
  /\ pc[r] = "replied"
  /\ \/ reply[r] = "error" /\ Return(r, "error")
     \/ reply[r] = "no" /\ Return(r, "rejected")
     \/ reply[r] \in {"yes", "yes_error"} /\ Goto(r, "now_add")
  /\ UNCHANGED <<clock, cacheVars, reportVars, seenAt, addedAt, reply, stamp>>

(* Fault: a failed look-up denies the report. *)
UseReplyDenyingErrors(r) ==
  /\ pc[r] = "replied"
  /\ \/ reply[r] # "yes" /\ Return(r, "rejected")
     \/ reply[r] = "yes" /\ Goto(r, "now_add")
  /\ UNCHANGED <<clock, cacheVars, reportVars, seenAt, addedAt, reply, stamp>>

(* The error is looked at before the answer. *)
UseReply(r) ==
  /\ pc[r] = "replied"
  /\ \/ reply[r] \in {"error", "yes_error"} /\ Return(r, "error")
     \/ reply[r] = "no" /\ Return(r, "rejected")
     \/ reply[r] = "yes" /\ Goto(r, "now_add")
  /\ UNCHANGED <<clock, cacheVars, reportVars, seenAt, addedAt, reply, stamp>>

(* Fault: the duration is added to the clock twice. *)
ReadExpiry(r) ==
  /\ pc[r] = "now_add"
  /\ addedAt' = [addedAt EXCEPT ![r] = clock + Duration]
  /\ Goto(r, "add")
  /\ UNCHANGED <<clock, cacheVars, reportVars, seenAt, reply, stamp>>

(* this.now(), the argument of the addition. *)
ReadClockAgain(r) ==
  /\ pc[r] = "now_add"
  /\ addedAt' = [addedAt EXCEPT ![r] = clock]
  /\ Goto(r, "add")
  /\ UNCHANGED <<clock, cacheVars, reportVars, seenAt, reply, stamp>>

Add(r) ==
  /\ pc[r] = "add"
  /\ AddEntry(Key(r), addedAt[r])
  /\ Goto(r, "forward")
  /\ UNCHANGED <<clock, reportVars, seenAt, addedAt, reply, stamp>>

(* The token must name a user; then the message gets its time. *)
Encode(r) ==
  /\ pc[r] = "forward"
  /\ \/ /\ stamp' = [stamp EXCEPT ![r] = clock]
        /\ Goto(r, "produce")
     \/ /\ Return(r, "error")
        /\ UNCHANGED stamp
  /\ UNCHANGED <<clock, cacheVars, reportVars, seenAt, addedAt, reply>>

(* Kafka takes the message or fails. *)
Produce(r) ==
  /\ pc[r] = "produce"
  /\ Return(r, "accepted") \/ Return(r, "error")
  /\ UNCHANGED <<clock, cacheVars, reportVars, seenAt, addedAt, reply, stamp>>

Tick ==
  /\ clock < MaxClock
  /\ clock' = clock + 1
  /\ UNCHANGED <<cacheVars, pc, reportVars, seenAt, addedAt, reply, stamp, result>>

-----------------------------------------------------------------------------
Handle(r) ==
  \/ GetToken(r)
  \/ ReadClock(r)
  \/ LookUp(r)
  \/ ExistsHub(r)
  \/ UseReply(r)
  \/ ReadClockAgain(r)
  \/ Add(r)
  \/ Encode(r)
  \/ Produce(r)

Next == Tick \/ \E r \in Requests : Receive(r) \/ Handle(r)

Spec == Init /\ [][Next]_vars

-----------------------------------------------------------------------------
(* A request whose own hub check was answered with a plain yes. *)
Confirmed(q) == reply[q] = "yes"

(* cache.go:29: the cache never holds more than MaxEntries entries,        *)
(* whatever the order in which concurrent requests add their keys.         *)
CacheBounded ==
  IsFiniteSet(DOMAIN expiry) /\ Cardinality(DOMAIN expiry) <= MaxEntries

(* Only positive answers are cached: every entry goes back to a plain yes  *)
(* of the device repository for that very user and client id, and is valid *)
(* for Duration from the moment it was noted.                              *)
EntriesWereConfirmed ==
  \A k \in DOMAIN expiry :
    \E q \in Requests :
      /\ Key(q) = k
      /\ Confirmed(q)
      /\ addedAt[q] # Never
      /\ expiry[k] = addedAt[q] + Duration

(* A report is forwarded only if its own check was answered with yes, or   *)
(* if another report of the same user and client id was confirmed and, by  *)
(* the clock the look-up used, less than Duration ago.  In particular a    *)
(* failed check never lets a report through, and no user profits from the  *)
(* check of another.                                                       *)
ForwardedOnlyIfConfirmed ==
  \A r \in Requests :
    pc[r] \in {"forward", "produce"} \/ result[r] = "accepted" =>
      \/ Confirmed(r)
      \/ \E q \in Requests \ {r} :
           /\ Key(q) = Key(r)
           /\ Confirmed(q)
           /\ addedAt[q] # Never
           /\ seenAt[r] < addedAt[q] + Duration

(* Negative results and errors are not cached: a denial after a look-up is *)
(* the answer the device repository gave to this very report.              *)
DeniedOnlyByAnswer ==
  \A r \in Requests :
    result[r] = "rejected" /\ seenAt[r] # Never => reply[r] = "no"

(* An entry that is still valid for the adding request leaves the cache    *)
(* only to make room for a new key in a full cache; renewing a key never   *)
(* drops the others.                                                       *)
EvictsOnlyForNewKey ==
  [][\A r \in Requests, k \in DOMAIN expiry \ DOMAIN expiry' :
       Add(r) => \/ expiry[k] <= addedAt[r]
                 \/ /\ Cardinality(DOMAIN expiry) >= MaxEntries
                    /\ Key(r) \notin DOMAIN expiry]_vars
=============================================================================
