---------------------------- MODULE WmbusTelegram ----------------------------
(***************************************************************************)
(* The way of a wireless M-Bus telegram through handleWmbusEvent of        *)
(* lib/handler/event/nimbus.go: device type, deduplication, waiting room,  *)
(* keys and publication.  What is written to the attributes of the device  *)
(* is the business of WmbusAttributes.                                     *)
(*                                                                         *)
(* All telegrams are of one meter.  They are handled concurrently, by one  *)
(* or several instances that share memcached and the platform.  Every      *)
(* request may fail, and a failed one may have been carried out.           *)
(*                                                                         *)
(* An operator marked as a fault is no part of the specification: it is    *)
(* the mistaken form of the definition that follows it, with which a run   *)
(* shows that its property would notice the mistake.                       *)
(***************************************************************************)
EXTENDS Integers, Sequences, FiniteSets

CONSTANTS
  Handlers,    \* concurrent calls of handleWmbusEvent
  Telegrams,   \* the telegrams the meter sends again and again
  TelegramOf,  \* the telegram a handler works on
  Encrypted,   \* those that need a key
  Fields,      \* what values a telegram may carry
  Layout,      \* the fields of a telegram
  Keys,        \* the wmbus/key attributes of the device, in their order:
               \* "right" and "wrong" ones
  NoTelegram,  \* the cache has no telegram
  MaxFaults    \* bound: failing requests and dismissed waiting room entries

ASSUME TelegramAssumption ==
  /\ TelegramOf \in [Handlers -> Telegrams]
  /\ Encrypted \subseteq Telegrams
  /\ Layout \in [Telegrams -> SUBSET Fields]
  /\ IsFiniteSet(Fields)
  /\ Keys \in Seq({"right", "wrong"})
  /\ NoTelegram \notin Telegrams
  /\ MaxFaults \in Nat

VARIABLES
  deviceType,  \* the device type in the device repository: a set of one, or
               \* empty; a type is the set of its fields
  cachedType,  \* the device type in the cache, likewise
  last,        \* the entry messages.<user>.<device> in the cache
  known,       \* the device exists
  room,        \* the device is in the waiting room
  roomNote,    \* the entry deviceIdentWaitingRoom.<device> in the cache
  published,   \* pairs <<telegram, content>> that became events of the device
  pc,          \* where a handler stands
  found,       \* the handler found the device
  existing,    \* the device type the handler read, likewise
  decoded,     \* the handler's decoded telegram: "fields", or "nil"
  faults

platformVars == <<deviceType, known, room, published>>
cacheVars == <<cachedType, last, roomNote>>
handlerVars == <<pc, found, existing, decoded>>
vars == <<platformVars, cacheVars, handlerVars, faults>>

-----------------------------------------------------------------------------
NoType == {}
TypeValues == {NoType} \cup {{t} : t \in SUBSET Fields}
Steps == {"idle", "driver", "ensure", "put", "dedup", "mark", "room",
          "put_room", "keys", "ensure_again", "put_again", "publish"}

TypeOK ==
  /\ deviceType \in TypeValues
  /\ cachedType \in TypeValues
  /\ last \in Telegrams \cup {NoTelegram}
  /\ known \in BOOLEAN
  /\ room \in BOOLEAN
  /\ roomNote \in BOOLEAN
  /\ published \subseteq Telegrams \X {"fields", "nil"}
  /\ pc \in [Handlers -> Steps]
  /\ found \in [Handlers -> BOOLEAN]
  /\ existing \in [Handlers -> TypeValues]
  /\ decoded \in [Handlers -> {"fields", "nil"}]
  /\ faults \in 0..MaxFaults

Init ==
  /\ deviceType = NoType
  /\ cachedType = {}
  /\ last = NoTelegram
  /\ known \in BOOLEAN
  /\ room = FALSE
  /\ roomNote = FALSE
  /\ published = {}
  /\ pc = [h \in Handlers |-> "idle"]
  /\ found = [h \in Handlers |-> FALSE]
  /\ existing = [h \in Handlers |-> NoType]
  /\ decoded = [h \in Handlers |-> "nil"]
  /\ faults = 0

Goto(h, step) ==
  /\ pc' = [pc EXCEPT ![h] = step]
  /\ UNCHANGED <<found, existing, decoded>>

Finish(h) ==
  /\ pc' = [pc EXCEPT ![h] = "idle"]
  /\ found' = [found EXCEPT ![h] = FALSE]
  /\ existing' = [existing EXCEPT ![h] = NoType]
  /\ decoded' = [decoded EXCEPT ![h] = "nil"]

Fault ==
  /\ faults < MaxFaults
  /\ faults' = faults + 1

(* GetDeviceByLocalId; a missing device is no error. *)
Receive(h) ==
  /\ pc[h] = "idle"
  /\ found' = [found EXCEPT ![h] = known]
  /\ pc' = [pc EXCEPT ![h] = "driver"]
  /\ UNCHANGED <<platformVars, cacheVars, existing, decoded, faults>>

-----------------------------------------------------------------------------
(* The device type. *)

(* getWmbusDeviceType: from the cache, or from the repository into it. *)
ReadType(h) ==
  /\ cachedType' = IF cachedType = NoType THEN deviceType ELSE cachedType
  /\ existing' = [existing EXCEPT ![h] = cachedType']

(* The type is read for its driver, then the telegram is decoded without a *)
(* key, which fails if it is encrypted.                                    *)
DecodePlain(h) ==
  /\ pc[h] = "driver"
  /\ ReadType(h)
  /\ decoded' = [decoded EXCEPT ![h] =
                   IF TelegramOf[h] \in Encrypted THEN "nil" ELSE "fields"]
  /\ pc' = [pc EXCEPT ![h] = "ensure"]
  /\ UNCHANGED <<platformVars, last, roomNote, found, faults>>

(* util.DeviceType: a type with the decoded fields. *)
NewType(h) == {IF decoded[h] = "fields" THEN Layout[TelegramOf[h]] ELSE {}}

Size(type) == Cardinality(UNION type)

(* Fault: any difference makes an update. *)
NeedsUpdateIfDifferent(old, new) == old # new

(* wmbusDeviceTypeNeedsUpdate: more fields win, and so do other ones.  The *)
(* types made here all have one service, with a key or without one         *)
(* (nimbus_test.go:371-376 counts one update over three telegrams), so the *)
(* numbers of services only tell that there is no type yet; a type that    *)
(* has no output counts as one without fields.                             *)
NeedsUpdate(old, new) ==
  \/ old = NoType
  \/ Size(old) < Size(new)
  \/ Size(old) = Size(new) /\ old # new

(* ensureWmbusDeviceType, for the first time with what could be decoded    *)
(* without a key and for the second with what could be decoded at all.     *)
EnsureType(h) ==
  /\ pc[h] \in {"ensure", "ensure_again"}
  /\ ReadType(h)
  /\ pc' = [pc EXCEPT ![h] = IF pc[h] = "ensure" THEN "put" ELSE "put_again"]
  /\ UNCHANGED <<platformVars, last, roomNote, found, decoded, faults>>

AfterType(h) == Goto(h, IF pc[h] = "put" THEN "dedup" ELSE "publish")

(* UpdateDeviceType; the cache may take the new type, or not. *)
UpdateType(h) ==
  /\ pc[h] \in {"put", "put_again"}
  /\ NeedsUpdate(existing[h], NewType(h))
  /\ deviceType' = NewType(h)
  /\ cachedType' \in {cachedType, NoType, NewType(h)}
  /\ AfterType(h)
  /\ UNCHANGED <<known, room, published, last, roomNote, faults>>

KeepType(h) ==
  /\ pc[h] \in {"put", "put_again"}
  /\ ~NeedsUpdate(existing[h], NewType(h))
  /\ AfterType(h)
  /\ UNCHANGED <<platformVars, cacheVars, faults>>

-----------------------------------------------------------------------------
(* Deduplication. *)

(* A telegram that equals the last one is left; a failing cache has none. *)
CheckDuplicate(h) ==
  /\ pc[h] = "dedup"
  /\ \/ last # TelegramOf[h] /\ Goto(h, "mark") /\ UNCHANGED faults
     \/ last = TelegramOf[h] /\ Finish(h) /\ UNCHANGED faults
     \/ Fault /\ Goto(h, "mark")
  /\ UNCHANGED <<platformVars, cacheVars>>

(* Fault: what was decoded is noted. *)
MarkDecoded(h) ==
  /\ pc[h] = "mark"
  /\ last' = decoded[h]
  /\ Goto(h, IF ~found[h] THEN "room"
             ELSE IF TelegramOf[h] \in Encrypted THEN "keys" ELSE "publish")
  /\ UNCHANGED <<platformVars, cachedType, roomNote, faults>>

(* The telegram is noted before anything is done with it. *)
MarkTelegram(h) ==
  /\ pc[h] = "mark"
  /\ \/ last' = TelegramOf[h] /\ UNCHANGED faults
     \/ Fault /\ UNCHANGED last
  /\ Goto(h, IF ~found[h] THEN "room"
             ELSE IF TelegramOf[h] \in Encrypted THEN "keys" ELSE "publish")
  /\ UNCHANGED <<platformVars, cachedType, roomNote>>

-----------------------------------------------------------------------------
(* The waiting room. *)

(* An unknown device is looked up there, unless this was done lately. *)
CheckRoom(h) ==
  /\ pc[h] = "room"
  /\ IF roomNote \/ room THEN Finish(h) ELSE Goto(h, "put_room")
  /\ roomNote' = (roomNote \/ room)
  /\ UNCHANGED <<platformVars, cachedType, last, faults>>

PutRoom(h) ==
  /\ pc[h] = "put_room"
  /\ room' = TRUE
  /\ roomNote' = TRUE
  /\ Finish(h)
  /\ UNCHANGED <<deviceType, known, published, cachedType, last, faults>>

-----------------------------------------------------------------------------
(* Keys and publication. *)

(* Fault: the loop ends with the first key. *)
TryFirstKey(h) ==
  /\ pc[h] = "keys"
  /\ IF Keys # <<>> /\ Head(Keys) = "right"
     THEN /\ decoded' = [decoded EXCEPT ![h] = "fields"]
          /\ pc' = [pc EXCEPT ![h] = "ensure_again"]
          /\ UNCHANGED <<found, existing>>
     ELSE Finish(h)
  /\ UNCHANGED <<platformVars, cacheVars, faults>>

(* Every key is tried, also after one that was right; what the last one    *)
(* yields remains, and a wrong key yields nil.                             *)
TryKeys(h) ==
  /\ pc[h] = "keys"
  /\ IF \E i \in DOMAIN Keys : Keys[i] = "right"
     THEN /\ decoded' = [decoded EXCEPT ![h] =
                           IF Keys[Len(Keys)] = "right" THEN "fields" ELSE "nil"]
          /\ pc' = [pc EXCEPT ![h] = "ensure_again"]
          /\ UNCHANGED <<found, existing>>
     ELSE Finish(h)
  /\ UNCHANGED <<platformVars, cacheVars, faults>>

(* HandleDeviceRefEventWithAuthToken *)
Publish(h) ==
  /\ pc[h] = "publish"
  /\ published' = published \cup {<<TelegramOf[h], decoded[h]>>}
  /\ Finish(h)
  /\ UNCHANGED <<deviceType, known, room, cacheVars, faults>>

-----------------------------------------------------------------------------
(* A request or wmbusmeters fails, which ends the handling of the telegram; *)
(* the request may have been carried out.                                   *)
Fails(h) ==
  /\ pc[h] \in Steps \ {"idle", "dedup", "mark"}
  /\ Fault
  /\ deviceType' \in {deviceType} \cup
       (IF pc[h] \in {"put", "put_again"} /\ NeedsUpdate(existing[h], NewType(h))
        THEN {NewType(h)} ELSE {})
  /\ room' \in {room, room \/ pc[h] = "put_room"}
  /\ published' \in {published} \cup
       (IF pc[h] = "publish" THEN {published \cup {<<TelegramOf[h], decoded[h]>>}} ELSE {})
  /\ Finish(h)
  /\ UNCHANGED <<known, cacheVars>>

-----------------------------------------------------------------------------
(* The owner and the cache. *)

Adopt ==
  /\ room
  /\ known' = TRUE
  /\ room' = FALSE
  /\ UNCHANGED <<deviceType, published, cacheVars, handlerVars, faults>>

Dismiss ==
  /\ room
  /\ Fault
  /\ room' = FALSE
  /\ UNCHANGED <<deviceType, known, published, cacheVars, handlerVars>>

TypeExpires(t) ==
  /\ cachedType = {t}
  /\ cachedType' = NoType
  /\ UNCHANGED <<platformVars, last, roomNote, handlerVars, faults>>

LastExpires(t) ==
  /\ last = t
  /\ last' = NoTelegram
  /\ UNCHANGED <<platformVars, cachedType, roomNote, handlerVars, faults>>

(* Fault: the look-up in the waiting room is noted without an expiry. *)
NoteNeverExpires == FALSE

NoteExpires ==
  /\ roomNote
  /\ roomNote' = FALSE
  /\ UNCHANGED <<platformVars, cachedType, last, handlerVars, faults>>

-----------------------------------------------------------------------------
Handle(h) ==
  \/ Receive(h) \/ DecodePlain(h)
  \/ EnsureType(h) \/ UpdateType(h) \/ KeepType(h)
  \/ CheckDuplicate(h) \/ MarkTelegram(h)
  \/ CheckRoom(h) \/ PutRoom(h)
  \/ TryKeys(h) \/ Publish(h)

Expires ==
  \/ \E t \in SUBSET Fields : TypeExpires(t)
  \/ \E t \in Telegrams : LastExpires(t)
  \/ NoteExpires

Next ==
  \/ \E h \in Handlers : Handle(h) \/ Fails(h)
  \/ Adopt \/ Dismiss
  \/ Expires

Spec == Init /\ [][Next]_vars

(* The meter keeps sending each telegram, handlers get on, and an entry of *)
(* the cache that is not renewed expires.                                  *)
Fairness ==
  /\ \A h \in Handlers : WF_vars(Handle(h))
  /\ \A t \in SUBSET Fields : WF_vars(TypeExpires(t))
  /\ \A t \in Telegrams : WF_vars(LastExpires(t))
  /\ WF_vars(NoteExpires)

FairSpec == Spec /\ Fairness

-----------------------------------------------------------------------------
(* No telegram has as many fields as t, but others.                        *)
Richer(t) ==
  \A u \in Telegrams :
    Layout[u] = Layout[t] \/ Cardinality(Layout[u]) < Cardinality(Layout[t])

(* The type of t is in the repository, no other is in the cache, and no    *)
(* handler is about to write another one.                                  *)
TypeSettled(t) ==
  /\ deviceType = {Layout[t]}
  /\ cachedType \in {NoType, deviceType}
  /\ \A h \in Handlers :
       pc[h] \in {"put", "put_again"} /\ NeedsUpdate(existing[h], NewType(h)) =>
         NewType(h) = deviceType

(* ensureWmbusDeviceType reads, compares and updates in separate requests, *)
(* through a cache (nimbus.go:224-232), so a richer type may be replaced   *)
(* by a poorer one.  That ends: once the richest type is stored, no older  *)
(* one is cached and no handler holds one, it stays as it is, field by     *)
(* field, whatever poorer telegrams, repetitions, failing requests and     *)
(* expiring entries do.                                                    *)
RichTypeStays ==
  [][\A t \in Telegrams : Richer(t) /\ TypeSettled(t) => TypeSettled(t)']_vars

(* However handlers overlap and whatever old type the cache holds, the     *)
(* device type has all fields of the richest telegram in the end, once the *)
(* device is known.                                                        *)
Richest == CHOOSE t \in Telegrams :
             \A u \in Telegrams : Cardinality(Layout[u]) <= Cardinality(Layout[t])

DeviceTypeSettles == <>known => <>[](deviceType = {Layout[Richest]})

(* nimbus.go:55: an unknown device gets into the waiting room, again when  *)
(* its entry was dismissed, although failed attempts leave the telegram    *)
(* noted as a duplicate.                                                   *)
UnknownIsOffered == ~room /\ ~known ~> room \/ known

(* The telegrams of a known device are published, whichever of its keys is *)
(* the right one.                                                          *)
KnownIsPublished == \A t \in Telegrams : known ~> <<t, "fields">> \in published

(* nimbus.go:56: what is published is the decoded message.  A wrong key    *)
(* behind the right one leaves nil, and that is published.                 *)
PublishedIsDecoded == \A t \in Telegrams : <<t, "nil">> \notin published
=============================================================================
