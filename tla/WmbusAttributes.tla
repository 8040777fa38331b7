--------------------------- MODULE WmbusAttributes ---------------------------
(***************************************************************************)
(* The attributes the event handler writes to a wireless M-Bus device:     *)
(* recordWmbusReceiver, updateDeviceDecryptionStatus, replaceLegacyKeyOk   *)
(* and setSameOriginAttributes of lib/handler/event/nimbus.go.             *)
(*                                                                         *)
(* Telegrams of the device are handled concurrently.  Every handler works  *)
(* with a copy of the device that may be as old as the device cache        *)
(* allows, while its owner edits the device in the device manager.  The    *)
(* device manager replaces the attributes of the origins a request names   *)
(* and keeps all others.                                                   *)
(*                                                                         *)
(* An operator marked as a fault is no part of the specification: it is    *)
(* the mistaken form of the definition that follows it, with which a run   *)
(* shows that its property would notice the mistake.                       *)
(***************************************************************************)
EXTENDS Integers

CONSTANTS
  Handlers,       \* concurrent calls of handleWmbusEvent for one device
  Nimbuses,       \* ids of the receivers, NoOrigin for one without an id
  NoOrigin,       \* the empty string
  UserOrigins,    \* origins of the attributes others than the connector write
  Connector,      \* connectorOrigin
  Default,        \* defaultAttributeOrigin
  DefaultKeyOk,   \* the account defaults contain a wmbus/key-ok
  CacheKeyOk,     \* config.DeviceExpiration > 0
  MaxEdits        \* bound: how often the owner edits the device

ASSUME AttributeAssumption ==
  /\ NoOrigin \in UserOrigins
  /\ Connector \notin UserOrigins \cup Nimbuses
  /\ Default \notin UserOrigins \cup Nimbuses \cup {Connector}
  /\ Nimbuses \cap UserOrigins \subseteq {NoOrigin}
  /\ DefaultKeyOk \in BOOLEAN
  /\ CacheKeyOk \in BOOLEAN
  /\ MaxEdits \in Nat

VARIABLES
  stored,       \* the attributes in the device manager
  cached,       \* the device in the device cache: a set of one, or empty
  older,        \* the cached device is older than the last note of a write
  seen,         \* receivers with a wmbus.last_seen entry in the cache
  written,      \* the wmbus.key-ok entry in the cache
  pc,           \* where a handler stands
  nimbus,       \* the receiver of the telegram a handler works on
  device,       \* the handler's copy of the attributes
  keyOk,        \* the handler's keyOkValue
  fresh,        \* what replaceLegacyKeyOk read from the device manager
  held,         \* history: legacy origins stored when the telegram arrived
  edits         \* how often the owner has edited the device

cacheVars == <<cached, older, seen, written>>
telegramVars == <<nimbus, device, keyOk, fresh, held>>
vars == <<stored, cacheVars, pc, telegramVars, edits>>

-----------------------------------------------------------------------------
(* Attributes: a key and an origin lead to a value. *)

KeySlots == {"wmbus/key"} \X UserOrigins
KeyOkSlots == {"wmbus/key-ok"} \X (UserOrigins \cup {Connector, Default})
SeenSlots == {"wmbus/last_seen"} \X Nimbuses
Slots == KeySlots \cup KeyOkSlots \cup SeenSlots
Values == {"right", "wrong", "true", "false", "now"}

Key(s) == s[1]
Origin(s) == s[2]

(* Fault: wmbus/key-ok is written without an origin, as it once was. *)
OwnKeyOkWithoutOrigin == <<"wmbus/key-ok", NoOrigin>>

OwnKeyOk == <<"wmbus/key-ok", Connector>>
DefaultSlot == <<"wmbus/key-ok", Default>>

(* Attributes of a device, and none at all. *)
IsAttributes(a) ==
  /\ DOMAIN a \subseteq Slots
  /\ \A s \in DOMAIN a : a[s] \in Values

NoAttributes == [s \in {} |-> "now"]

(* A device as the device manager gives it out: with the account defaults. *)
WithDefaults(attributes) ==
  [s \in DOMAIN attributes \cup (IF DefaultKeyOk THEN {DefaultSlot} ELSE {}) |->
     IF s \in DOMAIN attributes THEN attributes[s] ELSE "true"]

(* PUT .../attributes?update-only-same-origin-attributes=origins *)
SetSameOrigin(origins, attributes) ==
  [s \in {x \in DOMAIN stored : Origin(x) \notin origins} \cup DOMAIN attributes |->
     IF s \in DOMAIN attributes THEN attributes[s] ELSE stored[s]]

IsLegacyKeyOk(s) ==
  Key(s) = "wmbus/key-ok" /\ Origin(s) \notin {Connector, Default}

HasLegacy(attributes) == \E s \in DOMAIN attributes : IsLegacyKeyOk(s)
LegacyOrigins(attributes) ==
  {Origin(s) : s \in {x \in DOMAIN attributes : IsLegacyKeyOk(x)}}

(* Some wmbus/key of the device decrypts the telegram. *)
Decrypts(attributes) ==
  \E s \in DOMAIN attributes : Key(s) = "wmbus/key" /\ attributes[s] = "right"

Truth(attributes) == IF Decrypts(attributes) THEN "true" ELSE "false"

-----------------------------------------------------------------------------
Steps == {"idle", "record", "mark", "put_seen", "decode", "check", "read",
          "put_key_ok", "note"}

TypeOK ==
  /\ IsAttributes(stored)
  /\ \A d \in cached : IsAttributes(d)
  /\ older \in BOOLEAN
  /\ seen \subseteq Nimbuses
  /\ written \in {"none", "true", "false"}
  /\ pc \in [Handlers -> Steps]
  /\ nimbus \in [Handlers -> Nimbuses \cup {NoOrigin}]
  /\ DOMAIN device = Handlers
  /\ \A h \in Handlers : IsAttributes(device[h])
  /\ keyOk \in [Handlers -> {"none", "true", "false"}]
  /\ DOMAIN fresh = Handlers
  /\ \A h \in Handlers : IsAttributes(fresh[h])
  /\ held \in [Handlers -> SUBSET UserOrigins]
  /\ edits \in 0..MaxEdits

(* A device its owner created with a key, and with the wmbus/key-ok of an  *)
(* earlier version of the connector or without.                            *)
Init ==
  /\ \E legacy \in SUBSET UserOrigins :
       stored = [s \in {<<"wmbus/key", NoOrigin>>}
                         \cup ({"wmbus/key-ok"} \X legacy) |->
                   IF Key(s) = "wmbus/key" THEN "wrong" ELSE "true"]
  /\ cached = {}
  /\ older = FALSE
  /\ seen = {}
  /\ written = "none"
  /\ pc = [h \in Handlers |-> "idle"]
  /\ nimbus = [h \in Handlers |-> NoOrigin]
  /\ device = [h \in Handlers |-> NoAttributes]
  /\ keyOk = [h \in Handlers |-> "none"]
  /\ fresh = [h \in Handlers |-> NoAttributes]
  /\ held = [h \in Handlers |-> {}]
  /\ edits = 0

Goto(h, step) ==
  /\ pc' = [pc EXCEPT ![h] = step]
  /\ UNCHANGED telegramVars

Finish(h) ==
  /\ pc' = [pc EXCEPT ![h] = "idle"]
  /\ nimbus' = [nimbus EXCEPT ![h] = NoOrigin]
  /\ device' = [device EXCEPT ![h] = NoAttributes]
  /\ keyOk' = [keyOk EXCEPT ![h] = "none"]
  /\ fresh' = [fresh EXCEPT ![h] = NoAttributes]
  /\ held' = [held EXCEPT ![h] = {}]

(* GetDeviceByLocalId: the device comes from the cache, or from the device *)
(* repository into the cache.                                              *)
Receive(h) ==
  /\ pc[h] = "idle"
  /\ pc' = [pc EXCEPT ![h] = "record"]
  /\ \E n \in Nimbuses : nimbus' = [nimbus EXCEPT ![h] = n]
  /\ \E d \in IF cached = {} THEN {WithDefaults(stored)} ELSE cached :
       /\ device' = [device EXCEPT ![h] = d]
       /\ cached' = {d}
  /\ older' = (older /\ cached # {})
  /\ held' = [held EXCEPT ![h] = LegacyOrigins(stored)]
  /\ UNCHANGED <<stored, seen, written, keyOk, fresh, edits>>

-----------------------------------------------------------------------------
(* recordWmbusReceiver; whatever fails in it is logged only. *)

(* Fault: a receiver without an id is recorded like the others. *)
CheckSeenOfAnyId(h) ==
  /\ pc[h] = "record"
  /\ Goto(h, IF nimbus[h] \in seen THEN "decode" ELSE "mark")
  /\ UNCHANGED <<stored, cacheVars, edits>>

(* A receiver without an id is not recorded, nor one recorded recently. *)
CheckSeen(h) ==
  /\ pc[h] = "record"
  /\ Goto(h, IF nimbus[h] = NoOrigin \/ nimbus[h] \in seen THEN "decode" ELSE "mark")
  /\ UNCHANGED <<stored, cacheVars, edits>>

MarkSeen(h) ==
  /\ pc[h] = "mark"
  /\ seen' = seen \cup {nimbus[h]}
  /\ Goto(h, "put_seen")
  /\ UNCHANGED <<stored, cached, older, written, edits>>

(* Fault: key and origin of the attribute are swapped. *)
SeenAttributeSwapped(n) == [s \in {<<n, "wmbus/last_seen">>} |-> "now"]

SeenAttribute(n) == [s \in {<<"wmbus/last_seen", n>>} |-> "now"]

(* Fault: the attribute is written with the origin of the connector. *)
PutSeenOfConnector(h) ==
  /\ pc[h] = "put_seen"
  /\ stored' = SetSameOrigin({Connector}, SeenAttribute(nimbus[h]))
  /\ Goto(h, "decode")
  /\ UNCHANGED <<cacheVars, edits>>

PutSeen(h) ==
  /\ pc[h] = "put_seen"
  /\ stored' = SetSameOrigin({nimbus[h]}, SeenAttribute(nimbus[h]))
  /\ Goto(h, "decode")
  /\ UNCHANGED <<cacheVars, edits>>

-----------------------------------------------------------------------------
(* The key check and updateDeviceDecryptionStatus. *)

(* The telegram is decrypted with the keys of the copy.  Nothing is to be  *)
(* done when the copy shows the outcome and no legacy wmbus/key-ok.        *)
Decode(h) ==
  /\ pc[h] = "decode"
  /\ LET value == Truth(device[h])
         shown == OwnKeyOk \in DOMAIN device[h] /\ device[h][OwnKeyOk] = value
     IN IF shown /\ ~HasLegacy(device[h])
        THEN Finish(h)
        ELSE /\ keyOk' = [keyOk EXCEPT ![h] = value]
             /\ pc' = [pc EXCEPT ![h] = "check"]
             /\ UNCHANGED <<nimbus, device, fresh, held>>
  /\ UNCHANGED <<stored, cacheVars, edits>>

(* The copy may be older than a write that was noted already.  A cache     *)
(* that fails has no note, whatever the reason.                            *)
CheckWritten(h) ==
  /\ pc[h] = "check"
  /\ \/ written = keyOk[h] /\ Finish(h)
     \/ Goto(h, IF HasLegacy(device[h]) THEN "read" ELSE "put_key_ok")
  /\ UNCHANGED <<stored, cacheVars, edits>>

(* replaceLegacyKeyOk reads the device from the device manager. *)
ReadDevice(h) ==
  /\ pc[h] = "read"
  /\ fresh' = [fresh EXCEPT ![h] = WithDefaults(stored)]
  /\ pc' = [pc EXCEPT ![h] = "put_key_ok"]
  /\ UNCHANGED <<stored, cacheVars, nimbus, device, keyOk, held, edits>>

(* The origins a write addresses and the attributes it carries: wmbus/key-ok *)
(* and, to replace legacy ones, what else was read of their origins.         *)
WriteOrigins(h) == {Connector} \cup LegacyOrigins(fresh[h])

CarriedSlots(h) ==
  {s \in DOMAIN fresh[h] :
     Key(s) # "wmbus/key-ok" /\ Origin(s) \in WriteOrigins(h)}

CarriedAttributes(h) ==
  [s \in CarriedSlots(h) \cup {OwnKeyOk} |->
     IF s = OwnKeyOk THEN keyOk[h] ELSE fresh[h][s]]

PutKeyOk(h) ==
  /\ pc[h] = "put_key_ok"
  /\ stored' = SetSameOrigin(WriteOrigins(h), CarriedAttributes(h))
  /\ Goto(h, "note")
  /\ UNCHANGED <<cacheVars, edits>>

(* The write is noted for as long as a device stays in the cache. *)
NoteWritten(h) ==
  /\ pc[h] = "note"
  /\ \/ /\ CacheKeyOk
        /\ written' = keyOk[h]
        /\ older' = (cached # {})
     \/ UNCHANGED <<written, older>>
  /\ Finish(h)
  /\ UNCHANGED <<stored, cached, seen, edits>>

-----------------------------------------------------------------------------
(* Failures and other ways out. *)

(* A duplicate, plain or undecodable telegram ends before the key check. *)
Leave(h) ==
  /\ pc[h] = "decode"
  /\ Finish(h)
  /\ UNCHANGED <<stored, cacheVars, edits>>

(* The cache or the device manager fails while a receiver is recorded; the *)
(* request may have been carried out nevertheless.                         *)
RecordFails(h) ==
  /\ pc[h] \in {"record", "mark", "put_seen"}
  /\ \/ UNCHANGED stored
     \/ /\ pc[h] = "put_seen"
        /\ stored' = SetSameOrigin({nimbus[h]}, SeenAttribute(nimbus[h]))
  /\ Goto(h, "decode")
  /\ UNCHANGED <<cacheVars, edits>>

(* The same for the wmbus/key-ok; it ends the handling of the telegram. *)
UpdateFails(h) ==
  /\ pc[h] \in {"read", "put_key_ok"}
  /\ \/ UNCHANGED stored
     \/ /\ pc[h] = "put_key_ok"
        /\ stored' = SetSameOrigin(WriteOrigins(h), CarriedAttributes(h))
  /\ Finish(h)
  /\ UNCHANGED <<cacheVars, edits>>

-----------------------------------------------------------------------------
(* The owner and the caches. *)

(* The owner sets or deletes a key, with an origin of the owner's tools. *)
Edit(o) ==
  /\ edits < MaxEdits
  /\ edits' = edits + 1
  /\ LET slot == <<"wmbus/key", o>>
     IN \/ \E value \in {"right", "wrong"} :
             stored' = [s \in DOMAIN stored \cup {slot} |->
                          IF s = slot THEN value ELSE stored[s]]
        \/ stored' = [s \in DOMAIN stored \ {slot} |-> stored[s]]
  /\ UNCHANGED <<cacheVars, pc, telegramVars>>

DeviceExpires ==
  /\ cached # {}
  /\ cached' = {}
  /\ older' = FALSE
  /\ UNCHANGED <<stored, seen, written, pc, telegramVars, edits>>

SeenExpires(n) ==
  /\ n \in seen
  /\ seen' = seen \ {n}
  /\ UNCHANGED <<stored, cached, older, written, pc, telegramVars, edits>>

(* Fault: the note is kept without an expiry. *)
WrittenNeverExpires == FALSE

(* A note lives as long as a cached device, so one that was cached before  *)
(* the note was taken expires before it.                                   *)
WrittenExpires ==
  /\ written # "none"
  /\ ~older
  /\ written' = "none"
  /\ UNCHANGED <<stored, cached, older, seen, pc, telegramVars, edits>>

-----------------------------------------------------------------------------
Record(h) == CheckSeen(h) \/ MarkSeen(h) \/ PutSeen(h)
Fails(h) == RecordFails(h) \/ UpdateFails(h) \/ Leave(h)

Next ==
  \/ \E h \in Handlers :
       \/ Receive(h) \/ Record(h) \/ Fails(h)
       \/ Decode(h) \/ CheckWritten(h) \/ ReadDevice(h)
       \/ PutKeyOk(h) \/ NoteWritten(h)
  \/ \E o \in UserOrigins : Edit(o)
  \/ DeviceExpires \/ WrittenExpires
  \/ \E n \in Nimbuses : SeenExpires(n)

Spec == Init /\ [][Next]_vars

(* Telegrams keep coming and are handled, the caches expire, and a request *)
(* that is made again and again succeeds in the end.                       *)
Fairness ==
  /\ \A h \in Handlers :
       /\ WF_vars(Receive(h))
       /\ WF_vars(Record(h))
       /\ SF_vars(Decode(h))
       /\ SF_vars(CheckWritten(h))
       /\ SF_vars(ReadDevice(h))
       /\ SF_vars(PutKeyOk(h))
       /\ WF_vars(NoteWritten(h))
  /\ SF_vars(DeviceExpires)
  /\ SF_vars(WrittenExpires)

FairSpec == Spec /\ Fairness

-----------------------------------------------------------------------------
SameAttribute(s) ==
  /\ s \in DOMAIN stored <=> s \in DOMAIN stored'
  /\ s \in DOMAIN stored => stored'[s] = stored[s]

(* nimbus.go:287 and 322: a write replaces no attribute of the owner,      *)
(* however old the copy of the device is and whatever the owner changed    *)
(* meanwhile.  The one exception is the window of replaceLegacyKeyOk: a    *)
(* handler that read a legacy wmbus/key-ok puts the other attributes of    *)
(* that origin back to what it read with it, and the window is open only   *)
(* for telegrams that arrived while the legacy one was still stored.       *)
OwnersAttributesKept ==
  [][edits' = edits =>
       \A s \in KeySlots :
         \/ SameAttribute(s)
         \/ \E h \in Handlers :
              /\ pc[h] = "put_key_ok"
              /\ Origin(s) \in LegacyOrigins(fresh[h]) \cap held[h]
              /\ s \in DOMAIN stored' <=> s \in DOMAIN fresh[h]
              /\ s \in DOMAIN stored' => stored'[s] = fresh[h][s]]_vars

(* No write of one handler takes away what another has written: the        *)
(* receivers recorded by others stay, and so does wmbus/key-ok.            *)
WrittenAttributesKept ==
  [][\A s \in SeenSlots \cup {OwnKeyOk} :
       s \in DOMAIN stored => s \in DOMAIN stored']_vars

(* nimbus.go:323: a legacy wmbus/key-ok is replaced once: a handler that   *)
(* read it before another removed it does not bring it back.               *)
LegacyStaysGone ==
  [][LegacyOrigins(stored') \subseteq LegacyOrigins(stored)]_vars

(* The status on the device gets right: once the owner stops editing, the  *)
(* stored wmbus/key-ok tells for good whether one of the keys decrypts,    *)
(* in spite of old copies, notes of earlier writes, overlapping handlers   *)
(* and failing requests, and the legacy ones are gone.                     *)
Settled ==
  /\ OwnKeyOk \in DOMAIN stored
  /\ stored[OwnKeyOk] = Truth(stored)
  /\ ~HasLegacy(stored)

KeyOkSettles == <>[]Settled
=============================================================================
