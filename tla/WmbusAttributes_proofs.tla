----------------------- MODULE WmbusAttributes_proofs -----------------------
(***************************************************************************)
(* Theorems about WmbusAttributes, for any number of handlers, receivers,  *)
(* origins and edits of the owner.                                         *)
(***************************************************************************)
EXTENDS WmbusAttributes, TLAPS

(* A receiver without an id gets no attribute, a handler holds no legacy   *)
(* wmbus/key-ok that was gone when its telegram arrived, and it writes the *)
(* outcome of a decryption.                                                *)
NamedReceivers ==
  /\ <<"wmbus/last_seen", NoOrigin>> \notin DOMAIN stored
  /\ \A h \in Handlers :
       /\ <<"wmbus/last_seen", NoOrigin>> \notin DOMAIN fresh[h]
       /\ pc[h] \in {"mark", "put_seen"} => nimbus[h] # NoOrigin

HeldLegacy ==
  \A h \in Handlers :
    /\ pc[h] # "idle" => LegacyOrigins(stored) \subseteq held[h]
    /\ LegacyOrigins(fresh[h]) \subseteq held[h]
    /\ pc[h] = "idle" => LegacyOrigins(fresh[h]) = {}

StatusKnown ==
  \A h \in Handlers :
    pc[h] \in {"check", "read", "put_key_ok", "note"} => keyOk[h] # "none"

AttributeInv == TypeOK /\ NamedReceivers /\ HeldLegacy /\ StatusKnown

(* What every change of the stored attributes has in common.               *)
StoredWell ==
  /\ IsAttributes(stored')
  /\ <<"wmbus/last_seen", NoOrigin>> \notin DOMAIN stored'
  /\ LegacyOrigins(stored') \subseteq LegacyOrigins(stored)
  /\ \A s \in SeenSlots \cup {OwnKeyOk} :
       s \in DOMAIN stored => s \in DOMAIN stored'

(* What a handler may do to the owner's attributes. *)
KeptOrPutBack(s) ==
  \/ SameAttribute(s)
  \/ \E h \in Handlers :
       /\ pc[h] = "put_key_ok"
       /\ Origin(s) \in LegacyOrigins(fresh[h]) \cap held[h]
       /\ s \in DOMAIN stored' <=> s \in DOMAIN fresh[h]
       /\ s \in DOMAIN stored' => stored'[s] = fresh[h][s]

-----------------------------------------------------------------------------
(* Slots and legacy attributes. *)

LEMMA SlotFacts ==
  /\ \A s \in KeySlots : Key(s) = "wmbus/key" /\ Origin(s) \in UserOrigins
  /\ \A s \in SeenSlots :
       /\ Key(s) = "wmbus/last_seen" /\ Origin(s) \in Nimbuses
       /\ s = <<"wmbus/last_seen", Origin(s)>>
  /\ \A s \in Slots : IsLegacyKeyOk(s) => Origin(s) \in UserOrigins
  /\ OwnKeyOk \in Slots /\ Key(OwnKeyOk) = "wmbus/key-ok"
  /\ Origin(OwnKeyOk) = Connector
  /\ DefaultSlot \in Slots /\ Key(DefaultSlot) = "wmbus/key-ok"
  /\ Origin(DefaultSlot) = Default
  /\ \A n \in Nimbuses : <<"wmbus/last_seen", n>> \in SeenSlots
  /\ \A o \in UserOrigins : <<"wmbus/key", o>> \in KeySlots
  /\ KeySlots \subseteq Slots /\ SeenSlots \subseteq Slots
BY DEF KeySlots, SeenSlots, KeyOkSlots, Slots, Key, Origin, OwnKeyOk,
       DefaultSlot, IsLegacyKeyOk

LEMMA LegacyOfUsers ==
  ASSUME NEW a, IsAttributes(a)
  PROVE  LegacyOrigins(a) \subseteq UserOrigins
BY SlotFacts DEF IsAttributes, LegacyOrigins

LEMMA LegacyOfDefaults ==
  ASSUME NEW a, IsAttributes(a)
  PROVE  /\ IsAttributes(WithDefaults(a))
         /\ LegacyOrigins(WithDefaults(a)) = LegacyOrigins(a)
<1>1. DOMAIN WithDefaults(a)
        = DOMAIN a \cup (IF DefaultKeyOk THEN {DefaultSlot} ELSE {})
  BY DEF WithDefaults
<1>2. \A s \in DOMAIN WithDefaults(a) : WithDefaults(a)[s] \in Values
  BY DEF WithDefaults, IsAttributes, Values
<1>3. ~IsLegacyKeyOk(DefaultSlot)
  BY SlotFacts DEF IsLegacyKeyOk
<1>4. IsAttributes(WithDefaults(a))
  BY <1>1, <1>2, SlotFacts DEF IsAttributes
<1>5. \A s : s \in DOMAIN WithDefaults(a) /\ IsLegacyKeyOk(s)
               <=> s \in DOMAIN a /\ IsLegacyKeyOk(s)
  BY <1>1, <1>3
<1> QED
  BY <1>4, <1>5 DEF LegacyOrigins

LEMMA NothingHeld ==
  /\ IsAttributes(NoAttributes)
  /\ LegacyOrigins(NoAttributes) = {}
BY DEF NoAttributes, IsAttributes, LegacyOrigins

LEMMA CarriedFacts ==
  ASSUME TypeOK, NEW h \in Handlers
  PROVE  /\ IsAttributes(CarriedAttributes(h)) \/ keyOk[h] = "none"
         /\ DOMAIN CarriedAttributes(h) = CarriedSlots(h) \cup {OwnKeyOk}
         /\ \A s \in CarriedSlots(h) :
              /\ Key(s) # "wmbus/key-ok"
              /\ CarriedAttributes(h)[s] = fresh[h][s]
         /\ WriteOrigins(h) \subseteq {Connector} \cup UserOrigins
<1>1. DOMAIN CarriedAttributes(h) = CarriedSlots(h) \cup {OwnKeyOk}
  BY DEF CarriedAttributes
<1>2. \A s \in CarriedSlots(h) : Key(s) # "wmbus/key-ok" /\ s # OwnKeyOk
  BY SlotFacts DEF CarriedSlots
<1>3. \A s \in CarriedSlots(h) : CarriedAttributes(h)[s] = fresh[h][s]
  BY <1>2 DEF CarriedAttributes
<1>4. CarriedAttributes(h)[OwnKeyOk] = keyOk[h]
  BY DEF CarriedAttributes
<1>5. IsAttributes(fresh[h]) /\ keyOk[h] \in {"none", "true", "false"}
  BY DEF TypeOK
<1>6. CarriedSlots(h) \subseteq DOMAIN fresh[h]
  BY DEF CarriedSlots
<1>7. IsAttributes(CarriedAttributes(h)) \/ keyOk[h] = "none"
  BY <1>1, <1>3, <1>4, <1>5, <1>6, SlotFacts DEF IsAttributes, Values
<1>8. WriteOrigins(h) \subseteq {Connector} \cup UserOrigins
  BY <1>5, LegacyOfUsers DEF WriteOrigins
<1> QED
  BY <1>1, <1>2, <1>3, <1>7, <1>8

-----------------------------------------------------------------------------
(* The writes. *)

LEMMA ReceiverWrite ==
  ASSUME AttributeInv, NEW h \in Handlers, pc[h] = "put_seen",
         stored' = SetSameOrigin({nimbus[h]}, SeenAttribute(nimbus[h]))
  PROVE  StoredWell /\ \A s \in KeySlots : SameAttribute(s)
<1> DEFINE n == nimbus[h]
<1> DEFINE new == <<"wmbus/last_seen", n>>
<1>1. n \in Nimbuses /\ n # NoOrigin /\ n \notin UserOrigins /\ n # Connector
  BY AttributeAssumption DEF AttributeInv, TypeOK, NamedReceivers
<1>2. DOMAIN SeenAttribute(n) = {new} /\ SeenAttribute(n)[new] = "now"
  BY DEF SeenAttribute
<1>3. new \in SeenSlots /\ Key(new) = "wmbus/last_seen" /\ Origin(new) = n
  BY <1>1, SlotFacts DEF Key, Origin
<1>4. /\ DOMAIN stored' = {x \in DOMAIN stored : Origin(x) # n} \cup {new}
      /\ stored'[new] = "now"
      /\ \A s \in DOMAIN stored : Origin(s) # n /\ s # new
                                    => stored'[s] = stored[s]
  <2>1. stored' = SetSameOrigin({n}, SeenAttribute(n))
    OBVIOUS
  <2> HIDE DEF n, new
  <2>2. /\ DOMAIN stored' = {x \in DOMAIN stored : Origin(x) \notin {n}}
                               \cup DOMAIN SeenAttribute(n)
        /\ \A s \in DOMAIN SeenAttribute(n) : stored'[s] = SeenAttribute(n)[s]
        /\ \A s \in DOMAIN stored :
             Origin(s) \notin {n} /\ s \notin DOMAIN SeenAttribute(n)
               => stored'[s] = stored[s]
    BY <2>1 DEF SetSameOrigin
  <2> QED
    BY <1>2, <2>2
<1> HIDE DEF new
<1>5. IsAttributes(stored)
  BY DEF AttributeInv, TypeOK
<1>6. IsAttributes(stored')
  BY <1>3, <1>4, <1>5, SlotFacts DEF IsAttributes, Values
<1>7. <<"wmbus/last_seen", NoOrigin>> \notin DOMAIN stored'
  BY <1>1, <1>4 DEF AttributeInv, NamedReceivers, new
<1>8. LegacyOrigins(stored') \subseteq LegacyOrigins(stored)
  BY <1>3, <1>4 DEF LegacyOrigins, IsLegacyKeyOk
<1>9. \A s \in SeenSlots \cup {OwnKeyOk} :
        s \in DOMAIN stored => s \in DOMAIN stored'
  BY <1>1, <1>4, SlotFacts DEF new
<1>10. \A s \in KeySlots : Origin(s) # n /\ s # new
  BY <1>1, <1>3, SlotFacts
<1>11. \A s \in KeySlots : SameAttribute(s)
  BY <1>4, <1>10 DEF SameAttribute
<1> QED
  BY <1>6, <1>7, <1>8, <1>9, <1>11 DEF StoredWell

LEMMA StatusWrite ==
  ASSUME AttributeInv, NEW h \in Handlers, pc[h] = "put_key_ok",
         stored' = SetSameOrigin(WriteOrigins(h), CarriedAttributes(h))
  PROVE  StoredWell /\ \A s \in KeySlots : KeptOrPutBack(s)
<1> DEFINE carried == CarriedAttributes(h)
<1> DEFINE origins == WriteOrigins(h)
<1>1. /\ IsAttributes(carried)
      /\ DOMAIN carried = CarriedSlots(h) \cup {OwnKeyOk}
      /\ \A s \in CarriedSlots(h) :
           Key(s) # "wmbus/key-ok" /\ carried[s] = fresh[h][s]
      /\ origins \subseteq {Connector} \cup UserOrigins
  BY CarriedFacts DEF AttributeInv, StatusKnown
<1>2. /\ DOMAIN stored' = {x \in DOMAIN stored : Origin(x) \notin origins}
                              \cup DOMAIN carried
      /\ \A s \in DOMAIN carried : stored'[s] = carried[s]
      /\ \A s \in DOMAIN stored :
           Origin(s) \notin origins /\ s \notin DOMAIN carried
             => stored'[s] = stored[s]
  BY DEF SetSameOrigin
<1>3. CarriedSlots(h) = {s \in DOMAIN fresh[h] :
                           Key(s) # "wmbus/key-ok" /\ Origin(s) \in origins}
  BY DEF CarriedSlots
<1>4. origins = {Connector} \cup LegacyOrigins(fresh[h])
  BY DEF WriteOrigins
<1>5. IsAttributes(stored) /\ IsAttributes(fresh[h])
  BY DEF AttributeInv, TypeOK
<1>6. LegacyOrigins(fresh[h]) \subseteq held[h]
  BY DEF AttributeInv, HeldLegacy
<1> HIDE DEF carried, origins
<1>7. IsAttributes(stored')
  <2>1. DOMAIN stored' \subseteq Slots
    BY <1>1, <1>2, <1>5 DEF IsAttributes
  <2>2. \A s \in DOMAIN stored' : stored'[s] \in Values
    BY <1>1, <1>2, <1>5 DEF IsAttributes
  <2> QED
    BY <2>1, <2>2 DEF IsAttributes
<1>8. LegacyOrigins(stored') \subseteq LegacyOrigins(stored)
  <2>1. ~IsLegacyKeyOk(OwnKeyOk)
    BY SlotFacts DEF IsLegacyKeyOk
  <2>2. \A s \in DOMAIN carried : ~IsLegacyKeyOk(s)
    BY <1>1, <2>1 DEF IsLegacyKeyOk
  <2> QED
    BY <1>2, <2>2 DEF LegacyOrigins
<1>9. \A s \in KeySlots : KeptOrPutBack(s)
  <2> SUFFICES ASSUME NEW s \in KeySlots PROVE KeptOrPutBack(s)
    OBVIOUS
  <2>1. s # OwnKeyOk /\ Key(s) # "wmbus/key-ok" /\ Origin(s) # Connector
    BY SlotFacts, AttributeAssumption
  <2>2. CASE Origin(s) \notin origins
    BY <1>1, <1>2, <1>3, <2>1, <2>2 DEF KeptOrPutBack, SameAttribute
  <2>3. CASE Origin(s) \in origins
    <3>1. Origin(s) \in LegacyOrigins(fresh[h]) \cap held[h]
      BY <1>4, <1>6, <2>1, <2>3
    <3>2. s \in DOMAIN stored' <=> s \in CarriedSlots(h)
      BY <1>1, <1>2, <2>1, <2>3
    <3>3. s \in CarriedSlots(h) <=> s \in DOMAIN fresh[h]
      BY <1>3, <2>1, <2>3
    <3>4. s \in DOMAIN stored' => stored'[s] = fresh[h][s]
      BY <1>1, <1>2, <3>2
    <3> QED
      BY <3>1, <3>2, <3>3, <3>4 DEF KeptOrPutBack
  <2> QED
    BY <2>2, <2>3
<1> DEFINE anonymous == <<"wmbus/last_seen", NoOrigin>>
<1>10. anonymous \notin DOMAIN stored /\ anonymous \notin DOMAIN fresh[h]
  BY DEF AttributeInv, NamedReceivers
<1>11. Key(anonymous) = "wmbus/last_seen"
  BY DEF Key
<1>12. \A s \in SeenSlots : s # anonymous => Origin(s) \notin origins
  <2>1. \A s \in SeenSlots : s # anonymous => Origin(s) # NoOrigin
    BY SlotFacts
  <2>2. \A s \in SeenSlots : Origin(s) \in Nimbuses
    BY SlotFacts
  <2> QED
    BY <1>1, <2>1, <2>2, AttributeAssumption
<1> HIDE DEF anonymous
<1>13. anonymous \notin DOMAIN stored'
  BY <1>1, <1>2, <1>3, <1>10, <1>11, SlotFacts
<1>14. \A s \in SeenSlots \cup {OwnKeyOk} :
        s \in DOMAIN stored => s \in DOMAIN stored'
  BY <1>1, <1>2, <1>10, <1>12
<1> QED
  BY <1>7, <1>8, <1>9, <1>13, <1>14 DEF StoredWell, anonymous

-----------------------------------------------------------------------------
(* The owner's edit. *)

LEMMA OwnerEdit ==
  ASSUME AttributeInv, NEW o \in UserOrigins, Edit(o)
  PROVE  StoredWell
<1> DEFINE slot == <<"wmbus/key", o>>
<1>1. /\ DOMAIN stored \ {slot} \subseteq DOMAIN stored'
      /\ DOMAIN stored' \subseteq DOMAIN stored \cup {slot}
      /\ \A s \in DOMAIN stored' :
           \/ stored'[s] \in {"right", "wrong"}
           \/ /\ s \in DOMAIN stored
              /\ stored'[s] = stored[s]
  <2>1. CASE \E value \in {"right", "wrong"} :
               stored' = [s \in DOMAIN stored \cup {slot} |->
                            IF s = slot THEN value ELSE stored[s]]
    <3>1. PICK value \in {"right", "wrong"} :
            stored' = [s \in DOMAIN stored \cup {slot} |->
                         IF s = slot THEN value ELSE stored[s]]
      BY <2>1
    <3> HIDE DEF slot
    <3>2. DOMAIN stored' = DOMAIN stored \cup {slot}
      BY <3>1
    <3>3. \A s \in DOMAIN stored' :
            stored'[s] = IF s = slot THEN value ELSE stored[s]
      BY <3>1
    <3> QED
      BY <3>2, <3>3
  <2>2. CASE stored' = [s \in DOMAIN stored \ {slot} |-> stored[s]]
    <3> HIDE DEF slot
    <3> QED
      BY <2>2
  <2> QED
    BY <2>1, <2>2 DEF Edit
<1>2. /\ slot \in Slots /\ slot # OwnKeyOk /\ ~IsLegacyKeyOk(slot)
      /\ \A s \in SeenSlots : s # slot
      /\ slot # <<"wmbus/last_seen", NoOrigin>>
  <2>1. slot \in KeySlots /\ Key(slot) = "wmbus/key"
    BY SlotFacts
  <2>2. Key(<<"wmbus/last_seen", NoOrigin>>) = "wmbus/last_seen"
    BY DEF Key
  <2> QED
    BY <2>1, <2>2, SlotFacts DEF IsLegacyKeyOk
<1> HIDE DEF slot
<1>3. IsAttributes(stored) /\ <<"wmbus/last_seen", NoOrigin>> \notin DOMAIN stored
  BY DEF AttributeInv, TypeOK, NamedReceivers
<1>4. IsAttributes(stored')
  BY <1>1, <1>2, <1>3 DEF IsAttributes, Values
<1>5. LegacyOrigins(stored') \subseteq LegacyOrigins(stored)
  BY <1>1, <1>2 DEF LegacyOrigins
<1> QED
  BY <1>1, <1>2, <1>3, <1>4, <1>5 DEF StoredWell

(* Every step, seen from the stored attributes. *)
LEMMA StoredStep ==
  ASSUME AttributeInv, [Next]_vars
  PROVE  StoredWell /\ (edits' = edits => \A s \in KeySlots : KeptOrPutBack(s))
<1>1. CASE UNCHANGED stored
  <2>1. IsAttributes(stored) /\ <<"wmbus/last_seen", NoOrigin>> \notin DOMAIN stored
    BY DEF AttributeInv, TypeOK, NamedReceivers
  <2> QED
    BY <1>1, <2>1 DEF StoredWell, KeptOrPutBack, SameAttribute, LegacyOrigins, IsAttributes
<1>2. CASE \E h \in Handlers :
             /\ pc[h] = "put_seen"
             /\ stored' = SetSameOrigin({nimbus[h]}, SeenAttribute(nimbus[h]))
  BY <1>2, ReceiverWrite DEF KeptOrPutBack
<1>3. CASE \E h \in Handlers :
             /\ pc[h] = "put_key_ok"
             /\ stored' = SetSameOrigin(WriteOrigins(h), CarriedAttributes(h))
  BY <1>3, StatusWrite
<1>4. CASE \E o \in UserOrigins : Edit(o)
  <2>1. edits' # edits
    BY <1>4 DEF Edit, AttributeInv, TypeOK
  <2> QED
    BY <1>4, <2>1, OwnerEdit
<1>5. \/ UNCHANGED stored
      \/ \E h \in Handlers :
           /\ pc[h] = "put_seen"
           /\ stored' = SetSameOrigin({nimbus[h]}, SeenAttribute(nimbus[h]))
      \/ \E h \in Handlers :
           /\ pc[h] = "put_key_ok"
           /\ stored' = SetSameOrigin(WriteOrigins(h), CarriedAttributes(h))
      \/ \E o \in UserOrigins : Edit(o)
  BY DEF Next, vars, Receive, Record, Fails, CheckSeen, MarkSeen, PutSeen,
         Decode, CheckWritten, ReadDevice, PutKeyOk, NoteWritten, Leave,
         RecordFails, UpdateFails, DeviceExpires, SeenExpires, WrittenExpires
<1> QED
  BY <1>1, <1>2, <1>3, <1>4, <1>5

-----------------------------------------------------------------------------
(* The invariant. *)

TelegramTypes ==
  /\ pc \in [Handlers -> Steps]
  /\ nimbus \in [Handlers -> Nimbuses \cup {NoOrigin}]
  /\ DOMAIN device = Handlers
  /\ \A h \in Handlers : IsAttributes(device[h])
  /\ keyOk \in [Handlers -> {"none", "true", "false"}]
  /\ DOMAIN fresh = Handlers
  /\ \A h \in Handlers : IsAttributes(fresh[h])
  /\ held \in [Handlers -> SUBSET UserOrigins]

LEMMA FinishTypes ==
  ASSUME TelegramTypes, NEW h \in Handlers, Finish(h)
  PROVE  TelegramTypes'
BY NothingHeld DEF TelegramTypes, Finish, Steps

LEMMA GotoTypes ==
  ASSUME TelegramTypes, NEW h \in Handlers, NEW step \in Steps, Goto(h, step)
  PROVE  TelegramTypes'
BY DEF TelegramTypes, Goto, telegramVars

LEMMA TypeStep ==
  ASSUME AttributeInv, [Next]_vars
  PROVE  TypeOK'
<1>1. TypeOK /\ TelegramTypes
  BY DEF AttributeInv, TypeOK, TelegramTypes
<1>2. IsAttributes(stored')
  BY StoredStep DEF StoredWell
<1>3. TelegramTypes'
  <2>1. ASSUME NEW h \in Handlers, Receive(h) PROVE TelegramTypes'
    <3>1. PICK d \in IF cached = {} THEN {WithDefaults(stored)} ELSE cached :
            device' = [device EXCEPT ![h] = d]
      BY <2>1 DEF Receive
    <3>2. IsAttributes(d)
      BY <1>1, <3>1, LegacyOfDefaults DEF TypeOK
    <3>3. LegacyOrigins(stored) \subseteq UserOrigins
      BY <1>1, LegacyOfUsers DEF TypeOK
    <3> QED
      BY <1>1, <2>1, <3>1, <3>2, <3>3 DEF Receive, TelegramTypes, Steps
  <2>2. ASSUME NEW h \in Handlers, Record(h) \/ RecordFails(h)
        PROVE  TelegramTypes'
    <3>1. PICK step \in Steps : Goto(h, step)
      BY <2>2 DEF Record, CheckSeen, MarkSeen, PutSeen, RecordFails, Steps
    <3> QED
      BY <1>1, <3>1, GotoTypes
  <2>3. ASSUME NEW h \in Handlers, Decode(h) PROVE TelegramTypes'
    <3>1. CASE Finish(h)
      BY <1>1, <3>1, FinishTypes
    <3>2. CASE ~Finish(h)
      BY <1>1, <2>3, <3>2 DEF Decode, Truth, TelegramTypes, Steps
    <3> QED
      BY <3>1, <3>2
  <2>4. ASSUME NEW h \in Handlers,
               CheckWritten(h) \/ PutKeyOk(h) \/ NoteWritten(h) \/ Leave(h) \/ UpdateFails(h)
        PROVE  TelegramTypes'
    <3>1. Finish(h) \/ \E step \in Steps : Goto(h, step)
      BY <2>4 DEF CheckWritten, PutKeyOk, NoteWritten, Leave, UpdateFails, Steps
    <3> QED
      BY <1>1, <3>1, FinishTypes, GotoTypes
  <2>5. ASSUME NEW h \in Handlers, ReadDevice(h) PROVE TelegramTypes'
    <3>1. IsAttributes(WithDefaults(stored))
      BY <1>1, LegacyOfDefaults DEF TypeOK
    <3> QED
      BY <1>1, <2>5, <3>1 DEF ReadDevice, TelegramTypes, Steps
  <2>6. CASE UNCHANGED <<pc, telegramVars>>
    BY <1>1, <2>6 DEF TelegramTypes, telegramVars
  <2> QED
    BY <2>1, <2>2, <2>3, <2>4, <2>5, <2>6
    DEF Next, vars, Fails, Edit, DeviceExpires, SeenExpires, WrittenExpires
<1>4. (\A d \in cached : IsAttributes(d))'
  <2>1. ASSUME NEW h \in Handlers, Receive(h) PROVE \A d \in cached' : IsAttributes(d)
    BY <1>1, <2>1, LegacyOfDefaults DEF Receive, TypeOK
  <2>2. cached' \subseteq cached => \A d \in cached' : IsAttributes(d)
    BY <1>1 DEF TypeOK
  <2> QED
    BY <2>1, <2>2
    DEF Next, vars, cacheVars, Record, Fails, CheckSeen, MarkSeen, PutSeen,
        Decode, CheckWritten, ReadDevice, PutKeyOk, NoteWritten, Leave,
        RecordFails, UpdateFails, Edit, DeviceExpires, SeenExpires,
        WrittenExpires
<1>5. older' \in BOOLEAN
  BY <1>1
  DEF TypeOK, Next, vars, cacheVars, Receive, Record, Fails, CheckSeen,
      MarkSeen, PutSeen, Decode, CheckWritten, ReadDevice, PutKeyOk,
      NoteWritten, Leave, RecordFails, UpdateFails, Edit, DeviceExpires,
      SeenExpires, WrittenExpires
<1>6. seen' \subseteq Nimbuses /\ written' \in {"none", "true", "false"}
  <2>1. ASSUME NEW h \in Handlers, MarkSeen(h) PROVE nimbus[h] \in Nimbuses
    BY <1>1, <2>1 DEF MarkSeen, AttributeInv, NamedReceivers, TypeOK
  <2> QED
    BY <1>1, <2>1
    DEF TypeOK, Next, vars, cacheVars, Receive, Record, Fails, CheckSeen,
        MarkSeen, PutSeen, Decode, CheckWritten, ReadDevice, PutKeyOk,
        NoteWritten, Leave, RecordFails, UpdateFails, Edit, DeviceExpires,
        SeenExpires, WrittenExpires
<1>7. edits' \in 0..MaxEdits
  <2>1. ASSUME NEW o \in UserOrigins, Edit(o) PROVE edits' \in 0..MaxEdits
    BY <1>1, <2>1, AttributeAssumption DEF TypeOK, Edit
  <2>2. UNCHANGED edits => edits' \in 0..MaxEdits
    BY <1>1 DEF TypeOK
  <2> QED
    BY <2>1, <2>2
    DEF Next, vars, cacheVars, Receive, Record, Fails, CheckSeen,
      MarkSeen, PutSeen, Decode, CheckWritten, ReadDevice, PutKeyOk,
      NoteWritten, Leave, RecordFails, UpdateFails, Edit, DeviceExpires,
      SeenExpires, WrittenExpires
<1> QED
  BY <1>2, <1>3, <1>4, <1>5, <1>6, <1>7 DEF TypeOK, TelegramTypes

(* What Finish and Goto do to the handlers' variables, one by one. *)
LEMMA MovePointwise ==
  ASSUME TelegramTypes, NEW h \in Handlers
  PROVE  /\ Finish(h) =>
              /\ pc'[h] = "idle" /\ nimbus'[h] = NoOrigin
              /\ fresh'[h] = NoAttributes /\ held'[h] = {}
              /\ \A g \in Handlers \ {h} :
                   /\ pc'[g] = pc[g] /\ nimbus'[g] = nimbus[g]
                   /\ fresh'[g] = fresh[g] /\ held'[g] = held[g]
                   /\ keyOk'[g] = keyOk[g]
         /\ \A step : Goto(h, step) =>
              /\ pc'[h] = step /\ UNCHANGED <<nimbus, fresh, held, keyOk>>
              /\ \A g \in Handlers \ {h} : pc'[g] = pc[g]
BY DEF TelegramTypes, Finish, Goto, telegramVars

LEMMA ProgramStep ==
  ASSUME AttributeInv, [Next]_vars
  PROVE  NamedReceivers' /\ HeldLegacy' /\ StatusKnown'
<1>1. TypeOK /\ TelegramTypes /\ NamedReceivers /\ HeldLegacy /\ StatusKnown
  BY DEF AttributeInv, TypeOK, TelegramTypes
<1>2. /\ <<"wmbus/last_seen", NoOrigin>> \notin DOMAIN stored'
      /\ LegacyOrigins(stored') \subseteq LegacyOrigins(stored)
  BY StoredStep DEF StoredWell
<1> DEFINE Ok(g) ==
      /\ <<"wmbus/last_seen", NoOrigin>> \notin DOMAIN fresh'[g]
      /\ pc'[g] \in {"mark", "put_seen"} => nimbus'[g] # NoOrigin
      /\ pc'[g] # "idle" => LegacyOrigins(stored) \subseteq held'[g]
      /\ LegacyOrigins(fresh'[g]) \subseteq held'[g]
      /\ pc'[g] = "idle" => LegacyOrigins(fresh'[g]) = {}
      /\ pc'[g] \in {"check", "read", "put_key_ok", "note"} => keyOk'[g] # "none"
<1>3. SUFFICES \A g \in Handlers : Ok(g)
  BY <1>2 DEF NamedReceivers, HeldLegacy, StatusKnown
<1>4. ASSUME NEW g \in Handlers,
             UNCHANGED <<pc[g], nimbus[g], fresh[g], held[g], keyOk[g]>>
      PROVE  Ok(g)
  BY <1>1, <1>4 DEF NamedReceivers, HeldLegacy, StatusKnown
<1>5. ASSUME NEW h \in Handlers, Finish(h) PROVE \A g \in Handlers : Ok(g)
  <2>1. /\ pc'[h] = "idle" /\ fresh'[h] = NoAttributes
        /\ \A g \in Handlers \ {h} :
             UNCHANGED <<pc[g], nimbus[g], fresh[g], held[g], keyOk[g]>>
    BY <1>1, <1>5, MovePointwise
  <2>2. <<"wmbus/last_seen", NoOrigin>> \notin DOMAIN NoAttributes
    BY DEF NoAttributes
  <2>3. Ok(h)
    BY <2>1, <2>2, NothingHeld
  <2> HIDE DEF Ok
  <2> QED
    BY <1>4, <2>1, <2>3
<1>6. ASSUME NEW h \in Handlers, NEW step, Goto(h, step), pc[h] # "idle",
             step # "idle", step \in {"mark", "put_seen"} => nimbus[h] # NoOrigin,
             step \in {"check", "read", "put_key_ok", "note"} => keyOk[h] # "none"
      PROVE  \A g \in Handlers : Ok(g)
  <2>1. /\ pc'[h] = step /\ UNCHANGED <<nimbus, fresh, held, keyOk>>
        /\ \A g \in Handlers \ {h} : pc'[g] = pc[g]
    BY <1>1, <1>6, MovePointwise
  <2>2. Ok(h)
    BY <1>1, <1>6, <2>1 DEF NamedReceivers, HeldLegacy
  <2> HIDE DEF Ok
  <2> QED
    BY <1>4, <2>1, <2>2
<1>7. ASSUME NEW h \in Handlers, Receive(h) PROVE \A g \in Handlers : Ok(g)
  <2>1. /\ pc'[h] = "record" /\ held'[h] = LegacyOrigins(stored)
        /\ UNCHANGED <<keyOk, fresh>> /\ pc[h] = "idle"
        /\ \A g \in Handlers \ {h} :
             pc'[g] = pc[g] /\ held'[g] = held[g] /\ nimbus'[g] = nimbus[g]
    BY <1>1, <1>7 DEF Receive, TelegramTypes
  <2>2. Ok(h)
    BY <1>1, <2>1 DEF NamedReceivers, HeldLegacy
  <2> HIDE DEF Ok
  <2> QED
    BY <1>4, <2>1, <2>2
<1>8. ASSUME NEW h \in Handlers, Record(h) \/ RecordFails(h)
      PROVE  \A g \in Handlers : Ok(g)
  <2>1. PICK step \in {"mark", "put_seen", "decode"} :
          /\ Goto(h, step) /\ pc[h] # "idle"
          /\ step \in {"mark", "put_seen"} => nimbus[h] # NoOrigin
    BY <1>1, <1>8
    DEF Record, RecordFails, CheckSeen, MarkSeen, PutSeen, NamedReceivers
  <2> HIDE DEF Ok
  <2> QED
    BY <1>6, <2>1
<1>9. ASSUME NEW h \in Handlers, Decode(h) PROVE \A g \in Handlers : Ok(g)
  <2>1. CASE Finish(h)
    BY <1>5, <2>1
  <2>2. CASE ~Finish(h)
    <3>1. /\ pc'[h] = "check" /\ UNCHANGED <<nimbus, fresh, held>>
          /\ pc[h] = "decode" /\ keyOk'[h] # "none"
          /\ \A g \in Handlers \ {h} : pc'[g] = pc[g] /\ keyOk'[g] = keyOk[g]
      BY <1>1, <1>9, <2>2 DEF Decode, Truth, TelegramTypes
    <3>2. Ok(h)
      BY <1>1, <3>1 DEF NamedReceivers, HeldLegacy
    <3> HIDE DEF Ok
    <3> QED
      BY <1>4, <3>1, <3>2
  <2> QED
    BY <2>1, <2>2
<1>10. ASSUME NEW h \in Handlers,
              CheckWritten(h) \/ PutKeyOk(h) \/ NoteWritten(h) \/ Leave(h) \/ UpdateFails(h)
       PROVE  \A g \in Handlers : Ok(g)
  <2>1. \/ Finish(h)
        \/ \E step \in {"read", "put_key_ok", "note"} :
             Goto(h, step) /\ pc[h] # "idle" /\ keyOk[h] # "none"
    BY <1>1, <1>10
    DEF CheckWritten, PutKeyOk, NoteWritten, Leave, UpdateFails, StatusKnown
  <2> HIDE DEF Ok
  <2> QED
    BY <1>5, <1>6, <2>1
<1>11. ASSUME NEW h \in Handlers, ReadDevice(h) PROVE \A g \in Handlers : Ok(g)
  <2>1. /\ pc[h] = "read" /\ pc'[h] = "put_key_ok"
        /\ fresh'[h] = WithDefaults(stored) /\ UNCHANGED <<nimbus, keyOk, held>>
        /\ \A g \in Handlers \ {h} : pc'[g] = pc[g] /\ fresh'[g] = fresh[g]
    BY <1>1, <1>11 DEF ReadDevice, TelegramTypes
  <2>2. LegacyOrigins(WithDefaults(stored)) = LegacyOrigins(stored)
    BY <1>1, LegacyOfDefaults DEF TypeOK
  <2>3. <<"wmbus/last_seen", NoOrigin>> \notin DOMAIN WithDefaults(stored)
    <3>1. <<"wmbus/last_seen", NoOrigin>> # DefaultSlot
      BY DEF DefaultSlot
    <3> QED
      BY <1>1, <3>1 DEF WithDefaults, NamedReceivers
  <2>4. Ok(h)
    BY <1>1, <2>1, <2>2, <2>3 DEF HeldLegacy, StatusKnown
  <2> HIDE DEF Ok
  <2> QED
    BY <1>4, <2>1, <2>4
<1>12. CASE UNCHANGED <<pc, telegramVars>>
  <2>1. UNCHANGED <<pc, nimbus, fresh, held, keyOk>>
    BY <1>12 DEF telegramVars
  <2> HIDE DEF Ok
  <2> QED
    BY <1>4, <2>1
<1> HIDE DEF Ok
<1> QED
  BY <1>7, <1>8, <1>9, <1>10, <1>11, <1>12
  DEF Next, vars, Fails, Edit, DeviceExpires, SeenExpires, WrittenExpires

LEMMA AttributeInit == Init => AttributeInv
<1> SUFFICES ASSUME Init PROVE AttributeInv
  OBVIOUS
<1>1. PICK legacy \in SUBSET UserOrigins :
        stored = [s \in {<<"wmbus/key", NoOrigin>>} \cup ({"wmbus/key-ok"} \X legacy) |->
                    IF Key(s) = "wmbus/key" THEN "wrong" ELSE "true"]
  BY DEF Init
<1>2. DOMAIN stored = {<<"wmbus/key", NoOrigin>>} \cup ({"wmbus/key-ok"} \X legacy)
  BY <1>1
<1>3. \A s \in DOMAIN stored : stored[s] \in {"wrong", "true"}
  BY <1>1
<1>4. {"wmbus/key-ok"} \X legacy \subseteq Slots
  BY DEF Slots, KeyOkSlots
<1>5. <<"wmbus/key", NoOrigin>> \in Slots
  BY AttributeAssumption DEF Slots, KeySlots
<1>6. IsAttributes(stored)
  BY <1>2, <1>3, <1>4, <1>5 DEF IsAttributes, Values
<1>7. <<"wmbus/last_seen", NoOrigin>> \notin DOMAIN stored
  BY <1>2
<1>8. <<"wmbus/last_seen", NoOrigin>> \notin DOMAIN NoAttributes
  BY DEF NoAttributes
<1>9. TypeOK
  <2>1. DOMAIN device = Handlers /\ DOMAIN fresh = Handlers
    BY DEF Init
  <2>2. \A h \in Handlers : IsAttributes(device[h]) /\ IsAttributes(fresh[h])
    BY NothingHeld DEF Init
  <2>3. /\ pc \in [Handlers -> Steps]
        /\ nimbus \in [Handlers -> Nimbuses \cup {NoOrigin}]
        /\ keyOk \in [Handlers -> {"none", "true", "false"}]
        /\ held \in [Handlers -> SUBSET UserOrigins]
    BY DEF Init, Steps
  <2>4. /\ cached = {} /\ older \in BOOLEAN /\ seen \subseteq Nimbuses
        /\ written \in {"none", "true", "false"}
    BY DEF Init
  <2>5. edits \in 0..MaxEdits
    BY AttributeAssumption DEF Init
  <2> QED
    BY <1>6, <2>1, <2>2, <2>3, <2>4, <2>5 DEF TypeOK
<1>10. NamedReceivers /\ HeldLegacy /\ StatusKnown
  BY <1>7, <1>8, NothingHeld DEF Init, NamedReceivers, HeldLegacy, StatusKnown
<1> QED
  BY <1>9, <1>10 DEF AttributeInv

(* Every reachable state is of the declared types, and a handler holds no  *)
(* legacy wmbus/key-ok that was gone when its telegram arrived: the        *)
(* invariant the other theorems rest on.                                   *)
THEOREM AttributeInvariant == Spec => []AttributeInv
<1>1. AttributeInv /\ [Next]_vars => AttributeInv'
  BY TypeStep, ProgramStep DEF AttributeInv
<1> QED
  BY <1>1, AttributeInit, PTL DEF Spec

(* Every reachable state is of the declared types. *)
THEOREM AttributeTypes == Spec => []TypeOK
<1>1. AttributeInv => TypeOK
  BY DEF AttributeInv
<1> QED
  BY <1>1, AttributeInvariant, PTL

(* setSameOriginAttributes and replaceLegacyKeyOk leave the owner's        *)
(* attributes alone, outside the window of replaceLegacyKeyOk.             *)
THEOREM OwnerKept == Spec => OwnersAttributesKept
<1>1. AttributeInv /\ [Next]_vars =>
        [edits' = edits => \A s \in KeySlots : KeptOrPutBack(s)]_vars
  BY StoredStep
<1> QED
  BY <1>1, AttributeInvariant, PTL
  DEF Spec, OwnersAttributesKept, KeptOrPutBack

(* No write of one handler takes away the wmbus/last_seen or wmbus/key-ok  *)
(* another handler has written.                                            *)
THEOREM WrittenKept == Spec => WrittenAttributesKept
<1>1. AttributeInv /\ [Next]_vars =>
        [\A s \in SeenSlots \cup {OwnKeyOk} :
           s \in DOMAIN stored => s \in DOMAIN stored']_vars
  BY StoredStep DEF StoredWell
<1> QED
  BY <1>1, AttributeInvariant, PTL DEF Spec, WrittenAttributesKept

(* A legacy wmbus/key-ok that was replaced does not come back. *)
THEOREM LegacyGone == Spec => LegacyStaysGone
<1>1. AttributeInv /\ [Next]_vars =>
        [LegacyOrigins(stored') \subseteq LegacyOrigins(stored)]_vars
  BY StoredStep DEF StoredWell
<1> QED
  BY <1>1, AttributeInvariant, PTL DEF Spec, LegacyStaysGone

-----------------------------------------------------------------------------
(* The status that has got right. *)

(* A copy of the device and a status a handler is about to write tell the  *)
(* truth, and what replaceLegacyKeyOk would put back is what is stored.    *)
Agrees(h) ==
  /\ pc[h] \in {"record", "mark", "put_seen", "decode"} =>
       Truth(device[h]) = Truth(stored)
  /\ pc[h] \in {"check", "read", "put_key_ok"} => keyOk[h] = Truth(stored)
  /\ \A s \in KeySlots : Origin(s) \in LegacyOrigins(fresh[h]) =>
       /\ s \in DOMAIN fresh[h] <=> s \in DOMAIN stored
       /\ s \in DOMAIN stored => fresh[h][s] = stored[s]

(* The stored status is right, and no copy is about to spoil it.           *)
Converged ==
  /\ Settled
  /\ \A d \in cached : Truth(d) = Truth(stored)
  /\ \A h \in Handlers : Agrees(h)

(* The outcome of a decryption depends on the wmbus/key attributes alone,  *)
(* which the account defaults do not contain.                              *)
LEMMA TruthOfKeys ==
  ASSUME NEW a, NEW b, IsAttributes(a), IsAttributes(b),
         \A s \in KeySlots : /\ s \in DOMAIN a <=> s \in DOMAIN b
                             /\ s \in DOMAIN a => b[s] = a[s]
  PROVE  Truth(a) = Truth(b)
<1>1. \A s \in Slots : Key(s) = "wmbus/key" => s \in KeySlots
  BY DEF Slots, KeySlots, KeyOkSlots, SeenSlots, Key
<1>2. Decrypts(a) <=> Decrypts(b)
  BY <1>1 DEF Decrypts, IsAttributes
<1> QED
  BY <1>2 DEF Truth

LEMMA TruthOfDefaults ==
  ASSUME NEW a, IsAttributes(a)
  PROVE  Truth(WithDefaults(a)) = Truth(a)
<1>1. \A s \in KeySlots : s # DefaultSlot
  BY SlotFacts
<1>2. \A s \in KeySlots : /\ s \in DOMAIN a <=> s \in DOMAIN WithDefaults(a)
                          /\ s \in DOMAIN a => WithDefaults(a)[s] = a[s]
  BY <1>1 DEF WithDefaults
<1> QED
  BY <1>2, LegacyOfDefaults, TruthOfKeys

(* The stored status changes to what a handler has decoded only.           *)
LEMMA StatusOfHandler ==
  ASSUME AttributeInv, [Next]_vars, OwnKeyOk \in DOMAIN stored
  PROVE  \/ stored'[OwnKeyOk] = stored[OwnKeyOk]
         \/ \E h \in Handlers : pc[h] = "put_key_ok" /\ stored'[OwnKeyOk] = keyOk[h]
<1>1. CASE \E h \in Handlers :
             /\ pc[h] = "put_seen"
             /\ stored' = SetSameOrigin({nimbus[h]}, SeenAttribute(nimbus[h]))
  <2>1. PICK h \in Handlers :
          /\ pc[h] = "put_seen"
          /\ stored' = SetSameOrigin({nimbus[h]}, SeenAttribute(nimbus[h]))
    BY <1>1
  <2>2. nimbus[h] \in Nimbuses /\ nimbus[h] # Connector
    BY <2>1, AttributeAssumption DEF AttributeInv, TypeOK, NamedReceivers
  <2>3. OwnKeyOk \notin DOMAIN SeenAttribute(nimbus[h])
    BY DEF SeenAttribute, OwnKeyOk
  <2> QED
    BY <2>1, <2>2, <2>3, SlotFacts DEF SetSameOrigin
<1>2. CASE \E h \in Handlers :
             /\ pc[h] = "put_key_ok"
             /\ stored' = SetSameOrigin(WriteOrigins(h), CarriedAttributes(h))
  BY <1>2 DEF SetSameOrigin, CarriedAttributes
<1>3. CASE \E o \in UserOrigins : Edit(o)
  <2>1. \A o \in UserOrigins : OwnKeyOk # <<"wmbus/key", o>>
    BY DEF OwnKeyOk
  <2> QED
    BY <1>3, <2>1 DEF Edit
<1> QED
  BY <1>1, <1>2, <1>3
  DEF Next, vars, Receive, Record, Fails, CheckSeen, MarkSeen, PutSeen,
      Decode, CheckWritten, ReadDevice, PutKeyOk, NoteWritten, Leave,
      RecordFails, UpdateFails, DeviceExpires, SeenExpires, WrittenExpires

(* What is stored stays right when the owner does not edit the device.     *)
LEMMA SettledStep ==
  ASSUME AttributeInv, Converged, [Next]_vars, edits' = edits
  PROVE  /\ Settled' /\ Truth(stored') = Truth(stored)
         /\ \A s \in KeySlots : SameAttribute(s)
<1>1. \A s \in KeySlots : SameAttribute(s)
  BY StoredStep DEF KeptOrPutBack, Converged, Agrees, SameAttribute
<1>2. IsAttributes(stored) /\ IsAttributes(stored')
  BY StoredStep DEF AttributeInv, TypeOK, StoredWell
<1>3. Truth(stored) = Truth(stored')
  BY <1>1, <1>2, TruthOfKeys DEF SameAttribute
<1>4. OwnKeyOk \in DOMAIN stored'
  BY StoredStep DEF StoredWell, Converged, Settled
<1>5. stored'[OwnKeyOk] = Truth(stored)
  BY StatusOfHandler DEF Converged, Settled, Agrees
<1>6. ~HasLegacy(stored')
  BY StoredStep DEF StoredWell, Converged, Settled, HasLegacy, LegacyOrigins
<1> QED
  BY <1>1, <1>3, <1>4, <1>5, <1>6 DEF Settled

LEMMA ConvergedStep ==
  ASSUME AttributeInv, Converged, [Next]_vars, edits' = edits
  PROVE  Converged'
<1>1. /\ Settled' /\ Truth(stored') = Truth(stored)
      /\ \A s \in KeySlots : SameAttribute(s)
  BY SettledStep
<1>2. TypeOK /\ TelegramTypes
  BY DEF AttributeInv, TypeOK, TelegramTypes
<1>3. Truth(WithDefaults(stored)) = Truth(stored)
  BY <1>2, TruthOfDefaults DEF TypeOK
<1>4. \A d \in cached' : Truth(d) = Truth(stored)
  BY <1>3
  DEF Converged, Next, vars, cacheVars, Receive, Record, Fails, CheckSeen,
      MarkSeen, PutSeen, Decode, CheckWritten, ReadDevice, PutKeyOk,
      NoteWritten, Leave, RecordFails, UpdateFails, Edit, DeviceExpires,
      SeenExpires, WrittenExpires
<1> DEFINE Agreed(g) == Agrees(g)'
<1>5. ASSUME NEW g \in Handlers, UNCHANGED <<device[g], keyOk[g], fresh[g]>>,
             \/ pc'[g] \in {"idle", "note", pc[g]}
             \/ /\ pc[g] \in {"record", "mark", "put_seen"}
                /\ pc'[g] \in {"mark", "put_seen", "decode"}
             \/ /\ pc[g] \in {"check", "read", "put_key_ok"}
                /\ pc'[g] \in {"read", "put_key_ok"}
      PROVE  Agreed(g)
  <2>1. Agrees(g)
    BY DEF Converged
  <2>2. /\ pc'[g] \in {"record", "mark", "put_seen", "decode"} =>
             Truth(device'[g]) = Truth(stored')
        /\ pc'[g] \in {"check", "read", "put_key_ok"} => keyOk'[g] = Truth(stored')
    BY <1>1, <1>5, <2>1 DEF Agrees
  <2>3. \A s \in KeySlots : Origin(s) \in LegacyOrigins(fresh'[g]) =>
          /\ s \in DOMAIN fresh'[g] <=> s \in DOMAIN stored'
          /\ s \in DOMAIN stored' => fresh'[g][s] = stored'[s]
    BY <1>1, <1>5, <2>1 DEF Agrees, SameAttribute
  <2> QED
    BY <2>2, <2>3 DEF Agrees
<1>6. ASSUME NEW h \in Handlers, Finish(h) PROVE \A g \in Handlers : Agreed(g)
  <2>1. /\ pc'[h] = "idle" /\ fresh'[h] = NoAttributes
        /\ \A g \in Handlers \ {h} :
             UNCHANGED <<pc[g], device[g], keyOk[g], fresh[g]>>
    BY <1>2, <1>6 DEF TelegramTypes, Finish
  <2>2. Agreed(h)
    BY <2>1, NothingHeld DEF Agrees
  <2> QED
    BY <1>5, <2>1, <2>2
<1>7. ASSUME NEW h \in Handlers, NEW step, Goto(h, step),
             \/ step = "note"
             \/ /\ pc[h] \in {"record", "mark", "put_seen"}
                /\ step \in {"mark", "put_seen", "decode"}
             \/ /\ pc[h] \in {"check", "read", "put_key_ok"}
                /\ step \in {"read", "put_key_ok"}
      PROVE  \A g \in Handlers : Agreed(g)
  <2>1. /\ pc'[h] = step /\ UNCHANGED <<device, keyOk, fresh>>
        /\ \A g \in Handlers \ {h} : pc'[g] = pc[g]
    BY <1>2, <1>7 DEF TelegramTypes, Goto, telegramVars
  <2> QED
    BY <1>5, <1>7, <2>1
<1>8. ASSUME NEW h \in Handlers, Receive(h) PROVE \A g \in Handlers : Agreed(g)
  <2>1. PICK d \in IF cached = {} THEN {WithDefaults(stored)} ELSE cached :
          device' = [device EXCEPT ![h] = d]
    BY <1>8 DEF Receive
  <2>2. /\ pc'[h] = "record" /\ device'[h] = d /\ UNCHANGED <<keyOk, fresh>>
        /\ \A g \in Handlers \ {h} : UNCHANGED <<pc[g], device[g]>>
    BY <1>2, <1>8, <2>1 DEF Receive, TelegramTypes
  <2>3. Truth(d) = Truth(stored')
    BY <1>1, <1>3, <2>1 DEF Converged
  <2>4. LegacyOrigins(fresh[h]) = {}
    BY <1>8 DEF Receive, AttributeInv, HeldLegacy
  <2>5. Agreed(h)
    BY <2>2, <2>3, <2>4 DEF Agrees
  <2> QED
    BY <1>5, <2>2, <2>5
<1>9. ASSUME NEW h \in Handlers, Record(h) \/ RecordFails(h)
      PROVE  \A g \in Handlers : Agreed(g)
  <2>1. PICK step \in {"mark", "put_seen", "decode"} :
          Goto(h, step) /\ pc[h] \in {"record", "mark", "put_seen"}
    BY <1>9 DEF Record, RecordFails, CheckSeen, MarkSeen, PutSeen
  <2> HIDE DEF Agreed
  <2> QED
    BY <1>7, <2>1
<1>10. ASSUME NEW h \in Handlers, Decode(h) PROVE \A g \in Handlers : Agreed(g)
  <2>1. CASE Finish(h)
    BY <1>6, <2>1
  <2>2. CASE ~Finish(h)
    <3>1. /\ pc[h] = "decode" /\ pc'[h] = "check" /\ UNCHANGED <<device, fresh>>
          /\ keyOk'[h] = Truth(device[h])
          /\ \A g \in Handlers \ {h} : UNCHANGED <<pc[g], keyOk[g]>>
      BY <1>2, <1>10, <2>2 DEF Decode, TelegramTypes
    <3>2. Agrees(h)
      BY DEF Converged
    <3>3. keyOk'[h] = Truth(stored')
      BY <1>1, <3>1, <3>2 DEF Agrees
    <3>4. \A s \in KeySlots : Origin(s) \in LegacyOrigins(fresh'[h]) =>
            /\ s \in DOMAIN fresh'[h] <=> s \in DOMAIN stored'
            /\ s \in DOMAIN stored' => fresh'[h][s] = stored'[s]
      BY <1>1, <3>1, <3>2 DEF Agrees, SameAttribute
    <3>5. Agreed(h)
      BY <3>1, <3>3, <3>4 DEF Agrees
    <3> QED
      BY <1>5, <3>1, <3>5
  <2> QED
    BY <2>1, <2>2
<1>11. ASSUME NEW h \in Handlers,
              CheckWritten(h) \/ PutKeyOk(h) \/ NoteWritten(h) \/ Leave(h) \/ UpdateFails(h)
       PROVE  \A g \in Handlers : Agreed(g)
  <2>1. \/ Finish(h)
        \/ Goto(h, "note")
        \/ \E step \in {"read", "put_key_ok"} : Goto(h, step) /\ pc[h] = "check"
    BY <1>11 DEF CheckWritten, PutKeyOk, NoteWritten, Leave, UpdateFails
  <2> HIDE DEF Agreed
  <2> QED
    BY <1>6, <1>7, <2>1
<1>12. ASSUME NEW h \in Handlers, ReadDevice(h) PROVE \A g \in Handlers : Agreed(g)
  <2>1. /\ pc[h] = "read" /\ pc'[h] = "put_key_ok" /\ UNCHANGED <<device, keyOk>>
        /\ fresh'[h] = WithDefaults(stored)
        /\ \A g \in Handlers \ {h} : UNCHANGED <<pc[g], fresh[g]>>
    BY <1>2, <1>12 DEF ReadDevice, TelegramTypes
  <2>2. LegacyOrigins(WithDefaults(stored)) = {}
    <3>1. LegacyOrigins(stored) = {}
      BY DEF Converged, Settled, HasLegacy, LegacyOrigins
    <3> QED
      BY <1>2, <3>1, LegacyOfDefaults DEF TypeOK
  <2>3. keyOk[h] = Truth(stored)
    BY <2>1 DEF Converged, Agrees
  <2>4. Agreed(h)
    BY <1>1, <2>1, <2>2, <2>3 DEF Agrees
  <2> QED
    BY <1>5, <2>1, <2>4
<1>13. ASSUME UNCHANGED <<pc, telegramVars>> PROVE \A g \in Handlers : Agreed(g)
  <2>1. UNCHANGED <<pc, device, keyOk, fresh>>
    BY <1>13 DEF telegramVars
  <2> HIDE DEF Agreed
  <2> QED
    BY <1>5, <2>1
<1>14. \A g \in Handlers : Agreed(g)
  <2> HIDE DEF Agreed
  <2> QED
    BY <1>8, <1>9, <1>10, <1>11, <1>12, <1>13
    DEF Next, vars, Fails, Edit, DeviceExpires, SeenExpires, WrittenExpires
<1> QED
  BY <1>1, <1>4, <1>14 DEF Converged

(* nimbus.go:324-355: once the stored wmbus/key-ok is right and neither a  *)
(* cached device nor a telegram under way contradicts it, only an edit of  *)
(* the owner makes it wrong: old notes, failing requests, requests that    *)
(* are carried out although they fail, and expiring caches do not.  That   *)
(* the device gets there is KeyOkSettles.                                  *)
THEOREM ConvergedStays ==
  Spec => [][edits' = edits /\ Converged => Converged']_vars
<1>1. AttributeInv /\ [Next]_vars => [edits' = edits /\ Converged => Converged']_vars
  BY ConvergedStep
<1> QED
  BY <1>1, AttributeInvariant, PTL DEF Spec
=============================================================================
