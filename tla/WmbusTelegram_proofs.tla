------------------------ MODULE WmbusTelegram_proofs ------------------------
(***************************************************************************)
(* What TLAPS proves of the telegrams, for any number of handlers,         *)
(* telegrams, fields and keys.                                             *)
(***************************************************************************)
EXTENDS WmbusTelegram, FiniteSetTheorems, TLAPS

(* util.DeviceType: what a handler would make of its telegram is a type. *)
LEMMA NewTypes ==
  ASSUME TypeOK, NEW h \in Handlers
  PROVE  NewType(h) \in TypeValues \ {NoType}
  <1>1. Layout[TelegramOf[h]] \in SUBSET Fields
    BY TelegramAssumption DEF TelegramAssumption
  <1> QED BY <1>1 DEF NewType, TypeValues, NoType

LEMMA TelegramTypeInit == Init => TypeOK
  <1>1. NoType \in TypeValues BY DEF TypeValues
  <1>2. 0 \in 0..MaxFaults BY TelegramAssumption DEF TelegramAssumption
  <1>3. {} \subseteq Telegrams \X {"fields", "nil"} OBVIOUS
  <1> QED BY <1>1, <1>2, <1>3 DEF Init, TypeOK, NoType, Steps

LEMMA TelegramTypeStep ==
  ASSUME TypeOK, [Next]_vars
  PROVE  TypeOK'
  <1> USE DEF TypeOK, Steps
  <1>1. ASSUME NEW h \in Handlers, Receive(h) PROVE TypeOK'
    BY <1>1 DEF Receive, platformVars, cacheVars
  <1>2. ASSUME NEW h \in Handlers, ReadType(h)
        PROVE  cachedType' \in TypeValues /\ existing' \in [Handlers -> TypeValues]
    BY <1>2 DEF ReadType
  <1>3. ASSUME NEW h \in Handlers, DecodePlain(h) PROVE TypeOK'
    BY <1>2, <1>3 DEF DecodePlain, platformVars
  <1>4. ASSUME NEW h \in Handlers, EnsureType(h) PROVE TypeOK'
    BY <1>2, <1>4 DEF EnsureType, platformVars
  <1>5. ASSUME NEW h \in Handlers, UpdateType(h) PROVE TypeOK'
    <2>1. deviceType' \in TypeValues /\ cachedType' \in TypeValues
      BY <1>5, NewTypes DEF UpdateType, TypeValues
    <2>2. QED BY <1>5, <2>1 DEF UpdateType, AfterType, Goto
  <1>6. ASSUME NEW h \in Handlers, KeepType(h) PROVE TypeOK'
    BY <1>6 DEF KeepType, AfterType, Goto, platformVars, cacheVars
  <1>7. ASSUME Fault PROVE faults' \in 0..MaxFaults
    BY <1>7, TelegramAssumption DEF TelegramAssumption, Fault
  <1>8. ASSUME NEW h \in Handlers, CheckDuplicate(h) \/ MarkTelegram(h) PROVE TypeOK'
    <2>1. faults' \in 0..MaxFaults BY <1>7, <1>8 DEF CheckDuplicate, MarkTelegram
    <2>2. TelegramOf[h] \in Telegrams
      BY TelegramAssumption DEF TelegramAssumption
    <2>3. CASE CheckDuplicate(h)
      BY <2>1, <2>3 DEF CheckDuplicate, Goto, Finish, platformVars, cacheVars, TypeValues
    <2>4. CASE MarkTelegram(h)
      BY <2>1, <2>2, <2>4 DEF MarkTelegram, Goto, platformVars
    <2>5. QED BY <1>8, <2>3, <2>4
  <1>9. ASSUME NEW h \in Handlers, CheckRoom(h) \/ PutRoom(h) PROVE TypeOK'
    BY <1>9 DEF CheckRoom, PutRoom, Goto, Finish, platformVars, TypeValues
  <1>10. ASSUME NEW h \in Handlers, TryKeys(h) PROVE TypeOK'
    BY <1>10 DEF TryKeys, Finish, platformVars, cacheVars, TypeValues
  <1>11. ASSUME NEW h \in Handlers
         PROVE  <<TelegramOf[h], decoded[h]>> \in Telegrams \X {"fields", "nil"}
    BY TelegramAssumption DEF TelegramAssumption
  <1>12. ASSUME NEW h \in Handlers, Publish(h) PROVE TypeOK'
    BY <1>11, <1>12 DEF Publish, Finish, cacheVars, TypeValues
  <1>13. ASSUME NEW h \in Handlers, Fails(h) PROVE TypeOK'
    <2>1. deviceType' \in TypeValues BY <1>13, NewTypes DEF Fails
    <2>2. published' \subseteq Telegrams \X {"fields", "nil"}
      BY <1>11, <1>13 DEF Fails
    <2>3. faults' \in 0..MaxFaults BY <1>7, <1>13 DEF Fails
    <2>4. room' \in BOOLEAN BY <1>13 DEF Fails
    <2>5. QED BY <1>13, <2>1, <2>2, <2>3, <2>4 DEF Fails, Finish, cacheVars, TypeValues
  <1>14. CASE Adopt \/ Dismiss
    <2>1. faults' \in 0..MaxFaults BY <1>7, <1>14 DEF Adopt, Dismiss
    <2>2. QED BY <1>14, <2>1 DEF Adopt, Dismiss, cacheVars, handlerVars
  <1>15. CASE Expires
    BY <1>15
    DEF Expires, TypeExpires, LastExpires, NoteExpires, platformVars, handlerVars, TypeValues
  <1>16. CASE UNCHANGED vars
    BY <1>16 DEF vars, platformVars, cacheVars, handlerVars
  <1> QED
    BY <1>1, <1>3, <1>4, <1>5, <1>6, <1>8, <1>9, <1>10, <1>12, <1>13, <1>14, <1>15, <1>16
    DEF Next, Handle

(* handleWmbusEvent: every variable keeps its type, however handlers, owner, *)
(* expiring entries and failing requests follow one another.                 *)
THEOREM TelegramTypes == Spec => []TypeOK
  BY TelegramTypeInit, TelegramTypeStep, PTL DEF Spec

-----------------------------------------------------------------------------
(* What is published. *)

(* The encrypted telegrams of a device that has a right key, but not as    *)
(* its last one.                                                           *)
Wiped ==
  {t \in Encrypted : /\ \E i \in DOMAIN Keys : Keys[i] = "right"
                     /\ Keys[Len(Keys)] # "right"}

NilOnlyWhenWiped == \A t \in Telegrams : <<t, "nil">> \in published => t \in Wiped

(* A plain telegram is decoded from the first step on; an encrypted one    *)
(* comes behind the loop over the keys only with a right key.              *)
DecodedInv ==
  /\ NilOnlyWhenWiped
  /\ \A h \in Handlers :
       /\ pc[h] \in {"ensure", "put", "dedup", "mark"} /\ TelegramOf[h] \notin Encrypted =>
            decoded[h] = "fields"
       /\ pc[h] = "keys" => TelegramOf[h] \in Encrypted
       /\ pc[h] \in {"ensure_again", "put_again", "publish"} =>
            decoded[h] = "fields" \/ TelegramOf[h] \in Wiped

LEMMA DecodedInit == Init => DecodedInv
  BY DEF Init, DecodedInv, NilOnlyWhenWiped

LEMMA DecodedStep ==
  ASSUME TypeOK, DecodedInv, [Next]_vars
  PROVE  DecodedInv'
  <1> USE DEF TypeOK, DecodedInv
  <1>1. ASSUME NEW h \in Handlers, Finish(h), published' = published
        PROVE  DecodedInv'
    BY <1>1 DEF Finish, NilOnlyWhenWiped
  <1>2. ASSUME NEW h \in Handlers, Receive(h) \/ DecodePlain(h) \/ EnsureType(h)
        PROVE  DecodedInv'
    BY <1>2 DEF Receive, DecodePlain, EnsureType, ReadType, platformVars, NilOnlyWhenWiped
  <1>3. ASSUME NEW h \in Handlers, UpdateType(h) \/ KeepType(h) PROVE DecodedInv'
    BY <1>3 DEF UpdateType, KeepType, AfterType, Goto, platformVars, NilOnlyWhenWiped
  <1>4. ASSUME NEW h \in Handlers, CheckDuplicate(h) \/ MarkTelegram(h) PROVE DecodedInv'
    <2>1. CASE Finish(h)
      BY <1>1, <1>4, <2>1 DEF CheckDuplicate, MarkTelegram, platformVars
    <2>2. CASE CheckDuplicate(h) /\ Goto(h, "mark")
      BY <2>2 DEF CheckDuplicate, Goto, platformVars, NilOnlyWhenWiped
    <2>3. CASE MarkTelegram(h)
      BY <2>3 DEF MarkTelegram, Goto, platformVars, NilOnlyWhenWiped
    <2>4. QED BY <1>4, <2>1, <2>2, <2>3 DEF CheckDuplicate
  <1>5. ASSUME NEW h \in Handlers, CheckRoom(h) \/ PutRoom(h) PROVE DecodedInv'
    <2>1. CASE Finish(h)
      BY <1>1, <1>5, <2>1 DEF CheckRoom, PutRoom, platformVars
    <2>2. CASE CheckRoom(h) /\ Goto(h, "put_room")
      BY <2>2 DEF CheckRoom, Goto, platformVars, NilOnlyWhenWiped
    <2>3. QED BY <1>5, <2>1, <2>2 DEF CheckRoom, PutRoom
  <1>6. ASSUME NEW h \in Handlers, TryKeys(h) PROVE DecodedInv'
    <2>1. CASE Finish(h)
      BY <1>1, <1>6, <2>1 DEF TryKeys, platformVars
    <2>2. CASE ~Finish(h)
      <3>1. TelegramOf[h] \in Encrypted /\ \E i \in DOMAIN Keys : Keys[i] = "right"
        BY <1>6, <2>2 DEF TryKeys
      <3>2. /\ pc' = [pc EXCEPT ![h] = "ensure_again"]
            /\ decoded' = [decoded EXCEPT ![h] =
                             IF Keys[Len(Keys)] = "right" THEN "fields" ELSE "nil"]
            /\ published' = published
        BY <1>6, <2>2 DEF TryKeys, platformVars
      <3>3. decoded'[h] = "fields" \/ TelegramOf[h] \in Wiped
        BY <3>1, <3>2 DEF Wiped
      <3>4. QED BY <3>2, <3>3 DEF NilOnlyWhenWiped
    <2>3. QED BY <2>1, <2>2
  <1>7. ASSUME NEW h \in Handlers, pc[h] = "publish", Finish(h),
               published' \in {published, published \cup {<<TelegramOf[h], decoded[h]>>}}
        PROVE  DecodedInv'
    <2>1. NilOnlyWhenWiped' BY <1>7 DEF NilOnlyWhenWiped
    <2>2. QED BY <1>7, <2>1 DEF Finish
  <1>8. ASSUME NEW h \in Handlers, Publish(h) PROVE DecodedInv'
    BY <1>7, <1>8 DEF Publish
  <1>9. ASSUME NEW h \in Handlers, Fails(h) PROVE DecodedInv'
    <2>1. CASE pc[h] = "publish" BY <1>7, <1>9, <2>1 DEF Fails
    <2>2. CASE pc[h] # "publish" BY <1>1, <1>9, <2>2 DEF Fails
    <2>3. QED BY <2>1, <2>2
  <1>10. CASE Adopt \/ Dismiss \/ Expires
    BY <1>10 DEF Adopt, Dismiss, Expires, TypeExpires, LastExpires, NoteExpires,
                 platformVars, handlerVars, NilOnlyWhenWiped
  <1>11. CASE UNCHANGED vars
    BY <1>11 DEF vars, platformVars, handlerVars, NilOnlyWhenWiped
  <1> QED
    BY <1>2, <1>3, <1>4, <1>5, <1>6, <1>8, <1>9, <1>10, <1>11 DEF Next, Handle

(* nimbus.go:173-184: nil is published for no other telegrams than those   *)
(* that a right key decrypts before the last key of the device fails.      *)
THEOREM NilIsWiped == Spec => []NilOnlyWhenWiped
  <1>1. DecodedInv => NilOnlyWhenWiped BY DEF DecodedInv
  <1> QED BY <1>1, TelegramTypes, DecodedInit, DecodedStep, PTL DEF Spec

(* nimbus.go:56: with the right key last, or with no right key at all,     *)
(* what is published is the decoded message.                               *)
THEOREM DecodedIsPublished ==
  ASSUME (\E i \in DOMAIN Keys : Keys[i] = "right") => Keys[Len(Keys)] = "right"
  PROVE  Spec => []PublishedIsDecoded
  <1>1. NilOnlyWhenWiped => PublishedIsDecoded
    BY DEF NilOnlyWhenWiped, PublishedIsDecoded, Wiped
  <1> QED BY <1>1, NilIsWiped, PTL

-----------------------------------------------------------------------------
(* The device type that has settled. *)

(* wmbusDeviceTypeNeedsUpdate: the type of the richest telegram needs no   *)
(* update, whatever a handler decoded.                                     *)
LEMMA RichestNeedsNoUpdate ==
  ASSUME TypeOK, NEW t \in Telegrams, Richer(t), NEW h \in Handlers
  PROVE  ~NeedsUpdate({Layout[t]}, NewType(h))
  <1>1. Layout[t] \in SUBSET Fields /\ TelegramOf[h] \in Telegrams
    BY TelegramAssumption DEF TelegramAssumption
  <1>2. IsFiniteSet(Layout[t])
    BY <1>1, TelegramAssumption, FS_Subset DEF TelegramAssumption
  <1>3. /\ Cardinality(Layout[t]) \in Nat /\ Cardinality({}) = 0
        /\ Cardinality(Layout[t]) = 0 => Layout[t] = {}
    BY <1>2, FS_CardinalityType, FS_EmptySet
  <1>4. \A s : Size({s}) = Cardinality(s)
    BY DEF Size
  <1>5. CASE NewType(h) = {{}}
    <2>1. Size({{}}) = 0 BY <1>3, <1>4
    <2>2. Size({Layout[t]}) = Cardinality(Layout[t]) BY <1>4
    <2>3. CASE Cardinality(Layout[t]) = 0
      <3>1. {Layout[t]} = NewType(h) BY <1>3, <1>5, <2>3
      <3>2. Size({Layout[t]}) = 0 /\ Size(NewType(h)) = 0 BY <1>5, <2>1, <2>2, <2>3
      <3>3. {Layout[t]} # NoType BY DEF NoType
      <3>4. QED BY <3>1, <3>2, <3>3 DEF NeedsUpdate
    <2>4. CASE Cardinality(Layout[t]) > 0
      <3>1. {Layout[t]} # NoType BY DEF NoType
      <3>2. Size(NewType(h)) = 0 BY <1>5, <2>1
      <3>3. QED BY <1>3, <2>2, <2>4, <3>1, <3>2 DEF NeedsUpdate
    <2>5. QED BY <1>3, <2>3, <2>4
  <1>6. CASE NewType(h) = {Layout[TelegramOf[h]]}
    <2>1. Layout[TelegramOf[h]] = Layout[t]
            \/ Cardinality(Layout[TelegramOf[h]]) < Cardinality(Layout[t])
      BY <1>1 DEF Richer
    <2>2. /\ Size({Layout[t]}) = Cardinality(Layout[t])
          /\ Size(NewType(h)) = Cardinality(Layout[TelegramOf[h]])
      BY <1>4, <1>6
    <2>3. Cardinality(Layout[TelegramOf[h]]) \in Nat
      BY <1>1, TelegramAssumption, FS_Subset, FS_CardinalityType DEF TelegramAssumption
    <2>4. QED BY <1>3, <1>6, <2>1, <2>2, <2>3 DEF NeedsUpdate, NoType
  <1> QED BY <1>5, <1>6 DEF NewType

LEMMA TypeSettledStep ==
  ASSUME TypeOK, NEW t \in Telegrams, Richer(t), TypeSettled(t), [Next]_vars
  PROVE  TypeSettled(t)'
  <1> USE DEF TypeOK, TypeSettled
  <1>0. \A h \in Handlers : ~NeedsUpdate(deviceType, NewType(h))
    BY RichestNeedsNoUpdate
  <1>1. ASSUME NEW h \in Handlers, pc'[h] \notin {"put", "put_again"},
               \A g \in Handlers \ {h} : /\ pc'[g] = pc[g]
                                         /\ existing'[g] = existing[g]
                                         /\ decoded'[g] = decoded[g],
               deviceType' = deviceType, cachedType' \in {NoType, deviceType}
        PROVE  TypeSettled(t)'
    BY <1>1 DEF NewType, NeedsUpdate
  <1>2. ASSUME NEW h \in Handlers, ReadType(h)
        PROVE  cachedType' = deviceType /\ existing'[h] = deviceType
    BY <1>2 DEF ReadType
  <1>3. ASSUME NEW h \in Handlers,
               Receive(h) \/ CheckDuplicate(h) \/ MarkTelegram(h)
                 \/ CheckRoom(h) \/ PutRoom(h) \/ TryKeys(h) \/ Publish(h)
        PROVE  TypeSettled(t)'
    <2>1. UNCHANGED <<deviceType, cachedType>>
      BY <1>3 DEF Receive, CheckDuplicate, MarkTelegram, CheckRoom, PutRoom, TryKeys,
                  Publish, platformVars, cacheVars
    <2>2. /\ pc'[h] \notin {"put", "put_again"}
          /\ \A g \in Handlers \ {h} : /\ pc'[g] = pc[g]
                                       /\ existing'[g] = existing[g]
                                       /\ decoded'[g] = decoded[g]
      BY <1>3 DEF Receive, CheckDuplicate, MarkTelegram, CheckRoom, PutRoom, TryKeys,
                  Publish, Goto, Finish
    <2>3. QED BY <1>1, <2>1, <2>2
  <1>4. ASSUME NEW h \in Handlers, DecodePlain(h) PROVE TypeSettled(t)'
    <2>1. cachedType' = deviceType BY <1>2, <1>4 DEF DecodePlain
    <2>2. QED BY <1>1, <1>4, <2>1 DEF DecodePlain, ReadType, platformVars
  <1>5. ASSUME NEW h \in Handlers, EnsureType(h) PROVE TypeSettled(t)'
    <2>1. /\ cachedType' = deviceType /\ existing'[h] = deviceType
          /\ deviceType' = deviceType /\ decoded' = decoded
          /\ \A g \in Handlers \ {h} : pc'[g] = pc[g] /\ existing'[g] = existing[g]
      BY <1>2, <1>5 DEF EnsureType, ReadType, platformVars
    <2>2. ~NeedsUpdate(existing'[h], NewType(h)')
      BY <1>0, <2>1 DEF NewType
    <2>3. QED BY <2>1, <2>2 DEF NewType, NeedsUpdate
  <1>6. ASSUME NEW h \in Handlers, UpdateType(h) \/ KeepType(h) PROVE TypeSettled(t)'
    <2>1. deviceType' = deviceType /\ cachedType' \in {NoType, deviceType}
      BY <1>6 DEF UpdateType, KeepType, platformVars, cacheVars
    <2>2. QED BY <1>1, <1>6, <2>1 DEF UpdateType, KeepType, AfterType, Goto
  <1>7. ASSUME NEW h \in Handlers, Fails(h) PROVE TypeSettled(t)'
    BY <1>1, <1>7 DEF Fails, Finish, cacheVars
  <1>8. CASE Adopt \/ Dismiss \/ Expires
    BY <1>8 DEF Adopt, Dismiss, Expires, TypeExpires, LastExpires, NoteExpires,
                platformVars, cacheVars, handlerVars, NewType, NeedsUpdate
  <1>9. CASE UNCHANGED vars
    BY <1>9 DEF vars, platformVars, cacheVars, handlerVars, NewType, NeedsUpdate
  <1> QED
    BY <1>3, <1>4, <1>5, <1>6, <1>7, <1>8, <1>9 DEF Next, Handle

(* nimbus.go:499-508: the type of the richest telegram stays for good once *)
(* it is stored, no older one is cached and no handler is about to write   *)
(* another: what poorer telegrams, repetitions, failing requests and       *)
(* expiring entries do after that takes nothing away.                      *)
THEOREM SettledTypeStays == Spec => RichTypeStays
  <1>1. TypeOK /\ [Next]_vars =>
          [\A t \in Telegrams : Richer(t) /\ TypeSettled(t) => TypeSettled(t)']_vars
    BY TypeSettledStep
  <1> QED BY <1>1, TelegramTypes, PTL DEF Spec, RichTypeStays
=============================================================================
