----------------------------- MODULE ConfigProofs -----------------------------
(***************************************************************************)
(* Theorems about Config, for any items and contents, when a write of the   *)
(* store that fails had no effect.                                         *)
(***************************************************************************)
EXTENDS Config, TLAPS

(* What the next boot makes of the store. *)
Booted(k) == IF dict[k] = NoVal THEN Factory[k] ELSE dict[k]

Booting == cfg \in {"Off", "Read", "Reading", "Writing"}

(* The store is asked for what the configuration waits for. *)
CallMatches ==
  /\ cfg \in {"Off", "Read", "Idle"} => call = KV!NoCall
  /\ cfg \in {"Reading", "Writing"} => loading <= Len(Items)
  /\ cfg = "Reading" =>
       \/ call = [op |-> "read", key |-> Item, val |-> NoVal] /\ ret = KV!NoRet
       \/ call = KV!NoCall /\ ret.kind = "value" /\ ret.val = dict[Item]
  /\ cfg = "Writing" =>
       \/ call = [op |-> "write", key |-> Item, val |-> cache[Item]] /\ ret = KV!NoRet
       \/ call = KV!NoCall
  /\ cfg = "Saving" =>
       \/ /\ call.op = "write" /\ call.key \in KeySet /\ call.val \in Settings
          /\ ret = KV!NoRet
       \/ /\ call = KV!NoCall /\ ret.kind \in {"ok", "failed"}
          /\ ret.key \in KeySet /\ ret.val \in Settings

(* While items are loaded, the cache holds the default or what is stored,   *)
(* and the items loaded so far hold nothing else than what is stored.       *)
LoadedSoFar ==
  /\ Booting => \A k \in KeySet : cache[k] = Factory[k] \/ cache[k] = dict[k]
  /\ cfg \in {"Reading", "Writing", "Read"} =>
       \A i \in 1..(loading - 1) : dict[Items[i]] \in {NoVal, cache[Items[i]]}
  /\ cfg = "Writing" => dict[Item] \in {NoVal, cache[Item]}

(* While an update runs, only its item can differ from the cache. *)
SavedSoFar ==
  cfg = "Saving" => \A k \in KeySet :
    \/ cache[k] = Booted(k)
    \/ call.op = "write" /\ k = call.key /\ dict[k] = call.val
    \/ ret.kind = "ok" /\ k = ret.key /\ dict[k] = ret.val

(* The next boot finds what is expected, whatever becomes of the call. *)
Expected ==
  /\ \A k \in KeySet : Booted(k) \in expect[k]
  /\ cfg = "Saving" /\ call.op = "write" => call.val \in expect[call.key]
  /\ ret.kind = "ok" /\ cfg = "Saving" => dict[ret.key] = ret.val

CInv ==
  /\ ConfigOK /\ CallMatches /\ LoadedSoFar /\ CacheIsStored /\ SavedSoFar /\ Expected

------------------------------------------------------------------------------
(* Lemmas                                                                  *)

LEMMA LenIsNat == Len(Items) \in Nat
BY ItemsAssumption

LEMMA ItemType == ConfigOK /\ loading <= Len(Items) => Item \in KeySet
BY ItemsAssumption DEF ConfigOK, Item, KeySet

LEMMA LoadedType == ConfigOK => \A i \in 1..(loading - 1) : Items[i] \in KeySet
<1> SUFFICES ASSUME ConfigOK, NEW i \in 1..(loading - 1) PROVE i \in 1..Len(Items)
  BY Zenon DEF KeySet
<1>1. loading \in 1..(Len(Items) + 1)
  BY DEF ConfigOK
<1> QED BY <1>1, LenIsNat

LEMMA CInitInv == CInit => CInv
<1> SUFFICES ASSUME CInit PROVE CInv
  OBVIOUS
<1> USE DEF CInit, KV!NoCall, KV!NoRet
<1>1. ConfigOK
  BY ItemsAssumption DEF ConfigOK
<1> QED BY <1>1, ItemsAssumption
        DEF CInv, CallMatches, LoadedSoFar, Booting, CacheIsStored, SavedSoFar, Expected, Booted

(* A step of a call leaves the configuration alone. *)
LEMMA EffectInv == CInv /\ StoreEffect /\ StoreStep => CInv'
<1> SUFFICES ASSUME CInv, StoreEffect, UNCHANGED <<cache, cfg, loading, expect>> PROVE CInv'
  BY DEF StoreStep
<1> USE DEF CInv, KV!NoCall, KV!NoRet
<1>1. /\ call.op = "write" /\ dict' = [dict EXCEPT ![call.key] = call.val]
      /\ UNCHANGED <<call, ret, cache, cfg, loading, expect>>
  BY DEF StoreEffect, KV!TakeEffect
<1>2. \/ cfg = "Writing" /\ call.key = Item /\ call.val = cache[Item] /\ loading <= Len(Items)
      \/ cfg = "Saving" /\ call.key \in KeySet /\ call.val \in Settings /\ ret = KV!NoRet
  BY <1>1 DEF CallMatches, ConfigOK
<1>3. call.key \in KeySet /\ call.val \in Settings /\ call.val # NoVal
  BY <1>2, ItemType, ItemsAssumption DEF ConfigOK
<1>4. dict' \in [KeySet -> Settings \cup {NoVal}]
  BY <1>1, <1>3 DEF ConfigOK
<1>5. ConfigOK'
  BY <1>1, <1>4 DEF ConfigOK
<1>6. \A k \in KeySet : dict'[k] = IF k = call.key THEN call.val ELSE dict[k]
  BY <1>1, <1>3 DEF ConfigOK
<1>7. CallMatches'
  BY <1>1, <1>2 DEF CallMatches, Item
<1>8. LoadedSoFar'
  <2>1. \A i \in 1..(loading - 1) : Items[i] \in KeySet
    BY LoadedType
  <2>2. \A k \in KeySet : Booting => cache[k] = Factory[k] \/ cache[k] = dict'[k]
    BY <1>2, <1>3, <1>6 DEF LoadedSoFar, Booting
  <2>3. \A i \in 1..(loading - 1) : cfg = "Writing" => dict'[Items[i]] \in {NoVal, cache[Items[i]]}
    BY <1>2, <1>6, <2>1 DEF LoadedSoFar
  <2>4. cfg = "Writing" => dict'[Item] = cache[Item]
    BY <1>2, <1>3, <1>6
  <2> QED BY <1>1, <1>2, <2>2, <2>3, <2>4 DEF LoadedSoFar, Booting, Item
<1>9. CacheIsStored' /\ SavedSoFar'
  <2>1. CacheIsStored'
    BY <1>1, <1>2 DEF CacheIsStored
  <2>2. ASSUME cfg = "Saving", NEW k \in KeySet
        PROVE  cache[k] = Booted(k)' \/ (k = call.key /\ dict'[k] = call.val)
    <3>1. CASE k = call.key
      BY <1>6, <3>1
    <3>2. CASE k # call.key
      <4>1. ret.kind = "none" /\ dict'[k] = dict[k]
        BY <1>2, <1>6, <2>2, <3>2
      <4> QED BY <2>2, <3>2, <4>1 DEF SavedSoFar, Booted
    <3> QED BY <3>1, <3>2
  <2> QED BY <1>1, <2>1, <2>2 DEF SavedSoFar
<1>10. call.val \in expect[call.key]
  <2>1. CASE cfg = "Saving"
    BY <1>1, <2>1 DEF Expected
  <2>2. CASE cfg = "Writing"
    <3>1. /\ call.key = Item /\ call.val = cache[Item] /\ Item \in KeySet
          /\ cache[Item] # NoVal
      BY <1>2, <1>3, <2>2
    <3>2. cache[Item] = Factory[Item] \/ cache[Item] = dict[Item]
      BY <2>2, <3>1 DEF LoadedSoFar, Booting
    <3>3. dict[Item] \in {NoVal, cache[Item]}
      BY <2>2 DEF LoadedSoFar
    <3>4. Booted(Item) = cache[Item]
      BY <3>1, <3>2, <3>3 DEF Booted
    <3> QED BY <3>1, <3>4 DEF Expected
  <2> QED BY <1>2, <2>1, <2>2
<1>11. Expected'
  BY <1>1, <1>2, <1>3, <1>6, <1>10 DEF Expected, Booted
<1> QED BY <1>5, <1>7, <1>8, <1>9, <1>11

LEMMA SucceedInv == CInv /\ KV!Succeed /\ StoreStep => CInv'
<1> SUFFICES ASSUME CInv, KV!Succeed, UNCHANGED <<cache, cfg, loading, expect>> PROVE CInv'
  BY DEF StoreStep
<1> USE DEF CInv, KV!NoCall, KV!NoRet, KV!Succeed
<1>1. call.op = "write" /\ cfg \in {"Writing", "Saving"}
  BY DEF CallMatches, ConfigOK
<1>2. ConfigOK'
  BY DEF ConfigOK
<1>3. CallMatches'
  BY <1>1 DEF CallMatches, Item
<1>4. LoadedSoFar' /\ CacheIsStored'
  BY <1>1 DEF LoadedSoFar, Booting, CacheIsStored, Item
<1>5. SavedSoFar'
  BY <1>1 DEF SavedSoFar, CallMatches, Booted
<1>6. Expected'
  BY <1>1 DEF Expected, Booted
<1> QED BY <1>2, <1>3, <1>4, <1>5, <1>6

LEMMA AnswerInv == CInv /\ KV!Answer /\ StoreStep => CInv'
<1> SUFFICES ASSUME CInv, KV!Answer, UNCHANGED <<cache, cfg, loading, expect>> PROVE CInv'
  BY DEF StoreStep
<1> USE DEF CInv, KV!NoCall, KV!NoRet, KV!Answer
<1>1. cfg = "Reading" /\ call.key = Item /\ loading <= Len(Items)
  BY DEF CallMatches, ConfigOK
<1>2. ConfigOK'
  BY <1>1, ItemType DEF ConfigOK
<1>3. CallMatches'
  BY <1>1 DEF CallMatches, Item
<1> QED BY <1>1, <1>2, <1>3
        DEF LoadedSoFar, Booting, CacheIsStored, SavedSoFar, Expected, Booted, Item

LEMMA FailsInv == "after" \notin FailModes /\ CInv /\ StoreFails /\ StoreStep => CInv'
<1> SUFFICES ASSUME "after" \notin FailModes, CInv, StoreFails,
                    UNCHANGED <<cache, cfg, loading, expect>>
             PROVE  CInv'
  BY DEF StoreStep
<1> USE DEF CInv, KV!NoCall, KV!NoRet, StoreFails
<1>1. call.op = "write" /\ cfg \in {"Writing", "Saving"}
  BY DEF CallMatches, ConfigOK
<1>2. dict[call.key] # call.val
  OBVIOUS
<1>3. ConfigOK'
  BY DEF ConfigOK
<1>4. CallMatches'
  BY <1>1 DEF CallMatches, Item
<1>5. LoadedSoFar' /\ CacheIsStored'
  BY <1>1 DEF LoadedSoFar, Booting, CacheIsStored, Item
<1>6. SavedSoFar'
  BY <1>1, <1>2 DEF SavedSoFar, CallMatches, Booted
<1>7. Expected'
  BY <1>1 DEF Expected, Booted
<1> QED BY <1>3, <1>4, <1>5, <1>6, <1>7

(* Booting. *)
LEMMA LoadDefaultsInv == CInv /\ LoadDefaults => CInv'
<1> SUFFICES ASSUME CInv, LoadDefaults PROVE CInv'
  OBVIOUS
<1> USE DEF CInv, LoadDefaults, store
<1>1. ConfigOK'
  BY ItemsAssumption, LenIsNat DEF ConfigOK
<1> QED BY <1>1, ItemsAssumption, LenIsNat
        DEF CallMatches, LoadedSoFar, Booting, CacheIsStored, SavedSoFar, Expected, Booted

LEMMA LoadItemInv == CInv /\ LoadItem => CInv'
<1> SUFFICES ASSUME CInv, LoadItem PROVE CInv'
  OBVIOUS
<1> USE DEF CInv, LoadItem, Ask, KV!NoRet, KV!NoCall
<1>1. ConfigOK'
  BY ItemType DEF ConfigOK
<1>2. CallMatches'
  BY DEF CallMatches, Item
<1> QED BY <1>1, <1>2
        DEF LoadedSoFar, Booting, CacheIsStored, SavedSoFar, Expected, Booted

(* The item loaded next is the last of those loaded so far afterwards. *)
LEMMA OneMore ==
  ASSUME ConfigOK, loading <= Len(Items), NEW d, NEW c,
         \A i \in 1..(loading - 1) : d[Items[i]] \in {NoVal, c[Items[i]]},
         d[Item] \in {NoVal, c[Item]}
  PROVE  \A i \in 1..((loading + 1) - 1) : d[Items[i]] \in {NoVal, c[Items[i]]}
BY LenIsNat DEF ConfigOK, Item

LEMMA LoadFoundInv == CInv /\ LoadFound => CInv'
<1> SUFFICES ASSUME CInv, LoadFound PROVE CInv'
  OBVIOUS
<1> USE DEF CInv, LoadFound, store
<1>1. /\ loading <= Len(Items) /\ call = KV!NoCall /\ ret.val = dict[Item]
      /\ dict[Item] # NoVal /\ Item \in KeySet
  BY ItemType, ItemsAssumption DEF CallMatches, KV!NoRet, KV!NoCall
<1>2. dict[Item] \in Settings
  BY <1>1 DEF ConfigOK
<1>3. /\ cache' \in [KeySet -> Settings]
      /\ \A k \in KeySet : cache'[k] = IF k = Item THEN dict[Item] ELSE cache[k]
  BY <1>1, <1>2 DEF ConfigOK
<1>4. loading' \in 1..(Len(Items) + 1)
  BY <1>1, LenIsNat DEF ConfigOK
<1>5. ConfigOK'
  BY <1>3, <1>4 DEF ConfigOK
<1>6. CallMatches'
  BY <1>1 DEF CallMatches
<1>7. LoadedSoFar'
  <2>1. \A k \in KeySet : cache'[k] = Factory[k] \/ cache'[k] = dict[k]
    BY <1>3 DEF LoadedSoFar, Booting
  <2>2. \A i \in 1..(loading - 1) : dict[Items[i]] \in {NoVal, cache'[Items[i]]}
    BY <1>3, LoadedType DEF LoadedSoFar
  <2>3. dict[Item] \in {NoVal, cache'[Item]}
    BY <1>1, <1>3
  <2>4. \A i \in 1..((loading + 1) - 1) : dict[Items[i]] \in {NoVal, cache'[Items[i]]}
    BY <1>1, <2>2, <2>3, OneMore
  <2> QED BY <2>1, <2>4 DEF LoadedSoFar, Booting
<1> QED BY <1>5, <1>6, <1>7 DEF CacheIsStored, SavedSoFar, Expected, Booted

LEMMA LoadMissingInv == CInv /\ LoadMissing => CInv'
<1> SUFFICES ASSUME CInv, LoadMissing PROVE CInv'
  OBVIOUS
<1> USE DEF CInv, LoadMissing, Ask
<1>1. /\ loading <= Len(Items) /\ call = KV!NoCall /\ dict[Item] = NoVal /\ Item \in KeySet
  BY ItemType DEF CallMatches, KV!NoRet, KV!NoCall
<1>2. ConfigOK'
  BY <1>1 DEF ConfigOK, KV!NoRet
<1>3. CallMatches'
  BY <1>1 DEF CallMatches, Item
<1>4. LoadedSoFar'
  BY <1>1 DEF LoadedSoFar, Booting, Item
<1> QED BY <1>2, <1>3, <1>4 DEF CacheIsStored, SavedSoFar, Expected, Booted

LEMMA LoadStoredInv == CInv /\ LoadStored => CInv'
<1> SUFFICES ASSUME CInv, LoadStored PROVE CInv'
  OBVIOUS
<1> USE DEF CInv, LoadStored, store
<1>1. loading <= Len(Items)
  BY DEF CallMatches
<1>2. loading' \in 1..(Len(Items) + 1)
  BY <1>1, LenIsNat DEF ConfigOK
<1>3. ConfigOK'
  BY <1>2 DEF ConfigOK
<1>4. \A i \in 1..((loading + 1) - 1) : dict[Items[i]] \in {NoVal, cache[Items[i]]}
  BY <1>1, OneMore DEF LoadedSoFar
<1>5. LoadedSoFar'
  BY <1>4 DEF LoadedSoFar, Booting
<1>6. CallMatches'
  BY DEF CallMatches, KV!NoRet
<1> QED BY <1>3, <1>5, <1>6 DEF CacheIsStored, SavedSoFar, Expected, Booted

LEMMA LoadEndsInv ==
  CInv /\ LoadEnds => CInv' /\ \A k \in KeySet : cache[k] \in expect[k]
<1> SUFFICES ASSUME CInv, LoadEnds PROVE CInv' /\ \A k \in KeySet : cache[k] \in expect[k]
  OBVIOUS
<1> USE DEF CInv, LoadEnds, store
<1>1. \A i \in 1..Len(Items) : dict[Items[i]] \in {NoVal, cache[Items[i]]}
  <2>1. loading - 1 = Len(Items)
    BY LenIsNat DEF ConfigOK
  <2> QED BY <2>1 DEF LoadedSoFar
<1>2. \A k \in KeySet : dict[k] \in {NoVal, cache[k]}
  BY <1>1 DEF KeySet
<1>3. \A k \in KeySet : cache[k] = Factory[k] \/ cache[k] = dict[k]
  BY DEF LoadedSoFar, Booting
<1>4. \A k \in KeySet : Booted(k) = cache[k] /\ cache[k] # NoVal
  BY <1>2, <1>3, ItemsAssumption DEF ConfigOK, Booted
<1>5. \A k \in KeySet : cache[k] \in expect[k]
  BY <1>4 DEF Expected
<1>6. expect' \in [KeySet -> SUBSET Settings]
  BY DEF ConfigOK
<1>7. ConfigOK'
  BY <1>6, LenIsNat DEF ConfigOK
<1>8. CacheIsStored'
  BY <1>2, <1>3 DEF CacheIsStored
<1>9. Expected'
  BY <1>4 DEF Expected, Booted
<1>10. CallMatches' /\ LoadedSoFar' /\ SavedSoFar'
  BY DEF CallMatches, LoadedSoFar, Booting, SavedSoFar
<1> QED BY <1>5, <1>7, <1>8, <1>9, <1>10

(* Updating. *)
LEMMA UpdateInv == \A k \in KeySet, v \in Settings : CInv /\ Update(k, v) => CInv'
<1> SUFFICES ASSUME NEW k \in KeySet, NEW v \in Settings, CInv, Update(k, v) PROVE CInv'
  OBVIOUS
<1> USE DEF CInv, store
<1>1. \A j \in KeySet : cfg = "Idle" => Booted(j) = cache[j]
  BY ItemsAssumption DEF CacheIsStored, Booted, ConfigOK
<1>2. CASE UpdateSkipped(k, v)
  <2>1. ConfigOK'
    BY <1>2 DEF UpdateSkipped, ConfigOK
  <2>2. Expected'
    BY <1>1, <1>2 DEF UpdateSkipped, Expected, Booted, ConfigOK
  <2> QED BY <1>2, <2>1, <2>2
          DEF UpdateSkipped, CallMatches, LoadedSoFar, Booting, CacheIsStored, SavedSoFar
<1>3. CASE UpdateStored(k, v)
  <2> USE <1>3 DEF UpdateStored, Ask, KV!NoRet, KV!NoCall
  <2>1. ConfigOK'
    BY DEF ConfigOK
  <2>2. CallMatches'
    BY DEF CallMatches
  <2>3. SavedSoFar'
    BY <1>1 DEF SavedSoFar, Booted
  <2>4. Expected'
    BY DEF Expected, Booted, ConfigOK
  <2> QED BY <2>1, <2>2, <2>3, <2>4 DEF LoadedSoFar, Booting, CacheIsStored
<1> QED BY <1>2, <1>3 DEF Update

LEMMA UpdateDoneInv == CInv /\ UpdateDone => CInv'
<1> SUFFICES ASSUME CInv, UpdateDone PROVE CInv'
  OBVIOUS
<1> USE DEF CInv, UpdateDone, store
<1>1. /\ call = KV!NoCall /\ ret.key \in KeySet /\ ret.val \in Settings
      /\ dict[ret.key] = ret.val
  BY DEF CallMatches, Expected, KV!NoRet
<1>2. ConfigOK'
  BY <1>1 DEF ConfigOK
<1>3. CallMatches' /\ LoadedSoFar' /\ SavedSoFar'
  BY <1>1 DEF CallMatches, LoadedSoFar, Booting, SavedSoFar
<1>4. \A k \in KeySet : k # ret.key => Booted(k) = cache[k]
  BY <1>1 DEF SavedSoFar, KV!NoCall
<1>5. CacheIsStored'
  BY <1>1, <1>4 DEF CacheIsStored, Booted, ConfigOK
<1>6. Expected'
  BY <1>1, ItemsAssumption DEF Expected, Booted, ConfigOK
<1> QED BY <1>2, <1>3, <1>5, <1>6

LEMMA UpdateFailedInv == CInv /\ UpdateFailed => CInv'
<1> SUFFICES ASSUME CInv, UpdateFailed PROVE CInv'
  OBVIOUS
<1> USE DEF CInv, UpdateFailed, store
<1>1. call = KV!NoCall
  BY DEF CallMatches, KV!NoRet
<1>2. \A k \in KeySet : Booted(k) = cache[k]
  BY <1>1 DEF SavedSoFar, KV!NoCall
<1>3. CacheIsStored'
  BY <1>2 DEF CacheIsStored, Booted
<1>4. ConfigOK'
  BY DEF ConfigOK
<1> QED BY <1>1, <1>3, <1>4
        DEF CallMatches, LoadedSoFar, Booting, SavedSoFar, Expected, Booted

LEMMA UnpoweredInv == CInv /\ Unpowered => CInv'
<1> SUFFICES ASSUME CInv, Unpowered PROVE CInv'
  OBVIOUS
<1> USE DEF CInv, Unpowered, KV!NoCall, KV!NoRet
<1>1. ConfigOK'
  BY ItemsAssumption, LenIsNat DEF ConfigOK
<1> QED BY <1>1
        DEF CallMatches, LoadedSoFar, Booting, CacheIsStored, SavedSoFar, Expected, Booted

LEMMA CNextInv == "after" \notin FailModes /\ CInv /\ [CNext]_cvars => CInv'
<1> SUFFICES ASSUME "after" \notin FailModes, CInv, [CNext]_cvars PROVE CInv'
  OBVIOUS
<1>1. CASE ConfigStep
  BY <1>1, LoadDefaultsInv, LoadItemInv, LoadFoundInv, LoadMissingInv, LoadStoredInv,
     LoadEndsInv, UpdateDoneInv, UpdateFailedInv DEF ConfigStep
<1>2. CASE StoreStep
  BY <1>2, EffectInv, SucceedInv, AnswerInv, FailsInv DEF StoreStep
<1>3. CASE Unpowered
  BY <1>3, UnpoweredInv
<1>4. CASE \E k \in KeySet, v \in Settings : Update(k, v)
  BY <1>4, UpdateInv
<1>5. CASE UNCHANGED cvars
  BY <1>5 DEF cvars, store, CInv, ConfigOK, CallMatches, LoadedSoFar, Booting,
     CacheIsStored, SavedSoFar, Expected, Booted, Item
<1> QED BY <1>1, <1>2, <1>3, <1>4, <1>5 DEF CNext

------------------------------------------------------------------------------
(* Theorems                                                                *)

LEMMA CInvariance == ASSUME "after" \notin FailModes PROVE CSpec => []CInv
<1>1. CInv /\ [CNext]_cvars => CInv'
  BY CNextInv
<1> QED BY <1>1, CInitInv, PTL DEF CSpec

(* Whatever is loaded, saved or interrupted, the cache only ever holds      *)
(* contents, never what the store returns for an item it does not have.     *)
THEOREM ConfigTyped == ASSUME "after" \notin FailModes PROVE CSpec => []ConfigOK
<1>1. CInv => ConfigOK
  BY DEF CInv
<1> QED BY <1>1, CInvariance, PTL

(* Outside of a load and a save the cache is what the next boot would load. *)
THEOREM CacheAgrees == ASSUME "after" \notin FailModes PROVE CSpec => []CacheIsStored
<1>1. CInv => CacheIsStored
  BY DEF CInv
<1> QED BY <1>1, CInvariance, PTL

(* A boot loads what was last saved, wherever power failed before it.      *)
THEOREM BootsSaved == ASSUME "after" \notin FailModes PROVE CSpec => BootFindsSaved
<1>1. CInv /\ [CNext]_cvars =>
        [LoadEnds => \A k \in KeySet : cache[k] \in expect[k]]_cvars
  BY LoadEndsInv
<1> QED BY <1>1, CInvariance, PTL DEF CSpec, BootFindsSaved

=============================================================================
