-------------------------------- MODULE Config --------------------------------
(***************************************************************************)
(* The configuration (src/src/configtool.c): a cache of a few items over    *)
(* the key-value store, which is used as KVStore describes it, except that  *)
(* a write may fail and that a power loss ends a call wherever it is.       *)
(*                                                                         *)
(* A definition with a suffix is the one that follows it with a bug in it   *)
(* (README.md).                                                            *)
(***************************************************************************)
EXTENDS Integers, Sequences

CONSTANTS
  Items,      \* the keys of cfg_items, in their order
  Settings,   \* the contents an item can have
  Factory,    \* what cfg_load_default puts in the cache
  FailModes,  \* "before", "after": a failed write may have had no effect, or had it
  NoKey, NoVal

KeySet == {Items[i] : i \in 1..Len(Items)}

ASSUME ItemsAssumption ==
  /\ Items \in Seq(KeySet) /\ Len(Items) > 0
  /\ Factory \in [KeySet -> Settings] /\ NoVal \notin Settings /\ NoKey \notin KeySet
  /\ FailModes \subseteq {"before", "after"}

VARIABLES
  dict,     \* what the store holds
  call,     \* the running call of the store
  ret,      \* what the last one returned
  cache,    \* cfg_cache
  cfg,      \* what the configuration does next
  loading,  \* the item cfg_init has come to
  expect    \* history: what the next boot may find for each item

store == <<dict, call, ret>>
cvars == <<store, cache, cfg, loading, expect>>

KV == INSTANCE KVStore WITH Keys <- KeySet, Vals <- Settings

Ask(op, k, v) ==
  /\ call' = [op |-> op, key |-> k, val |-> v]
  /\ ret' = KV!NoRet /\ UNCHANGED dict

ConfigOK ==
  /\ dict \in [KeySet -> Settings \cup {NoVal}]
  /\ call \in [op : {"none", "read", "write"}, key : KeySet \cup {NoKey},
               val : Settings \cup {NoVal}]
  /\ ret \in [kind : {"none", "ok", "value", "failed"}, key : KeySet \cup {NoKey},
              val : Settings \cup {NoVal}]
  /\ cache \in [KeySet -> Settings]
  /\ cfg \in {"Off", "Read", "Reading", "Writing", "Idle", "Saving"}
  /\ loading \in 1..(Len(Items) + 1)
  /\ expect \in [KeySet -> SUBSET Settings]

------------------------------------------------------------------------------
(* The store.  st_write_item also fails after it wrote the new item, when   *)
(* it cannot delete the old one.                                            *)

StoreEffect == KV!TakeEffect /\ dict[call.key] # call.val

StoreFails ==
  /\ call.op = "write"
  /\ (IF dict[call.key] = call.val THEN "after" ELSE "before") \in FailModes
  /\ ret' = [kind |-> "failed", key |-> call.key, val |-> call.val]
  /\ call' = KV!NoCall /\ UNCHANGED dict

StoreStep ==
  /\ StoreEffect \/ KV!Succeed \/ KV!Answer \/ StoreFails
  /\ UNCHANGED <<cache, cfg, loading, expect>>

------------------------------------------------------------------------------
(* cfg_init: what the store has replaces the default, which is stored when  *)
(* it has nothing.  An item whose read or write fails is left as it is.     *)

Item == Items[loading]

LoadDefaults ==
  /\ cfg = "Off" /\ cfg' = "Read"
  /\ cache' = Factory /\ loading' = 1
  /\ UNCHANGED <<store, expect>>

LoadItem ==
  /\ cfg = "Read" /\ loading <= Len(Items)
  /\ Ask("read", Item, NoVal) /\ cfg' = "Reading"
  /\ UNCHANGED <<cache, loading, expect>>

LoadFound_Anything ==
  /\ cfg = "Reading" /\ ret.kind = "value"
  /\ cache' = [cache EXCEPT ![Item] = ret.val]
  /\ cfg' = "Read" /\ loading' = loading + 1 /\ UNCHANGED <<store, expect>>
LoadFound ==
  /\ cfg = "Reading" /\ ret.kind = "value" /\ ret.val # NoVal
  /\ cache' = [cache EXCEPT ![Item] = ret.val]
  /\ cfg' = "Read" /\ loading' = loading + 1 /\ UNCHANGED <<store, expect>>

LoadMissing ==
  /\ cfg = "Reading" /\ ret.kind = "value" /\ ret.val = NoVal
  /\ Ask("write", Item, cache[Item]) /\ cfg' = "Writing"
  /\ UNCHANGED <<cache, loading, expect>>

LoadStored ==
  /\ cfg = "Writing" /\ ret.kind \in {"ok", "failed"}
  /\ cfg' = "Read" /\ loading' = loading + 1 /\ UNCHANGED <<store, cache, expect>>

LoadEnds ==
  /\ cfg = "Read" /\ loading > Len(Items)
  /\ cfg' = "Idle" /\ loading' = 1
  /\ expect' = [k \in KeySet |-> {cache[k]}] /\ UNCHANGED <<store, cache>>

------------------------------------------------------------------------------
(* cfg_update_*: an item is stored only when it differs from the cache,     *)
(* which takes it only once it is stored.                                   *)

UpdateSkipped(k, v) ==
  /\ cfg = "Idle" /\ cache[k] = v
  /\ expect' = [expect EXCEPT ![k] = {v}]
  /\ UNCHANGED <<store, cache, cfg, loading>>

UpdateStored_CachedFirst(k, v) ==
  /\ cfg = "Idle" /\ cache[k] # v
  /\ Ask("write", k, v) /\ cfg' = "Saving"
  /\ cache' = [cache EXCEPT ![k] = v]
  /\ expect' = [expect EXCEPT ![k] = @ \cup {v}]
  /\ UNCHANGED loading
UpdateStored(k, v) ==
  /\ cfg = "Idle" /\ cache[k] # v
  /\ Ask("write", k, v) /\ cfg' = "Saving"
  /\ expect' = [expect EXCEPT ![k] = @ \cup {v}]
  /\ UNCHANGED <<cache, loading>>

Update(k, v) == UpdateSkipped(k, v) \/ UpdateStored(k, v)

UpdateDone_Uncached ==
  /\ cfg = "Saving" /\ ret.kind = "ok"
  /\ expect' = [expect EXCEPT ![ret.key] = {ret.val}]
  /\ cfg' = "Idle" /\ UNCHANGED <<store, cache, loading>>
UpdateDone ==
  /\ cfg = "Saving" /\ ret.kind = "ok"
  /\ cache' = [cache EXCEPT ![ret.key] = ret.val]
  /\ expect' = [expect EXCEPT ![ret.key] = {ret.val}]
  /\ cfg' = "Idle" /\ UNCHANGED <<store, loading>>

UpdateFailed ==
  /\ cfg = "Saving" /\ ret.kind = "failed"
  /\ cfg' = "Idle" /\ UNCHANGED <<store, cache, loading, expect>>

ConfigStep ==
  \/ LoadDefaults \/ LoadItem \/ LoadFound \/ LoadMissing \/ LoadStored \/ LoadEnds
  \/ UpdateDone \/ UpdateFailed

(* Everything in RAM is lost: the call of the store ends where it is. *)
Unpowered ==
  /\ call' = KV!NoCall /\ ret' = KV!NoRet
  /\ cache' = Factory /\ cfg' = "Off" /\ loading' = 1
  /\ UNCHANGED <<dict, expect>>

CInit ==
  /\ dict = [k \in KeySet |-> NoVal] /\ call = KV!NoCall /\ ret = KV!NoRet
  /\ cache = Factory /\ cfg = "Off" /\ loading = 1
  /\ expect = [k \in KeySet |-> {Factory[k]}]

CNext ==
  \/ ConfigStep \/ StoreStep \/ Unpowered
  \/ \E k \in KeySet, v \in Settings : Update(k, v)

CSpec == CInit /\ [][CNext]_cvars

------------------------------------------------------------------------------
(* Properties                                                              *)

(* While nothing is being loaded or saved, the cache holds what the store   *)
(* has, or the default the store did not take: cfg_update_* compares with   *)
(* the cache to tell whether the store has the item already.                *)
CacheIsStored ==
  cfg = "Idle" =>
    \A k \in KeySet : dict[k] = cache[k] \/ (dict[k] = NoVal /\ cache[k] = Factory[k])

(* A boot loads the content last saved: one only, when the update returned  *)
(* 0 or an earlier boot loaded it, that one or the one before it when the   *)
(* update failed or was interrupted.                                        *)
BootFindsSaved == [][LoadEnds => \A k \in KeySet : cache[k] \in expect[k]]_cvars

=============================================================================
