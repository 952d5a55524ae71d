------------------------------- MODULE KVStore -------------------------------
(***************************************************************************)
(* What st_write_item and st_read_item (src/src/storage.c) promise: a map   *)
(* from keys to contents.  A write takes effect at one instant between its  *)
(* invocation and its return and never returns 0 before; a read returns     *)
(* the content the map holds for the key; nothing else changes the map.     *)
(***************************************************************************)
CONSTANTS Keys, Vals, NoKey, NoVal

VARIABLES
  dict,  \* the content of each key, NoVal when it has none
  call,  \* the running call
  ret    \* what the last call returned

NoCall == [op |-> "none", key |-> NoKey, val |-> NoVal]
NoRet == [kind |-> "none", key |-> NoKey, val |-> NoVal]

KVInit == dict = [k \in Keys |-> NoVal] /\ call = NoCall /\ ret = NoRet

Invoke ==
  /\ call = NoCall /\ ret' = NoRet
  /\ \E k \in Keys :
       \/ call' = [op |-> "read", key |-> k, val |-> NoVal]
       \/ \E v \in Vals : call' = [op |-> "write", key |-> k, val |-> v]
  /\ UNCHANGED dict

TakeEffect ==
  /\ call.op = "write"
  /\ dict' = [dict EXCEPT ![call.key] = call.val]
  /\ UNCHANGED <<call, ret>>

Succeed ==
  /\ call.op = "write" /\ dict[call.key] = call.val
  /\ ret' = [kind |-> "ok", key |-> call.key, val |-> call.val]
  /\ call' = NoCall /\ UNCHANGED dict

Answer ==
  /\ call.op = "read"
  /\ ret' = [kind |-> "value", key |-> call.key, val |-> dict[call.key]]
  /\ call' = NoCall /\ UNCHANGED dict

KVNext == Invoke \/ TakeEffect \/ Succeed \/ Answer

KVSpec == KVInit /\ [][KVNext]_<<dict, call, ret>>

=============================================================================
