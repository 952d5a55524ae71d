------------------------------ MODULE SafeAccess ------------------------------
(***************************************************************************)
(* What the safe-access window (src/src/modbus.c, modbus_sa_ctrl and        *)
(* modbus_run) promises: the protected registers only change while access   *)
(* is granted, and less than Limit milliseconds after it was.               *)
(***************************************************************************)
EXTENDS Naturals

CONSTANT Limit

VARIABLES
  prot,  \* the protected registers
  open,  \* access is granted
  age    \* milliseconds since it was last granted

(* The grant may take the millisecond it is recorded in. *)
Grant == open' = TRUE /\ age' \in 0..1 /\ UNCHANGED prot

(* The window is closed, whatever time it took to notice. *)
Close == open' = FALSE /\ UNCHANGED prot

Elapse == age' >= age /\ UNCHANGED <<prot, open>>

Change == open /\ age < Limit /\ UNCHANGED <<open, age>>

(* The device starts again: the registers start from nothing. *)
Forget == open' = FALSE /\ prot' = [a \in DOMAIN prot |-> {}]

SANext == Grant \/ Close \/ Elapse \/ Change \/ Forget

SASpec == ~open /\ [][SANext]_<<prot, open, age>>

=============================================================================
