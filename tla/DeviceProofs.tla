----------------------------- MODULE DeviceProofs -----------------------------
(***************************************************************************)
(* Theorems about Device: the sensor takes no step of its registers that    *)
(* Registers does not take, and none of its configuration that Config does  *)
(* not take, so that what is proved of them holds of the sensor.            *)
(***************************************************************************)
EXTENDS Device, RegistersProofs, ConfigProofs

LEMMA RegistersStep == [DNext]_vars => [RNext]_rvars
<1> SUFFICES ASSUME [DNext]_vars PROVE [RNext]_rvars
  OBVIOUS
<1>1. CASE DStep
  BY <1>1 DEF DStep, Within, SaveConfig, ConfigSaved, StartSlave, Configure, ResetByRegister, RNext
<1>2. CASE Within(SysTick_Handler) \/ Blackout
  BY <1>2 DEF Within, Blackout, RNext
<1>3. CASE UNCHANGED vars
  BY <1>3 DEF vars
<1> QED BY <1>1, <1>2, <1>3 DEF DNext

(* The rate that is saved is one the configuration can hold. *)
LEMMA RateIsSetting == RegistersOK => Rate \in Settings
<1> SUFFICES ASSUME RegistersOK PROVE Rate \in [BAUDRATE -> Value]
  BY BaudrateAssumption
<1> QED BY BaudrateAssumption DEF RegistersOK, Rate, Bank

LEMMA ConfigStepped == RegistersOK /\ [DNext]_vars => [CNext]_cvars
<1> SUFFICES ASSUME RegistersOK, [DNext]_vars PROVE [CNext]_cvars
  OBVIOUS
<1>1. CASE SaveConfig
  BY <1>1, RateIsSetting, BaudrateAssumption DEF SaveConfig, CNext
<1>2. CASE Configure
  BY <1>2 DEF Configure, CNext
<1>3. CASE ResetByRegister \/ Blackout
  BY <1>3 DEF ResetByRegister, Blackout, Unconfigured, CNext
<1>4. CASE Within(Run) \/ ConfigSaved \/ StartSlave \/ Within(SysTick_Handler) \/ UNCHANGED vars
  BY <1>4 DEF Within, ConfigSaved, StartSlave, vars
<1> QED BY <1>1, <1>2, <1>3, <1>4 DEF DNext, DStep

LEMMA DeviceInvariance == DSpec => []IInv
<1>1. DInit => IInv
  BY InitInv DEF DInit
<1>2. IInv /\ [DNext]_vars => IInv'
  BY RegistersStep, NextInv
<1> QED BY <1>1, <1>2, PTL DEF DSpec

LEMMA DeviceConfigures == DSpec => CSpec
<1>1. DInit => CInit
  BY DEF DInit
<1>2. IInv /\ [DNext]_vars => [CNext]_cvars
  BY ConfigStepped DEF IInv
<1> QED BY <1>1, <1>2, DeviceInvariance, PTL DEF DSpec, CSpec

(* Requests to the whole sensor, with its store, its resets and its power   *)
(* losses, are atomic.                                                      *)
THEOREM DeviceAtomicity == DSpec => []RequestIsAtomic
<1>1. IInv => RequestIsAtomic
  BY DEF IInv
<1> QED BY <1>1, DeviceInvariance, PTL

(* The cache of the sensor is what its next boot would load.               *)
THEOREM DeviceCacheAgrees == ASSUME "after" \notin FailModes PROVE DSpec => []CacheIsStored
BY DeviceConfigures, CacheAgrees, PTL

(* The sensor boots with the baud rate last saved, whatever the master      *)
(* wrote to the registers since and wherever power failed.                  *)
THEOREM DeviceBootsSaved == ASSUME "after" \notin FailModes PROVE DSpec => BootFindsSaved
BY DeviceConfigures, BootsSaved, PTL

=============================================================================
