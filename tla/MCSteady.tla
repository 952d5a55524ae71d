------------------------------ MODULE MCSteady ------------------------------
(* Two stores have the room that Roomy asks for: one in the sizes of the   *)
(* firmware, for which this is evaluated, and a small one, which is run.   *)
EXTENDS MCStorage, FiniteSetsExt

(* Items of 8, 5 and 7 bytes, of which the largest is the updated one. *)
LenRoomy == [k \in Keys |-> IF k = k1 THEN 4 ELSE IF k = k2 THEN 1 ELSE 3]

(* What pages can hold, for a store of these keys. *)
Total(size, S) == MapThenSumSet(LAMBDA k : size[k], S)
LoadOf(size) == {<<K, Total(size, K)>> : K \in SUBSET DOMAIN size}
FillOf(size, updated, page) ==
  {<<S, n>> \in (SUBSET (DOMAIN size \ updated)) \X (0..page) :
     \E i \in 0..page : n = Total(size, S) + i * Total(size, updated)}

SizeHere == [k \in Keys |-> Size(k)]
ASSUME SmallIsRoomy == Roomy(LoadOf(SizeHere), FillOf(SizeHere, Updated, PageSize - 1))

(* The firmware: the address, the serial line and the OTA item of          *)
(* configtool.c:35-37, on 4 pages of 256 bytes; RELOAD updates the second  *)
(* (sensor.c:29), the others are written once if ever.                     *)
FirmwareLen == <<1, 8, 48>>
Firmware == INSTANCE Storage WITH
  Keys <- DOMAIN FirmwareLen, KeyLen <- FirmwareLen, Updated <- {2},
  PageMax <- 4, PageSize <- 256, ZeroCrc <- {}, Faults <- {}, MaxFaults <- 0
FirmwareSize == [k \in DOMAIN FirmwareLen |-> Firmware!Size(k)]
ASSUME FirmwareIsRoomy ==
  Firmware!Roomy(LoadOf(FirmwareSize), FillOf(FirmwareSize, {2}, 255))
=============================================================================
