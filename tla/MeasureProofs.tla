----------------------------- MODULE MeasureProofs -----------------------------
(***************************************************************************)
(* Theorems about Measure, for any devices, phantoms and water, any size   *)
(* of the list and any number of disturbances.                             *)
(***************************************************************************)
EXTENDS Measure, TLAPS

------------------------------------------------------------------------------
(* Types *)

\* TypeOK in parts.
SearchTypes == /\ bus \subseteq Devices /\ found \in Seq(Ids) /\ Len(found) <= MaxDevices
               /\ on \in BOOLEAN /\ changes \in 0..MaxChanges
LoopTypes == /\ num \in 0..Len(found) /\ at \in 0..Len(Mdc02)
             /\ at > 0 => at <= Len(Program) /\ num > 0
             /\ on => num = 0
             /\ type \in {"none", "MDC02", "MY18B20Z"}
DeviceTypes == set \in [Devices -> SUBSET Fields] /\ cap \in [Devices -> [{1, 2} -> Results]]
ReadingTypes == offset \in BOOLEAN /\ range \in BOOLEAN /\ icap1 \in Results
OutputTypes == wids \in BOOLEAN /\ ireg \in Ids \cup {"zero"}
WorldTypes == water \in Waters /\ still \in BOOLEAN /\ quiet \in BOOLEAN

LEMMA TypesOf == TypeOK <=> /\ SearchTypes /\ LoopTypes /\ DeviceTypes
                            /\ ReadingTypes /\ OutputTypes /\ WorldTypes
BY DEF TypeOK, SearchTypes, LoopTypes, DeviceTypes, ReadingTypes, OutputTypes, WorldTypes

LEMMA TypesThen == TypeOK' <=> /\ SearchTypes' /\ LoopTypes' /\ DeviceTypes'
                               /\ ReadingTypes' /\ OutputTypes' /\ WorldTypes'
BY DEF TypeOK, SearchTypes, LoopTypes, DeviceTypes, ReadingTypes, OutputTypes, WorldTypes

\* A group of variables that stays as it is keeps its types.
LEMMA Unchanged ==
  ASSUME TypeOK
  PROVE  /\ UNCHANGED search => SearchTypes'
         /\ UNCHANGED <<loop, found, on>> => LoopTypes'
         /\ UNCHANGED devices => DeviceTypes'
         /\ UNCHANGED readings => ReadingTypes'
         /\ UNCHANGED outputs => OutputTypes'
         /\ UNCHANGED world => WorldTypes'
<1>1. UNCHANGED search => SearchTypes'
  BY TypesOf DEF search, SearchTypes
<1>2. UNCHANGED <<loop, found, on>> => LoopTypes'
  BY TypesOf DEF loop, LoopTypes, Program
<1>3. UNCHANGED devices => DeviceTypes'
  BY TypesOf DEF devices, DeviceTypes
<1>4. (UNCHANGED readings => ReadingTypes') /\ (UNCHANGED outputs => OutputTypes')
  BY TypesOf DEF readings, ReadingTypes, outputs, OutputTypes
<1>5. UNCHANGED world => WorldTypes'
  BY TypesOf DEF world, WorldTypes, Waters
<1> QED BY <1>1, <1>2, <1>3, <1>4, <1>5

LEMMA MeasureInit == Init => TypeOK
<1> SUFFICES ASSUME Init PROVE TypeOK
  OBVIOUS
<1>1. found \in Seq(Ids) /\ Len(found) = 0
  BY DEF Init
<1>2. set \in [Devices -> SUBSET Fields] /\ cap \in [Devices -> [{1, 2} -> Results]]
  BY DEF Init, Fields, Unpowered, Results
<1>3. /\ num \in 0..Len(found) /\ at \in 0..Len(Mdc02) /\ changes \in 0..MaxChanges
      /\ Len(found) <= MaxDevices /\ ~(at > 0)
  BY <1>1, MeasureAssumption DEF Init, Mdc02
<1> QED BY ONLY Init, <1>1, <1>2, <1>3 DEF Init, TypeOK, Results

LEMMA Lengths == Len(Mdc02) = 11 /\ Len(MY18B20Z) = 2 /\ Len(Program) \in {2, 11}
BY DEF Mdc02, MY18B20Z, Program

\* Which step an operation is.
LEMMA Places ==
  ASSUME TypeOK
  PROVE  /\ At("setconfig") => at = 1
         /\ At("writecosconfig") => at = 2 /\ type = "MDC02"
         /\ At("writecfbconfig") => at = 3 /\ type = "MDC02"
         /\ At("channel1") => at = 4 /\ type = "MDC02"
         /\ At("convert_tempcap1") => at = 5 /\ type = "MDC02"
         /\ At("channel12") => at = 6 /\ type = "MDC02"
         /\ At("convertcap") => at = 7 /\ type = "MDC02"
         /\ At("offset") => at = 8 /\ type = "MDC02"
         /\ At("range") => at = 9 /\ type = "MDC02"
         /\ At("readtempcap1") => at = 10 /\ type = "MDC02"
         /\ At("readcapc2c3c4") => at = 11 /\ type = "MDC02"
         /\ At("read_temp") => at = 2 /\ type # "MDC02"
<1>1. at \in 0..11 /\ (at > 0 => at <= Len(Program))
  BY Lengths DEF TypeOK
<1>2. CASE type = "MDC02"
  BY <1>1, <1>2 DEF At, Program, Mdc02
<1>3. CASE type # "MDC02"
  <2>1. Program = MY18B20Z
    BY <1>3 DEF Program
  <2>2. at > 0 => at = 1 \/ at = 2
    BY <1>1, <2>1, Lengths
  <2> QED BY <2>1, <2>2, <1>3 DEF At, MY18B20Z
<1> QED BY <1>2, <1>3

LEMMA RowInList == ASSUME TypeOK, num > 0 PROVE num \in 1..Len(found) /\ Row \in Ids
BY DEF TypeOK, Row

LEMMA Counts ==
  \A n, m : /\ n \in Nat => 0 \in 0..n /\ 0 <= n
            /\ n \in Nat /\ m \in 1..n => m \in Nat
            /\ n \in Nat /\ m \in 1..n /\ m < n => m + 1 \in 0..n /\ m + 1 > 0
            /\ n \in Nat /\ m \in 0..n /\ m < n => m + 1 \in 0..n
            /\ n \in {2, 11} => n \in Nat /\ n <= 11 /\ 1 <= n
OBVIOUS

LEMMA AdvanceTyped ==
  ASSUME TypeOK, num > 0, at > 0, Advance, found' = found, type' = type
  PROVE  /\ num' \in 0..Len(found') /\ at' \in 0..Len(Mdc02)
         /\ at' > 0 => at' <= Len(Program)' /\ num' > 0
         /\ at < Len(Program) => at' = at + 1 /\ num' = num
         /\ at = Len(Program) => at' = 0
         /\ at = Len(Program) => num' = IF num < Len(found) THEN num + 1 ELSE 0
<1>0. /\ found \in Seq(Ids) /\ num \in 0..Len(found) /\ at \in 0..Len(Mdc02)
      /\ at <= Len(Program)
  BY DEF TypeOK
<1>1. num \in 1..Len(found) /\ at \in 1..11 /\ at <= Len(Program) /\ Len(found) \in Nat
  BY <1>0, Lengths
<1>2. Len(Program') = Len(Program) /\ Len(Program) \in {2, 11} /\ Len(Mdc02) = 11
      /\ Len(Program) \in Nat /\ Len(Program) <= 11
  <2>1. Program' = Program
    BY DEF Program
  <2>2. Len(Program) \in Nat /\ Len(Program) <= 11
    BY Lengths, Counts
  <2> QED BY <2>1, <2>2, Lengths
<1>3. /\ num \in Nat /\ at \in Nat
      /\ num < Len(found) => num + 1 \in 0..Len(found) /\ num + 1 > 0
      /\ at < Len(Program) => at + 1 \in 0..11 /\ at + 1 <= Len(Program)
  <2>1. num \in Nat /\ (num < Len(found) => num + 1 \in 0..Len(found) /\ num + 1 > 0)
    BY ONLY <1>1
  <2>2. at \in Nat /\ (at < Len(Program) => at + 1 \in 0..11 /\ at + 1 <= Len(Program))
    BY ONLY <1>1, <1>2
  <2> QED BY <2>1, <2>2
<1>4. CASE at < Len(Program)
  BY <1>1, <1>2, <1>3, <1>4 DEF Advance
<1>5. CASE at = Len(Program)
  BY <1>1, <1>2, <1>3, <1>5 DEF Advance
<1> QED BY <1>1, <1>2, <1>4, <1>5

LEMMA ConvertTyped ==
  ASSUME TypeOK, NEW ok \in BOOLEAN, ok => Row \in bus, NEW channels, Convert(ok, channels)
  PROVE  /\ cap' \in [Devices -> [{1, 2} -> Results]]
         /\ UNCHANGED <<set, readings, outputs>>
<1>1. \A k : Sample(k) \in Results
  BY DEF Sample, Results
<1>2. CASE ok
  <2>1. Row \in Devices /\ cap[Row] \in [{1, 2} -> Results]
    BY <1>2 DEF TypeOK
  <2>2. [k \in {1, 2} |-> IF k \in channels THEN Sample(k) ELSE cap[Row][k]]
          \in [{1, 2} -> Results]
    BY <1>1, <2>1
  <2> QED BY <1>2, <2>1, <2>2 DEF Convert, TypeOK
<1>3. CASE ~ok
  BY <1>3 DEF Convert, TypeOK
<1> QED BY <1>2, <1>3

\* What a transaction does whether it succeeds or not.
LEMMA TransactTyped ==
  ASSUME TypeOK, NEW ok \in BOOLEAN, ok => Row \in bus, Transact(ok)
  PROVE  /\ num > 0 /\ at > 0 /\ Advance
         /\ UNCHANGED <<bus, found, on, type, water, still>>
         /\ set' \in [Devices -> SUBSET Fields]
         /\ cap' \in [Devices -> [{1, 2} -> Results]]
         /\ offset' \in BOOLEAN /\ range' \in BOOLEAN /\ icap1' \in Results
         /\ wids' \in BOOLEAN /\ ireg' \in Ids \cup {"zero"}
<1>1. Advance /\ UNCHANGED <<bus, found, on, type, water, still>>
  BY DEF Transact
<1>2. CASE setconfig(ok) \/ writecosconfig(ok) \/ writecfbconfig(ok)
           \/ setcapchannel1(ok) \/ setcapchannel12(ok)
  <2>1. PICK f : Modify(ok, f) /\ (ok => f \in SUBSET Fields) /\ num > 0 /\ at > 0
    BY <1>2 DEF setconfig, writecosconfig, writecfbconfig, setcapchannel1, setcapchannel12,
                At, TypeOK, Fields, SetUp
  <2>2. set' \in [Devices -> SUBSET Fields] /\ UNCHANGED <<cap, readings, outputs>>
    BY <2>1 DEF Modify, TypeOK
  <2> QED BY <1>1, <2>1, <2>2 DEF TypeOK, readings, outputs
<1>3. CASE convert_tempcap1(ok) \/ convertcap(ok)
  <2>1. PICK channels : Convert(ok, channels)
    BY <1>3 DEF convert_tempcap1, convertcap
  <2>2. num > 0 /\ at > 0
    BY <1>3 DEF convert_tempcap1, convertcap, At
  <2> QED BY <1>1, <2>1, <2>2, ConvertTyped DEF TypeOK, readings, outputs
<1>4. CASE getcfg_capoffset(ok) \/ getcfg_caprange(ok)
  BY <1>1, <1>4 DEF getcfg_capoffset, getcfg_caprange, At, TypeOK, devices, outputs
<1>5. CASE readtempcap1(ok)
  <2>1. icap1' \in Results
    <3>1. CASE ok
      <4>1. cap[Row] \in [{1, 2} -> Results]
        BY <3>1 DEF TypeOK
      <4> QED BY <4>1, <3>1, <1>5 DEF readtempcap1
    <3>2. CASE ~ok
      BY <3>2, <1>5 DEF readtempcap1, Results
    <3> QED BY <3>1, <3>2
  <2> QED BY <1>1, <1>5, <2>1 DEF readtempcap1, At, TypeOK, devices, outputs
<1>6. CASE judge_status(ok)
  <2>1. wids' \in BOOLEAN
    BY <1>6 DEF judge_status, judged
  <2> QED BY <1>1, <1>6, <2>1 DEF judge_status, At, TypeOK, devices, Results
<1>7. CASE read_temp(ok)
  <2>1. num > 0 /\ at > 0 /\ ireg' \in Ids \cup {"zero"}
    BY <1>7, RowInList DEF read_temp, At
  <2> QED BY <1>1, <1>7, <2>1 DEF read_temp, TypeOK, devices, readings
<1> QED BY <1>2, <1>3, <1>4, <1>5, <1>6, <1>7 DEF Transact

LEMMA DisturbTyped ==
  ASSUME TypeOK, Disturb
  PROVE  changes' \in 0..MaxChanges /\ changes' > 0 /\ quiet' = FALSE /\ quiet' \in BOOLEAN
<1>1. changes \in 0..MaxChanges /\ MaxChanges \in Nat
  BY MeasureAssumption DEF TypeOK
<1>2. changes < MaxChanges /\ changes' = changes + 1 /\ quiet' = FALSE
  BY DEF Disturb
<1>3. changes' \in 0..MaxChanges /\ changes' > 0
  BY <1>1, <1>2
<1> QED BY <1>2, <1>3

\* What a step within a row keeps, apart from what its operation does.
LEMMA RowStepTyped ==
  ASSUME TypeOK, num > 0, at > 0, Advance, UNCHANGED <<bus, found, on, type, water, still>>,
         changes' \in 0..MaxChanges, quiet' \in BOOLEAN
  PROVE  SearchTypes' /\ LoopTypes' /\ WorldTypes'
<1>1. /\ num' \in 0..Len(found') /\ at' \in 0..Len(Mdc02)
      /\ at' > 0 => at' <= Len(Program)' /\ num' > 0
  BY AdvanceTyped
<1>2. ~on
  <2>1. on => num = 0
    BY DEF TypeOK
  <2> QED BY <2>1
<1>3. SearchTypes'
  BY DEF SearchTypes, TypeOK
<1>4. LoopTypes'
  <2>1. type' \in {"none", "MDC02", "MY18B20Z"} /\ ~on'
    BY <1>2 DEF TypeOK
  <2> QED BY ONLY <1>1, <2>1 DEF LoopTypes
<1>5. WorldTypes'
  BY DEF WorldTypes, TypeOK, Waters
<1> QED BY <1>3, <1>4, <1>5

LEMMA TransactKeepsTypes ==
  ASSUME TypeOK, NEW ok \in BOOLEAN, ok => Row \in bus, Transact(ok),
         changes' \in 0..MaxChanges, quiet' \in BOOLEAN
  PROVE  TypeOK'
<1>1. SearchTypes' /\ LoopTypes' /\ WorldTypes'
  BY TransactTyped, RowStepTyped
<1>2. DeviceTypes' /\ ReadingTypes' /\ OutputTypes'
  BY TransactTyped DEF DeviceTypes, ReadingTypes, OutputTypes
<1> QED BY <1>1, <1>2, TypesThen

\* While a search runs no row is handled, and it leaves the loop outside of the rows.
LEMMA Outside == ASSUME TypeOK, on \/ num = 0 PROVE num = 0 /\ at = 0
<1>1. (on => num = 0) /\ (at > 0 => num > 0) /\ at \in 0..Len(Mdc02)
  BY DEF TypeOK
<1> QED BY <1>1, Lengths

LEMMA LoopOutside ==
  ASSUME TypeOK, at = 0, at' = at, Len(found') \in Nat, num' \in 0..Len(found'),
         on' => num' = 0, type' \in {"none", "MDC02", "MY18B20Z"}
  PROVE  LoopTypes'
BY Lengths DEF LoopTypes

LEMMA SearchTyped ==
  ASSUME TypeOK,
         Call \/ Discover \/ Finish \/ Deserted \/ Restarted \/ SearchMisread \/ PresenceMissed
  PROVE  TypeOK'
<1>0. /\ changes \in 0..MaxChanges /\ 0 \in 0..MaxChanges /\ bus \subseteq Devices
      /\ found \in Seq(Ids) /\ Len(found) \in Nat /\ Len(found) <= MaxDevices
      /\ type \in {"none", "MDC02", "MY18B20Z"} /\ MaxDevices \in Nat
  <2>1. /\ changes \in 0..MaxChanges /\ bus \subseteq Devices
        /\ found \in Seq(Ids) /\ Len(found) <= MaxDevices
        /\ type \in {"none", "MDC02", "MY18B20Z"}
    BY DEF TypeOK
  <2> QED BY <2>1, MeasureAssumption
<1>1. CASE Call
  <2>1. found' = <<>> /\ bus' = bus /\ on' = TRUE /\ changes' = 0 /\ num = 0 /\ still' = TRUE
    BY <1>1 DEF Call, Bus!Start
  <2>2. found' \in Seq(Ids) /\ Len(found') = 0
    BY <2>1
  <2>3. UNCHANGED <<loop, devices, readings, outputs, water, quiet>>
    BY <1>1 DEF Call
  <2>4. SearchTypes'
    BY <1>0, <2>1, <2>2 DEF SearchTypes
  <2>5. LoopTypes'
    <3>1. num' = 0 /\ at' = at /\ at = 0 /\ type' = type
      BY <2>1, <2>3, Outside DEF loop
    <3> QED BY <1>0, <2>2, <3>1, LoopOutside
  <2>6. WorldTypes'
    BY <2>1, <2>3 DEF WorldTypes, TypeOK, Waters
  <2>7. UNCHANGED devices /\ UNCHANGED readings /\ UNCHANGED outputs
    BY <2>3
  <2> QED BY <2>4, <2>5, <2>6, <2>7, Unchanged, TypesThen
<1>2. CASE Discover
  <2>1. PICK d \in Ids : found' = Append(found, d)
    BY <1>2 DEF Discover, Bus!Discover
  <2>2. found' \in Seq(Ids) /\ Len(found') = Len(found) + 1
    BY <1>0, <2>1
  <2>3. Len(found) < MaxDevices /\ on /\ on' = on /\ bus' = bus
    BY <1>2 DEF Discover, Bus!Discover
  <2>4. UNCHANGED <<changes, loop, devices, readings, outputs, world>>
    BY <1>2 DEF Discover
  <2>5. SearchTypes'
    <3>1. Len(found') <= MaxDevices
      BY <1>0, <2>2, <2>3
    <3>2. on' \in BOOLEAN /\ changes' \in 0..MaxChanges /\ bus' \subseteq Devices
      BY <2>3, <2>4 DEF TypeOK
    <3> QED BY ONLY <2>2, <3>1, <3>2 DEF SearchTypes
  <2>6. LoopTypes'
    <3>1. num' = 0 /\ at' = at /\ at = 0 /\ type' = type
      BY <2>3, <2>4, Outside DEF loop
    <3>2. Len(found') \in Nat /\ 0 \in 0..Len(found')
      BY <1>0, <2>2
    <3> QED BY <1>0, <3>1, <3>2, LoopOutside
  <2>7. UNCHANGED devices /\ UNCHANGED readings /\ UNCHANGED outputs /\ UNCHANGED world
    BY <2>4
  <2> QED BY <2>5, <2>6, <2>7, Unchanged, TypesThen
<1>3. CASE Finish
  <2>1. on /\ on' = FALSE /\ bus' = bus /\ found' = found
    BY <1>3 DEF Finish, Bus!Finish
  <2>2. UNCHANGED <<changes, at, type, devices, readings, outputs, world>>
    BY <1>3 DEF Finish
  <2>3. num' \in 0..Len(found) /\ num = 0 /\ at = 0
    <3>1. found # <<>> => Len(found) > 0
      BY <1>0
    <3>2. num' = IF found = <<>> THEN 0 ELSE 1
      BY <1>3 DEF Finish
    <3>3. num = 0 /\ at = 0
      BY <2>1, Outside
    <3> QED BY <1>0, <3>1, <3>2, <3>3
  <2>4. SearchTypes'
    BY <2>1, <2>2 DEF SearchTypes, TypeOK
  <2>5. LoopTypes'
    BY <1>0, <2>1, <2>2, <2>3, LoopOutside
  <2>6. UNCHANGED devices /\ UNCHANGED readings /\ UNCHANGED outputs /\ UNCHANGED world
    BY <2>2
  <2> QED BY <2>4, <2>5, <2>6, Unchanged, TypesThen
<1>4. CASE Deserted \/ PresenceMissed
  <2>1. on /\ on' = FALSE /\ bus' = bus /\ found' = <<>>
    BY <1>4 DEF Deserted, PresenceMissed, Bus!Deserted
  <2>2. found' \in Seq(Ids) /\ Len(found') = 0 /\ num = 0 /\ at = 0
    BY <2>1, Outside
  <2>3. UNCHANGED <<loop, devices, readings, outputs, water, still>>
    BY <1>4 DEF Deserted, PresenceMissed, world
  <2>4. changes' \in 0..MaxChanges /\ quiet' \in BOOLEAN
    BY <1>4, DisturbTyped DEF Deserted, PresenceMissed, world, TypeOK
  <2>5. SearchTypes'
    <3>1. bus' \subseteq Devices /\ on' \in BOOLEAN
      BY <1>0, <2>1
    <3>2. Len(found') <= MaxDevices
      BY ONLY <1>0, <2>2, Counts
    <3> QED BY ONLY <2>2, <2>4, <3>1, <3>2 DEF SearchTypes
  <2>6. LoopTypes'
    <3>1. num' = 0 /\ at' = at /\ type' = type
      BY <2>2, <2>3 DEF loop
    <3> QED BY <1>0, <2>2, <3>1, LoopOutside
  <2>7. WorldTypes'
    BY <2>3, <2>4 DEF WorldTypes, TypeOK, Waters
  <2>8. UNCHANGED devices /\ UNCHANGED readings /\ UNCHANGED outputs
    BY <2>3
  <2> QED BY <2>5, <2>6, <2>7, <2>8, Unchanged, TypesThen
<1>5. CASE Restarted
  <2>1. on /\ on' = FALSE /\ bus' = bus /\ found' = <<>>
    BY <1>5 DEF Restarted, Bus!Restarted
  <2>2. found' \in Seq(Ids) /\ Len(found') = 0 /\ num = 0 /\ at = 0
    BY <2>1, Outside
  <2>3. /\ UNCHANGED <<changes, num, at, devices, readings, world>>
        /\ type' = "none" /\ wids' = FALSE /\ ireg' = "zero"
    BY <1>5 DEF Restarted
  <2>4. SearchTypes'
    <3>1. bus' \subseteq Devices /\ on' \in BOOLEAN /\ changes' \in 0..MaxChanges
      BY <1>0, <2>1, <2>3
    <3>2. Len(found') <= MaxDevices
      BY ONLY <1>0, <2>2, Counts
    <3> QED BY ONLY <2>2, <3>1, <3>2 DEF SearchTypes
  <2>5. LoopTypes'
    BY <2>2, <2>3, LoopOutside
  <2>6. OutputTypes'
    BY <2>3 DEF OutputTypes
  <2>7. UNCHANGED devices /\ UNCHANGED readings /\ UNCHANGED world
    BY <2>3
  <2> QED BY <2>4, <2>5, <2>6, <2>7, Unchanged, TypesThen
<1>6. CASE SearchMisread
  <2>1. changes' \in 0..MaxChanges /\ quiet' \in BOOLEAN
    BY <1>6, DisturbTyped DEF SearchMisread
  <2>2. UNCHANGED <<bus, found, on, loop, devices, readings, outputs, water, still>>
    BY <1>6 DEF SearchMisread
  <2>3. SearchTypes' /\ WorldTypes'
    BY <2>1, <2>2 DEF SearchTypes, WorldTypes, TypeOK, Waters
  <2> QED BY <2>2, <2>3, Unchanged, TypesThen
<1> QED BY <1>1, <1>2, <1>3, <1>4, <1>5, <1>6

LEMMA MeasureTyped == TypeOK /\ [Next]_vars => TypeOK'
<1> SUFFICES ASSUME TypeOK, [Next]_vars PROVE TypeOK'
  OBVIOUS
<1>1. CASE Call \/ Discover \/ Finish \/ Deserted \/ Restarted \/ SearchMisread
           \/ PresenceMissed
  BY <1>1, SearchTyped
<1>2. CASE romid_crc
  <2>1. Kind[Row] \in {"MDC02", "MY18B20Z", "neither"} /\ num > 0
    BY <1>2, RowInList, MeasureAssumption DEF romid_crc
  <2>2. /\ UNCHANGED <<search, num, devices, readings, outputs, water, still>>
        /\ at' = 1 /\ quiet' = TRUE
        /\ type' = IF Kind[Row] = "neither" THEN type ELSE Kind[Row]
    BY <1>2 DEF romid_crc
  <2>3. LoopTypes'
    <3>1. type' \in {"none", "MDC02", "MY18B20Z"}
      BY <2>1, <2>2 DEF TypeOK
    <3>2. Len(Program') \in {2, 11} /\ 1 \in 0..11 /\ at' \in 0..Len(Mdc02)
      BY <2>2 DEF Program, Mdc02, MY18B20Z
    <3>3. num' \in 0..Len(found') /\ num' > 0 /\ (on' => num' = 0)
      <4>1. num \in 0..Len(found) /\ num > 0 /\ (on => num = 0)
        BY <2>1 DEF TypeOK
      <4>2. num' = num /\ found' = found /\ on' = on
        BY <2>2 DEF search
      <4> QED BY ONLY <4>1, <4>2
    <3>4. at' <= Len(Program')
      <4>1. at' = 1
        BY <2>2
      <4> QED BY <3>2, <4>1, Counts
    <3> QED BY ONLY <3>1, <3>2, <3>3, <3>4 DEF LoopTypes
  <2>4. WorldTypes'
    BY <2>2 DEF WorldTypes, TypeOK, Waters
  <2>5. UNCHANGED search /\ UNCHANGED devices /\ UNCHANGED readings /\ UNCHANGED outputs
    BY <2>2
  <2> QED BY <2>3, <2>4, <2>5, Unchanged, TypesThen
<1>3. CASE Handle
  <2>1. quiet' \in BOOLEAN /\ changes' \in 0..MaxChanges
    BY <1>3 DEF Handle, TypeOK
  <2>2. (Row \in bus) \in BOOLEAN /\ Transact(Row \in bus)
    BY <1>3 DEF Handle
  <2> QED BY <2>1, <2>2, TransactKeepsTypes
<1>4. CASE Lost
  <2>1. Disturb /\ Transact(FALSE)
    BY <1>4 DEF Lost
  <2> QED BY <2>1, DisturbTyped, TransactKeepsTypes
<1>5. CASE Garbled
  <2>1. /\ num > 0 /\ at > 0 /\ Advance /\ Row \in Devices
        /\ UNCHANGED <<bus, found, on, type, cap, readings, outputs, water, still>>
    BY <1>5 DEF Garbled, TypeOK
  <2>2. set' \in [Devices -> SUBSET Fields]
    <3>1. PICK w \in SUBSET Fields, right \in Garbles :
            set' = [set EXCEPT ![Row] = (@ \ w) \cup (right \cap w)]
      BY <1>5 DEF Garbled, Fields, SetUp
    <3> QED BY <2>1, <3>1 DEF TypeOK
  <2>3. changes' \in 0..MaxChanges /\ quiet' \in BOOLEAN
    BY <1>5, DisturbTyped DEF Garbled
  <2>4. SearchTypes' /\ LoopTypes' /\ WorldTypes'
    BY <2>1, <2>3, RowStepTyped
  <2>5. DeviceTypes'
    BY <2>1, <2>2 DEF DeviceTypes, TypeOK
  <2> QED BY <2>1, <2>4, <2>5, Unchanged, TypesThen
<1>6. ASSUME NEW d \in Devices, Unplug(d) \/ Plug(d) PROVE TypeOK'
  <2>1. changes' \in 0..MaxChanges /\ quiet' \in BOOLEAN
    BY <1>6, DisturbTyped DEF Unplug, Plug
  <2>2. set' \in [Devices -> SUBSET Fields] /\ cap' \in [Devices -> [{1, 2} -> Results]]
    <3>1. CASE Unplug(d)
      <4>1. {"rest"} \in SUBSET Fields /\ Unpowered \in [{1, 2} -> Results]
        BY DEF Fields, Unpowered, Results
      <4>2. /\ set' = [set EXCEPT ![d] = {"rest"}]
            /\ cap' = [cap EXCEPT ![d] = Unpowered]
        BY <3>1 DEF Unplug
      <4> QED BY <4>1, <4>2 DEF TypeOK
    <3>2. CASE Plug(d)
      BY <3>2 DEF Plug, devices, TypeOK
    <3> QED BY <1>6, <3>1, <3>2
  <2>3. bus' \subseteq Devices
    BY <1>6 DEF Unplug, Plug, TypeOK
  <2>4. UNCHANGED <<found, on, loop, readings, outputs, water, still>>
    BY <1>6 DEF Unplug, Plug
  <2>5. SearchTypes' /\ WorldTypes'
    BY <2>1, <2>3, <2>4 DEF SearchTypes, WorldTypes, TypeOK, Waters
  <2>6. DeviceTypes'
    BY <2>2 DEF DeviceTypes
  <2> QED BY <2>4, <2>5, <2>6, Unchanged, TypesThen
<1>7. ASSUME NEW d \in Devices, WaterMoves(d) PROVE TypeOK'
  <2>1. PICK level \in Levels[d] : water' = [water EXCEPT ![d] = level]
    BY <1>7 DEF WaterMoves
  <2>2. water' \in Waters
    BY <2>1, MeasureAssumption DEF TypeOK, Waters
  <2>3. /\ UNCHANGED <<search, loop, devices, readings, outputs>>
        /\ still' = FALSE /\ quiet' = FALSE
    BY <1>7 DEF WaterMoves
  <2>4. WorldTypes'
    BY <2>2, <2>3 DEF WorldTypes
  <2>5. UNCHANGED search /\ UNCHANGED <<loop, found, on>>
    BY <2>3 DEF search
  <2> QED BY <2>3, <2>4, <2>5, Unchanged, TypesThen
<1>8. CASE UNCHANGED vars
  <2>1. UNCHANGED search /\ UNCHANGED <<loop, found, on>>
    BY <1>8 DEF vars, search
  <2> QED BY <1>8, <2>1, Unchanged, TypesThen DEF vars
<1> QED BY <1>1, <1>2, <1>3, <1>4, <1>5, <1>6, <1>7, <1>8
    DEF Next, dev_type_choose_function, Environment

\* TypeOK: the loop stays within the list of devices and the steps of a row, whatever the
\* search recorded and whatever is unplugged meanwhile.
THEOREM TypeCorrect == Spec => []TypeOK
BY MeasureInit, MeasureTyped, PTL DEF Spec
------------------------------------------------------------------------------
(* The inductive invariant *)

\* In an undisturbed search what is listed is on the bus, in the order Before, and
\* before what is not listed yet.
CalmList ==
  changes = 0 =>
    /\ \A i \in 1..Len(found) : found[i] \in bus
    /\ \A i, j \in 1..Len(found) : i < j => <<found[i], found[j]>> \in Before
    /\ \A i \in 1..Len(found), e \in Bus!Unfound : <<found[i], e>> \in Before

\* A row is handled as what its id says.
RowKind == at > 0 /\ Kind[Row] # "neither" => type = Kind[Row]

Quietness == changes = 0 /\ still /\ at > 0 => quiet

\* An MDC02 is handled that nothing disturbed meanwhile.
Sensing == at > 0 /\ Row \in bus /\ type = "MDC02"

SetUpSoFar ==
  Sensing /\ (quiet \/ changes = 0) =>
    /\ at > 1 => "cfg" \in set[Row]
    /\ at > 2 => "cos" \in set[Row]
    /\ at > 3 => "cfb" \in set[Row]
    /\ at > 6 => "ch1ch2" \in set[Row]

Truth(d, k) == IF k \in water[d] THEN "wet" ELSE "dry"

ReadSoFar ==
  Sensing /\ quiet /\ "rest" \in set[Row] =>
    /\ at > 7 => \A k \in {1, 2} : cap[Row][k] = Truth(Row, k)
    /\ at > 8 => offset
    /\ at > 9 => range
    /\ at > 10 => icap1 = Truth(Row, 1)

LastRow(kind, i) ==
  Kind[found[i]] = kind /\ \A j \in Rows : i < j => Kind[found[j]] # kind

AlarmSoFar ==
  changes = 0 /\ still /\ ~on =>
    \A i \in Rows : LastRow("MDC02", i) /\ "rest" \in set[found[i]]
                      => wids = (water[found[i]] = {1, 2})

TemperatureSoFar ==
  changes = 0 /\ ~on => \A i \in Rows : LastRow("MY18B20Z", i) => ireg = found[i]

Inductive ==
  /\ TypeOK /\ CalmList /\ RowKind /\ Quietness /\ SetUpSoFar /\ ReadSoFar
  /\ HandledIsSetUp /\ AlarmSoFar /\ TemperatureSoFar

LEMMA InductiveInit == Init => Inductive
<1> SUFFICES ASSUME Init PROVE Inductive
  OBVIOUS
<1>1. TypeOK
  BY MeasureInit
<1>2. ~(at > 0) /\ Len(found) = 0 /\ num = 0
  BY DEF Init
<1>3. Rows = {} /\ 1..Len(found) = {}
  BY <1>2 DEF Rows
<1> QED BY <1>1, <1>2, <1>3
    DEF Inductive, CalmList, RowKind, Quietness, Sensing, SetUpSoFar, ReadSoFar,
        HandledIsSetUp, AlarmSoFar, TemperatureSoFar

\* Between rows nothing is claimed about the row.
LEMMA AtRest == at' = 0 => RowKind' /\ Quietness' /\ SetUpSoFar' /\ ReadSoFar'
<1> SUFFICES ASSUME at' = 0 PROVE RowKind' /\ Quietness' /\ SetUpSoFar' /\ ReadSoFar'
  OBVIOUS
<1>1. ~(at' > 0)
  OBVIOUS
<1> QED BY <1>1 DEF RowKind, Quietness, Sensing, SetUpSoFar, ReadSoFar

\* Nothing is claimed once a disturbance happened, but that the type is that of the row.
LEMMA Disturbed ==
  ASSUME changes' > 0, quiet' = FALSE
  PROVE  /\ CalmList' /\ Quietness' /\ SetUpSoFar' /\ ReadSoFar'
         /\ HandledIsSetUp' /\ AlarmSoFar' /\ TemperatureSoFar'
<1>1. changes' # 0
  OBVIOUS
<1> QED BY <1>1 DEF CalmList, Quietness, SetUpSoFar, ReadSoFar, HandledIsSetUp,
                    AlarmSoFar, TemperatureSoFar

\* No row was handled yet.
LEMMA NoRow ==
  ASSUME on' \/ Rows' = {}
  PROVE  HandledIsSetUp' /\ AlarmSoFar' /\ TemperatureSoFar'
BY DEF HandledIsSetUp, AlarmSoFar, TemperatureSoFar

------------------------------------------------------------------------------
(* The search *)

LEMMA DiscoverCalm == ASSUME TypeOK, CalmList, Discover PROVE CalmList'
<1> SUFFICES ASSUME changes = 0
             PROVE  /\ \A i \in 1..Len(found') : found'[i] \in bus'
                    /\ \A i, j \in 1..Len(found') : i < j => <<found'[i], found'[j]>> \in Before
                    /\ \A i \in 1..Len(found'), e \in Bus!Unfound' : <<found'[i], e>> \in Before
  BY DEF CalmList, Discover
<1>1. PICK d \in Bus!Unfound :
        /\ \A e \in Bus!Unfound \ {d} : <<d, e>> \in Before
        /\ found' = Append(found, d) /\ bus' = bus
  BY DEF Discover, Bus!Discover
<1>2. d \in bus /\ found \in Seq(Ids) /\ Len(found) \in Nat /\ d \in Ids
  BY <1>1, MeasureAssumption DEF Bus!Unfound, TypeOK
<1>3. /\ Len(found') = Len(found) + 1 /\ found'[Len(found) + 1] = d
      /\ \A i \in 1..Len(found) : found'[i] = found[i]
  BY <1>1, <1>2
<1>4. /\ Len(found) + 1 \in 1..Len(found')
      /\ \A i \in 1..Len(found') : i \in 1..Len(found) \/ i = Len(found) + 1
      /\ \A i \in 1..Len(found) : i \in 1..Len(found')
      /\ \A i, j \in 1..Len(found') :
           i < j => i \in 1..Len(found) /\ (j \in 1..Len(found) \/ j = Len(found) + 1)
  BY <1>2, <1>3
<1>5. \A e \in Bus!Unfound' : e \in Bus!Unfound /\ e # d
  <2>1. d \in Bus!Listed' /\ \A x \in Bus!Listed : x \in Bus!Listed'
    <3>1. d \in {found'[i] : i \in 1..Len(found')}
      BY <1>3, <1>4
    <3>2. \A i \in 1..Len(found) : found[i] \in {found'[k] : k \in 1..Len(found')}
      BY <1>3, <1>4
    <3> QED BY <3>1, <3>2 DEF Bus!Listed
  <2> QED BY <1>1, <2>1 DEF Bus!Unfound
<1>6. /\ \A i \in 1..Len(found) : found[i] \in bus /\ <<found[i], d>> \in Before
      /\ \A i, j \in 1..Len(found) : i < j => <<found[i], found[j]>> \in Before
      /\ \A i \in 1..Len(found), e \in Bus!Unfound : <<found[i], e>> \in Before
  BY <1>1 DEF CalmList
<1>7. ASSUME NEW i \in 1..Len(found') PROVE found'[i] \in bus'
  BY <1>1, <1>2, <1>3, <1>4, <1>6
<1>8. ASSUME NEW i \in 1..Len(found'), NEW j \in 1..Len(found'), i < j
      PROVE  <<found'[i], found'[j]>> \in Before
  BY <1>3, <1>4, <1>6, <1>8
<1>9. ASSUME NEW i \in 1..Len(found'), NEW e \in Bus!Unfound'
      PROVE  <<found'[i], e>> \in Before
  <2>1. e \in Bus!Unfound /\ e # d
    BY <1>5
  <2>2. CASE i \in 1..Len(found)
    BY <1>3, <1>6, <2>1, <2>2
  <2>3. CASE i = Len(found) + 1
    BY <1>1, <1>3, <2>1, <2>3
  <2> QED BY <1>4, <2>2, <2>3
<1> QED BY <1>7, <1>8, <1>9

LEMMA SearchKeeps ==
  ASSUME Inductive, Call \/ Discover \/ Finish \/ Deserted \/ Restarted
  PROVE  Inductive'
<1>1. TypeOK /\ TypeOK'
  BY SearchTyped DEF Inductive
<1>2. num = 0 /\ at = 0
  <2>1. on \/ num = 0
    BY DEF Call, Discover, Finish, Deserted, Restarted, Bus!Discover, Bus!Finish,
           Bus!Deserted, Bus!Restarted
  <2> QED BY <1>1, <2>1, Outside
<1>3. at' = 0
  BY <1>2 DEF Call, Discover, Finish, Deserted, Restarted, loop
<1>4. RowKind' /\ Quietness' /\ SetUpSoFar' /\ ReadSoFar'
  BY <1>3, AtRest
<1>5. CASE Discover
  <2>1. on' = TRUE
    BY <1>5, <1>1 DEF Discover, Bus!Discover, TypeOK
  <2>2. CalmList'
    BY <1>1, <1>5, DiscoverCalm DEF Inductive
  <2> QED BY <1>1, <1>4, <2>1, <2>2, NoRow DEF Inductive
<1>6. CASE Call \/ Deserted \/ Restarted
  <2>1. found' = <<>> /\ (on' = TRUE \/ num' = 0)
    BY <1>2, <1>6
    DEF Call, Deserted, Restarted, loop, Bus!Start, Bus!Deserted, Bus!Restarted
  <2>2. 1..Len(found') = {}
    BY <2>1
  <2>3. CalmList'
    BY ONLY <2>2 DEF CalmList
  <2>4. on' \/ Rows' = {}
    BY <2>1, <2>2 DEF Rows
  <2> QED BY <1>1, <1>4, <2>3, <2>4, NoRow DEF Inductive
<1>7. CASE Finish
  <2>1. found' = found /\ bus' = bus /\ changes' = changes
    BY <1>7 DEF Finish, Bus!Finish
  <2>2. CalmList'
    BY <2>1 DEF Inductive, CalmList, Bus!Unfound, Bus!Listed
  <2>3. num' = IF found = <<>> THEN 0 ELSE 1
    BY <1>7 DEF Finish
  <2>4. Rows' = {}
    <3>1. CASE found = <<>>
      <4>1. num' = 0 /\ Len(found') = 0
        BY <2>1, <2>3, <3>1
      <4> QED BY <4>1 DEF Rows
    <3>2. CASE found # <<>>
      <4>1. num' = 1
        BY <2>3, <3>2
      <4> QED BY <4>1 DEF Rows
    <3> QED BY <3>1, <3>2
  <2> QED BY <1>1, <1>4, <2>2, <2>4, NoRow DEF Inductive
<1> QED BY <1>5, <1>6, <1>7

------------------------------------------------------------------------------
(* Handling a row *)

\* What a step within a row does to the loop.
LEMMA RowStep ==
  ASSUME TypeOK, num > 0, at > 0, Advance, UNCHANGED <<found, type>>
  PROVE  \/ at' = at + 1 /\ num' = num /\ Row' = Row /\ at' > 0 /\ at < Len(Program)
         \/ /\ at' = 0 /\ at = Len(Program)
            /\ num' = IF num < Len(found) THEN num + 1 ELSE 0
<1>1. at \in Nat /\ at <= Len(Program)
  <2>1. at \in 0..Len(Mdc02) /\ at <= Len(Program)
    BY DEF TypeOK
  <2> QED BY <2>1, Lengths
<1>2. CASE at < Len(Program)
  <2>1. at' = at + 1 /\ num' = num
    BY <1>2 DEF Advance
  <2>2. at' > 0
    BY <1>1, <2>1
  <2> QED BY <1>2, <2>1, <2>2 DEF Row
<1>3. CASE ~(at < Len(Program))
  <2>1. at = Len(Program)
    BY <1>1, <1>3, Lengths, Counts
  <2> QED BY <1>3, <2>1 DEF Advance
<1> QED BY <1>2, <1>3

LEMMA HandleStep ==
  ASSUME TypeOK, Handle
  PROVE  /\ num > 0 /\ at > 0 /\ Advance /\ ~on
         /\ UNCHANGED <<bus, found, on, type, water, still, changes>>
         /\ quiet' = (quiet /\ at' # 0)
<1>1. (Row \in bus) \in BOOLEAN /\ Transact(Row \in bus)
  BY DEF Handle
<1>2. num > 0 /\ at > 0 /\ Advance /\ UNCHANGED <<bus, found, on, type, water, still>>
  BY <1>1, TransactTyped
<1>3. on => num = 0
  BY DEF TypeOK
<1> QED BY <1>2, <1>3 DEF Handle

\* The transactions on an MDC02 that is there.
LEMMA OnMdc02 ==
  ASSUME TypeOK, Transact(TRUE), Row \in bus, type = "MDC02"
  PROVE  \/ at = 1 /\ set' = [set EXCEPT ![Row] = @ \cup {"cfg"}]
         \/ at = 2 /\ set' = [set EXCEPT ![Row] = @ \cup {"cos"}]
         \/ at = 3 /\ set' = [set EXCEPT ![Row] = @ \cup {"cfb"}]
         \/ at = 4 /\ set' = [set EXCEPT ![Row] = @ \ {"ch1ch2"}]
         \/ at = 5 /\ set' = set
         \/ at = 6 /\ set' = [set EXCEPT ![Row] = @ \cup {"ch1ch2"}]
         \/ at = 7 /\ set' = set /\ convertcap(TRUE)
         \/ at = 8 /\ set' = set /\ getcfg_capoffset(TRUE)
         \/ at = 9 /\ set' = set /\ getcfg_caprange(TRUE)
         \/ at = 10 /\ set' = set /\ readtempcap1(TRUE)
         \/ at = 11 /\ set' = set /\ judge_status(TRUE)
<1>1. ASSUME convert_tempcap1(TRUE) \/ convertcap(TRUE) PROVE set' = set
  BY <1>1 DEF convert_tempcap1, convertcap, Convert
<1>2. CASE convert_tempcap1(TRUE) \/ convertcap(TRUE)
  BY <1>1, <1>2, Places DEF convert_tempcap1, convertcap
<1>3. CASE setconfig(TRUE) \/ writecosconfig(TRUE) \/ writecfbconfig(TRUE)
  BY <1>3, Places DEF setconfig, writecosconfig, writecfbconfig, Modify
<1>4. CASE setcapchannel1(TRUE) \/ setcapchannel12(TRUE)
  BY <1>4, Places DEF setcapchannel1, setcapchannel12, Modify
<1>5. CASE getcfg_capoffset(TRUE) \/ getcfg_caprange(TRUE)
  BY <1>5, Places DEF getcfg_capoffset, getcfg_caprange, devices
<1>6. CASE readtempcap1(TRUE) \/ judge_status(TRUE)
  BY <1>6, Places DEF readtempcap1, judge_status, devices
<1>7. ~read_temp(TRUE)
  BY Places DEF read_temp
<1> QED BY <1>2, <1>3, <1>4, <1>5, <1>6, <1>7 DEF Transact

LEMMA ReadsInOrder ==
  ASSUME TypeOK, Transact(TRUE), Row \in bus, type = "MDC02"
  PROVE  /\ at = 7 => convertcap(TRUE)
         /\ at = 8 => getcfg_capoffset(TRUE)
         /\ at = 9 => getcfg_caprange(TRUE)
         /\ at = 10 => readtempcap1(TRUE)
         /\ at = 11 => judge_status(TRUE)
<1>1. CASE at \in {7, 8, 9, 10, 11}
  <2>1. \/ at = 7 /\ convertcap(TRUE)
        \/ at = 8 /\ getcfg_capoffset(TRUE)
        \/ at = 9 /\ getcfg_caprange(TRUE)
        \/ at = 10 /\ readtempcap1(TRUE)
        \/ at = 11 /\ judge_status(TRUE)
    <3>1. at # 1 /\ at # 2 /\ at # 3 /\ at # 4 /\ at # 5 /\ at # 6
      BY <1>1
    <3> QED BY ONLY OnMdc02, <3>1, TypeOK, Transact(TRUE), Row \in bus, type = "MDC02"
  <2>2. /\ at = 7 => at # 8 /\ at # 9 /\ at # 10 /\ at # 11
        /\ at = 8 => at # 9 /\ at # 10 /\ at # 11
        /\ at = 9 => at # 10 /\ at # 11
        /\ at = 10 => at # 11
    OBVIOUS
  <2> QED BY ONLY <2>1, <2>2
<1>2. CASE at \notin {7, 8, 9, 10, 11}
  BY ONLY <1>2
<1> QED BY <1>1, <1>2

LEMMA SetUpAdvances == ASSUME Inductive, Handle, at' # 0 PROVE SetUpSoFar'
<1> USE DEF Inductive
<1>1. TypeOK
  OBVIOUS
<1>2. /\ num > 0 /\ at > 0 /\ Advance
      /\ UNCHANGED <<bus, found, on, type, water, still, changes>>
      /\ quiet' = (quiet /\ at' # 0)
  BY <1>1, HandleStep
<1>3. at' = at + 1 /\ Row' = Row /\ at \in 1..11
  BY <1>1, <1>2, RowStep, Lengths DEF TypeOK
<1> SUFFICES ASSUME Row \in bus, type = "MDC02", quiet \/ changes = 0
             PROVE  /\ at' > 1 => "cfg" \in set'[Row]
                    /\ at' > 2 => "cos" \in set'[Row]
                    /\ at' > 3 => "cfb" \in set'[Row]
                    /\ at' > 6 => "ch1ch2" \in set'[Row]
  BY <1>2, <1>3 DEF SetUpSoFar, Sensing
<1>4. /\ at > 1 => "cfg" \in set[Row]
      /\ at > 2 => "cos" \in set[Row]
      /\ at > 3 => "cfb" \in set[Row]
      /\ at > 6 => "ch1ch2" \in set[Row]
  BY <1>2 DEF SetUpSoFar, Sensing
<1>5. Transact(TRUE)
  BY DEF Handle
<1>6. Row \in Devices /\ set \in [Devices -> SUBSET Fields]
  BY <1>1 DEF TypeOK
<1>7. \/ at = 1 /\ set'[Row] = set[Row] \cup {"cfg"}
      \/ at = 2 /\ set'[Row] = set[Row] \cup {"cos"}
      \/ at = 3 /\ set'[Row] = set[Row] \cup {"cfb"}
      \/ at = 4 /\ set'[Row] = set[Row] \ {"ch1ch2"}
      \/ at = 6 /\ set'[Row] = set[Row] \cup {"ch1ch2"}
      \/ at \in {5, 7, 8, 9, 10, 11} /\ set'[Row] = set[Row]
  BY <1>1, <1>5, <1>6, OnMdc02
<1> QED BY ONLY <1>3, <1>4, <1>7

LEMMA ReadAdvances == ASSUME Inductive, Handle, at' # 0 PROVE ReadSoFar'
<1> USE DEF Inductive
<1>1. TypeOK
  OBVIOUS
<1>2. /\ num > 0 /\ at > 0 /\ Advance
      /\ UNCHANGED <<bus, found, on, type, water, still, changes>>
      /\ quiet' = (quiet /\ at' # 0)
  BY <1>1, HandleStep
<1>3. at' = at + 1 /\ Row' = Row /\ at \in 1..11
  BY <1>1, <1>2, RowStep, Lengths DEF TypeOK
<1> SUFFICES ASSUME Row \in bus, type = "MDC02", quiet, "rest" \in set'[Row]
             PROVE  /\ at' > 7 => \A k \in {1, 2} : cap'[Row][k] = Truth(Row, k)
                    /\ at' > 8 => offset'
                    /\ at' > 9 => range'
                    /\ at' > 10 => icap1' = Truth(Row, 1)
  <2>1. \A k : Truth(Row, k)' = Truth(Row, k)
    BY <1>2, <1>3 DEF Truth
  <2> QED BY <1>2, <1>3, <2>1 DEF ReadSoFar, Sensing
<1>4. Transact(TRUE)
  BY DEF Handle
<1>5. Row \in Devices /\ set \in [Devices -> SUBSET Fields] /\ cap \in [Devices -> [{1, 2} -> Results]]
  BY <1>1 DEF TypeOK
<1>6. "rest" \in set[Row]
  <2>1. \/ set'[Row] = set[Row]
        \/ \E f \in SetUp : set'[Row] = set[Row] \cup {f} \/ set'[Row] = set[Row] \ {f}
    BY <1>1, <1>4, <1>5, OnMdc02 DEF SetUp
  <2> QED BY <2>1 DEF SetUp
<1>7. /\ at > 1 => "cfg" \in set[Row]
      /\ at > 2 => "cos" \in set[Row]
      /\ at > 3 => "cfb" \in set[Row]
      /\ at > 6 => "ch1ch2" \in set[Row]
  BY <1>2 DEF SetUpSoFar, Sensing
<1>8. /\ at > 7 => \A k \in {1, 2} : cap[Row][k] = Truth(Row, k)
      /\ at > 8 => offset
      /\ at > 9 => range
      /\ at > 10 => icap1 = Truth(Row, 1)
  BY <1>2, <1>6 DEF ReadSoFar, Sensing
<1>9. CASE at < 7
  BY ONLY <1>3, <1>9
<1>10. CASE at = 7
  <2>1. Accurate \subseteq set[Row] /\ "ch1ch2" \in set[Row]
    BY <1>6, <1>7, <1>10 DEF Accurate, Fields, SetUp
  <2>2. Convert(TRUE, {1, 2})
    <3>1. convertcap(TRUE)
      BY <1>4, <1>10, ReadsInOrder
    <3> QED BY ONLY <2>1, <3>1 DEF convertcap
  <2>3. \A k : Sample(k) = Truth(Row, k)
    BY <2>1 DEF Sample, Truth
  <2>4. \A k \in {1, 2} : cap'[Row][k] = Truth(Row, k)
    BY <1>5, <2>2, <2>3 DEF Convert
  <2>5. ~(at' > 8) /\ ~(at' > 9) /\ ~(at' > 10)
    BY ONLY <1>3, <1>10
  <2> QED BY ONLY <2>4, <2>5
<1>11. CASE at = 8
  <2>1. offset' = TRUE /\ cap' = cap
    <3>1. getcfg_capoffset(TRUE)
      BY <1>4, <1>11, ReadsInOrder
    <3>2. "cos" \in set[Row]
      BY <1>7, <1>11
    <3> QED BY ONLY <3>1, <3>2 DEF getcfg_capoffset, devices
  <2>2. ~(at' > 9) /\ ~(at' > 10) /\ at > 7
    BY ONLY <1>3, <1>11
  <2> QED BY ONLY <1>8, <2>1, <2>2
<1>12. CASE at = 9
  <2>1. range' = TRUE /\ cap' = cap /\ offset' = offset
    <3>1. getcfg_caprange(TRUE)
      BY <1>4, <1>12, ReadsInOrder
    <3>2. "cfb" \in set[Row]
      BY <1>7, <1>12
    <3> QED BY ONLY <3>1, <3>2 DEF getcfg_caprange, devices
  <2>2. ~(at' > 10) /\ at > 7 /\ at > 8
    BY ONLY <1>3, <1>12
  <2> QED BY ONLY <1>8, <2>1, <2>2
<1>13. CASE at = 10
  <2>1. icap1' = cap[Row][1] /\ cap' = cap /\ offset' = offset /\ range' = range
    BY <1>1, <1>4, <1>13, OnMdc02 DEF readtempcap1, devices
  <2>2. at > 7 /\ at > 8 /\ at > 9
    BY ONLY <1>3, <1>13
  <2> QED BY ONLY <1>8, <2>1, <2>2
<1>14. at # 11
  BY <1>1, <1>2, <1>3, AdvanceTyped, Lengths
<1>15. at < 7 \/ at = 7 \/ at = 8 \/ at = 9 \/ at = 10
  BY <1>3, <1>14
<1> QED BY <1>9, <1>10, <1>11, <1>12, <1>13, <1>15

\* What is published is what the electrodes say.
LEMMA Verdict ==
  ASSUME Inductive, Row \in bus, quiet, "rest" \in set[Row], judge_status(TRUE)
  PROVE  wids' = (water[Row] = {1, 2})
<1>1. TypeOK
  BY DEF Inductive
<1>2. at = 11 /\ type = "MDC02"
  BY <1>1, Places DEF judge_status
<1>3. at > 0 /\ at > 7 /\ at > 8 /\ at > 9 /\ at > 10
  BY <1>2
<1>4. /\ \A k \in {1, 2} : cap[Row][k] = Truth(Row, k)
      /\ offset /\ range /\ icap1 = Truth(Row, 1)
  BY <1>2, <1>3 DEF Inductive, ReadSoFar, Sensing
<1>5. ASSUME NEW k \in {1, 2}, NEW x \in judged(Truth(Row, k))
      PROVE  x \in BOOLEAN /\ (x <=> k \in water[Row])
  <2>1. Truth(Row, k) # "odd" /\ (Truth(Row, k) = "wet" <=> k \in water[Row])
    BY DEF Truth
  <2>2. Truth(Row, k) # "odd" /\ offset /\ range
    BY <1>4, <2>1
  <2>3. judged(Truth(Row, k)) = {Truth(Row, k) = "wet"}
    BY ONLY <2>2 DEF judged
  <2>4. x = (Truth(Row, k) = "wet")
    BY <2>3
  <2> QED BY <2>1, <2>4
<1>6. cap[Row][2] = Truth(Row, 2)
  BY <1>4
<1>7. wids' = (1 \in water[Row] /\ 2 \in water[Row])
  <2>1. PICK a \in judged(Truth(Row, 1)), b \in judged(Truth(Row, 2)) : wids' = (a /\ b)
    BY <1>4, <1>6 DEF judge_status
  <2>2. (a <=> 1 \in water[Row]) /\ (b <=> 2 \in water[Row])
    BY <1>5
  <2> QED BY <2>1, <2>2
<1>8. water[Row] \subseteq {1, 2}
  BY <1>1 DEF TypeOK, Waters
<1> QED BY <1>7, <1>8

\* In an undisturbed cycle the rows before are other devices.
LEMMA OtherRows ==
  ASSUME TypeOK, CalmList, changes = 0, num > 0
  PROVE  /\ Row \in bus /\ num \in 1..Len(found)
         /\ \A i \in 1..(num - 1) : found[i] \in bus /\ found[i] # Row
<1>1. found \in Seq(Ids) /\ num \in 1..Len(found) /\ Len(found) \in Nat
  BY RowInList DEF TypeOK
<1>2. /\ \A i \in 1..Len(found) : found[i] \in bus
      /\ \A i, j \in 1..Len(found) : i < j => <<found[i], found[j]>> \in Before
  BY DEF CalmList
<1>3. ASSUME NEW i \in 1..(num - 1) PROVE found[i] \in bus /\ found[i] # Row
  <2>1. i \in 1..Len(found) /\ i < num
    BY <1>1
  <2>2. found[i] \in Ids /\ found[num] \in Ids /\ <<found[i], found[num]>> \in Before
    BY <1>1, <1>2, <2>1
  <2>3. found[i] # found[num]
    BY <2>2, MeasureAssumption
  <2> QED BY <1>2, <2>1, <2>3 DEF Row
<1> QED BY <1>1, <1>2, <1>3 DEF Row

\* The rows that were handled, after a step of one.
LEMMA RowsAfter ==
  ASSUME TypeOK, Handle
  PROVE  /\ Rows = 1..(num - 1)
         /\ at' # 0 => Rows' = Rows
         /\ at' = 0 => /\ Rows' = 1..num
                       /\ type = "MDC02" => at = 11
                       /\ type # "MDC02" => at = 2
<1>1. /\ num > 0 /\ at > 0 /\ Advance
      /\ UNCHANGED <<bus, found, on, type, water, still, changes>>
  BY HandleStep
<1>2. num \in 1..Len(found) /\ Len(found) \in Nat
  BY <1>1, RowInList DEF TypeOK
<1>3. Rows = 1..(num - 1)
  BY <1>2 DEF Rows
<1>4. ASSUME at' # 0 PROVE Rows' = Rows
  <2>1. num' = num
    BY <1>1, <1>4, RowStep
  <2> QED BY <1>1, <2>1 DEF Rows
<1>5. ASSUME at' = 0
      PROVE  Rows' = 1..num /\ (type = "MDC02" => at = 11) /\ (type # "MDC02" => at = 2)
  <2>1. at = Len(Program) /\ num' = IF num < Len(found) THEN num + 1 ELSE 0
    BY <1>1, <1>5, RowStep
  <2>2. Rows' = 1..num
    <3>1. CASE num < Len(found)
      <4>1. num' = num + 1 /\ num + 1 # 0 /\ (num + 1) - 1 = num
        BY <1>2, <2>1, <3>1
      <4> QED BY <4>1 DEF Rows
    <3>2. CASE ~(num < Len(found))
      <4>1. num' = 0 /\ num = Len(found) /\ found' = found
        BY <1>1, <1>2, <2>1, <3>2
      <4> QED BY <4>1 DEF Rows
    <3> QED BY <3>1, <3>2
  <2>3. (type = "MDC02" => at = 11) /\ (type # "MDC02" => at = 2)
    BY <2>1, Lengths DEF Program
  <2> QED BY <2>2, <2>3
<1> QED BY <1>3, <1>4, <1>5

\* The last step of a row publishes, the others do not.
LEMMA Publishes ==
  ASSUME TypeOK, Handle, Row \in bus
  PROVE  /\ at' # 0 => wids' = wids /\ (type = "MDC02" \/ at = 1) /\ ireg' = ireg
         /\ at' = 0 => set' = set
         /\ at' = 0 /\ type = "MDC02" => judge_status(TRUE) /\ ireg' = ireg
         /\ at' = 0 /\ type # "MDC02" => wids' = wids /\ ireg' = Row
<1>1. Transact(TRUE) /\ num > 0 /\ at > 0 /\ Advance /\ UNCHANGED <<found, type>>
  BY HandleStep DEF Handle
<1>2. /\ ~judge_status(TRUE) => wids' = wids
      /\ ~read_temp(TRUE) => ireg' = ireg
      /\ read_temp(TRUE) => ireg' = Row
  BY <1>1 DEF Transact, setconfig, writecosconfig, writecfbconfig, setcapchannel1,
              setcapchannel12, getcfg_capoffset, getcfg_caprange, convert_tempcap1,
              convertcap, readtempcap1, judge_status, read_temp, Modify, Convert, outputs
<1>3. /\ judge_status(TRUE) => type = "MDC02" /\ at = 11
      /\ read_temp(TRUE) => type # "MDC02" /\ at = 2
  BY Places DEF judge_status, read_temp
<1>4. /\ at' = 0 => (type = "MDC02" => at = 11) /\ (type # "MDC02" => at = 2)
      /\ at = 11 /\ type = "MDC02" => at' = 0
      /\ at = 2 /\ type # "MDC02" => at' = 0
      /\ at' # 0 /\ type # "MDC02" => at = 1
  <2>1. at' = 0 => (type = "MDC02" => at = 11) /\ (type # "MDC02" => at = 2)
    BY RowsAfter
  <2>2. at \in 1..11 /\ at <= Len(Program) /\ (at = Len(Program) => at' = 0)
    BY <1>1, AdvanceTyped, Lengths DEF TypeOK
  <2>3. (type = "MDC02" => Len(Program) = 11) /\ (type # "MDC02" => Len(Program) = 2)
    BY Lengths DEF Program
  <2>4. (at = 11 /\ type = "MDC02" => at' = 0) /\ (at = 2 /\ type # "MDC02" => at' = 0)
    BY <2>2, <2>3
  <2>5. at' # 0 /\ type # "MDC02" => at = 1
    <3>1. at \in 1..11 /\ at <= 2 /\ at # 2 => at = 1
      OBVIOUS
    <3>2. at' # 0 /\ type # "MDC02" => at <= 2 /\ at # 2
      BY <2>2, <2>3
    <3> QED BY <2>2, <3>1, <3>2
  <2> QED BY <2>1, <2>4, <2>5
<1>5. at' # 0 => ~judge_status(TRUE) /\ ~read_temp(TRUE)
  BY <1>3, <1>4
<1>6. at' = 0 /\ type = "MDC02" => judge_status(TRUE) /\ set' = set
  BY <1>1, <1>4, ReadsInOrder DEF judge_status, devices
<1>7. at' = 0 /\ type # "MDC02" => read_temp(TRUE)
  <2> SUFFICES ASSUME at' = 0, type # "MDC02" PROVE read_temp(TRUE)
    OBVIOUS
  <2>1. at = 2 /\ ~(at = 1)
    BY <1>4
  <2> QED BY <1>1, <2>1, Places
      DEF Transact, setconfig, writecosconfig, writecfbconfig, setcapchannel1,
          setcapchannel12, getcfg_capoffset, getcfg_caprange, convert_tempcap1,
          convertcap, readtempcap1, judge_status
<1>8. read_temp(TRUE) => set' = set
  BY DEF read_temp, devices
<1>9. judge_status(TRUE) => ~read_temp(TRUE)
  BY <1>3
<1> QED BY <1>2, <1>3, <1>4, <1>5, <1>6, <1>7, <1>8, <1>9

\* A transaction leaves the settings of other devices alone.
LEMMA OthersKeep ==
  ASSUME TypeOK, NEW ok \in BOOLEAN, Transact(ok), NEW d \in Devices, d # Row
  PROVE  set'[d] = set[d]
<1>1. ASSUME NEW f, Modify(ok, f) PROVE set'[d] = set[d]
  BY <1>1 DEF Modify, TypeOK
<1> QED BY <1>1 DEF Transact, setconfig, writecosconfig, writecfbconfig, setcapchannel1,
            setcapchannel12, getcfg_capoffset, getcfg_caprange, convert_tempcap1,
            convertcap, readtempcap1, judge_status, read_temp, Convert, devices

LEMMA HandleKeeps == ASSUME Inductive, Handle PROVE Inductive'
<1>1. TypeOK /\ CalmList /\ RowKind
  BY DEF Inductive
<1>2. /\ num > 0 /\ at > 0 /\ Advance /\ ~on
      /\ UNCHANGED <<bus, found, on, type, water, still, changes>>
      /\ quiet' = (quiet /\ at' # 0)
  BY <1>1, HandleStep
<1>3. TypeOK'
  BY <1>1, MeasureTyped DEF Next, dev_type_choose_function
<1>4. CalmList'
  BY <1>1, <1>2 DEF CalmList, Bus!Unfound, Bus!Listed
<1>5. RowKind' /\ Quietness' /\ SetUpSoFar' /\ ReadSoFar'
  <2>1. CASE at' = 0
    BY <2>1, AtRest
  <2>2. CASE at' # 0
    <3>1. Row' = Row
      BY <1>1, <1>2, <2>2, RowStep
    <3>2. RowKind'
      BY <1>1, <1>2, <3>1 DEF RowKind
    <3>3. Quietness'
      BY <1>2, <2>2 DEF Inductive, Quietness
    <3> QED BY <2>2, <3>2, <3>3, SetUpAdvances, ReadAdvances
  <2> QED BY <2>1, <2>2
<1>6. ASSUME changes = 0 PROVE HandledIsSetUp' /\ AlarmSoFar' /\ TemperatureSoFar'
  <2>1. /\ Row \in bus /\ num \in 1..Len(found)
        /\ \A i \in 1..(num - 1) : found[i] \in bus /\ found[i] # Row
    BY <1>1, <1>2, <1>6, OtherRows
  <2>2. Row \in Devices /\ (Kind[Row] = type) /\ Row = found[num]
    BY <1>1, <1>2, <2>1, MeasureAssumption DEF TypeOK, RowKind, Row
  <2>3. \A i \in 1..(num - 1) : set'[found[i]] = set[found[i]]
    <3>1. Transact(TRUE) /\ bus \subseteq Devices
      BY <1>1, <2>1 DEF Handle, TypeOK
    <3> QED BY <1>1, <2>1, <3>1, OthersKeep
  <2>4. /\ Rows = 1..(num - 1)
        /\ at' # 0 => Rows' = Rows
        /\ at' = 0 => /\ Rows' = 1..num
                      /\ type = "MDC02" => at = 11
    BY <1>1, RowsAfter
  <2>5. /\ at' # 0 => wids' = wids /\ ireg' = ireg
        /\ at' = 0 => set' = set
        /\ at' = 0 /\ type = "MDC02" => judge_status(TRUE) /\ ireg' = ireg
        /\ at' = 0 /\ type # "MDC02" => wids' = wids /\ ireg' = Row
    BY <1>1, <2>1, Publishes
  <2>6. /\ num \in 1..num
        /\ \A i \in 1..num : i = num \/ i \in 1..(num - 1)
        /\ \A i \in 1..(num - 1) : i \in 1..num /\ i < num
        /\ ~(num < num)
    BY <2>1
  <2>7. HandledIsSetUp'
    <3> SUFFICES ASSUME NEW i \in Rows', Kind[found[i]] = "MDC02"
                 PROVE  found[i] \in bus /\ SetUp \subseteq set'[found[i]]
      BY <1>2 DEF HandledIsSetUp
    <3>1. CASE i \in 1..(num - 1)
      BY <1>2, <1>6, <2>3, <2>4, <3>1 DEF Inductive, HandledIsSetUp
    <3>2. CASE i = num /\ at' = 0
      <4>1. type = "MDC02" /\ at = 11
        BY <2>2, <2>4, <3>2
      <4>2. at > 1 /\ at > 2 /\ at > 3 /\ at > 6
        BY <4>1
      <4>3. SetUp \subseteq set[Row]
        BY <1>2, <1>6, <2>1, <4>1, <4>2 DEF Inductive, SetUpSoFar, Sensing, SetUp
      <4> QED BY <2>1, <2>2, <2>5, <3>2, <4>3
    <3> QED BY <2>4, <2>6, <3>1, <3>2
  <2>8. AlarmSoFar'
    <3> SUFFICES ASSUME still, NEW i \in Rows', LastRow("MDC02", i)',
                        "rest" \in set'[found[i]]
                 PROVE  wids' = (water[found[i]] = {1, 2})
      BY <1>2 DEF AlarmSoFar
    <3>0. Kind[found[i]] = "MDC02" /\ \A j \in Rows' : i < j => Kind[found[j]] # "MDC02"
      BY <1>2 DEF LastRow
    <3>1. CASE i \in 1..(num - 1)
      <4>1. LastRow("MDC02", i)
        BY <2>4, <2>6, <3>0 DEF LastRow
      <4>2. wids = (water[found[i]] = {1, 2})
        BY <1>2, <1>6, <2>3, <2>4, <3>1, <4>1 DEF Inductive, AlarmSoFar
      <4>3. at' = 0 => type # "MDC02"
        BY <2>2, <2>4, <2>6, <3>0, <3>1
      <4> QED BY <2>5, <4>2, <4>3
    <3>2. CASE i = num /\ at' = 0
      <4>1. judge_status(TRUE) /\ "rest" \in set[Row]
        BY <2>2, <2>5, <3>0, <3>2
      <4>2. quiet
        BY <1>2, <1>6 DEF Inductive, Quietness
      <4> QED BY <2>1, <2>2, <3>2, <4>1, <4>2, Verdict
    <3> QED BY <2>4, <2>6, <3>1, <3>2
  <2>9. TemperatureSoFar'
    <3> SUFFICES ASSUME NEW i \in Rows', LastRow("MY18B20Z", i)' PROVE ireg' = found[i]
      BY <1>2 DEF TemperatureSoFar
    <3>0. Kind[found[i]] = "MY18B20Z" /\ \A j \in Rows' : i < j => Kind[found[j]] # "MY18B20Z"
      BY <1>2 DEF LastRow
    <3>1. CASE i \in 1..(num - 1)
      <4>1. LastRow("MY18B20Z", i)
        BY <2>4, <2>6, <3>0 DEF LastRow
      <4>2. ireg = found[i]
        BY <1>2, <1>6, <2>4, <3>1, <4>1 DEF Inductive, TemperatureSoFar
      <4>3. at' = 0 => type = "MDC02"
        <5>1. at' = 0 => Kind[Row] # "MY18B20Z"
          BY <2>2, <2>4, <2>6, <3>0, <3>1
        <5>2. Kind[Row] \in {"MDC02", "MY18B20Z"}
          BY <2>2, MeasureAssumption
        <5> QED BY <2>2, <5>1, <5>2
      <4> QED BY <2>5, <4>2, <4>3
    <3>2. CASE i = num /\ at' = 0
      BY <2>2, <2>5, <3>0, <3>2
    <3> QED BY <2>4, <2>6, <3>1, <3>2
  <2> QED BY <2>7, <2>8, <2>9
<1>7. CASE changes # 0
  BY <1>2, <1>7, <1>3, <1>4, <1>5
  DEF Inductive, HandledIsSetUp, AlarmSoFar, TemperatureSoFar
<1> QED BY <1>3, <1>4, <1>5, <1>6, <1>7 DEF Inductive

LEMMA InductiveStep == Inductive /\ [Next]_vars => Inductive'
<1> SUFFICES ASSUME Inductive, [Next]_vars PROVE Inductive'
  OBVIOUS
<1>1. TypeOK /\ TypeOK'
  BY MeasureTyped DEF Inductive
<1>2. CASE Call \/ Discover \/ Finish \/ Deserted \/ Restarted
  BY <1>2, SearchKeeps
<1>3. CASE romid_crc
  <2>1. /\ num > 0 /\ at = 0 /\ at' = 1
        /\ type' = IF Kind[Row] = "neither" THEN type ELSE Kind[Row]
        /\ UNCHANGED <<search, num, devices, readings, outputs, water, still>>
        /\ quiet' = TRUE
    BY <1>3 DEF romid_crc
  <2>2. CalmList'
    BY <2>1 DEF Inductive, CalmList, Bus!Unfound, Bus!Listed, search
  <2>3. RowKind' /\ Quietness'
    BY <2>1 DEF RowKind, Quietness, Row, search
  <2>4. SetUpSoFar' /\ ReadSoFar'
    <3>1. /\ ~(at' > 1) /\ ~(at' > 2) /\ ~(at' > 3) /\ ~(at' > 6) /\ ~(at' > 7)
          /\ ~(at' > 8) /\ ~(at' > 9) /\ ~(at' > 10)
      BY <2>1
    <3> QED BY ONLY <3>1 DEF SetUpSoFar, ReadSoFar
  <2>5. Rows' = Rows
    BY <2>1 DEF Rows, search
  <2>6. HandledIsSetUp' /\ AlarmSoFar' /\ TemperatureSoFar'
    BY <2>1, <2>5 DEF Inductive, HandledIsSetUp, AlarmSoFar, TemperatureSoFar, LastRow,
                      search, devices, outputs
  <2> QED BY <1>1, <2>2, <2>3, <2>4, <2>6 DEF Inductive
<1>4. CASE Handle
  BY <1>4, HandleKeeps
<1>5. CASE SearchMisread \/ PresenceMissed \/ Lost \/ Garbled
           \/ \E d \in Devices : Unplug(d) \/ Plug(d)
  <2>1. Disturb
    BY <1>5 DEF SearchMisread, PresenceMissed, Lost, Garbled, Unplug, Plug
  <2>2. changes' > 0 /\ quiet' = FALSE
    BY <1>1, <2>1, DisturbTyped
  <2>3. RowKind'
    <3>1. CASE SearchMisread \/ \E d \in Devices : Unplug(d) \/ Plug(d)
      <4>1. UNCHANGED <<found, loop>>
        BY <3>1 DEF SearchMisread, Unplug, Plug, loop
      <4> QED BY <4>1 DEF Inductive, RowKind, Row, loop
    <3>2. CASE PresenceMissed
      <4>1. on /\ at' = at
        BY <3>2 DEF PresenceMissed, Bus!Deserted, loop
      <4>2. at' = 0
        BY <1>1, <4>1, Outside
      <4> QED BY <4>2, AtRest
    <3>3. CASE Lost \/ Garbled
      <4>1. num > 0 /\ at > 0 /\ Advance /\ UNCHANGED <<found, type>>
        <5>1. CASE Lost
          <6>1. Transact(FALSE)
            BY <5>1 DEF Lost
          <6> QED BY <1>1, <6>1, TransactTyped
        <5>2. CASE Garbled
          BY <5>2 DEF Garbled
        <5> QED BY <3>3, <5>1, <5>2
      <4>2. CASE at' = 0
        BY <4>2, AtRest
      <4>3. CASE at' # 0
        <5>1. Row' = Row
          BY <1>1, <4>1, <4>3, RowStep
        <5> QED BY <4>1, <5>1 DEF Inductive, RowKind
      <4> QED BY <4>2, <4>3
    <3> QED BY <1>5, <3>1, <3>2, <3>3
  <2> QED BY <1>1, <2>2, <2>3, Disturbed DEF Inductive
<1>6. CASE (\E d \in Devices : WaterMoves(d)) \/ UNCHANGED vars
  <2>1. /\ UNCHANGED <<search, loop, devices, readings, outputs>>
        /\ (still' = FALSE /\ quiet' = FALSE) \/ UNCHANGED world
    BY <1>6 DEF WaterMoves, vars
  <2>2. CalmList' /\ RowKind' /\ Rows' = Rows /\ Row' = Row
    BY <2>1 DEF Inductive, CalmList, Bus!Unfound, Bus!Listed, search, loop, RowKind, Row, Rows
  <2>3. Quietness'
    BY <2>1 DEF Inductive, Quietness, search, loop, world
  <2>4. SetUpSoFar'
    BY <2>1, <2>2 DEF Inductive, SetUpSoFar, Sensing, search, loop, devices, world
  <2>5. ReadSoFar'
    BY <2>1, <2>2 DEF Inductive, ReadSoFar, Sensing, search, loop, devices, readings, world,
                      Truth
  <2>6. HandledIsSetUp' /\ TemperatureSoFar'
    BY <2>1, <2>2 DEF Inductive, HandledIsSetUp, TemperatureSoFar, LastRow, search, devices,
                      outputs
  <2>7. AlarmSoFar'
    BY <2>1, <2>2 DEF Inductive, AlarmSoFar, LastRow, search, devices, outputs, world
  <2> QED BY <1>1, <2>2, <2>3, <2>4, <2>5, <2>6, <2>7 DEF Inductive
<1> QED BY <1>2, <1>3, <1>4, <1>5, <1>6 DEF Next, dev_type_choose_function, Environment

LEMMA InductiveHolds == Spec => []Inductive
BY InductiveInit, InductiveStep, PTL DEF Spec

------------------------------------------------------------------------------
(* What is published *)

\* HandledIsSetUp: an MDC02 whose row was handled in an undisturbed cycle is set up, although
\* it may have come without its settings.
THEOREM SetUpDone == Spec => []HandledIsSetUp
<1>1. Inductive => HandledIsSetUp
  BY DEF Inductive
<1> QED BY <1>1, InductiveHolds, PTL

\* An MDC02 that is listed last, when all are listed.
LEMMA LastListed ==
  ASSUME Inductive, Idle, Undisturbed, NEW kind, NEW d \in bus, LastOf(kind, d)
  PROVE  \E i \in Rows : found[i] = d /\ LastRow(kind, i)
<1>1. Rows = 1..Len(found) /\ changes = 0
  BY DEF Idle, Rows, Undisturbed
<1>2. PICK i \in 1..Len(found) : found[i] = d
  BY DEF Undisturbed, Bus!Unfound, Bus!Listed
<1>3. /\ \A j \in 1..Len(found) : found[j] \in bus
      /\ \A j, k \in 1..Len(found) : j < k => <<found[j], found[k]>> \in Before
  BY <1>1 DEF Inductive, CalmList
<1>4. ASSUME NEW j \in 1..Len(found), i < j PROVE Kind[found[j]] # kind
  <2>1. <<d, found[j]>> \in Before /\ found[j] \in bus
    BY <1>2, <1>3, <1>4
  <2>2. d \in Ids /\ found[j] \in Ids
    BY <2>1, MeasureAssumption DEF Inductive, TypeOK
  <2>3. <<found[j], d>> \notin Before /\ found[j] # d
    BY <2>1, <2>2, MeasureAssumption
  <2> QED BY <2>1, <2>3 DEF LastOf
<1> QED BY <1>1, <1>2, <1>4 DEF LastOf, LastRow

\* AlarmIsTrue: the alarm after an undisturbed cycle is that of the last MDC02 on the bus.
THEOREM AlarmHolds == Spec => []AlarmIsTrue
<1>1. Inductive => AlarmIsTrue
  <2> SUFFICES ASSUME Inductive, Idle, Undisturbed, NEW d \in bus, LastOf("MDC02", d),
                      "rest" \in set[d]
               PROVE  wids = (water[d] = {1, 2})
    BY DEF AlarmIsTrue
  <2>1. PICK i \in Rows : found[i] = d /\ LastRow("MDC02", i)
    BY LastListed
  <2> QED BY <2>1 DEF Inductive, AlarmSoFar, Idle, Undisturbed
<1> QED BY <1>1, InductiveHolds, PTL

\* TemperatureIsTrue: and the temperature that of the last MY18B20Z.
THEOREM TemperatureHolds == Spec => []TemperatureIsTrue
<1>1. Inductive => TemperatureIsTrue
  <2> SUFFICES ASSUME Inductive, Idle, Undisturbed, NEW d \in bus, LastOf("MY18B20Z", d)
               PROVE  ireg = d
    BY DEF TemperatureIsTrue
  <2>1. PICK i \in Rows : found[i] = d /\ LastRow("MY18B20Z", i)
    BY LastListed
  <2> QED BY <2>1 DEF Inductive, TemperatureSoFar, Idle, Undisturbed
<1> QED BY <1>1, InductiveHolds, PTL

\* VerdictIsTheWaters: a row during which nothing changed publishes what the water is,
\* whatever state the device and the variables of the program were in before.
THEOREM VerdictHolds == Spec => VerdictIsTheWaters
<1>1. ASSUME Inductive, [Next]_vars, NEW d \in bus, Judges(d), quiet, changes' = changes,
             "rest" \in set[d]
      PROVE  wids' = (water[d] = {1, 2})
  <2>1. TypeOK
    BY <1>1 DEF Inductive
  <2>2. at = 11 /\ type = "MDC02" /\ Row = d /\ at' # at /\ num > 0
    BY <1>1, <2>1, Places DEF Judges, At
  <2>3. ~on
    <3>1. on => num = 0
      BY <2>1 DEF TypeOK
    <3> QED BY <2>2, <3>1
  <2>4. at' = at \/ Handle \/ Lost \/ Garbled \/ at = 0
    BY <1>1 DEF Next, dev_type_choose_function, Environment, Call, Discover, Finish, Deserted,
                Restarted, romid_crc, Unplug, Plug, WaterMoves, SearchMisread,
                PresenceMissed, vars, loop
  <2>5. ~Lost /\ ~Garbled
    <3>1. changes \in 0..MaxChanges
      BY <2>1 DEF TypeOK
    <3>2. ~Disturb
      BY <1>1, <3>1, MeasureAssumption DEF Disturb
    <3> QED BY <3>2 DEF Lost, Garbled
  <2>6. Handle
    BY <2>2, <2>4, <2>5
  <2>7. judge_status(TRUE)
    BY <1>1, <2>1, <2>2, <2>6, ReadsInOrder DEF Handle
  <2> QED BY <1>1, <2>2, <2>7, Verdict
<1>2. Inductive /\ [Next]_vars =>
        [\A d \in bus : Judges(d) /\ quiet /\ changes' = changes /\ "rest" \in set[d]
                          => wids' = (water[d] = {1, 2})]_vars
  BY <1>1
<1> QED BY <1>2, InductiveHolds, PTL DEF Spec, VerdictIsTheWaters
===============================================================================
