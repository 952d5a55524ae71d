-------------------------------- MODULE Measure --------------------------------
(***************************************************************************)
(* The measuring cycle of the main loop: dev_type_choose_function searches *)
(* the 1-Wire bus and handles each row of the list in turn, sets up an     *)
(* MDC02, has it convert, and publishes whether there is water, or         *)
(* publishes a temperature.  The search is the Enumerator, which Search    *)
(* implements.                                                             *)
(*                                                                         *)
(* Each step is one transaction on the bus, or the read and the write of a *)
(* function that changes a register.  Devices come and go and transactions *)
(* are garbled between and during them.  A device that is not there reads  *)
(* as ones, which no CRC of the protocol accepts.                          *)
(***************************************************************************)
EXTENDS Integers, Sequences, FiniteSets

CONSTANTS
  Ids, Before, MaxDevices, DogPasses,  \* see Enumerator
  Devices,     \* ids of the devices that may be on the bus, the others are phantoms
  Kind,        \* what romid_crc finds an id to be
  Levels,      \* for each device, the sets of electrodes, 1 and 2, that water may reach
  Garbles,     \* sets of fields that may be right in what a device takes a garbled write for
  MaxChanges   \* bound: disturbances in one cycle

\* What the program sets in a device: the sampling, the offset with its width, the
\* range and the channels; "rest" are the other parameters, which a set-up writes
\* back as it read them.
SetUp == {"cfg", "cos", "cfb", "ch1ch2"}
Fields == SetUp \cup {"rest"}
Accurate == Fields \ {"ch1ch2"}

\* Before is a strict order, and a device is one or the other: what is neither is
\* a phantom.
ASSUME MeasureAssumption ==
  /\ \A d, e \in Ids : <<d, e>> \in Before => <<e, d>> \notin Before
  /\ MaxDevices \in Nat \ {0}
  /\ DogPasses \in Nat \ {0}
  /\ Devices \subseteq Ids
  /\ "zero" \notin Ids
  /\ Kind \in [Ids -> {"MDC02", "MY18B20Z", "neither"}]
  /\ \A d \in Devices : Kind[d] # "neither"
  /\ Levels \in [Devices -> SUBSET SUBSET {1, 2}]
  /\ Garbles \subseteq SUBSET Fields
  /\ MaxChanges \in Nat \ {0}

VARIABLES
  bus, found, on, changes,  \* see Enumerator, and the disturbances in this cycle
  num,      \* the row that is handled, num_i + 1, or 0
  at,       \* the step of its handling
  type,     \* device_t.type
  set,      \* the fields of each device that are as they should be
  cap,      \* its results: an electrode in water or not, or an odd number
  offset, range, icap1,  \* what read_caps read: whether the configuration is the one
            \* of SetUp, and a result
  wids,     \* the discrete input
  ireg,     \* whose temperature the input register holds
  water,    \* electrodes of each device that are in water
  still,    \* no water moved since the cycle began
  quiet     \* a row is handled, and bus and water are as they were when that began

search == <<bus, found, on, changes>>
loop == <<num, at, type>>
devices == <<set, cap>>
readings == <<offset, range, icap1>>
outputs == <<wids, ireg>>
world == <<water, still, quiet>>
vars == <<search, loop, devices, readings, outputs, world>>

Bus == INSTANCE Enumerator WITH calm <- changes = 0

\* The transactions on a device, in order, without those whose results are only
\* printed: mdc02_range and read_tempc1 read a configuration that read_caps reads
\* again before it uses it.
Mdc02 == <<
  "setconfig",                                        \* read_sampling_mode
  "writecosconfig", "writecfbconfig",                 \* mdc02_range
  "channel1", "convert_tempcap1",                     \* read_tempc1
  "channel12", "convertcap", "offset", "range",       \* read_caps
  "readtempcap1", "readcapc2c3c4">>
MY18B20Z == <<"setconfig", "read_temp">>

Program == IF type = "MDC02" THEN Mdc02 ELSE MY18B20Z
Row == found[num]
At(step) == num > 0 /\ at > 0 /\ Program[at] = step

Waters == {w \in [Devices -> SUBSET {1, 2}] : \A d \in Devices : w[d] \in Levels[d]}
Unpowered == [k \in {1, 2} |-> "odd"]

Init ==
  /\ bus \in SUBSET Devices
  /\ found = <<>> /\ on = FALSE /\ changes = 0
  /\ num = 0 /\ at = 0 /\ type = "none"
  /\ set = [d \in Devices |-> {"rest"}]
  /\ cap = [d \in Devices |-> Unpowered]
  /\ offset = FALSE /\ range = FALSE /\ icap1 = "odd"
  /\ wids = FALSE /\ ireg = "zero"
  /\ water \in Waters
  /\ still = TRUE /\ quiet = FALSE

------------------------------------------------------------------------------
(* The search *)

\* A second has passed since the last cycle began.
Call ==
  /\ num = 0
  /\ changes' = 0
  /\ Bus!Start
  /\ still' = TRUE
  /\ UNCHANGED <<loop, devices, readings, outputs, water, quiet>>

Discover ==
  /\ UNCHANGED changes
  /\ Bus!Discover
  /\ UNCHANGED <<loop, devices, readings, outputs, world>>

\* The loop over the dev_num rows begins.
Finish ==
  /\ UNCHANGED changes
  /\ Bus!Finish
  /\ num' = IF found = <<>> THEN 0 ELSE 1
  /\ UNCHANGED <<at, type, devices, readings, outputs, world>>

Deserted ==
  /\ UNCHANGED changes
  /\ Bus!Deserted
  /\ UNCHANGED <<loop, devices, readings, outputs, world>>

\* The watchdog bites: the program starts again, the devices keep their power.
Restarted ==
  /\ UNCHANGED changes
  /\ Bus!Restarted
  /\ type' = "none"
  /\ wids' = FALSE /\ ireg' = "zero"
  /\ UNCHANGED <<num, at, devices, readings, world>>

------------------------------------------------------------------------------
(* Handling a row *)

\* Mutant: the type is only ever set to MDC02.
romid_crc_Sticky ==
  /\ num > 0 /\ at = 0
  /\ type' = IF Kind[Row] = "MDC02" THEN "MDC02" ELSE type
  /\ at' = 1
  /\ quiet' = TRUE
  /\ UNCHANGED <<search, num, devices, readings, outputs, water, still>>

\* An id that is neither leaves the type of the row before.
romid_crc ==
  /\ num > 0 /\ at = 0
  /\ type' = IF Kind[Row] = "neither" THEN type ELSE Kind[Row]
  /\ at' = 1
  /\ quiet' = TRUE
  /\ UNCHANGED <<search, num, devices, readings, outputs, water, still>>

Advance ==
  IF at < Len(Program)
  THEN at' = at + 1 /\ num' = num
  ELSE at' = 0 /\ num' = IF num < Len(found) THEN num + 1 ELSE 0

\* The registers are read, one field is changed and they are written back, unless
\* the read fails.
Modify(ok, fields) ==
  /\ set' = IF ok THEN [set EXCEPT ![Row] = fields] ELSE set
  /\ UNCHANGED <<cap, readings, outputs>>

setconfig(ok) == At("setconfig") /\ Modify(ok, set[Row] \cup {"cfg"})
writecosconfig(ok) == At("writecosconfig") /\ Modify(ok, set[Row] \cup {"cos"})
\* Mutant: the byte that also holds the width of the offset is written as a whole.
writecfbconfig_Whole(ok) ==
  At("writecfbconfig") /\ Modify(ok, (set[Row] \ {"cos"}) \cup {"cfb"})
writecfbconfig(ok) == At("writecfbconfig") /\ Modify(ok, set[Row] \cup {"cfb"})
setcapchannel1(ok) == At("channel1") /\ Modify(ok, set[Row] \ {"ch1ch2"})
\* Mutant: the mask takes the new channels away.
setcapchannel12_Masked(ok) == At("channel12") /\ Modify(ok, set[Row] \ {"ch1ch2"})
setcapchannel12(ok) == At("channel12") /\ Modify(ok, set[Row] \cup {"ch1ch2"})

\* A failed read leaves an uninitialised configuration to be converted.
getcfg_capoffset(ok) ==
  /\ At("offset")
  /\ IF ok THEN offset' = ("cos" \in set[Row]) ELSE offset' \in BOOLEAN
  /\ UNCHANGED <<devices, range, icap1, outputs>>

getcfg_caprange(ok) ==
  /\ At("range")
  /\ IF ok THEN range' = ("cfb" \in set[Row]) ELSE range' \in BOOLEAN
  /\ UNCHANGED <<devices, offset, icap1, outputs>>

Sample(k) ==
  IF Accurate \subseteq set[Row]
  THEN IF k \in water[Row] THEN "wet" ELSE "dry"
  ELSE "odd"

Convert(ok, channels) ==
  /\ cap' = IF ok
            THEN [cap EXCEPT ![Row] =
                    [k \in {1, 2} |-> IF k \in channels THEN Sample(k) ELSE @[k]]]
            ELSE cap
  /\ UNCHANGED <<set, readings, outputs>>

\* What read_tempc1 reads then is only printed.
convert_tempcap1(ok) == At("convert_tempcap1") /\ Convert(ok, {1})

\* The channels of another selection are not known.
convertcap(ok) ==
  /\ At("convertcap")
  /\ IF ok /\ "ch1ch2" \notin set[Row]
     THEN \E channels \in SUBSET {1, 2} : Convert(ok, channels)
     ELSE Convert(ok, {1, 2})

\* read_caps goes on with an uninitialised icap1 if this fails.
readtempcap1(ok) ==
  /\ At("readtempcap1")
  /\ icap1' = IF ok THEN cap[Row][1] ELSE "odd"
  /\ UNCHANGED <<devices, offset, range, outputs>>

\* Whether a result exceeds 5 pF: anything, if it is not one of the conversion that
\* offset and range belong to.
judged(icap) == IF icap # "odd" /\ offset /\ range THEN {icap = "wet"} ELSE BOOLEAN

\* Mutant: one electrode in water is enough.
judge_status_Either(ok) ==
  /\ At("readcapc2c3c4")
  /\ \E a \in judged(icap1), b \in judged(IF ok THEN cap[Row][2] ELSE "odd") :
       wids' = (a \/ b)
  /\ offset' = FALSE /\ range' = FALSE /\ icap1' = "odd"
  /\ UNCHANGED <<devices, ireg>>

\* readcapc2c3c4 takes what it reads for the result.
judge_status(ok) ==
  /\ At("readcapc2c3c4")
  /\ \E a \in judged(icap1), b \in judged(IF ok THEN cap[Row][2] ELSE "odd") :
       wids' = (a /\ b)
  /\ offset' = FALSE /\ range' = FALSE /\ icap1' = "odd"
  /\ UNCHANGED <<devices, ireg>>

\* A temperature that could not be read is published as zero.
read_temp(ok) ==
  /\ At("read_temp")
  /\ ireg' = IF ok THEN Row ELSE "zero"
  /\ UNCHANGED <<devices, readings, wids>>

Transact(ok) ==
  /\ \/ setconfig(ok) \/ writecosconfig(ok) \/ writecfbconfig(ok)
     \/ setcapchannel1(ok) \/ setcapchannel12(ok)
     \/ getcfg_capoffset(ok) \/ getcfg_caprange(ok)
     \/ convert_tempcap1(ok) \/ convertcap(ok)
     \/ readtempcap1(ok) \/ judge_status(ok) \/ read_temp(ok)
  /\ Advance
  /\ UNCHANGED <<bus, found, on, type, water, still>>

Handle ==
  /\ Transact(Row \in bus)
  /\ quiet' = (quiet /\ at' # 0)
  /\ UNCHANGED changes

dev_type_choose_function ==
  Call \/ Discover \/ Finish \/ Deserted \/ Restarted \/ romid_crc \/ Handle

------------------------------------------------------------------------------
(* The world *)

Disturb == changes < MaxChanges /\ changes' = changes + 1 /\ quiet' = FALSE

\* A device without power forgets what it was set to.
Unplug(d) ==
  /\ Disturb
  /\ d \in bus
  /\ bus' = bus \ {d}
  /\ set' = [set EXCEPT ![d] = {"rest"}]
  /\ cap' = [cap EXCEPT ![d] = Unpowered]
  /\ UNCHANGED <<found, on, loop, readings, outputs, water, still>>

Plug(d) ==
  /\ Disturb
  /\ d \notin bus
  /\ bus' = bus \cup {d}
  /\ UNCHANGED <<found, on, loop, devices, readings, outputs, water, still>>

\* A bit of the search is misread, or no presence pulse is seen.
SearchMisread ==
  /\ on
  /\ Disturb
  /\ UNCHANGED <<bus, found, on, loop, devices, readings, outputs, water, still>>

PresenceMissed ==
  /\ Disturb
  /\ Bus!Deserted
  /\ UNCHANGED <<loop, devices, readings, outputs, water, still>>

\* A transaction fails although the device is there.
Lost == num > 0 /\ Row \in bus /\ Disturb /\ Transact(FALSE)

\* A write arrives with other bits: those of the scratchpad or of the parameters.
Garbled ==
  /\ num > 0 /\ at > 0 /\ Row \in bus
  /\ Program[at] \in {"setconfig", "writecosconfig", "writecfbconfig", "channel1", "channel12"}
  /\ Disturb
  /\ LET written == IF Program[at] = "setconfig" THEN {"cfg"} ELSE Fields \ {"cfg"}
     IN  \E right \in Garbles :
           set' = [set EXCEPT ![Row] = (@ \ written) \cup (right \cap written)]
  /\ Advance
  /\ UNCHANGED <<bus, found, on, type, cap, readings, outputs, water, still>>

WaterMoves(d) ==
  /\ \E level \in Levels[d] \ {water[d]} : water' = [water EXCEPT ![d] = level]
  /\ still' = FALSE /\ quiet' = FALSE
  /\ UNCHANGED <<search, loop, devices, readings, outputs>>

Environment ==
  \/ \E d \in Devices : Unplug(d) \/ Plug(d) \/ WaterMoves(d)
  \/ SearchMisread \/ PresenceMissed \/ Lost \/ Garbled

Next == dev_type_choose_function \/ Environment

Spec == Init /\ [][Next]_vars

------------------------------------------------------------------------------
(* Properties *)

Results == {"dry", "wet", "odd"}

\* Every variable has its type, and a row that is handled is in the list.
TypeOK ==
  /\ bus \subseteq Devices
  /\ found \in Seq(Ids) /\ Len(found) <= MaxDevices
  /\ on \in BOOLEAN /\ changes \in 0..MaxChanges
  /\ num \in 0..Len(found)
  /\ at \in 0..Len(Mdc02)
  /\ at > 0 => at <= Len(Program) /\ num > 0
  /\ on => num = 0
  /\ type \in {"none", "MDC02", "MY18B20Z"}
  /\ set \in [Devices -> SUBSET Fields]
  /\ cap \in [Devices -> [{1, 2} -> Results]]
  /\ offset \in BOOLEAN /\ range \in BOOLEAN
  /\ icap1 \in Results
  /\ wids \in BOOLEAN /\ ireg \in Ids \cup {"zero"}
  /\ water \in Waters
  /\ still \in BOOLEAN /\ quiet \in BOOLEAN

Judges(d) == At("readcapc2c3c4") /\ Row = d /\ at' # at

\* When neither the bus nor the water moved since the handling of a device began,
\* the water alarm it publishes is what its two electrodes say, whatever happened
\* before and however many devices there are, unless its other parameters were spoilt.
VerdictIsTheWaters ==
  [][\A d \in bus :
       Judges(d) /\ quiet /\ changes' = changes /\ "rest" \in set[d] => wids' = (water[d] = {1, 2})]_vars

Rows == IF num = 0 THEN 1..Len(found) ELSE 1..(num - 1)

\* In an undisturbed cycle every MDC02 whose row was handled is on the bus, and is set
\* up as SetUp says.
HandledIsSetUp ==
  changes = 0 /\ ~on =>
    \A i \in Rows : Kind[found[i]] = "MDC02" => found[i] \in bus /\ SetUp \subseteq set[found[i]]

LastOf(kind, d) ==
  /\ Kind[d] = kind
  /\ \A e \in bus \ {d} : Kind[e] = kind => <<e, d>> \in Before

Idle == num = 0 /\ ~on
Undisturbed == changes = 0 /\ still /\ Bus!Unfound = {}

\* A cycle that nothing disturbs ends with the alarm of the last MDC02 on the bus,
\* although cycles before may have left spoilt settings and published phantoms: only
\* the parameters that no set-up writes stay spoilt.
AlarmIsTrue ==
  Idle /\ Undisturbed =>
    \A d \in bus : LastOf("MDC02", d) /\ "rest" \in set[d] => wids = (water[d] = {1, 2})

\* And with the temperature of the last MY18B20Z.
TemperatureIsTrue ==
  Idle /\ Undisturbed => \A d \in bus : LastOf("MY18B20Z", d) => ireg = d

===============================================================================
