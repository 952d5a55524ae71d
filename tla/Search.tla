-------------------------------- MODULE Search --------------------------------
(***************************************************************************)
(* Search_ROM of onewire.c: a depth-first walk of the tree of ROM ids, one *)
(* pass from the root to a leaf for each device.  At each bit the devices   *)
(* still heard send the bit and its complement over a wired AND, and the    *)
(* master answers with the branch it takes; devices on the other one fall  *)
(* silent until the next reset.  BUFFER[1..l] holds the positions at which *)
(* branch 0 was taken while there was a branch 1, the last of which is the *)
(* place where the next pass turns.                                        *)
(*                                                                         *)
(* Devices are plugged and unplugged at any time, interrupts make the      *)
(* master misread a bit, and nothing feeds the watchdog during a search.   *)
(***************************************************************************)
EXTENDS Integers, Sequences, FiniteSets

CONSTANTS
  IdBits,      \* 64: bits of a ROM id
  MaxDevices,  \* 100: MAXNUM_SWITCH_DEVICE_OUT
  DogPasses,   \* passes that fit before the watchdog bites, at least
  Devices,     \* ids of the devices that may be on the bus
  MaxChanges   \* bound: disturbances in one search

Bit == {0, 1}
Bits == 1..IdBits
Ids == [Bits -> Bit]
Unset == 2          \* an element of id[] that no pass has written
Slots == 0..(MaxDevices - 2)

\* BUFFER[99] has room for one position of a branch for each bit of an id.
ASSUME SearchAssumption ==
  /\ IdBits \in Nat \ {0}
  /\ MaxDevices \in Nat
  /\ IdBits <= MaxDevices - 2
  /\ DogPasses \in Nat \ {0}
  /\ Devices \subseteq Ids
  /\ MaxChanges \in Nat \ {0}

VARIABLES
  bus,      \* ids of the devices on the bus
  heard,    \* devices that follow this pass
  pc,       \* "idle", "reset", "bit" or "while": where Search_ROM is
  n,        \* the bit to be read, m*8+n+1 in the code
  s,        \* the id read in this pass, the bytes s of the code
  id,       \* id[64], the branches taken
  BUFFER, l,
  romID,    \* the rows of the array that are filled, num in number
  changes,  \* disturbances since the search began
  misread   \* whether one of them was a bit read wrongly

vars == <<bus, heard, pc, n, s, id, BUFFER, l, romID, changes, misread>>
locals == <<n, s, id, BUFFER, l>>

Top == BUFFER[l]

Init ==
  /\ bus \in SUBSET Devices
  /\ heard = {}
  /\ pc = "idle"
  /\ n = 1
  /\ s = [b \in Bits |-> 0]
  /\ id = [b \in Bits |-> Unset]
  /\ BUFFER = [i \in Slots |-> 0]
  /\ l = 0
  /\ romID = <<>>
  /\ changes = 0
  /\ misread = FALSE

------------------------------------------------------------------------------
(* Search_ROM *)

Call ==
  /\ pc = "idle"
  /\ pc' = "reset"
  /\ id' = [b \in Bits |-> Unset]
  /\ BUFFER' = [i \in Slots |-> 0]
  /\ l' = 0
  /\ romID' = <<>>
  /\ changes' = 0
  /\ misread' = FALSE
  /\ UNCHANGED <<bus, heard, n, s>>

\* onewire_resetcheck sees a presence pulse and 0xF0 begins a pass.
StartPass ==
  /\ pc = "reset"
  /\ bus # {}
  /\ pc' = "bit"
  /\ heard' = bus
  /\ n' = 1
  /\ s' = [b \in Bits |-> 0]
  /\ UNCHANGED <<bus, id, BUFFER, l, romID, changes, misread>>

\* No presence pulse: return FALSE, which is zero devices.
NoPresence ==
  /\ pc = "reset"
  /\ bus = {}
  /\ pc' = "idle"
  /\ romID' = <<>>
  /\ UNCHANGED <<bus, heard, locals, changes, misread>>

\* What onewire_read2bits gives is taken as the set of the bits that are sent:
\* 2 is {0}, 1 is {1}, 0 is a conflict and 3 is nobody.
Sent == {d[n] : d \in heard}

\* onewire_writebit(b), and b goes into s.
Write(b) ==
  /\ heard' = {d \in heard : d[n] = b}
  /\ s' = [s EXCEPT ![n] = b]

\* Mutant: the branch taken is not noted.
Agreed_Forgotten(k) ==
  \E b \in Bit : k = {b} /\ Write(b) /\ UNCHANGED <<id, BUFFER, l>>

Agreed(k) ==
  \E b \in Bit :
    /\ k = {b}
    /\ Write(b)
    /\ id' = [id EXCEPT ![n] = b]
    /\ UNCHANGED <<BUFFER, l>>

\* Mutant: a conflict at the place to turn opens another branch.
NewConflict_AtTop(k) ==
  /\ k = Bit
  /\ n >= Top
  /\ Write(0)
  /\ id' = [id EXCEPT ![n] = 0]
  /\ l' = l + 1
  /\ BUFFER' = [BUFFER EXCEPT ![l + 1] = n]

NewConflict(k) ==
  /\ k = Bit
  /\ n > Top
  /\ Write(0)
  /\ id' = [id EXCEPT ![n] = 0]
  /\ l' = l + 1
  /\ BUFFER' = [BUFFER EXCEPT ![l + 1] = n]

\* Mutant: above the place to turn, always branch 0.
OldConflict_Zero(k) ==
  /\ k = Bit
  /\ n < Top
  /\ Write(0)
  /\ UNCHANGED <<id, BUFFER, l>>

\* Before the place to turn, the branch taken last time, whatever id[] holds.
OldConflict(k) ==
  /\ k = Bit
  /\ n < Top
  /\ \E b \in IF id[n] = Unset THEN Bit ELSE {id[n]} : Write(b)
  /\ UNCHANGED <<id, BUFFER, l>>

\* Mutant: the branch taken at the turn is not noted.
LastConflict_Forgotten(k) ==
  /\ k = Bit
  /\ n = Top
  /\ Write(1)
  /\ l' = l - 1
  /\ UNCHANGED <<id, BUFFER>>

LastConflict(k) ==
  /\ k = Bit
  /\ n = Top
  /\ Write(1)
  /\ id' = [id EXCEPT ![n] = 1]
  /\ l' = l - 1
  /\ UNCHANGED BUFFER

\* The master writes nothing and s is shifted.  Devices that did send something
\* take the next read for the answer they wait for, so that any may fall silent.
Nobody(k) ==
  /\ k = {}
  /\ heard' \in SUBSET heard
  /\ s' = [s EXCEPT ![n] = 0]
  /\ UNCHANGED <<id, BUFFER, l>>

Handle(k) ==
  /\ pc = "bit"
  /\ n <= IdBits
  /\ Agreed(k) \/ NewConflict(k) \/ OldConflict(k) \/ LastConflict(k) \/ Nobody(k)
  /\ n' = n + 1
  /\ UNCHANGED <<bus, pc, romID>>

ReadBits ==
  /\ Handle(Sent)
  /\ UNCHANGED <<changes, misread>>

\* Mutant: num is not incremented.
EndPass_Uncounted ==
  /\ pc = "bit"
  /\ n = IdBits + 1
  /\ romID' = <<s>>
  /\ pc' = "while"
  /\ UNCHANGED <<bus, heard, locals, changes, misread>>

\* The last byte of romID[num] is complete.
EndPass ==
  /\ pc = "bit"
  /\ n = IdBits + 1
  /\ romID' = Append(romID, s)
  /\ pc' = "while"
  /\ UNCHANGED <<bus, heard, locals, changes, misread>>

\* Mutant: the rows of the array are not counted.
Again_Unbounded ==
  /\ pc = "while"
  /\ Top # 0
  /\ pc' = "reset"
  /\ UNCHANGED <<bus, heard, locals, romID, changes, misread>>

Again ==
  /\ pc = "while"
  /\ Top # 0
  /\ Len(romID) < MaxDevices
  /\ pc' = "reset"
  /\ UNCHANGED <<bus, heard, locals, romID, changes, misread>>

Return ==
  /\ pc = "while"
  /\ Top = 0 \/ Len(romID) = MaxDevices
  /\ pc' = "idle"
  /\ UNCHANGED <<bus, heard, locals, romID, changes, misread>>

------------------------------------------------------------------------------
(* What can happen to a search *)

\* The counter of the watchdog was last set before the call, and a longer search
\* than it allows for may be cut off at any pass.
WatchdogReset ==
  /\ pc = "reset"
  /\ bus # {}
  /\ Len(romID) >= DogPasses
  /\ pc' = "idle"
  /\ romID' = <<>>
  /\ UNCHANGED <<bus, heard, locals, changes, misread>>

Disturb == changes < MaxChanges /\ changes' = changes + 1

\* A device that leaves is silent at once; one that comes waits for a reset.
Unplug(d) ==
  /\ Disturb
  /\ d \in bus
  /\ bus' = bus \ {d}
  /\ heard' = heard \ {d}
  /\ UNCHANGED <<pc, locals, romID, misread>>

Plug(d) ==
  /\ Disturb
  /\ d \notin bus
  /\ bus' = bus \cup {d}
  /\ UNCHANGED <<heard, pc, locals, romID, misread>>

\* An interrupt in the middle of a bit, or a slow edge.
Misread ==
  /\ Disturb
  /\ pc = "bit" /\ n <= IdBits
  /\ \E k \in SUBSET Bit \ {Sent} : Handle(k)
  /\ misread' = TRUE

PresenceMissed ==
  /\ Disturb
  /\ pc = "reset"
  /\ pc' = "idle"
  /\ romID' = <<>>
  /\ misread' = TRUE
  /\ UNCHANGED <<bus, heard, locals>>

Search_ROM ==
  \/ StartPass \/ NoPresence \/ ReadBits \/ EndPass \/ Again \/ Return
  \/ WatchdogReset

Environment ==
  \/ \E d \in Devices : Unplug(d) \/ Plug(d)
  \/ Misread \/ PresenceMissed

Next == Call \/ Search_ROM \/ Environment

Spec == Init /\ [][Next]_vars
FairSpec == Spec /\ WF_vars(Search_ROM) /\ WF_vars(Call)

------------------------------------------------------------------------------
(* Properties *)

\* Every variable has its type, BUFFER and the rows of romID among them: no
\* write goes beyond an array.
TypeOK ==
  /\ bus \subseteq Devices
  /\ heard \subseteq bus
  /\ pc \in {"idle", "reset", "bit", "while"}
  /\ n \in 1..(IdBits + 1)
  /\ s \in Ids
  /\ id \in [Bits -> {0, 1, Unset}]
  /\ BUFFER \in [Slots -> 0..IdBits]
  /\ l \in Slots
  /\ romID \in Seq(Ids)
  /\ Len(romID) <= MaxDevices
  /\ changes \in 0..MaxChanges
  /\ misread \in BOOLEAN

\* The open branches in BUFFER go down the tree, whatever happened to the bus:
\* so a conflict is compared with the deepest of them.
BranchesDescend ==
  /\ BUFFER[0] = 0
  /\ \A i, j \in 0..l : i < j => BUFFER[i] < BUFFER[j]

\* A pass that follows the last one down to BUFFER[l] finds the branches to take
\* in id[], even if devices came and went; only a misread bit can leave one unset.
PathKnown ==
  ~misread => \A b \in 1..Top : id[b] # Unset

Before == {p \in Ids \X Ids : \E b \in Bits :
             /\ p[1][b] = 0 /\ p[2][b] = 1
             /\ \A c \in 1..(b - 1) : p[1][c] = p[2][c]}

Promise == INSTANCE Enumerator WITH
  calm <- changes = 0, found <- romID, on <- pc # "idle"

\* The search lists the devices as the Enumerator promises: each device on an undisturbed bus
\* once, in order.
Enumerates == Promise!ESpec

\* Every search ends, on whatever bus.
SearchEnds == (pc # "idle") ~> (pc = "idle")

Settled ==
  /\ pc = "idle"
  /\ {romID[i] : i \in 1..Len(romID)} = bus
  /\ \A i, j \in 1..Len(romID) : i # j => romID[i] # romID[j]

\* Once nothing is disturbed any more, the searches find exactly the devices that are
\* on the bus, whatever the searches before them recorded, if there are no more
\* than the watchdog allows for.
Heals ==
  /\ <>[][changes' <= changes]_vars
  /\ <>[](Cardinality(bus) <= DogPasses)
  => []<>Settled
===============================================================================
