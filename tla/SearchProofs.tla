----------------------------- MODULE SearchProofs -----------------------------
(***************************************************************************)
(* Theorems about Search, for ids of any length, any array that has room   *)
(* for the open branches, any devices and any number of disturbances.      *)
(***************************************************************************)
EXTENDS Search, TLAPS

\* An open branch lies at least as deep as its place in BUFFER.
Deep == \A i \in 0..l : BUFFER[i] >= i

\* Where a search stands tells whether a row and an open branch are left.
Control ==
  /\ pc \in {"reset", "bit"} => Len(romID) < MaxDevices
  /\ pc = "reset" /\ romID = <<>> => l = 0
  /\ pc = "reset" /\ romID # <<>> => Top # 0
  /\ pc = "while" => romID # <<>>
  /\ changes = 0 => ~misread

\* As long as a device follows the pass, every bit above was answered.
PassKnown ==
  pc = "bit" /\ ~misread /\ heard # {} => \A b \in 1..(n - 1) : id[b] # Unset

IInv ==
  /\ TypeOK
  /\ BranchesDescend
  /\ Deep
  /\ Control
  /\ PathKnown
  /\ PassKnown

LEMMA SearchInit == Init => IInv
<1> SUFFICES ASSUME Init PROVE IInv
  OBVIOUS
<1>1. TypeOK
  <2>1. /\ s \in Ids
        /\ id \in [Bits -> {0, 1, Unset}]
        /\ BUFFER \in [Slots -> 0..IdBits]
    BY SearchAssumption DEF Init, Ids, Bit
  <2>2. l \in Slots /\ n \in 1..(IdBits + 1) /\ changes \in 0..MaxChanges
    BY SearchAssumption DEF Init, Slots
  <2>3. romID \in Seq(Ids) /\ Len(romID) <= MaxDevices
    BY SearchAssumption DEF Init
  <2> QED BY <2>1, <2>2, <2>3 DEF Init, TypeOK
<1>2. BranchesDescend /\ Deep
  BY SearchAssumption DEF Init, BranchesDescend, Deep, Slots
<1>3. Control /\ PathKnown /\ PassKnown
  BY SearchAssumption DEF Init, Control, PathKnown, PassKnown, Top, Slots
<1> QED BY <1>1, <1>2, <1>3 DEF IInv

\* An id has a place in BUFFER for each of its bits.
LEMMA RoomToPush ==
  ASSUME TypeOK, Deep, n <= IdBits, n > Top
  PROVE  /\ l + 1 \in Slots
         /\ n \in Bits
         /\ n \in 0..IdBits
<1>1. l \in 0..l /\ l \in Nat
  BY SearchAssumption DEF TypeOK, Slots
<1>2. BUFFER[l] >= l
  BY <1>1 DEF Deep
<1>3. BUFFER[l] \in 0..IdBits
  BY DEF TypeOK
<1> QED BY <1>1, <1>2, <1>3, SearchAssumption DEF TypeOK, Slots, Top, Bits

LEMMA HandleTyped ==
  ASSUME IInv, NEW k, Handle(k), changes' \in 0..MaxChanges, misread' \in BOOLEAN
  PROVE  TypeOK' /\ BranchesDescend' /\ Deep'
<1> USE SearchAssumption
<1>0. /\ n \in Bits /\ n \in 1..IdBits /\ n + 1 \in 1..(IdBits + 1)
      /\ l \in Nat /\ Top \in 0..IdBits
  BY DEF Handle, IInv, TypeOK, Bits, Slots, Top
<1>1. ASSUME NEW b \in Bit, Write(b)
      PROVE  heard' \subseteq heard /\ s' \in Ids
  BY <1>0, <1>1 DEF Write, IInv, TypeOK, Ids
<1>2. CASE Agreed(k)
  <2>1. PICK b \in Bit : Write(b) /\ id' = [id EXCEPT ![n] = b]
    BY <1>2 DEF Agreed
  <2>2. id' \in [Bits -> {0, 1, Unset}]
    BY <2>1, <1>0 DEF IInv, TypeOK, Bit
  <2>3. BUFFER' = BUFFER /\ l' = l
    BY <1>2 DEF Agreed
  <2> QED BY <1>0, <1>1, <2>1, <2>2, <2>3
      DEF Handle, IInv, TypeOK, BranchesDescend, Deep
<1>3. CASE NewConflict(k)
  <2>1. l + 1 \in Slots /\ n > Top
    BY <1>3, <1>0, RoomToPush DEF NewConflict, IInv
  <2>2. BUFFER' = [BUFFER EXCEPT ![l + 1] = n] /\ l' = l + 1
    BY <1>3 DEF NewConflict
  <2>3. BUFFER' \in [Slots -> 0..IdBits]
    BY <2>1, <2>2, <1>0 DEF IInv, TypeOK
  <2>4. id' \in [Bits -> {0, 1, Unset}]
    BY <1>3, <1>0 DEF NewConflict, IInv, TypeOK
  <2>5. heard' \subseteq heard /\ s' \in Ids
    BY <1>1, <1>3 DEF NewConflict, Bit
  <2>6. TypeOK'
    BY <1>0, <2>1, <2>2, <2>3, <2>4, <2>5 DEF Handle, IInv, TypeOK
  <2>7. \A i \in 0..l : i \in Slots /\ BUFFER'[i] = BUFFER[i]
    BY <1>0, <2>1, <2>2 DEF IInv, TypeOK, Slots
  <2>8. BUFFER'[l + 1] = n
    BY <2>1, <2>2 DEF IInv, TypeOK
  <2>9. BUFFER[l] >= l /\ Top = BUFFER[l]
    BY <1>0 DEF IInv, Deep, Top
  <2>10. Deep'
    <3> SUFFICES ASSUME NEW i \in 0..(l + 1) PROVE BUFFER'[i] >= i
      BY <2>2 DEF Deep
    <3>1. CASE i \in 0..l
      BY <3>1, <2>7 DEF IInv, Deep
    <3>2. CASE i = l + 1
      BY <3>2, <2>8, <2>9, <2>1, <1>0
    <3> QED BY <3>1, <3>2, <1>0
  <2>11. BranchesDescend'
    <3>1. BUFFER'[0] = 0
      BY <2>7, <1>0 DEF IInv, BranchesDescend
    <3>2. ASSUME NEW i \in 0..(l + 1), NEW j \in 0..(l + 1), i < j
          PROVE  BUFFER'[i] < BUFFER'[j]
      <4>1. i \in 0..l /\ BUFFER[i] \in Int /\ BUFFER[l] \in Int
        BY <3>2, <2>7, <1>0 DEF IInv, TypeOK, Slots
      <4>2. CASE j \in 0..l
        BY <3>2, <4>1, <4>2, <2>7 DEF IInv, BranchesDescend
      <4>3. CASE j = l + 1
        <5>1. BUFFER[i] <= BUFFER[l]
          BY <4>1, <1>0 DEF IInv, BranchesDescend
        <5> QED BY <4>1, <4>3, <5>1, <2>7, <2>8, <2>9, <2>1, <1>0
      <4> QED BY <4>2, <4>3, <1>0
    <3> QED BY <3>1, <3>2, <2>2 DEF BranchesDescend
  <2> QED BY <2>6, <2>10, <2>11
<1>4. CASE OldConflict(k)
  <2>1. PICK b \in Bit : Write(b)
    <3>1. id[n] \in {0, 1, Unset}
      BY <1>0 DEF IInv, TypeOK
    <3> QED BY <1>4, <3>1 DEF OldConflict, Bit
  <2> QED BY <1>0, <1>1, <1>4, <2>1
      DEF OldConflict, Handle, IInv, TypeOK, BranchesDescend, Deep
<1>5. CASE LastConflict(k)
  <2>1. n = Top /\ l' = l - 1 /\ BUFFER' = BUFFER
    BY <1>5 DEF LastConflict
  <2>2. l # 0
    BY <2>1, <1>0 DEF IInv, BranchesDescend, Top
  <2>3. l - 1 \in Slots
    BY <2>2, <1>0 DEF IInv, TypeOK, Slots
  <2>4. id' \in [Bits -> {0, 1, Unset}]
    BY <1>5, <1>0 DEF LastConflict, IInv, TypeOK
  <2>5. heard' \subseteq heard /\ s' \in Ids
    BY <1>1, <1>5 DEF LastConflict, Bit
  <2>6. TypeOK'
    BY <1>0, <2>1, <2>3, <2>4, <2>5 DEF Handle, IInv, TypeOK
  <2>7. BranchesDescend' /\ Deep'
    BY <2>1, <2>2, <1>0 DEF IInv, BranchesDescend, Deep
  <2> QED BY <2>6, <2>7
<1>6. CASE Nobody(k)
  <2>1. s' \in Ids
    BY <1>6, <1>0 DEF Nobody, IInv, TypeOK, Ids, Bit
  <2> QED BY <1>0, <1>6, <2>1
      DEF Nobody, Handle, IInv, TypeOK, BranchesDescend, Deep
<1> QED BY <1>2, <1>3, <1>4, <1>5, <1>6 DEF Handle

\* What the other steps of a search leave alone.
LEMMA StepTyped ==
  ASSUME IInv, Next
  PROVE  TypeOK' /\ BranchesDescend' /\ Deep'
<1> USE SearchAssumption
<1>0. /\ l \in Nat /\ Len(romID) \in Nat /\ changes \in Nat
      /\ 0 \in Slots /\ 1 \in 1..(IdBits + 1)
  BY DEF IInv, TypeOK, Slots
<1>1. CASE Call
  <2>1. /\ id' \in [Bits -> {0, 1, Unset}]
        /\ BUFFER' \in [Slots -> 0..IdBits]
        /\ l' = 0 /\ BUFFER'[0] = 0
    BY <1>1, <1>0 DEF Call
  <2>2. romID' \in Seq(Ids) /\ Len(romID') = 0 /\ changes' \in 0..MaxChanges
    BY <1>1 DEF Call
  <2>3. TypeOK'
    BY <1>1, <1>0, <2>1, <2>2 DEF Call, IInv, TypeOK
  <2>4. BranchesDescend' /\ Deep'
    BY <2>1, <1>0 DEF BranchesDescend, Deep
  <2> QED BY <2>3, <2>4
<1>2. CASE StartPass
  <2>1. s' \in Ids
    BY <1>2 DEF StartPass, Ids, Bit
  <2> QED BY <1>2, <1>0, <2>1 DEF StartPass, IInv, TypeOK, BranchesDescend, Deep
<1>3. CASE NoPresence \/ WatchdogReset \/ PresenceMissed
  <2>0. romID' = <<>>
    BY <1>3 DEF NoPresence, WatchdogReset, PresenceMissed
  <2>1. romID' \in Seq(Ids) /\ Len(romID') = 0
    BY <2>0
  <2>2. changes' \in 0..MaxChanges /\ misread' \in BOOLEAN
    BY <1>3, <1>0 DEF NoPresence, WatchdogReset, PresenceMissed, Disturb, IInv, TypeOK
  <2>3. UNCHANGED <<bus, heard, locals>> /\ pc' = "idle"
    BY <1>3 DEF NoPresence, WatchdogReset, PresenceMissed
  <2> QED BY <1>0, <2>1, <2>2, <2>3 DEF locals, IInv, TypeOK, BranchesDescend, Deep
<1>4. CASE ReadBits
  <2>1. changes' \in 0..MaxChanges /\ misread' \in BOOLEAN /\ Handle(Sent)
    BY <1>4 DEF ReadBits, IInv, TypeOK
  <2> QED BY <2>1, HandleTyped
<1>5. CASE Misread
  <2>1. changes' \in 0..MaxChanges /\ misread' \in BOOLEAN
    BY <1>5, <1>0 DEF Misread, Disturb, IInv, TypeOK
  <2>2. PICK k \in SUBSET Bit \ {Sent} : Handle(k)
    BY <1>5 DEF Misread
  <2> QED BY <2>1, <2>2, HandleTyped
<1>6. CASE EndPass
  <2>1. /\ romID' \in Seq(Ids)
        /\ Len(romID') = Len(romID) + 1
    BY <1>6, <1>0 DEF EndPass, IInv, TypeOK
  <2>2. Len(romID) < MaxDevices
    BY <1>6 DEF EndPass, IInv, Control
  <2> QED BY <1>6, <1>0, <2>1, <2>2
      DEF EndPass, locals, IInv, TypeOK, BranchesDescend, Deep
<1>7. CASE Again \/ Return
  BY <1>7 DEF Again, Return, locals, IInv, TypeOK, BranchesDescend, Deep
<1>8. ASSUME NEW d \in Devices, Unplug(d) \/ Plug(d)
      PROVE  TypeOK' /\ BranchesDescend' /\ Deep'
  <2>1. changes' \in 0..MaxChanges
    BY <1>8, <1>0 DEF Unplug, Plug, Disturb, IInv, TypeOK
  <2>2. bus' \subseteq Devices /\ heard' \subseteq bus'
    BY <1>8 DEF Unplug, Plug, IInv, TypeOK
  <2>3. UNCHANGED <<pc, locals, romID, misread>>
    BY <1>8 DEF Unplug, Plug
  <2> QED BY <2>1, <2>2, <2>3 DEF locals, IInv, TypeOK, BranchesDescend, Deep
<1> QED BY <1>1, <1>2, <1>3, <1>4, <1>5, <1>6, <1>7, <1>8
    DEF Next, Search_ROM, Environment

LEMMA StepControl ==
  ASSUME IInv, Next
  PROVE  Control'
<1> USE SearchAssumption
<1>0. /\ l \in Nat /\ Len(romID) \in Nat /\ changes \in Nat /\ romID \in Seq(Ids)
      /\ BUFFER[0] = 0
  BY DEF IInv, TypeOK, Slots, BranchesDescend
<1>1. CASE Call
  BY <1>1, <1>0 DEF Call, Control
<1>2. CASE StartPass
  BY <1>2 DEF StartPass, IInv, Control
<1>3. CASE NoPresence \/ WatchdogReset \/ PresenceMissed
  BY <1>3, <1>0 DEF NoPresence, WatchdogReset, PresenceMissed, Disturb, IInv, Control
<1>4. CASE ReadBits
  BY <1>4 DEF ReadBits, Handle, IInv, Control
<1>5. CASE Misread
  BY <1>5, <1>0 DEF Misread, Disturb, Handle, IInv, Control
<1>6. CASE EndPass
  BY <1>6 DEF EndPass, IInv, Control
<1>7. CASE Again
  <2>1. Top # 0 /\ Top' = Top /\ romID' = romID
    BY <1>7 DEF Again, locals, Top
  <2>2. l' = l /\ changes' = changes /\ misread' = misread /\ Len(romID) < MaxDevices
    BY <1>7 DEF Again, locals
  <2>3. romID # <<>>
    BY <1>7 DEF Again, IInv, Control
  <2> QED BY <2>1, <2>2, <2>3 DEF IInv, Control
<1>8. CASE Return
  BY <1>8 DEF Return, IInv, Control
<1>9. ASSUME NEW d \in Devices, Unplug(d) \/ Plug(d)
      PROVE  Control'
  BY <1>9, <1>0 DEF Unplug, Plug, Disturb, locals, IInv, Control, Top
<1> QED BY <1>1, <1>2, <1>3, <1>4, <1>5, <1>6, <1>7, <1>8, <1>9
    DEF Next, Search_ROM, Environment

\* Every place above the deepest open branch was written, since a device that
\* answers somewhere has answered above.
LEMMA StepPath ==
  ASSUME IInv, Next
  PROVE  PathKnown' /\ PassKnown'
<1> USE SearchAssumption
<1>0. /\ l \in Nat /\ n \in 1..(IdBits + 1) /\ Top \in 0..IdBits /\ BUFFER[0] = 0
      /\ id \in [Bits -> {0, 1, Unset}] /\ misread \in BOOLEAN
  BY DEF IInv, TypeOK, Slots, BranchesDescend, Top
<1>1. CASE Call
  <2>1. Top' = 0
    BY <1>1 DEF Call, Top, Slots
  <2> QED BY <1>1, <2>1 DEF Call, PathKnown, PassKnown
<1>2. CASE StartPass
  <2>1. UNCHANGED <<id, misread, Top>> /\ n' = 1
    BY <1>2 DEF StartPass, Top
  <2> QED BY <2>1 DEF IInv, PathKnown, PassKnown
<1>3. CASE NoPresence \/ WatchdogReset \/ PresenceMissed \/ EndPass \/ Again \/ Return
  <2>1. UNCHANGED <<id, Top>> /\ pc' # "bit" /\ (misread' = misread \/ misread' = TRUE)
    BY <1>3 DEF NoPresence, WatchdogReset, PresenceMissed, EndPass, Again, Return,
                locals, Top
  <2> QED BY <2>1 DEF IInv, PathKnown, PassKnown
<1>4. CASE ReadBits
  <2>0. /\ Handle(Sent) /\ misread' = misread /\ n \in Bits /\ n' = n + 1
        /\ pc = "bit" /\ pc' = "bit" /\ n \in Nat
    BY <1>4, <1>0 DEF ReadBits, Handle, Bits
  <2> SUFFICES ASSUME ~misread PROVE PathKnown' /\ PassKnown'
    BY <2>0 DEF PathKnown, PassKnown
  <2>1. \A b \in 1..Top : id[b] # Unset
    BY DEF IInv, PathKnown
  <2>2. heard # {} => \A b \in 1..(n - 1) : id[b] # Unset
    BY <2>0 DEF IInv, PassKnown
  <2>3. Unset \notin Bit
    BY DEF Unset, Bit
  <2>4. CASE Agreed(Sent)
    <3>1. PICK b \in Bit : Sent = {b} /\ id' = [id EXCEPT ![n] = b]
      BY <2>4 DEF Agreed
    <3>2. heard # {}
      BY <3>1 DEF Sent
    <3>3. Top' = Top
      BY <2>4 DEF Agreed, Top
    <3>4. \A c \in Bits : id[c] # Unset => id'[c] # Unset
      BY <3>1, <1>0, <2>3
    <3>5. id'[n] # Unset
      BY <3>1, <1>0, <2>0, <2>3
    <3>6. 1..Top \subseteq Bits /\ 1..(n - 1) \subseteq Bits
      BY <1>0, <2>0 DEF Bits
    <3>7. PathKnown'
      BY <2>1, <3>3, <3>4, <3>6 DEF PathKnown
    <3>8. \A c \in 1..n : id'[c] # Unset
      BY <2>2, <3>2, <3>4, <3>5, <3>6, <2>0
    <3> QED BY <3>7, <3>8, <2>0 DEF PassKnown
  <2>5. CASE NewConflict(Sent)
    <3>1. Sent = Bit /\ id' = [id EXCEPT ![n] = 0]
      BY <2>5 DEF NewConflict
    <3>2. heard # {}
      BY <3>1 DEF Sent, Bit
    <3>3. Top' = n
      <4>1. l + 1 \in Slots
        BY <2>5, <2>0, RoomToPush DEF NewConflict, IInv, Handle
      <4> QED BY <2>5, <4>1 DEF NewConflict, Top, IInv, TypeOK
    <3>4. \A c \in Bits : id[c] # Unset => id'[c] # Unset
      BY <3>1, <1>0 DEF Unset
    <3>5. id'[n] # Unset
      BY <3>1, <1>0, <2>0 DEF Unset
    <3>6. 1..(n - 1) \subseteq Bits
      BY <1>0, <2>0 DEF Bits
    <3>8. \A c \in 1..n : id'[c] # Unset
      BY <2>2, <3>2, <3>4, <3>5, <3>6, <2>0
    <3> QED BY <3>3, <3>8, <2>0 DEF PathKnown, PassKnown
  <2>6. CASE OldConflict(Sent)
    <3>1. Sent = Bit /\ n < Top /\ Top' = Top /\ id' = id
      BY <2>6 DEF OldConflict, Top
    <3>2. \A c \in 1..n : id[c] # Unset
      BY <3>1, <2>1, <1>0, <2>0
    <3> QED BY <3>1, <3>2, <2>0, <2>1 DEF PathKnown, PassKnown
  <2>7. CASE LastConflict(Sent)
    <3>1. /\ n = Top /\ id' = [id EXCEPT ![n] = 1]
          /\ l' = l - 1 /\ BUFFER' = BUFFER
      BY <2>7 DEF LastConflict
    <3>2. l # 0
      BY <3>1, <1>0, <2>0 DEF Top, Bits
    <3>3. Top' < n /\ Top' \in Int
      <4>1. l \in 0..l /\ l - 1 \in 0..l /\ l - 1 \in Slots
        BY <3>2, <1>0 DEF IInv, TypeOK, Slots
      <4>2. BUFFER[l - 1] < BUFFER[l]
        BY <4>1 DEF IInv, BranchesDescend
      <4> QED BY <3>1, <4>1, <4>2 DEF Top, IInv, TypeOK
    <3>4. \A c \in 1..n : id'[c] # Unset
      BY <3>1, <2>1, <1>0, <2>0 DEF Bits, Unset
    <3> QED BY <3>3, <3>4, <2>0 DEF PathKnown, PassKnown
  <2>8. CASE Nobody(Sent)
    <3>1. heard = {}
      BY <2>8 DEF Nobody, Sent
    <3>2. heard' = {} /\ id' = id /\ Top' = Top
      BY <2>8, <3>1 DEF Nobody, Top
    <3> QED BY <3>2, <2>1 DEF PathKnown, PassKnown
  <2> QED BY <2>0, <2>4, <2>5, <2>6, <2>7, <2>8 DEF Handle
<1>5. CASE Misread
  BY <1>5 DEF Misread, PathKnown, PassKnown
<1>6. ASSUME NEW d \in Devices, Unplug(d) \/ Plug(d)
      PROVE  PathKnown' /\ PassKnown'
  <2>1. UNCHANGED <<id, Top, n, pc, misread>> /\ heard' \subseteq heard
    BY <1>6 DEF Unplug, Plug, locals, Top
  <2> QED BY <2>1 DEF IInv, PathKnown, PassKnown
<1> QED BY <1>1, <1>2, <1>3, <1>4, <1>5, <1>6 DEF Next, Search_ROM, Environment

LEMMA SearchNext == IInv /\ [Next]_vars => IInv'
<1>1. CASE UNCHANGED vars
  BY <1>1 DEF vars, IInv, TypeOK, BranchesDescend, Deep, Control, PathKnown, PassKnown, Top
<1>2. CASE Next
  BY <1>2, StepTyped, StepControl, StepPath DEF IInv
<1> QED BY <1>1, <1>2

LEMMA SearchInvariance == Spec => []IInv
BY SearchInit, SearchNext, PTL DEF Spec

------------------------------------------------------------------------------
(* Theorems *)

\* TypeOK: whatever comes, goes or is misread, Search_ROM writes within BUFFER, id
\* and the array of ids.
THEOREM TypeCorrect == Spec => []TypeOK
BY SearchInvariance, PTL DEF IInv

\* BranchesDescend: the open branches in BUFFER lie ever deeper in the tree.
THEOREM BranchesOrdered == Spec => []BranchesDescend
BY SearchInvariance, PTL DEF IInv

\* PathKnown: the bits of the last path that the next pass follows were all written,
\* so that no uninitialised element of id[] is sent.
THEOREM PathWritten == Spec => []PathKnown
BY SearchInvariance, PTL DEF IInv

------------------------------------------------------------------------------
(* A search that nothing disturbs.  The devices not listed yet are those behind *)
(* an open branch and, once the pass has turned, those that follow it.          *)

Agrees(d, b) == \A c \in 1..(b - 1) : d[c] = id[c]
Behind(d, b) == Agrees(d, b) /\ d[b] = 1
Open == {BUFFER[i] : i \in 1..l}

Coming(d) ==
  \/ \E b \in Open : Behind(d, b)
  \/ pc = "bit" /\ n > Top /\ d \in heard
  \/ pc = "reset" /\ romID = <<>>

\* Branch 0 was taken at an open branch, and there are devices on both sides.
OpenForks ==
  \A b \in Open :
    /\ id[b] = 0
    /\ \E d \in bus : Agrees(d, b) /\ d[b] = 0
    /\ \E d \in bus : Behind(d, b)

\* Those who follow the pass are those whose ids begin as it does.
Following ==
  pc = "bit" =>
    /\ heard # {}
    /\ \A d \in bus : d \in heard <=> \A c \in 1..(n - 1) : d[c] = s[c]
    /\ \A c \in 1..(n - 1) : id[c] = s[c]

ListedOrComing == \A d \in bus : d \notin Promise!Listed <=> Coming(d)

CalmInv ==
  changes = 0 /\ pc # "idle" => OpenForks /\ Following /\ ListedOrComing

LEMMA OpenFacts ==
  ASSUME IInv
  PROVE  /\ Top \in 0..IdBits /\ n \in 1..(IdBits + 1) /\ IdBits \in Nat /\ l \in Nat
         /\ \A b \in Open : b \in Bits /\ b <= Top
         /\ Top # 0 => Top \in Open
         /\ Top = 0 => l = 0 /\ Open = {}
<1>1. /\ l \in Nat /\ l \in 0..l /\ \A i \in 0..l : i \in Slots /\ BUFFER[i] \in 0..IdBits
      /\ IdBits \in Nat
  BY SearchAssumption DEF IInv, TypeOK, Slots
<1>2. BUFFER[0] = 0 /\ \A i, j \in 0..l : i < j => BUFFER[i] < BUFFER[j]
  BY DEF IInv, BranchesDescend
<1>3. \A i \in 1..l : i \in 0..l /\ 0 \in 0..l
  BY <1>1
<1>4. \A i \in 1..l : BUFFER[i] \in Bits /\ BUFFER[i] <= Top
  BY <1>1, <1>2, <1>3 DEF Bits, Top
<1>5. Top # 0 => Top \in Open
  BY <1>1, <1>2 DEF Top, Open
<1>6. Top = 0 => l = 0 /\ Open = {}
  BY <1>1, <1>2, <1>3 DEF Top, Open
<1> QED BY <1>1, <1>4, <1>5, <1>6 DEF Open, Top, IInv, TypeOK

LEMMA IdBit ==
  ASSUME IInv, NEW d \in bus, NEW b \in Bits
  PROVE  d \in Ids /\ (d[b] = 0 \/ d[b] = 1)
BY SearchAssumption DEF IInv, TypeOK, Ids, Bit

\* Above the place to turn, the devices behind it still follow the pass.
LEMMA TurnHeard ==
  ASSUME IInv, OpenForks, Following, pc = "bit", n <= Top
  PROVE  /\ n \in Bits
         /\ \E d \in heard : Behind(d, Top)
         /\ \E d \in heard : Agrees(d, Top) /\ d[Top] = 0
<1>1. n \in Bits /\ Top \in Open /\ Top \in Nat /\ n \in Nat
  BY OpenFacts DEF Bits
<1>2. ASSUME NEW d \in bus, Agrees(d, Top) PROVE d \in heard
  BY <1>1, <1>2 DEF Agrees, Following
<1>3. PICK d \in bus : Behind(d, Top)
  BY <1>1 DEF OpenForks
<1>4. PICK e \in bus : Agrees(e, Top) /\ e[Top] = 0
  BY <1>1 DEF OpenForks
<1>5. d \in heard
  BY <1>2, <1>3 DEF Behind
<1>6. e \in heard
  BY <1>2, <1>4
<1> QED BY <1>1, <1>3, <1>4, <1>5, <1>6

\* What a bit does to those who follow: the rows, the bus and the place are as before.
LEMMA BitRead ==
  ASSUME IInv, ReadBits
  PROVE  /\ n \in Bits /\ n \in Nat /\ n' = n + 1 /\ pc = "bit" /\ pc' = "bit"
         /\ bus' = bus /\ romID' = romID /\ changes' = changes
         /\ heard \subseteq bus
         /\ \A d \in heard : d[n] \in Sent
BY SearchAssumption DEF ReadBits, Handle, IInv, TypeOK, Bits, Sent

\* Writing b keeps those whose bit is b, and s is their common beginning.
LEMMA Followers ==
  ASSUME IInv, ReadBits, Following, NEW b \in Bit, Write(b), \E d \in heard : d[n] = b,
         id'[n] = b, \A c \in 1..(n - 1) : id'[c] = id[c]
  PROVE  Following'
<1>1. /\ n \in Bits /\ n \in Nat /\ n' = n + 1 /\ pc = "bit" /\ bus' = bus /\ n - 1 \in Int
      /\ heard \subseteq bus
  BY BitRead
<1>2. heard' = {d \in heard : d[n] = b} /\ s' = [s EXCEPT ![n] = b]
  BY DEF Write
<1>3. s'[n] = b /\ \A c \in 1..(n - 1) : s'[c] = s[c]
  BY <1>1, <1>2 DEF IInv, TypeOK, Ids, Bits
<1>4. 1..n = {n} \cup 1..(n - 1)
  <2>1. n \in 1..IdBits
    BY <1>1 DEF Bits
  <2> QED BY <2>1, <1>1
<1>5. ASSUME NEW d \in bus PROVE d \in heard' <=> \A c \in 1..n : d[c] = s'[c]
  <2>1. d \in heard <=> \A c \in 1..(n - 1) : d[c] = s[c]
    BY <1>1 DEF Following
  <2>2. (\A c \in 1..n : d[c] = s'[c]) <=>
          (d[n] = b /\ \A c \in 1..(n - 1) : d[c] = s[c])
    BY <1>1, <1>3, <1>4
  <2> QED BY <2>1, <2>2, <1>2
<1>6. \A c \in 1..n : id'[c] = s'[c]
  BY <1>1, <1>3, <1>4 DEF Following
<1>7. n' - 1 = n
  BY <1>1
<1> QED BY <1>1, <1>2, <1>5, <1>6, <1>7 DEF Following

LEMMA CalmAgreed ==
  ASSUME IInv, ReadBits, OpenForks, Following, ListedOrComing, Agreed(Sent)
  PROVE  OpenForks' /\ Following' /\ ListedOrComing'
<1>0. /\ n \in Bits /\ n \in Nat /\ n' = n + 1 /\ pc = "bit" /\ pc' = "bit" /\ bus' = bus
      /\ romID' = romID /\ heard \subseteq bus /\ \A d \in heard : d[n] \in Sent
  BY BitRead
<1>1. PICK b \in Bit : Sent = {b} /\ Write(b) /\ id' = [id EXCEPT ![n] = b]
  BY DEF Agreed
<1>2. BUFFER' = BUFFER /\ l' = l /\ Open' = Open /\ Top' = Top
  BY DEF Agreed, Open, Top
<1>3. heard' = heard /\ heard # {} /\ \A d \in heard : d[n] = b
  BY <1>0, <1>1 DEF Write, Following
<1>4. id \in [Bits -> {0, 1, Unset}]
  BY DEF IInv, TypeOK
<1>5. n <= Top => id' = id
  <2> SUFFICES ASSUME n <= Top PROVE id[n] = b
    BY <1>1, <1>4, <1>0
  <2>1. PICK d \in heard : Behind(d, Top)
    BY <1>0, TurnHeard
  <2>2. PICK e \in heard : Agrees(e, Top) /\ e[Top] = 0
    BY <1>0, TurnHeard
  <2>3. n # Top
    BY <2>1, <2>2, <1>3 DEF Behind
  <2>4. n \in 1..(Top - 1)
    BY <2>3, <1>0, OpenFacts DEF Bits
  <2> QED BY <2>1, <2>4, <1>3 DEF Behind, Agrees
<1>6. \A c \in Bits : c <= Top => id'[c] = id[c]
  BY <1>0, <1>1, <1>4, <1>5, OpenFacts DEF Bits
<1>7. ASSUME NEW d, NEW a \in Open
      PROVE  /\ Agrees(d, a)' <=> Agrees(d, a)
             /\ Behind(d, a)' <=> Behind(d, a)
             /\ id'[a] = id[a]
  <2>1. a \in Bits /\ a <= Top /\ \A c \in 1..(a - 1) : c \in Bits /\ c <= Top
    BY OpenFacts DEF Bits
  <2> QED BY <2>1, <1>6 DEF Agrees, Behind
<1>8. OpenForks'
  BY <1>0, <1>2, <1>7 DEF OpenForks
<1>9. Following'
  <2>1. id'[n] = b /\ \A c \in 1..(n - 1) : id'[c] = id[c]
    BY <1>0, <1>1, <1>4 DEF Bits
  <2> QED BY <2>1, <1>1, <1>3, Followers
<1>10. ASSUME NEW d \in bus PROVE Coming(d)' <=> Coming(d)
  <2>1. (\E a \in Open' : Behind(d, a)') <=> \E a \in Open : Behind(d, a)
    BY <1>2, <1>7
  <2>2. (n' > Top' /\ d \in heard') <=> (n > Top /\ d \in heard)
    <3>1. CASE n > Top
      BY <3>1, <1>0, <1>2, <1>3, OpenFacts
    <3>2. CASE n <= Top
      <4>1. n # Top
        <5> SUFFICES ASSUME n = Top PROVE FALSE
          OBVIOUS
        <5>1. PICK x \in heard : Behind(x, Top)
          BY <1>0, <3>2, TurnHeard
        <5>2. PICK e \in heard : Agrees(e, Top) /\ e[Top] = 0
          BY <1>0, <3>2, TurnHeard
        <5> QED BY <5>1, <5>2, <1>3 DEF Behind
      <4> QED BY <3>2, <4>1, <1>0, <1>2, OpenFacts
    <3> QED BY <3>1, <3>2, <1>0, OpenFacts
  <2> QED BY <2>1, <2>2, <1>0 DEF Coming
<1>11. ListedOrComing'
  BY <1>0, <1>10 DEF ListedOrComing, Promise!Listed
<1> QED BY <1>8, <1>9, <1>11

LEMMA CalmNew ==
  ASSUME IInv, ReadBits, OpenForks, Following, ListedOrComing, NewConflict(Sent)
  PROVE  OpenForks' /\ Following' /\ ListedOrComing'
<1>0. /\ n \in Bits /\ n \in Nat /\ n' = n + 1 /\ pc = "bit" /\ pc' = "bit" /\ bus' = bus
      /\ romID' = romID /\ heard \subseteq bus
  BY BitRead
<1>1. Sent = Bit /\ n > Top /\ Write(0) /\ id' = [id EXCEPT ![n] = 0] /\ l' = l + 1
  BY DEF NewConflict
<1>2. l + 1 \in Slots
  BY <1>0, <1>1, RoomToPush DEF IInv, ReadBits, Handle
<1>3. /\ \A i \in 1..l : BUFFER'[i] = BUFFER[i]
      /\ BUFFER'[l + 1] = n
  BY <1>2 DEF NewConflict, IInv, TypeOK, Slots
<1>4. Open' = Open \cup {n} /\ Top' = n
  BY <1>1, <1>3, OpenFacts DEF Open, Top
<1>5. PICK d0 \in heard, d1 \in heard : d0[n] = 0 /\ d1[n] = 1
  BY <1>1 DEF Sent, Bit
<1>6. id' [n] = 0 /\ \A c \in Bits : c < n => id'[c] = id[c]
  BY <1>0, <1>1 DEF IInv, TypeOK, Bits
<1>7. ASSUME NEW d, NEW a \in Open'
      PROVE  /\ Agrees(d, a)' <=> Agrees(d, a)
             /\ Behind(d, a)' <=> Behind(d, a)
  <2>0. a \in Open => a \in Bits /\ a <= Top
    BY OpenFacts
  <2>1. a \in Bits /\ a <= n
    BY <1>0, <1>1, <1>4, <2>0, OpenFacts DEF Bits
  <2>2. \A c \in 1..(a - 1) : c \in Bits /\ c < n
    BY <2>1, <1>0, OpenFacts DEF Bits
  <2> QED BY <2>2, <1>6 DEF Agrees, Behind
<1>8. \A d \in bus : d \in heard <=> Agrees(d, n)
  BY <1>0 DEF Following, Agrees
<1>9. OpenForks'
  <2>1. ASSUME NEW a \in Open
        PROVE  /\ id'[a] = 0
               /\ \E d \in bus' : (Agrees(d, a) /\ d[a] = 0)'
               /\ \E d \in bus' : Behind(d, a)'
    <3>1. a \in Bits /\ a < n
      BY <1>0, <1>1, OpenFacts DEF Bits
    <3>2. id'[a] = 0
      BY <3>1, <1>6 DEF OpenForks
    <3>3. a \in Open'
      BY <1>4
    <3> QED BY <3>2, <3>3, <1>0, <1>7 DEF OpenForks
  <2>2. /\ \E d \in bus' : (Agrees(d, n) /\ d[n] = 0)
        /\ \E d \in bus' : Behind(d, n)
    BY <1>0, <1>5, <1>8 DEF Behind
  <2>3. n \in Open'
    BY <1>4
  <2>4. ASSUME NEW a \in Open'
        PROVE  /\ id'[a] = 0
               /\ \E d \in bus' : (Agrees(d, a))' /\ d[a] = 0
               /\ \E d \in bus' : Behind(d, a)'
    <3>1. CASE a = n
      BY <3>1, <2>2, <2>3, <1>6, <1>7
    <3>2. CASE a \in Open
      BY <3>2, <2>1
    <3> QED BY <3>1, <3>2, <1>4
  <2> QED BY <2>4 DEF OpenForks
<1>10. Following'
  <2>1. \A c \in 1..(n - 1) : id'[c] = id[c]
    BY <1>0, <1>6, OpenFacts DEF Bits
  <2> QED BY <2>1, <1>1, <1>5, <1>6, Followers DEF Bit
<1>11. ASSUME NEW d \in bus PROVE Coming(d)' <=> Coming(d)
  <2>1. (\E a \in Open' : Behind(d, a)') <=>
          Behind(d, n) \/ \E a \in Open : Behind(d, a)
    BY <1>4, <1>7
  <2>2. n > Top /\ n' > Top'
    BY <1>0, <1>1, <1>4
  <2>3. d \in heard <=> Behind(d, n) \/ d \in heard'
    <3>1. d \in heard => d[n] = 0 \/ d[n] = 1
      BY <1>0, IdBit
    <3> QED BY <3>1, <1>1, <1>8 DEF Write, Behind
  <2> QED BY <2>1, <2>2, <2>3, <1>0 DEF Coming
<1>12. ListedOrComing'
  BY <1>0, <1>11 DEF ListedOrComing, Promise!Listed
<1> QED BY <1>9, <1>10, <1>12

LEMMA CalmOld ==
  ASSUME IInv, ReadBits, OpenForks, Following, ListedOrComing, OldConflict(Sent), ~misread
  PROVE  OpenForks' /\ Following' /\ ListedOrComing'
<1>0. /\ n \in Bits /\ n \in Nat /\ n' = n + 1 /\ pc = "bit" /\ pc' = "bit" /\ bus' = bus
      /\ romID' = romID /\ heard \subseteq bus
  BY BitRead
<1>1. Sent = Bit /\ n < Top /\ id' = id /\ Open' = Open /\ Top' = Top
  BY DEF OldConflict, Open, Top
<1>2. id[n] \in Bit /\ Write(id[n])
  <2>1. id[n] # Unset /\ id[n] \in {0, 1, Unset}
    BY <1>0, <1>1, OpenFacts DEF IInv, PathKnown, TypeOK, Bits
  <2> QED BY <2>1 DEF OldConflict, Bit
<1>3. \E d \in heard : d[n] = id[n]
  <2>1. PICK d \in heard : Behind(d, Top)
    BY <1>0, <1>1, TurnHeard, OpenFacts
  <2> QED BY <2>1, <1>0, <1>1, OpenFacts DEF Behind, Agrees, Bits
<1>4. OpenForks'
  BY <1>0, <1>1 DEF OpenForks, Agrees, Behind
<1>5. Following'
  BY <1>1, <1>2, <1>3, Followers
<1>6. ASSUME NEW d \in bus PROVE Coming(d)' <=> Coming(d)
  <2>1. ~(n > Top) /\ ~(n' > Top')
    BY <1>0, <1>1, OpenFacts
  <2>2. (\E a \in Open' : Behind(d, a)') <=> \E a \in Open : Behind(d, a)
    BY <1>1 DEF Behind, Agrees
  <2> QED BY <2>1, <2>2, <1>0 DEF Coming
<1>7. ListedOrComing'
  BY <1>0, <1>6 DEF ListedOrComing, Promise!Listed
<1> QED BY <1>4, <1>5, <1>7

LEMMA CalmLast ==
  ASSUME IInv, ReadBits, OpenForks, Following, ListedOrComing, LastConflict(Sent)
  PROVE  OpenForks' /\ Following' /\ ListedOrComing'
<1>0. /\ n \in Bits /\ n \in Nat /\ n' = n + 1 /\ pc = "bit" /\ pc' = "bit" /\ bus' = bus
      /\ romID' = romID /\ heard \subseteq bus
  BY BitRead
<1>1. /\ Sent = Bit /\ n = Top /\ Write(1) /\ id' = [id EXCEPT ![n] = 1]
      /\ l' = l - 1 /\ BUFFER' = BUFFER
  BY DEF LastConflict
<1>2. l \in 1..l /\ l - 1 \in 0..l /\ l \in 0..l /\ 0..l \subseteq Slots
  <2>1. l # 0
    BY <1>0, <1>1 DEF IInv, BranchesDescend, Top, Bits
  <2>2. l \in Nat /\ l \in Slots
    BY OpenFacts DEF IInv, TypeOK
  <2>3. 0..l \subseteq Slots
    BY <2>2, SearchAssumption DEF Slots
  <2> QED BY <2>1, <2>2, <2>3
<1>3. /\ \A i \in 0..l : BUFFER[i] \in Int
      /\ \A i \in 0..(l - 1) : i \in 0..l /\ BUFFER[i] < n
  <2>1. \A i \in 0..l : BUFFER[i] \in Int
    BY <1>2 DEF IInv, TypeOK
  <2>2. \A i \in 0..(l - 1) : i \in 0..l /\ i < l
    BY <1>2
  <2> QED BY <1>1, <1>2, <2>1, <2>2 DEF IInv, BranchesDescend, Top
<1>4. Top' < n /\ Top' \in Int
  <2>1. l - 1 \in 0..(l - 1)
    BY <1>2, OpenFacts
  <2> QED BY <1>1, <1>3, <2>1 DEF Top
<1>5. Open' = Open \ {n} /\ \A a \in Open' : a \in Bits /\ a < n
  <2>1. Open' = {BUFFER[i] : i \in 1..(l - 1)}
    BY <1>1 DEF Open
  <2>2. 1..l = (1..(l - 1)) \cup {l} /\ 1..(l - 1) \subseteq 0..(l - 1)
    BY <1>2, OpenFacts
  <2>3. \A i \in 1..(l - 1) : BUFFER[i] < n /\ BUFFER[i] # n
    BY <2>2, <1>3, <1>0
  <2>4. BUFFER[l] = n
    BY <1>1 DEF Top
  <2> QED BY <2>1, <2>2, <2>3, <2>4, OpenFacts DEF Open
<1>6. id'[n] = 1 /\ \A c \in Bits : c < n => id'[c] = id[c]
  BY <1>0, <1>1 DEF IInv, TypeOK, Bits
<1>7. ASSUME NEW d, NEW a \in Open'
      PROVE  /\ Agrees(d, a)' <=> Agrees(d, a)
             /\ Behind(d, a)' <=> Behind(d, a)
             /\ id'[a] = id[a]
  <2>1. a \in Bits /\ a < n /\ \A c \in 1..(a - 1) : c \in Bits /\ c < n
    BY <1>0, <1>5, OpenFacts DEF Bits
  <2> QED BY <2>1, <1>6 DEF Agrees, Behind
<1>8. \A d \in bus : d \in heard <=> Agrees(d, n)
  BY <1>0 DEF Following, Agrees
<1>9. \A d \in bus : d \in heard' <=> Behind(d, n)
  BY <1>0, <1>1, <1>8 DEF Write, Behind
<1>10. OpenForks'
  BY <1>0, <1>5, <1>7 DEF OpenForks
<1>11. Following'
  <2>1. \A c \in 1..(n - 1) : id'[c] = id[c]
    BY <1>0, <1>6, OpenFacts DEF Bits
  <2>2. \E d \in heard : d[n] = 1
    BY <1>1 DEF Sent, Bit
  <2> QED BY <2>1, <2>2, <1>1, <1>6, Followers DEF Bit
<1>12. ASSUME NEW d \in bus PROVE Coming(d)' <=> Coming(d)
  <2>1. (\E a \in Open : Behind(d, a)) <=>
          Behind(d, n) \/ \E a \in Open' : Behind(d, a)'
    <3>1. n \in Open
      BY <1>0, <1>1, OpenFacts DEF Bits
    <3> QED BY <3>1, <1>5, <1>7
  <2>2. ~(n > Top) /\ n' > Top'
    BY <1>0, <1>1, <1>4
  <2> QED BY <2>1, <2>2, <1>0, <1>9 DEF Coming
<1>13. ListedOrComing'
  BY <1>0, <1>12 DEF ListedOrComing, Promise!Listed
<1> QED BY <1>10, <1>11, <1>13

\* A pass that nothing disturbs ends with the one device that is left.
LEMMA PassEnds ==
  ASSUME IInv, OpenForks, Following, pc = "bit", n = IdBits + 1
  PROVE  /\ heard = {s} /\ s \in bus /\ n > Top
         /\ \A b \in Open : ~Behind(s, b)
<1>1. /\ n - 1 = IdBits /\ n > Top /\ s \in [Bits -> Bit] /\ heard \subseteq bus
      /\ bus \subseteq [Bits -> Bit]
  BY SearchAssumption, OpenFacts DEF IInv, TypeOK, Ids
<1>2. ASSUME NEW d \in bus PROVE d \in heard <=> d = s
  <2>1. d \in [Bits -> Bit]
    BY <1>1
  <2>2. (\A c \in Bits : d[c] = s[c]) <=> d = s
    BY <2>1, <1>1
  <2> QED BY <2>2, <1>1 DEF Following, Bits
<1>3. heard # {}
  BY DEF Following
<1>4. \A b \in Open : s[b] = 0
  BY <1>1, OpenFacts DEF Following, OpenForks, Bits
<1>5. heard = {s} /\ s \in bus
  BY <1>1, <1>2, <1>3
<1> QED BY <1>1, <1>4, <1>5 DEF Behind

LEMMA ListedAppend ==
  ASSUME IInv, EndPass
  PROVE  Promise!Listed' = Promise!Listed \cup {s}
<1>1. romID \in Seq(Ids) /\ s \in Ids /\ romID' = Append(romID, s)
  BY DEF IInv, TypeOK, EndPass
<1>2. /\ Len(romID') = Len(romID) + 1 /\ Len(romID) \in Nat
      /\ \A i \in 1..Len(romID) : romID'[i] = romID[i]
      /\ romID'[Len(romID) + 1] = s
  BY <1>1
<1>3. 1..(Len(romID) + 1) = (1..Len(romID)) \cup {Len(romID) + 1}
  BY <1>2
<1> QED BY <1>2, <1>3 DEF Promise!Listed

LEMMA CalmStep == IInv /\ CalmInv /\ [Next]_vars => CalmInv'
<1> SUFFICES ASSUME IInv, CalmInv, [Next]_vars, changes' = 0, pc' # "idle"
             PROVE  OpenForks' /\ Following' /\ ListedOrComing'
  BY DEF CalmInv
<1>0. changes \in Nat
  BY SearchAssumption DEF IInv, TypeOK
<1>1. CASE Call
  <2>1. l' = 0 /\ romID' = <<>> /\ pc' = "reset"
    BY <1>1 DEF Call
  <2>2. Open' = {} /\ Promise!Listed' = {}
    BY <2>1 DEF Open, Promise!Listed
  <2> QED BY <2>1, <2>2 DEF OpenForks, Following, ListedOrComing, Coming
<1>2. CASE StartPass
  <2>1. /\ pc = "reset" /\ pc' = "bit" /\ heard' = bus /\ n' = 1 /\ bus # {}
        /\ UNCHANGED <<bus, id, BUFFER, l, romID, changes>>
    BY <1>2 DEF StartPass
  <2>2. OpenForks /\ Following /\ ListedOrComing
    BY <2>1 DEF CalmInv
  <2>3. Open' = Open /\ Top' = Top /\ Promise!Listed' = Promise!Listed
    BY <2>1 DEF Open, Top, Promise!Listed
  <2>4. OpenForks'
    BY <2>1, <2>2, <2>3 DEF OpenForks, Agrees, Behind
  <2>5. Following'
    BY <2>1 DEF Following
  <2>6. ASSUME NEW d \in bus PROVE Coming(d)' <=> Coming(d)
    <3>1. CASE romID = <<>>
      <4>1. l = 0
        BY <3>1, <2>1 DEF IInv, Control
      <4>2. Top' = 0
        BY <4>1, <2>3 DEF Top, IInv, BranchesDescend
      <4> QED BY <3>1, <4>2, <2>1 DEF Coming
    <3>2. CASE romID # <<>>
      <4>1. Top' # 0 /\ Top' \in Nat
        BY <3>2, <2>1, <2>3, OpenFacts DEF IInv, Control
      <4> QED BY <3>2, <4>1, <2>1, <2>3 DEF Coming, Behind, Agrees
    <3> QED BY <3>1, <3>2
  <2>7. ListedOrComing'
    BY <2>1, <2>2, <2>3, <2>6 DEF ListedOrComing
  <2> QED BY <2>4, <2>5, <2>7
<1>3. CASE NoPresence \/ Return \/ WatchdogReset \/ PresenceMissed
  BY <1>3 DEF NoPresence, Return, WatchdogReset, PresenceMissed
<1>4. CASE ReadBits
  <2>1. pc = "bit" /\ changes = 0 /\ Handle(Sent)
    BY <1>4 DEF ReadBits, Handle
  <2>2. OpenForks /\ Following /\ ListedOrComing /\ ~misread
    BY <2>1 DEF CalmInv, IInv, Control
  <2>3. ~Nobody(Sent)
    BY <2>1, <2>2 DEF Nobody, Sent, Following
  <2>4. Agreed(Sent) \/ NewConflict(Sent) \/ OldConflict(Sent) \/ LastConflict(Sent)
    BY <2>1, <2>3 DEF Handle
  <2> QED BY <1>4, <2>2, <2>4, CalmAgreed, CalmNew, CalmOld, CalmLast
<1>5. CASE EndPass
  <2>1. /\ pc = "bit" /\ pc' = "while" /\ n = IdBits + 1 /\ changes = 0
        /\ UNCHANGED <<bus, id, BUFFER, l>>
    BY <1>5 DEF EndPass, locals
  <2>2. OpenForks /\ Following /\ ListedOrComing
    BY <2>1 DEF CalmInv
  <2>3. Open' = Open
    BY <2>1 DEF Open
  <2>4. OpenForks' /\ Following'
    BY <2>1, <2>2, <2>3 DEF OpenForks, Agrees, Behind, Following
  <2>5. /\ heard = {s} /\ n > Top /\ \A b \in Open : ~Behind(s, b)
        /\ Promise!Listed' = Promise!Listed \cup {s}
    BY <1>5, <2>1, <2>2, PassEnds, ListedAppend
  <2>6. ASSUME NEW d \in bus PROVE d \notin Promise!Listed' <=> Coming(d)'
    <3>1. Coming(d)' <=> \E b \in Open : Behind(d, b)
      BY <2>1, <2>3 DEF Coming, Behind, Agrees
    <3>2. Coming(d) <=> (\E b \in Open : Behind(d, b)) \/ d = s
      BY <2>1, <2>5 DEF Coming
    <3> QED BY <3>1, <3>2, <2>2, <2>5 DEF ListedOrComing
  <2>7. ListedOrComing'
    BY <2>1, <2>6 DEF ListedOrComing
  <2> QED BY <2>4, <2>7
<1>6. CASE Again
  <2>1. /\ pc = "while" /\ pc' = "reset" /\ changes = 0 /\ romID # <<>>
        /\ UNCHANGED <<bus, id, BUFFER, l, romID>>
    BY <1>6 DEF Again, locals, IInv, Control
  <2>2. Open' = Open /\ Promise!Listed' = Promise!Listed
    BY <2>1 DEF Open, Promise!Listed
  <2>3. OpenForks /\ ListedOrComing
    BY <2>1 DEF CalmInv
  <2> QED BY <2>1, <2>2, <2>3
      DEF OpenForks, Agrees, Behind, Following, ListedOrComing, Coming
<1>7. CASE Environment
  BY <1>0, <1>7 DEF Environment, Unplug, Plug, Misread, PresenceMissed, Disturb
<1>8. CASE UNCHANGED vars
  <2>1. CalmInv'
    BY <1>8 DEF vars, CalmInv, OpenForks, Agrees, Behind, Open, Following, ListedOrComing,
                Coming, Top, Promise!Listed
  <2> QED BY <2>1 DEF CalmInv
<1> QED BY <1>1, <1>2, <1>3, <1>4, <1>5, <1>6, <1>7, <1>8 DEF Next, Search_ROM

------------------------------------------------------------------------------
(* The search implements the Enumerator. *)

LEMMA CalmInit == Init => CalmInv
BY DEF Init, CalmInv

LEMMA PromiseInit == Init => Promise!EInit
<1> SUFFICES ASSUME Init PROVE Promise!EInit
  OBVIOUS
<1>1. bus \in SUBSET Ids
  BY SearchAssumption DEF Init
<1>2. (changes = 0) = TRUE /\ (pc # "idle") = FALSE
  BY DEF Init
<1> QED BY <1>1, <1>2 DEF Init, Promise!EInit

\* The id that ends a pass is the first of those that are left.
LEMMA FirstFound ==
  ASSUME IInv, CalmInv, EndPass, changes = 0
  PROVE  /\ s \in Promise!Unfound
         /\ \A e \in Promise!Unfound \ {s} : <<s, e>> \in Before
<1>1. pc = "bit" /\ n = IdBits + 1
  BY DEF EndPass
<1>2. OpenForks /\ Following /\ ListedOrComing
  BY <1>1 DEF CalmInv
<1>3. heard = {s} /\ s \in bus /\ n > Top
  BY <1>1, <1>2, PassEnds
<1>4. s \in Promise!Unfound
  BY <1>1, <1>2, <1>3 DEF ListedOrComing, Coming, Promise!Unfound
<1>5. ASSUME NEW e \in Promise!Unfound \ {s} PROVE <<s, e>> \in Before
  <2>1. e \in bus /\ Coming(e) /\ e \notin heard
    BY <1>2, <1>3, <1>5 DEF ListedOrComing, Promise!Unfound
  <2>2. PICK b \in Open : Behind(e, b)
    BY <1>1, <2>1 DEF Coming
  <2>3. b \in Bits /\ id[b] = 0
    BY <1>2, OpenFacts DEF OpenForks
  <2>4. \A c \in Bits : id[c] = s[c]
    BY <1>1, <1>2, SearchAssumption DEF Following, Bits
  <2>5. \A c \in 1..(b - 1) : c \in Bits
    BY <2>3, SearchAssumption DEF Bits
  <2>6. s[b] = 0 /\ e[b] = 1 /\ \A c \in 1..(b - 1) : s[c] = e[c]
    BY <2>2, <2>3, <2>4, <2>5 DEF Behind, Agrees
  <2>7. s \in Ids /\ e \in Ids
    BY <1>3, <2>1, IdBit, <2>3
  <2> QED BY <2>3, <2>6, <2>7 DEF Before
<1> QED BY <1>4, <1>5

\* With no open branch after a pass, everything on the bus is listed.
LEMMA NoneLeft ==
  ASSUME IInv, CalmInv, pc = "while", Top = 0, changes = 0
  PROVE  Promise!Unfound = {}
<1>1. Open = {} /\ ListedOrComing
  BY OpenFacts DEF CalmInv
<1> QED BY <1>1 DEF ListedOrComing, Coming, Promise!Unfound

\* With an open branch before a pass, something is not.
LEMMA SomeLeft ==
  ASSUME IInv, CalmInv, pc = "reset", romID # <<>>, changes = 0
  PROVE  Promise!Unfound # {}
<1>1. OpenForks /\ ListedOrComing /\ Top \in Open
  BY OpenFacts DEF CalmInv, IInv, Control
<1>2. PICK d \in bus : Behind(d, Top)
  BY <1>1 DEF OpenForks
<1> QED BY <1>1, <1>2 DEF ListedOrComing, Coming, Promise!Unfound

LEMMA PromiseStep ==
  IInv /\ CalmInv /\ [Next]_vars => [Promise!ENext]_Promise!evars
<1> SUFFICES ASSUME IInv, CalmInv, Next PROVE Promise!ENext \/ UNCHANGED Promise!evars
  <2>1. UNCHANGED vars => UNCHANGED Promise!evars
    BY DEF vars, Promise!evars
  <2> QED BY <2>1
<1>0. changes \in Nat /\ Len(romID) \in Nat /\ bus \in SUBSET Ids
  BY SearchAssumption DEF IInv, TypeOK
<1>1. CASE Call
  <2>1. (pc # "idle") = FALSE /\ (pc' # "idle") = TRUE /\ (changes' = 0) = TRUE
    BY <1>1 DEF Call
  <2>2. romID' = <<>> /\ bus' = bus
    BY <1>1 DEF Call
  <2>3. Promise!Start
    BY <2>1, <2>2 DEF Promise!Start
  <2> QED BY <2>3 DEF Promise!ENext
<1>2. CASE StartPass \/ ReadBits \/ Again
  BY <1>2 DEF StartPass, ReadBits, Handle, Again, Promise!evars
<1>3. CASE EndPass
  <2>1. s \in Ids /\ Len(romID) < MaxDevices
    BY <1>3 DEF EndPass, IInv, TypeOK, Control
  <2>2. /\ pc # "idle" /\ pc' # "idle" /\ romID' = Append(romID, s)
        /\ bus' = bus /\ changes' = changes
    BY <1>3 DEF EndPass
  <2>3. changes = 0 =>
          s \in Promise!Unfound /\ \A e \in Promise!Unfound \ {s} : <<s, e>> \in Before
    BY <1>3, FirstFound
  <2>4. Promise!Discover
    BY <2>1, <2>2, <2>3 DEF Promise!Discover
  <2> QED BY <2>4 DEF Promise!ENext
<1>4. CASE Return
  <2>1. /\ pc = "while" /\ pc' = "idle" /\ (Top = 0 \/ Len(romID) = MaxDevices)
        /\ bus' = bus /\ changes' = changes /\ romID' = romID
    BY <1>4 DEF Return
  <2>2. changes = 0 => Promise!Unfound = {} \/ Len(romID) = MaxDevices
    BY <2>1, NoneLeft
  <2>3. (pc' # "idle") = FALSE /\ (changes' = 0) = (changes = 0)
    BY <2>1
  <2>4. Promise!Finish
    BY <2>1, <2>2, <2>3 DEF Promise!Finish
  <2> QED BY <2>4 DEF Promise!ENext
<1>5. CASE NoPresence
  <2>1. /\ pc # "idle" /\ pc' = "idle" /\ bus = {} /\ romID' = <<>>
        /\ bus' = bus /\ changes' = changes
    BY <1>5 DEF NoPresence
  <2>2. (pc' # "idle") = FALSE /\ (changes' = 0) = (changes = 0)
    BY <2>1
  <2>3. Promise!Deserted
    BY <2>1, <2>2 DEF Promise!Deserted
  <2> QED BY <2>3 DEF Promise!ENext
<1>6. CASE PresenceMissed
  <2>1. /\ pc # "idle" /\ pc' = "idle" /\ romID' = <<>>
        /\ bus' = bus /\ changes' = changes + 1
    BY <1>6 DEF PresenceMissed, Disturb
  <2>2. (pc' # "idle") = FALSE /\ (changes' = 0) = FALSE
    BY <2>1, <1>0
  <2>3. Promise!Deserted
    BY <2>1, <2>2 DEF Promise!Deserted
  <2> QED BY <2>3 DEF Promise!ENext
<1>7. CASE WatchdogReset
  <2>1. /\ pc = "reset" /\ pc' = "idle" /\ romID' = <<>> /\ Len(romID) >= DogPasses
        /\ bus' = bus /\ changes' = changes
    BY <1>7 DEF WatchdogReset
  <2>2. romID # <<>>
    BY <2>1, SearchAssumption
  <2>3. changes = 0 => Promise!Unfound # {}
    BY <2>1, <2>2, SomeLeft
  <2>4. (pc' # "idle") = FALSE /\ (changes' = 0) = (changes = 0)
    BY <2>1
  <2>5. Promise!Restarted
    BY <2>1, <2>3, <2>4 DEF Promise!Restarted
  <2> QED BY <2>5 DEF Promise!ENext
<1>8. ASSUME NEW d \in Devices, Unplug(d) \/ Plug(d) PROVE Promise!ENext
  <2>1. bus' \in SUBSET Ids /\ pc' = pc /\ romID' = romID /\ changes' = changes + 1
    BY <1>0, <1>8, SearchAssumption DEF Unplug, Plug, Disturb
  <2>2. (changes' = 0) = FALSE
    BY <1>0, <2>1
  <2>3. Promise!Change
    BY <2>1, <2>2 DEF Promise!Change
  <2> QED BY <2>3 DEF Promise!ENext
<1>9. CASE Misread
  <2>1. bus' \in SUBSET Ids /\ pc' = pc /\ romID' = romID /\ changes' = changes + 1
    BY <1>0, <1>9 DEF Misread, Disturb, Handle
  <2>2. (changes' = 0) = FALSE
    BY <1>0, <2>1
  <2>3. Promise!Change
    BY <2>1, <2>2 DEF Promise!Change
  <2> QED BY <2>3 DEF Promise!ENext
<1> QED BY <1>1, <1>2, <1>3, <1>4, <1>5, <1>6, <1>7, <1>8, <1>9
    DEF Next, Search_ROM, Environment

\* Enumerates: for any length of an id, any devices and any disturbances, Search_ROM
\* lists the devices of an undisturbed bus once each, in order, and returns when
\* it has them all or the array is full.
THEOREM ListsDevices == Spec => Enumerates
<1>1. Init => IInv /\ CalmInv /\ Promise!EInit
  BY SearchInit, CalmInit, PromiseInit
<1>2. IInv /\ CalmInv /\ [Next]_vars =>
        IInv' /\ CalmInv' /\ [Promise!ENext]_Promise!evars
  BY SearchNext, CalmStep, PromiseStep
<1> QED BY <1>1, <1>2, PTL DEF Spec, Enumerates, Promise!ESpec
===============================================================================
