------------------------------ MODULE Enumerator ------------------------------
(***************************************************************************)
(* What Search_ROM (onewire.c) promises its callers: the ids of the        *)
(* devices on the 1-Wire bus, each of them once and in the order Before,   *)
(* unless the bus was disturbed since the search began.  Then the list may *)
(* hold anything, but it keeps within the array, the search still ends, and *)
(* the next one starts afresh.                                             *)
(***************************************************************************)
EXTENDS Integers, Sequences

CONSTANTS
  Ids,         \* the ROM ids there are
  Before,      \* a set of pairs of ids, the order in which they are found
  MaxDevices,  \* rows of the array of ids
  DogPasses    \* ids that can be read before the watchdog bites

VARIABLES
  bus,    \* ids of the devices on the bus
  calm,   \* nothing has disturbed the bus since the search began
  found,  \* the ids recorded by the search, the result once it is over
  on      \* a search is running

evars == <<bus, calm, found, on>>

Listed == {found[i] : i \in 1..Len(found)}
Unfound == bus \ Listed

EInit ==
  /\ bus \in SUBSET Ids
  /\ calm = TRUE
  /\ found = <<>>
  /\ on = FALSE

Start ==
  /\ ~on
  /\ on' = TRUE
  /\ calm' = TRUE
  /\ found' = <<>>
  /\ UNCHANGED bus

\* The next id is the first of those on the bus that are not listed yet.
Discover ==
  /\ on
  /\ Len(found) < MaxDevices
  /\ \E d \in Ids :
       /\ calm => d \in Unfound /\ \A e \in Unfound \ {d} : <<d, e>> \in Before
       /\ found' = Append(found, d)
  /\ UNCHANGED <<bus, calm, on>>

\* The search is over when every device is listed, or the array is full.
Finish ==
  /\ on
  /\ calm => Unfound = {} \/ Len(found) = MaxDevices
  /\ on' = FALSE
  /\ UNCHANGED <<bus, calm, found>>

\* No device answered: the search returns zero.
Deserted ==
  /\ on
  /\ calm' \in {calm, FALSE}
  /\ calm' => bus = {}
  /\ on' = FALSE
  /\ found' = <<>>
  /\ UNCHANGED bus

\* The watchdog bites when there is more to read than it waits for.
Restarted ==
  /\ on
  /\ Len(found) >= DogPasses
  /\ calm => Unfound # {}
  /\ on' = FALSE
  /\ found' = <<>>
  /\ UNCHANGED <<bus, calm>>

\* Devices come and go, or a bit is read wrongly.
Change ==
  /\ bus' \in SUBSET Ids
  /\ calm' = FALSE
  /\ UNCHANGED <<found, on>>

ENext ==
  Start \/ Discover \/ Finish \/ Deserted \/ Restarted \/ Change

ESpec == EInit /\ [][ENext]_evars
===============================================================================
