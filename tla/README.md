# A verification of the CH582 water sensor firmware

The firmware runs on a CH582 (RISC-V, one core, no operating system). It
measures a water level or detects water through MDC02 capacitance sensors on a
1-Wire bus and an ADC input, shows the result on an OLED, and answers Modbus RTU
requests on UART3. Its configuration lives in a key-value store in data flash.
One main loop (`src/src/Main.c:66-142`) does everything but three interrupt
handlers: SysTick (uptime), UART3 (received bytes) and TMR0 (silence on the
line). There are no threads and there is no locking.

Paths below are relative to `src/`, which is the repository's root: the
firmware's own code is in `src/src/`.

## Inventory

| Component | State | Operations | Talks to | Hard behaviour | What makes it correct |
|---|---|---|---|---|---|
| Flash key-value store, `storage.c` | pages in data flash; `st_ctx` in RAM: status, item count and bytes used of each page, active page, number of erased pages | `st_init`, `st_write_item`, `st_read_item` | EEPROM routines; called by the configuration | power loss between and inside flash operations, realignment while an update runs, counters that must agree with flash | a map: a write takes effect once, nothing stored is lost or goes back to an older content, every call returns |
| Modbus receiver, `modbus.c` | `mb_slave_ctx`: status, tick count, error flag, request buffer; `mb_timer_ref` | UART3 and TMR0 handlers; `modbus_frame_check` in the main loop | lightmodbus parses and builds answers | three activities share the buffer without a lock; stale timer interrupts; an `int8_t` reference count | frames delimited by silence, never mixed nor changed under the parser; the receiver always recovers; nothing said to frames for others |
| Register bank, `modbus/*.c` and lightmodbus' slave functions | register values, safe-access flag and time | read, write one, write several, mask write | callbacks of the sensor, the safe-access window | several registers checked, then written one by one; the window closing between them | a refused request changes nothing; write-protected registers only change in the window |
| Sensor application, `sensor.c`, `Main.c` | option control | save, reload, reset through a register | registers, configuration, receiver | RELOAD waits for the store inside a write; it can save a baud rate of zero | what is saved is what the registers hold, every request is answered |
| Configuration, `configtool.c` | cache of three items | `cfg_init`, `cfg_get_*`, `cfg_update_*` | the store | an update that fails after it was written | cache and store agree after a restart |
| 1-Wire search, `Search_ROM` of `onewire.c` | `BUFFER`, `l`, `id`: open branches and the path of the last pass; the array of ROM ids | reset, bits, a pass for each device | devices over two pins; called once a second | devices that come and go in the middle of a pass, misread bits, phantoms, the watchdog, arrays without bound checks | each device on an undisturbed bus is listed once; the search ends on any bus and heals |
| Measuring cycle, `dev_type_choose_function` of `onewire.c` | the array, the type of the row, settings and results inside each device, the discrete input and the input register | set up, convert, read, publish, for each row | devices, register tables | settings lost with the power of a device or spoilt by a garbled write; reads that fail and are used all the same; one type and one output for all rows | what an undisturbed row or cycle publishes is what the devices sense, whatever came before |
| Display, `display.c`, `oled.c` | ring of lines | print, scroll: without a caller | pins | | |
| ADC, uptime, identity, checksums, log | a filter, a 64-bit counter, tables | | | the 64-bit uptime is read in two halves | |
| StdPeriphDriver, RVMSIS, Startup, Ld, obj, lightmodbus' master, examples and tests | | | | vendored or generated | |

The reference for the behaviour of flash is the chip: a write clears bits and
never sets one, an erase sets the bits of a whole page. The hazards found in the
survey are in `PROJECT.json`, each at its line.

## Modules

| Module | What it is |
|---|---|
| `Storage` | `storage.c`, one flash operation per action, with resets, power losses, torn writes and erases, and decay |
| `KVStore` | what `st_write_item` and `st_read_item` promise: a map, with one instant at which a write takes effect |
| `MCStorage`, `MCSteady`, `Storage_*.cfg` | instances for TLC; `MCSteady` also evaluates `Roomy` for the sizes of the firmware |
| `StorageProofs` | theorems about the state of `Storage`: types, counters of pages, status |
| `StorageDataProofs` | theorems about the items it stores: erases, counts, copies, reads, the refinement of `KVStore`, and what room it takes |
| `Modbus` | the receiver of `modbus.c`, its two handlers, the main loop's frame check, the line and the master |
| `MCModbus`, `Modbus_*.cfg` | instances for TLC |
| `ModbusProofs` | theorems about `Modbus` |
| `Registers` | the holding registers of `modbus/regs.c` under lightmodbus' slave functions, the callback of `sensor.c`, the safe-access window and the uptime |
| `SafeAccess` | what the safe-access window promises |
| `Config` | `configtool.c` over `KVStore` |
| `Device` | `Registers` and `Config` together, as `sensor.c` and `Main.c` join them |
| `MCRegisters`, `MCDevice`, `Registers_*.cfg`, `Device_reload.cfg` | instances for TLC |
| `RegistersProofs`, `ConfigProofs`, `DeviceProofs` | theorems about them |
| `Search` | `Search_ROM`, a bit at a time, the devices that answer it and what disturbs them |
| `Enumerator` | what a search promises: on an undisturbed bus, each device once and in order |
| `Measure` | the measuring cycle over an `Enumerator`, a transaction at a time |
| `MCSearch`, `MCMeasure`, `Search_hotplug.cfg`, `Measure_cycle.cfg` | instances for TLC |
| `SearchProofs`, `MeasureProofs` | theorems about them |

`Device` uses the store through `KVStore`, which `Storage` implements without
faults as long as no mishap comes up (proved), and none does in a store that is `Roomy`
(proved; the firmware's is) when one key is updated. `Modbus` and `Registers` meet in the parse:
`Modbus` says when a request reaches lightmodbus and what is sent, `Registers`
what the request does. `Measure` uses the search through `Enumerator`, which `Search` is
proved to implement. The measuring cycle shares no state with the rest but the
discrete input and the input register it publishes.

A definition with a suffix, such as `PrevPage_Unwrapped` before `PrevPage`, is the
definition it precedes with a plausible bug in it. No specification uses it:
substituted for the original it breaks the property that `PROJECT.json` pairs it
with, which shows that the property says something about that code.

### Storage

`flash` is what survives a power loss: per page the status byte and the items,
each at its offset. An item is live, torn (its CRC fails), dead (index cleared),
or a hole (its header was written without the index, which is written last). `ctx` is
`st_ctx`. A C function is the sequence of its flash operations, so `pc` and
`frame` (its locals) say how far the running call is:

| Code | Actions |
|---|---|
| `st_init`, `st_page_init`, `st_page_scan` | `LoadErased`, `LoadUnknown`, `LoadInUse`, `ScanItem`, `ScanCorrupt`, `ScanAbort`, `ScanEnd` |
| `st_find_item`, `st_page_find_item` | `FindPage`, `FindPass`, `FindCorrupt`, `FindHit`, `FindKeep`, `FindPageEnd`, `FindNextPage` |
| `st_delete_item_with_loc` | `DelNothing`, `DelMismatch`, `DelMark`, `DelErase` |
| `st_get_available_page` | `UseCandidate`, `SealCandidate`, `NoCandidate`, `Recheck*`, `TakePage`, `TakeFails` |
| `st_realign`, `st_page_realign` | `RealignNone`, `RealignStart`, `RealignSkip`, `RealignCorrupt`, `RealignFull`, `RealignTake`, `RealignCopy`, `CopySeal`, `RealignFails`, `RealignEnd` |
| `st_write_item`, `st_page_write_item` | `AppendRefused`, `AppendItem`, `AppendSeal`, `WriteDeletesOld`, `WriteReturns` |
| `st_read_item` | `st_read_item`, `ReadReturns` |
| the chip and the power supply | `Reset`, `PowerLoss`, `TornWrite`, `TornErase`, `Decay` |

Contents are model values: what the properties tell apart is whether a content
is the expected one, whether its CRC matches, and whether the CRC is zero
(`ZeroCrc`), since the realignment takes a zero CRC for a deleted item. Writing
over bytes that are not erased (after a torn erase) leaves any of the items
`Overlay` lists. `expect` is a history variable: what a reader of each key may
be given, one content once a write returned 0, two while its fate is unknown.

`Updated` is the workload. The firmware updates the items of the configuration, but
most runs update one key and store the others once, because the defect
`storage_lostupdate` shows already spoils every stronger property when two items
are updated: `NoDuplicates` and `ReadsNeverStale` say so in their comments.

The constants of the code (4 pages of 256 bytes; items of 5, 12 and 52 bytes with their
headers, for the keys `MB_ADDR`, `MB_UART` and `OTA`, of which only `MB_UART` is ever updated, `sensor.c:29`)
are scaled down: what matters is how many items fit a page and whether they fit
exactly. `PageSize` 18 with items of 6 leaves two items and a rest smaller than a
header (`Fills`); 28 with items of 8, 5 and 7, the first updated, leaves pages that a last item seals (three of 8
and a rest of 3) and pages that it does not, so that in one run appends seal pages and full
pages are realigned, and has the room of `Roomy`, as the firmware has; 19 with items of 6 and 10 bytes meets the exact
fit that the `<` of the access bound refuses, the page whose last header cannot
be read (`ScanAbort`) and a realignment that fills the active page. The real
sizes reach the same cases: 51 items of 5 bytes fill the 255 bytes of a page.

### Modbus

Time passes in half characters (`HalfCharacter`), the period of TMR0, and the
interrupts raised in one are served before the next: the handlers take
microseconds and never wait. They do not preempt each other, so each is one
action. The main loop can be interrupted anywhere, so `modbus_slave_set_idle` is
one action for each of its four stores, in the order in which the compiled code
of `obj/` does them too, and the parse, the answer and the poll are one each
(the handlers only touch what these read while a frame is received, which is
what `ParsedUndisturbed` and `FramesNotMixed` check).

| Code | Actions |
|---|---|
| `TMR0_IRQHandler` | `CountTick`, `EndFrame` |
| `UART3_IRQHandler`, `slave_recv` | `StartFrame`, `StoreByte`, `LateByte`, `IgnoredByte`, with `Restart` for the timer |
| `modbus_frame_check` | `Poll`, `Parse`, `Send`, `ClearErr`, `ClearCnt`, `ClearLen`, `SetIdle` |
| time, the master | `HalfCharacter`, `NewFrame`, `NextByte` |

A byte is its frame and its place in it, which is what the properties are about;
a request parses when the buffer holds a whole frame, and fails its CRC
otherwise. `ref` is `mb_timer_ref`, an `int8_t` that leaks and wraps around:
`RefMax` is 1 instead of 127. The master keeps the silence of three and a half
characters between frames and any pause, short or long, inside one.

### Registers

`regs` is the four segments as one function of the address, its values sets of
bits (mask writes and `~value` are set operations). One iteration of the main
loop is `main` going through Expire, Serve, Write, Answer and Uptime:

| Code | Actions |
|---|---|
| `modbus_run` (time over) | `Expire`, with `Look` |
| lightmodbus, functions 3; 6 and 16; 22, with `modbus_reg_r_check`, `modbus_reg_w_check` | `ReadRegisters`; `WriteRegisters`; `MaskWriteRegister`; `NoRequest` when there is none |
| `modbus_reg_write`, `mb_reg_after_write`, one register at a time | `WritePlain`, `GrantAccess`, `EndAccess`, `Reload`, `SaveReturns`, `Reset`, `WriteEnds` |
| the answer is sent; `sensor_run` | `Transmit`; `ShowUptime` |
| `mb_init`, `modbus_init`; restarts | `Setup`; `PowerLoss` |
| `SysTick_Handler` | `SysTick_Handler`, between any two of these |

The uptime is 64 bits wide on a core of 32, so a read takes two loads. The tick
that carries into the high word can fall between them (`Tearable`), and the
value read is then a whole `Low` too large: `Expire` and `GrantAccess` have a
second disjunct for it. `Since` wraps around with the clock, as the subtraction
does. `age` is a history variable, the time since the key was last written, so
that `SafeAccess` can say what the window is without the clock.

### Config

`cache` is `cfg_cache`, `dict`, `call` and `ret` are the store as `KVStore` has
it, with writes that may also fail. `cfg_init` is `LoadDefaults`, then for each
item `LoadItem` followed by `LoadFound` or `LoadMissing` and `LoadStored`, then
`LoadEnds`; `cfg_update_mb_uart` is `UpdateSkipped`, or `UpdateStored` followed
by `UpdateDone` or `UpdateFailed`. `expect` is a history variable, the contents the next
boot may find for each item. `Unpowered` loses everything in RAM, wherever a call is.

### Device

`SaveConfig` is the write of RELOAD to the option register together with the
update it starts, with the rate the registers hold; `ConfigSaved` ends both.
`StartSlave` sets up the registers once the configuration is loaded. `Within`
is a step of the registers alone, `Configure` one of the configuration or the
store alone. `Blackout` and `ResetByRegister` restart both.

### Search

`bus` are the devices, `heard` those that still follow the pass. What
`onewire_read2bits` returns is the set of the bits the devices send, which the
wired AND of the bus makes it: two bits are a conflict, none is a bus where
nobody answers.

| Code | Actions |
|---|---|
| `Search_ROM`: its start; presence, or none | `Call`; `StartPass`, `NoPresence` |
| the bit loop | `ReadBits`: `Agreed`, `NewConflict`, `OldConflict`, `LastConflict`, `Nobody` |
| the end of a row; `while(BUFFER[l] != 0 && num < 100)` | `EndPass`; `Again`, `Return` |
| the window watchdog | `WatchdogReset` |
| the bus | `Unplug`, `Plug`, `Misread`, `PresenceMissed` |

`id[]` is a local array that nothing initialises: an element no pass wrote is
`Unset`, and a pass that follows one may take either branch. When nobody
answers, the master writes nothing, and devices that did send a bit, if the
reading was wrong, take the next read for the answer they wait for: `Nobody`
lets any of them fall silent. A pass takes about 14 ms and nothing feeds the watchdog (559 ms, from
`CH583SFR.h`) during a search, so that a search of `DogPasses` passes or more may be cut off.

`Enumerator` says of the same: while the bus is calm (`changes = 0`) a pass
`Discover`s the first device in the order of the ids that is not listed yet and
the search ends when all are; otherwise it may list anything, in an array
that never overflows.

### Measure

A device is what the program set it up to be, `set[d]` a set of fields: the
sampling (`cfg`), the offset with its width (`cos`), the range (`cfb`), both
channels selected (`ch1ch2`), and the other parameters (`rest`), which every
set-up reads and writes back. `cap[d]` are its results. `Program` is the order of the
transactions on a row:

| Code | Actions |
|---|---|
| `Search_ROM`, through `Enumerator` | `Call`, `Discover`, `Finish`, `Deserted`, `Restarted` |
| `romid_crc` | `romid_crc` |
| `read_sampling_mode` | `setconfig` |
| `mdc02_range` | `writecosconfig`, `writecfbconfig` |
| `read_tempc1` | `setcapchannel1`, `convert_tempcap1` |
| `read_caps` | `setcapchannel12`, `convertcap`, `getcfg_capoffset`, `getcfg_caprange`, `readtempcap1`, `judge_status` |
| `read_temp` | `read_temp` |
| the bus | `Unplug`, `Plug`, `SearchMisread`, `PresenceMissed`, `Lost`, `Garbled`, `WaterMoves` |

`Handle` is one of these with `Advance`, the order of the rows and of their
transactions. A transaction takes place or not (`ok`): `send_matchrom`'s result is used
nowhere, so that a device that is missing or did not hear reads as ones, which
no CRC accepts. The functions that read, change and write back then return
without a write; `read_caps` goes on with what it has, uninitialised or old,
which is any result (`judged`). A write whose bits are garbled leaves any set of
`Garbles` right. A device that is unplugged forgets its settings. Numbers are
abstracted to what decides them: whether the electrode is in water (`wet` exceeds the
5 pF) and whether the conversion and the settings belong together (`odd` if not).

## Runs

| Run | Instance | What it shows |
|---|---|---|
| `storage_steady` | 3 keys of three sizes, 1 updated, 4 pages of 3 to 5 items, no fault | the store implements `KVStore`, an item has one copy, every moment is recoverable, no call fails, and none of the mishaps of `NoMishap` comes up |
| `storage_faults` | 2 keys, 1 updated, pages of 2 items, one fault of any kind at any point | counters cover flash, RAM and flash agree, a read never returns an old content, every call and boot ends |
| `storage_layout` | 2 keys of two sizes, both updated, 3 pages, one reset, a content with CRC zero | counts exact, no erase destroys a last copy |
| `storage_twoactive` | one reset | **violated**: two pages can be ACTIVE |
| `storage_lostupdate` | 2 updated keys, no fault | **violated**: an acknowledged write is lost |
| `storage_lostread` | one power loss | **violated**: a read deletes the last copy |
| `modbus_receiver` | 2 frames of every kind, of 1 or 4 bytes, a buffer of 3 | framing, timer, clean start, recovery, an undisturbed parser |
| `modbus_stale` | 2 frames of every kind | **violated**: after a damaged frame the previous answer is sent again |
| `registers_access` | 5 registers of all four segments and of 2 bits, requests for 1 or 2, window of 2, clock of 2 x 3 | requests are atomic, the window is kept (`SafeAccess`), shown and ends |
| `device_reload` | 4 registers of 1 bit, 2 items, writes that fail, resets and power losses | cache and store agree, a boot finds what was saved, requests end |
| `search_hotplug` | any bus of 6 ids of 3 bits, rows for 5, the watchdog after 4 passes, 2 disturbances a search | arrays hold, the open branches descend, `id[]` is written before it is followed, the search implements `Enumerator`, ends, and heals |
| `measure_cycle` | 2 water sensors and a thermometer, rows for 2, the watchdog after 2 passes, a disturbance a cycle, one sensor's water rising and falling | what an undisturbed row or cycle publishes is the truth; the settings are made before they are relied on |

Bounds. `MaxFaults` 1 puts one fault anywhere between or inside flash operations,
before and after page changes and realignments; the state space is otherwise unbounded
in time (pages are reused for ever), so that the fault strikes every
reachable layout. Four pages is the firmware's number and, with `ErasedLow` 2,
the smallest that has a page to realign beside an active and a new one; the
layout run also covers three. `MaxFrames` bounds the master only: two frames are
what it takes to mix, to leave a flag or a timer behind or to start in a buffer
not reset, and to leave a response behind. `BufSize` 3
is shorter than the longest frame.

The registers of the instance are one or two of each segment, with an address that
has none between the segments as in `regs.h`, so that a request for two
reaches every border. Two bits tell the key, RELOAD, zero and another value
apart. A window of 2 and iterations of at most 1 (`LoopMax`) make `Low` 3 and the
clock wrap at 6, so that the window lies across a carry and across the wrap;
`TimeAssumption` says what matters, that a window and an iteration are shorter
than the low word's 49 days. `LoopMax` is an assumption about the code, the
watchdog's, not a bound on the run. In `device_reload`, `FailModes` is `"before"`: a
write that fails has had no effect (see the observations below), one of the two
items is never updated, as in the firmware, and the uptime's registers are left
out, which no property there is about.

`search_hotplug` has ids of 3 bits, so that branches are open on three levels at
once, a device more than rows, and a watchdog that bites a search of the full
bus but not of a smaller one. `MaxChanges` bounds the disturbances of one search, not of
the run: every search starts from whatever the ones before left, which is how
phantoms and spoilt settings meet an undisturbed search or cycle. Two in a search
unplug a device and plug another one, or misread a bit for a device that leaves.
`Measure_cycle` has two devices of the kind whose alarm is shared, an order in which
the thermometer comes between them, so that types alternate, and fewer rows
than devices. One disturbance a cycle suffices to spoil a setting, to leave a
phantom (any listed id whose device is gone), and to fail any read; `Garbles`
is the worst case, a write of which nothing is right.

Deadlock is not checked in the Modbus runs, since the line may go quiet for
ever. It is checked in the store's: a call can always be made.

### Fairness

`Storage`: weak fairness of the code's own steps (`Step`), not of the calls made of
it nor of faults: the main loop runs what it has begun.
`Modbus`: weak fairness of the two handlers, the main loop and the passing of
time: interrupts are enabled outside the library's allocator, nothing in the
main loop blocks, and the timer is hardware. The master is not fair: it may stop
in the middle of a frame, and `ReceiverRecovers` holds all the same.
`Registers`, `Device`: weak fairness of the main loop's own steps taken together, and
in `Device` of the store's: what `storage_faults` shows, that every call
returns (`CallsReturn`), is what `RequestEnds` needs. SysTick is not fair, and
no request need ever come.
`Search`: weak fairness of the search's own steps and of its next call, since the
main loop calls it every second. Nothing on the bus is fair, and `Heals` assumes
that disturbances stop. `Measure` states safety only: its loop runs over a list of bounded
length, a fixed number of transactions for each row, and that the search ends is
`SearchEnds`.

### What the violated runs mean

* `storage_twoactive`. After `st_page_scan`, `st_page_init` (`storage.c:768` and
  above) makes every ACTIVE or FULL page it loads the active page, so that the
  last one wins. If it is a FULL one, the next write takes a new page although
  one is ACTIVE already, against `storage.h:34`.
* `storage_lostupdate`. `st_write_item` looks for the old copy, then finds room,
  which can realign the page the old copy is on, then deletes the place the
  old copy was at. The moved copy stays, and the next read, which deletes all
  copies once it has seen two (`storage.c:591`), loses the item.
* `storage_lostread`. The same deletion after a power loss between the append
  and the deletion of an update.
* `modbus_stale`. `modbus_frame_check` refrains from answering only for an address
  error; after a CRC error the response buffer still holds the last answer.

Observed while modelling, without a run of their own: an item that would fill a
page exactly is refused by the access bound (`storage.c:62`); a scan that gives
up leaves the pages after it unloaded (`storage.c:768`); the erase of a page found not
blank at boot returns at once because RAM already calls it erased
(`storage.c:706`); an item whose CRC is zero is dropped by a realignment
(`storage.c:337`); a realignment that fills the active page leaves none, and the
write fails (`storage.c:855`); a byte that comes while the main loop still owns
the last frame is dropped, and what follows it is taken for a frame of its own
and fails its CRC; RELOAD is answered as a success although the save failed
(`sensor.c:29`); the baud-rate registers start at zero and are not loaded from the
configuration, so RELOAD before they are written saves a rate of zero, by which
the next boot divides (`modbus.c:20`); the address register is never
used; a torn uptime read when the key is written, or when the time is checked,
only ever closes the window early; the uptime shown is divided by a thousand
twice (`sensor.c:115`, `119`); with `FailModes` including `"after"`, a write
that fails although the new item is in flash (`storage.c:933`),
`BootFindsSaved` does not hold: the cache keeps the old content, an update back to it
is skipped and reported as done, and the next boot loads the new one;
`mb_reg_before_write` (`sensor.c:34`), which refuses values of the control register that are
neither the key nor zero, is never registered (`sensor.c:87`), so that a wrong key is stored and answered as
a success, without granting access or ending it (`ControlShowsAccess`).

Of the 1-Wire bus: `readcapc2c3c4` does not compare the CRC of the second electrode's
result, the comparison is commented out below a comment that announces it
(`onewire.c:888-892`), so that a disturbed reading, of ones for instance, raises the alarm of a
sensor half in water; the discrete input is one for all sensors, each overwrites it, and
it stays when none is left (`onewire.c:1474`); `read_temp` asks for the result 15 us after
it starts the conversion, and publishes the temperature of the cycle before
(`onewire.c:1403`); `read_sampling_mode` masks a value that is shifted already, so that
the rate asked for is never set (`onewire.c:1611`); a phantom of zeros passes the
CRC of an id and is read as a thermometer, one whose last two bytes are zero is
handled as an MDC02 (`onewire.c:1378-1385`); an MDC02 whose seven bytes of id have the CRC zero
would be taken for a thermometer; a bit of 0 that is still low 4 us after it was sampled is
returned as -1 and counts as a 1 (`onewire.c:205-210`); a bus of some forty devices outlasts
the watchdog in the search (`onewire.c:1199`); `OldConflict` may read an `id[]` that was
never written, but only after a misread bit (`PathKnown`).
In `adc.c`: the filter reads the element before its first one, and a negative
level is converted to an unsigned integer.

## Proofs

TLC checks the instances above, the proof modules prove for every
value of the constants that satisfies the named assumptions of the modules
(`PagesAssumption`, `KeysAssumption`, `SetsAssumption`, `FaultsAssumption`;
`FramesAssumption`; `SegmentsAssumption`, `ApartAssumption`, `TimeAssumption`;
`ItemsAssumption`; `BaudrateAssumption`; `SearchAssumption`; `MeasureAssumption`). Each module proves that its `IInv` is inductive, one lemma
per group of actions, and its theorems follow.

* `Storage`: `TypeCorrect`, `ErasedPagesCounted` (`page_erased` is the number of erased
  pages in every intermediate state) and `StatusAgrees` (RAM and flash agree on
  the status of every loaded page), for any number of pages, page size, items and
  faults. None is inductive alone. An erase counts a page as erased, so
  it must not have been: a page about to be erased is FULL (`DeleteControl`,
  `RealignControl`), which holds because nothing between the choice of the page
  and its erase changes its status, which in turn needs the page that a realignment
  opens to be another one than its victim. At boot a page is counted once because
  the pages not reached yet are still UNAVAILABLE (`BootControl`). Types need the
  items to lie within their page (`CellsFit`, `UsedFits`).
* `Modbus`: `TypeCorrect` (no byte is stored beyond the buffer), `NeverDeaf`,
  `StartsClean`, `ParserUndisturbed`. The heart is `MainOwns`: while the main loop
  is between the parse and the last store of `modbus_slave_set_idle` the status is
  RECV_FINISH, in which neither handler touches the buffer; so the buffer is
  empty when the receiver becomes idle (`EmptyBefore`), the first byte of a frame is the one
  that starts the timer, and the timer runs whatever `mb_timer_ref` is.
  `Frames`, `SilenceEnds` and `DropsWhole` need to know what the buffer holds, which is
  `Framing`. `Clocked` compares the ticks counted, the pending one included, with
  the silence on the line: while the status is RECV they are at least the silence, so
  the silence is shorter than `FrameGap` and a master that keeps to the gap cannot begin
  another frame; in RECV and RECV_WAIT they are at most one more than it, so a frame
  taken for ended has had a silence of all the ticks but one. `UpToDate` says that a buffer with room
  ends with the last byte on the line, or the one before the byte that waits in the UART;
  `OneFrame` that its bytes follow each other in one frame.
* `Registers`: `TypeCorrect`, `ControlIsTrue`, `Atomicity`, and `WindowKept`, the
  refinement of `SafeAccess`. `GrantTimed` says where the clock stands while access
  is granted: the time since `lasttime_sa` is the age of the grant, or that less
  one unit of the high word, modulo the clock, if it was read torn; so the check sees a
  time that is never less than the age. `StillWritable` carries the check of a
  request to the last of its writes: only a write of the control register ends access
  on the way, and no request reaches it and a protected register
  (`ApartAssumption`). `PartlyWritten` is atomicity half way.
* `Config`: `ConfigTyped`, `CacheAgrees`, `BootsSaved`, when a write that fails had no
  effect. `CallMatches` ties the running call to what the configuration waits
  for, `LoadedSoFar` and `SavedSoFar` say what cache and store have in common
  half way, `Expected` that what a boot would make of the store is expected at
  every moment, which is when power may fail.
* `Device`: `DeviceConfigures` and `RegistersStep` show that the sensor's steps are
  steps of the two, so `DeviceAtomicity`, `DeviceCacheAgrees` and
  `DeviceBootsSaved` follow. The rate saved is a content the configuration can
  hold, which needs the registers' types.
* `Search`: `TypeCorrect`, `BranchesOrdered`, `PathWritten`, and `ListsDevices`, the refinement of
  `Enumerator`. The open branches are positions that strictly descend the tree, so
  that the one at place i is at least i (`Deep`) and there are no more of them than bits: that is
  all that bounds `l`, and with `IdBits <= MaxDevices - 2` it keeps `BUFFER` from
  overflowing, whatever the bus does. On a calm bus (`CalmInv`) the devices not listed
  yet are exactly those that a pass has still to reach (`Coming`): those behind an open
  branch of the path in `id[]`, and, during a pass, those that follow it or
  will. Reading a bit keeps that set (`CalmAgreed`, `CalmNew`, `CalmOld`, `CalmLast`), the end of a pass takes one
  device from it (`PassEnds`), and no branch open means it is empty (`NoneLeft`).
* `Measure`: `TypeCorrect`, `SetUpDone`, `AlarmHolds`, `TemperatureHolds`, `VerdictHolds`, from
  `Inductive`. `SetUpSoFar` says which fields of the row's device are set at each
  step of the row, `ReadSoFar` which readings belong to the water as it is: together they make the
  verdict of a quiet row true (`Verdict`). `AlarmSoFar` and `TemperatureSoFar` say the same of the rows handled so far;
  that no later row undoes a setting or overwrites the alarm of a later sensor needs the rows to
  be distinct devices in order (`CalmList`), which the order of `Enumerator` gives.

### What the store does with the items

`StorageDataProofs` goes beyond the counters, to the content of flash. Its theorems
come in four levels, each with the faults it allows.

1. *Layout and counts*, for resets, power losses between flash operations and decay
   (`CalmFaults`): `StoreInvariance`, and from it `ErasesKeepData` and `CountsCoverItems`;
   `CountsAreExact` without decay. `PageOK` says that the items of a page follow each
   other without gap or overlap up to `used`, and that `cnt` is the number of those
   that are not deleted (or more, when items decay). So the walks, which
   go by the lengths in flash, meet every item, and an erase at `cnt` 0 finds no
   item. `Rescued` is what makes the erase at the end of a realignment safe: every
   item behind the place it has reached has a copy on another page, or has CRC zero.
2. *Copies*, for resets between calls (`OnlyResets`), in behaviours without mishap:
   `CopiesInvariance`, and from it `NoItemTwice`, `ItemsStay`, `ReadsAreTrue`
   (`ReadsReturnWritten` and `ReadsNeverStale`) and `ReadsDeleteNothing`. A copy is stale when
   the running realignment has moved it or the running write has replaced it
   (`Stale`); `Unique` says that every key has at most one copy that is not, `Backed`
   that a stale one never stands alone, `Contents` that the current one holds
   what is expected. `CallInv` ties the running call to that: `SearchSoFar` says that
   the pages a search has passed hold no copy but the one it has found, and
   `OldThere` that the location a write keeps from its search still holds the old copy when
   it is deleted.
3. *Refinement*, without faults and as long as calls succeed: `StoreImplementsKV`. The
   map's content of a key is that of its current copy, so that a write takes effect
   in the one step that puts the new item into flash (`WriteCopies`), and
   sealing, realigning and deleting leave the map as it is (`SameValues`).

4. *Room*, without faults, from the blank flash on: `RoomInvariance`, and from it
   `RoomyNoMishap`, `RoomyCallsSucceed`, `RoomyStoreIsAMap` and `RoomyStoreIsSound`.

The condition of levels 2 and 3, `[]NoMishap`, names four things the store does not
survive: a call realigns the page on which it found the old copy (`MovesOldCopy`, what
`storage_lostupdate` shows), a realignment finds no page to go on
(`Stuck`), it drops an item whose CRC is zero (`DropsItem`), or the boot stops at
a full page (`BootIncomplete`). Those theorems say that nothing else goes wrong: as long as none
of the four comes up, the copies are right, whatever the workload. For some workloads and
sizes they do come up. Level 4 says for which they do not.

`Roomy(load, fill)` asks that one item at most is updated and the others are written once, that there
are more pages than keys, and two things of the sizes, for which `load` and `fill`
name what pages may come to hold:

* all items together fit a page and leave a header's length free (`LoadFits`). So what is
  alive always fits the page a realignment opens;
* however often the updated item is repeated among others on a page, the page is never filled
  to its last byte, where the capacity test and the access bound disagree, and a page
  that holds another item too is never left with a rest shorter than a header (`FillFits`):
  such a page would be sealed by the write of an item that a realignment moves, and
  leave none active.

Without faults, and when no content has the CRC zero, that is enough. `MCSteady` evaluates `Roomy` for
the sizes of the firmware (`FirmwareIsRoomy`) and of `storage_steady` (`SmallIsRoomy`), so
the theorems speak of the device as it is configured: the store is a map, no call
fails, however often RELOAD is used. That is a property of these sizes and not of the code; items of 6 (updated), 6
and 8 bytes on pages of 24 are not `Roomy`, since 6, 6 and 8 leave a rest of 3, and another key that is
updated, as the callers that `configtool.c` offers for the address would, leaves `Roomy` as well.

The invariant is `RoomInv`. `Levels` and `Loads` put what lies on each page among the
fills and loads: a page on which nothing has been deleted, and which holds no copy that is being
replaced, holds every key at most once. `UpdatedHere` is why that matters: the ACTIVE page has a deleted item
only if the updated item is on it too, so while the updated item is on another page, what is on the ACTIVE
page is one of the loads, and the new copy fits it (`ActiveClean`). A write that has to realign
has its old copy on the ACTIVE page, or none, but never on the FULL page that is realigned
(`VictimOther`), which excludes `MovesOldCopy`. `Tenanted` says that a page in use has a live item but in the moments before its erase and
its first item, so that with more pages than keys one page is erased whenever a page is looked for
(`SparePage`), which excludes `Stuck` and failing calls. `OneActive` ties `page_active` to flash, which only
a restart unties (`storage_twoactive`); `BootBlank` says that the one boot is the first. `NewThere`,
`Writing` and `Known` follow the running write.

Restarts are left out of level 4 because they break it: 21 items of 12 bytes, or three of 8 in
the instance of `storage_steady`, leave a rest of 3, the boot scan of such a page gives up, and the
pages behind it stay unloaded (`BootIncomplete`; TLC finds that within seconds when the
instance is given one reset).

What the attempts at a proof showed, with TLC's counterexamples:

* `CountsCover` does not hold in general when a write is torn: the realignment decrements the
  counter for a header without content which the boot scan had not counted
  (`storage.c:347-356`); if it then gives up, the page counts fewer items than it holds
  (3 keys updated, pages of 18 bytes). It holds in `storage_faults`, and is proved when
  no write or erase is torn.
* With two power losses `AlwaysRecoverable` fails although no mishap comes up: the
  read after the first one deletes both copies (`storage_lostread`). The theorems about copies
  hence allow no power loss in a call; that every intermediate state still keeps
  a copy of each item (`ItemsStay`) is what the first loss would find.
* The map cannot be what a search that starts now would find: an append that fills its
  page seals it, no page is active until the deletion, and a search would
  start from page 0 and meet the old copy first. Nobody searches at that
  moment; the mapping goes by the current copy instead.

Only model-checked: liveness (`CallsReturn`, `ReceiverRecovers`, `WindowEnds`,
`RequestEnds`, `SearchEnds`, `Heals`), which these provers cannot do;
`ReadsNeverStale` and `CountsCover` under the faults their
theorems leave out.

## Not modelled

In `storage.c`: the functions nobody calls (`st_page_delete_item`, `st_erase_all`,
`st_delete_item`), read errors that the callers' bounds exclude, error returns of
the EEPROM routines, the tearing of a status byte and of the erases done at boot. In
`modbus.c`: the library's allocator, transmission. Of the registers: coils, which
nothing uses, and the reads of the discrete input and the input register; requests refused
for their length or count, before a register is looked at. Of the configuration:
reads that fail, and the updates of the address and the OTA item, which nobody
calls. In `onewire.c`: delays and pin levels, the arithmetic that makes numbers of
results, reads whose result is only printed, and the functions nobody calls, a second
search (`onewire_search`) among them.

The display: the program only initialises it, and nothing that prints or scrolls
has a caller. The ADC: an average of samples, without control. Identity,
checksums and logging: constants, tables, formatting. What is left of the
repository, three quarters of its lines, is the manufacturer's peripheral
library, of which the firmware uses a few register accesses, the parts of lightmodbus
it does not call, start-up code, fonts and generated files: the map cannot reach most of the
repository's lines, and modelling drivers that nothing runs would say nothing of this program.

## Plan

1. `Config` over `Storage` itself instead of `KVStore`: whether a write can fail after
   it took effect, and what the copies `storage_lostupdate` leaves do to a boot.
2. Room after restarts: which sizes leave no page with a rest too short to scan, and whether
   `NoMishap` then holds when power fails between calls; and what is left of
   `ReadsNeverStale` after a single fault.
