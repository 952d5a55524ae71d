------------------------------- MODULE Storage -------------------------------
(***************************************************************************)
(* The flash key-value store of src/src/storage.c.                         *)
(*                                                                         *)
(* PageMax flash pages hold a status byte followed by items written one    *)
(* after the other.  An update appends the new copy of an item and then    *)
(* marks the old copy deleted by clearing its index; a page whose items    *)
(* are all deleted is erased, and a page can be realigned: its live items  *)
(* are moved to the active page and the page is erased.                    *)
(*                                                                         *)
(* Every action performs at most one flash operation (a status byte, an    *)
(* item, an item header or a page erase), so that a power loss can fall    *)
(* between any two of them.  Actions are the successive parts of the C     *)
(* functions they are named after; pc names the part the running call has  *)
(* reached and frame holds its local variables.                            *)
(*                                                                         *)
(* A definition whose name has a suffix, as in PrevPage_Unwrapped, is the   *)
(* definition that follows it with a bug in it, and is used nowhere: it    *)
(* shows that the properties would notice (README.md).                     *)
(***************************************************************************)
EXTENDS Integers, FiniteSets

CONSTANTS
  Keys,       \* item indices in use (ST_ITEM_IDX_VALID)
  Vals,       \* abstract item contents
  NoKey,      \* the index of a deleted item (0) or of one never written (0xFFFF)
  NoVal,      \* no content
  PageMax,    \* ST_PAGE_MAX
  PageSize,   \* ST_PAGE_SIZE
  KeyLen,     \* content length of each key
  ZeroCrc,    \* the contents whose CRC-8 is zero
  Updated,    \* the keys written again after they have been stored once
  Faults,     \* the faults of the environment: see FaultKinds
  MaxFaults   \* bound on the number of faults

FaultKinds == {"reset",      \* restart while no call is running
               "power",      \* power loss between two flash operations
               "tornwrite",  \* power loss while an item is being written
               "tornerase",  \* power loss while a page is being erased
               "decay"}      \* a stored item no longer matches its CRC

PageHeaderSize == 1
ItemHeaderSize == 4
MaxContentLen == PageSize - 8
ErasedLow == 2

ASSUME PagesAssumption == PageMax \in Nat \ {0} /\ PageSize \in Nat
ASSUME KeysAssumption ==
  /\ NoKey \notin Keys /\ NoVal \notin Vals
  /\ KeyLen \in [Keys -> Nat \ {0}]
  /\ \A k \in Keys : KeyLen[k] + ItemHeaderSize <= MaxContentLen
ASSUME SetsAssumption == ZeroCrc \subseteq Vals /\ Updated \subseteq Keys
(* Items written over the remains of a torn erase are taken to lie on the  *)
(* old ones, which holds when they all have the same size.                 *)
ASSUME FaultsAssumption ==
  /\ Faults \subseteq FaultKinds /\ MaxFaults \in Nat
  /\ "tornerase" \in Faults => \A j, k \in Keys : KeyLen[j] = KeyLen[k]

VARIABLES
  flash,   \* the pages as they are in the EEPROM: survives a power loss
  ctx,     \* st_ctx: the view of the pages kept in RAM
  pc,      \* the part of the running call that comes next
  frame,   \* the local variables of the running call
  call,    \* the running call of the interface, or NoCall
  ret,     \* what the last call returned
  expect,  \* history: per key, the contents a reader may be given
  faults   \* the number of faults so far

vars == <<flash, ctx, pc, frame, call, ret, expect, faults>>

------------------------------------------------------------------------------
(* Data. *)

Pages == 0..(PageMax - 1)
NoPage == PageMax
Offsets == 0..(PageSize - 1)

Size(k) == ItemHeaderSize + KeyLen[k]

(* An item in flash: live, with content that fails its CRC (torn), marked *)
(* deleted (dead), or one whose index was never written (hole).           *)
CellKinds == {"blank", "live", "torn", "dead", "hole"}
Cell == [kind : CellKinds, key : Keys \cup {NoKey}, val : Vals \cup {NoVal},
         size : Nat]
Blank == [kind |-> "blank", key |-> NoKey, val |-> NoVal, size |-> 0]
LiveCell(k, v) == [kind |-> "live", key |-> k, val |-> v, size |-> Size(k)]
TornCell(k) == [kind |-> "torn", key |-> k, val |-> NoVal, size |-> Size(k)]
HoleCell(k) == [kind |-> "hole", key |-> NoKey, val |-> NoVal, size |-> Size(k)]
DeadCell(n) == [kind |-> "dead", key |-> NoKey, val |-> NoVal, size |-> n]

(* UNKNOWN stands for every status byte the code has no case for. *)
FlashStatus == {"ERASED", "ACTIVE", "FULL", "UNKNOWN"}
RamStatus == {"UNAVAILABLE", "ERASED", "ACTIVE", "FULL"}
FlashPage == [status : FlashStatus, cell : [Offsets -> Cell]]
RamPage == [status : RamStatus, cnt : Nat, used : Nat]
BlankPage == [status |-> "ERASED", cell |-> [o \in Offsets |-> Blank]]
FreshPage(st) == [status |-> st, cnt |-> 0, used |-> 0]

Ctx == [active : Pages \cup {NoPage}, erased : Nat, page : [Pages -> RamPage]]
BootCtx == [active |-> NoPage, erased |-> 0,
            page |-> [p \in Pages |-> FreshPage("UNAVAILABLE")]]

Location == [page : Pages \cup {NoPage}, off : Nat]
NoLoc == [page |-> NoPage, off |-> 0]
Frame == [pg : Pages, off : Nat, start : Pages, cnt : Nat, hits : Nat,
          last : Location, loc : Location, del : Location,
          val : Vals \cup {NoVal}, victim : Pages,
          back : {"Idle", "Hit", "Next", "Done"}]
NoFrame == [pg |-> 0, off |-> 0, start |-> 0, cnt |-> 0, hits |-> 0,
            last |-> NoLoc, loc |-> NoLoc, del |-> NoLoc, val |-> NoVal,
            victim |-> 0, back |-> "Idle"]

Call == [op : {"none", "read", "write"}, key : Keys \cup {NoKey},
         val : Vals \cup {NoVal}]
NoCall == [op |-> "none", key |-> NoKey, val |-> NoVal]
Ret == [kind : {"none", "ok", "err", "value"}, key : Keys \cup {NoKey},
        val : Vals \cup {NoVal}]
NoRet == [kind |-> "none", key |-> NoKey, val |-> NoVal]

PCs == {"Boot", "Scan", "Idle", "Page", "Find", "Hit", "Next", "Found", "Del",
        "DelErase", "Recheck", "Realign", "RealignTake", "CopySeal", "Take",
        "Append", "AppendSeal", "Wrote", "Done"}

TypeOK ==
  /\ flash \in [Pages -> FlashPage]
  /\ ctx \in Ctx
  /\ pc \in PCs
  /\ frame \in Frame
  /\ call \in Call
  /\ ret \in Ret
  /\ expect \in [Keys -> SUBSET (Vals \cup {NoVal})]
  /\ faults \in 0..MaxFaults

------------------------------------------------------------------------------
(* Helpers. *)

Status(p) == ctx.page[p].status
Used(p) == ctx.page[p].used
InUse(p) == Status(p) \in {"ACTIVE", "FULL"}

(* st_page_get_freesize, against which the callers compare an unsigned     *)
(* length: the -1 of an invalid page is larger than every length.          *)
Free(p) == IF Status(p) = "ACTIVE" THEN PageSize - PageHeaderSize - Used(p) ELSE 0
HasRoom(p, n) == p = NoPage \/ (p \in Pages /\ Free(p) >= n)

(* The bound st_page_read and st_page_write put on an access. *)
Accessible(off, len) == off + len + PageHeaderSize < PageSize

Storable(p, n) == p \in Pages /\ Accessible(Used(p), n)

(* The ring of pages: st_page_next, st_page_last, and st_first_page, which *)
(* takes the first page of a status from a page on.                        *)
Ahead(from, p) == (p - from + PageMax) % PageMax
PrevPage_Unwrapped(p) == p - 1
PrevPage(p) == (p - 1 + PageMax) % PageMax
IsFirstPage(p, from, st) ==
  /\ Status(p) = st
  /\ \A q \in Pages : Status(q) = st => Ahead(from, p) <= Ahead(from, q)
NonePage(st) == \A p \in Pages : Status(p) # st

RingStart == IF ctx.active = NoPage THEN 0 ELSE ctx.active

(* st_page_status_update.  A write only clears bits: a page marked FULL in *)
(* flash stays so when it is marked ACTIVE again.                          *)
UpdateStatus_RamOnly(p, st) ==
  /\ ctx' = [ctx EXCEPT !.page[p].status = st,
                        !.erased = IF Status(p) = "ERASED" THEN @ - 1 ELSE @,
                        !.active = IF st = "ACTIVE" THEN p ELSE NoPage]
  /\ UNCHANGED flash
UpdateStatus_Uncounted(p, st) ==
  /\ flash' = [flash EXCEPT ![p].status = st]
  /\ ctx' = [ctx EXCEPT !.page[p].status = st,
                        !.active = IF st = "ACTIVE" THEN p ELSE NoPage]
UpdateStatus(p, st) ==
  IF Status(p) = st
    THEN UNCHANGED <<flash, ctx>>
    ELSE /\ flash' = [flash EXCEPT ![p].status =
                                    IF @ = "FULL" THEN "FULL" ELSE st]
         /\ ctx' = [ctx EXCEPT
                      !.page[p].status = st,
                      !.erased = IF Status(p) = "ERASED" /\ @ > 0 THEN @ - 1 ELSE @,
                      !.active = IF st = "ACTIVE" THEN p
                                 ELSE IF Status(p) = "ACTIVE" THEN NoPage ELSE @]

(* st_page_erase of a page that RAM does not believe erased already *)
ErasePage(p) ==
  /\ flash' = [flash EXCEPT ![p] = BlankPage]
  /\ ctx' = [ctx EXCEPT !.page[p] = FreshPage("ERASED"), !.erased = @ + 1]

(* A write only clears bits: over bytes that are not erased it leaves the   *)
(* bits common to both items.                                              *)
Overlay(old, new) ==
  IF old \in {Blank, new} THEN {new}
  ELSE IF old.kind = "dead" THEN {old}
  ELSE {DeadCell(old.size)} \cup {TornCell(k) : k \in {old.key, new.key} \cap Keys}
PutItem(p, c) ==
  \E d \in Overlay(flash[p].cell[Used(p)], c) :
    flash' = [flash EXCEPT ![p].cell[Used(p)] = d]

(* st_page_write_item up to the status byte; the pages it is given are     *)
(* ACTIVE, since an ERASED or a FULL page never has room.                  *)
WriteItem_Uncounted(p, c) ==
  /\ PutItem(p, c)
  /\ ctx' = [ctx EXCEPT !.page[p].used = @ + c.size]
WriteItem(p, c) ==
  /\ PutItem(p, c)
  /\ ctx' = [ctx EXCEPT !.page[p].used = @ + c.size, !.page[p].cnt = @ + 1]
Fills(p, n) == PageSize - PageHeaderSize - (Used(p) + n) < ItemHeaderSize

MarkDead(p, off) ==
  flash' = [flash EXCEPT ![p].cell[off] = DeadCell(flash[p].cell[off].size)]

Goto(l) == pc' = l /\ UNCHANGED <<call, ret, expect, faults>>

Return(r, e) ==
  /\ pc' = "Idle" /\ call' = NoCall /\ frame' = NoFrame
  /\ ret' = r /\ expect' = e /\ UNCHANGED faults

(* A write that reports an error may or may not have taken effect. *)
MayHaveWritten ==
  IF call.op = "write"
    THEN [expect EXCEPT ![call.key] = @ \cup {call.val}] ELSE expect

Fail == Return([kind |-> "err", key |-> call.key, val |-> NoVal], MayHaveWritten)

------------------------------------------------------------------------------
(* Boot: st_init, st_page_init and st_page_scan. *)

Restarted ==
  /\ ctx' = BootCtx /\ pc' = "Boot" /\ frame' = NoFrame
  /\ call' = NoCall /\ ret' = NoRet /\ expect' = MayHaveWritten

NextBootPage ==
  IF frame.pg + 1 \in Pages
    THEN Goto("Boot") /\ frame' = [frame EXCEPT !.pg = @ + 1]
    ELSE Goto("Idle") /\ frame' = NoFrame

(* An ERASED page is counted; when it turns out not to be blank the erase  *)
(* that is asked for returns at once, RAM holding it erased already.       *)
LoadErased ==
  /\ pc = "Boot" /\ flash[frame.pg].status = "ERASED"
  /\ ctx' = [ctx EXCEPT !.page[frame.pg] = FreshPage("ERASED"), !.erased = @ + 1]
  /\ NextBootPage /\ UNCHANGED flash

LoadUnknown ==
  /\ pc = "Boot" /\ flash[frame.pg].status = "UNKNOWN"
  /\ ErasePage(frame.pg)
  /\ NextBootPage

LoadInUse ==
  /\ pc = "Boot" /\ flash[frame.pg].status \in {"ACTIVE", "FULL"}
  /\ ctx' = [ctx EXCEPT !.page[frame.pg] = FreshPage(flash[frame.pg].status)]
  /\ Goto("Scan") /\ UNCHANGED <<flash, frame>>

ScanOffset == Used(frame.pg)
Scanned == flash[frame.pg].cell[ScanOffset]

ScanItem_CountsDeleted ==
  /\ pc = "Scan" /\ Accessible(ScanOffset, ItemHeaderSize)
  /\ Scanned.kind \in {"live", "dead", "hole"}
  /\ ctx' = [ctx EXCEPT !.page[frame.pg].used = @ + Scanned.size,
                        !.page[frame.pg].cnt = @ + 1]
  /\ Goto("Scan") /\ UNCHANGED <<flash, frame>>

ScanItem ==
  /\ pc = "Scan" /\ Accessible(ScanOffset, ItemHeaderSize)
  /\ Scanned.kind \in {"live", "dead", "hole"}
  /\ ctx' = [ctx EXCEPT !.page[frame.pg].used = @ + Scanned.size,
                        !.page[frame.pg].cnt =
                           IF Scanned.kind = "live" THEN @ + 1 ELSE @]
  /\ Goto("Scan") /\ UNCHANGED <<flash, frame>>

ScanCorrupt ==
  /\ pc = "Scan" /\ Accessible(ScanOffset, ItemHeaderSize)
  /\ Scanned.kind = "torn"
  /\ MarkDead(frame.pg, ScanOffset)
  /\ ctx' = [ctx EXCEPT !.page[frame.pg].used = @ + Scanned.size]
  /\ Goto("Scan") /\ UNCHANGED frame

(* The header at bytes_used cannot be read: st_page_scan and st_page_init  *)
(* fail, the pages that follow are never loaded, and st_init goes on.      *)
ScanAbort ==
  /\ pc = "Scan" /\ ~Accessible(ScanOffset, ItemHeaderSize)
  /\ Goto("Idle") /\ frame' = NoFrame /\ UNCHANGED <<flash, ctx>>

ScanEnd ==
  /\ pc = "Scan" /\ Accessible(ScanOffset, ItemHeaderSize)
  /\ Scanned = Blank
  /\ IF Status(frame.pg) = "FULL" /\ ctx.page[frame.pg].cnt = 0
       THEN /\ flash' = [flash EXCEPT ![frame.pg] = BlankPage]
            /\ ctx' = [ctx EXCEPT !.page[frame.pg] = FreshPage("ERASED"),
                                  !.erased = @ + 1, !.active = frame.pg]
       ELSE ctx' = [ctx EXCEPT !.active = frame.pg] /\ UNCHANGED flash
  /\ NextBootPage

------------------------------------------------------------------------------
(* The calls of the interface: st_write_item and st_read_item, which both  *)
(* begin with st_find_item.                                                *)

Begin(c) ==
  /\ pc = "Idle" /\ pc' = "Page"
  /\ call' = c /\ ret' = NoRet
  /\ frame' = [NoFrame EXCEPT !.pg = RingStart, !.start = RingStart]
  /\ UNCHANGED <<flash, ctx, expect, faults>>

st_write_item(k, v) == Begin([op |-> "write", key |-> k, val |-> v])
st_read_item(k) == Begin([op |-> "read", key |-> k, val |-> NoVal])

(* st_find_item: the pages of the ring backwards from the active page. *)
FindPage ==
  /\ pc = "Page"
  /\ Goto(IF InUse(frame.pg) THEN "Find" ELSE "Next")
  /\ frame' = [frame EXCEPT !.off = 0, !.hits = 0]
  /\ UNCHANGED <<flash, ctx>>

InPage == frame.off < Used(frame.pg)
Here == flash[frame.pg].cell[frame.off]

(* st_page_find_item: the items of one page. *)
FindPass_Stuck ==
  /\ pc = "Find" /\ InPage /\ Here.key # call.key
  /\ Goto("Find") /\ UNCHANGED <<flash, ctx, frame>>

FindPass ==
  /\ pc = "Find" /\ InPage /\ Here.key # call.key
  /\ frame' = [frame EXCEPT !.off = @ + Here.size]
  /\ Goto("Find") /\ UNCHANGED <<flash, ctx>>

FindCorrupt ==
  /\ pc = "Find" /\ InPage /\ Here.key = call.key /\ Here.kind = "torn"
  /\ MarkDead(frame.pg, frame.off)
  /\ frame' = [frame EXCEPT !.off = @ + Here.size]
  /\ Goto("Find") /\ UNCHANGED ctx

(* A copy of the item is found: its content is the result unless an        *)
(* earlier page had one, and the copy found before it is deleted.          *)
FindHit ==
  /\ pc = "Find" /\ InPage /\ Here.key = call.key /\ Here.kind = "live"
  /\ LET f == [frame EXCEPT !.val = IF frame.cnt = 0 THEN Here.val ELSE @]
     IN IF frame.last.page = NoPage
          THEN Goto("Hit") /\ frame' = f
          ELSE Goto("Del") /\ frame' = [f EXCEPT !.del = frame.last, !.back = "Hit"]
  /\ UNCHANGED <<flash, ctx>>

FindKeep ==
  /\ pc = "Hit"
  /\ frame' = [frame EXCEPT !.last = [page |-> frame.pg, off |-> frame.off],
                            !.hits = @ + 1, !.off = @ + Size(call.key)]
  /\ Goto("Find") /\ UNCHANGED <<flash, ctx>>

(* End of a page: where the first copy lies is remembered for the caller;  *)
(* as soon as there were two, the last one found is deleted as well.       *)
FindPageEnd ==
  /\ pc = "Find" /\ ~InPage
  /\ LET n == frame.cnt + frame.hits
         f == [frame EXCEPT !.cnt = n, !.loc = IF n = 1 THEN frame.last ELSE @]
     IN IF n > 1
          THEN Goto("Del") /\ frame' = [f EXCEPT !.del = frame.last, !.back = "Next"]
          ELSE Goto("Next") /\ frame' = f
  /\ UNCHANGED <<flash, ctx>>

FindNextPage ==
  /\ pc = "Next"
  /\ frame' = [frame EXCEPT !.pg = PrevPage(@)]
  /\ Goto(IF PrevPage(frame.pg) = frame.start THEN "Found" ELSE "Page")
  /\ UNCHANGED <<flash, ctx>>

ReadReturns ==
  /\ pc = "Found" /\ call.op = "read"
  /\ LET v == IF frame.cnt = 0 THEN NoVal ELSE frame.val
     IN Return([kind |-> "value", key |-> call.key, val |-> v],
               [expect EXCEPT ![call.key] = IF v \in @ THEN {v} ELSE @])
  /\ UNCHANGED <<flash, ctx>>

------------------------------------------------------------------------------
(* st_delete_item_with_loc, called from three places; frame.back tells     *)
(* where it returns to.                                                    *)

Doomed == flash[frame.del.page].cell[frame.del.off]

DelNothing ==
  /\ pc = "Del" /\ ctx.page[frame.del.page].cnt = 0
  /\ Goto(frame.back) /\ UNCHANGED <<flash, ctx, frame>>

DelMismatch ==
  /\ pc = "Del" /\ ctx.page[frame.del.page].cnt > 0 /\ Doomed.key # call.key
  /\ Fail /\ UNCHANGED <<flash, ctx>>

DelMark_ErasesEarly ==
  /\ pc = "Del" /\ ctx.page[frame.del.page].cnt > 0 /\ Doomed.key = call.key
  /\ MarkDead(frame.del.page, frame.del.off)
  /\ ctx' = [ctx EXCEPT !.page[frame.del.page].cnt = @ - 1]
  /\ Goto(IF Status(frame.del.page) = "FULL" THEN "DelErase" ELSE frame.back)
  /\ UNCHANGED frame

DelMark ==
  /\ pc = "Del" /\ ctx.page[frame.del.page].cnt > 0 /\ Doomed.key = call.key
  /\ MarkDead(frame.del.page, frame.del.off)
  /\ ctx' = [ctx EXCEPT !.page[frame.del.page].cnt = @ - 1]
  /\ Goto(IF ctx.page[frame.del.page].cnt = 1 /\ Status(frame.del.page) = "FULL"
            THEN "DelErase" ELSE frame.back)
  /\ UNCHANGED frame

DelErase ==
  /\ pc = "DelErase" /\ ErasePage(frame.del.page)
  /\ Goto(frame.back) /\ UNCHANGED frame

------------------------------------------------------------------------------
(* st_get_available_page: a page with room for the item to be written. *)

Need == Size(call.key)
Choosing == pc = "Found" /\ call.op = "write"
IsCandidate(p) ==
  IF ctx.active # NoPage THEN p = ctx.active ELSE IsFirstPage(p, 0, "ACTIVE")

AppendTo(p) == Goto("Append") /\ frame' = [frame EXCEPT !.pg = p]

UseCandidate(p) ==
  /\ Choosing /\ IsCandidate(p) /\ HasRoom(p, Need)
  /\ AppendTo(p) /\ UNCHANGED <<flash, ctx>>

SealPage(p) ==
  /\ UpdateStatus(p, "FULL")
  /\ Goto("Take") /\ frame' = [frame EXCEPT !.pg = p]

SealCandidate(p) ==
  /\ Choosing /\ IsCandidate(p) /\ ~HasRoom(p, Need) /\ ctx.erased > ErasedLow
  /\ SealPage(p)

NoCandidate ==
  /\ Choosing /\ \A p \in Pages : ~IsCandidate(p)
  /\ Goto("Take") /\ frame' = [frame EXCEPT !.pg = 0]
  /\ UNCHANGED <<flash, ctx>>

(* After the realignment the active page is looked at again. *)
RecheckFails ==
  /\ pc = "Recheck" /\ ctx.active = NoPage
  /\ Fail /\ UNCHANGED <<flash, ctx>>

RecheckRoom ==
  /\ pc = "Recheck" /\ ctx.active # NoPage /\ HasRoom(ctx.active, Need)
  /\ AppendTo(ctx.active) /\ UNCHANGED <<flash, ctx>>

RecheckSeal ==
  /\ pc = "Recheck" /\ ctx.active # NoPage /\ ~HasRoom(ctx.active, Need)
  /\ SealPage(ctx.active)

TakePage(p) ==
  /\ pc = "Take" /\ IsFirstPage(p, frame.pg, "ERASED")
  /\ UpdateStatus(p, "ACTIVE") /\ AppendTo(p)

TakeFails ==
  /\ pc = "Take" /\ NonePage("ERASED")
  /\ Fail /\ UNCHANGED <<flash, ctx>>

------------------------------------------------------------------------------
(* st_realign picks the FULL page with the fewest items; st_page_realign   *)
(* moves its items to the active page and erases it.                       *)

IsVictim(p) ==
  /\ Status(p) = "FULL"
  /\ \A q \in Pages : Status(q) = "FULL" =>
       \/ ctx.page[p].cnt < ctx.page[q].cnt
       \/ /\ ctx.page[p].cnt = ctx.page[q].cnt
          /\ Ahead(RingStart, p) <= Ahead(RingStart, q)

Crowded(p) ==
  Choosing /\ IsCandidate(p) /\ ~HasRoom(p, Need) /\ ctx.erased <= ErasedLow

RealignNone(p) ==
  /\ Crowded(p) /\ NonePage("FULL")
  /\ Goto("Recheck") /\ UNCHANGED <<flash, ctx, frame>>

RealignStart(p, victim) ==
  /\ Crowded(p) /\ IsVictim(victim)
  /\ Goto("Realign")
  /\ frame' = [frame EXCEPT !.victim = victim, !.off = 0]
  /\ UNCHANGED <<flash, ctx>>

Moving == pc = "Realign" /\ frame.off < Used(frame.victim)
Moved == flash[frame.victim].cell[frame.off]
StepOver(n) == frame' = [frame EXCEPT !.off = @ + n]
Movable == Moved.kind = "live" /\ Moved.val \notin ZeroCrc

(* Deleted items are left behind, and so is every item whose CRC is zero. *)
RealignSkip ==
  /\ Moving
  /\ Moved.kind = "dead" \/ (Moved.kind = "live" /\ Moved.val \in ZeroCrc)
  /\ StepOver(Moved.size) /\ Goto("Realign") /\ UNCHANGED <<flash, ctx>>

RealignCorrupt ==
  /\ Moving /\ Moved.kind \in {"torn", "hole"}
  /\ MarkDead(frame.victim, frame.off)
  /\ ctx' = [ctx EXCEPT !.page[frame.victim].cnt = IF @ > 0 THEN @ - 1 ELSE @]
  /\ StepOver(Moved.size) /\ Goto("Realign")

RealignFull(new) ==
  /\ Moving /\ Movable /\ ~HasRoom(ctx.active, Moved.size)
  /\ IsFirstPage(new, ctx.active, "ERASED")
  /\ frame' = [frame EXCEPT !.pg = new]
  /\ UpdateStatus(ctx.active, "FULL") /\ Goto("RealignTake")

(* The new page was chosen before the active one was marked FULL, so that  *)
(* the two are the same when the active page is an erased one.             *)
RealignTake ==
  /\ pc = "RealignTake" /\ UpdateStatus(frame.pg, "ACTIVE")
  /\ Goto("Realign") /\ UNCHANGED frame

(* It gives up without a page to move an item to; st_realign then returns  *)
(* as if nothing had happened, and the copies already made stay.           *)
RealignFails_Ignored ==
  /\ Moving /\ Movable
  /\ \/ ~HasRoom(ctx.active, Moved.size) /\ NonePage("ERASED")
     \/ HasRoom(ctx.active, Moved.size) /\ ~Storable(ctx.active, Moved.size)
  /\ Goto("Realign") /\ frame' = [frame EXCEPT !.off = Used(frame.victim)]
  /\ UNCHANGED <<flash, ctx>>

RealignFails ==
  /\ Moving /\ Movable
  /\ \/ ~HasRoom(ctx.active, Moved.size) /\ NonePage("ERASED")
     \/ HasRoom(ctx.active, Moved.size) /\ ~Storable(ctx.active, Moved.size)
  /\ Goto("Recheck") /\ UNCHANGED <<flash, ctx, frame>>

CanCopy ==
  /\ Moving /\ Movable
  /\ HasRoom(ctx.active, Moved.size) /\ Storable(ctx.active, Moved.size)

RealignCopy_Skips ==
  /\ CanCopy
  /\ frame' = [frame EXCEPT !.off = @ + Moved.size]
  /\ Goto("Realign") /\ UNCHANGED <<flash, ctx>>

RealignCopy ==
  /\ CanCopy
  /\ WriteItem(ctx.active, Moved)
  /\ frame' = [frame EXCEPT !.off = @ + Moved.size, !.pg = ctx.active]
  /\ Goto(IF Fills(ctx.active, Moved.size) THEN "CopySeal" ELSE "Realign")

CopySeal ==
  /\ pc = "CopySeal" /\ UpdateStatus(frame.pg, "FULL")
  /\ Goto("Realign") /\ UNCHANGED frame

RealignEnd_KeepsPage ==
  /\ pc = "Realign" /\ ~Moving
  /\ Goto("Recheck") /\ UNCHANGED <<flash, ctx, frame>>

RealignEnd ==
  /\ pc = "Realign" /\ ~Moving
  /\ ErasePage(frame.victim)
  /\ Goto("Recheck") /\ UNCHANGED frame

------------------------------------------------------------------------------
(* The tail of st_write_item: st_page_write_item, then the old copy goes. *)

CanAppend == pc = "Append" /\ Storable(frame.pg, Need)

AppendRefused ==
  /\ pc = "Append" /\ ~Storable(frame.pg, Need)
  /\ Fail /\ UNCHANGED <<flash, ctx>>

AppendItem ==
  /\ CanAppend
  /\ WriteItem(frame.pg, LiveCell(call.key, call.val))
  /\ Goto(IF Fills(frame.pg, Need) THEN "AppendSeal" ELSE "Wrote")
  /\ UNCHANGED frame

AppendSeal ==
  /\ pc = "AppendSeal" /\ UpdateStatus(frame.pg, "FULL")
  /\ Goto("Wrote") /\ UNCHANGED frame

WriteDeletesOld_Forgotten ==
  /\ pc = "Wrote"
  /\ ctx' = [ctx EXCEPT !.active = IF Status(frame.pg) = "ACTIVE" THEN frame.pg ELSE @]
  /\ Goto("Done") /\ UNCHANGED <<flash, frame>>

WriteDeletesOld ==
  /\ pc = "Wrote"
  /\ ctx' = [ctx EXCEPT !.active = IF Status(frame.pg) = "ACTIVE" THEN frame.pg ELSE @]
  /\ IF frame.loc.page = NoPage
       THEN Goto("Done") /\ UNCHANGED frame
       ELSE Goto("Del") /\ frame' = [frame EXCEPT !.del = frame.loc, !.back = "Done"]
  /\ UNCHANGED flash

WriteReturns ==
  /\ pc = "Done"
  /\ Return([kind |-> "ok", key |-> call.key, val |-> call.val],
            [expect EXCEPT ![call.key] = {call.val}])
  /\ UNCHANGED <<flash, ctx>>

------------------------------------------------------------------------------
(* The environment. *)

(* A key outside Updated is only ever given its default, as cfg_item_init   *)
(* does when a key is not found.                                           *)
MayWrite(k) == k \in Updated \/ NoVal \in expect[k]

Calls ==
  \E k \in Keys : \/ st_read_item(k)
                  \/ MayWrite(k) /\ \E v \in Vals : st_write_item(k, v)

Fault(kind) ==
  kind \in Faults /\ faults < MaxFaults /\ faults' = faults + 1

Reset == Fault("reset") /\ pc = "Idle" /\ Restarted /\ UNCHANGED flash
PowerLoss == Fault("power") /\ Restarted /\ UNCHANGED flash

(* Power fails while an item is written: its header is there without an    *)
(* index, or is complete over a content that is not.                       *)
TearItem(p, k) == \E c \in {HoleCell(k), TornCell(k)} : PutItem(p, c)

TornWrite ==
  /\ Fault("tornwrite")
  /\ \/ CanAppend /\ TearItem(frame.pg, call.key)
     \/ CanCopy /\ TearItem(ctx.active, Moved.key)
  /\ Restarted

(* Power fails while a page is erased: the status byte is erased, or in    *)
(* between, and the items are still there.                                 *)
TornErase ==
  /\ Fault("tornerase")
  /\ \E p \in Pages, st \in {"ERASED", "UNKNOWN"} :
       /\ \/ pc = "DelErase" /\ p = frame.del.page
          \/ pc = "Realign" /\ ~Moving /\ p = frame.victim
       /\ flash' = [flash EXCEPT ![p].status = st]
  /\ Restarted

Decay ==
  /\ Fault("decay") /\ pc = "Idle"
  /\ \E p \in Pages, o \in Offsets :
       /\ flash[p].cell[o].kind = "live"
       /\ flash' = [flash EXCEPT ![p].cell[o] = TornCell(flash[p].cell[o].key)]
  /\ UNCHANGED <<ctx, pc, frame, call, ret, expect>>

------------------------------------------------------------------------------

Init ==
  /\ flash = [p \in Pages |-> BlankPage]
  /\ ctx = BootCtx /\ pc = "Boot" /\ frame = NoFrame
  /\ call = NoCall /\ ret = NoRet
  /\ expect = [k \in Keys |-> {NoVal}]
  /\ faults = 0

Boot == LoadErased \/ LoadUnknown \/ LoadInUse \/ ScanItem \/ ScanCorrupt
          \/ ScanAbort \/ ScanEnd
Find == FindPage \/ FindPass \/ FindCorrupt \/ FindHit \/ FindKeep
          \/ FindPageEnd \/ FindNextPage \/ ReadReturns
Delete == DelNothing \/ DelMismatch \/ DelMark \/ DelErase
GetPage ==
  \/ \E p \in Pages : UseCandidate(p) \/ SealCandidate(p) \/ TakePage(p)
  \/ NoCandidate \/ RecheckFails \/ RecheckRoom \/ RecheckSeal \/ TakeFails
Realign ==
  \/ \E p \in Pages : RealignNone(p) \/ RealignFull(p)
  \/ \E p, victim \in Pages : RealignStart(p, victim)
  \/ RealignSkip \/ RealignCorrupt \/ RealignTake \/ RealignFails
  \/ RealignCopy \/ CopySeal \/ RealignEnd
Write == AppendRefused \/ AppendItem \/ AppendSeal \/ WriteDeletesOld \/ WriteReturns

(* The code running, as opposed to the calls made of it and to the faults. *)
Step == Boot \/ Find \/ Delete \/ GetPage \/ Realign \/ Write

Next == Step \/ Calls \/ Reset \/ PowerLoss \/ TornWrite \/ TornErase \/ Decay

Spec == Init /\ [][Next]_vars
FairSpec == Spec /\ WF_vars(Step)

------------------------------------------------------------------------------
(* Properties. *)

LiveOffsets(p) == {o \in Offsets : flash[p].cell[o].kind = "live"}
At(c) == flash[c[1]].cell[c[2]]
Copies(k) == {c \in Pages \X Offsets : At(c).kind = "live" /\ At(c).key = k}

(* page_erased, which decides when st_get_available_page realigns          *)
(* (storage.c:848), is the number of pages RAM holds erased, in every      *)
(* intermediate state of every call and of the boot.                       *)
ErasedExact == ctx.erased = Cardinality({p \in Pages : Status(p) = "ERASED"})

(* item_cnt, on which pages are erased without being looked at again       *)
(* (storage.c:522, 668), is the number of live items of the page whenever  *)
(* no call is running.                                                     *)
CountsExact ==
  pc = "Idle" => \A p \in Pages :
    InUse(p) => ctx.page[p].cnt = Cardinality({o \in LiveOffsets(p) : o < Used(p)})

(* Whatever strikes, item_cnt is at least that number, so that no page is   *)
(* taken for empty while it holds an item.  One thing would break it: the  *)
(* realignment takes off the count the hole a torn write has left, which   *)
(* the boot never counted (storage.c:347), and then gives up before it     *)
(* erases the page.                                                        *)
CountsCover ==
  pc = "Idle" => \A p \in Pages :
    InUse(p) => ctx.page[p].cnt >= Cardinality({o \in LiveOffsets(p) : o < Used(p)})

(* The status RAM holds for a loaded page is the one in flash, but for a   *)
(* page that was marked FULL and then taken as ACTIVE again by the same    *)
(* realignment (storage.c:358-364).                                        *)
StatusMirrored ==
  \A p \in Pages : \/ Status(p) = "UNAVAILABLE" \/ Status(p) = flash[p].status
                   \/ Status(p) = "ACTIVE" /\ flash[p].status = "FULL"

(* storage.h:34: "No more than one page can be in this state at any given  *)
(* moment", of ACTIVE.                                                     *)
AtMostOneActive ==
  \A p, q \in Pages : Status(p) = "ACTIVE" /\ Status(q) = "ACTIVE" => p = q

(* Whatever moment the power fails at, flash holds a copy of every item    *)
(* once stored, with the content last acknowledged or the one of a write   *)
(* not yet acknowledged: new copies are written before old ones go.        *)
AlwaysRecoverable ==
  \A k \in Keys : NoVal \notin expect[k] =>
    \E c \in Copies(k) :
      \/ At(c).val \in expect[k]
      \/ call.op = "write" /\ call.key = k /\ At(c).val = call.val

(* When no call is running an item has one copy: otherwise st_find_item    *)
(* deletes copies while it looks for the item (storage.c:591, 810).  It    *)
(* takes a second item that is updated to break this: a write that         *)
(* realigns the page of its old copy deletes the place that copy was at    *)
(* (see ReadsReturnWritten).                                               *)
NoDuplicates == pc = "Idle" => \A k \in Keys : Cardinality(Copies(k)) <= 1

(* A read returns the content of the last write that returned 0, or of a   *)
(* later one that failed or was cut short (storage.c:945-948).             *)
ReadsReturnWritten == ret.kind = "value" => ret.val \in expect[ret.key]

(* While one item only is updated, and at most one fault strikes, a read   *)
(* never returns an outdated content: when a fault costs the store an      *)
(* item, the item is gone (storage.c:591 "delete last record if exist").   *)
ReadsNeverStale ==
  ret.kind = "value" => ret.val \in expect[ret.key] \cup {NoVal}

(* No call fails while the pages have room for every item several times    *)
(* over (storage.c:882-888).                                               *)
CallsSucceed == ret.kind # "err"

(* Reading an item leaves it stored (storage.c:944).                       *)
ReadKeepsData ==
  [][\A k \in Keys : (call.op = "read" /\ Copies(k) # {}) => Copies(k)' # {}]_vars

(* Erasing a page never destroys the last copy of an item: what the page   *)
(* held was deleted or moved before (storage.h:47 "Non-erased key-value    *)
(* pairs are being moved into another page so that the current page can be *)
(* erased").  The exception is an item whose CRC-8 is zero, which the      *)
(* realignment takes for a deleted one (storage.c:337).                    *)
Erases(p) == flash[p] # BlankPage /\ flash[p]' = BlankPage
Movables(k) == {c \in Copies(k) : At(c).val \notin ZeroCrc}
EraseKeepsData ==
  [][\A p \in Pages, k \in Keys :
       Erases(p) /\ Movables(k) # {} => Copies(k)' # {}]_vars

(* What the store does not survive.  A call of st_write_item realigns the   *)
(* page on which it has found the old copy, and then deletes whatever lies *)
(* where that copy was (storage.c:917, 932)...                             *)
MovesOldCopy == pc = "Realign" /\ frame.loc.page = frame.victim
(* ... a realignment finds no page to move an item to, and leaves two      *)
(* copies of those it has moved already (storage.c:359, 367)...            *)
Stuck ==
  /\ Moving /\ Movable
  /\ \/ ~HasRoom(ctx.active, Moved.size) /\ NonePage("ERASED")
     \/ HasRoom(ctx.active, Moved.size) /\ ~Storable(ctx.active, Moved.size)
(* ... it takes an item for deleted whose CRC is zero (storage.c:337)...   *)
DropsItem == Moving /\ Moved.kind = "live" /\ Moved.val \in ZeroCrc
(* ... or the boot stops at a page that is full to its end, and does not   *)
(* load the pages that follow (storage.c:634, 715).                        *)
BootIncomplete == pc = "Idle" /\ ~NonePage("UNAVAILABLE")

(* None of them comes up without a fault while one item only is updated    *)
(* and there is room enough (Roomy).  As long as no fault strikes they are *)
(* all that can make the store lose, duplicate or outdate an item          *)
(* (StorageDataProofs).                                                    *)
NoMishap == ~MovesOldCopy /\ ~Stuck /\ ~DropsItem /\ ~BootIncomplete

(* Room enough for none of them to come up, and for no call to fail, while *)
(* one item only is updated.  load holds the sets of items with their      *)
(* sizes: all items together fit a page and leave an item header free.     *)
(* fill holds what a page can come to hold, the items that are not updated *)
(* once each and the updated one any number of times, with the bytes used: *)
(* no page is filled to its last byte, where st_page_get_freesize and      *)
(* st_page_write disagree about what fits (storage.c:62, 105), and none    *)
(* that holds an item that is not updated is marked FULL on writing        *)
(* (storage.c:305), since a realignment may be what writes.                *)
BytesLeft(n) == PageSize - PageHeaderSize - n
LoadFits(load) ==
  /\ <<{}, 0>> \in load
  /\ \A c \in load :
       /\ BytesLeft(c[2]) >= ItemHeaderSize
       /\ \A k \in Keys \ c[1] : <<c[1] \cup {k}, c[2] + Size(k)>> \in load
FillFits(fill) ==
  /\ <<{}, 0>> \in fill
  /\ \A c \in fill :
       /\ BytesLeft(c[2]) # 0
       /\ c[1] # {} => BytesLeft(c[2]) >= ItemHeaderSize
       /\ \A k \in Keys \ c[1] : Size(k) <= BytesLeft(c[2]) =>
            <<c[1] \cup ({k} \ Updated), c[2] + Size(k)>> \in fill
Roomy(load, fill) ==
  /\ \E u \in Keys : Updated \subseteq {u}
  /\ IsFiniteSet(Keys) /\ Cardinality(Keys) < PageMax
  /\ LoadFits(load) /\ FillFits(fill)

(* Every call returns, and so does the boot: no loop over the ring of      *)
(* pages or the items of a page runs for ever.                             *)
CallsReturn == pc # "Idle" ~> pc = "Idle"

(* The content of an item is the one of its current copy: a copy that the  *)
(* realignment has moved already, or that the running write has replaced,  *)
(* is stale, and about to be erased or deleted.                            *)
InRealign == pc \in {"Realign", "RealignTake", "CopySeal"}
Replacing == pc \in {"AppendSeal", "Wrote"} \/ (pc = "Del" /\ frame.back = "Done")
Stale(k, p, o) ==
  \/ InRealign /\ p = frame.victim /\ o < frame.off
  \/ Replacing /\ k = call.key /\ p = frame.loc.page /\ o = frame.loc.off
CurrentCopies(k) == {c \in Copies(k) : ~Stale(k, c[1], c[2])}
Value(k) ==
  IF CurrentCopies(k) = {} THEN NoVal
  ELSE At(CHOOSE c \in CurrentCopies(k) : TRUE).val

(* The store implements the map of KVStore, a step at a time: a write      *)
(* takes effect when its item is appended, and neither the deletion of the *)
(* old copy nor a realignment is seen.                                     *)
KV == INSTANCE KVStore WITH dict <- [k \in Keys |-> Value(k)]
ImplementsKV == KV!KVSpec

=============================================================================
