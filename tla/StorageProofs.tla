---------------------------- MODULE StorageProofs ----------------------------
(* Theorems about the store, for every number of pages, page size, set of  *)
(* keys and contents, and every combination of faults.                     *)
EXTENDS Storage, FiniteSetTheorems, TLAPS

(* The items of a page lie within it, and have the size of their key.      *)
CellFits(o, c) ==
  /\ c.size > 0 => o + c.size + PageHeaderSize < PageSize
  /\ IF c.kind \in {"live", "torn"} THEN c.key \in Keys /\ c.size = Size(c.key)
                                     ELSE c.key = NoKey
CellsFit == \A p \in Pages, o \in Offsets : CellFits(o, flash[p].cell[o])

(* bytes_used never passes the end of the page. *)
UsedFits == \A p \in Pages : Used(p) = 0 \/ Used(p) + PageHeaderSize < PageSize

FlashOK == flash \in [Pages -> FlashPage] /\ CellsFit
CtxOK == ctx \in Ctx /\ UsedFits
RestOK ==
  /\ pc \in PCs /\ frame \in Frame /\ call \in Call /\ ret \in Ret
  /\ expect \in [Keys -> SUBSET (Vals \cup {NoVal})]
  /\ faults \in 0..MaxFaults

(* What flash and RAM hold agrees, whatever the call that runs is doing.   *)
DataInv == FlashOK /\ CtxOK /\ StatusMirrored /\ ErasedExact

(* What the parts of a call rely on: a call that runs is about a key;      *)
(* pages not loaded yet are UNAVAILABLE; a copy found lies on a page; a    *)
(* page about to be erased is FULL, and so is the one that is being        *)
(* realigned, which is never the page its items are moved to.              *)
CallControl == pc \notin {"Boot", "Scan", "Idle"} => call.key \in Keys
BootControl ==
  /\ pc \in {"Boot", "Scan"} =>
       \A q \in Pages : q > frame.pg => Status(q) = "UNAVAILABLE"
  /\ pc = "Boot" => Status(frame.pg) = "UNAVAILABLE"
FindControl == frame.cnt + frame.hits > 0 => frame.last.page \in Pages
DeleteControl ==
  /\ pc \in {"Del", "DelErase"} => frame.del.page \in Pages
  /\ pc = "DelErase" => Status(frame.del.page) = "FULL"
RealignControl ==
  /\ pc \in {"Realign", "RealignTake", "CopySeal"} => Status(frame.victim) = "FULL"
  /\ pc = "RealignTake" => frame.pg # frame.victim
Control ==
  CallControl /\ BootControl /\ FindControl /\ DeleteControl /\ RealignControl

IInv == DataInv /\ RestOK /\ Control

LEMMA PagesFacts == PageMax \in Nat \ {0} /\ Pages = 0..(PageMax - 1) /\ 0 \in Pages
                      /\ NoPage \notin Pages
BY PagesAssumption DEF Pages, NoPage

LEMMA PrevPageType == \A p \in Pages : PrevPage(p) \in Pages
<1>1. SUFFICES ASSUME NEW p \in Pages PROVE PrevPage(p) \in Pages
  OBVIOUS
<1>2. p \in Int /\ PageMax \in Int /\ PageMax > 0 /\ p - 1 + PageMax \in Int
  BY PagesFacts DEF Pages
<1>3. (p - 1 + PageMax) % PageMax \in 0..(PageMax - 1)
  BY <1>2
<1>. QED
  BY <1>3 DEF PrevPage, Pages

LEMMA SizeType == \A k \in Keys : Size(k) \in Nat /\ Size(k) > ItemHeaderSize
BY KeysAssumption DEF Size, ItemHeaderSize

LEMMA CellTypes ==
  /\ Blank \in Cell
  /\ \A k \in Keys : TornCell(k) \in Cell /\ HoleCell(k) \in Cell
  /\ \A k \in Keys, v \in Vals : LiveCell(k, v) \in Cell
  /\ \A n \in Nat : DeadCell(n) \in Cell
BY SizeType DEF Blank, TornCell, HoleCell, LiveCell, DeadCell, Cell, CellKinds

LEMMA BlankPageOK == BlankPage \in FlashPage
BY CellTypes DEF BlankPage, FlashPage, FlashStatus

LEMMA FreshPageType == \A st \in RamStatus : FreshPage(st) \in RamPage
BY DEF FreshPage, RamPage

------------------------------------------------------------------------------
(* What the operations on flash and RAM keep. *)

LEMMA ErasedFinite ==
  ASSUME NEW S, S \subseteq Pages
  PROVE  IsFiniteSet(S) /\ Cardinality(S) \in Nat
<1>1. IsFiniteSet(Pages)
  BY FS_Interval, PagesFacts
<1>. QED
  BY <1>1, FS_Subset, FS_CardinalityType

LEMMA ErasedOneMore ==
  ASSUME ErasedExact, NEW p \in Pages, Status(p) # "ERASED", Status(p)' = "ERASED",
         \A q \in Pages \ {p} : Status(q)' = Status(q),
         ctx'.erased = ctx.erased + 1
  PROVE  ErasedExact'
<1>. DEFINE E == {q \in Pages : Status(q) = "ERASED"}
<1>1. E' = E \cup {p} /\ p \notin E
  OBVIOUS
<1>2. IsFiniteSet(E) /\ Cardinality(E') = Cardinality(E) + 1
  BY <1>1, ErasedFinite, FS_AddElement
<1>. QED
  BY <1>2 DEF ErasedExact

LEMMA UpdateKeeps ==
  ASSUME DataInv, NEW p \in Pages, NEW st \in {"ACTIVE", "FULL"},
         UpdateStatus(p, st)
  PROVE  DataInv' /\ Status(p)' = st /\ \A q \in Pages \ {p} : Status(q)' = Status(q)
<1>. USE DEF DataInv
<1>1. CASE Status(p) = st
  BY <1>1 DEF UpdateStatus, FlashOK, CtxOK, CellsFit, UsedFits, Used,
       StatusMirrored, ErasedExact, Status
<1>2. CASE Status(p) # st
  <2>1. flash' = [flash EXCEPT ![p].status = IF @ = "FULL" THEN "FULL" ELSE st]
    BY <1>2 DEF UpdateStatus
  <2>2. flash' \in [Pages -> FlashPage]
    BY <2>1 DEF FlashOK, FlashPage, FlashStatus
  <2>3. CellsFit'
    BY <2>1 DEF FlashOK, CellsFit, FlashPage
  <2>a. /\ ctx'.page = [ctx.page EXCEPT ![p] = [@ EXCEPT !.status = st]]
        /\ ctx'.erased = IF Status(p) = "ERASED" /\ ctx.erased > 0
                           THEN ctx.erased - 1 ELSE ctx.erased
        /\ ctx'.active = IF st = "ACTIVE" THEN p
                         ELSE IF Status(p) = "ACTIVE" THEN NoPage ELSE ctx.active
        /\ ctx' = [active |-> ctx'.active, erased |-> ctx'.erased, page |-> ctx'.page]
    BY <1>2 DEF UpdateStatus, CtxOK, Ctx
  <2>b. ctx'.page \in [Pages -> RamPage]
    BY <2>a DEF CtxOK, Ctx, RamPage, RamStatus
  <2>c. ctx'.erased \in Nat
    BY <2>a DEF CtxOK, Ctx
  <2>d. ctx'.active \in Pages \cup {NoPage}
    BY <2>a DEF CtxOK, Ctx
  <2>4. ctx' \in Ctx
    BY <2>a, <2>b, <2>c, <2>d DEF Ctx
  <2>5. UsedFits'
    BY <2>a DEF CtxOK, UsedFits, Used, Ctx, RamPage
  <2>6. Status(p)' = st /\ \A q \in Pages \ {p} : Status(q)' = Status(q)
    BY <2>a DEF CtxOK, Ctx, RamPage, Status
  <2>7. StatusMirrored'
    BY <2>1, <2>6 DEF StatusMirrored, FlashOK, FlashPage
  <2>8. ErasedExact'
    <3>. DEFINE E == {q \in Pages : Status(q) = "ERASED"}
    <3>1. E' = E \ {p}
      BY <2>6
    <3>2. IsFiniteSet(E) /\ Cardinality(E) \in Nat
      BY ErasedFinite
    <3>3. Cardinality(E') = IF p \in E THEN Cardinality(E) - 1 ELSE Cardinality(E)
      BY <3>1, <3>2, FS_RemoveElement
    <3>4. p \in E => Cardinality(E) > 0
      BY <3>2, FS_EmptySet
    <3>5. ctx.erased = Cardinality(E)
      BY DEF ErasedExact
    <3>6. ctx'.erased = Cardinality(E')
      BY <2>a, <3>2, <3>3, <3>4, <3>5
    <3>. QED
      BY <3>6 DEF ErasedExact
  <2>. QED
    BY <2>2, <2>3, <2>4, <2>5, <2>6, <2>7, <2>8 DEF FlashOK, CtxOK
<1>. QED
  BY <1>1, <1>2

(* A page that RAM does not hold erased is erased; page_active may change. *)
LEMMA EraseKeeps ==
  ASSUME DataInv, NEW p \in Pages, Status(p) # "ERASED",
         NEW a \in Pages \cup {NoPage},
         flash' = [flash EXCEPT ![p] = BlankPage],
         ctx' = [active |-> a, erased |-> ctx.erased + 1,
                 page |-> [ctx.page EXCEPT ![p] = FreshPage("ERASED")]]
  PROVE  DataInv' /\ \A q \in Pages \ {p} : Status(q)' = Status(q)
<1>. USE DEF DataInv
<1>1. flash' \in [Pages -> FlashPage]
  BY BlankPageOK DEF FlashOK
<1>2. CellsFit'
  BY DEF FlashOK, CellsFit, CellFits, BlankPage, Blank
<1>b. FreshPage("ERASED") \in RamPage /\ FreshPage("ERASED").used = 0
        /\ FreshPage("ERASED").status = "ERASED"
  BY DEF FreshPage, RamPage, RamStatus
<1>3. ctx' \in Ctx
  BY <1>b DEF CtxOK, Ctx
<1>4. UsedFits'
  BY <1>b DEF CtxOK, UsedFits, Used, Ctx
<1>5. Status(p)' = "ERASED" /\ \A q \in Pages \ {p} : Status(q)' = Status(q)
  BY <1>b DEF CtxOK, Ctx, Status
<1>6. StatusMirrored'
  BY <1>5 DEF StatusMirrored, FlashOK, BlankPage
<1>7. ErasedExact'
  BY <1>5, ErasedOneMore DEF CtxOK, Ctx
<1>. QED
  BY <1>1, <1>2, <1>3, <1>4, <1>5, <1>6, <1>7 DEF FlashOK, CtxOK

LEMMA ErasePageKeeps ==
  ASSUME DataInv, NEW p \in Pages, Status(p) # "ERASED", ErasePage(p)
  PROVE  DataInv' /\ \A q \in Pages \ {p} : Status(q)' = Status(q)
<1>1. /\ flash' = [flash EXCEPT ![p] = BlankPage]
      /\ ctx' = [active |-> ctx.active, erased |-> ctx.erased + 1,
                 page |-> [ctx.page EXCEPT ![p] = FreshPage("ERASED")]]
  BY DEF ErasePage, DataInv, CtxOK, Ctx
<1>2. ctx.active \in Pages \cup {NoPage}
  BY DEF DataInv, CtxOK, Ctx
<1>. QED
  BY <1>1, <1>2, EraseKeeps

(* A page is loaded as it is in flash, at boot. *)
LEMMA LoadKeeps ==
  ASSUME DataInv, NEW p \in Pages, Status(p) = "UNAVAILABLE",
         flash[p].status \in {"ERASED", "ACTIVE", "FULL"}, UNCHANGED flash,
         ctx' = [active |-> ctx.active,
                 erased |-> IF flash[p].status = "ERASED" THEN ctx.erased + 1 ELSE ctx.erased,
                 page |-> [ctx.page EXCEPT ![p] = FreshPage(flash[p].status)]]
  PROVE  /\ DataInv' /\ Status(p)' = flash[p].status
         /\ \A q \in Pages \ {p} : Status(q)' = Status(q)
<1>. USE DEF DataInv
<1>1. FlashOK'
  BY DEF FlashOK, CellsFit
<1>2. FreshPage(flash[p].status) \in RamPage /\ FreshPage(flash[p].status).used = 0
        /\ FreshPage(flash[p].status).status = flash[p].status
  BY DEF FreshPage, RamPage, RamStatus
<1>3. ctx' \in Ctx
  BY <1>2 DEF CtxOK, Ctx
<1>4. UsedFits'
  BY <1>2 DEF CtxOK, UsedFits, Used, Ctx
<1>5. Status(p)' = flash[p].status /\ \A q \in Pages \ {p} : Status(q)' = Status(q)
  BY <1>2 DEF CtxOK, Ctx, Status
<1>6. StatusMirrored'
  BY <1>5 DEF StatusMirrored
<1>7. ErasedExact'
  <2>1. CASE flash[p].status = "ERASED"
    BY <1>5, <2>1, ErasedOneMore DEF CtxOK, Ctx
  <2>2. CASE flash[p].status # "ERASED"
    <3>1. {q \in Pages : Status(q) = "ERASED"}' = {q \in Pages : Status(q) = "ERASED"}
      BY <1>5, <2>2
    <3>. QED
      BY <3>1, <2>2 DEF ErasedExact
  <2>. QED
    BY <2>1, <2>2
<1>. QED
  BY <1>1, <1>3, <1>4, <1>5, <1>6, <1>7 DEF CtxOK

LEMMA DataUnchanged ==
  ASSUME DataInv, UNCHANGED <<flash, ctx>>
  PROVE  DataInv' /\ \A q \in Pages : Status(q)' = Status(q)
BY DEF DataInv, FlashOK, CtxOK, CellsFit, UsedFits, Used, StatusMirrored,
     ErasedExact, Status

(* RAM is only told how full a page is, or how many items it has. *)
LEMMA CountsKeep ==
  ASSUME CtxOK, NEW p \in Pages, NEW u \in Nat, NEW n \in Nat,
         u = 0 \/ u + PageHeaderSize < PageSize,
         ctx' = [ctx EXCEPT !.page[p].used = u, !.page[p].cnt = n]
  PROVE  /\ CtxOK' /\ ctx'.erased = ctx.erased /\ ctx'.active = ctx.active
         /\ \A q \in Pages : Status(q)' = Status(q)
<1>1. /\ ctx'.page = [ctx.page EXCEPT ![p] = [@ EXCEPT !.used = u, !.cnt = n]]
      /\ ctx'.erased = ctx.erased /\ ctx'.active = ctx.active
      /\ ctx' = [active |-> ctx'.active, erased |-> ctx'.erased, page |-> ctx'.page]
  BY DEF CtxOK, Ctx
<1>2. ctx'.page \in [Pages -> RamPage]
  BY <1>1 DEF CtxOK, Ctx, RamPage
<1>3. ctx' \in Ctx
  BY <1>1, <1>2 DEF CtxOK, Ctx
<1>4. UsedFits'
  BY <1>1 DEF CtxOK, UsedFits, Used, Ctx, RamPage
<1>5. \A q \in Pages : Status(q)' = Status(q)
  BY <1>1 DEF CtxOK, Ctx, RamPage, Status
<1>. QED
  BY <1>1, <1>3, <1>4, <1>5 DEF CtxOK

LEMMA CellWritten ==
  ASSUME FlashOK, NEW p \in Pages, NEW o \in Nat, NEW c \in Cell, CellFits(o, c),
         flash' = [flash EXCEPT ![p].cell[o] = c]
  PROVE  FlashOK' /\ \A q \in Pages : flash'[q].status = flash[q].status
<1>1. flash' = [flash EXCEPT ![p] = [flash[p] EXCEPT !.cell = [flash[p].cell EXCEPT ![o] = c]]]
  OBVIOUS
<1>2. flash[p].cell \in [Offsets -> Cell] /\ flash[p] \in FlashPage
  BY DEF FlashOK, FlashPage
<1>3. [flash[p].cell EXCEPT ![o] = c] \in [Offsets -> Cell]
  BY <1>2
<1>4. flash' \in [Pages -> FlashPage]
  BY <1>1, <1>2, <1>3 DEF FlashOK, FlashPage
<1>5. CellsFit'
  <2>1. SUFFICES ASSUME NEW q \in Pages, NEW r \in Offsets
                 PROVE  CellFits(r, flash'[q].cell[r])
    BY DEF CellsFit, CellFits
  <2>2. flash'[q].cell[r] = IF q = p /\ r = o THEN c ELSE flash[q].cell[r]
    BY <1>1, <1>2 DEF FlashOK, FlashPage
  <2>. QED
    BY <2>2 DEF FlashOK, CellsFit
<1>6. \A q \in Pages : flash'[q].status = flash[q].status
  BY <1>1, <1>2 DEF FlashOK, FlashPage
<1>. QED
  BY <1>4, <1>5, <1>6 DEF FlashOK

LEMMA MarkDeadKeeps ==
  ASSUME FlashOK, NEW p \in Pages, NEW o \in Nat, MarkDead(p, o)
  PROVE  FlashOK' /\ \A q \in Pages : flash'[q].status = flash[q].status
<1>1. CASE o \in Offsets
  <2>1. flash[p].cell[o] \in Cell /\ CellFits(o, flash[p].cell[o])
    BY <1>1 DEF FlashOK, FlashPage, CellsFit
  <2>2. DeadCell(flash[p].cell[o].size) \in Cell
    BY <2>1, CellTypes DEF Cell
  <2>3. CellFits(o, DeadCell(flash[p].cell[o].size))
    BY <2>1 DEF CellFits, DeadCell
  <2>. QED
    BY <2>2, <2>3, CellWritten DEF MarkDead
<1>2. CASE o \notin Offsets
  <2>1. flash' = flash
    BY <1>2 DEF MarkDead, FlashOK, FlashPage
  <2>. QED
    BY <2>1 DEF FlashOK, CellsFit
<1>. QED
  BY <1>1, <1>2

(* Whatever an item is written over, what results fits where it is.        *)
LEMMA PutItemKeeps ==
  ASSUME FlashOK, NEW p \in Pages, Used(p) \in Nat, Used(p) + PageHeaderSize < PageSize,
         NEW c \in Cell, CellFits(Used(p), c), PutItem(p, c)
  PROVE  FlashOK' /\ \A q \in Pages : flash'[q].status = flash[q].status
<1>. DEFINE o == Used(p)
            old == flash[p].cell[o]
<1>1. o \in Offsets
  BY PagesAssumption DEF Offsets, PageHeaderSize
<1>2. old \in Cell /\ CellFits(o, old) /\ CellFits(o, c)
  BY <1>1 DEF FlashOK, FlashPage, CellsFit
<1>3. PICK d \in Overlay(old, c) : flash' = [flash EXCEPT ![p].cell[o] = d]
  BY DEF PutItem
<1>4. d \in Cell /\ CellFits(o, d)
  <2>. HIDE DEF o, old
  <2>1. CASE d \in {old, c}
    BY <1>2, <2>1
  <2>2. CASE d = DeadCell(old.size)
    BY <1>2, <2>2, CellTypes DEF Cell, DeadCell, CellFits
  <2>3. ASSUME NEW k \in {old.key, c.key} \cap Keys, d = TornCell(k)
        PROVE  d \in Cell /\ CellFits(o, d)
    <3>1. o + Size(k) + PageHeaderSize < PageSize
      BY <1>2, <2>3, SizeType, KeysAssumption DEF CellFits, Cell, ItemHeaderSize
    <3>. QED
      BY <2>3, <3>1, CellTypes DEF CellFits, TornCell
  <2>. QED
    BY <1>2, <1>3, <2>1, <2>2, <2>3 DEF Overlay
<1>. QED
  BY <1>1, <1>3, <1>4, CellWritten DEF Offsets

LEMMA WriteItemKeeps ==
  ASSUME DataInv, NEW p \in Pages, NEW c \in Cell, c.kind = "live", c.key \in Keys,
         c.size = Size(c.key), Storable(p, c.size), WriteItem(p, c)
  PROVE  DataInv' /\ \A q \in Pages : Status(q)' = Status(q)
<1>. USE DEF DataInv
<1>1. Used(p) \in Nat /\ ctx.page[p].cnt \in Nat /\ c.size \in Nat
  BY SizeType DEF CtxOK, Ctx, RamPage, Used
<1>2. Used(p) + c.size + PageHeaderSize < PageSize
  BY DEF Storable, Accessible
<1>3. FlashOK' /\ \A q \in Pages : flash'[q].status = flash[q].status
  <2>1. CellFits(Used(p), c)
    BY <1>2 DEF CellFits
  <2>2. Used(p) + PageHeaderSize < PageSize /\ PutItem(p, c)
    BY <1>1, <1>2, PagesAssumption DEF WriteItem, PageHeaderSize
  <2>. QED
    BY <1>1, <2>1, <2>2, PutItemKeeps
<1>4. ctx' = [ctx EXCEPT !.page[p].used = Used(p) + c.size,
                         !.page[p].cnt = ctx.page[p].cnt + 1]
  BY DEF WriteItem, Used
<1>5. /\ CtxOK' /\ ctx'.erased = ctx.erased
      /\ \A q \in Pages : Status(q)' = Status(q)
  <2>. DEFINE u == Used(p) + c.size
              n == ctx.page[p].cnt + 1
  <2>1. u \in Nat /\ n \in Nat /\ u + PageHeaderSize < PageSize
    BY <1>1, <1>2
  <2>2. ctx' = [ctx EXCEPT !.page[p].used = u, !.page[p].cnt = n]
    BY <1>4
  <2>. HIDE DEF u, n
  <2>. QED
    BY <2>1, <2>2, CountsKeep
<1>6. StatusMirrored' /\ ErasedExact'
  BY <1>3, <1>5 DEF StatusMirrored, ErasedExact
<1>. QED
  BY <1>3, <1>5, <1>6

LEMMA CountsAndCellsKeep ==
  ASSUME DataInv, FlashOK', CtxOK', ctx'.erased = ctx.erased,
         \A q \in Pages : flash'[q].status = flash[q].status /\ Status(q)' = Status(q)
  PROVE  DataInv'
BY DEF DataInv, StatusMirrored, ErasedExact

(* A restart forgets what RAM held. *)
LEMMA RestartKeeps ==
  ASSUME FlashOK', Restarted, RestOK, faults' \in 0..MaxFaults
  PROVE  IInv'
<1>1. \A p \in Pages : ctx'.page[p] = FreshPage("UNAVAILABLE") /\ Status(p)' = "UNAVAILABLE"
                          /\ Used(p)' = 0
  BY DEF Restarted, BootCtx, FreshPage, Status, Used
<1>2. CtxOK'
  <2>1. ctx' \in Ctx
    BY PagesFacts, FreshPageType DEF Restarted, BootCtx, Ctx, RamStatus
  <2>. QED
    BY <1>1, <2>1 DEF CtxOK, UsedFits
<1>3. StatusMirrored'
  BY <1>1 DEF StatusMirrored
<1>4. ErasedExact'
  <2>1. {p \in Pages : Status(p) = "ERASED"}' = {}
    BY <1>1
  <2>2. ctx'.erased = 0
    BY DEF Restarted, BootCtx
  <2>. QED
    BY <2>1, <2>2, FS_EmptySet DEF ErasedExact
<1>5. frame' = NoFrame /\ pc' = "Boot"
  BY DEF Restarted
<1>6. NoFrame \in Frame /\ NoFrame.pg = 0 /\ NoFrame.cnt = 0 /\ NoFrame.hits = 0
  BY PagesFacts DEF NoFrame, Frame, Location, NoLoc
<1>7. RestOK'
  <2>1. NoCall \in Call /\ NoRet \in Ret
    BY DEF NoCall, Call, NoRet, Ret
  <2>2. MayHaveWritten \in [Keys -> SUBSET (Vals \cup {NoVal})]
    BY DEF RestOK, MayHaveWritten, Call
  <2>. QED
    BY <1>5, <1>6, <2>1, <2>2 DEF Restarted, RestOK, PCs
<1>8. Control'
  BY <1>1, <1>5, <1>6, PagesFacts DEF Control, CallControl, BootControl,
       FindControl, DeleteControl, RealignControl
<1>. QED
  BY <1>2, <1>3, <1>4, <1>7, <1>8 DEF IInv, DataInv

------------------------------------------------------------------------------
(* What the parts of a call do to pc and the local variables. *)

LEMMA GotoKeeps ==
  ASSUME RestOK, NEW l \in PCs, Goto(l), frame' \in Frame
  PROVE  RestOK' /\ pc' = l /\ UNCHANGED call
BY DEF RestOK, Goto

LEMMA NoFrameType ==
  NoFrame \in Frame /\ NoFrame.cnt = 0 /\ NoFrame.hits = 0 /\ NoFrame.pg = 0
BY PagesFacts DEF NoFrame, Frame, Location, NoLoc

(* Outside the boot, a call that keeps its key only has to say what it     *)
(* knows of the page it deletes from and of the one it realigns.           *)
LEMMA ReturnKeeps ==
  ASSUME RestOK, NEW r \in Ret, NEW e \in [Keys -> SUBSET (Vals \cup {NoVal})],
         Return(r, e)
  PROVE  RestOK' /\ Control'
<1>1. RestOK'
  BY NoFrameType DEF RestOK, Return, PCs, Call, NoCall
<1>2. Control'
  BY NoFrameType DEF Return, Control, CallControl, BootControl, FindControl,
       DeleteControl, RealignControl
<1>. QED
  BY <1>1, <1>2

LEMMA MayHaveWrittenType ==
  ASSUME RestOK
  PROVE  MayHaveWritten \in [Keys -> SUBSET (Vals \cup {NoVal})]
BY DEF RestOK, MayHaveWritten, Call

LEMMA FailKeeps ==
  ASSUME RestOK, Fail
  PROVE  RestOK' /\ Control'
<1>. DEFINE r == [kind |-> "err", key |-> call.key, val |-> NoVal]
<1>1. r \in Ret
  BY DEF RestOK, Call, Ret
<1>2. Return(r, MayHaveWritten)
  BY DEF Fail
<1>. HIDE DEF r
<1>. QED
  BY <1>1, <1>2, ReturnKeeps, MayHaveWrittenType

LEMMA NextBootPageKeeps ==
  ASSUME RestOK, Control, pc \in {"Boot", "Scan"}, NextBootPage,
         \A q \in Pages : q > frame.pg => Status(q)' = Status(q)
  PROVE  RestOK' /\ Control'
<1>1. CASE frame.pg + 1 \in Pages
  <2>1. Goto("Boot") /\ frame' = [frame EXCEPT !.pg = @ + 1]
    BY <1>1 DEF NextBootPage
  <2>2. /\ frame' \in Frame /\ frame'.pg = frame.pg + 1 /\ frame.pg \in Int
        /\ frame'.cnt = frame.cnt /\ frame'.hits = frame.hits /\ frame'.last = frame.last
    BY <1>1, <2>1 DEF RestOK, Frame, Pages
  <2>3. RestOK' /\ pc' = "Boot"
    BY <2>1, <2>2, GotoKeeps DEF PCs
  <2>4. BootControl'
    BY <1>1, <2>2, <2>3 DEF Control, BootControl, Pages, Status
  <2>5. FindControl'
    BY <2>2 DEF Control, FindControl
  <2>. QED
    BY <2>3, <2>4, <2>5 DEF Control, CallControl, DeleteControl, RealignControl
<1>2. CASE frame.pg + 1 \notin Pages
  <2>1. Goto("Idle") /\ frame' = NoFrame
    BY <1>2 DEF NextBootPage
  <2>2. RestOK' /\ pc' = "Idle"
    BY <2>1, GotoKeeps, NoFrameType DEF PCs
  <2>. QED
    BY <2>1, <2>2, NoFrameType DEF Control, CallControl, BootControl, FindControl,
         DeleteControl, RealignControl
<1>. QED
  BY <1>1, <1>2

------------------------------------------------------------------------------
(* The steps of the boot. *)

LEMMA LoadSteps ==
  ASSUME IInv, LoadErased \/ LoadUnknown \/ LoadInUse
  PROVE  IInv'
<1>. USE DEF IInv
<1>. DEFINE p == frame.pg
<1>1. p \in Pages /\ pc = "Boot" /\ Status(p) = "UNAVAILABLE"
  BY DEF RestOK, Frame, LoadErased, LoadUnknown, LoadInUse, Control, BootControl
<1>2. /\ ctx = [active |-> ctx.active, erased |-> ctx.erased, page |-> ctx.page]
      /\ ctx.page \in [Pages -> RamPage]
  BY DEF DataInv, CtxOK, Ctx
<1>3. \A q \in Pages : q > p => q # p
  BY <1>1 DEF Pages
<1>4. CASE LoadErased
  <2>1. ctx' = [active |-> ctx.active, erased |-> ctx.erased + 1,
                page |-> [ctx.page EXCEPT ![p] = FreshPage(flash[p].status)]]
    BY <1>2, <1>4 DEF LoadErased
  <2>2. DataInv' /\ \A q \in Pages \ {p} : Status(q)' = Status(q)
    BY <1>1, <1>4, <2>1, LoadKeeps DEF LoadErased
  <2>3. RestOK' /\ Control'
    BY <1>1, <1>3, <1>4, <2>2, NextBootPageKeeps DEF LoadErased
  <2>. QED
    BY <2>2, <2>3
<1>5. CASE LoadUnknown
  <2>1. DataInv' /\ \A q \in Pages \ {p} : Status(q)' = Status(q)
    BY <1>1, <1>5, ErasePageKeeps DEF LoadUnknown
  <2>2. RestOK' /\ Control'
    BY <1>1, <1>3, <1>5, <2>1, NextBootPageKeeps DEF LoadUnknown
  <2>. QED
    BY <2>1, <2>2
<1>6. CASE LoadInUse
  <2>1. ctx' = [active |-> ctx.active, erased |-> ctx.erased,
                page |-> [ctx.page EXCEPT ![p] = FreshPage(flash[p].status)]]
    BY <1>2, <1>6 DEF LoadInUse
  <2>2. DataInv' /\ \A q \in Pages \ {p} : Status(q)' = Status(q)
    BY <1>1, <1>6, <2>1, LoadKeeps DEF LoadInUse
  <2>3. frame' = frame /\ RestOK' /\ pc' = "Scan"
    BY <1>6, GotoKeeps DEF LoadInUse, RestOK, PCs
  <2>4. BootControl'
    BY <1>1, <1>3, <2>2, <2>3 DEF Control, BootControl, Status
  <2>5. FindControl'
    BY <2>3 DEF Control, FindControl
  <2>. QED
    BY <2>2, <2>3, <2>4, <2>5 DEF Control, CallControl, DeleteControl, RealignControl
<1>. QED
  BY <1>4, <1>5, <1>6

LEMMA ScanSteps ==
  ASSUME IInv, ScanItem \/ ScanCorrupt \/ ScanAbort \/ ScanEnd
  PROVE  IInv'
<1>. USE DEF IInv
<1>. DEFINE p == frame.pg
<1>1. p \in Pages /\ pc = "Scan" /\ \A q \in Pages : q > p => q # p
  BY DEF RestOK, Frame, ScanItem, ScanCorrupt, ScanAbort, ScanEnd, Pages
<1>2. ctx.page \in [Pages -> RamPage] /\ ctx.page[p].cnt \in Nat /\ ScanOffset \in Nat
  BY <1>1 DEF DataInv, CtxOK, Ctx, RamPage, ScanOffset, Used
<1>3. ASSUME Accessible(ScanOffset, ItemHeaderSize)
      PROVE  /\ Scanned.size \in Nat
             /\ ScanOffset + Scanned.size = 0
                  \/ ScanOffset + Scanned.size + PageHeaderSize < PageSize
  <2>1. ScanOffset \in Offsets /\ ScanOffset + PageHeaderSize < PageSize
    BY <1>2, <1>3, PagesAssumption DEF Accessible, Offsets, ItemHeaderSize, PageHeaderSize
  <2>2. Scanned \in Cell /\ CellFits(ScanOffset, Scanned)
    BY <1>1, <2>1 DEF DataInv, FlashOK, FlashPage, CellsFit, Scanned
  <2>. QED
    BY <1>2, <2>1, <2>2 DEF Cell, CellFits
<1>4. ASSUME CtxOK', \A q \in Pages : Status(q)' = Status(q), Goto("Scan"),
             UNCHANGED frame
      PROVE  RestOK' /\ Control'
  <2>1. RestOK' /\ pc' = "Scan"
    BY <1>4, GotoKeeps DEF RestOK, PCs
  <2>2. BootControl'
    BY <1>1, <1>4, <2>1 DEF Control, BootControl, Status
  <2>3. FindControl'
    BY <1>4 DEF Control, FindControl
  <2>. QED
    BY <2>1, <2>2, <2>3 DEF Control, CallControl, DeleteControl, RealignControl
<1>5. CASE ScanItem
  <2>. DEFINE u == ScanOffset + Scanned.size
              n == IF Scanned.kind = "live" THEN ctx.page[p].cnt + 1 ELSE ctx.page[p].cnt
  <2>1. u \in Nat /\ n \in Nat /\ (u = 0 \/ u + PageHeaderSize < PageSize)
    BY <1>2, <1>3, <1>5 DEF ScanItem
  <2>2. ctx' = [ctx EXCEPT !.page[p].used = u, !.page[p].cnt = n]
    BY <1>5 DEF ScanItem, ScanOffset, Used
  <2>3. CtxOK' /\ ctx'.erased = ctx.erased /\ \A q \in Pages : Status(q)' = Status(q)
    <3>. HIDE DEF u, n
    <3>. QED
      BY <1>1, <2>1, <2>2, CountsKeep DEF DataInv
  <2>4. FlashOK' /\ flash' = flash
    BY <1>5 DEF ScanItem, DataInv, FlashOK, CellsFit
  <2>5. DataInv'
    BY <2>3, <2>4, CountsAndCellsKeep
  <2>. QED
    BY <1>4, <1>5, <2>3, <2>5 DEF ScanItem
<1>6. CASE ScanCorrupt
  <2>. DEFINE u == ScanOffset + Scanned.size
              n == ctx.page[p].cnt
  <2>1. u \in Nat /\ n \in Nat /\ (u = 0 \/ u + PageHeaderSize < PageSize)
    BY <1>2, <1>3, <1>6 DEF ScanCorrupt
  <2>2. ctx' = [ctx EXCEPT !.page[p].used = u, !.page[p].cnt = n]
    <3>1. ctx' = [ctx EXCEPT !.page[p].used = u]
      BY <1>6 DEF ScanCorrupt, ScanOffset, Used
    <3>2. [ctx EXCEPT !.page[p].used = u] = [ctx EXCEPT !.page[p].used = u, !.page[p].cnt = n]
      <4>1. [ctx.page[p] EXCEPT !.used = u] = [ctx.page[p] EXCEPT !.used = u, !.cnt = n]
        BY <1>1, <1>2 DEF RamPage
      <4>. QED
        BY <1>1, <1>2, <4>1 DEF DataInv, CtxOK, Ctx
    <3>. QED
      BY <3>1, <3>2
  <2>3. CtxOK' /\ ctx'.erased = ctx.erased /\ \A q \in Pages : Status(q)' = Status(q)
    <3>. HIDE DEF u, n
    <3>. QED
      BY <1>1, <2>1, <2>2, CountsKeep DEF DataInv
  <2>4. FlashOK' /\ \A q \in Pages : flash'[q].status = flash[q].status
    BY <1>1, <1>2, <1>6, MarkDeadKeeps DEF ScanCorrupt, DataInv
  <2>5. DataInv'
    BY <2>3, <2>4, CountsAndCellsKeep
  <2>. QED
    BY <1>4, <1>6, <2>3, <2>5 DEF ScanCorrupt
<1>7. CASE ScanAbort
  <2>1. DataInv'
    BY <1>7, DataUnchanged DEF ScanAbort
  <2>2. RestOK' /\ pc' = "Idle" /\ frame' = NoFrame
    BY <1>7, GotoKeeps, NoFrameType DEF ScanAbort, PCs
  <2>. QED
    BY <2>1, <2>2, NoFrameType DEF Control, CallControl, BootControl, FindControl,
         DeleteControl, RealignControl
<1>8. CASE ScanEnd
  <2>1. /\ DataInv'
        /\ \A q \in Pages \ {p} : Status(q)' = Status(q)
    <3>1. CASE Status(p) = "FULL" /\ ctx.page[p].cnt = 0
      <4>1. /\ flash' = [flash EXCEPT ![p] = BlankPage]
            /\ ctx' = [active |-> p, erased |-> ctx.erased + 1,
                       page |-> [ctx.page EXCEPT ![p] = FreshPage("ERASED")]]
        BY <1>8, <3>1 DEF ScanEnd, DataInv, CtxOK, Ctx
      <4>. QED
        BY <1>1, <3>1, <4>1, EraseKeeps
    <3>2. CASE ~(Status(p) = "FULL" /\ ctx.page[p].cnt = 0)
      <4>1. /\ flash' = flash /\ ctx'.page = ctx.page /\ ctx'.erased = ctx.erased
            /\ ctx' = [active |-> p, erased |-> ctx.erased, page |-> ctx.page]
        BY <1>8, <3>2 DEF ScanEnd, DataInv, CtxOK, Ctx
      <4>2. \A q \in Pages : Status(q)' = Status(q) /\ Used(q)' = Used(q)
        BY <4>1 DEF Status, Used
      <4>3. CtxOK'
        BY <1>1, <4>1, <4>2 DEF DataInv, CtxOK, Ctx, UsedFits
      <4>4. FlashOK'
        BY <4>1 DEF DataInv, FlashOK, CellsFit
      <4>. QED
        BY <4>1, <4>2, <4>3, <4>4, CountsAndCellsKeep
    <3>. QED
      BY <3>1, <3>2
  <2>2. RestOK' /\ Control'
    BY <1>1, <1>8, <2>1, NextBootPageKeeps DEF ScanEnd
  <2>. QED
    BY <2>1, <2>2
<1>. QED
  BY <1>5, <1>6, <1>7, <1>8

------------------------------------------------------------------------------
(* The steps of a call. *)

LEMMA CallStepKeeps ==
  ASSUME RestOK, Control, pc \notin {"Boot", "Scan", "Idle"},
         NEW l \in PCs \ {"Boot", "Scan"}, Goto(l), frame' \in Frame,
         FindControl', DeleteControl', RealignControl'
  PROVE  RestOK' /\ Control'
<1>1. RestOK' /\ pc' = l /\ call' = call
  BY GotoKeeps
<1>. QED
  BY <1>1 DEF Control, CallControl, BootControl

(* An item met below bytes_used is an item of a page. *)
LEMMA ItemFacts ==
  ASSUME FlashOK, CtxOK, NEW p \in Pages, NEW o \in Nat, o < Used(p)
  PROVE  /\ o \in Offsets /\ flash[p].cell[o] \in Cell
         /\ CellFits(o, flash[p].cell[o])
<1>1. Used(p) \in Nat /\ Used(p) + PageHeaderSize < PageSize
  BY DEF CtxOK, Ctx, RamPage, Used, UsedFits
<1>2. o \in Offsets
  BY <1>1, PagesAssumption DEF Offsets, PageHeaderSize
<1>. QED
  BY <1>2 DEF FlashOK, FlashPage, CellsFit

LEMMA FindSteps ==
  ASSUME IInv, Find
  PROVE  IInv'
<1>. USE DEF IInv
<1>1. frame \in Frame /\ frame.pg \in Pages /\ frame.off \in Nat
  BY DEF RestOK, Frame
<1>2. ASSUME InPage
      PROVE  Here \in Cell /\ frame.off \in Offsets
  BY <1>1, <1>2, ItemFacts DEF DataInv, InPage, Here
<1>3. ASSUME pc \in {"Page", "Find", "Hit", "Next"},
             NEW l \in {"Page", "Find", "Hit", "Next", "Found", "Del"},
             Goto(l), frame' \in Frame, FindControl',
             l = "Del" => frame'.del.page \in Pages
      PROVE  RestOK' /\ Control'
  <2>1. DeleteControl' /\ RealignControl'
    BY <1>3 DEF DeleteControl, RealignControl, Goto
  <2>. QED
    BY <1>3, <2>1, CallStepKeeps DEF PCs
<1>4. CASE FindPage
  <2>1. frame' \in Frame /\ FindControl'
    <3>1. /\ frame' \in Frame /\ frame'.cnt = frame.cnt /\ frame'.hits = 0
          /\ frame'.last = frame.last /\ frame.cnt \in Nat /\ frame.hits \in Nat
      BY <1>1, <1>4 DEF FindPage, Frame
    <3>. QED
      BY <3>1 DEF FindControl, Control
  <2>2. RestOK' /\ Control'
    <3>. DEFINE l == IF InUse(frame.pg) THEN "Find" ELSE "Next"
    <3>1. pc = "Page" /\ Goto(l) /\ l \in {"Find", "Next"}
      BY <1>4 DEF FindPage
    <3>. HIDE DEF l
    <3>. QED
      BY <1>3, <2>1, <3>1
  <2>. QED
    BY <1>4, <2>2, DataUnchanged DEF FindPage
<1>5. CASE FindPass
  <2>1. frame' \in Frame /\ FindControl'
    BY <1>1, <1>2, <1>5 DEF FindPass, Frame, Cell, FindControl, Control
  <2>2. RestOK' /\ Control'
    BY <1>3, <1>5, <2>1 DEF FindPass
  <2>. QED
    BY <1>5, <2>2, DataUnchanged DEF FindPass
<1>6. CASE FindCorrupt
  <2>1. frame' \in Frame /\ FindControl'
    BY <1>1, <1>2, <1>6 DEF FindCorrupt, Frame, Cell, FindControl, Control
  <2>2. RestOK' /\ Control'
    BY <1>3, <1>6, <2>1 DEF FindCorrupt
  <2>3. FlashOK' /\ \A q \in Pages : flash'[q].status = flash[q].status
    BY <1>1, <1>6, MarkDeadKeeps DEF FindCorrupt, DataInv
  <2>4. CtxOK' /\ ctx'.erased = ctx.erased /\ \A q \in Pages : Status(q)' = Status(q)
    BY <1>6 DEF FindCorrupt, DataInv, CtxOK, UsedFits, Used, Status
  <2>. QED
    BY <2>2, <2>3, <2>4, CountsAndCellsKeep
<1>7. CASE FindHit
  <2>. DEFINE v == IF frame.cnt = 0 THEN Here.val ELSE frame.val
              f == [frame EXCEPT !.val = v]
  <2>1. v \in Vals \cup {NoVal}
    BY <1>1, <1>2, <1>7 DEF FindHit, Frame, Cell
  <2>2. f \in Frame /\ f.cnt = frame.cnt /\ f.hits = frame.hits /\ f.last = frame.last
    <3>. HIDE DEF v
    <3>. QED
      BY <1>1, <2>1 DEF Frame
  <2>3. CASE frame.last.page = NoPage
    <3>1. pc = "Find" /\ Goto("Hit") /\ frame' = f
      BY <1>7, <2>3 DEF FindHit
    <3>2. frame' \in Frame /\ FindControl'
      BY <2>2, <3>1 DEF FindControl, Control
    <3>3. RestOK' /\ Control'
      BY <1>3, <3>1, <3>2
    <3>. QED
      BY <1>7, <3>3, DataUnchanged DEF FindHit
  <2>4. CASE frame.last.page # NoPage
    <3>1. pc = "Find" /\ Goto("Del")
            /\ frame' = [f EXCEPT !.del = frame.last, !.back = "Hit"]
      BY <1>7, <2>4 DEF FindHit
    <3>2. frame.last \in Location /\ frame.last.page \in Pages
      BY <1>1, <2>4 DEF Frame, Location
    <3>3. /\ frame' \in Frame /\ frame'.del.page \in Pages
          /\ FindControl'
      <4>. HIDE DEF f
      <4>. QED
        BY <2>2, <3>1, <3>2 DEF Frame, FindControl, Control
    <3>4. RestOK' /\ Control'
      BY <1>3, <3>1, <3>3
    <3>. QED
      BY <1>7, <3>4, DataUnchanged DEF FindHit
  <2>. QED
    BY <2>3, <2>4
<1>8. CASE FindKeep
  <2>1. Size(call.key) \in Nat
    BY <1>8, SizeType DEF FindKeep, Control, CallControl
  <2>2. frame' \in Frame /\ FindControl'
    <3>. DEFINE at == [page |-> frame.pg, off |-> frame.off]
                h == frame.hits + 1
                o == frame.off + Size(call.key)
    <3>1. at \in Location /\ at.page \in Pages /\ h \in Nat /\ o \in Nat
      BY <1>1, <2>1 DEF Frame, Location
    <3>2. frame' = [frame EXCEPT !.last = at, !.hits = h, !.off = o]
      BY <1>8 DEF FindKeep
    <3>. HIDE DEF at, h, o
    <3>3. frame' \in Frame /\ frame'.last = at
      BY <1>1, <3>1, <3>2 DEF Frame
    <3>. QED
      BY <3>1, <3>3 DEF FindControl
  <2>3. RestOK' /\ Control'
    BY <1>3, <1>8, <2>2 DEF FindKeep
  <2>. QED
    BY <1>8, <2>3, DataUnchanged DEF FindKeep
<1>9. CASE FindPageEnd
  <2>. DEFINE n == frame.cnt + frame.hits
              l == IF n = 1 THEN frame.last ELSE frame.loc
              f == [frame EXCEPT !.cnt = n, !.loc = l]
  <2>1. n \in Nat /\ l \in Location /\ (n > 0 => frame.last.page \in Pages)
    BY <1>1 DEF Frame, Control, FindControl
  <2>2. f \in Frame /\ f.cnt = n /\ f.hits = frame.hits /\ f.last = frame.last
    <3>. HIDE DEF n, l
    <3>. QED
      BY <1>1, <2>1 DEF Frame
  <2>3. f.cnt + f.hits > 0 => n > 0
    BY <1>1, <2>2 DEF Frame
  <2>4. CASE n > 1
    <3>1. pc = "Find" /\ Goto("Del")
            /\ frame' = [f EXCEPT !.del = frame.last, !.back = "Next"]
      BY <1>9, <2>4 DEF FindPageEnd
    <3>2. frame' \in Frame /\ frame'.del.page \in Pages /\ FindControl'
      <4>. HIDE DEF f, n
      <4>. QED
        <5>1. frame.last \in Location /\ frame.last.page \in Pages
          BY <1>1, <2>1, <2>4 DEF Frame
        <5>2. frame' \in Frame /\ frame'.del = frame.last /\ frame'.last = f.last
          BY <2>2, <3>1, <5>1 DEF Frame
        <5>. QED
          BY <2>2, <5>1, <5>2 DEF FindControl
    <3>3. RestOK' /\ Control'
      BY <1>3, <3>1, <3>2
    <3>. QED
      BY <1>9, <3>3, DataUnchanged DEF FindPageEnd
  <2>5. CASE ~(n > 1)
    <3>1. pc = "Find" /\ Goto("Next") /\ frame' = f
      BY <1>9, <2>5 DEF FindPageEnd
    <3>2. frame' \in Frame /\ FindControl'
      <4>. HIDE DEF f, n
      <4>. QED
        BY <2>1, <2>2, <2>3, <3>1 DEF FindControl
    <3>3. RestOK' /\ Control'
      BY <1>3, <3>1, <3>2
    <3>. QED
      BY <1>9, <3>3, DataUnchanged DEF FindPageEnd
  <2>. QED
    BY <2>4, <2>5
<1>10. CASE FindNextPage
  <2>1. frame' \in Frame /\ FindControl'
    BY <1>1, <1>10, PrevPageType DEF FindNextPage, Frame, FindControl, Control
  <2>2. RestOK' /\ Control'
    BY <1>3, <1>10, <2>1 DEF FindNextPage
  <2>. QED
    BY <1>10, <2>2, DataUnchanged DEF FindNextPage
<1>11. CASE ReadReturns
  <2>. DEFINE v == IF frame.cnt = 0 THEN NoVal ELSE frame.val
              r == [kind |-> "value", key |-> call.key, val |-> v]
              e == [expect EXCEPT ![call.key] = IF v \in @ THEN {v} ELSE @]
  <2>1. v \in Vals \cup {NoVal}
    BY <1>1 DEF Frame
  <2>2. r \in Ret
    <3>. HIDE DEF v
    <3>. QED
      BY <2>1 DEF RestOK, Call, Ret
  <2>3. e \in [Keys -> SUBSET (Vals \cup {NoVal})]
    <3>. HIDE DEF v
    <3>. QED
      BY <2>1 DEF RestOK
  <2>4. Return(r, e)
    BY <1>11 DEF ReadReturns
  <2>5. RestOK' /\ Control'
    <3>. HIDE DEF r, e
    <3>. QED
      BY <2>2, <2>3, <2>4, ReturnKeeps
  <2>. QED
    BY <1>11, <2>5, DataUnchanged DEF ReadReturns
<1>. QED
  BY <1>4, <1>5, <1>6, <1>7, <1>8, <1>9, <1>10, <1>11 DEF Find

LEMMA DeleteSteps ==
  ASSUME IInv, Delete
  PROVE  IInv'
<1>. USE DEF IInv
<1>. DEFINE p == frame.del.page
            back == frame.back
<1>1. /\ frame \in Frame /\ frame.del.off \in Nat
      /\ back \in {"Idle", "Hit", "Next", "Done"} /\ p \in Pages /\ pc \in {"Del", "DelErase"}
  BY DEF RestOK, Frame, Location, Delete, DelNothing, DelMismatch, DelMark, DelErase,
       Control, DeleteControl
<1>2. ctx.page[p].cnt \in Nat /\ ctx.page[p] \in RamPage /\ ctx.page \in [Pages -> RamPage]
  BY <1>1 DEF DataInv, CtxOK, Ctx, RamPage
<1>3. ASSUME NEW l \in {"Idle", "Hit", "Next", "Done", "DelErase"}, Goto(l),
             UNCHANGED frame, l = "DelErase" => Status(p)' = "FULL"
      PROVE  RestOK' /\ Control'
  <2>1. l \in PCs \ {"Boot", "Scan"} /\ pc' = l
    BY <1>3 DEF PCs, Goto
  <2>2. FindControl' /\ DeleteControl' /\ RealignControl'
    BY <1>1, <1>3, <2>1 DEF Control, FindControl, DeleteControl, RealignControl, Status
  <2>3. frame' \in Frame
    BY <1>1, <1>3
  <2>. QED
    BY <1>1, <1>3, <2>1, <2>2, <2>3, CallStepKeeps
<1>4. CASE DelNothing
  <2>1. Goto(back) /\ UNCHANGED frame
    BY <1>4 DEF DelNothing
  <2>2. RestOK' /\ Control'
    <3>. HIDE DEF back
    <3>. QED
      BY <1>1, <1>3, <2>1
  <2>. QED
    BY <1>4, <2>2, DataUnchanged DEF DelNothing
<1>5. CASE DelMismatch
  BY <1>5, FailKeeps, DataUnchanged DEF DelMismatch
<1>6. CASE DelMark
  <2>1. FlashOK' /\ \A q \in Pages : flash'[q].status = flash[q].status
    BY <1>1, <1>6, MarkDeadKeeps DEF DelMark, DataInv
  <2>2. CtxOK' /\ ctx'.erased = ctx.erased /\ \A q \in Pages : Status(q)' = Status(q)
    <3>. DEFINE u == Used(p)
                n == ctx.page[p].cnt - 1
    <3>1. u \in Nat /\ n \in Nat /\ (u = 0 \/ u + PageHeaderSize < PageSize)
      BY <1>1, <1>2, <1>6 DEF DelMark, DataInv, CtxOK, UsedFits, RamPage, Used
    <3>2. ctx' = [ctx EXCEPT !.page[p].used = u, !.page[p].cnt = n]
      <4>1. ctx' = [ctx EXCEPT !.page[p].cnt = n]
        BY <1>6 DEF DelMark
      <4>2. [ctx.page[p] EXCEPT !.cnt = n] = [ctx.page[p] EXCEPT !.used = u, !.cnt = n]
        BY <1>2 DEF RamPage, Used
      <4>. QED
        BY <1>1, <1>2, <4>1, <4>2 DEF DataInv, CtxOK, Ctx
    <3>. HIDE DEF u, n
    <3>. QED
      BY <1>1, <3>1, <3>2, CountsKeep DEF DataInv
  <2>3. DataInv'
    BY <2>1, <2>2, CountsAndCellsKeep
  <2>4. RestOK' /\ Control'
    <3>. DEFINE l == IF ctx.page[p].cnt = 1 /\ Status(p) = "FULL" THEN "DelErase" ELSE back
    <3>1. Goto(l) /\ UNCHANGED frame
      BY <1>6 DEF DelMark
    <3>2. /\ l \in {"Idle", "Hit", "Next", "Done", "DelErase"}
          /\ l = "DelErase" => Status(p) = "FULL"
      BY <1>1
    <3>3. Status(p)' = Status(p)
      BY <1>1, <2>2, <3>1 DEF Status
    <3>. HIDE DEF l
    <3>. QED
      BY <1>3, <3>1, <3>2, <3>3
  <2>. QED
    BY <2>3, <2>4
<1>7. CASE DelErase
  <2>1. Status(p) = "FULL" /\ ErasePage(p) /\ Goto(back) /\ UNCHANGED frame
    BY <1>7 DEF DelErase, Control, DeleteControl
  <2>2. DataInv'
    BY <1>1, <2>1, ErasePageKeeps
  <2>3. RestOK' /\ Control'
    <3>1. back # "DelErase"
      BY <1>1
    <3>. HIDE DEF back
    <3>. QED
      BY <1>1, <1>3, <2>1, <3>1
  <2>. QED
    BY <2>2, <2>3
<1>. QED
  BY <1>4, <1>5, <1>6, <1>7 DEF Delete

(* A step that keeps or changes pages without touching what the call has   *)
(* found, and goes to a part that deletes and realigns nothing.            *)
LEMMA PlainStepKeeps ==
  ASSUME RestOK, Control, pc \notin {"Boot", "Scan", "Idle"}, NEW p \in Pages,
         NEW l \in {"Take", "Append", "AppendSeal", "Recheck", "Wrote", "Done"}, Goto(l),
         frame' = [frame EXCEPT !.pg = p]
  PROVE  RestOK' /\ Control'
<1>1. /\ frame' \in Frame /\ frame'.cnt = frame.cnt /\ frame'.hits = frame.hits
      /\ frame'.last = frame.last
  BY DEF RestOK, Frame
<1>2. l \in PCs \ {"Boot", "Scan"}
  BY DEF PCs
<1>3. FindControl' /\ DeleteControl' /\ RealignControl'
  BY <1>1 DEF Control, FindControl, DeleteControl, RealignControl, Goto
<1>. QED
  BY <1>1, <1>2, <1>3, CallStepKeeps

LEMMA GetPageSteps ==
  ASSUME IInv, GetPage
  PROVE  IInv'
<1>. USE DEF IInv
<1>1. ASSUME NEW p \in Pages, UseCandidate(p)
      PROVE  IInv'
  <2>1. RestOK' /\ Control'
    BY <1>1, PlainStepKeeps DEF UseCandidate, Choosing, AppendTo
  <2>. QED
    BY <1>1, <2>1, DataUnchanged DEF UseCandidate
<1>2. ASSUME NEW p \in Pages, SealPage(p), pc \in {"Found", "Recheck"}
      PROVE  IInv'
  BY <1>2, PlainStepKeeps, UpdateKeeps DEF SealPage
<1>3. ASSUME NEW p \in Pages, TakePage(p)
      PROVE  IInv'
  BY <1>3, PlainStepKeeps, UpdateKeeps DEF TakePage, AppendTo
<1>4. CASE NoCandidate
  BY <1>4, PagesFacts, PlainStepKeeps, DataUnchanged DEF NoCandidate, Choosing
<1>5. CASE RecheckFails
  BY <1>5, FailKeeps, DataUnchanged DEF RecheckFails
<1>6. ctx.active # NoPage => ctx.active \in Pages
  BY DEF DataInv, CtxOK, Ctx
<1>7. CASE RecheckRoom
  BY <1>6, <1>7, PlainStepKeeps, DataUnchanged DEF RecheckRoom, AppendTo
<1>8. CASE RecheckSeal
  BY <1>2, <1>6, <1>8 DEF RecheckSeal
<1>9. CASE TakeFails
  BY <1>9, FailKeeps, DataUnchanged DEF TakeFails
<1>10. ASSUME NEW p \in Pages, SealCandidate(p)
       PROVE  IInv'
  BY <1>2, <1>10 DEF SealCandidate, Choosing
<1>. QED
  BY <1>1, <1>3, <1>4, <1>5, <1>7, <1>8, <1>9, <1>10 DEF GetPage

LEMMA RealignSteps ==
  ASSUME IInv, Realign
  PROVE  IInv'
<1>. USE DEF IInv
<1>. DEFINE v == frame.victim
<1>1. /\ frame \in Frame /\ frame.pg \in Pages /\ frame.off \in Nat /\ v \in Pages
      /\ ctx.active # NoPage => ctx.active \in Pages
  BY DEF RestOK, Frame, DataInv, CtxOK, Ctx
<1>2. ASSUME Moving
      PROVE  /\ frame.off \in Offsets /\ Moved \in Cell /\ Moved.size \in Nat
             /\ Moved.kind = "live" => Moved.key \in Keys /\ Moved.size = Size(Moved.key)
             /\ Status(v) = "FULL"
  <2>1. Moved \in Cell /\ frame.off \in Offsets /\ CellFits(frame.off, Moved)
    BY <1>1, <1>2, ItemFacts DEF Moving, Moved, DataInv
  <2>. QED
    BY <1>2, <2>1 DEF Cell, CellFits, Moving, Control, RealignControl
(* The step goes on with the realignment, of the page frame'.victim. *)
<1>3. ASSUME pc \in {"Found", "Realign", "RealignTake", "CopySeal"},
             NEW l \in {"Realign", "RealignTake", "CopySeal"}, Goto(l),
             frame' \in Frame, UNCHANGED <<frame.cnt, frame.hits, frame.last>>,
             ctx'.page[frame'.victim].status = "FULL",
             l = "RealignTake" => frame'.pg # frame'.victim
      PROVE  RestOK' /\ Control'
  <2>1. l \in PCs \ {"Boot", "Scan"} /\ pc' = l
    BY <1>3 DEF PCs, Goto
  <2>2. FindControl' /\ DeleteControl' /\ RealignControl'
    BY <1>3, <2>1 DEF Control, FindControl, DeleteControl, RealignControl, Status
  <2>. QED
    BY <1>3, <2>1, <2>2, CallStepKeeps
<1>4. frame = [frame EXCEPT !.pg = frame.pg]
  BY <1>1 DEF Frame
<1>5. ASSUME UNCHANGED frame, Goto("Recheck"), pc \in {"Found", "Realign"}
      PROVE  RestOK' /\ Control'
  <2>1. frame' = [frame EXCEPT !.pg = frame.pg]
    BY <1>1, <1>4, <1>5
  <2>. QED
    BY <1>1, <1>5, <2>1, PlainStepKeeps
<1>6. ASSUME NEW p \in Pages, RealignNone(p)
      PROVE  IInv'
  BY <1>5, <1>6, DataUnchanged DEF RealignNone, Crowded, Choosing
<1>7. ASSUME NEW p \in Pages, NEW w \in Pages, RealignStart(p, w)
      PROVE  IInv'
  <2>1. pc = "Found" /\ Goto("Realign") /\ Status(w) = "FULL" /\ UNCHANGED <<flash, ctx>>
    BY <1>7 DEF RealignStart, Crowded, Choosing, IsVictim
  <2>2. DataInv' /\ ctx'.page[w].status = "FULL"
    BY <2>1, DataUnchanged DEF Status
  <2>3. frame' \in Frame /\ UNCHANGED <<frame.cnt, frame.hits, frame.last>> /\ frame'.victim = w
    BY <1>1, <1>7 DEF RealignStart, Frame
  <2>. QED
    BY <1>1, <1>3, <2>1, <2>2, <2>3
<1>8. CASE RealignSkip
  <2>. DEFINE o == frame.off + Moved.size
  <2>1. o \in Nat /\ Moving
    BY <1>1, <1>2, <1>8 DEF RealignSkip
  <2>2. DataInv' /\ ctx'.page[v].status = "FULL"
    BY <1>1, <1>2, <1>8, <2>1, DataUnchanged DEF RealignSkip, Status
  <2>3. frame' = [frame EXCEPT !.off = o] /\ pc = "Realign" /\ Goto("Realign")
    BY <1>8 DEF RealignSkip, StepOver, Moving
  <2>4. frame' \in Frame /\ UNCHANGED <<frame.cnt, frame.hits, frame.last>> /\ frame'.victim = v
    <3>. HIDE DEF o
    <3>. QED
      BY <1>1, <2>1, <2>3 DEF Frame
  <2>. QED
    BY <1>3, <2>2, <2>3, <2>4
<1>9. CASE RealignCorrupt
  <2>. DEFINE o == frame.off + Moved.size
  <2>1. o \in Nat /\ Moving
    BY <1>1, <1>2, <1>9 DEF RealignCorrupt
  <2>2. FlashOK' /\ \A q \in Pages : flash'[q].status = flash[q].status
    BY <1>1, <1>9, MarkDeadKeeps DEF RealignCorrupt, DataInv
  <2>3. CtxOK' /\ ctx'.erased = ctx.erased /\ \A q \in Pages : Status(q)' = Status(q)
    <3>. DEFINE u == Used(v)
                c == ctx.page[v].cnt
                n == IF c > 0 THEN c - 1 ELSE c
    <3>1. ctx.page[v] \in RamPage /\ ctx.page \in [Pages -> RamPage]
      BY <1>1 DEF DataInv, CtxOK, Ctx
    <3>2. u \in Nat /\ n \in Nat /\ (u = 0 \/ u + PageHeaderSize < PageSize)
      BY <1>1, <3>1 DEF DataInv, CtxOK, UsedFits, RamPage, Used
    <3>3. ctx' = [ctx EXCEPT !.page[v].used = u, !.page[v].cnt = n]
      <4>1. ctx' = [ctx EXCEPT !.page[v].cnt = n]
        BY <1>9 DEF RealignCorrupt
      <4>2. [ctx.page[v] EXCEPT !.cnt = n] = [ctx.page[v] EXCEPT !.used = u, !.cnt = n]
        BY <3>1 DEF RamPage, Used
      <4>. QED
        BY <1>1, <3>1, <4>1, <4>2 DEF DataInv, CtxOK, Ctx
    <3>. HIDE DEF u, n
    <3>. QED
      BY <1>1, <3>2, <3>3, CountsKeep DEF DataInv
  <2>4. DataInv'
    BY <2>2, <2>3, CountsAndCellsKeep
  <2>5. frame' = [frame EXCEPT !.off = o] /\ pc = "Realign" /\ Goto("Realign")
    BY <1>9 DEF RealignCorrupt, StepOver, Moving
  <2>6. ctx'.page[v].status = "FULL"
    BY <1>1, <1>2, <2>1, <2>3, <2>5 DEF Status
  <2>7. RestOK' /\ Control'
    <3>. HIDE DEF o
    <3>1. frame' \in Frame /\ UNCHANGED <<frame.cnt, frame.hits, frame.last>> /\ frame'.victim = v
      BY <1>1, <2>1, <2>5 DEF Frame
    <3>. QED
      BY <1>3, <2>5, <2>6, <3>1
  <2>. QED
    BY <2>4, <2>7
<1>10. ASSUME NEW new \in Pages, RealignFull(new)
       PROVE  IInv'
  <2>1. /\ Moving /\ pc = "Realign" /\ Goto("RealignTake") /\ ctx.active \in Pages
        /\ frame' = [frame EXCEPT !.pg = new] /\ UpdateStatus(ctx.active, "FULL")
        /\ Status(new) = "ERASED" /\ Status(v) = "FULL" /\ new # v
    BY <1>1, <1>2, <1>10 DEF RealignFull, Moving, HasRoom, IsFirstPage
  <2>. DEFINE a == ctx.active
  <2>4. DataInv' /\ ctx'.page[v].status = "FULL"
    <3>1. /\ DataInv' /\ ctx'.page[a].status = "FULL"
          /\ \A q \in Pages \ {a} : ctx'.page[q].status = Status(q)
      BY <2>1, UpdateKeeps DEF Status
    <3>. QED
      BY <1>1, <2>1, <3>1
  <2>5. frame' \in Frame /\ UNCHANGED <<frame.cnt, frame.hits, frame.last>> /\ frame'.victim = v
          /\ frame'.pg = new
    BY <1>1, <2>1 DEF Frame
  <2>. QED
    BY <1>3, <2>1, <2>4, <2>5
<1>11. CASE RealignTake
  <2>1. /\ pc = "RealignTake" /\ UpdateStatus(frame.pg, "ACTIVE") /\ Goto("Realign")
        /\ UNCHANGED frame /\ Status(v) = "FULL" /\ frame.pg # v
    BY <1>11 DEF RealignTake, Control, RealignControl
  <2>2. DataInv' /\ ctx'.page[v].status = "FULL"
    BY <1>1, <2>1, UpdateKeeps DEF Status
  <2>. QED
    BY <1>1, <1>3, <2>1, <2>2
<1>12. CASE RealignFails
  BY <1>5, <1>12, DataUnchanged DEF RealignFails, Moving
<1>13. CASE RealignCopy
  <2>. DEFINE a == ctx.active
              o == frame.off + Moved.size
              l == IF Fills(a, Moved.size) THEN "CopySeal" ELSE "Realign"
  <2>1. /\ Moving /\ pc = "Realign" /\ Storable(a, Moved.size) /\ WriteItem(a, Moved)
        /\ Moved.kind = "live" /\ Goto(l) /\ frame' = [frame EXCEPT !.off = o, !.pg = a]
    BY <1>13 DEF RealignCopy, CanCopy, Moving, Movable
  <2>2. a \in Pages /\ o \in Nat /\ l \in {"Realign", "CopySeal"}
    BY <1>1, <1>2, <2>1 DEF Storable
  <2>3. DataInv' /\ \A q \in Pages : Status(q)' = Status(q)
    <3>. DEFINE c == Moved
    <3>1. /\ c \in Cell /\ c.kind = "live" /\ c.key \in Keys /\ c.size = Size(c.key)
          /\ Storable(a, c.size) /\ WriteItem(a, c)
      BY <1>2, <2>1
    <3>. HIDE DEF c
    <3>. QED
      BY <2>2, <3>1, WriteItemKeeps
  <2>4. ctx'.page[v].status = "FULL"
    BY <1>1, <1>2, <2>1, <2>3 DEF Status
  <2>5. RestOK' /\ Control'
    <3>. HIDE DEF a, o, l
    <3>1. frame' \in Frame /\ UNCHANGED <<frame.cnt, frame.hits, frame.last>> /\ frame'.victim = v
      BY <1>1, <2>1, <2>2 DEF Frame
    <3>. QED
      BY <1>3, <2>1, <2>2, <2>4, <3>1
  <2>. QED
    BY <2>3, <2>5
<1>14. CASE CopySeal
  <2>1. /\ pc = "CopySeal" /\ UpdateStatus(frame.pg, "FULL") /\ Goto("Realign")
        /\ UNCHANGED frame /\ Status(v) = "FULL"
    BY <1>14 DEF CopySeal, Control, RealignControl
  <2>2. DataInv' /\ ctx'.page[v].status = "FULL"
    BY <1>1, <2>1, UpdateKeeps DEF Status
  <2>. QED
    BY <1>1, <1>3, <2>1, <2>2
<1>15. CASE RealignEnd
  <2>1. pc = "Realign" /\ ErasePage(v) /\ Goto("Recheck") /\ UNCHANGED frame
          /\ Status(v) = "FULL"
    BY <1>15 DEF RealignEnd, Control, RealignControl
  <2>. QED
    BY <1>1, <1>5, <2>1, ErasePageKeeps
<1>. QED
  BY <1>6, <1>7, <1>8, <1>9, <1>10, <1>11, <1>12, <1>13, <1>14, <1>15 DEF Realign

LEMMA WriteSteps ==
  ASSUME IInv, Write
  PROVE  IInv'
<1>. USE DEF IInv
<1>1. /\ frame \in Frame /\ frame.pg \in Pages
      /\ frame = [frame EXCEPT !.pg = frame.pg]
  BY DEF RestOK, Frame
<1>2. ASSUME pc \in {"Append", "AppendSeal", "Wrote"}, UNCHANGED frame,
             NEW l \in {"AppendSeal", "Wrote", "Done"}, Goto(l)
      PROVE  RestOK' /\ Control'
  <2>1. frame' = [frame EXCEPT !.pg = frame.pg]
    BY <1>1, <1>2
  <2>. QED
    BY <1>1, <1>2, <2>1, PlainStepKeeps
<1>3. CASE AppendRefused
  BY <1>3, FailKeeps, DataUnchanged DEF AppendRefused
<1>4. CASE AppendItem
  <2>. DEFINE c == LiveCell(call.key, call.val)
              l == IF Fills(frame.pg, Need) THEN "AppendSeal" ELSE "Wrote"
  <2>1. pc = "Append" /\ Storable(frame.pg, Need) /\ WriteItem(frame.pg, c) /\ Goto(l)
          /\ UNCHANGED frame
    BY <1>4 DEF AppendItem, CanAppend
  <2>2. call.key \in Keys /\ call.val \in Vals \cup {NoVal}
    BY <2>1 DEF Control, CallControl, RestOK, Call
  <2>3. /\ c \in Cell /\ c.kind = "live" /\ c.key \in Keys /\ c.size = Size(c.key)
        /\ c.size = Need
    BY <2>2, SizeType DEF LiveCell, Cell, CellKinds, Need
  <2>4. DataInv'
    <3>. HIDE DEF c
    <3>. QED
      BY <1>1, <2>1, <2>3, WriteItemKeeps
  <2>5. RestOK' /\ Control'
    BY <1>2, <2>1
  <2>. QED
    BY <2>4, <2>5
<1>5. CASE AppendSeal
  BY <1>1, <1>2, <1>5, UpdateKeeps DEF AppendSeal
<1>6. CASE WriteDeletesOld
  <2>. DEFINE a == IF Status(frame.pg) = "ACTIVE" THEN frame.pg ELSE ctx.active
  <2>1. pc = "Wrote" /\ flash' = flash /\ ctx' = [ctx EXCEPT !.active = a]
    BY <1>6 DEF WriteDeletesOld
  <2>2. a \in Pages \cup {NoPage}
    BY <1>1 DEF DataInv, CtxOK, Ctx
  <2>3. DataInv'
    <3>. HIDE DEF a
    <3>1. ctx' \in Ctx /\ ctx'.page = ctx.page /\ ctx'.erased = ctx.erased
      BY <2>1, <2>2 DEF DataInv, CtxOK, Ctx
    <3>2. \A q \in Pages : Status(q)' = Status(q) /\ Used(q)' = Used(q)
      BY <3>1 DEF Status, Used
    <3>3. CtxOK' /\ FlashOK'
      BY <2>1, <3>1, <3>2 DEF DataInv, CtxOK, UsedFits, FlashOK, CellsFit
    <3>. QED
      BY <2>1, <3>1, <3>2, <3>3, CountsAndCellsKeep
  <2>4. CASE frame.loc.page = NoPage
    BY <1>2, <1>6, <2>1, <2>3, <2>4 DEF WriteDeletesOld
  <2>5. CASE frame.loc.page # NoPage
    <3>1. Goto("Del") /\ frame' = [frame EXCEPT !.del = frame.loc, !.back = "Done"]
      BY <1>6, <2>5 DEF WriteDeletesOld
    <3>2. frame.loc \in Location /\ frame.loc.page \in Pages
      BY <1>1, <2>5 DEF Frame, Location
    <3>3. /\ frame' \in Frame /\ frame'.del.page \in Pages
          /\ UNCHANGED <<frame.cnt, frame.hits, frame.last>>
      BY <1>1, <3>1, <3>2 DEF Frame
    <3>4. FindControl' /\ DeleteControl' /\ RealignControl'
      BY <3>1, <3>3 DEF Control, FindControl, DeleteControl, RealignControl, Goto
    <3>5. RestOK' /\ Control'
      BY <2>1, <3>1, <3>3, <3>4, CallStepKeeps DEF PCs
    <3>. QED
      BY <2>3, <3>5
  <2>. QED
    BY <2>4, <2>5
<1>7. CASE WriteReturns
  <2>. DEFINE r == [kind |-> "ok", key |-> call.key, val |-> call.val]
              e == [expect EXCEPT ![call.key] = {call.val}]
  <2>1. r \in Ret /\ e \in [Keys -> SUBSET (Vals \cup {NoVal})] /\ Return(r, e)
    BY <1>7 DEF WriteReturns, RestOK, Call, Ret
  <2>2. RestOK' /\ Control'
    <3>. HIDE DEF r, e
    <3>. QED
      BY <2>1, ReturnKeeps
  <2>. QED
    BY <1>7, <2>2, DataUnchanged DEF WriteReturns
<1>. QED
  BY <1>3, <1>4, <1>5, <1>6, <1>7 DEF Write

(* A call begins with a search that has found nothing yet. *)
LEMMA CallSteps ==
  ASSUME IInv, Calls
  PROVE  IInv'
<1>. USE DEF IInv
<1>1. PICK c \in Call : Begin(c) /\ c.key \in Keys
  <2>1. PICK k \in Keys : \/ st_read_item(k)
                          \/ \E v \in Vals : st_write_item(k, v)
    BY DEF Calls
  <2>2. [op |-> "read", key |-> k, val |-> NoVal] \in Call
    BY DEF Call
  <2>3. \A v \in Vals : [op |-> "write", key |-> k, val |-> v] \in Call
    BY DEF Call
  <2>. QED
    BY <2>1, <2>2, <2>3 DEF st_read_item, st_write_item
<1>2. RingStart \in Pages
  BY PagesFacts DEF RingStart, DataInv, CtxOK, Ctx
<1>3. frame' \in Frame /\ frame'.cnt = 0 /\ frame'.hits = 0
  <2>1. frame' = [NoFrame EXCEPT !.pg = RingStart, !.start = RingStart]
    BY <1>1 DEF Begin
  <2>. QED
    BY <1>2, <2>1, NoFrameType DEF Frame
<1>4. RestOK'
  BY <1>1, <1>3 DEF Begin, RestOK, PCs, Ret, NoRet
<1>5. Control'
  BY <1>1, <1>3 DEF Begin, Control, CallControl, BootControl, FindControl,
       DeleteControl, RealignControl
<1>6. DataInv'
  BY <1>1, DataUnchanged DEF Begin
<1>. QED
  BY <1>4, <1>5, <1>6

(* Faults leave flash in a state the boot can read. *)
LEMMA FaultSteps ==
  ASSUME IInv, Reset \/ PowerLoss \/ TornWrite \/ TornErase \/ Decay
  PROVE  IInv'
<1>. USE DEF IInv
<1>1. faults' \in 0..MaxFaults
  BY FaultsAssumption DEF RestOK, Reset, PowerLoss, TornWrite, TornErase, Decay, Fault
<1>2. CASE Reset \/ PowerLoss
  <2>1. FlashOK' /\ Restarted
    BY <1>2 DEF Reset, PowerLoss, DataInv, FlashOK, CellsFit
  <2>. QED
    BY <1>1, <2>1, RestartKeeps
<1>3. ASSUME NEW p \in Pages, NEW k \in Keys, Storable(p, Size(k)), TearItem(p, k),
             Restarted
      PROVE  IInv'
  <2>1. PICK c \in {HoleCell(k), TornCell(k)} : PutItem(p, c)
    BY <1>3 DEF TearItem
  <2>2. Used(p) \in Nat /\ Used(p) + Size(k) + PageHeaderSize < PageSize
    BY <1>3 DEF DataInv, CtxOK, Ctx, RamPage, Used, Storable, Accessible
  <2>3. c \in Cell /\ CellFits(Used(p), c)
    <3>1. c \in Cell /\ c.size = Size(k)
      <4>1. HoleCell(k).size = Size(k) /\ TornCell(k).size = Size(k)
        BY DEF HoleCell, TornCell
      <4>. QED
        BY <2>1, <4>1, CellTypes
    <3>2. IF c.kind \in {"live", "torn"} THEN c.key = k ELSE c.key = NoKey
      BY <2>1 DEF HoleCell, TornCell
    <3>. QED
      BY <2>2, <3>1, <3>2 DEF CellFits
  <2>4. Used(p) + PageHeaderSize < PageSize
    BY <2>2, SizeType, PagesAssumption DEF PageHeaderSize
  <2>5. FlashOK'
    BY <2>1, <2>2, <2>3, <2>4, PutItemKeeps DEF DataInv
  <2>. QED
    BY <1>1, <1>3, <2>5, RestartKeeps
<1>4. CASE TornWrite
  <2>1. CASE CanAppend /\ TearItem(frame.pg, call.key)
    <3>1. frame.pg \in Pages /\ call.key \in Keys /\ Storable(frame.pg, Size(call.key))
      BY <2>1 DEF CanAppend, Need, Storable, Control, CallControl
    <3>. QED
      BY <1>3, <1>4, <2>1, <3>1 DEF TornWrite
  <2>2. CASE CanCopy /\ TearItem(ctx.active, Moved.key)
    <3>1. frame.victim \in Pages /\ frame.off \in Nat
      BY DEF RestOK, Frame
    <3>2. CellFits(frame.off, Moved)
      BY <2>2, <3>1, ItemFacts DEF CanCopy, Moving, Moved, DataInv
    <3>3. Moved.key \in Keys /\ Moved.size = Size(Moved.key)
      BY <2>2, <3>2 DEF CanCopy, Movable, CellFits
    <3>4. ctx.active \in Pages /\ Storable(ctx.active, Size(Moved.key))
      BY <2>2, <3>3 DEF CanCopy, Storable
    <3>. QED
      BY <1>3, <1>4, <2>2, <3>3, <3>4 DEF TornWrite
  <2>. QED
    BY <1>4, <2>1, <2>2 DEF TornWrite
<1>5. CASE TornErase
  <2>1. PICK p \in Pages, st \in {"ERASED", "UNKNOWN"} :
          flash' = [flash EXCEPT ![p].status = st]
    BY <1>5 DEF TornErase
  <2>2. FlashOK'
    BY <2>1 DEF DataInv, FlashOK, FlashPage, FlashStatus, CellsFit
  <2>. QED
    BY <1>1, <1>5, <2>2, RestartKeeps DEF TornErase
<1>6. CASE Decay
  <2>1. PICK p \in Pages, o \in Offsets :
          /\ flash[p].cell[o].kind = "live"
          /\ flash' = [flash EXCEPT ![p].cell[o] = TornCell(flash[p].cell[o].key)]
    BY <1>6 DEF Decay
  <2>2. flash[p].cell[o] \in Cell /\ CellFits(o, flash[p].cell[o])
    BY DEF DataInv, FlashOK, FlashPage, CellsFit
  <2>. DEFINE c == TornCell(flash[p].cell[o].key)
  <2>3. c \in Cell /\ CellFits(o, c)
    BY <2>1, <2>2, CellTypes DEF CellFits, TornCell
  <2>4. FlashOK' /\ \A q \in Pages : flash'[q].status = flash[q].status
    <3>1. o \in Nat /\ flash' = [flash EXCEPT ![p].cell[o] = c]
      BY <2>1 DEF Offsets
    <3>. HIDE DEF c
    <3>. QED
      BY <2>3, <3>1, CellWritten DEF DataInv
  <2>5. CtxOK' /\ ctx' = ctx /\ \A q \in Pages : Status(q)' = Status(q)
    BY <1>6 DEF Decay, DataInv, CtxOK, UsedFits, Used, Status
  <2>6. DataInv'
    BY <2>4, <2>5, CountsAndCellsKeep
  <2>7. RestOK' /\ Control'
    BY <1>1, <1>6, <2>5 DEF Decay, RestOK, Control, CallControl, BootControl,
         FindControl, DeleteControl, RealignControl, Status
  <2>. QED
    BY <2>6, <2>7
<1>. QED
  BY <1>2, <1>4, <1>5, <1>6

------------------------------------------------------------------------------
(* The theorems. *)

LEMMA InitInv ==
  ASSUME Init
  PROVE  IInv
<1>1. \A p \in Pages : flash[p] = BlankPage /\ Status(p) = "UNAVAILABLE" /\ Used(p) = 0
  BY DEF Init, BootCtx, FreshPage, Status, Used
<1>2. FlashOK
  BY <1>1, BlankPageOK DEF Init, FlashOK, CellsFit, CellFits, BlankPage, Blank
<1>3. CtxOK
  <2>1. ctx \in Ctx
    BY PagesFacts, FreshPageType DEF Init, BootCtx, Ctx, RamStatus
  <2>. QED
    BY <1>1, <2>1 DEF CtxOK, UsedFits
<1>4. StatusMirrored
  BY <1>1 DEF StatusMirrored
<1>5. ErasedExact
  <2>1. {p \in Pages : Status(p) = "ERASED"} = {}
    BY <1>1
  <2>2. ctx.erased = 0
    BY DEF Init, BootCtx
  <2>. QED
    BY <2>1, <2>2, FS_EmptySet DEF ErasedExact
<1>6. RestOK
  BY NoFrameType, FaultsAssumption DEF Init, RestOK, PCs, NoCall, Call, NoRet, Ret
<1>7. Control
  BY <1>1, NoFrameType, PagesFacts DEF Init, Control, CallControl, BootControl,
       FindControl, DeleteControl, RealignControl
<1>. QED
  BY <1>2, <1>3, <1>4, <1>5, <1>6, <1>7 DEF IInv, DataInv

LEMMA NextInv ==
  ASSUME IInv, [Next]_vars
  PROVE  IInv'
<1>1. CASE Boot
  BY <1>1, LoadSteps, ScanSteps DEF Boot
<1>2. CASE Find
  BY <1>2, FindSteps
<1>3. CASE Delete
  BY <1>3, DeleteSteps
<1>4. CASE GetPage
  BY <1>4, GetPageSteps
<1>5. CASE Realign
  BY <1>5, RealignSteps
<1>6. CASE Write
  BY <1>6, WriteSteps
<1>7. CASE Calls
  BY <1>7, CallSteps
<1>8. CASE Reset \/ PowerLoss \/ TornWrite \/ TornErase \/ Decay
  BY <1>8, FaultSteps
<1>9. CASE UNCHANGED vars
  <2>1. DataInv'
    BY <1>9, DataUnchanged DEF vars, IInv
  <2>2. RestOK' /\ Control'
    BY <1>9 DEF vars, IInv, RestOK, Control, CallControl, BootControl, FindControl,
         DeleteControl, RealignControl, Status
  <2>. QED
    BY <2>1, <2>2 DEF IInv
<1>. QED
  BY <1>1, <1>2, <1>3, <1>4, <1>5, <1>6, <1>7, <1>8, <1>9 DEF Next, Step

(* The invariant the others follow from holds in every reachable state,    *)
(* whatever faults strike at whatever moment.                              *)
THEOREM Invariance == Spec => []IInv
<1>1. Init => IInv
  BY InitInv
<1>2. IInv /\ [Next]_vars => IInv'
  BY NextInv
<1>. QED
  BY <1>1, <1>2, PTL DEF Spec

(* Every variable keeps its type: no offset, page index or counter leaves  *)
(* its range in storage.c, and no item runs past the end of its page.      *)
THEOREM TypeCorrect == Spec => []TypeOK
<1>1. IInv => TypeOK
  BY DEF IInv, DataInv, FlashOK, CtxOK, RestOK, TypeOK
<1>. QED
  BY <1>1, Invariance, PTL

(* page_erased is the number of pages RAM holds erased, so that            *)
(* st_get_available_page (storage.c:848) realigns exactly when at most two *)
(* erased pages are left.                                                  *)
THEOREM ErasedPagesCounted == Spec => []ErasedExact
<1>1. IInv => ErasedExact
  BY DEF IInv, DataInv
<1>. QED
  BY <1>1, Invariance, PTL

(* RAM and flash agree on the status of every loaded page, but for a page  *)
(* marked FULL and taken as ACTIVE again by one realignment.               *)
THEOREM StatusAgrees == Spec => []StatusMirrored
<1>1. IInv => StatusMirrored
  BY DEF IInv, DataInv
<1>. QED
  BY <1>1, Invariance, PTL
=============================================================================
