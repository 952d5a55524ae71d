-------------------------- MODULE StorageDataProofs --------------------------
(* What the store of storage.c does with the items, for every number of    *)
(* pages, page size, set of keys and contents: the layout of the pages,    *)
(* the counts that decide their erase, the copies of an item, what a read  *)
(* returns, and that the store implements the map of KVStore.              *)
(*                                                                         *)
(* The theorems about copies are about behaviours in which none of the     *)
(* mishaps of NoMishap comes up: with one of them the store does lose or   *)
(* outdate items, as the runs that end in a violation show.  The theorems  *)
(* at the end show that none comes up in a store with the room that Roomy  *)
(* asks for.                                                               *)
EXTENDS StorageProofs

------------------------------------------------------------------------------
(* The layout of a page: f is its cells by offset.                         *)
(*                                                                         *)
(* The items follow each other without gap or overlap from offset 0 on, so *)
(* that the walks of st_page_scan, st_page_find_item and st_page_realign   *)
(* meet each of them.                                                      *)

Occupied(f, o) == o \in Offsets /\ f[o].kind # "blank"

Follows(f, u) == \A o \in Offsets : o >= u /\ Occupied(f, o) => Occupied(f, u)

(* A place such a walk can be at: an item ends there, and none lies across. *)
Position(f, u) ==
  /\ u = 0 \/ \E o \in Offsets : Occupied(f, o) /\ o + f[o].size = u
  /\ \A o \in Offsets : o < u /\ Occupied(f, o) => o + f[o].size <= u
  /\ Follows(f, u)

(* Without torn writes there is no hole, and without decay nothing is torn. *)
Neat(c) ==
  /\ c.kind = "blank" => c = Blank
  /\ c.kind # "blank" => c.size > ItemHeaderSize
  /\ c.kind # "hole" /\ ("decay" \notin Faults => c.kind # "torn")

Tidy(f) ==
  /\ \A o \in Offsets : Neat(f[o])
  /\ \A a, b \in Offsets :
       a < b /\ Occupied(f, a) /\ Occupied(f, b) => a + f[a].size <= b
  /\ Follows(f, 0)
  /\ \A a \in Offsets : Occupied(f, a) => Follows(f, a + f[a].size)

EmptyFrom(f, u) == \A o \in Offsets : o >= u => ~Occupied(f, o)

(* The items below u that are not deleted, which item_cnt counts: all of   *)
(* them, or more when items decayed after they were counted.               *)
Items(f, u) == {o \in Offsets : o < u /\ f[o].key # NoKey}
Counts(f, r) ==
  /\ r.cnt >= Cardinality(Items(f, r.used))
  /\ "decay" \notin Faults => r.cnt = Cardinality(Items(f, r.used))

(* A page in flash and what RAM knows of it; whole says that the boot has  *)
(* scanned it to its end.                                                  *)
PageOK(fp, rp, whole) ==
  /\ Tidy(fp.cell) /\ fp.status # "UNKNOWN"
  /\ fp.status = "ERASED" => EmptyFrom(fp.cell, 0)
  /\ rp.status \in {"UNAVAILABLE", "ERASED"} => rp.cnt = 0 /\ rp.used = 0
  /\ rp.status # "UNAVAILABLE" =>
       /\ Position(fp.cell, rp.used) /\ Counts(fp.cell, rp)
       /\ whole => EmptyFrom(fp.cell, rp.used)

Cells == [Offsets -> Cell]
Fits(f) == \A o \in Offsets : CellFits(o, f[o])

LEMMA OffsetsFacts ==
  /\ \A o \in Offsets : o \in Nat /\ o < PageSize
  /\ \A u \in Nat : u < PageSize => u \in Offsets
BY PagesAssumption DEF Offsets

LEMMA ItemsFinite ==
  ASSUME NEW S, S \subseteq Offsets
  PROVE  IsFiniteSet(S) /\ Cardinality(S) \in Nat
<1>1. IsFiniteSet(Offsets)
  BY FS_Interval, PagesAssumption DEF Offsets
<1>. QED
  BY <1>1, FS_Subset, FS_CardinalityType

(* A cell with an index is a live or a torn item. *)
LEMMA KeyedCell ==
  ASSUME NEW o, NEW c \in Cell, CellFits(o, c)
  PROVE  c.key # NoKey <=> c.kind \in {"live", "torn"}
BY KeysAssumption DEF CellFits

LEMMA BlankCell == Blank.kind = "blank" /\ Blank.key = NoKey /\ Blank.size = 0
BY DEF Blank

LEMMA BlankPageTidy ==
  ASSUME NEW w \in BOOLEAN
  PROVE  PageOK(BlankPage, FreshPage("ERASED"), w)
<1>. DEFINE f == BlankPage.cell
<1>1. \A o \in Offsets : f[o] = Blank /\ ~Occupied(f, o)
  BY BlankCell DEF BlankPage, Occupied
<1>2. BlankPage.status = "ERASED"
  BY DEF BlankPage
<1>3. Tidy(f) /\ EmptyFrom(f, 0) /\ Position(f, 0)
  BY <1>1, BlankCell DEF Tidy, Neat, Follows, EmptyFrom, Position
<1>4. Items(f, 0) = {}
  BY <1>1, BlankCell DEF Items
<1>. HIDE DEF f
<1>5. FreshPage("ERASED").used = 0 /\ FreshPage("ERASED").cnt = 0
        /\ FreshPage("ERASED").status = "ERASED"
  BY DEF FreshPage
<1>6. Counts(f, FreshPage("ERASED"))
  BY <1>4, <1>5, FS_EmptySet DEF Counts
<1>. QED
  BY <1>2, <1>3, <1>5, <1>6 DEF PageOK, f

(* The walks.  Where a walk is at, an item is met or the page ends. *)
LEMMA WalkEnds ==
  ASSUME NEW f, NEW u \in Offsets, Position(f, u), f[u].kind = "blank"
  PROVE  EmptyFrom(f, u)
BY DEF Position, Follows, EmptyFrom, Occupied

LEMMA WalkOn ==
  ASSUME NEW f \in Cells, Tidy(f), NEW u \in Offsets, Position(f, u), Occupied(f, u)
  PROVE  Position(f, u + f[u].size) /\ f[u].size > ItemHeaderSize
<1>1. f[u].size \in Nat /\ f[u].size > ItemHeaderSize /\ u \in Nat
  BY OffsetsFacts DEF Cells, Cell, Tidy, Neat, Occupied
<1>2. ASSUME NEW o \in Offsets, o < u + f[u].size, Occupied(f, o)
      PROVE  o + f[o].size <= u + f[u].size
  <2>1. o <= u
    BY <1>1, <1>2, OffsetsFacts DEF Tidy
  <2>2. CASE o = u
    BY <1>1, <2>2
  <2>3. CASE o < u
    <3>1. o + f[o].size <= u /\ f[o].size \in Nat /\ o \in Nat
      BY <1>2, <2>3, OffsetsFacts DEF Position, Cells, Cell
    <3>. QED
      BY <1>1, <3>1
  <2>. QED
    BY <1>1, <2>1, <2>2, <2>3, OffsetsFacts
<1>. QED
  BY <1>1, <1>2 DEF Position, Tidy

(* The items met are those of the page: no item lies between two places.   *)
LEMMA WalkCounts ==
  ASSUME NEW f \in Cells, Tidy(f), NEW u \in Offsets, Position(f, u), Occupied(f, u)
  PROVE  Cardinality(Items(f, u + f[u].size)) =
           IF f[u].key # NoKey THEN Cardinality(Items(f, u)) + 1
                               ELSE Cardinality(Items(f, u))
<1>. DEFINE w == u + f[u].size
<1>1. f[u].size \in Nat /\ f[u].size > ItemHeaderSize /\ u \in Nat
  BY OffsetsFacts DEF Cells, Cell, Tidy, Neat, Occupied
<1>2. \A o \in Offsets : f[o].key # NoKey => Occupied(f, o)
  BY BlankCell DEF Tidy, Neat, Occupied
<1>3. \A o \in Offsets : Occupied(f, o) => (o < w <=> o <= u)
  BY <1>1, OffsetsFacts DEF Tidy, ItemHeaderSize
<1>4. Items(f, w) = IF f[u].key # NoKey THEN Items(f, u) \cup {u} ELSE Items(f, u)
  <2>. HIDE DEF w
  <2>1. \A o \in Offsets : f[o].key # NoKey => (o < w <=> o < u \/ o = u)
    BY <1>1, <1>2, <1>3, OffsetsFacts
  <2>2. \A o \in Offsets : o \in Items(f, w) <=>
          o \in Items(f, u) \/ (o = u /\ f[u].key # NoKey)
    BY <2>1 DEF Items
  <2>3. Items(f, w) \subseteq Offsets /\ Items(f, u) \subseteq Offsets
    BY DEF Items
  <2>. QED
    BY <2>2, <2>3
<1>5. u \notin Items(f, u) /\ IsFiniteSet(Items(f, u))
  BY <1>1, ItemsFinite DEF Items
<1>6. Cardinality(Items(f, u) \cup {u}) = Cardinality(Items(f, u)) + 1
  BY <1>5, FS_AddElement
<1>. QED
  BY <1>4, <1>6

(* An item is written at the end of a page. *)
LEMMA AppendTidy ==
  ASSUME NEW f \in Cells, NEW g, Tidy(f), NEW u \in Offsets, Position(f, u),
         EmptyFrom(f, u), NEW c \in Cell, Neat(c), c.kind # "blank",
         g = [f EXCEPT ![u] = c]
  PROVE  Tidy(g) /\ Position(g, u + c.size) /\ EmptyFrom(g, u + c.size)
<1>1. c.size \in Nat /\ c.size > ItemHeaderSize /\ u \in Nat
  BY OffsetsFacts DEF Cell, Neat
<1>2. \A o \in Offsets : g[o] = IF o = u THEN c ELSE f[o]
  BY DEF Cells
<1>3. \A o \in Offsets : Occupied(g, o) <=> o = u \/ (o < u /\ Occupied(f, o))
  BY <1>1, <1>2, OffsetsFacts DEF Occupied, EmptyFrom
<1>4. \A o \in Offsets : o < u => g[o] = f[o] /\ (Occupied(g, o) <=> Occupied(f, o))
  BY <1>1, <1>2, OffsetsFacts DEF Occupied
<1>5. g[u] = c /\ Occupied(g, u) /\ u < u + c.size
  BY <1>1, <1>2 DEF ItemHeaderSize, Occupied
<1>6. \A o \in Offsets : Occupied(g, o) => o <= u
  BY <1>1, <1>3, OffsetsFacts
<1>7. Position(g, u + c.size) /\ EmptyFrom(g, u + c.size)
  <2>1. ASSUME NEW o \in Offsets, Occupied(g, o)
        PROVE  o + g[o].size <= u + c.size /\ ~(o >= u + c.size)
    <3>1. CASE o = u
      BY <1>1, <1>5, <3>1 DEF ItemHeaderSize
    <3>2. CASE o < u
      <4>1. o + f[o].size <= u /\ f[o].size \in Nat /\ o \in Nat /\ g[o] = f[o]
        BY <1>4, <2>1, <3>2, OffsetsFacts DEF Position, Cells, Cell
      <4>. QED
        BY <1>1, <3>2, <4>1
    <3>. QED
      BY <1>1, <1>6, <2>1, <3>1, <3>2, OffsetsFacts
  <2>. QED
    BY <1>5, <2>1 DEF Position, Follows, EmptyFrom
<1>8. \A o \in Offsets : Neat(g[o])
  BY <1>2 DEF Tidy
<1>9. ASSUME NEW a \in Offsets, NEW b \in Offsets, a < b, Occupied(g, a), Occupied(g, b)
      PROVE  a + g[a].size <= b
  <2>1. a < u /\ b <= u /\ g[a] = f[a] /\ Occupied(f, a)
    <3>1. a \in Nat /\ b \in Nat /\ b <= u
      BY <1>6, <1>9, OffsetsFacts
    <3>2. a < u
      BY <1>1, <1>9, <3>1
    <3>. QED
      BY <1>4, <1>9, <3>1, <3>2
  <2>2. CASE b = u
    BY <2>1, <2>2 DEF Position
  <2>3. CASE b < u
    BY <1>4, <1>9, <2>1, <2>3 DEF Tidy
  <2>. QED
    BY <1>1, <2>1, <2>2, <2>3, OffsetsFacts
(* Where the items of f end before u, the one that ends at u follows. *)
<1>10. ASSUME NEW x \in Nat, x <= u, Follows(f, x),
              \A o \in Offsets : Occupied(f, o) /\ o + f[o].size = u /\ x < u => o >= x
       PROVE  Follows(g, x)
  <2>1. CASE x = u
    BY <1>5, <2>1 DEF Follows
  <2>2. CASE x < u
    <3>1. PICK o \in Offsets : Occupied(f, o) /\ o + f[o].size = u
      BY <1>10, <2>2 DEF Position
    <3>2. Occupied(f, x) /\ x \in Offsets
      BY <1>10, <2>2, <3>1 DEF Follows, Occupied
    <3>. QED
      BY <1>4, <2>2, <3>2 DEF Follows
  <2>. QED
    BY <1>1, <1>10, <2>1, <2>2
<1>11. Follows(g, 0)
  <2>1. 0 \in Nat /\ 0 <= u /\ Follows(f, 0)
    BY <1>1 DEF Tidy
  <2>2. \A o \in Offsets : o >= 0
    BY OffsetsFacts
  <2>. QED
    BY <1>10, <2>1, <2>2
<1>12. ASSUME NEW a \in Offsets, Occupied(g, a)
       PROVE  Follows(g, a + g[a].size)
  <2>1. CASE a = u
    BY <1>5, <1>7, <2>1 DEF Position
  <2>2. CASE a < u
    <3>1. /\ Occupied(f, a) /\ g[a] = f[a] /\ a + f[a].size <= u
          /\ Follows(f, a + f[a].size) /\ a + f[a].size \in Nat /\ a + f[a].size > a
      BY <1>4, <1>12, <2>2, OffsetsFacts DEF Position, Tidy, Neat, Cells, Cell, Occupied,
           ItemHeaderSize
    <3>2. ASSUME NEW o \in Offsets, Occupied(f, o), o + f[o].size = u,
                 a + f[a].size < u
          PROVE  o >= a + f[a].size
      <4>1. o \in Nat /\ a \in Nat /\ f[o].size \in Nat /\ f[o].size > ItemHeaderSize
        BY <3>2, OffsetsFacts DEF Tidy, Neat, Cells, Cell, Occupied
      <4>2. ~(o < a)
        BY <2>2, <3>1, <3>2, <4>1 DEF Tidy
      <4>3. o # a
        BY <3>2, <4>1
      <4>4. CASE o > a
        BY <3>1, <3>2, <4>4 DEF Tidy
      <4>. QED
        BY <4>1, <4>2, <4>3, <4>4
    <3>. QED
      BY <1>10, <3>1, <3>2
  <2>. QED
    <3>1. a \in Nat /\ a <= u
      BY <1>6, <1>12, OffsetsFacts
    <3>. QED
      BY <1>1, <2>1, <2>2, <3>1
<1>. QED
  BY <1>7, <1>8, <1>9, <1>11, <1>12 DEF Tidy

LEMMA AppendCounts ==
  ASSUME NEW f \in Cells, NEW g, Tidy(f), NEW u \in Offsets, Position(f, u),
         NEW c \in Cell, Neat(c), c.kind # "blank", c.key # NoKey,
         EmptyFrom(f, u), g = [f EXCEPT ![u] = c]
  PROVE  Cardinality(Items(g, u + c.size)) = Cardinality(Items(f, u)) + 1
<1>1. g \in Cells /\ g[u] = c /\ \A o \in Offsets : o # u => g[o] = f[o]
  BY DEF Cells
<1>2. Tidy(g) /\ Occupied(g, u)
  BY <1>1, AppendTidy DEF Occupied
<1>3. Items(g, u) = Items(f, u)
  BY <1>1, OffsetsFacts DEF Items
<1>4. Position(g, u)
  <2>1. \A o \in Offsets : o < u => g[o] = f[o]
    BY <1>1, OffsetsFacts
  <2>2. Follows(g, u)
    BY <1>2 DEF Follows
  <2>3. \A o \in Offsets : o < u /\ Occupied(g, o) => o + g[o].size <= u
    BY <2>1 DEF Position, Occupied
  <2>4. u = 0 \/ \E o \in Offsets : Occupied(g, o) /\ o + g[o].size = u
    <3>1. ASSUME NEW o \in Offsets, Occupied(f, o), o + f[o].size = u
          PROVE  Occupied(g, o) /\ o + g[o].size = u
      <4>1. f[o].size > 0 /\ f[o].size \in Nat /\ o \in Nat
        BY <3>1, OffsetsFacts DEF Tidy, Neat, Cells, Cell, Occupied, ItemHeaderSize
      <4>2. o # u
        BY <3>1, <4>1
      <4>. QED
        BY <1>1, <3>1, <4>2 DEF Occupied
    <3>. QED
      BY <3>1 DEF Position
  <2>. QED
    BY <2>2, <2>3, <2>4 DEF Position
<1>5. Cardinality(Items(g, u + g[u].size)) = Cardinality(Items(g, u)) + 1
  <2>1. g[u].key # NoKey
    BY <1>1
  <2>2. Cardinality(Items(g, u + g[u].size)) =
          IF g[u].key # NoKey THEN Cardinality(Items(g, u)) + 1
                              ELSE Cardinality(Items(g, u))
    BY <1>1, <1>2, <1>4, WalkCounts
  <2>. QED
    BY <2>1, <2>2
<1>. QED
  BY <1>1, <1>3, <1>5

(* An item is marked deleted, or decays: the layout is the same.           *)
LEMMA SwapTidy ==
  ASSUME NEW f \in Cells, NEW g, Tidy(f), NEW o \in Offsets, Occupied(f, o),
         NEW d \in Cell, Neat(d), d.kind # "blank", d.size = f[o].size,
         g = [f EXCEPT ![o] = d]
  PROVE  /\ Tidy(g)
         /\ \A u \in Nat : Position(f, u) => Position(g, u)
         /\ \A u \in Nat : EmptyFrom(f, u) => EmptyFrom(g, u)
<1>1. \A a \in Offsets : g[a] = IF a = o THEN d ELSE f[a]
  BY DEF Cells
<1>2. \A a \in Offsets : g[a].size = f[a].size /\ Neat(g[a])
  BY <1>1 DEF Tidy
<1>3. \A a : Occupied(g, a) <=> Occupied(f, a)
  BY <1>1 DEF Occupied
<1>4. \A u : Follows(f, u) => Follows(g, u)
  BY <1>3 DEF Follows
<1>5. Tidy(g)
  <2>1. \A a, b \in Offsets :
          a < b /\ Occupied(g, a) /\ Occupied(g, b) => a + g[a].size <= b
    BY <1>2, <1>3 DEF Tidy
  <2>2. Follows(g, 0) /\ \A a \in Offsets : Occupied(g, a) => Follows(g, a + g[a].size)
    BY <1>2, <1>3, <1>4 DEF Tidy
  <2>. QED
    BY <1>2, <2>1, <2>2 DEF Tidy
<1>6. \A u \in Nat : Position(f, u) => Position(g, u)
  BY <1>2, <1>3, <1>4 DEF Position
<1>7. \A u \in Nat : EmptyFrom(f, u) => EmptyFrom(g, u)
  BY <1>3 DEF EmptyFrom
<1>. QED
  BY <1>5, <1>6, <1>7

LEMMA SwapCounts ==
  ASSUME NEW f \in Cells, NEW g, NEW o \in Offsets, NEW d \in Cell,
         g = [f EXCEPT ![o] = d], NEW u \in Nat, f[o].key # NoKey
  PROVE  /\ d.key # NoKey => Items(g, u) = Items(f, u)
         /\ d.key = NoKey => Cardinality(Items(g, u)) =
                               IF o < u THEN Cardinality(Items(f, u)) - 1
                                        ELSE Cardinality(Items(f, u))
<1>1. \A a \in Offsets : g[a] = IF a = o THEN d ELSE f[a]
  BY DEF Cells
<1>2. d.key # NoKey => Items(g, u) = Items(f, u)
  BY <1>1 DEF Items
<1>3. ASSUME d.key = NoKey
      PROVE  Items(g, u) = Items(f, u) \ {o}
  BY <1>1, <1>3 DEF Items
<1>4. o \in Items(f, u) <=> o < u
  BY DEF Items
<1>5. IsFiniteSet(Items(f, u))
  BY ItemsFinite DEF Items
<1>. QED
  BY <1>2, <1>3, <1>4, <1>5, FS_RemoveElement

------------------------------------------------------------------------------
(* What the operations do to a page and to what RAM knows of it. *)

LEMMA PageSealed ==
  ASSUME NEW fp \in FlashPage, NEW rp \in RamPage, PageOK(fp, rp, TRUE),
         rp.status # "UNAVAILABLE", NEW st \in {"ACTIVE", "FULL"},
         NEW fs \in {"ACTIVE", "FULL"}
  PROVE  PageOK([fp EXCEPT !.status = fs], [rp EXCEPT !.status = st], TRUE)
<1>. DEFINE gp == [fp EXCEPT !.status = fs]
            sp == [rp EXCEPT !.status = st]
<1>1. gp.cell = fp.cell /\ gp.status = fs
  BY DEF FlashPage
<1>2. sp.used = rp.used /\ sp.cnt = rp.cnt /\ sp.status = st
  BY DEF RamPage
<1>3. Position(fp.cell, rp.used) /\ Counts(fp.cell, rp) /\ EmptyFrom(fp.cell, rp.used)
        /\ Tidy(fp.cell)
  BY DEF PageOK
<1>4. Counts(gp.cell, sp)
  BY <1>1, <1>2, <1>3 DEF Counts
<1>. HIDE DEF gp, sp
<1>5. PageOK(gp, sp, TRUE)
  BY <1>1, <1>2, <1>3, <1>4 DEF PageOK
<1>. QED
  BY <1>5 DEF gp, sp

LEMMA PageAppended ==
  ASSUME NEW fp \in FlashPage, NEW rp \in RamPage, PageOK(fp, rp, TRUE),
         rp.status = "ACTIVE", fp.status # "ERASED", NEW c \in Cell, Neat(c),
         c.kind # "blank", c.key # NoKey, rp.used \in Offsets
  PROVE  PageOK([fp EXCEPT !.cell = [fp.cell EXCEPT ![rp.used] = c]],
                [rp EXCEPT !.used = rp.used + c.size, !.cnt = rp.cnt + 1], TRUE)
<1>. DEFINE f == fp.cell
            u == rp.used
            g == [f EXCEPT ![u] = c]
            gp == [fp EXCEPT !.cell = g]
            sp == [rp EXCEPT !.used = u + c.size, !.cnt = rp.cnt + 1]
<1>1. f \in Cells /\ Tidy(f) /\ Position(f, u) /\ EmptyFrom(f, u) /\ Counts(f, rp)
  BY DEF PageOK, FlashPage, Cells
<1>2. gp.cell = g /\ gp.status = fp.status
  BY DEF FlashPage
<1>3. sp.used = u + c.size /\ sp.cnt = rp.cnt + 1 /\ sp.status = "ACTIVE" /\ rp.cnt \in Nat
  BY DEF RamPage
<1>4. fp.status \notin {"UNKNOWN", "ERASED"}
  BY DEF PageOK
<1>5. Tidy(g) /\ Position(g, u + c.size) /\ EmptyFrom(g, u + c.size)
  <2>. HIDE DEF f, u
  <2>. QED
    BY <1>1, AppendTidy DEF u
<1>6. Cardinality(Items(g, u + c.size)) = Cardinality(Items(f, u)) + 1
  <2>. HIDE DEF f, u
  <2>. QED
    BY <1>1, AppendCounts DEF u
<1>7. Cardinality(Items(f, u)) \in Nat
  BY ItemsFinite DEF Items
<1>. HIDE DEF f, g, u, gp, sp
<1>8. Counts(g, sp)
  <2>1. Counts(f, rp) /\ rp.used = u
    BY <1>1 DEF u
  <2>. QED
    BY <1>3, <1>6, <1>7, <2>1 DEF Counts
<1>9. PageOK(gp, sp, TRUE)
  BY <1>2, <1>3, <1>4, <1>5, <1>8 DEF PageOK
<1>. QED
  BY <1>9 DEF f, g, u, gp, sp

(* An item that is not deleted yet is marked deleted; the count follows, or *)
(* stays as it is when items can decay after they were counted.            *)
LEMMA PageDeleted ==
  ASSUME NEW fp \in FlashPage, NEW rp \in RamPage, PageOK(fp, rp, TRUE),
         Fits(fp.cell), rp.status # "UNAVAILABLE", NEW o \in Offsets,
         fp.cell[o].key # NoKey, NEW n \in Nat, n + 1 >= rp.cnt,
         "decay" \notin Faults => rp.cnt = n + 1
  PROVE  PageOK([fp EXCEPT !.cell = [fp.cell EXCEPT ![o] = DeadCell(fp.cell[o].size)]],
                [rp EXCEPT !.cnt = n], TRUE)
<1>. DEFINE f == fp.cell
            u == rp.used
            d == DeadCell(f[o].size)
            g == [f EXCEPT ![o] = d]
            gp == [fp EXCEPT !.cell = g]
            sp == [rp EXCEPT !.cnt = n]
<1>1. f \in Cells /\ Tidy(f) /\ Position(f, u) /\ EmptyFrom(f, u) /\ Counts(f, rp)
        /\ u \in Nat
  BY DEF PageOK, FlashPage, Cells, RamPage
<1>2. gp.cell = g /\ gp.status = fp.status
  BY DEF FlashPage
<1>3. sp.used = u /\ sp.cnt = n /\ sp.status = rp.status /\ rp.cnt \in Nat
  BY DEF RamPage
<1>4. f[o] \in Cell /\ f[o].kind \in {"live", "torn"} /\ Occupied(f, o)
  <2>1. f[o] \in Cell /\ CellFits(o, f[o])
    BY DEF FlashPage, Fits
  <2>. QED
    BY <2>1, KeyedCell DEF Occupied
<1>5. d \in Cell /\ Neat(d) /\ d.kind = "dead" /\ d.size = f[o].size /\ d.key = NoKey
  <2>1. f[o].size \in Nat /\ f[o].size > ItemHeaderSize
    BY <1>1, <1>4 DEF Cell, Tidy, Neat
  <2>. QED
    BY <2>1, CellTypes DEF DeadCell, Neat
<1>6. o < u
  BY <1>1, <1>4, OffsetsFacts DEF EmptyFrom
<1>. HIDE DEF f, u, d
<1>7. Tidy(g) /\ Position(g, u) /\ EmptyFrom(g, u)
  BY <1>1, <1>4, <1>5, SwapTidy
<1>8. Cardinality(Items(g, u)) = Cardinality(Items(f, u)) - 1
  BY <1>1, <1>4, <1>5, <1>6, SwapCounts DEF f
<1>9. Cardinality(Items(f, u)) \in Nat
  BY ItemsFinite DEF Items
<1>. HIDE DEF g, gp, sp
<1>10. Counts(g, sp)
  <2>1. Counts(f, rp) /\ rp.used = u
    BY <1>1 DEF u
  <2>. QED
    BY <1>3, <1>8, <1>9, <2>1 DEF Counts
<1>11. ~EmptyFrom(f, 0) /\ o >= 0
  BY <1>4, OffsetsFacts DEF EmptyFrom
<1>12. fp.status \notin {"ERASED", "UNKNOWN"}
  BY <1>11 DEF PageOK, f
<1>13. sp.status # "ERASED" /\ sp.status # "UNAVAILABLE"
  <2>1. u # 0
    BY <1>6, OffsetsFacts
  <2>. QED
    BY <1>3, <2>1 DEF PageOK, u
<1>14. PageOK(gp, sp, TRUE)
  BY <1>2, <1>3, <1>7, <1>10, <1>12, <1>13 DEF PageOK
<1>. QED
  BY <1>14 DEF f, g, u, d, gp, sp

LEMMA PageWeaker ==
  ASSUME NEW fp, NEW rp, NEW v \in BOOLEAN, NEW w \in BOOLEAN, PageOK(fp, rp, v), w => v
  PROVE  PageOK(fp, rp, w)
BY DEF PageOK

(* The boot starts again: RAM knows nothing of the page.                   *)
LEMMA PageForgotten ==
  ASSUME NEW fp, NEW rp, NEW v \in BOOLEAN, NEW w \in BOOLEAN, PageOK(fp, rp, v)
  PROVE  PageOK(fp, FreshPage("UNAVAILABLE"), w)
BY DEF PageOK, FreshPage

LEMMA PageLoaded ==
  ASSUME NEW fp \in FlashPage, NEW rp, NEW v \in BOOLEAN, PageOK(fp, rp, v)
  PROVE  PageOK(fp, FreshPage(fp.status), fp.status = "ERASED")
<1>. DEFINE f == fp.cell
            sp == FreshPage(fp.status)
<1>1. Tidy(f) /\ fp.status # "UNKNOWN" /\ (fp.status = "ERASED" => EmptyFrom(f, 0))
  BY DEF PageOK
<1>2. sp.status = fp.status /\ sp.cnt = 0 /\ sp.used = 0
  BY DEF FreshPage
<1>3. \A o \in Offsets : o >= 0 /\ ~(o < 0)
  BY OffsetsFacts
<1>4. Position(f, 0)
  BY <1>1, <1>3 DEF Position, Tidy
<1>5. Items(f, 0) = {}
  BY <1>3 DEF Items
<1>. HIDE DEF f, sp
<1>6. Counts(f, sp)
  BY <1>2, <1>5, FS_EmptySet DEF Counts
<1>7. PageOK(fp, sp, fp.status = "ERASED")
  BY <1>1, <1>2, <1>4, <1>6 DEF PageOK, f
<1>. QED
  BY <1>7 DEF sp

(* The boot counts an item, or the remains of one.                         *)
LEMMA PageScanned ==
  ASSUME NEW fp \in FlashPage, NEW rp \in RamPage, PageOK(fp, rp, FALSE),
         rp.status \in {"ACTIVE", "FULL"}, rp.used \in Offsets,
         Occupied(fp.cell, rp.used), NEW n \in Nat,
         n = IF fp.cell[rp.used].key # NoKey THEN rp.cnt + 1 ELSE rp.cnt
  PROVE  PageOK(fp, [rp EXCEPT !.used = rp.used + fp.cell[rp.used].size, !.cnt = n], FALSE)
<1>. DEFINE f == fp.cell
            u == rp.used
            w == u + f[u].size
            sp == [rp EXCEPT !.used = w, !.cnt = n]
<1>1. f \in Cells /\ Tidy(f) /\ Position(f, u) /\ Counts(f, rp) /\ Occupied(f, u)
  BY DEF PageOK, FlashPage, Cells
<1>2. sp.used = w /\ sp.cnt = n /\ sp.status = rp.status /\ rp.cnt \in Nat
  BY DEF RamPage
<1>3. n = IF f[u].key # NoKey THEN rp.cnt + 1 ELSE rp.cnt
  OBVIOUS
<1>4. Position(f, w)
  <2>. HIDE DEF f, u
  <2>. QED
    BY <1>1, WalkOn DEF u
<1>5. Cardinality(Items(f, w)) = IF f[u].key # NoKey THEN Cardinality(Items(f, u)) + 1
                                                     ELSE Cardinality(Items(f, u))
  <2>. HIDE DEF f, u
  <2>. QED
    BY <1>1, WalkCounts DEF u
<1>6. Cardinality(Items(f, u)) \in Nat
  BY ItemsFinite DEF Items
<1>7. fp.status # "ERASED"
  BY <1>1, OffsetsFacts DEF PageOK, EmptyFrom
<1>8. fp.status # "UNKNOWN"
  BY DEF PageOK
<1>. HIDE DEF f, u, w, sp
<1>9. Counts(f, sp)
  <2>1. rp.used = u
    BY DEF u
  <2>. QED
    BY <1>1, <1>2, <1>3, <1>5, <1>6, <2>1 DEF Counts
<1>10. PageOK(fp, sp, FALSE)
  BY <1>1, <1>2, <1>4, <1>7, <1>8, <1>9 DEF PageOK, f
<1>. QED
  BY <1>10 DEF f, u, w, sp

(* An item that no longer matches its CRC is marked deleted by the boot.   *)
LEMMA PageScannedCorrupt ==
  ASSUME NEW fp \in FlashPage, NEW rp \in RamPage, PageOK(fp, rp, FALSE), Fits(fp.cell),
         rp.status \in {"ACTIVE", "FULL"}, rp.used \in Offsets,
         fp.cell[rp.used].kind = "torn"
  PROVE  PageOK([fp EXCEPT !.cell =
                   [fp.cell EXCEPT ![rp.used] = DeadCell(fp.cell[rp.used].size)]],
                [rp EXCEPT !.used = rp.used + fp.cell[rp.used].size], FALSE)
<1>. DEFINE f == fp.cell
            u == rp.used
            d == DeadCell(f[u].size)
            g == [f EXCEPT ![u] = d]
            gp == [fp EXCEPT !.cell = g]
<1>1. f \in Cells /\ Tidy(f) /\ Position(f, u) /\ Counts(f, rp) /\ u \in Nat
  BY DEF PageOK, FlashPage, Cells, RamPage
<1>2. gp.cell = g /\ gp.status = fp.status /\ gp \in [status : FlashStatus, cell : {g}]
  BY DEF FlashPage
<1>3. f[u] \in Cell /\ f[u].key # NoKey /\ Occupied(f, u) /\ f[u].kind = "torn"
  <2>1. f[u] \in Cell /\ CellFits(u, f[u]) /\ f[u].kind = "torn"
    BY DEF FlashPage, Fits
  <2>. QED
    BY <2>1, KeyedCell DEF Occupied
<1>4. d \in Cell /\ Neat(d) /\ d.kind = "dead" /\ d.size = f[u].size /\ d.key = NoKey
  <2>1. f[u].size \in Nat /\ f[u].size > ItemHeaderSize
    BY <1>1, <1>3 DEF Cell, Tidy, Neat
  <2>. QED
    BY <2>1, CellTypes DEF DeadCell, Neat
<1>5. rp.used = u /\ u \in Offsets
  OBVIOUS
<1>6. fp.status # "ERASED" /\ fp.status # "UNKNOWN"
  BY <1>3, <1>5, OffsetsFacts DEF PageOK, EmptyFrom
<1>. HIDE DEF f, u, d
<1>7. Tidy(g) /\ Position(g, u)
  BY <1>1, <1>3, <1>4, <1>5, SwapTidy
<1>8. Cardinality(Items(g, u)) = Cardinality(Items(f, u))
  <2>1. ~(u < u)
    BY <1>1
  <2>. QED
    BY <1>1, <1>3, <1>4, <1>5, <2>1, SwapCounts
<1>9. g \in Cells /\ g[u] = d
  BY <1>1, <1>4, <1>5 DEF Cells
<1>. HIDE DEF g, gp
<1>10. Counts(gp.cell, rp)
  BY <1>1, <1>2, <1>5, <1>8 DEF Counts
<1>11. gp \in FlashPage
  BY <1>2, <1>9 DEF FlashPage, Cells
<1>12. PageOK(gp, rp, FALSE)
  BY <1>2, <1>5, <1>6, <1>7, <1>10 DEF PageOK
<1>13. Occupied(gp.cell, rp.used) /\ gp.cell[rp.used].key = NoKey
         /\ gp.cell[rp.used].size = f[u].size
  BY <1>2, <1>4, <1>5, <1>9 DEF Occupied
<1>14. rp.cnt \in Nat
  BY DEF RamPage
<1>15. PageOK(gp, [rp EXCEPT !.used = rp.used + gp.cell[rp.used].size, !.cnt = rp.cnt], FALSE)
  BY <1>5, <1>11, <1>12, <1>13, <1>14, PageScanned
<1>16. [rp EXCEPT !.used = rp.used + gp.cell[rp.used].size, !.cnt = rp.cnt]
         = [rp EXCEPT !.used = rp.used + f[u].size]
  BY <1>13 DEF RamPage
<1>17. PageOK(gp, [rp EXCEPT !.used = rp.used + f[u].size], FALSE)
  BY <1>15, <1>16
<1>. QED
  BY <1>17 DEF f, u, d, g, gp

LEMMA PageScanEnds ==
  ASSUME NEW fp \in FlashPage, NEW rp \in RamPage, PageOK(fp, rp, FALSE), Fits(fp.cell),
         rp.used \in Offsets => (fp.cell[rp.used].kind = "blank" \/ ~Accessible(rp.used, ItemHeaderSize))
  PROVE  PageOK(fp, rp, TRUE)
<1>. DEFINE f == fp.cell
            u == rp.used
<1>1. SUFFICES ASSUME rp.status # "UNAVAILABLE" PROVE EmptyFrom(f, u)
  BY DEF PageOK
<1>2. f \in Cells /\ Tidy(f) /\ Position(f, u) /\ u \in Nat
  BY <1>1 DEF PageOK, FlashPage, Cells, RamPage
<1>3. CASE u \in Offsets /\ f[u].kind = "blank"
  <2>. HIDE DEF f, u
  <2>. QED
    BY <1>2, <1>3, WalkEnds
<1>4. CASE ~(u \in Offsets /\ f[u].kind = "blank")
  <2>a. u \in Offsets => ~Accessible(u, ItemHeaderSize)
    BY <1>4
  <2>b. u \notin Offsets => u >= PageSize
    BY <1>2, OffsetsFacts, PagesAssumption
  <2>1. u >= PageSize \/ ~Accessible(u, ItemHeaderSize)
    BY <2>a, <2>b
  <2>2. u + ItemHeaderSize + PageHeaderSize >= PageSize
    BY <1>2, <2>1, PagesAssumption DEF Accessible, ItemHeaderSize, PageHeaderSize
  <2>3. ASSUME NEW o \in Offsets, o >= u, Occupied(f, o) PROVE FALSE
    <3>1. f[o] \in Cell /\ f[o].size > ItemHeaderSize /\ CellFits(o, f[o])
      BY <1>2, <2>3 DEF Cells, Tidy, Neat, Occupied, Fits
    <3>2. o + f[o].size + PageHeaderSize < PageSize /\ f[o].size \in Nat /\ o \in Nat
      BY <3>1, OffsetsFacts DEF CellFits, Cell, ItemHeaderSize
    <3>. QED
      BY <1>2, <2>2, <2>3, <3>1, <3>2, PagesAssumption DEF ItemHeaderSize, PageHeaderSize
  <2>. QED
    BY <2>3 DEF EmptyFrom
<1>. QED
  BY <1>3, <1>4

(* A stored item decays: it still counts. *)
LEMMA PageDecayed ==
  ASSUME NEW fp \in FlashPage, NEW rp \in RamPage, PageOK(fp, rp, TRUE), Fits(fp.cell),
         NEW o \in Offsets, fp.cell[o].kind = "live", "decay" \in Faults
  PROVE  PageOK([fp EXCEPT !.cell = [fp.cell EXCEPT ![o] = TornCell(fp.cell[o].key)]], rp, TRUE)
<1>. DEFINE f == fp.cell
            u == rp.used
            d == TornCell(f[o].key)
            g == [f EXCEPT ![o] = d]
            gp == [fp EXCEPT !.cell = g]
<1>1. f \in Cells /\ Tidy(f) /\ u \in Nat
  BY DEF PageOK, FlashPage, Cells, RamPage
<1>2. gp.cell = g /\ gp.status = fp.status
  BY DEF FlashPage
<1>3. f[o] \in Cell /\ f[o].key \in Keys /\ Occupied(f, o) /\ f[o].size = Size(f[o].key)
  BY DEF FlashPage, Fits, CellFits, Occupied
<1>4. d \in Cell /\ Neat(d) /\ d.kind = "torn" /\ d.size = f[o].size /\ d.key # NoKey
  BY <1>3, CellTypes, SizeType, KeysAssumption DEF TornCell, Neat
<1>5. f[o].key # NoKey
  BY <1>3, KeysAssumption
<1>6. fp.status # "ERASED" /\ fp.status # "UNKNOWN"
  BY <1>3, OffsetsFacts DEF PageOK, EmptyFrom
<1>. HIDE DEF f, u, d
<1>7. Tidy(g) /\ (Position(f, u) => Position(g, u)) /\ (EmptyFrom(f, u) => EmptyFrom(g, u))
  BY <1>1, <1>3, <1>4, SwapTidy
<1>8. Items(g, u) = Items(f, u)
  BY <1>1, <1>4, <1>5, SwapCounts
<1>. HIDE DEF g, gp
<1>9. Counts(f, rp) => Counts(gp.cell, rp)
  BY <1>2, <1>8 DEF Counts, u
<1>10. PageOK(gp, rp, TRUE)
  BY <1>2, <1>6, <1>7, <1>9 DEF PageOK, f, u
<1>. QED
  BY <1>10 DEF f, u, d, g, gp

(* A page whose count is zero holds no item. *)
LEMMA PageEmpty ==
  ASSUME NEW fp \in FlashPage, NEW rp \in RamPage, PageOK(fp, rp, TRUE), Fits(fp.cell),
         rp.status # "UNAVAILABLE", rp.cnt = 0
  PROVE  \A o \in Offsets : fp.cell[o].kind # "live"
<1>. DEFINE f == fp.cell
<1>1. Items(f, rp.used) = {}
  <2>1. IsFiniteSet(Items(f, rp.used)) /\ Cardinality(Items(f, rp.used)) \in Nat
    BY ItemsFinite DEF Items
  <2>2. Cardinality(Items(f, rp.used)) = 0
    <3>. HIDE DEF f
    <3>1. Counts(f, rp)
      BY DEF PageOK, f
    <3>. QED
      BY <2>1, <3>1 DEF Counts
  <2>. QED
    BY <2>1, <2>2, FS_EmptySet
<1>2. ASSUME NEW o \in Offsets, f[o].kind = "live" PROVE FALSE
  <2>1. f[o].key # NoKey
    BY <1>2, KeysAssumption DEF FlashPage, Fits, CellFits
  <2>2. Occupied(f, o) /\ EmptyFrom(f, rp.used) /\ rp.used \in Nat
    BY <1>2 DEF Occupied, PageOK, RamPage
  <2>3. o < rp.used
    BY <2>2, OffsetsFacts DEF EmptyFrom
  <2>. QED
    BY <1>1, <2>1, <2>3 DEF Items
<1>. QED
  BY <1>2

------------------------------------------------------------------------------
(* The invariant.  Layout: every page is laid out as above, and scanned to *)
(* its end unless the boot is at it.                                       *)
Whole(p) == pc # "Scan" \/ p # frame.pg
Layout == \A p \in Pages : PageOK(flash[p], ctx.page[p], Whole(p))

(* A copy that the running call has found lies on its page.                *)
Places ==
  /\ \A l \in {frame.last, frame.loc, frame.del} : l.page \in Pages => l.off \in Offsets
  /\ pc = "Hit" \/ (pc \in {"Del", "DelErase"} /\ frame.back = "Hit") => frame.off \in Offsets

(* The page a call is about to write to or to erase.                       *)
ActiveKnown == ctx.active \in Pages => Status(ctx.active) # "UNAVAILABLE"
Targets ==
  /\ ActiveKnown
  /\ pc = "Scan" => InUse(frame.pg)
  /\ pc \in {"Append", "AppendSeal", "CopySeal"} => Status(frame.pg) = "ACTIVE"
  /\ pc = "RealignTake" => Status(frame.pg) # "UNAVAILABLE"
  /\ pc = "DelErase" => ctx.page[frame.del.page].cnt = 0

Holds(p, o, k) == flash[p].cell[o].kind = "live" /\ flash[p].cell[o].key = k

(* The items the realignment has passed have a copy on another page, but   *)
(* those it took for deleted.                                              *)
Rescued ==
  InRealign => \A o \in Offsets, k \in Keys :
    o < frame.off /\ Holds(frame.victim, o, k) /\ flash[frame.victim].cell[o].val \notin ZeroCrc =>
      \E p \in Pages, r \in Offsets : p # frame.victim /\ Holds(p, r, k)

StoreInv == Layout /\ Places /\ Targets /\ Rescued

(* The faults after which items still lie as they were written.            *)
CalmFaults == Faults \subseteq {"reset", "power", "decay"}

ErasesSafely ==
  \A p \in Pages, k \in Keys : Erases(p) /\ Movables(k) # {} => Copies(k)' # {}

LEMMA LayoutWhole ==
  ASSUME Layout, pc # "Scan", NEW p \in Pages
  PROVE  PageOK(flash[p], ctx.page[p], TRUE)
<1>1. Whole(p) = TRUE
  BY DEF Whole
<1>. QED
  BY <1>1 DEF Layout

LEMMA LayoutHere ==
  ASSUME Layout, pc = "Scan", NEW w, w = frame.pg, w \in Pages
  PROVE  PageOK(flash[w], ctx.page[w], FALSE)
<1>1. Whole(w) = FALSE
  BY DEF Whole
<1>. QED
  BY <1>1 DEF Layout

(* One page changes. *)
LEMMA LayoutAfter ==
  ASSUME Layout, NEW p \in Pages, pc # "Scan" \/ p = frame.pg,
         \A q \in Pages \ {p} : flash'[q] = flash[q] /\ ctx'.page[q] = ctx.page[q],
         NEW w \in BOOLEAN, Whole(p)' => w, PageOK(flash'[p], ctx'.page[p], w)
  PROVE  Layout'
<1>1. ASSUME NEW q \in Pages PROVE PageOK(flash'[q], ctx'.page[q], Whole(q)')
  <2>1. Whole(q)' \in BOOLEAN
    BY DEF Whole
  <2>2. CASE q = p
    BY <2>1, <2>2, PageWeaker
  <2>3. CASE q # p
    <3>1. Whole(q) = TRUE
      BY <2>3 DEF Whole
    <3>2. PageOK(flash[q], ctx.page[q], TRUE)
      BY <3>1 DEF Layout
    <3>3. PageOK(flash[q], ctx.page[q], Whole(q)')
      BY <2>1, <3>2, PageWeaker
    <3>. QED
      BY <2>3, <3>3
  <2>. QED
    BY <2>2, <2>3
<1>. QED
  BY <1>1 DEF Layout

LEMMA LayoutSame ==
  ASSUME Layout, UNCHANGED flash, ctx'.page = ctx.page, pc # "Scan"
  PROVE  Layout'
<1>1. ASSUME NEW q \in Pages PROVE PageOK(flash'[q], ctx'.page[q], Whole(q)')
  <2>1. Whole(q)' \in BOOLEAN
    BY DEF Whole
  <2>2. PageOK(flash[q], ctx.page[q], TRUE)
    BY LayoutWhole
  <2>3. PageOK(flash[q], ctx.page[q], Whole(q)')
    BY <2>1, <2>2, PageWeaker
  <2>. QED
    BY <2>3
<1>. QED
  BY <1>1 DEF Layout

LEMMA PageTypes ==
  ASSUME FlashOK, CtxOK, NEW p \in Pages
  PROVE  /\ flash[p] \in FlashPage /\ ctx.page[p] \in RamPage /\ Fits(flash[p].cell)
         /\ flash[p].cell \in Cells
BY DEF FlashOK, CtxOK, Ctx, CellsFit, Fits, FlashPage, Cells

(* A page with items, or that was counted, is in use. *)
LEMMA PageKnown ==
  ASSUME FlashOK, CtxOK, Layout, NEW p \in Pages, ctx.page[p].cnt > 0 \/ Used(p) > 0
  PROVE  Status(p) \in {"ACTIVE", "FULL"}
<1>1. ctx.page[p] \in RamPage
  BY PageTypes
<1>2. PageOK(flash[p], ctx.page[p], Whole(p))
  BY DEF Layout
<1>3. ~(ctx.page[p].cnt = 0 /\ Used(p) = 0)
  BY <1>1 DEF RamPage, Used
<1>. QED
  BY <1>1, <1>2, <1>3 DEF PageOK, RamPage, RamStatus, Status, Used

(* Cells and copies that stay as they are. *)
SameCells == \A p \in Pages : flash'[p].cell = flash[p].cell
NothingErased == \A p \in Pages : ~Erases(p)

LEMMA UpdateEffect ==
  ASSUME FlashOK, CtxOK, Layout, pc # "Scan", NEW p \in Pages,
         Status(p) # "UNAVAILABLE", NEW st \in {"ACTIVE", "FULL"}, UpdateStatus(p, st)
  PROVE  /\ Layout' /\ SameCells /\ NothingErased
         /\ \A q \in Pages : Used(q)' = Used(q) /\ ctx'.page[q].cnt = ctx.page[q].cnt
         /\ ctx'.active \in {ctx.active, p, NoPage}
<1>1. CASE Status(p) = st
  <2>1. UNCHANGED <<flash, ctx>>
    BY <1>1 DEF UpdateStatus
  <2>2. Layout'
    BY <2>1, LayoutSame
  <2>. QED
    BY <2>1, <2>2 DEF SameCells, NothingErased, Erases, Used
<1>2. CASE Status(p) # st
  <2>. DEFINE fs == IF flash[p].status = "FULL" THEN "FULL" ELSE st
  <2>1. flash' = [flash EXCEPT ![p] = [flash[p] EXCEPT !.status = fs]]
    BY <1>2 DEF UpdateStatus
  <2>2. /\ ctx'.page = [ctx.page EXCEPT ![p] = [ctx.page[p] EXCEPT !.status = st]]
        /\ ctx'.active \in {ctx.active, p, NoPage}
    BY <1>2 DEF UpdateStatus, CtxOK, Ctx
  <2>3. flash[p] \in FlashPage /\ ctx.page[p] \in RamPage
    BY PageTypes
  <2>4. flash'[p] = [flash[p] EXCEPT !.status = fs]
          /\ ctx'.page[p] = [ctx.page[p] EXCEPT !.status = st]
          /\ \A q \in Pages \ {p} : flash'[q] = flash[q] /\ ctx'.page[q] = ctx.page[q]
    BY <2>1, <2>2 DEF FlashOK, CtxOK, Ctx
  <2>5. PageOK(flash[p], ctx.page[p], TRUE)
    BY LayoutWhole
  <2>6. PageOK(flash'[p], ctx'.page[p], TRUE)
    <3>1. fs \in {"ACTIVE", "FULL"} /\ ctx.page[p].status # "UNAVAILABLE"
      BY DEF Status
    <3>. HIDE DEF fs
    <3>2. PageOK([flash[p] EXCEPT !.status = fs], [ctx.page[p] EXCEPT !.status = st], TRUE)
      BY <2>3, <2>5, <3>1, PageSealed
    <3>. QED
      BY <2>4, <3>2
  <2>7. Layout'
    BY <2>4, <2>6, LayoutAfter
  <2>8. SameCells
    BY <2>3, <2>4 DEF SameCells, FlashPage
  <2>9. \A q \in Pages : Used(q)' = Used(q) /\ ctx'.page[q].cnt = ctx.page[q].cnt
    BY <2>3, <2>4 DEF Used, RamPage
  <2>10. flash'[p].status # "ERASED"
    BY <2>3, <2>4 DEF FlashPage
  <2>11. NothingErased
    BY <2>4, <2>10 DEF NothingErased, Erases, BlankPage
  <2>. QED
    BY <2>2, <2>7, <2>8, <2>9, <2>11
<1>. QED
  BY <1>1, <1>2

LEMMA EraseEffect ==
  ASSUME FlashOK, CtxOK, Layout, pc # "Scan", NEW p \in Pages, ErasePage(p)
  PROVE  /\ Layout' /\ flash' = [flash EXCEPT ![p] = BlankPage]
         /\ \A q \in Pages \ {p} : flash'[q] = flash[q] /\ ctx'.page[q] = ctx.page[q]
         /\ Status(p)' = "ERASED" /\ ctx'.page[p].cnt = 0 /\ ctx'.active = ctx.active
<1>1. flash' = [flash EXCEPT ![p] = BlankPage]
        /\ ctx'.page = [ctx.page EXCEPT ![p] = FreshPage("ERASED")]
        /\ ctx'.active = ctx.active
  BY DEF ErasePage, CtxOK, Ctx
<1>2. flash'[p] = BlankPage /\ ctx'.page[p] = FreshPage("ERASED")
        /\ \A q \in Pages \ {p} : flash'[q] = flash[q] /\ ctx'.page[q] = ctx.page[q]
  BY <1>1 DEF FlashOK, CtxOK, Ctx
<1>3. PageOK(flash'[p], ctx'.page[p], TRUE)
  BY <1>2, BlankPageTidy
<1>4. Layout'
  BY <1>2, <1>3, LayoutAfter
<1>. QED
  BY <1>1, <1>2, <1>4 DEF FreshPage, Status

(* The item goes where nothing was written since the page was erased.      *)
LEMMA WriteEffect ==
  ASSUME FlashOK, CtxOK, StatusMirrored, Layout, pc # "Scan", NEW p \in Pages,
         Status(p) = "ACTIVE", NEW c \in Cell, Neat(c), c.kind = "live", c.key \in Keys,
         Storable(p, c.size), WriteItem(p, c)
  PROVE  /\ Layout' /\ Used(p) \in Offsets /\ flash[p].cell[Used(p)] = Blank
         /\ flash' = [flash EXCEPT ![p] =
                        [flash[p] EXCEPT !.cell = [flash[p].cell EXCEPT ![Used(p)] = c]]]
         /\ NothingErased /\ ctx'.active = ctx.active
         /\ \A q \in Pages : Status(q)' = Status(q)
         /\ ctx'.page = [ctx.page EXCEPT ![p] =
              [ctx.page[p] EXCEPT !.used = Used(p) + c.size, !.cnt = ctx.page[p].cnt + 1]]
<1>. DEFINE fp == flash[p]
            rp == ctx.page[p]
            g == [fp EXCEPT !.cell = [fp.cell EXCEPT ![rp.used] = c]]
            s == [rp EXCEPT !.used = rp.used + c.size, !.cnt = rp.cnt + 1]
<1>1. fp \in FlashPage /\ rp \in RamPage /\ fp.cell \in Cells /\ PageOK(fp, rp, TRUE)
  BY PageTypes, LayoutWhole
<1>2. rp.used \in Offsets /\ Used(p) = rp.used /\ c.size \in Nat
  <2>1. rp.used \in Nat /\ rp.used + c.size + PageHeaderSize < PageSize /\ c.size \in Nat
    BY <1>1 DEF RamPage, Storable, Accessible, Used, Cell
  <2>. QED
    BY <2>1, OffsetsFacts, PagesAssumption DEF PageHeaderSize, Used
<1>3. rp.status = "ACTIVE" /\ fp.status # "ERASED"
  BY DEF Status, StatusMirrored
<1>4. fp.cell[rp.used] = Blank
  <2>1. EmptyFrom(fp.cell, rp.used) /\ Neat(fp.cell[rp.used])
    BY <1>1, <1>2, <1>3 DEF PageOK, Tidy
  <2>2. rp.used >= rp.used
    BY <1>2, OffsetsFacts
  <2>. QED
    BY <1>2, <2>1, <2>2 DEF EmptyFrom, Occupied, Neat
<1>5. flash' = [flash EXCEPT ![p] = g]
  <2>1. Overlay(fp.cell[rp.used], c) = {c}
    BY <1>4 DEF Overlay
  <2>. QED
    BY <1>2, <2>1 DEF WriteItem, PutItem
<1>6. ctx'.page = [ctx.page EXCEPT ![p] = s] /\ ctx'.active = ctx.active
  BY DEF WriteItem, CtxOK, Ctx, Used
<1>7. flash'[p] = g /\ ctx'.page[p] = s
        /\ \A q \in Pages \ {p} : flash'[q] = flash[q] /\ ctx'.page[q] = ctx.page[q]
  BY <1>5, <1>6 DEF FlashOK, CtxOK, Ctx
<1>8. c.kind # "blank" /\ c.key # NoKey
  BY KeysAssumption
<1>9. PageOK(g, s, TRUE)
  <2>. HIDE DEF fp, rp
  <2>. QED
    BY <1>1, <1>2, <1>3, <1>8, PageAppended
<1>10. Layout'
  BY <1>7, <1>9, LayoutAfter
<1>11. NothingErased
  <2>1. flash'[p].status = fp.status
    BY <1>1, <1>7 DEF FlashPage
  <2>. QED
    BY <1>3, <1>7, <2>1 DEF NothingErased, Erases, BlankPage
<1>12. \A q \in Pages : Status(q)' = Status(q)
  BY <1>1, <1>7 DEF Status, RamPage
<1>. QED
  BY <1>2, <1>4, <1>5, <1>6, <1>10, <1>11, <1>12

LEMMA MarkEffect ==
  ASSUME FlashOK, CtxOK, Layout, pc # "Scan", NEW p \in Pages, Status(p) # "UNAVAILABLE",
         NEW o \in Offsets, flash[p].cell[o].key # NoKey, MarkDead(p, o),
         NEW n \in Nat, n + 1 >= ctx.page[p].cnt,
         "decay" \notin Faults => ctx.page[p].cnt = n + 1,
         ctx'.page = [ctx.page EXCEPT ![p] = [ctx.page[p] EXCEPT !.cnt = n]]
  PROVE  /\ Layout' /\ NothingErased
         /\ flash' = [flash EXCEPT ![p] = [flash[p] EXCEPT !.cell =
              [flash[p].cell EXCEPT ![o] = DeadCell(flash[p].cell[o].size)]]]
         /\ \A q \in Pages : Status(q)' = Status(q) /\ Used(q)' = Used(q)
         /\ ctx'.page[p].cnt = n
<1>. DEFINE fp == flash[p]
            rp == ctx.page[p]
            g == [fp EXCEPT !.cell = [fp.cell EXCEPT ![o] = DeadCell(fp.cell[o].size)]]
            s == [rp EXCEPT !.cnt = n]
<1>1. fp \in FlashPage /\ rp \in RamPage /\ Fits(fp.cell) /\ PageOK(fp, rp, TRUE)
  BY PageTypes, LayoutWhole
<1>2. flash' = [flash EXCEPT ![p] = g]
  BY DEF MarkDead
<1>3. flash'[p] = g /\ ctx'.page[p] = s
        /\ \A q \in Pages \ {p} : flash'[q] = flash[q] /\ ctx'.page[q] = ctx.page[q]
  BY <1>2 DEF FlashOK, CtxOK, Ctx
<1>4. PageOK(g, s, TRUE)
  <2>1. rp.status # "UNAVAILABLE"
    BY DEF Status
  <2>2. fp.cell[o].key # NoKey
    OBVIOUS
  <2>3. n + 1 >= rp.cnt /\ ("decay" \notin Faults => rp.cnt = n + 1)
    OBVIOUS
  <2>. HIDE DEF fp, rp
  <2>. QED
    BY <1>1, <2>1, <2>2, <2>3, PageDeleted
<1>5. Layout'
  BY <1>3, <1>4, LayoutAfter
<1>6. NothingErased
  <2>1. flash'[p].cell[o].kind = "dead"
    BY <1>1, <1>3 DEF FlashPage, DeadCell
  <2>2. BlankPage.cell[o].kind = "blank"
    BY DEF BlankPage, Blank
  <2>. QED
    BY <1>3, <2>1, <2>2 DEF NothingErased, Erases
<1>7. (\A q \in Pages : Status(q)' = Status(q) /\ Used(q)' = Used(q)) /\ ctx'.page[p].cnt = n
  BY <1>1, <1>3 DEF Status, Used, RamPage
<1>. QED
  BY <1>2, <1>5, <1>6, <1>7

------------------------------------------------------------------------------
(* One lemma per group of actions: each keeps the invariant, and erases no *)
(* page that holds the last copy of an item.                               *)

LEMMA NothingErasedSafe == NothingErased => ErasesSafely
BY DEF NothingErased, ErasesSafely

LEMMA SameFlashSafe == UNCHANGED flash => ErasesSafely
BY DEF Erases, ErasesSafely

LEMMA EraseSafe ==
  ASSUME FlashOK, NEW p \in Pages, flash' = [flash EXCEPT ![p] = BlankPage],
         \A o \in Offsets, k \in Keys :
           Holds(p, o, k) /\ flash[p].cell[o].val \notin ZeroCrc =>
             \E q \in Pages, r \in Offsets : q # p /\ Holds(q, r, k)
  PROVE  ErasesSafely
<1>1. SUFFICES ASSUME NEW k \in Keys, NEW c \in Movables(k) PROVE Copies(k)' # {}
  BY DEF ErasesSafely
<1>2. c \in Pages \X Offsets /\ At(c).kind = "live" /\ At(c).key = k /\ At(c).val \notin ZeroCrc
  BY DEF Movables, Copies
<1>3. PICK q \in Pages, r \in Offsets : q # p /\ Holds(q, r, k)
  <2>1. CASE c[1] = p
    BY <1>2, <2>1 DEF At, Holds
  <2>2. CASE c[1] # p
    BY <1>2, <2>2 DEF At, Holds
  <2>. QED
    BY <2>1, <2>2
<1>4. flash'[q] = flash[q]
  BY <1>3 DEF FlashOK
<1>5. <<q, r>> \in Copies(k)'
  BY <1>3, <1>4 DEF Copies, At, Holds
<1>. QED
  BY <1>5

LEMMA NoFramePlaces ==
  ASSUME frame' = NoFrame, pc' \notin {"Hit", "Del", "DelErase"}
  PROVE  Places'
BY PagesFacts DEF Places, NoFrame, NoLoc

LEMMA BootStore ==
  ASSUME CalmFaults, IInv, StoreInv, Boot
  PROVE  StoreInv' /\ ErasesSafely
<1>0. PICK p \in Pages : p = frame.pg
  BY DEF IInv, RestOK, Frame
<1>. USE <1>0
<1>1. /\ flash[p] \in FlashPage /\ ctx.page[p] \in RamPage
      /\ Fits(flash[p].cell) /\ FlashOK /\ CtxOK /\ Layout /\ Places
  BY PageTypes DEF IInv, DataInv, RestOK, Frame, StoreInv
<1>2. Targets
  BY DEF StoreInv
<1>3. PageOK(flash[p], ctx.page[p], Whole(p)) /\ Whole(p) \in BOOLEAN
  BY <1>1 DEF Layout, Whole
<1>4. ASSUME NextBootPage PROVE Places' /\ Rescued' /\ pc' \in {"Boot", "Idle"}
  <2>1. pc' \in {"Boot", "Idle"}
    BY <1>4 DEF NextBootPage, Goto
  <2>2. CASE frame' = NoFrame
    BY <2>1, <2>2, NoFramePlaces DEF Rescued, InRealign
  <2>3. CASE frame' = [frame EXCEPT !.pg = @ + 1]
    <3>1. frame'.last = frame.last /\ frame'.loc = frame.loc /\ frame'.del = frame.del
      BY <2>3 DEF IInv, RestOK, Frame
    <3>. QED
      BY <1>1, <2>1, <3>1 DEF Places, Rescued, InRealign
  <2>. QED
    BY <1>4, <2>1, <2>2, <2>3 DEF NextBootPage, Goto
<1>5. ASSUME Goto("Scan"), UNCHANGED frame PROVE Places' /\ Rescued' /\ pc' = "Scan"
  BY <1>1, <1>5 DEF Goto, Places, Rescued, InRealign
<1>6. CASE LoadErased
  <2>1. /\ pc = "Boot" /\ UNCHANGED flash /\ NextBootPage /\ flash[p].status = "ERASED"
        /\ ctx'.page = [ctx.page EXCEPT ![p] = FreshPage("ERASED")] /\ ctx'.active = ctx.active
    BY <1>1, <1>6 DEF LoadErased, CtxOK, Ctx
  <2>2. ctx'.page[p] = FreshPage("ERASED") /\ \A q \in Pages \ {p} : ctx'.page[q] = ctx.page[q]
    BY <1>1, <2>1 DEF CtxOK, Ctx
  <2>3. PageOK(flash[p], FreshPage("ERASED"), TRUE)
    BY <1>1, <1>3, <2>1, PageLoaded
  <2>4. Layout'
    BY <1>1, <2>1, <2>2, <2>3, LayoutAfter
  <2>5. Status(p)' = "ERASED" /\ \A q \in Pages \ {p} : Status(q)' = Status(q)
    BY <2>2 DEF Status, FreshPage
  <2>6. Targets'
    BY <1>2, <1>4, <2>1, <2>5 DEF Targets, ActiveKnown
  <2>. QED
    BY <1>4, <2>1, <2>4, <2>6, SameFlashSafe DEF StoreInv
<1>7. CASE LoadUnknown
  BY <1>3, <1>7 DEF LoadUnknown, PageOK
<1>8. CASE LoadInUse
  <2>1. /\ pc = "Boot" /\ UNCHANGED <<flash, frame>> /\ Goto("Scan")
        /\ flash[p].status \in {"ACTIVE", "FULL"}
        /\ ctx'.page = [ctx.page EXCEPT ![p] = FreshPage(flash[p].status)]
        /\ ctx'.active = ctx.active
    BY <1>1, <1>8 DEF LoadInUse, CtxOK, Ctx
  <2>2. ctx'.page[p] = FreshPage(flash[p].status)
          /\ \A q \in Pages \ {p} : ctx'.page[q] = ctx.page[q]
    BY <1>1, <2>1 DEF CtxOK, Ctx
  <2>3. PageOK(flash[p], FreshPage(flash[p].status), FALSE)
    <3>1. PageOK(flash[p], FreshPage(flash[p].status), flash[p].status = "ERASED")
      BY <1>1, <1>3, PageLoaded
    <3>2. (flash[p].status = "ERASED") = FALSE
      BY <2>1
    <3>. QED
      BY <3>1, <3>2
  <2>4. ~Whole(p)' /\ pc' = "Scan"
    BY <2>1 DEF Whole, Goto
  <2>5. Layout'
    BY <1>1, <2>1, <2>2, <2>3, <2>4, LayoutAfter
  <2>6. Status(p)' \in {"ACTIVE", "FULL"} /\ \A q \in Pages \ {p} : Status(q)' = Status(q)
    BY <2>1, <2>2 DEF Status, FreshPage
  <2>7. Targets'
    BY <1>2, <2>1, <2>4, <2>6 DEF Targets, ActiveKnown, InUse
  <2>. QED
    BY <1>5, <2>1, <2>5, <2>7, SameFlashSafe DEF StoreInv
<1>9. ASSUME pc = "Scan"
      PROVE  /\ PageOK(flash[p], ctx.page[p], FALSE) /\ Status(p) \in {"ACTIVE", "FULL"}
             /\ Used(p) \in Nat /\ ctx.page[p].cnt \in Nat
             /\ Accessible(Used(p), ItemHeaderSize) => Used(p) \in Offsets
  <2>1. PageOK(flash[p], ctx.page[p], FALSE) /\ Used(p) \in Nat /\ ctx.page[p].cnt \in Nat
    BY <1>1, <1>9, LayoutHere DEF RamPage, Used
  <2>2. Status(p) \in {"ACTIVE", "FULL"}
    BY <1>2, <1>9 DEF Targets, ActiveKnown, InUse
  <2>3. Accessible(Used(p), ItemHeaderSize) => Used(p) \in Offsets
    BY <2>1, OffsetsFacts, PagesAssumption DEF Accessible, ItemHeaderSize, PageHeaderSize
  <2>. QED
    BY <2>1, <2>2, <2>3
<1>10. CASE ScanItem
  <2>. DEFINE c == flash[p].cell[Used(p)]
              n == IF c.kind = "live" THEN ctx.page[p].cnt + 1 ELSE ctx.page[p].cnt
              s == [ctx.page[p] EXCEPT !.used = Used(p) + c.size, !.cnt = n]
  <2>1. /\ pc = "Scan" /\ UNCHANGED <<flash, frame>> /\ Goto("Scan")
        /\ Used(p) \in Offsets /\ c.kind \in {"live", "dead", "hole"}
        /\ ctx'.page = [ctx.page EXCEPT ![p] = s] /\ ctx'.active = ctx.active
    BY <1>1, <1>9, <1>10 DEF ScanItem, CtxOK, Ctx, Scanned, ScanOffset, Used
  <2>2. ctx'.page[p] = s /\ \A q \in Pages \ {p} : ctx'.page[q] = ctx.page[q]
    BY <1>1, <2>1 DEF CtxOK, Ctx
  <2>3. c \in Cell /\ CellFits(Used(p), c)
    BY <1>1, <2>1 DEF FlashPage, Fits
  <2>4. (c.kind = "live" <=> c.key # NoKey) /\ Occupied(flash[p].cell, Used(p)) /\ n \in Nat
    BY <1>9, <2>1, <2>3, KeyedCell DEF Occupied
  <2>5. PageOK(flash[p], s, FALSE)
    <3>. DEFINE fp == flash[p]
                rp == ctx.page[p]
    <3>1. rp.used = Used(p) /\ rp.status \in {"ACTIVE", "FULL"} /\ PageOK(fp, rp, FALSE)
            /\ fp \in FlashPage /\ rp \in RamPage
      BY <1>1, <1>9, <2>1 DEF Used, Status
    <3>2. n = IF fp.cell[rp.used].key # NoKey THEN rp.cnt + 1 ELSE rp.cnt
      BY <2>4, <3>1
    <3>3. Occupied(fp.cell, rp.used) /\ n \in Nat /\ rp.used \in Offsets
      BY <2>1, <2>4, <3>1
    <3>4. s = [rp EXCEPT !.used = rp.used + fp.cell[rp.used].size, !.cnt = n]
      BY <3>1
    <3>. HIDE DEF s, n, c, fp, rp
    <3>5. PageOK(fp, [rp EXCEPT !.used = rp.used + fp.cell[rp.used].size, !.cnt = n], FALSE)
      BY <3>1, <3>2, <3>3, PageScanned
    <3>. QED
      BY <3>4, <3>5 DEF fp
  <2>. HIDE DEF n, c
  <2>6. ~Whole(p)' /\ pc' = "Scan"
    BY <2>1 DEF Whole, Goto
  <2>7. Layout'
    BY <1>1, <2>1, <2>2, <2>5, <2>6, LayoutAfter
  <2>8. \A q \in Pages : Status(q)' = Status(q)
    BY <1>1, <2>2 DEF Status, RamPage
  <2>9. Targets'
    BY <1>1, <1>2, <2>1, <2>6, <2>8 DEF Targets, ActiveKnown, InUse, Goto
  <2>. QED
    BY <1>5, <2>1, <2>7, <2>9, SameFlashSafe DEF StoreInv
<1>11. CASE ScanCorrupt
  <2>. DEFINE fp == flash[p]
              rp == ctx.page[p]
              o == Used(p)
              g == [fp EXCEPT !.cell = [fp.cell EXCEPT ![o] = DeadCell(fp.cell[o].size)]]
              s == [rp EXCEPT !.used = o + fp.cell[o].size]
  <2>1. /\ pc = "Scan" /\ UNCHANGED frame /\ Goto("Scan")
        /\ o \in Offsets /\ fp.cell[o].kind = "torn"
        /\ ctx'.page = [ctx.page EXCEPT ![p] = s] /\ ctx'.active = ctx.active
        /\ flash' = [flash EXCEPT ![p] = g]
    BY <1>1, <1>9, <1>11 DEF ScanCorrupt, CtxOK, Ctx, Scanned, ScanOffset, Used, MarkDead
  <2>2. flash'[p] = g /\ ctx'.page[p] = s
          /\ \A q \in Pages \ {p} : flash'[q] = flash[q] /\ ctx'.page[q] = ctx.page[q]
    BY <1>1, <2>1 DEF CtxOK, Ctx, FlashOK
  <2>3. PageOK(g, s, FALSE)
    <3>1. rp.used = o /\ rp.status \in {"ACTIVE", "FULL"} /\ PageOK(fp, rp, FALSE)
            /\ fp \in FlashPage /\ rp \in RamPage /\ Fits(fp.cell)
      BY <1>1, <1>9, <2>1 DEF Used, Status
    <3>2. rp.used \in Offsets /\ fp.cell[rp.used].kind = "torn"
      BY <2>1, <3>1
    <3>3. g = [fp EXCEPT !.cell = [fp.cell EXCEPT ![rp.used] = DeadCell(fp.cell[rp.used].size)]]
            /\ s = [rp EXCEPT !.used = rp.used + fp.cell[rp.used].size]
      BY <3>1
    <3>. HIDE DEF s, g, fp, rp, o
    <3>. QED
      BY <3>1, <3>2, <3>3, PageScannedCorrupt
  <2>4. ~Whole(p)' /\ pc' = "Scan"
    BY <2>1 DEF Whole, Goto
  <2>5. Layout'
    <3>. HIDE DEF g, s
    <3>. QED
      BY <1>1, <2>1, <2>2, <2>3, <2>4, LayoutAfter
  <2>6. \A q \in Pages : Status(q)' = Status(q)
    BY <1>1, <2>2 DEF Status, RamPage
  <2>7. Targets'
    BY <1>1, <1>2, <2>1, <2>4, <2>6 DEF Targets, ActiveKnown, InUse, Goto
  <2>8. NothingErased
    <3>1. flash'[p].cell[o].kind = "dead" /\ BlankPage.cell[o].kind = "blank"
      BY <1>1, <2>1, <2>2 DEF FlashPage, DeadCell, BlankPage, Blank
    <3>. QED
      BY <2>2, <3>1 DEF NothingErased, Erases
  <2>. QED
    BY <1>5, <2>1, <2>5, <2>7, <2>8, NothingErasedSafe DEF StoreInv
<1>12. ASSUME pc = "Scan",
              \/ ~Accessible(Used(p), ItemHeaderSize)
              \/ Used(p) \in Offsets /\ flash[p].cell[Used(p)] = Blank
       PROVE  PageOK(flash[p], ctx.page[p], TRUE)
  <2>. DEFINE fp == flash[p]
              rp == ctx.page[p]
  <2>1. PageOK(fp, rp, FALSE) /\ Fits(fp.cell) /\ fp \in FlashPage /\ rp \in RamPage
    BY <1>1, <1>9, <1>12
  <2>2. fp.cell[rp.used].kind = "blank" \/ ~Accessible(rp.used, ItemHeaderSize)
    BY <1>12, BlankCell DEF Used
  <2>. HIDE DEF fp, rp
  <2>3. PageOK(fp, rp, TRUE)
    BY <2>1, <2>2, PageScanEnds
  <2>. QED
    BY <2>3 DEF fp, rp
<1>13. CASE ScanAbort
  <2>1. pc = "Scan" /\ UNCHANGED <<flash, ctx>> /\ pc' = "Idle" /\ frame' = NoFrame
          /\ ~Accessible(Used(p), ItemHeaderSize)
    BY <1>13 DEF ScanAbort, Goto, ScanOffset
  <2>2. PageOK(flash[p], ctx.page[p], TRUE)
    BY <1>12, <2>1
  <2>3. Layout'
    BY <1>1, <2>1, <2>2, LayoutAfter
  <2>4. Targets'
    BY <1>2, <2>1 DEF Targets, ActiveKnown, Status
  <2>. QED
    BY <2>1, <2>3, <2>4, NoFramePlaces, SameFlashSafe DEF StoreInv, Rescued, InRealign
<1>14. CASE ScanEnd
  <2>1. pc = "Scan" /\ NextBootPage /\ Used(p) \in Offsets /\ flash[p].cell[Used(p)] = Blank
    BY <1>9, <1>14 DEF ScanEnd, ScanOffset, Scanned
  <2>2. PageOK(flash[p], ctx.page[p], TRUE)
    BY <1>12, <2>1
  <2>3. CASE Status(p) = "FULL" /\ ctx.page[p].cnt = 0
    <3>1. /\ flash' = [flash EXCEPT ![p] = BlankPage]
          /\ ctx'.page = [ctx.page EXCEPT ![p] = FreshPage("ERASED")] /\ ctx'.active = p
      BY <1>1, <1>14, <2>3 DEF ScanEnd, CtxOK, Ctx
    <3>2. /\ flash'[p] = BlankPage /\ ctx'.page[p] = FreshPage("ERASED")
          /\ \A q \in Pages \ {p} : flash'[q] = flash[q] /\ ctx'.page[q] = ctx.page[q]
      BY <1>1, <3>1 DEF FlashOK, CtxOK, Ctx
    <3>3. PageOK(BlankPage, FreshPage("ERASED"), TRUE)
      BY BlankPageTidy
    <3>4. Layout'
      BY <1>1, <3>2, <3>3, LayoutAfter
    <3>5. Targets'
      BY <1>1, <1>4, <2>1, <3>1, <3>2 DEF Targets, ActiveKnown, Status, FreshPage
    <3>6. ErasesSafely
      <4>1. \A o \in Offsets : flash[p].cell[o].kind # "live"
        <5>. DEFINE fp == flash[p]
                    rp == ctx.page[p]
        <5>1. fp \in FlashPage /\ rp \in RamPage /\ PageOK(fp, rp, TRUE) /\ Fits(fp.cell)
                /\ rp.status # "UNAVAILABLE" /\ rp.cnt = 0
          BY <1>1, <2>2, <2>3 DEF Status
        <5>. HIDE DEF fp, rp
        <5>2. \A o \in Offsets : fp.cell[o].kind # "live"
          BY <5>1, PageEmpty
        <5>. QED
          BY <5>2 DEF fp
      <4>. QED
        BY <1>1, <3>1, <4>1, EraseSafe DEF Holds
    <3>. QED
      BY <1>4, <2>1, <3>4, <3>5, <3>6 DEF StoreInv
  <2>4. CASE ~(Status(p) = "FULL" /\ ctx.page[p].cnt = 0)
    <3>1. UNCHANGED flash /\ ctx'.page = ctx.page /\ ctx'.active = p
      BY <1>1, <1>14, <2>4 DEF ScanEnd, CtxOK, Ctx
    <3>2. Layout'
      BY <1>1, <2>2, <3>1, LayoutAfter
    <3>3. Targets'
      BY <1>4, <1>9, <2>1, <3>1 DEF Targets, ActiveKnown, Status
    <3>. QED
      BY <1>4, <2>1, <3>1, <3>2, <3>3, SameFlashSafe DEF StoreInv
  <2>. QED
    BY <2>3, <2>4
<1>. QED
  BY <1>6, <1>7, <1>8, <1>10, <1>11, <1>13, <1>14 DEF Boot

(* A step that changes neither flash nor RAM. *)
LEMMA QuietStep ==
  ASSUME StoreInv, pc # "Scan", UNCHANGED <<flash, ctx>>,
         pc' \notin {"Scan", "Append", "AppendSeal", "CopySeal", "RealignTake",
                     "DelErase", "Realign"}
  PROVE  Layout' /\ Targets' /\ Rescued' /\ ErasesSafely
<1>1. Layout'
  BY LayoutSame DEF StoreInv
<1>2. Targets'
  BY DEF StoreInv, Targets, ActiveKnown, Status
<1>. QED
  BY <1>1, <1>2, SameFlashSafe DEF Rescued, InRealign

LEMMA QuietReturn ==
  ASSUME StoreInv, pc # "Scan", UNCHANGED <<flash, ctx>>, pc' = "Idle", frame' = NoFrame
  PROVE  StoreInv' /\ ErasesSafely
<1>1. Places'
  BY NoFramePlaces
<1>. QED
  BY <1>1, QuietStep DEF StoreInv

LEMMA InPageOffset ==
  ASSUME CtxOK, NEW p \in Pages, NEW o \in Nat, o < Used(p)
  PROVE  o \in Offsets /\ Status(p) \in RamStatus
<1>1. ctx.page[p] \in RamPage /\ (Used(p) = 0 \/ Used(p) + PageHeaderSize < PageSize)
  BY DEF CtxOK, Ctx, UsedFits
<1>2. o < PageSize
  BY <1>1, PagesAssumption DEF RamPage, Used, PageHeaderSize
<1>. QED
  BY <1>1, <1>2, OffsetsFacts DEF RamPage, Status

LEMMA FindStore ==
  ASSUME CalmFaults, IInv, StoreInv, Find
  PROVE  StoreInv' /\ ErasesSafely
<1>1. frame \in Frame /\ frame.pg \in Pages /\ frame.off \in Nat /\ FlashOK /\ CtxOK
        /\ Layout /\ Places /\ Targets
  BY DEF IInv, DataInv, RestOK, Frame, StoreInv
<1>2. CASE FindPage
  <2>1. /\ UNCHANGED <<flash, ctx>> /\ pc = "Page" /\ pc' \in {"Find", "Next"}
        /\ frame' = [frame EXCEPT !.off = 0, !.hits = 0]
    BY <1>2 DEF FindPage, Goto
  <2>2. Places'
    BY <1>1, <2>1 DEF Places, Frame
  <2>. QED
    BY <2>1, <2>2, QuietStep DEF StoreInv
<1>3. CASE FindPass
  <2>1. /\ UNCHANGED <<flash, ctx>> /\ pc = "Find" /\ pc' = "Find"
        /\ frame' = [frame EXCEPT !.off = @ + Here.size]
    BY <1>3 DEF FindPass, Goto
  <2>2. Places'
    BY <1>1, <2>1 DEF Places, Frame
  <2>. QED
    BY <2>1, <2>2, QuietStep DEF StoreInv
<1>4. CASE FindCorrupt
  <2>0. PICK p \in Pages : p = frame.pg
    BY <1>1
  <2>1. PICK o \in Offsets : o = frame.off
    BY <1>1, <1>4, InPageOffset DEF FindCorrupt, InPage
  <2>2. /\ pc = "Find" /\ pc' = "Find" /\ UNCHANGED ctx /\ MarkDead(p, o)
        /\ frame' = [frame EXCEPT !.off = @ + Here.size]
        /\ flash[p].cell[o].kind = "torn" /\ o < Used(p)
    BY <1>4, <2>0, <2>1 DEF FindCorrupt, Goto, InPage, Here
  <2>3. Used(p) > 0 /\ ctx.page[p].cnt \in Nat
    BY <1>1, <2>2, PageTypes, OffsetsFacts DEF RamPage, Used
  <2>4. Status(p) # "UNAVAILABLE"
    BY <1>1, <2>3, PageKnown
  <2>5. flash[p].cell[o].key # NoKey /\ "decay" \in Faults
    <3>1. flash[p].cell[o] \in Cell /\ CellFits(o, flash[p].cell[o])
      BY <1>1 DEF FlashOK, FlashPage, CellsFit
    <3>2. PageOK(flash[p], ctx.page[p], TRUE)
      BY <1>1, <2>2, LayoutWhole
    <3>. QED
      BY <2>2, <3>1, <3>2, KeyedCell DEF PageOK, Tidy, Neat
  <2>6. ctx'.page = [ctx.page EXCEPT ![p] = [ctx.page[p] EXCEPT !.cnt = ctx.page[p].cnt]]
    BY <1>1, <2>2 DEF CtxOK, Ctx, RamPage
  <2>7. /\ Layout' /\ NothingErased /\ \A q \in Pages : Status(q)' = Status(q)
    <3>1. PICK n \in Nat : n = ctx.page[p].cnt
      BY <2>3
    <3>. QED
      BY <1>1, <2>2, <2>4, <2>5, <2>6, <3>1, MarkEffect
  <2>8. Places'
    BY <1>1, <2>2 DEF Places, Frame
  <2>9. Targets' /\ Rescued'
    BY <1>1, <2>2, <2>7 DEF Targets, ActiveKnown, Rescued, InRealign
  <2>. QED
    BY <2>7, <2>8, <2>9, NothingErasedSafe DEF StoreInv
<1>5. CASE FindHit
  <2>1. UNCHANGED <<flash, ctx>> /\ pc = "Find" /\ pc' \in {"Hit", "Del"}
    BY <1>5 DEF FindHit, Goto
  <2>2. frame.off \in Offsets
    BY <1>1, <1>5, InPageOffset DEF FindHit, InPage
  <2>3. frame'.last = frame.last /\ frame'.loc = frame.loc
          /\ frame'.del \in {frame.del, frame.last} /\ frame'.off = frame.off
    BY <1>1, <1>5 DEF FindHit, Frame
  <2>4. Places'
    BY <1>1, <2>2, <2>3 DEF Places
  <2>. QED
    BY <2>1, <2>4, QuietStep DEF StoreInv
<1>6. CASE FindKeep
  <2>1. UNCHANGED <<flash, ctx>> /\ pc = "Hit" /\ pc' = "Find"
    BY <1>6 DEF FindKeep, Goto
  <2>2. frame'.last.off = frame.off /\ frame'.loc = frame.loc /\ frame'.del = frame.del
    BY <1>1, <1>6 DEF FindKeep, Frame
  <2>3. Places'
    BY <1>1, <2>1, <2>2 DEF Places
  <2>. QED
    BY <2>1, <2>3, QuietStep DEF StoreInv
<1>7. CASE FindPageEnd
  <2>1. UNCHANGED <<flash, ctx>> /\ pc = "Find" /\ pc' \in {"Next", "Del"}
    BY <1>7 DEF FindPageEnd, Goto
  <2>2. /\ frame'.last = frame.last /\ frame'.loc \in {frame.loc, frame.last}
        /\ frame'.del \in {frame.del, frame.last} /\ (pc' = "Del" => frame'.back = "Next")
    BY <1>1, <1>7 DEF FindPageEnd, Goto, Frame
  <2>3. Places'
    BY <1>1, <2>1, <2>2 DEF Places
  <2>. QED
    BY <2>1, <2>3, QuietStep DEF StoreInv
<1>8. CASE FindNextPage
  <2>1. /\ UNCHANGED <<flash, ctx>> /\ pc = "Next" /\ pc' \in {"Found", "Page"}
        /\ frame' = [frame EXCEPT !.pg = PrevPage(@)]
    BY <1>8 DEF FindNextPage, Goto
  <2>2. Places'
    BY <1>1, <2>1 DEF Places, Frame
  <2>. QED
    BY <2>1, <2>2, QuietStep DEF StoreInv
<1>9. CASE ReadReturns
  BY <1>9, QuietReturn DEF ReadReturns, Return
<1>. QED
  BY <1>2, <1>3, <1>4, <1>5, <1>6, <1>7, <1>8, <1>9 DEF Find

LEMMA DeleteStore ==
  ASSUME CalmFaults, IInv, StoreInv, Delete
  PROVE  StoreInv' /\ ErasesSafely
<1>1. frame \in Frame /\ FlashOK /\ CtxOK /\ Layout /\ Places /\ Targets
  BY DEF IInv, DataInv, RestOK, StoreInv
<1>2. pc \in {"Del", "DelErase"} /\ frame.del.page \in Pages
  BY DEF Delete, DelNothing, DelMismatch, DelMark, DelErase, IInv, Control, DeleteControl
<1>3. PICK p \in Pages : p = frame.del.page
  BY <1>2
<1>4. PICK o \in Offsets : o = frame.del.off
  BY <1>1, <1>2 DEF Places
<1>5. frame.back \in {"Idle", "Hit", "Next", "Done"}
  BY <1>1 DEF Frame
<1>6. ASSUME UNCHANGED frame, pc' = frame.back PROVE Places' /\ Rescued'
  BY <1>1, <1>2, <1>5, <1>6 DEF Places, Rescued, InRealign
<1>7. CASE DelNothing
  <2>1. UNCHANGED <<flash, ctx, frame>> /\ pc' = frame.back
    BY <1>7 DEF DelNothing, Goto
  <2>. QED
    BY <1>2, <1>5, <1>6, <2>1, QuietStep DEF StoreInv
<1>8. CASE DelMismatch
  BY <1>2, <1>8, QuietReturn DEF DelMismatch, Fail, Return
<1>9. CASE DelMark
  <2>1. /\ MarkDead(p, o) /\ flash[p].cell[o].key = call.key /\ ctx.page[p].cnt > 0
        /\ ctx' = [ctx EXCEPT !.page[p].cnt = @ - 1] /\ UNCHANGED frame /\ pc = "Del"
        /\ pc' = IF ctx.page[p].cnt = 1 /\ Status(p) = "FULL" THEN "DelErase" ELSE frame.back
    BY <1>3, <1>4, <1>9 DEF DelMark, Doomed, Goto
  <2>2. ctx.page[p] \in RamPage
    BY <1>1, PageTypes
  <2>3. PICK n \in Nat : ctx.page[p].cnt = n + 1
    <3>1. ctx.page[p].cnt \in Nat /\ ctx.page[p].cnt - 1 \in Nat
      BY <2>1, <2>2 DEF RamPage
    <3>. QED
      BY <3>1
  <2>4. /\ ctx'.page = [ctx.page EXCEPT ![p] = [ctx.page[p] EXCEPT !.cnt = n]]
        /\ ctx'.active = ctx.active
    BY <1>1, <2>1, <2>3 DEF CtxOK, Ctx
  <2>5. Status(p) # "UNAVAILABLE"
    BY <1>1, <2>1, PageKnown
  <2>6. flash[p].cell[o].key # NoKey
    BY <2>1, KeysAssumption DEF IInv, Control, CallControl
  <2>7. /\ Layout' /\ NothingErased /\ \A q \in Pages : Status(q)' = Status(q)
        /\ ctx'.page[p].cnt = n
    BY <1>1, <2>1, <2>3, <2>4, <2>5, <2>6, MarkEffect
  <2>8. Places'
    BY <1>1, <1>5, <2>1 DEF Places
  <2>9. Rescued'
    BY <1>5, <2>1 DEF Rescued, InRealign
  <2>10. Targets'
    BY <1>1, <1>3, <1>5, <2>1, <2>3, <2>4, <2>7 DEF Targets, ActiveKnown
  <2>. QED
    BY <2>7, <2>8, <2>9, <2>10, NothingErasedSafe DEF StoreInv
<1>10. CASE DelErase
  <2>1. ErasePage(p) /\ UNCHANGED frame /\ pc' = frame.back /\ pc = "DelErase"
    BY <1>3, <1>10 DEF DelErase, Goto
  <2>2. /\ Layout' /\ flash' = [flash EXCEPT ![p] = BlankPage]
        /\ \A q \in Pages \ {p} : ctx'.page[q] = ctx.page[q]
        /\ Status(p)' = "ERASED" /\ ctx'.active = ctx.active
    BY <1>1, <2>1, EraseEffect
  <2>3. Targets'
    BY <1>1, <1>5, <2>1, <2>2 DEF Targets, ActiveKnown, Status
  <2>4. ErasesSafely
    <3>1. ctx.page[p].cnt = 0 /\ Status(p) = "FULL"
      BY <1>1, <1>3, <2>1 DEF Targets, ActiveKnown, IInv, Control, DeleteControl
    <3>2. \A r \in Offsets : flash[p].cell[r].kind # "live"
      <4>. DEFINE fp == flash[p]
                  rp == ctx.page[p]
      <4>1. fp \in FlashPage /\ rp \in RamPage /\ PageOK(fp, rp, TRUE) /\ Fits(fp.cell)
              /\ rp.status # "UNAVAILABLE" /\ rp.cnt = 0
        BY <1>1, <2>1, <3>1, PageTypes, LayoutWhole DEF Status
      <4>. HIDE DEF fp, rp
      <4>2. \A r \in Offsets : fp.cell[r].kind # "live"
        BY <4>1, PageEmpty
      <4>. QED
        BY <4>2 DEF fp
    <3>. QED
      BY <1>1, <2>2, <3>2, EraseSafe DEF Holds
  <2>. QED
    BY <1>6, <2>1, <2>2, <2>3, <2>4 DEF StoreInv
<1>. QED
  BY <1>7, <1>8, <1>9, <1>10 DEF Delete

LEMMA RoomActive ==
  ASSUME NEW p \in Pages, NEW n \in Nat, n > 0, HasRoom(p, n)
  PROVE  Status(p) = "ACTIVE"
BY PagesFacts DEF HasRoom, Free

LEMMA NeedPositive ==
  ASSUME IInv, pc \notin {"Boot", "Scan", "Idle"}
  PROVE  Need \in Nat /\ Need > ItemHeaderSize /\ call.key \in Keys
BY SizeType DEF IInv, Control, CallControl, Need

(* A page is marked, and the call goes on. *)
LEMMA MarkedStep ==
  ASSUME IInv, StoreInv, pc # "Scan", NEW p \in Pages, Status(p) # "UNAVAILABLE",
         NEW st \in {"ACTIVE", "FULL"}, UpdateStatus(p, st)
  PROVE  /\ Layout' /\ SameCells /\ ErasesSafely
         /\ Status(p)' = st /\ \A q \in Pages \ {p} : Status(q)' = Status(q)
         /\ ActiveKnown'
         /\ \A q \in Pages : Used(q)' = Used(q)
<1>1. DataInv /\ FlashOK /\ CtxOK /\ Layout /\ Targets
  BY DEF IInv, DataInv, StoreInv
<1>2. Status(p)' = st /\ \A q \in Pages \ {p} : Status(q)' = Status(q)
  BY <1>1, UpdateKeeps
<1>3. /\ Layout' /\ SameCells /\ NothingErased /\ ctx'.active \in {ctx.active, p, NoPage}
      /\ \A q \in Pages : Used(q)' = Used(q)
  BY <1>1, UpdateEffect
<1>4. ActiveKnown'
  BY <1>1, <1>2, <1>3, PagesFacts DEF Targets, ActiveKnown, Status
<1>. QED
  BY <1>2, <1>3, <1>4, NothingErasedSafe

LEMMA GetPageStore ==
  ASSUME CalmFaults, IInv, StoreInv, GetPage
  PROVE  StoreInv' /\ ErasesSafely
<1>1. frame \in Frame /\ Places /\ Targets /\ pc \in {"Found", "Recheck", "Take"}
        /\ ctx.active \in Pages \cup {NoPage} /\ NoPage \notin Pages
  BY PagesFacts DEF GetPage, UseCandidate, SealCandidate, TakePage, NoCandidate, RecheckFails,
     RecheckRoom, RecheckSeal, TakeFails, Choosing, IInv, RestOK, StoreInv, DataInv,
     CtxOK, Ctx
<1>2. Need \in Nat /\ Need > 0
  BY <1>1, NeedPositive DEF ItemHeaderSize
<1>3. ASSUME NEW p \in Pages, frame' = [frame EXCEPT !.pg = p], pc' \in {"Append", "Take"}
      PROVE  Places' /\ Rescued'
  BY <1>1, <1>3 DEF Places, Frame, Rescued, InRealign
<1>4. ASSUME NEW p \in Pages, AppendTo(p), UNCHANGED <<flash, ctx>>, HasRoom(p, Need)
      PROVE  StoreInv' /\ ErasesSafely
  <2>1. pc' = "Append" /\ frame' = [frame EXCEPT !.pg = p] /\ frame'.pg = p
    BY <1>1, <1>4 DEF AppendTo, Goto, Frame
  <2>2. Status(p)' = "ACTIVE"
    BY <1>2, <1>4, RoomActive DEF Status
  <2>3. Layout'
    BY <1>1, <1>4, LayoutSame DEF StoreInv
  <2>4. Targets'
    BY <1>1, <1>4, <2>1, <2>2 DEF Targets, ActiveKnown, Status
  <2>. QED
    BY <1>3, <1>4, <2>1, <2>3, <2>4, SameFlashSafe DEF StoreInv
<1>5. ASSUME NEW p \in Pages, SealPage(p), Status(p) # "UNAVAILABLE"
      PROVE  StoreInv' /\ ErasesSafely
  <2>1. UpdateStatus(p, "FULL") /\ pc' = "Take" /\ frame' = [frame EXCEPT !.pg = p]
    BY <1>5 DEF SealPage, Goto
  <2>2. /\ Layout' /\ ErasesSafely
        /\ ActiveKnown'
    BY <1>1, <1>5, <2>1, MarkedStep
  <2>3. Targets'
    BY <2>1, <2>2 DEF Targets, ActiveKnown
  <2>. QED
    BY <1>3, <2>1, <2>2, <2>3 DEF StoreInv
<1>6. ASSUME NEW p \in Pages, UseCandidate(p) PROVE StoreInv' /\ ErasesSafely
  BY <1>4, <1>6 DEF UseCandidate
<1>7. ASSUME NEW p \in Pages, SealCandidate(p) PROVE StoreInv' /\ ErasesSafely
  <2>1. Status(p) # "UNAVAILABLE"
    BY <1>1, <1>7 DEF SealCandidate, IsCandidate, IsFirstPage, Targets, ActiveKnown
  <2>. QED
    BY <1>5, <1>7, <2>1 DEF SealCandidate
<1>8. ASSUME NEW p \in Pages, TakePage(p) PROVE StoreInv' /\ ErasesSafely
  <2>1. /\ pc' = "Append" /\ frame' = [frame EXCEPT !.pg = p] /\ frame'.pg = p
        /\ UpdateStatus(p, "ACTIVE") /\ Status(p) = "ERASED"
    BY <1>1, <1>8 DEF TakePage, AppendTo, Goto, Frame, IsFirstPage
  <2>2. /\ Layout' /\ ErasesSafely /\ Status(p)' = "ACTIVE"
        /\ ActiveKnown'
    BY <1>1, <2>1, MarkedStep
  <2>3. Targets'
    <3>1. Status(frame.pg)' = "ACTIVE"
      BY <2>1, <2>2 DEF Status
    <3>. QED
      BY <2>1, <2>2, <3>1 DEF Targets, ActiveKnown
  <2>. QED
    BY <1>3, <2>1, <2>2, <2>3 DEF StoreInv
<1>9. CASE NoCandidate
  <2>1. /\ UNCHANGED <<flash, ctx>> /\ pc' = "Take" /\ frame' = [frame EXCEPT !.pg = 0]
    BY <1>9 DEF NoCandidate, Goto
  <2>. QED
    BY <1>1, <1>3, <2>1, PagesFacts, QuietStep DEF StoreInv
<1>10. CASE RecheckFails
  BY <1>1, <1>10, QuietReturn DEF RecheckFails, Fail, Return
<1>11. CASE RecheckRoom
  BY <1>1, <1>4, <1>11 DEF RecheckRoom
<1>12. CASE RecheckSeal
  BY <1>1, <1>5, <1>12 DEF RecheckSeal, Targets, ActiveKnown
<1>13. CASE TakeFails
  BY <1>1, <1>13, QuietReturn DEF TakeFails, Fail, Return
<1>. QED
  BY <1>6, <1>7, <1>8, <1>9, <1>10, <1>11, <1>12, <1>13 DEF GetPage

(* The copy of an item elsewhere stays while cells stay or blank ones fill. *)
LEMMA RealignStore ==
  ASSUME CalmFaults, IInv, StoreInv, Realign
  PROVE  StoreInv' /\ ErasesSafely
<1>1. /\ frame \in Frame /\ FlashOK /\ CtxOK /\ StatusMirrored /\ Layout /\ Places /\ Targets
      /\ ctx.active \in Pages \cup {NoPage} /\ NoPage \notin Pages /\ frame.off \in Nat
      /\ DataInv
  BY PagesFacts DEF IInv, DataInv, RestOK, StoreInv, CtxOK, Ctx, Frame
<1>2. PICK victim \in Pages : victim = frame.victim
  BY <1>1 DEF Frame
<1>3. pc = "Found" \/ (InRealign /\ Status(victim) = "FULL")
  BY <1>2 DEF Realign, RealignNone, RealignFull, RealignStart, RealignSkip, RealignCorrupt,
     RealignTake, RealignFails, RealignCopy, CanCopy, CopySeal, RealignEnd, Crowded, Choosing,
     Moving, InRealign, IInv, Control, RealignControl
<1>4. pc \notin {"Scan", "Boot", "Idle"}
  BY <1>3 DEF InRealign
<1>5. ASSUME frame'.last = frame.last, frame'.loc = frame.loc, frame'.del = frame.del,
             pc' \in {"Realign", "RealignTake", "CopySeal", "Recheck"}
      PROVE  Places'
  BY <1>1, <1>5 DEF Places
<1>6. ASSUME NEW p \in Pages, RealignNone(p) PROVE StoreInv' /\ ErasesSafely
  <2>1. UNCHANGED <<flash, ctx, frame>> /\ pc' = "Recheck"
    BY <1>6 DEF RealignNone, Goto
  <2>. QED
    BY <1>4, <1>5, <2>1, QuietStep DEF StoreInv
<1>7. ASSUME NEW p \in Pages, NEW v \in Pages, RealignStart(p, v)
      PROVE  StoreInv' /\ ErasesSafely
  <2>1. /\ UNCHANGED <<flash, ctx>> /\ pc' = "Realign"
        /\ frame' = [frame EXCEPT !.victim = v, !.off = 0]
    BY <1>7 DEF RealignStart, Goto
  <2>2. frame'.last = frame.last /\ frame'.loc = frame.loc /\ frame'.del = frame.del
          /\ frame'.off = 0
    BY <1>1, <2>1 DEF Frame
  <2>3. Rescued'
    BY <2>2, OffsetsFacts DEF Rescued
  <2>4. Layout'
    BY <1>1, <1>4, <2>1, LayoutSame
  <2>5. Targets'
    BY <1>1, <2>1 DEF Targets, ActiveKnown, Status
  <2>. QED
    BY <1>5, <2>1, <2>2, <2>3, <2>4, <2>5, SameFlashSafe DEF StoreInv
(* A page is marked in the midst of the realignment. *)
<1>8. ASSUME InRealign, SameCells, UNCHANGED <<frame.victim, frame.off>>,
             pc' \in {"Realign", "RealignTake", "CopySeal"}
      PROVE  Rescued'
  BY <1>2, <1>8 DEF StoreInv, Rescued, Holds, SameCells
<1>9. ASSUME NEW p \in Pages, RealignFull(p) PROVE StoreInv' /\ ErasesSafely
  <2>1. /\ UpdateStatus(ctx.active, "FULL") /\ pc' = "RealignTake" /\ pc = "Realign"
        /\ frame' = [frame EXCEPT !.pg = p] /\ Status(p) = "ERASED"
        /\ ctx.active \in Pages
    BY <1>1, <1>9 DEF RealignFull, Goto, IsFirstPage, HasRoom, Moving
  <2>2. PICK a \in Pages : a = ctx.active
    BY <2>1
  <2>3. Status(a) # "UNAVAILABLE" /\ UpdateStatus(a, "FULL")
    BY <1>1, <2>1, <2>2 DEF Targets, ActiveKnown
  <2>4. /\ Layout' /\ SameCells /\ ErasesSafely
        /\ Status(a)' = "FULL" /\ \A q \in Pages \ {a} : Status(q)' = Status(q)
        /\ ActiveKnown'
    BY <1>4, <2>3, MarkedStep
  <2>5. /\ frame'.last = frame.last /\ frame'.loc = frame.loc /\ frame'.del = frame.del
        /\ frame'.pg = p /\ frame'.victim = frame.victim /\ frame'.off = frame.off
    BY <1>1, <2>1 DEF Frame
  <2>6. Status(p)' # "UNAVAILABLE"
    BY <2>1, <2>4
  <2>7. Targets'
    <3>1. Status(frame.pg)' # "UNAVAILABLE"
      BY <2>5, <2>6 DEF Status
    <3>. QED
      BY <2>1, <2>4, <3>1 DEF Targets, ActiveKnown
  <2>8. Rescued'
    BY <1>8, <2>1, <2>4, <2>5 DEF InRealign
  <2>. QED
    BY <1>5, <2>1, <2>4, <2>5, <2>7, <2>8 DEF StoreInv
<1>10. ASSUME NEW p \in Pages, p = frame.pg, NEW st \in {"ACTIVE", "FULL"},
              UpdateStatus(p, st), Status(p) # "UNAVAILABLE", InRealign,
              pc' = "Realign", UNCHANGED frame
       PROVE  StoreInv' /\ ErasesSafely
  <2>1. /\ Layout' /\ SameCells /\ ErasesSafely
        /\ ActiveKnown'
    BY <1>4, <1>10, MarkedStep
  <2>2. Targets'
    BY <1>10, <2>1 DEF Targets, ActiveKnown
  <2>. QED
    BY <1>5, <1>8, <1>10, <2>1, <2>2 DEF StoreInv
<1>11. CASE RealignTake
  <2>1. pc = "RealignTake" /\ UpdateStatus(frame.pg, "ACTIVE") /\ pc' = "Realign"
          /\ UNCHANGED frame /\ Status(frame.pg) # "UNAVAILABLE" /\ frame.pg \in Pages
    BY <1>1, <1>11 DEF RealignTake, Goto, Targets, ActiveKnown, Frame
  <2>. QED
    BY <1>10, <2>1 DEF InRealign
<1>12. CASE CopySeal
  <2>1. pc = "CopySeal" /\ UpdateStatus(frame.pg, "FULL") /\ pc' = "Realign"
          /\ UNCHANGED frame /\ Status(frame.pg) = "ACTIVE" /\ frame.pg \in Pages
    BY <1>1, <1>12 DEF CopySeal, Goto, Targets, ActiveKnown, Frame
  <2>. QED
    BY <1>10, <2>1 DEF InRealign
(* What the victim holds at frame.off, and what is passed with it. *)
<1>13. ASSUME Moving
       PROVE  /\ pc = "Realign" /\ frame.off \in Offsets /\ frame.off < Used(victim)
              /\ Moved = flash[victim].cell[frame.off]
              /\ Moved \in Cell /\ CellFits(frame.off, Moved) /\ Neat(Moved)
              /\ PageOK(flash[victim], ctx.page[victim], TRUE)
              /\ \A o \in Offsets : Moved.kind # "blank" /\ o < frame.off + Moved.size
                   /\ flash[victim].cell[o].kind = "live" => o <= frame.off
  <2>1. frame.off < Used(victim) /\ pc = "Realign"
    BY <1>2, <1>13 DEF Moving
  <2>2. frame.off \in Offsets
    BY <1>1, <2>1, InPageOffset
  <2>3. PageOK(flash[victim], ctx.page[victim], TRUE) /\ Tidy(flash[victim].cell)
    BY <1>1, <1>4, LayoutWhole DEF PageOK
  <2>4. Moved = flash[victim].cell[frame.off] /\ Moved \in Cell /\ CellFits(frame.off, Moved)
    BY <1>1, <1>2, <2>2 DEF Moved, FlashOK, FlashPage, CellsFit
  <2>5. Neat(Moved)
    BY <2>2, <2>3, <2>4 DEF Tidy
  <2>6. ASSUME NEW o \in Offsets, Moved.kind # "blank", o < frame.off + Moved.size,
               flash[victim].cell[o].kind = "live"
        PROVE  o <= frame.off
    <3>1. Moved.size \in Nat /\ o \in Nat
      BY <2>4, OffsetsFacts DEF Cell
    <3>2. frame.off < o => frame.off + Moved.size <= o
      BY <2>2, <2>3, <2>4, <2>6 DEF Tidy, Occupied
    <3>. QED
      BY <1>1, <2>6, <3>1, <3>2
  <2>. QED
    BY <2>1, <2>2, <2>3, <2>4, <2>5, <2>6
<1>14. ASSUME NEW n, StepOver(n)
       PROVE  /\ frame'.last = frame.last /\ frame'.loc = frame.loc /\ frame'.del = frame.del
              /\ frame'.victim = frame.victim /\ frame'.off = frame.off + n
              /\ frame'.pg = frame.pg
  BY <1>1, <1>14 DEF StepOver, Frame
<1>15. CASE RealignSkip
  <2>1. /\ UNCHANGED <<flash, ctx>> /\ pc = "Realign" /\ pc' = "Realign" /\ Moving
        /\ StepOver(Moved.size)
        /\ Moved.kind = "dead" \/ (Moved.kind = "live" /\ Moved.val \in ZeroCrc)
    BY <1>15 DEF RealignSkip, Goto, Moving
  <2>2. Rescued'
    <3>1. ASSUME NEW o \in Offsets, o < frame.off + Moved.size, flash[victim].cell[o].kind = "live",
                 flash[victim].cell[o].val \notin ZeroCrc
          PROVE  o < frame.off
      BY <1>1, <1>13, <2>1, <3>1, OffsetsFacts
    <3>. QED
      BY <1>2, <1>14, <2>1, <3>1 DEF StoreInv, Rescued, InRealign, Holds
  <2>3. Layout'
    BY <1>1, <2>1, LayoutSame
  <2>4. Targets'
    BY <1>1, <2>1 DEF Targets, ActiveKnown, Status
  <2>. QED
    BY <1>5, <1>14, <2>1, <2>2, <2>3, <2>4, SameFlashSafe DEF StoreInv
<1>16. CASE RealignCorrupt
  <2>1. /\ pc = "Realign" /\ pc' = "Realign" /\ Moving /\ StepOver(Moved.size)
        /\ Moved.kind = "torn"
    BY <1>13, <1>16 DEF RealignCorrupt, Goto, Neat
  <2>2. PICK o \in Offsets : o = frame.off
    BY <1>13, <2>1
  <2>3. ctx.page[victim] \in RamPage
    BY <1>1, PageTypes
  <2>4. PICK n \in Nat : n = IF ctx.page[victim].cnt > 0 THEN ctx.page[victim].cnt - 1
                                                        ELSE ctx.page[victim].cnt
    <3>1. ctx.page[victim].cnt \in Nat
      BY <2>3 DEF RamPage
    <3>. QED
      BY <3>1
  <2>5. n + 1 >= ctx.page[victim].cnt
    BY <2>3, <2>4 DEF RamPage
  <2>6. /\ MarkDead(victim, o) /\ ctx'.active = ctx.active
        /\ ctx'.page = [ctx.page EXCEPT ![victim] = [ctx.page[victim] EXCEPT !.cnt = n]]
    BY <1>1, <1>2, <1>16, <2>2, <2>4 DEF RealignCorrupt, CtxOK, Ctx
  <2>7. "decay" \in Faults /\ flash[victim].cell[o].key # NoKey
    BY <1>13, <2>1, <2>2, KeyedCell DEF Neat
  <2>8. Status(victim) # "UNAVAILABLE"
    BY <1>3, <2>1
  <2>9. /\ Layout' /\ NothingErased /\ \A q \in Pages : Status(q)' = Status(q)
        /\ flash' = [flash EXCEPT ![victim] = [flash[victim] EXCEPT !.cell =
             [flash[victim].cell EXCEPT ![o] = DeadCell(flash[victim].cell[o].size)]]]
    BY <1>1, <1>4, <2>5, <2>6, <2>7, <2>8, MarkEffect
  <2>10. Rescued'
    <3>1. \A q \in Pages : q # victim => flash'[q] = flash[q]
      BY <1>1, <2>9 DEF FlashOK
    <3>2. flash[victim].cell \in [Offsets -> Cell] /\ flash[victim] \in FlashPage
      BY <1>1 DEF FlashOK, FlashPage
    <3>3. flash'[victim].cell = [flash[victim].cell EXCEPT ![o] = DeadCell(flash[victim].cell[o].size)]
      BY <1>1, <2>9, <3>2 DEF FlashOK, FlashPage
    <3>4. flash'[victim].cell[o].kind # "live"
            /\ \A r \in Offsets : r # o => flash'[victim].cell[r] = flash[victim].cell[r]
      BY <3>2, <3>3 DEF DeadCell
    <3>5. ASSUME NEW r \in Offsets, r < frame.off + Moved.size,
                 flash'[victim].cell[r].kind = "live"
          PROVE  r < frame.off /\ flash'[victim].cell[r] = flash[victim].cell[r]
      BY <1>1, <1>13, <2>1, <2>2, <3>4, <3>5, OffsetsFacts
    <3>. QED
      BY <1>2, <1>14, <2>1, <3>1, <3>5 DEF StoreInv, Rescued, InRealign, Holds
  <2>11. Targets'
    BY <1>1, <2>1, <2>6, <2>9 DEF Targets, ActiveKnown
  <2>. QED
    BY <1>5, <1>14, <2>1, <2>9, <2>10, <2>11, NothingErasedSafe DEF StoreInv
<1>17. CASE RealignFails
  <2>1. UNCHANGED <<flash, ctx, frame>> /\ pc' = "Recheck"
    BY <1>17 DEF RealignFails, Goto
  <2>. QED
    BY <1>4, <1>5, <2>1, QuietStep DEF StoreInv
<1>18. CASE RealignCopy
  <2>1. /\ Moving /\ Movable /\ HasRoom(ctx.active, Moved.size) /\ Storable(ctx.active, Moved.size)
        /\ WriteItem(ctx.active, Moved) /\ pc' \in {"CopySeal", "Realign"}
        /\ frame' = [frame EXCEPT !.off = @ + Moved.size, !.pg = ctx.active]
    BY <1>18 DEF RealignCopy, CanCopy, Goto
  <2>2. /\ Moved \in Cell /\ Moved.kind = "live" /\ Moved.key \in Keys /\ Neat(Moved)
        /\ Moved.size \in Nat /\ Moved.size > 0
    BY <1>13, <2>1 DEF Movable, CellFits, Neat, Cell, ItemHeaderSize
  <2>3. PICK a \in Pages : a = ctx.active
    BY <2>1 DEF Storable
  <2>4. PICK c \in Cell : c = Moved
    BY <2>2
  <2>5. Status(a) = "ACTIVE"
    BY <2>1, <2>2, <2>3, RoomActive
  <2>6. a # victim
    BY <1>3, <1>13, <2>1, <2>5
  <2>7. /\ Layout' /\ Used(a) \in Offsets /\ flash[a].cell[Used(a)] = Blank
        /\ flash' = [flash EXCEPT ![a] =
                       [flash[a] EXCEPT !.cell = [flash[a].cell EXCEPT ![Used(a)] = c]]]
        /\ NothingErased /\ ctx'.active = ctx.active
        /\ \A q \in Pages : Status(q)' = Status(q)
    BY <1>1, <1>4, <2>1, <2>2, <2>3, <2>4, <2>5, WriteEffect
  <2>8. /\ frame'.last = frame.last /\ frame'.loc = frame.loc /\ frame'.del = frame.del
        /\ frame'.pg = a /\ frame'.victim = frame.victim /\ frame'.off = frame.off + c.size
    BY <1>1, <2>1, <2>3, <2>4 DEF Frame
  <2>9. Rescued'
    <3>1. \A q \in Pages : q # a => flash'[q] = flash[q]
      BY <1>1, <2>7 DEF FlashOK
    <3>2. flash[a].cell \in [Offsets -> Cell] /\ flash[a] \in FlashPage
      BY <1>1 DEF FlashOK, FlashPage
    <3>3. flash'[a].cell = [flash[a].cell EXCEPT ![Used(a)] = c]
      BY <1>1, <2>7, <3>2 DEF FlashOK, FlashPage
    <3>4. flash'[a].cell[Used(a)] = c /\ \A r \in Offsets : flash[a].cell[r].kind = "live" =>
            flash'[a].cell[r] = flash[a].cell[r]
      BY <2>7, <3>2, <3>3, BlankCell
    <3>5. \A q \in Pages, r \in Offsets, k \in Keys : Holds(q, r, k) => Holds(q, r, k)'
      BY <3>1, <3>4 DEF Holds
    <3>6. SUFFICES ASSUME NEW o \in Offsets, NEW k \in Keys, o < frame'.off,
                          Holds(frame.victim, o, k)',
                          flash'[frame'.victim].cell[o].val \notin ZeroCrc
                   PROVE  \E p \in Pages, r \in Offsets : p # frame'.victim /\ Holds(p, r, k)'
      BY DEF Rescued
    <3>7. Holds(victim, o, k) /\ flash[victim].cell[o].val \notin ZeroCrc
      BY <1>2, <2>6, <2>8, <3>1, <3>6 DEF Holds
    <3>8. CASE o < frame.off
      <4>1. PICK p \in Pages, r \in Offsets : p # victim /\ Holds(p, r, k)
        BY <1>2, <1>13, <2>1, <3>7, <3>8 DEF StoreInv, Rescued, InRealign
      <4>. QED
        BY <1>2, <2>8, <3>5, <4>1
    <3>9. CASE o = frame.off
      <4>1. c.key = k /\ c.kind = "live"
        BY <1>13, <2>1, <2>2, <2>4, <3>7, <3>9 DEF Holds
      <4>2. PICK u \in Offsets : u = Used(a)
        BY <2>7
      <4>3. Holds(a, u, k)'
        BY <3>4, <4>1, <4>2 DEF Holds
      <4>. QED
        BY <1>2, <2>6, <2>8, <4>3
    <3>10. o <= frame.off
      <4>1. o < frame.off + c.size /\ flash[victim].cell[o].kind = "live"
        BY <2>8, <3>6, <3>7 DEF Holds
      <4>. QED
        BY <1>13, <2>1, <2>2, <2>4, <4>1
    <3>. QED
      BY <1>1, <3>8, <3>9, <3>10, OffsetsFacts
  <2>10. Targets'
    <3>1. Status(frame.pg)' = "ACTIVE"
      BY <2>5, <2>7, <2>8 DEF Status
    <3>. QED
      BY <1>1, <2>1, <2>7, <3>1 DEF Targets, ActiveKnown
  <2>. QED
    BY <1>5, <2>1, <2>7, <2>8, <2>9, <2>10, NothingErasedSafe DEF StoreInv
<1>19. CASE RealignEnd
  <2>1. /\ pc = "Realign" /\ ~Moving /\ ErasePage(victim) /\ pc' = "Recheck" /\ UNCHANGED frame
    BY <1>2, <1>19 DEF RealignEnd, Goto
  <2>2. /\ Layout' /\ flash' = [flash EXCEPT ![victim] = BlankPage]
        /\ \A q \in Pages \ {victim} : ctx'.page[q] = ctx.page[q]
        /\ Status(victim)' = "ERASED" /\ ctx'.active = ctx.active
    BY <1>1, <2>1, EraseEffect
  <2>3. Targets'
    BY <1>1, <2>1, <2>2 DEF Targets, ActiveKnown, Status
  <2>4. ErasesSafely
    <3>1. SUFFICES ASSUME NEW o \in Offsets, NEW k \in Keys, Holds(victim, o, k),
                          flash[victim].cell[o].val \notin ZeroCrc
                   PROVE  \E q \in Pages, r \in Offsets : q # victim /\ Holds(q, r, k)
      BY <1>1, <2>2, EraseSafe
    <3>2. o < frame.off
      <4>1. PageOK(flash[victim], ctx.page[victim], TRUE) /\ ctx.page[victim] \in RamPage
        BY <1>1, <2>1, LayoutWhole, PageTypes
      <4>2. EmptyFrom(flash[victim].cell, Used(victim)) /\ Used(victim) \in Nat
        BY <1>3, <2>1, <4>1 DEF PageOK, Status, Used, RamPage
      <4>3. o < Used(victim)
        BY <3>1, <4>2, OffsetsFacts DEF EmptyFrom, Occupied, Holds
      <4>4. Used(victim) <= frame.off
        BY <1>1, <1>2, <2>1, <4>2 DEF Moving
      <4>. QED
        BY <1>1, <4>2, <4>3, <4>4, OffsetsFacts
    <3>. QED
      BY <1>2, <2>1, <3>1, <3>2 DEF StoreInv, Rescued, InRealign
  <2>5. Rescued'
    BY <2>1 DEF Rescued, InRealign
  <2>. QED
    BY <1>5, <2>1, <2>2, <2>3, <2>4, <2>5 DEF StoreInv
<1>. QED
  BY <1>6, <1>7, <1>9, <1>11, <1>12, <1>15, <1>16, <1>17, <1>18, <1>19 DEF Realign

LEMMA WriteStore ==
  ASSUME CalmFaults, IInv, StoreInv, Write
  PROVE  StoreInv' /\ ErasesSafely
<1>1. /\ frame \in Frame /\ FlashOK /\ CtxOK /\ StatusMirrored /\ Layout /\ Places /\ Targets
      /\ frame.pg \in Pages /\ call \in Call
  BY DEF IInv, DataInv, RestOK, StoreInv, Frame
<1>2. pc \in {"Append", "AppendSeal", "Wrote", "Done"}
  BY DEF Write, AppendRefused, AppendItem, CanAppend, AppendSeal, WriteDeletesOld, WriteReturns
<1>3. Need \in Nat /\ Need > ItemHeaderSize /\ call.key \in Keys
  BY <1>2, NeedPositive
<1>4. PICK p \in Pages : p = frame.pg
  BY <1>1
<1>5. CASE AppendRefused
  BY <1>2, <1>5, QuietReturn DEF AppendRefused, Fail, Return
<1>6. CASE AppendItem
  <2>1. PICK c \in Cell : c = LiveCell(call.key, call.val)
    BY <1>1, <1>3 DEF LiveCell, Cell, CellKinds, Call, Need
  <2>2. c.kind = "live" /\ c.key \in Keys /\ c.size = Need /\ Neat(c)
    BY <1>3, <2>1 DEF LiveCell, Need, Neat
  <2>3. /\ Storable(p, c.size) /\ WriteItem(p, c) /\ pc' \in {"AppendSeal", "Wrote"}
        /\ UNCHANGED frame /\ Status(p) = "ACTIVE"
    BY <1>1, <1>4, <1>6, <2>1, <2>2 DEF AppendItem, CanAppend, Goto, Targets
  <2>4. /\ Layout' /\ NothingErased /\ ctx'.active = ctx.active
        /\ \A q \in Pages : Status(q)' = Status(q)
    BY <1>1, <1>2, <2>2, <2>3, WriteEffect
  <2>5. Places' /\ Rescued'
    BY <1>1, <2>3 DEF Places, Rescued, InRealign
  <2>6. Targets'
    BY <1>1, <1>4, <2>3, <2>4 DEF Targets, ActiveKnown
  <2>. QED
    BY <2>4, <2>5, <2>6, NothingErasedSafe DEF StoreInv
<1>7. CASE AppendSeal
  <2>1. UpdateStatus(p, "FULL") /\ pc' = "Wrote" /\ UNCHANGED frame /\ Status(p) = "ACTIVE"
    BY <1>1, <1>4, <1>7 DEF AppendSeal, Goto, Targets
  <2>2. Layout' /\ ErasesSafely /\ ActiveKnown'
    BY <1>2, <2>1, MarkedStep
  <2>3. Targets'
    BY <2>1, <2>2 DEF Targets
  <2>. QED
    BY <1>1, <2>1, <2>2, <2>3 DEF StoreInv, Places, Rescued, InRealign
<1>8. CASE WriteDeletesOld
  <2>1. /\ UNCHANGED flash /\ pc' \in {"Done", "Del"} /\ ctx'.page = ctx.page
        /\ ctx'.active = IF Status(p) = "ACTIVE" THEN p ELSE ctx.active
    BY <1>1, <1>4, <1>8 DEF WriteDeletesOld, Goto, CtxOK, Ctx
  <2>2. /\ frame'.last = frame.last /\ frame'.loc = frame.loc
        /\ frame'.del \in {frame.del, frame.loc} /\ (pc' = "Del" => frame'.back = "Done")
    BY <1>1, <1>8 DEF WriteDeletesOld, Goto, Frame
  <2>3. Places' /\ Rescued'
    BY <1>1, <2>1, <2>2 DEF Places, Rescued, InRealign
  <2>4. Layout'
    BY <1>1, <1>2, <2>1, LayoutSame
  <2>5. Targets'
    BY <1>1, <2>1 DEF Targets, ActiveKnown, Status
  <2>. QED
    BY <2>1, <2>3, <2>4, <2>5, SameFlashSafe DEF StoreInv
<1>9. CASE WriteReturns
  BY <1>2, <1>9, QuietReturn DEF WriteReturns, Return
<1>. QED
  BY <1>5, <1>6, <1>7, <1>8, <1>9 DEF Write

LEMMA CallStore ==
  ASSUME IInv, StoreInv, Calls
  PROVE  StoreInv' /\ ErasesSafely
<1>1. PICK c : Begin(c)
  BY DEF Calls, st_read_item, st_write_item
<1>2. /\ UNCHANGED <<flash, ctx>> /\ pc = "Idle" /\ pc' = "Page"
      /\ frame'.last = NoLoc /\ frame'.loc = NoLoc /\ frame'.del = NoLoc
  BY <1>1 DEF Begin, NoFrame
<1>3. Places'
  BY <1>2, PagesFacts DEF Places, NoLoc
<1>. QED
  BY <1>2, <1>3, QuietStep DEF StoreInv

LEMMA RestartStore ==
  ASSUME IInv, StoreInv, Restarted, UNCHANGED flash
  PROVE  StoreInv' /\ ErasesSafely
<1>1. /\ pc' = "Boot" /\ frame' = NoFrame /\ ctx'.active = NoPage
      /\ \A p \in Pages : ctx'.page[p] = FreshPage("UNAVAILABLE")
  BY DEF Restarted, BootCtx
<1>2. Layout'
  <2>1. ASSUME NEW p \in Pages PROVE PageOK(flash'[p], ctx'.page[p], Whole(p)')
    <3>1. PageOK(flash[p], ctx.page[p], Whole(p)) /\ Whole(p) \in BOOLEAN /\ Whole(p)' \in BOOLEAN
      BY DEF StoreInv, Layout, Whole
    <3>2. PageOK(flash[p], FreshPage("UNAVAILABLE"), Whole(p)')
      BY <3>1, PageForgotten
    <3>. QED
      BY <1>1, <3>2
  <2>. QED
    BY <2>1 DEF Layout
<1>3. Targets'
  BY <1>1, PagesFacts DEF Targets, ActiveKnown
<1>. QED
  BY <1>1, <1>2, <1>3, NoFramePlaces, SameFlashSafe DEF StoreInv, Rescued, InRealign

LEMMA FaultStore ==
  ASSUME CalmFaults, IInv, StoreInv, Reset \/ PowerLoss \/ TornWrite \/ TornErase \/ Decay
  PROVE  StoreInv' /\ ErasesSafely
<1>1. CASE Reset \/ PowerLoss
  BY <1>1, RestartStore DEF Reset, PowerLoss
<1>2. CASE TornWrite \/ TornErase
  BY <1>2 DEF TornWrite, TornErase, Fault, CalmFaults
<1>3. CASE Decay
  <2>1. PICK p \in Pages, o \in Offsets :
          /\ flash[p].cell[o].kind = "live"
          /\ flash' = [flash EXCEPT ![p].cell[o] = TornCell(flash[p].cell[o].key)]
    BY <1>3 DEF Decay
  <2>2. "decay" \in Faults /\ pc = "Idle" /\ UNCHANGED <<ctx, pc, frame>>
    BY <1>3 DEF Decay, Fault
  <2>. DEFINE fp == flash[p]
              rp == ctx.page[p]
              g == [fp EXCEPT !.cell = [fp.cell EXCEPT ![o] = TornCell(fp.cell[o].key)]]
  <2>3. FlashOK /\ CtxOK /\ Layout /\ fp \in FlashPage /\ rp \in RamPage /\ Fits(fp.cell)
    BY PageTypes DEF StoreInv, IInv, DataInv
  <2>4. flash'[p] = g /\ \A q \in Pages \ {p} : flash'[q] = flash[q] /\ ctx'.page[q] = ctx.page[q]
    BY <2>1, <2>2, <2>3 DEF FlashOK
  <2>5. PageOK(g, rp, TRUE)
    <3>1. PageOK(fp, rp, TRUE) /\ fp.cell[o].kind = "live"
      BY <2>1, <2>2, <2>3, LayoutWhole
    <3>. HIDE DEF fp, rp
    <3>. QED
      BY <2>2, <2>3, <3>1, PageDecayed
  <2>6. Layout'
    BY <2>2, <2>3, <2>4, <2>5, LayoutAfter
  <2>7. NothingErased
    <3>1. flash'[p].cell[o].kind = "torn" /\ BlankPage.cell[o].kind = "blank"
      BY <2>3, <2>4 DEF FlashPage, TornCell, BlankPage, Blank
    <3>. QED
      BY <2>4, <3>1 DEF NothingErased, Erases
  <2>8. Places' /\ Targets' /\ Rescued'
    BY <2>2 DEF StoreInv, Places, Targets, ActiveKnown, Status, Rescued, InRealign
  <2>. QED
    BY <2>6, <2>7, <2>8, NothingErasedSafe DEF StoreInv
<1>. QED
  BY <1>1, <1>2, <1>3

LEMMA StoreStep ==
  ASSUME CalmFaults, IInv, StoreInv, [Next]_vars
  PROVE  StoreInv' /\ [ErasesSafely]_vars
<1>1. CASE UNCHANGED vars
  <2>1. Layout'
    <3>1. ASSUME NEW p \in Pages PROVE PageOK(flash'[p], ctx'.page[p], Whole(p)')
      BY <1>1 DEF vars, StoreInv, Layout, Whole
    <3>. QED
      BY <3>1 DEF Layout
  <2>2. Places' /\ Targets' /\ Rescued'
    BY <1>1 DEF vars, StoreInv, Places, Targets, ActiveKnown, InUse, Status, Rescued, InRealign,
       Holds
  <2>. QED
    BY <1>1, <2>1, <2>2 DEF StoreInv
<1>2. CASE Next
  BY <1>2, BootStore, FindStore, DeleteStore, GetPageStore, RealignStore, WriteStore,
     CallStore, FaultStore DEF Next, Step
<1>. QED
  BY <1>1, <1>2

LEMMA StoreInit == Init => StoreInv
<1>1. SUFFICES ASSUME Init PROVE StoreInv
  OBVIOUS
<1>2. /\ pc = "Boot" /\ frame = NoFrame /\ ctx.active = NoPage
      /\ \A p \in Pages : ctx.page[p] = FreshPage("UNAVAILABLE") /\ flash[p] = BlankPage
  BY <1>1 DEF Init, BootCtx
<1>3. Layout
  <2>1. ASSUME NEW p \in Pages PROVE PageOK(flash[p], ctx.page[p], Whole(p))
    <3>1. PageOK(BlankPage, FreshPage("ERASED"), TRUE) /\ Whole(p) \in BOOLEAN
      BY BlankPageTidy DEF Whole
    <3>2. PageOK(BlankPage, FreshPage("UNAVAILABLE"), Whole(p))
      BY <3>1, PageForgotten
    <3>. QED
      BY <1>2, <3>2
  <2>. QED
    BY <2>1 DEF Layout
<1>. QED
  BY <1>2, <1>3, PagesFacts DEF StoreInv, Places, NoFrame, NoLoc, Targets, ActiveKnown,
     Rescued, InRealign

(* Without torn writes and torn erases: the layout of the pages, and what  *)
(* a realignment has saved so far, hold in every state (storage.c:154-402). *)
THEOREM StoreInvariance ==
  ASSUME CalmFaults
  PROVE  Spec => []StoreInv
<1>1. IInv /\ StoreInv /\ [Next]_vars => StoreInv'
  BY StoreStep
<1>. QED
  BY <1>1, StoreInit, Invariance, PTL DEF Spec

(* A page is only erased when each of its items is deleted or has a copy   *)
(* on another page, but for those the realignment takes for deleted, their *)
(* CRC being zero: at boot and by a deletion since the count of its items  *)
(* is zero, by a realignment since it has moved them (storage.c:196, 402,  *)
(* 522).                                                                   *)
THEOREM ErasesKeepData ==
  ASSUME CalmFaults
  PROVE  Spec => EraseKeepsData
<1>1. IInv /\ StoreInv /\ [Next]_vars =>
        [\A p \in Pages, k \in Keys : Erases(p) /\ Movables(k) # {} => Copies(k)' # {}]_vars
  BY StoreStep DEF ErasesSafely
<1>. QED
  BY <1>1, StoreInvariance, Invariance, PTL DEF Spec, EraseKeepsData

LEMMA CountOfPage ==
  ASSUME FlashOK, CtxOK, Layout, pc = "Idle", NEW p \in Pages, InUse(p)
  PROVE  LET L == {o \in LiveOffsets(p) : o < Used(p)} IN
         /\ ctx.page[p].cnt >= Cardinality(L)
         /\ "decay" \notin Faults => ctx.page[p].cnt = Cardinality(L)
<1>. DEFINE f == flash[p].cell
            rp == ctx.page[p]
            L == {o \in LiveOffsets(p) : o < Used(p)}
            S == Items(f, rp.used)
<1>1. flash[p] \in FlashPage /\ rp \in RamPage /\ Fits(f) /\ PageOK(flash[p], rp, TRUE)
        /\ rp.status # "UNAVAILABLE"
  BY PageTypes, LayoutWhole DEF InUse, Status
<1>2. Tidy(f) /\ Counts(f, rp)
  BY <1>1 DEF PageOK
<1>3. \A o \in Offsets : f[o] \in Cell /\ CellFits(o, f[o]) /\ Neat(f[o])
  BY <1>1, <1>2 DEF FlashPage, Fits, Tidy
<1>4. \A o \in Offsets : f[o].key # NoKey <=> f[o].kind \in {"live", "torn"}
  BY <1>3, KeyedCell
<1>5. L \subseteq S
  BY <1>4 DEF LiveOffsets, Items, Used
<1>6. IsFiniteSet(S) /\ Cardinality(L) <= Cardinality(S)
        /\ Cardinality(S) \in Nat /\ Cardinality(L) \in Nat
  <2>1. IsFiniteSet(S) /\ Cardinality(S) \in Nat
    BY ItemsFinite DEF Items
  <2>2. L \subseteq Offsets
    BY DEF LiveOffsets
  <2>. QED
    BY <1>5, <2>1, <2>2, FS_Subset, ItemsFinite
<1>7. "decay" \notin Faults => L = S
  BY <1>3, <1>4 DEF LiveOffsets, Items, Neat, Used
<1>. HIDE DEF f
<1>8. rp.cnt >= Cardinality(S) /\ ("decay" \notin Faults => rp.cnt = Cardinality(S)) /\ rp.cnt \in Nat
  BY <1>1, <1>2 DEF Counts, RamPage
<1>. HIDE DEF L, S, rp
<1>9. rp.cnt >= Cardinality(L) /\ ("decay" \notin Faults => rp.cnt = Cardinality(L))
  BY <1>6, <1>7, <1>8
<1>. QED
  BY <1>9 DEF L, rp

(* item_cnt never falls below the number of items that are not deleted,    *)
(* so that a page is not taken for empty while it holds one, whenever the  *)
(* power fails and whichever items decay (storage.c:346, 518, 666).        *)
THEOREM CountsCoverItems ==
  ASSUME CalmFaults
  PROVE  Spec => []CountsCover
<1>1. IInv /\ StoreInv => CountsCover
  BY CountOfPage DEF CountsCover, IInv, DataInv, StoreInv
<1>. QED
  BY <1>1, StoreInvariance, Invariance, PTL

(* item_cnt is that number when the store is only restarted or cut short.  *)
THEOREM CountsAreExact ==
  ASSUME Faults \subseteq {"reset", "power"}
  PROVE  Spec => []CountsExact
<1>1. CalmFaults /\ "decay" \notin Faults
  BY DEF CalmFaults
<1>2. IInv /\ StoreInv => CountsExact
  BY <1>1, CountOfPage DEF CountsExact, IInv, DataInv, StoreInv
<1>3. Spec => []StoreInv
  BY <1>1, StoreInvariance
<1>. QED
  BY <1>2, <1>3, Invariance, PTL

------------------------------------------------------------------------------
(* The copies of an item, as long as no fault but a restart strikes and    *)
(* none of the mishaps of NoMishap comes up.                               *)

OnlyResets == Faults \subseteq {"reset"}

(* A copy that is not stale is current. *)
Current(k, p, o) == Holds(p, o, k) /\ ~Stale(k, p, o)
Content(p, o) == flash[p].cell[o].val

Unique ==
  \A k \in Keys, p, q \in Pages, o, r \in Offsets :
    Current(k, p, o) /\ Current(k, q, r) => p = q /\ o = r
Backed ==
  \A k \in Keys, p \in Pages, o \in Offsets :
    Holds(p, o, k) => \E q \in Pages, r \in Offsets : Current(k, q, r)

(* Every copy has a content a reader may be given, or the one being        *)
(* written; an item without a copy was never stored.                       *)
Awaited(k) == {v \in Vals \cup {NoVal} :
                 v \in expect[k] \/ (call.op = "write" /\ k = call.key /\ v = call.val)}
Stored(k) == \E p \in Pages, o \in Offsets : Holds(p, o, k)
Contents ==
  /\ \A k \in Keys, p \in Pages, o \in Offsets : Holds(p, o, k) => Content(p, o) \in Awaited(k)
  /\ \A k \in Keys : Stored(k) \/ NoVal \in expect[k]

(* Once the item is written, the current copy is the new one. *)
Written == Replacing \/ pc = "Done" \/ (pc = "DelErase" /\ frame.back = "Done")
Fresh ==
  Written => \E p \in Pages, o \in Offsets :
    Current(call.key, p, o) /\ Content(p, o) = call.val

HasValue(k, v) == \E p \in Pages, o \in Offsets : Current(k, p, o) /\ Content(p, o) = v
SameValues ==
  \A k \in Keys, v \in Vals \cup {NoVal} : HasValue(k, v)' <=> HasValue(k, v)

CopiesInv == Unique /\ Backed /\ Contents /\ Fresh

(* The search passes the pages in the order of Behind, and has seen what   *)
(* lies on the pages before the one it is at, and before frame.off there.  *)
Behind(q) == Ahead(q, frame.start)
Searching == pc \in {"Page", "Find", "Hit", "Next"}
Seen(p, o) ==
  \/ Behind(p) < Behind(frame.pg)
  \/ p = frame.pg /\ pc = "Next"
  \/ p = frame.pg /\ pc \in {"Find", "Hit"} /\ o < frame.off
NotFound ==
  /\ frame.loc.page = NoPage /\ frame.cnt = 0 /\ frame.hits = 0
  /\ \A p \in Pages, o \in Offsets : Holds(p, o, call.key) => ~Seen(p, o)
  /\ pc = "Hit" => /\ Holds(frame.pg, frame.off, call.key)
                   /\ frame.val = Content(frame.pg, frame.off)
FoundOne ==
  /\ frame.last.page \in Pages /\ Holds(frame.last.page, frame.last.off, call.key)
  /\ Seen(frame.last.page, frame.last.off)
  /\ frame.val = Content(frame.last.page, frame.last.off)
  /\ pc \in {"Page", "Next"} => frame.cnt = 1
  /\ pc = "Find" => frame.cnt + frame.hits = 1
  /\ pc # "Hit"
  /\ frame.cnt = 1 => frame.loc = frame.last
SearchSoFar == Searching => IF frame.last.page = NoPage THEN NotFound ELSE FoundOne

(* From the search on the call knows the one copy there is. *)
OldKnown ==
  pc \in {"Found", "Recheck", "Realign", "RealignTake", "CopySeal", "Take", "Append"} =>
    /\ frame.loc.page = NoPage => frame.cnt = 0 /\ ~Stored(call.key)
    /\ frame.loc.page # NoPage =>
         /\ frame.loc.page \in Pages /\ frame.cnt = 1
         /\ Holds(frame.loc.page, frame.loc.off, call.key)
         /\ pc = "Found" => frame.val = Content(frame.loc.page, frame.loc.off)
OldThere ==
  Replacing /\ frame.loc.page # NoPage =>
    frame.loc.page \in Pages /\ Holds(frame.loc.page, frame.loc.off, call.key)

Course ==
  /\ pc \in {"Boot", "Scan", "Idle"} <=> call.op = "none"
  /\ pc \in {"Boot", "Scan", "Idle"} => call = NoCall
  /\ call.op = "read" => Searching \/ pc = "Found"
  /\ pc \in {"Del", "DelErase"} => frame.back = "Done" /\ frame.del = frame.loc
Truth ==
  /\ ret.kind = "value" => ret.key \in Keys /\ ret.val \in expect[ret.key]
  /\ ret.kind # "none" => pc = "Idle"
Loaded == pc \notin {"Boot", "Scan"} => NonePage("UNAVAILABLE")

CallInv == SearchSoFar /\ OldKnown /\ OldThere /\ Course /\ Truth /\ Loaded

------------------------------------------------------------------------------
(* The ring of pages. *)

LEMMA AheadValue ==
  ASSUME NEW p \in Pages, NEW q \in Pages
  PROVE  Ahead(p, q) = IF p <= q THEN q - p ELSE q - p + PageMax
<1>1. /\ p \in Nat /\ q \in Nat /\ p < PageMax /\ q < PageMax /\ PageMax \in Nat \ {0}
  BY PagesFacts
<1>2. \A n \in Nat \ {0}, x \in Nat : x < n => x % n = x /\ (x + n) % n = x
  OBVIOUS
<1>3. CASE p <= q
  <2>1. q - p \in Nat /\ q - p < PageMax
    BY <1>1, <1>3
  <2>. QED
    BY <1>1, <1>2, <1>3, <2>1 DEF Ahead
<1>4. CASE ~(p <= q)
  <2>1. q - p + PageMax \in Nat /\ q - p + PageMax < PageMax
    BY <1>1, <1>4
  <2>. QED
    BY <1>1, <1>2, <1>4, <2>1 DEF Ahead
<1>. QED
  BY <1>3, <1>4

LEMMA PrevPageValue ==
  ASSUME NEW p \in Pages
  PROVE  PrevPage(p) = IF p = 0 THEN PageMax - 1 ELSE p - 1
<1>1. p \in Nat /\ p < PageMax /\ PageMax \in Nat \ {0}
  BY PagesFacts
<1>2. \A n \in Nat \ {0}, x \in Nat : x < n => x % n = x /\ (x + n) % n = x
  OBVIOUS
<1>3. CASE p = 0
  <2>1. p - 1 + PageMax \in Nat /\ p - 1 + PageMax < PageMax
    BY <1>1, <1>3
  <2>. QED
    BY <1>1, <1>2, <1>3, <2>1 DEF PrevPage
<1>4. CASE p # 0
  <2>1. p - 1 \in Nat /\ p - 1 < PageMax
    BY <1>1, <1>4
  <2>. QED
    BY <1>1, <1>2, <1>4, <2>1 DEF PrevPage
<1>. QED
  BY <1>3, <1>4

(* Going backwards from s, the search passes every page before it is back. *)
LEMMA RingWalk ==
  ASSUME NEW s \in Pages, NEW g \in Pages, NEW p \in Pages
  PROVE  /\ Ahead(s, s) = 0
         /\ Ahead(p, s) \in Nat /\ ~(Ahead(p, s) < 0)
         /\ Ahead(p, s) = Ahead(g, s) => p = g
         /\ PrevPage(g) = s => Ahead(p, s) < Ahead(g, s) \/ p = g
         /\ PrevPage(g) # s => Ahead(PrevPage(g), s) = Ahead(g, s) + 1
<1>1. /\ s \in Nat /\ g \in Nat /\ p \in Nat /\ s < PageMax /\ g < PageMax /\ p < PageMax
      /\ PageMax \in Nat \ {0} /\ PrevPage(g) \in Pages
  BY PagesFacts, PrevPageType
<1>2. Ahead(s, s) = 0
  BY <1>1, AheadValue
<1>3. Ahead(p, s) = IF p <= s THEN s - p ELSE s - p + PageMax
  BY AheadValue
<1>4. Ahead(g, s) = IF g <= s THEN s - g ELSE s - g + PageMax
  BY AheadValue
<1>5. Ahead(PrevPage(g), s) = IF PrevPage(g) <= s THEN s - PrevPage(g)
                                                   ELSE s - PrevPage(g) + PageMax
  BY <1>1, AheadValue
<1>6. PrevPage(g) = IF g = 0 THEN PageMax - 1 ELSE g - 1
  BY PrevPageValue
<1>7. Ahead(p, s) \in Nat /\ ~(Ahead(p, s) < 0) /\ (Ahead(p, s) = Ahead(g, s) => p = g)
  BY <1>1, <1>3, <1>4
<1>8. PrevPage(g) = s => Ahead(p, s) < Ahead(g, s) \/ p = g
  BY <1>1, <1>3, <1>4, <1>6
<1>9. PrevPage(g) # s => Ahead(PrevPage(g), s) = Ahead(g, s) + 1
  BY <1>1, <1>4, <1>5, <1>6
<1>. QED
  BY <1>2, <1>7, <1>8, <1>9

------------------------------------------------------------------------------
(* Copies that stay as they are. *)

SameLive ==
  \A p \in Pages, o \in Offsets :
    /\ flash'[p].cell[o].kind = "live" <=> flash[p].cell[o].kind = "live"
    /\ flash[p].cell[o].kind = "live" => flash'[p].cell[o] = flash[p].cell[o]

LEMMA SameHolds ==
  ASSUME SameLive, NEW p \in Pages, NEW o \in Offsets, NEW k
  PROVE  (Holds(p, o, k)' <=> Holds(p, o, k)) /\ (Holds(p, o, k) => Content(p, o)' = Content(p, o))
BY DEF SameLive, Holds, Content

LEMMA SameStored == ASSUME SameLive, NEW k PROVE Stored(k)' <=> Stored(k)
<1>1. \A p \in Pages, o \in Offsets : Holds(p, o, k)' <=> Holds(p, o, k)
  BY SameHolds
<1>. QED
  BY <1>1 DEF Stored

LEMMA SameCellsLive == SameCells => SameLive
BY DEF SameCells, SameLive

LEMMA SameFlashLive == UNCHANGED flash => SameLive
BY DEF SameLive

LEMMA EmptyErased ==
  ASSUME FlashOK, NEW p \in Pages, flash' = [flash EXCEPT ![p] = BlankPage],
         \A o \in Offsets : flash[p].cell[o].kind # "live"
  PROVE  SameLive
<1>1. flash'[p] = BlankPage /\ \A q \in Pages \ {p} : flash'[q] = flash[q]
  BY DEF FlashOK
<1>2. \A o \in Offsets : BlankPage.cell[o].kind = "blank"
  BY DEF BlankPage, Blank
<1>. QED
  BY <1>1, <1>2 DEF SameLive

LEMMA CopiesSame ==
  ASSUME CopiesInv, SameLive,
         \A k \in Keys, p \in Pages, o \in Offsets :
           Holds(p, o, k) => (Stale(k, p, o)' <=> Stale(k, p, o)),
         \A k \in Keys : Awaited(k) \subseteq Awaited(k)' /\ expect[k] \subseteq expect'[k],
         Written' => Written /\ UNCHANGED call /\ call.key \in Keys
  PROVE  CopiesInv' /\ SameValues
<1>1. ASSUME NEW k \in Keys, NEW p \in Pages, NEW o \in Offsets
      PROVE  /\ Holds(p, o, k)' <=> Holds(p, o, k)
             /\ Current(k, p, o)' <=> Current(k, p, o)
             /\ Holds(p, o, k) => Content(p, o)' = Content(p, o)
  <2>1. Holds(p, o, k)' <=> Holds(p, o, k)
    BY SameHolds
  <2>2. Holds(p, o, k) => Content(p, o)' = Content(p, o)
    BY SameHolds
  <2>3. Holds(p, o, k) => (Stale(k, p, o)' <=> Stale(k, p, o))
    OBVIOUS
  <2>. QED
    BY <2>1, <2>2, <2>3 DEF Current
<1>2. Unique' /\ Backed'
  BY <1>1 DEF CopiesInv, Unique, Backed
<1>3. Contents'
  BY <1>1, SameStored DEF CopiesInv, Contents
<1>4. Fresh'
  <2>1. SUFFICES ASSUME Written' PROVE Fresh'
    BY DEF Fresh
  <2>2. PICK p \in Pages, o \in Offsets : Current(call.key, p, o) /\ Content(p, o) = call.val
    BY <2>1 DEF CopiesInv, Fresh
  <2>3. Current(call.key, p, o)' /\ Content(p, o)' = call'.val
    <3>1. PICK k \in Keys : k = call.key
      BY <2>1
    <3>2. Current(k, p, o)' /\ Content(p, o)' = call.val
      BY <1>1, <2>2, <3>1 DEF Current
    <3>3. k = call'.key
      BY <2>1, <3>1
    <3>. QED
      BY <2>1, <3>2, <3>3
  <2>. QED
    BY <2>3 DEF Fresh
<1>5. SameValues
  BY <1>1 DEF SameValues, HasValue, Current
<1>. QED
  BY <1>2, <1>3, <1>4, <1>5 DEF CopiesInv

(* Between the search and the first write nothing is stale. *)
Plain == {"Boot", "Scan", "Idle", "Page", "Find", "Hit", "Next", "Found", "Recheck",
          "Take", "Append"}

LEMMA PlainStep ==
  ASSUME CopiesInv, SameLive, pc \in Plain, pc' \in Plain,
         \A k \in Keys : Awaited(k) \subseteq Awaited(k)' /\ expect[k] \subseteq expect'[k]
  PROVE  CopiesInv' /\ SameValues
<1>1. \A k, p, o : ~Stale(k, p, o) /\ ~Stale(k, p, o)'
  BY DEF Plain, Stale, InRealign, Replacing
<1>2. ~Written'
  BY DEF Plain, Written, Replacing
<1>. QED
  BY <1>1, <1>2, CopiesSame

(* The call and what is expected stay as they are. *)
LEMMA SameAwaited ==
  ASSUME UNCHANGED <<call, expect>>, NEW k
  PROVE  Awaited(k) \subseteq Awaited(k)' /\ expect[k] \subseteq expect'[k]
BY DEF Awaited

(* A write that fails may have taken effect. *)
LEMMA FailAwaited ==
  ASSUME RestOK, call.op = "none" \/ call.key \in Keys,
         call' = NoCall, expect' = MayHaveWritten, NEW k \in Keys
  PROVE  Awaited(k) \subseteq Awaited(k)' /\ expect[k] \subseteq expect'[k]
<1>1. \A v \in Awaited(k) : v \in expect'[k]
  BY DEF Awaited, MayHaveWritten, RestOK
<1>2. expect[k] \subseteq expect'[k]
  BY DEF MayHaveWritten, RestOK
<1>. QED
  BY <1>1, <1>2 DEF Awaited

LEMMA CleanCell ==
  ASSUME OnlyResets, FlashOK, Layout, NEW p \in Pages, NEW o \in Offsets
  PROVE  LET c == flash[p].cell[o] IN
         /\ c.kind \in {"blank", "live", "dead"} /\ c.size \in Nat
         /\ c.kind = "live" <=> c.key # NoKey
         /\ c.kind = "live" => c.key \in Keys /\ c.size = Size(c.key) /\ c.size > 0
         /\ c.kind # "blank" => c.size > 0
         /\ c.kind = "blank" => c.size = 0
<1>. DEFINE c == flash[p].cell[o]
<1>1. c \in Cell /\ CellFits(o, c) /\ Neat(c)
  BY DEF FlashOK, FlashPage, CellsFit, Layout, PageOK, Tidy
<1>2. "decay" \notin Faults
  BY DEF OnlyResets
<1>3. c.kind \in {"blank", "live", "dead"} /\ c.size \in Nat
  BY <1>1, <1>2 DEF Cell, CellKinds, Neat
<1>4. c.kind = "live" <=> c.key # NoKey
  BY <1>1, <1>3, KeyedCell
<1>. QED
  BY <1>1, <1>3, <1>4, BlankCell DEF Neat, CellFits, ItemHeaderSize

(* An item is found on a page that was loaded, before its end. *)
LEMMA LiveInUse ==
  ASSUME FlashOK, CtxOK, Layout, pc # "Scan", NEW p \in Pages, Status(p) # "UNAVAILABLE",
         NEW o \in Offsets, NEW k \in Keys, Holds(p, o, k)
  PROVE  InUse(p) /\ o < Used(p) /\ ctx.page[p].cnt > 0
<1>. DEFINE f == flash[p].cell
            S == Items(f, Used(p))
<1>1. PageOK(flash[p], ctx.page[p], TRUE) /\ ctx.page[p] \in RamPage
  BY LayoutWhole, PageTypes
<1>2. EmptyFrom(f, Used(p)) /\ Counts(f, ctx.page[p]) /\ Used(p) \in Nat /\ ctx.page[p].cnt \in Nat
  BY <1>1 DEF PageOK, Used, Status, RamPage
<1>3. Occupied(f, o) /\ f[o].key # NoKey
  BY KeysAssumption DEF Holds, Occupied
<1>4. o < Used(p)
  BY <1>2, <1>3, OffsetsFacts DEF EmptyFrom
<1>5. S # {} /\ IsFiniteSet(S) /\ Cardinality(S) \in Nat
  BY <1>3, <1>4, ItemsFinite DEF Items
<1>6. Cardinality(S) > 0
  BY <1>5, FS_EmptySet
<1>7. ctx.page[p].cnt >= Cardinality(S)
  BY <1>2 DEF Counts, Used
<1>8. ctx.page[p].cnt > 0
  <2>. HIDE DEF S
  <2>. QED
    BY <1>2, <1>5, <1>6, <1>7
<1>9. InUse(p)
  BY <1>1, <1>8 DEF PageOK, RamPage, RamStatus, InUse, Status
<1>. QED
  BY <1>4, <1>8, <1>9

LEMMA BootLive ==
  ASSUME OnlyResets, IInv, StoreInv, Boot
  PROVE  SameLive
<1>0. PICK p \in Pages : p = frame.pg
  BY DEF IInv, RestOK, Frame
<1>1. /\ FlashOK /\ CtxOK /\ Layout
      /\ flash[p] \in FlashPage /\ ctx.page[p] \in RamPage /\ Fits(flash[p].cell)
  BY PageTypes DEF IInv, DataInv, StoreInv
<1>2. CASE UNCHANGED flash
  BY <1>2, SameFlashLive
<1>3. CASE LoadUnknown
  BY <1>0, <1>1, <1>3 DEF LoadUnknown, Layout, PageOK
<1>4. ASSUME pc = "Scan", Accessible(ScanOffset, ItemHeaderSize)
      PROVE  Used(p) \in Offsets /\ ScanOffset = Used(p)
  <2>1. Used(p) \in Nat
    BY <1>1 DEF RamPage, Used
  <2>2. Accessible(Used(p), ItemHeaderSize) /\ ScanOffset = Used(p)
    BY <1>0, <1>4 DEF ScanOffset
  <2>. QED
    BY <2>1, <2>2, OffsetsFacts, PagesAssumption DEF Accessible, ItemHeaderSize, PageHeaderSize
<1>5. CASE ScanCorrupt
  BY <1>0, <1>1, <1>4, <1>5, CleanCell DEF ScanCorrupt, Scanned
<1>6. CASE ScanEnd /\ Status(p) = "FULL" /\ ctx.page[p].cnt = 0
  <2>1. /\ flash' = [flash EXCEPT ![p] = BlankPage] /\ pc = "Scan"
        /\ Used(p) \in Offsets /\ flash[p].cell[Used(p)] = Blank
    BY <1>0, <1>4, <1>6 DEF ScanEnd, Scanned
  <2>. DEFINE fp == flash[p]
              rp == ctx.page[p]
  <2>2. PageOK(fp, rp, FALSE)
    BY <1>0, <1>1, <2>1, LayoutHere
  <2>3. fp.cell[rp.used].kind = "blank" /\ rp.status # "UNAVAILABLE" /\ rp.cnt = 0
          /\ fp \in FlashPage /\ rp \in RamPage /\ Fits(fp.cell)
    BY <1>1, <1>6, <2>1, BlankCell DEF Used, Status
  <2>4. \A o \in Offsets : fp.cell[o].kind # "live"
    <3>. HIDE DEF fp, rp
    <3>1. PageOK(fp, rp, TRUE)
      BY <2>2, <2>3, PageScanEnds
    <3>. QED
      BY <2>3, <3>1, PageEmpty
  <2>. QED
    BY <1>1, <2>1, <2>4, EmptyErased
<1>. QED
  BY <1>0, <1>2, <1>3, <1>5, <1>6 DEF Boot, LoadErased, LoadInUse, ScanItem, ScanAbort, ScanEnd

LEMMA BootCopies ==
  ASSUME OnlyResets, IInv, StoreInv, CopiesInv, CallInv, ~BootIncomplete', Boot
  PROVE  CopiesInv' /\ CallInv' /\ SameValues /\ UNCHANGED <<call, ret>>
<1>1. pc \in {"Boot", "Scan"} /\ pc' \in {"Boot", "Scan", "Idle"} /\ UNCHANGED <<call, ret, expect>>
  BY DEF Boot, LoadErased, LoadUnknown, LoadInUse, ScanItem, ScanCorrupt, ScanAbort, ScanEnd,
     NextBootPage, Goto
<1>2. CopiesInv' /\ SameValues
  BY <1>1, BootLive, PlainStep, SameAwaited DEF Plain
<1>3. Loaded'
  BY <1>1 DEF Loaded, BootIncomplete
<1>4. SearchSoFar' /\ OldKnown' /\ OldThere'
  BY <1>1 DEF SearchSoFar, Searching, OldKnown, OldThere, Replacing
<1>5. Course'
  BY <1>1 DEF CallInv, Course, Searching
<1>6. Truth'
  BY <1>1 DEF CallInv, Truth
<1>. QED
  BY <1>1, <1>2, <1>3, <1>4, <1>5, <1>6 DEF CallInv

LEMMA BeginCopies ==
  ASSUME IInv, StoreInv, CopiesInv, CallInv, Calls
  PROVE  CopiesInv' /\ CallInv' /\ SameValues
<1>0. PICK k \in Keys : st_read_item(k) \/ \E v \in Vals : st_write_item(k, v)
  BY DEF Calls
<1>1. PICK c : Begin(c) /\ c.op \in {"read", "write"} /\ c.key \in Keys
  <2>1. CASE st_read_item(k)
    <3>. DEFINE c == [op |-> "read", key |-> k, val |-> NoVal]
    <3>1. Begin(c) /\ c.op = "read" /\ c.key = k
      BY <2>1 DEF st_read_item
    <3>. QED
      BY <3>1
  <2>2. ASSUME NEW v \in Vals, st_write_item(k, v)
        PROVE  \E c : Begin(c) /\ c.op \in {"read", "write"} /\ c.key \in Keys
    <3>. DEFINE c == [op |-> "write", key |-> k, val |-> v]
    <3>1. Begin(c) /\ c.op = "write" /\ c.key = k
      BY <2>2 DEF st_write_item
    <3>. QED
      BY <3>1
  <2>. QED
    BY <1>0, <2>1, <2>2
<1>2. /\ UNCHANGED <<flash, ctx, expect>> /\ pc = "Idle" /\ pc' = "Page" /\ call' = c
      /\ ret' = NoRet /\ frame' = [NoFrame EXCEPT !.pg = RingStart, !.start = RingStart]
  BY <1>1 DEF Begin
<1>3. RingStart \in Pages
  BY PagesFacts DEF RingStart, IInv, DataInv, CtxOK, Ctx
<1>4. CopiesInv' /\ SameValues
  <2>1. call.op = "none"
    BY <1>2 DEF CallInv, Course
  <2>2. \A j \in Keys : Awaited(j) \subseteq Awaited(j)' /\ expect[j] \subseteq expect'[j]
    BY <1>2, <2>1 DEF Awaited
  <2>. QED
    BY <1>2, <2>2, PlainStep, SameFlashLive DEF Plain
<1>5. SearchSoFar'
  <2>1. /\ frame'.last = NoLoc /\ frame'.loc = NoLoc /\ frame'.cnt = 0 /\ frame'.hits = 0
        /\ frame'.pg = frame'.start /\ frame'.start \in Pages
    BY <1>2, <1>3 DEF NoFrame
  <2>2. ASSUME NEW p \in Pages, NEW o \in Offsets PROVE ~Seen(p, o)'
    <3>1. PICK s \in Pages : s = frame'.start
      BY <2>1
    <3>2. Ahead(s, s) = 0 /\ ~(Ahead(p, s) < 0)
      BY RingWalk
    <3>. QED
      BY <1>2, <2>1, <3>1, <3>2 DEF Seen, Behind
  <2>3. NotFound'
    BY <1>2, <2>1, <2>2 DEF NotFound, NoLoc
  <2>. QED
    BY <2>1, <2>3 DEF SearchSoFar, NoLoc
<1>6. Loaded'
  BY <1>2 DEF CallInv, Loaded, NonePage, Status
<1>7. OldKnown' /\ OldThere' /\ Course' /\ Truth'
  BY <1>1, <1>2 DEF OldKnown, OldThere, Replacing, Course, Searching, Truth, NoRet
<1>. QED
  BY <1>4, <1>5, <1>6, <1>7 DEF CallInv

(* The search (st_find_item): it finds the one copy of the item, and never *)
(* deletes any.                                                            *)
LEMMA SearchStep ==
  ASSUME OnlyResets, IInv, StoreInv, CopiesInv, CallInv, Find, ~ReadReturns
  PROVE  /\ UNCHANGED <<flash, ctx, call, ret, expect>>
         /\ pc' \in {"Find", "Hit", "Next", "Page", "Found"}
         /\ SearchSoFar' /\ OldKnown'
<1>1. /\ frame \in Frame /\ frame.pg \in Pages /\ frame.start \in Pages /\ frame.off \in Nat
      /\ FlashOK /\ CtxOK /\ Layout /\ Places
      /\ SearchSoFar /\ Course /\ Loaded /\ Unique /\ NoPage \notin Pages
  BY PagesFacts DEF IInv, DataInv, RestOK, Frame, StoreInv, CopiesInv, CallInv
<1>2. pc \in {"Page", "Find", "Hit", "Next"}
  BY DEF Find, FindPage, FindPass, FindCorrupt, FindHit, FindKeep, FindPageEnd, FindNextPage
<1>3. /\ call.key \in Keys /\ \A p \in Pages : Status(p) # "UNAVAILABLE"
      /\ IF frame.last.page = NoPage THEN NotFound ELSE FoundOne
      /\ frame.last.page = NoPage \/ (frame.last.page \in Pages /\ frame.last.off \in Offsets)
  BY <1>1, <1>2 DEF IInv, Control, CallControl, Loaded, NonePage, SearchSoFar, Searching,
     Places, Frame, Location
<1>4. PICK g \in Pages, s \in Pages, u \in Nat : g = frame.pg /\ s = frame.start /\ u = frame.off
  BY <1>1
<1>5. PICK k \in Keys : k = call.key
  BY <1>3
<1>6. \A p \in Pages, o \in Offsets : Holds(p, o, k) => InUse(p) /\ o < Used(p)
  BY <1>1, <1>2, <1>3, LiveInUse
<1>7. ASSUME UNCHANGED <<flash, call>>, NEW p \in Pages, NEW o \in Offsets
      PROVE  /\ Holds(p, o, k)' <=> Holds(p, o, k)
             /\ Content(p, o)' = Content(p, o)
  BY <1>7 DEF Holds, Content
(* There is one copy, since nothing is stale during the search. *)
<1>8. ASSUME NEW p \in Pages, NEW q \in Pages, NEW o \in Offsets, NEW r \in Offsets,
             Holds(p, o, k), Holds(q, r, k)
      PROVE  p = q /\ o = r
  <2>1. ~Stale(k, p, o) /\ ~Stale(k, q, r)
    BY <1>2 DEF Stale, InRealign, Replacing
  <2>. QED
    BY <1>1, <1>8, <2>1 DEF Unique, Current
<1>9. ASSUME NEW p \in Pages
      PROVE  /\ ~(Behind(p) < Behind(p)) /\ Behind(p) \in Nat
  BY <1>4, RingWalk DEF Behind
<1>10. CASE FindPage
  <2>1. /\ UNCHANGED <<flash, ctx, call, ret, expect>> /\ pc = "Page"
        /\ pc' = (IF InUse(g) THEN "Find" ELSE "Next")
        /\ frame' = [frame EXCEPT !.off = 0, !.hits = 0]
    BY <1>4, <1>10 DEF FindPage, Goto
  <2>2. /\ frame'.pg = g /\ frame'.start = s /\ frame'.off = 0 /\ frame'.hits = 0
        /\ frame'.last = frame.last /\ frame'.loc = frame.loc /\ frame'.cnt = frame.cnt
        /\ frame'.val = frame.val
    BY <1>1, <1>4, <2>1 DEF Frame
  <2>3. CASE frame.last.page = NoPage
    <3>1. ASSUME NEW p \in Pages, NEW o \in Offsets, Holds(p, o, k) PROVE ~Seen(p, o)'
      <4>1. ~(Behind(p) < Behind(g)) /\ ~(o < 0)
        BY <1>3, <1>4, <1>5, <2>3, <3>1, OffsetsFacts DEF NotFound, Seen
      <4>2. p = g => pc' = "Find"
        BY <1>6, <2>1, <3>1
      <4>. QED
        BY <1>4, <2>1, <2>2, <4>1, <4>2 DEF Seen, Behind
    <3>2. NotFound'
      BY <1>3, <1>5, <1>7, <2>1, <2>2, <2>3, <3>1 DEF NotFound
    <3>. QED
      BY <2>1, <2>2, <2>3, <3>2 DEF SearchSoFar, OldKnown
  <2>4. CASE frame.last.page # NoPage
    <3>1. FoundOne /\ frame.last.page \in Pages /\ frame.last.off \in Offsets
      BY <1>3, <2>4
    <3>2. Seen(frame.last.page, frame.last.off)'
      BY <1>4, <2>1, <2>2, <3>1 DEF FoundOne, Seen, Behind
    <3>3. FoundOne'
      BY <1>3, <1>5, <1>7, <2>1, <2>2, <3>1, <3>2 DEF FoundOne, Holds, Content
    <3>. QED
      BY <2>1, <2>2, <2>4, <3>3 DEF SearchSoFar, OldKnown
  <2>. QED
    BY <2>1, <2>3, <2>4
<1>11. ASSUME pc = "Find", u < Used(g)
       PROVE  /\ u \in Offsets /\ Here = flash[g].cell[u] /\ Here.size \in Nat
              /\ Here.kind \in {"blank", "live", "dead"}
              /\ Here.kind = "live" => Here.size > 0
              /\ \A o \in Offsets : Holds(g, o, k) /\ o < u + Here.size => o < u \/ o = u
  <2>1. u \in Offsets
    BY <1>1, <1>11, InPageOffset
  <2>2. Here = flash[g].cell[u]
    BY <1>4 DEF Here
  <2>3. /\ Here.size \in Nat /\ Here.kind \in {"blank", "live", "dead"}
        /\ Here.kind = "live" => Here.size > 0
        /\ Here.kind = "blank" => Here.size = 0
    BY <1>1, <2>1, <2>2, CleanCell
  <2>4. ASSUME NEW o \in Offsets, Holds(g, o, k), o < u + Here.size, u < o PROVE FALSE
    <3>1. Tidy(flash[g].cell)
      BY <1>1 DEF Layout, PageOK
    <3>2. Occupied(flash[g].cell, o)
      BY <2>4 DEF Holds, Occupied
    <3>3. Occupied(flash[g].cell, u)
      BY <2>1, <2>2, <2>3, <2>4, OffsetsFacts DEF Occupied
    <3>. QED
      BY <2>1, <2>2, <2>3, <2>4, <3>1, <3>2, <3>3, OffsetsFacts DEF Tidy
  <2>. QED
    BY <2>1, <2>2, <2>3, <2>4, OffsetsFacts
<1>12. CASE FindPass
  <2>1. /\ UNCHANGED <<flash, ctx, call, ret, expect>> /\ pc = "Find" /\ pc' = "Find"
        /\ frame' = [frame EXCEPT !.off = @ + Here.size] /\ u < Used(g) /\ Here.key # k
    BY <1>4, <1>5, <1>12 DEF FindPass, Goto, InPage
  <2>2. /\ frame'.pg = g /\ frame'.start = s /\ frame'.off = u + Here.size
        /\ frame'.hits = frame.hits /\ frame'.last = frame.last /\ frame'.loc = frame.loc
        /\ frame'.cnt = frame.cnt /\ frame'.val = frame.val
    BY <1>1, <1>4, <2>1 DEF Frame
  <2>3. CASE frame.last.page = NoPage
    <3>1. ASSUME NEW p \in Pages, NEW o \in Offsets, Holds(p, o, k) PROVE ~Seen(p, o)'
      <4>1. ~Seen(p, o)
        BY <1>3, <1>5, <2>3, <3>1 DEF NotFound
      <4>2. p = g => o # u
        BY <1>11, <2>1, <3>1 DEF Holds
      <4>. QED
        BY <1>4, <1>11, <2>1, <2>2, <3>1, <4>1, <4>2 DEF Seen, Behind
    <3>2. NotFound'
      BY <1>3, <1>5, <1>7, <2>1, <2>2, <2>3, <3>1 DEF NotFound
    <3>. QED
      BY <2>1, <2>2, <2>3, <3>2 DEF SearchSoFar, OldKnown
  <2>4. CASE frame.last.page # NoPage
    <3>1. FoundOne /\ frame.last.page \in Pages /\ frame.last.off \in Offsets
      BY <1>3, <2>4
    <3>2. Seen(frame.last.page, frame.last.off)'
      BY <1>4, <1>11, <2>1, <2>2, <3>1, OffsetsFacts DEF FoundOne, Seen, Behind
    <3>3. FoundOne'
      BY <1>3, <1>5, <1>7, <2>1, <2>2, <3>1, <3>2 DEF FoundOne, Holds, Content
    <3>. QED
      BY <2>1, <2>2, <2>4, <3>3 DEF SearchSoFar, OldKnown
  <2>. QED
    BY <2>1, <2>3, <2>4
<1>13. CASE FindCorrupt
  BY <1>4, <1>11, <1>13 DEF FindCorrupt, InPage
<1>14. CASE FindHit
  <2>1. /\ UNCHANGED <<flash, ctx, call, ret, expect>> /\ pc = "Find" /\ u < Used(g)
        /\ Holds(g, u, k) /\ u \in Offsets
    BY <1>4, <1>5, <1>11, <1>14 DEF FindHit, Goto, InPage, Holds
  <2>2. frame.last.page = NoPage
    <3>1. SUFFICES ASSUME frame.last.page # NoPage PROVE FALSE
      OBVIOUS
    <3>2. PICK p \in Pages, o \in Offsets : p = frame.last.page /\ o = frame.last.off
      BY <1>3, <3>1
    <3>3. Holds(p, o, k) /\ Seen(p, o)
      BY <1>3, <1>5, <3>1, <3>2 DEF FoundOne
    <3>4. p = g /\ o = u
      BY <1>8, <2>1, <3>3
    <3>. QED
      BY <1>4, <1>9, <2>1, <3>3, <3>4 DEF Seen
  <2>3. /\ pc' = "Hit" /\ frame' = [frame EXCEPT !.val = IF frame.cnt = 0 THEN Here.val ELSE @]
    BY <1>14, <2>2 DEF FindHit, Goto
  <2>4. NotFound
    BY <1>3, <2>2
  <2>5. /\ frame'.pg = g /\ frame'.start = s /\ frame'.off = u
        /\ frame'.hits = 0 /\ frame'.last = frame.last /\ frame'.loc = frame.loc
        /\ frame'.cnt = 0 /\ frame'.val = flash[g].cell[u].val
    BY <1>1, <1>4, <1>11, <2>1, <2>3, <2>4 DEF Frame, NotFound
  <2>6. ASSUME NEW p \in Pages, NEW o \in Offsets, Holds(p, o, k) PROVE ~Seen(p, o)'
    <3>1. ~Seen(p, o)
      BY <1>5, <2>4, <2>6 DEF NotFound
    <3>. QED
      BY <1>4, <2>1, <2>3, <2>5, <3>1 DEF Seen, Behind
  <2>7. NotFound'
    BY <1>5, <1>7, <2>1, <2>4, <2>5, <2>6 DEF NotFound, Holds, Content
  <2>. QED
    BY <2>1, <2>2, <2>3, <2>5, <2>7 DEF SearchSoFar, OldKnown
<1>15. CASE FindKeep
  <2>1. /\ UNCHANGED <<flash, ctx, call, ret, expect>> /\ pc = "Hit" /\ pc' = "Find"
        /\ frame' = [frame EXCEPT !.last = [page |-> g, off |-> u],
                                  !.hits = @ + 1, !.off = @ + Size(k)]
    BY <1>4, <1>5, <1>15 DEF FindKeep, Goto
  <2>2. /\ frame'.pg = g /\ frame'.start = s /\ frame'.off = u + Size(k)
        /\ frame'.hits = frame.hits + 1 /\ frame'.last = [page |-> g, off |-> u]
        /\ frame'.loc = frame.loc /\ frame'.cnt = frame.cnt /\ frame'.val = frame.val
    BY <1>1, <1>4, <2>1 DEF Frame
  <2>3. NotFound /\ u \in Offsets
    BY <1>1, <1>3, <1>4, <2>1 DEF FoundOne, Places
  <2>4. Seen(g, u)'
    BY <1>4, <2>1, <2>2, SizeType, OffsetsFacts DEF Seen, Behind, ItemHeaderSize
  <2>5. FoundOne'
    BY <1>4, <1>5, <1>7, <2>1, <2>2, <2>3, <2>4 DEF NotFound, FoundOne, Holds, Content
  <2>. QED
    BY <1>1, <2>1, <2>2, <2>5 DEF SearchSoFar, OldKnown
<1>16. CASE FindPageEnd
  <2>1. /\ UNCHANGED <<flash, ctx, call, ret, expect>> /\ pc = "Find" /\ ~(u < Used(g))
    BY <1>4, <1>16 DEF FindPageEnd, Goto, InPage
  <2>2. frame.cnt + frame.hits = IF frame.last.page = NoPage THEN 0 ELSE 1
    BY <1>3, <2>1 DEF NotFound, FoundOne
  <2>3. /\ pc' = "Next"
        /\ frame' = [frame EXCEPT !.cnt = frame.cnt + frame.hits,
                                  !.loc = IF frame.cnt + frame.hits = 1 THEN frame.last ELSE @]
    BY <1>16, <2>2 DEF FindPageEnd, Goto
  <2>4. /\ frame'.pg = g /\ frame'.start = s /\ frame'.off = u /\ frame'.hits = frame.hits
        /\ frame'.last = frame.last /\ frame'.val = frame.val
        /\ frame'.cnt = frame.cnt + frame.hits
        /\ frame'.loc = IF frame.cnt + frame.hits = 1 THEN frame.last ELSE frame.loc
    BY <1>1, <1>4, <2>3 DEF Frame
  <2>5. \A o \in Offsets : Holds(g, o, k) => o < u
    <3>1. ctx.page[g] \in RamPage
      BY <1>1, PageTypes
    <3>2. Used(g) \in Nat
      BY <3>1 DEF RamPage, Used
    <3>. QED
      BY <1>6, <2>1, <3>2, OffsetsFacts
  <2>6. CASE frame.last.page = NoPage
    <3>1. ASSUME NEW p \in Pages, NEW o \in Offsets, Holds(p, o, k) PROVE ~Seen(p, o)'
      <4>1. ~Seen(p, o)
        BY <1>3, <1>5, <2>6, <3>1 DEF NotFound
      <4>. QED
        BY <1>4, <2>1, <2>3, <2>4, <2>5, <3>1, <4>1 DEF Seen, Behind
    <3>2. NotFound'
      BY <1>3, <1>5, <1>7, <2>1, <2>2, <2>3, <2>4, <2>6, <3>1 DEF NotFound
    <3>. QED
      BY <2>1, <2>3, <2>4, <2>6, <3>2 DEF SearchSoFar, OldKnown
  <2>7. CASE frame.last.page # NoPage
    <3>1. FoundOne /\ frame.last.page \in Pages /\ frame.last.off \in Offsets
      BY <1>3, <2>7
    <3>2. Seen(frame.last.page, frame.last.off)'
      BY <1>4, <2>1, <2>3, <2>4, <3>1 DEF FoundOne, Seen, Behind
    <3>3. FoundOne'
      BY <1>3, <1>5, <1>7, <2>1, <2>2, <2>3, <2>4, <2>7, <3>1, <3>2 DEF FoundOne, Holds, Content
    <3>. QED
      BY <2>1, <2>3, <2>4, <2>7, <3>3 DEF SearchSoFar, OldKnown
  <2>. QED
    BY <2>1, <2>3, <2>6, <2>7
<1>17. CASE FindNextPage
  <2>1. /\ UNCHANGED <<flash, ctx, call, ret, expect>> /\ pc = "Next"
        /\ pc' = (IF PrevPage(g) = s THEN "Found" ELSE "Page")
        /\ frame' = [frame EXCEPT !.pg = PrevPage(g)]
    BY <1>4, <1>17 DEF FindNextPage, Goto
  <2>2. /\ frame'.pg = PrevPage(g) /\ frame'.start = s /\ frame'.hits = frame.hits
        /\ frame'.last = frame.last /\ frame'.loc = frame.loc
        /\ frame'.cnt = frame.cnt /\ frame'.val = frame.val
    BY <1>1, <1>4, <2>1 DEF Frame
  <2>3. ASSUME PrevPage(g) = s, NEW p \in Pages, NEW o \in Offsets PROVE Seen(p, o)
    BY <1>4, <2>1, <2>3, RingWalk DEF Seen, Behind
  <2>4. ASSUME PrevPage(g) # s, NEW p \in Pages, NEW o \in Offsets
        PROVE  Seen(p, o)' <=> Seen(p, o)
    <3>1. PrevPage(g) \in Pages /\ Ahead(PrevPage(g), s) = Ahead(g, s) + 1
      BY <2>4, RingWalk, PrevPageType
    <3>2. Ahead(p, s) \in Nat /\ Ahead(g, s) \in Nat /\ (Ahead(p, s) = Ahead(g, s) <=> p = g)
      BY RingWalk
    <3>3. Ahead(p, s) < Ahead(g, s) + 1 <=> Ahead(p, s) < Ahead(g, s) \/ p = g
      BY <3>2
    <3>. QED
      BY <1>4, <2>1, <2>2, <2>4, <3>1, <3>3 DEF Seen, Behind
  <2>5. CASE frame.last.page = NoPage /\ PrevPage(g) = s
    <3>1. \A p \in Pages, o \in Offsets : ~Holds(p, o, k)
      BY <1>3, <1>5, <2>3, <2>5 DEF NotFound
    <3>2. ~Stored(call.key)'
      BY <1>5, <1>7, <2>1, <3>1 DEF Stored
    <3>. QED
      BY <1>3, <2>1, <2>2, <2>5, <3>2 DEF SearchSoFar, Searching, OldKnown, NotFound
  <2>6. CASE frame.last.page = NoPage /\ PrevPage(g) # s
    <3>1. NotFound'
      BY <1>3, <1>5, <1>7, <2>1, <2>2, <2>4, <2>6 DEF NotFound
    <3>. QED
      BY <2>1, <2>2, <2>6, <3>1 DEF SearchSoFar, OldKnown
  <2>7. CASE frame.last.page # NoPage /\ PrevPage(g) = s
    <3>1. FoundOne
      BY <1>3, <2>7
    <3>2. frame'.loc = frame.last /\ frame'.cnt = 1 /\ frame'.loc.page \in Pages
      BY <2>1, <2>2, <3>1 DEF FoundOne
    <3>3. OldKnown'
      BY <1>1, <2>1, <2>2, <3>1, <3>2 DEF OldKnown, FoundOne, Holds, Content
    <3>. QED
      BY <2>1, <2>7, <3>3 DEF SearchSoFar, Searching
  <2>8. CASE frame.last.page # NoPage /\ PrevPage(g) # s
    <3>1. FoundOne /\ frame.last.page \in Pages /\ frame.last.off \in Offsets
      BY <1>3, <2>8
    <3>2. Seen(frame.last.page, frame.last.off)'
      <4>1. PICK p \in Pages, o \in Offsets : p = frame.last.page /\ o = frame.last.off
        BY <3>1
      <4>2. Seen(p, o)'
        BY <2>4, <2>8, <3>1, <4>1 DEF FoundOne
      <4>. QED
        BY <2>2, <4>1, <4>2
    <3>3. FoundOne'
      BY <1>3, <1>5, <1>7, <2>1, <2>2, <2>8, <3>1, <3>2 DEF FoundOne, Holds, Content
    <3>. QED
      BY <2>1, <2>2, <2>8, <3>3 DEF SearchSoFar, OldKnown
  <2>. QED
    BY <2>1, <2>5, <2>6, <2>7, <2>8
<1>. QED
  BY <1>10, <1>12, <1>13, <1>14, <1>15, <1>16, <1>17 DEF Find

------------------------------------------------------------------------------
(* The steps of a call. *)

Fails == ret'.kind = "err"

(* A call that returns and leaves one content to expect for its item. *)
LEMMA NarrowCopies ==
  ASSUME RestOK, CopiesInv, NEW k \in Keys, k = call.key, NEW v, v \in Vals \cup {NoVal},
         UNCHANGED flash, call'.op = "none", expect' = [expect EXCEPT ![k] = {v}],
         \A j \in Keys, p \in Pages, o \in Offsets : ~Stale(j, p, o) /\ ~Stale(j, p, o)',
         ~Written',
         \A p \in Pages, o \in Offsets : Holds(p, o, k) => Content(p, o) = v,
         Stored(k) \/ v = NoVal
  PROVE  CopiesInv' /\ SameValues
<1>1. ASSUME NEW j \in Keys, NEW p \in Pages, NEW o \in Offsets
      PROVE  /\ Holds(p, o, j)' <=> Holds(p, o, j)
             /\ Current(j, p, o)' <=> Current(j, p, o)
             /\ Content(p, o)' = Content(p, o)
  BY DEF Holds, Content, Current
<1>2. Unique' /\ Backed'
  BY <1>1 DEF CopiesInv, Unique, Backed
<1>3. expect'[k] = {v} /\ \A j \in Keys \ {k} : expect'[j] = expect[j]
  BY DEF RestOK
<1>4. Awaited(k)' = {v} /\ \A j \in Keys \ {k} : Awaited(j)' = Awaited(j)
  BY <1>3 DEF Awaited, RestOK
<1>5. \A j \in Keys : Stored(j)' <=> Stored(j)
  BY <1>1 DEF Stored
<1>6. Contents'
  BY <1>1, <1>3, <1>4, <1>5 DEF CopiesInv, Contents
<1>7. SameValues
  BY <1>1 DEF SameValues, HasValue
<1>. QED
  BY <1>2, <1>6, <1>7 DEF CopiesInv, Fresh

LEMMA IdleCall ==
  ASSUME Loaded, pc \notin {"Boot", "Scan"}, UNCHANGED ctx, pc' = "Idle", call' = NoCall, Truth'
  PROVE  CallInv'
<1>1. Loaded'
  BY DEF Loaded, NonePage, Status
<1>2. SearchSoFar' /\ OldKnown' /\ OldThere' /\ Course'
  BY DEF SearchSoFar, Searching, OldKnown, OldThere, Replacing, Course, NoCall
<1>. QED
  BY <1>1, <1>2 DEF CallInv

(* A call that fails leaves the copies as they were. *)
LEMMA FailCopies ==
  ASSUME IInv, CopiesInv, CallInv, pc \in Plain, pc \notin {"Boot", "Scan", "Idle"},
         Fail, UNCHANGED <<flash, ctx>>
  PROVE  CopiesInv' /\ CallInv'
<1>1. /\ pc' = "Idle" /\ call' = NoCall /\ expect' = MayHaveWritten /\ ret'.kind = "err"
  BY DEF Fail, Return
<1>2. CopiesInv'
  <2>1. call.key \in Keys /\ RestOK
    BY DEF IInv, Control, CallControl
  <2>2. \A j \in Keys : Awaited(j) \subseteq Awaited(j)' /\ expect[j] \subseteq expect'[j]
    BY <1>1, <2>1, FailAwaited
  <2>. QED
    BY <1>1, <2>2, PlainStep, SameFlashLive DEF Plain
<1>3. Truth'
  BY <1>1 DEF Truth
<1>. QED
  BY <1>1, <1>2, <1>3, IdleCall DEF CallInv

(* What the call knows of the old copy stays true while that copy stays. *)
LEMMA OldKept ==
  ASSUME IInv, StoreInv, OldKnown, UNCHANGED call,
         pc \in {"Found", "Recheck", "Realign", "RealignTake", "CopySeal", "Take", "Append"},
         pc' \in {"Recheck", "Realign", "RealignTake", "CopySeal", "Take", "Append"},
         frame'.loc = frame.loc, frame'.cnt = frame.cnt,
         \A k \in Keys, p \in Pages, o \in Offsets :
           p = frame.loc.page /\ o = frame.loc.off /\ Holds(p, o, k) => Holds(p, o, k)',
         \A k \in Keys : Stored(k)' => Stored(k)
  PROVE  OldKnown'
<1>1. PICK k \in Keys : k = call.key
  BY DEF IInv, Control, CallControl
<1>2. k = call'.key
  BY <1>1
<1>3. CASE frame.loc.page = NoPage
  <2>1. frame'.cnt = 0 /\ ~Stored(k)'
    BY <1>1, <1>3 DEF OldKnown
  <2>2. ~Stored(call.key)'
    BY <1>2, <2>1 DEF Stored
  <2>. QED
    BY <1>3, <2>1, <2>2 DEF OldKnown
<1>4. CASE frame.loc.page # NoPage
  <2>1. PICK p \in Pages, o \in Offsets : p = frame.loc.page /\ o = frame.loc.off
    BY <1>4 DEF OldKnown, StoreInv, Places
  <2>2. Holds(p, o, k)' /\ frame'.cnt = 1
    BY <1>1, <1>4, <2>1 DEF OldKnown
  <2>3. Holds(frame.loc.page, frame.loc.off, call.key)'
    BY <1>2, <2>1, <2>2 DEF Holds
  <2>. QED
    BY <1>4, <2>1, <2>2, <2>3 DEF OldKnown
<1>. QED
  BY <1>3, <1>4

LEMMA OldThereKept ==
  ASSUME StoreInv, OldThere, Replacing, SameLive, UNCHANGED call, frame'.loc = frame.loc
  PROVE  OldThere'
<1>1. SUFFICES ASSUME Replacing', frame'.loc.page # NoPage
               PROVE  frame'.loc.page \in Pages
                      /\ Holds(frame.loc.page, frame.loc.off, call.key)'
  BY DEF OldThere
<1>2. PICK p \in Pages, o \in Offsets : p = frame.loc.page /\ o = frame.loc.off
  BY <1>1 DEF OldThere, StoreInv, Places
<1>3. PICK k : k = call.key
  OBVIOUS
<1>4. Holds(p, o, k)'
  BY <1>1, <1>2, <1>3, SameHolds DEF OldThere
<1>. QED
  BY <1>2, <1>3, <1>4 DEF Holds

LEMMA FindCopies ==
  ASSUME OnlyResets, IInv, StoreInv, CopiesInv, CallInv, Find
  PROVE  CopiesInv' /\ CallInv' /\ SameValues
<1>1. CASE ~ReadReturns
  <2>1. /\ UNCHANGED <<flash, ctx, call, ret, expect>>
        /\ pc' \in {"Find", "Hit", "Next", "Page", "Found"}
        /\ SearchSoFar' /\ OldKnown'
    BY <1>1, SearchStep
  <2>2. pc \in {"Page", "Find", "Hit", "Next"}
    BY <1>1 DEF Find, FindPage, FindPass, FindCorrupt, FindHit, FindKeep, FindPageEnd,
       FindNextPage
  <2>3. CopiesInv' /\ SameValues
    BY <2>1, <2>2, PlainStep, SameFlashLive, SameAwaited DEF Plain
  <2>4. Loaded'
    BY <2>1, <2>2 DEF CallInv, Loaded, NonePage, Status
  <2>5. OldThere' /\ Course' /\ Truth'
    BY <2>1, <2>2 DEF CallInv, Course, Searching, Truth, OldThere, Replacing
  <2>. QED
    BY <2>1, <2>3, <2>4, <2>5 DEF CallInv
<1>2. CASE ReadReturns
  <2>0. PICK v \in Vals \cup {NoVal} : v = IF frame.cnt = 0 THEN NoVal ELSE frame.val
    BY DEF IInv, RestOK, Frame
  <2>1. /\ pc = "Found" /\ call.op = "read" /\ UNCHANGED <<flash, ctx>>
        /\ pc' = "Idle" /\ call' = NoCall
        /\ ret' = [kind |-> "value", key |-> call.key, val |-> v]
        /\ expect' = [expect EXCEPT ![call.key] = IF v \in @ THEN {v} ELSE @]
    BY <1>2, <2>0 DEF ReadReturns, Return
  <2>2. PICK k \in Keys : k = call.key
    BY <2>1 DEF IInv, Control, CallControl
  <2>3. Awaited(k) = expect[k]
    BY <2>1 DEF Awaited, IInv, RestOK
  <2>4. /\ v \in expect[k]
        /\ Stored(k) \/ v = NoVal
        /\ \A p \in Pages, o \in Offsets : Holds(p, o, k) => Content(p, o) = v
    <3>1. CASE frame.loc.page = NoPage
      <4>1. v = NoVal /\ ~Stored(k)
        BY <2>0, <2>1, <2>2, <3>1 DEF CallInv, OldKnown
      <4>. QED
        BY <4>1 DEF CopiesInv, Contents, Stored
    <3>2. CASE frame.loc.page # NoPage
      <4>1. PICK p \in Pages, o \in Offsets : p = frame.loc.page /\ o = frame.loc.off
        BY <2>1, <3>2 DEF CallInv, OldKnown, StoreInv, Places
      <4>2. Holds(p, o, k) /\ v = Content(p, o)
        BY <2>0, <2>1, <2>2, <3>2, <4>1 DEF CallInv, OldKnown
      <4>3. \A q \in Pages, r \in Offsets : Holds(q, r, k) => q = p /\ r = o
        BY <2>1, <4>2 DEF CopiesInv, Unique, Current, Stale, InRealign, Replacing
      <4>4. v \in expect[k] /\ Stored(k)
        BY <2>3, <4>2 DEF CopiesInv, Contents, Stored
      <4>. QED
        BY <4>2, <4>3, <4>4
    <3>. QED
      BY <3>1, <3>2
  <2>5. expect' = [expect EXCEPT ![k] = {v}]
    BY <2>1, <2>2, <2>4 DEF IInv, RestOK
  <2>6. CopiesInv' /\ SameValues
    <3>1. \A j \in Keys, p \in Pages, o \in Offsets : ~Stale(j, p, o) /\ ~Stale(j, p, o)'
      BY <2>1 DEF Stale, InRealign, Replacing
    <3>2. ~Written'
      BY <2>1 DEF Written, Replacing
    <3>. QED
      BY <2>1, <2>2, <2>4, <2>5, <3>1, <3>2, NarrowCopies DEF IInv, NoCall
  <2>7. Truth'
    <3>1. ret'.key = k /\ ret'.val = v /\ expect'[k] = {v}
      BY <2>1, <2>2, <2>5 DEF IInv, RestOK
    <3>. QED
      BY <2>1, <3>1 DEF Truth
  <2>. QED
    BY <2>1, <2>6, <2>7, IdleCall DEF CallInv
<1>. QED
  BY <1>1, <1>2

(* The old copy goes once the new one is there (st_delete_item_with_loc). *)
LEMMA DeleteCopies ==
  ASSUME OnlyResets, IInv, StoreInv, CopiesInv, CallInv, Delete
  PROVE  CopiesInv' /\ CallInv' /\ SameValues /\ UNCHANGED <<call, ret>>
<1>1. /\ pc \in {"Del", "DelErase"} /\ frame.back = "Done" /\ frame.del = frame.loc
      /\ FlashOK /\ CtxOK /\ Layout
  BY DEF Delete, DelNothing, DelMismatch, DelMark, DelErase, CallInv, Course, IInv, DataInv,
     StoreInv
<1>2. /\ frame.loc.page \in Pages /\ frame.loc.off \in Offsets /\ call.key \in Keys
  BY <1>1 DEF IInv, Control, DeleteControl, CallControl, StoreInv, Places
<1>3. PICK p \in Pages, o \in Offsets, k \in Keys :
        p = frame.loc.page /\ o = frame.loc.off /\ k = call.key
  BY <1>2
<1>4. Status(p) # "UNAVAILABLE" /\ p # NoPage
  BY <1>1, PagesFacts DEF CallInv, Loaded, NonePage
<1>5. ASSUME pc = "Del"
      PROVE  /\ Holds(p, o, k) /\ ctx.page[p].cnt > 0 /\ Doomed.key = k
  <2>1. Holds(p, o, k)
    BY <1>1, <1>3, <1>4, <1>5 DEF CallInv, OldThere, Replacing
  <2>2. ctx.page[p].cnt > 0
    BY <1>1, <1>4, <1>5, <2>1, LiveInUse
  <2>. QED
    BY <1>1, <1>3, <2>1, <2>2 DEF Doomed, Holds
<1>6. CASE DelNothing
  <2>1. pc = "Del" /\ ctx.page[p].cnt = 0
    BY <1>1, <1>3, <1>6 DEF DelNothing
  <2>. QED
    BY <1>5, <2>1
<1>7. CASE DelMismatch
  BY <1>3, <1>5, <1>7 DEF DelMismatch
<1>8. CASE DelMark
  <2>1. /\ pc = "Del" /\ pc' \in {"DelErase", "Done"} /\ UNCHANGED <<call, ret, expect, frame>>
        /\ flash' = [flash EXCEPT ![p].cell[o] = DeadCell(flash[p].cell[o].size)]
        /\ ctx' = [ctx EXCEPT !.page[p].cnt = @ - 1]
    BY <1>1, <1>3, <1>8 DEF DelMark, Goto, MarkDead
  <2>2. /\ \A q \in Pages, r \in Offsets : q # p \/ r # o => flash'[q].cell[r] = flash[q].cell[r]
        /\ flash'[p].cell[o].kind = "dead"
    BY <1>1, <2>1 DEF FlashOK, FlashPage, DeadCell
  <2>3. ASSUME NEW j \in Keys, NEW q \in Pages, NEW r \in Offsets
        PROVE  /\ Holds(q, r, j)' <=> Holds(q, r, j) /\ ~(q = p /\ r = o)
               /\ Holds(q, r, j)' => Content(q, r)' = Content(q, r)
               /\ Current(j, q, r)' <=> Current(j, q, r)
               /\ Current(j, q, r)' <=> Holds(q, r, j)'
    <3>1. Holds(q, r, j)' <=> Holds(q, r, j) /\ ~(q = p /\ r = o)
      BY <2>2 DEF Holds
    <3>2. Holds(q, r, j)' => Content(q, r)' = Content(q, r)
      BY <2>2, <3>1 DEF Content
    <3>3. Stale(j, q, r) <=> j = k /\ q = p /\ r = o
      BY <1>1, <1>3, <2>1 DEF Stale, InRealign, Replacing
    <3>4. ~Stale(j, q, r)'
      BY <2>1 DEF Stale, InRealign, Replacing
    <3>5. Holds(q, r, j) /\ q = p /\ r = o => j = k
      BY <1>5, <2>1 DEF Holds
    <3>. QED
      BY <3>1, <3>2, <3>3, <3>4, <3>5 DEF Current
  <2>4. PICK q \in Pages, r \in Offsets : Current(k, q, r) /\ Content(q, r) = call.val
    BY <1>1, <1>3, <2>1 DEF CopiesInv, Fresh, Written, Replacing
  <2>5. Unique'
    BY <2>3 DEF CopiesInv, Unique
  <2>6. Backed'
    BY <2>3 DEF Backed
  <2>7. Contents'
    <3>1. \A j \in Keys : Awaited(j)' = Awaited(j) /\ expect'[j] = expect[j]
      BY <2>1 DEF Awaited
    <3>2. \A j \in Keys, a \in Pages, b \in Offsets :
            Holds(a, b, j)' => Content(a, b)' \in Awaited(j)'
      BY <2>3, <3>1 DEF CopiesInv, Contents
    <3>3. ASSUME NEW j \in Keys, Stored(j) PROVE Stored(j)'
      <4>1. CASE j = k
        BY <2>3, <2>4, <4>1 DEF Stored
      <4>2. CASE j # k
        <5>1. PICK a \in Pages, b \in Offsets : Holds(a, b, j)
          BY <3>3 DEF Stored
        <5>2. ~(a = p /\ b = o)
          BY <1>5, <2>1, <4>2, <5>1 DEF Holds
        <5>. QED
          BY <2>3, <5>1, <5>2 DEF Stored
      <4>. QED
        BY <4>1, <4>2
    <3>. QED
      BY <3>1, <3>2, <3>3 DEF CopiesInv, Contents
  <2>8. Fresh'
    <3>1. Current(k, q, r)' /\ Content(q, r)' = call.val /\ k = call'.key /\ call'.val = call.val
      BY <1>3, <2>1, <2>3, <2>4
    <3>. QED
      BY <3>1 DEF Fresh
  <2>9. Loaded'
    <3>1. \A a \in Pages : Status(a)' = Status(a)
      BY <1>1, <2>1 DEF CtxOK, Ctx, RamPage, Status
    <3>. QED
      BY <2>1, <3>1 DEF CallInv, Loaded, NonePage
  <2>10. SearchSoFar' /\ OldKnown' /\ OldThere' /\ Course' /\ Truth'
    BY <1>1, <2>1 DEF CallInv, SearchSoFar, Searching, OldKnown, OldThere, Replacing, Course,
       Truth
  <2>11. SameValues
    BY <2>3 DEF SameValues, HasValue
  <2>. QED
    BY <2>1, <2>5, <2>6, <2>7, <2>8, <2>9, <2>10, <2>11 DEF CopiesInv, CallInv
<1>9. CASE DelErase
  <2>1. /\ pc = "DelErase" /\ pc' = "Done" /\ UNCHANGED <<call, ret, expect, frame>>
        /\ ErasePage(p) /\ flash' = [flash EXCEPT ![p] = BlankPage] /\ ctx.page[p].cnt = 0
    BY <1>1, <1>3, <1>9 DEF DelErase, Goto, ErasePage, StoreInv, Targets
  <2>2. SameLive
    <3>. DEFINE fp == flash[p]
                rp == ctx.page[p]
    <3>1. PageOK(fp, rp, TRUE) /\ fp \in FlashPage /\ rp \in RamPage /\ Fits(fp.cell)
          /\ rp.status # "UNAVAILABLE" /\ rp.cnt = 0
      BY <1>1, <1>4, <2>1, LayoutWhole, PageTypes DEF Status
    <3>2. \A r \in Offsets : fp.cell[r].kind # "live"
      <4>. HIDE DEF fp, rp
      <4>. QED
        BY <3>1, PageEmpty
    <3>. QED
      BY <1>1, <2>1, <3>2, EmptyErased
  <2>3. CopiesInv' /\ SameValues
    <3>1. \A j \in Keys, q \in Pages, r \in Offsets : ~Stale(j, q, r) /\ ~Stale(j, q, r)'
      BY <2>1 DEF Stale, InRealign, Replacing
    <3>2. Written
      BY <1>1, <2>1 DEF Written
    <3>. QED
      BY <1>3, <2>1, <2>2, <3>1, <3>2, CopiesSame, SameAwaited
  <2>4. Loaded'
    <3>1. /\ \A q \in Pages \ {p} : ctx'.page[q] = ctx.page[q]
          /\ Status(p)' = "ERASED"
      BY <1>1, <2>1, EraseEffect
    <3>2. \A q \in Pages : Status(q)' # "UNAVAILABLE"
      BY <2>1, <3>1 DEF CallInv, Loaded, NonePage, Status
    <3>. QED
      BY <3>2 DEF Loaded, NonePage
  <2>5. SearchSoFar' /\ OldKnown' /\ OldThere' /\ Course' /\ Truth'
    BY <1>1, <2>1 DEF CallInv, SearchSoFar, Searching, OldKnown, OldThere, Replacing, Course,
       Truth
  <2>. QED
    BY <2>1, <2>3, <2>4, <2>5 DEF CallInv
<1>. QED
  BY <1>6, <1>7, <1>8, <1>9 DEF Delete

(* Between the search and the first write (st_get_available_page). *)
LEMMA GetPageCopies ==
  ASSUME OnlyResets, IInv, StoreInv, CopiesInv, CallInv, GetPage
  PROVE  CopiesInv' /\ CallInv' /\ (Fails \/ (SameValues /\ UNCHANGED <<call, ret>>))
<1>1. /\ pc \in {"Found", "Recheck", "Take"} /\ call.op # "read"
      /\ frame \in Frame /\ ctx.active \in Pages \cup {NoPage} /\ NoPage \notin Pages
      /\ \A p \in Pages : Status(p) # "UNAVAILABLE"
  <2>1. pc \in {"Found", "Recheck", "Take"} /\ (pc = "Found" => call.op = "write")
    BY DEF GetPage, UseCandidate, SealCandidate, TakePage, NoCandidate, RecheckFails,
       RecheckRoom, RecheckSeal, TakeFails, Choosing
  <2>. QED
    BY <2>1, PagesFacts DEF IInv, RestOK, DataInv, CtxOK, Ctx, CallInv, Course, Searching,
       Loaded, NonePage
<1>2. ASSUME UNCHANGED <<call, ret, expect>>, pc' \in {"Append", "Take"}, SameLive,
             NEW p \in Pages, frame' = [frame EXCEPT !.pg = p],
             \A q \in Pages : Status(q)' # "UNAVAILABLE"
      PROVE  CopiesInv' /\ CallInv' /\ SameValues
  <2>1. CopiesInv' /\ SameValues
    BY <1>1, <1>2, PlainStep, SameAwaited DEF Plain
  <2>2. OldKnown'
    <3>1. frame'.loc = frame.loc /\ frame'.cnt = frame.cnt
      BY <1>1, <1>2 DEF Frame
    <3>. QED
      BY <1>1, <1>2, <3>1, OldKept, SameHolds, SameStored DEF CallInv
  <2>3. SearchSoFar' /\ OldThere' /\ Course' /\ Truth' /\ Loaded'
    BY <1>1, <1>2 DEF CallInv, SearchSoFar, Searching, OldThere, Replacing, Course, Truth,
       Loaded, NonePage
  <2>. QED
    BY <2>1, <2>2, <2>3 DEF CallInv
<1>3. ASSUME NEW p \in Pages, NEW st \in {"ACTIVE", "FULL"}, UpdateStatus(p, st)
      PROVE  SameLive /\ \A q \in Pages : Status(q)' # "UNAVAILABLE"
  <2>1. SameCells /\ Status(p)' = st /\ \A q \in Pages \ {p} : Status(q)' = Status(q)
    BY <1>1, <1>3, MarkedStep
  <2>. QED
    BY <1>1, <2>1, SameCellsLive
<1>4. UNCHANGED <<flash, ctx>> => SameLive /\ \A q \in Pages : Status(q)' # "UNAVAILABLE"
  BY <1>1, SameFlashLive DEF Status
<1>5. ASSUME NEW p \in Pages, UseCandidate(p)
      PROVE  CopiesInv' /\ CallInv' /\ SameValues /\ UNCHANGED <<call, ret>>
  BY <1>2, <1>4, <1>5 DEF UseCandidate, AppendTo, Goto
<1>6. ASSUME NEW p \in Pages, SealPage(p)
      PROVE  CopiesInv' /\ CallInv' /\ SameValues /\ UNCHANGED <<call, ret>>
  BY <1>2, <1>3, <1>6 DEF SealPage, Goto
<1>7. ASSUME NEW p \in Pages, TakePage(p)
      PROVE  CopiesInv' /\ CallInv' /\ SameValues /\ UNCHANGED <<call, ret>>
  BY <1>2, <1>3, <1>7 DEF TakePage, AppendTo, Goto
<1>8. CASE NoCandidate
  BY <1>2, <1>4, <1>8, PagesFacts DEF NoCandidate, Goto
<1>9. CASE RecheckFails \/ TakeFails
  BY <1>1, <1>9, FailCopies DEF RecheckFails, TakeFails, Plain, Fail, Return, Fails
<1>10. CASE RecheckRoom
  BY <1>1, <1>2, <1>4, <1>10 DEF RecheckRoom, AppendTo, Goto
<1>11. CASE RecheckSeal
  BY <1>1, <1>6, <1>11 DEF RecheckSeal
<1>. QED
  BY <1>5, <1>6, <1>7, <1>8, <1>9, <1>10, <1>11 DEF GetPage, SealCandidate

(* A restart between two calls. *)
LEMMA ResetCopies ==
  ASSUME IInv, CopiesInv, CallInv, Reset
  PROVE  CopiesInv' /\ CallInv'
<1>1. /\ pc = "Idle" /\ pc' = "Boot" /\ UNCHANGED flash /\ call' = NoCall /\ ret' = NoRet
      /\ expect' = MayHaveWritten /\ call.op = "none"
  BY DEF Reset, Restarted, CallInv, Course
<1>2. \A k \in Keys : Awaited(k) \subseteq Awaited(k)' /\ expect[k] \subseteq expect'[k]
  BY <1>1, FailAwaited DEF IInv
<1>3. CopiesInv'
  BY <1>1, <1>2, PlainStep, SameFlashLive DEF Plain
<1>4. CallInv'
  BY <1>1 DEF CallInv, SearchSoFar, Searching, OldKnown, OldThere, Replacing, Course, Truth,
     Loaded, NoCall, NoRet
<1>. QED
  BY <1>3, <1>4

LEMMA InitCopies == Init => CopiesInv /\ CallInv
<1>. SUFFICES ASSUME Init PROVE CopiesInv /\ CallInv
  OBVIOUS
<1>1. pc = "Boot" /\ call = NoCall /\ ret = NoRet /\ \A k \in Keys : expect[k] = {NoVal}
  BY DEF Init
<1>2. \A p \in Pages, o \in Offsets, k \in Keys : ~Holds(p, o, k)
  BY DEF Init, Holds, BlankPage, Blank
<1>3. CopiesInv
  BY <1>1, <1>2 DEF CopiesInv, Unique, Backed, Contents, Fresh, Current, Written, Replacing,
     Stored
<1>4. CallInv
  BY <1>1 DEF CallInv, SearchSoFar, Searching, OldKnown, OldThere, Replacing, Course, Truth,
     Loaded, NoCall, NoRet
<1>. QED
  BY <1>3, <1>4

(* The realignment moves every item, and then erases the page. *)
LEMMA RealignCopies ==
  ASSUME OnlyResets, IInv, StoreInv, CopiesInv, CallInv, NoMishap, Realign
  PROVE  CopiesInv' /\ CallInv' /\ SameValues /\ UNCHANGED <<call, ret>>
<1>1. /\ pc \in {"Found", "Realign", "RealignTake", "CopySeal"} /\ call.op # "read"
      /\ pc' \in {"Recheck", "Realign", "RealignTake", "CopySeal"}
      /\ UNCHANGED <<call, ret, expect>>
  <2>1. /\ pc \in {"Found", "Realign", "RealignTake", "CopySeal"}
        /\ pc = "Found" => call.op = "write"
        /\ pc' \in {"Recheck", "Realign", "RealignTake", "CopySeal"}
        /\ UNCHANGED <<call, ret, expect>>
    BY DEF Realign, RealignNone, RealignFull, RealignStart, RealignSkip, RealignCorrupt,
       RealignTake, RealignFails, RealignCopy, CopySeal, RealignEnd, Crowded, Choosing,
       Moving, CanCopy, Goto
  <2>. QED
    BY <2>1 DEF CallInv, Course, Searching
<1>2. /\ frame \in Frame /\ ctx.active \in Pages \cup {NoPage} /\ NoPage \notin Pages
      /\ \A p \in Pages : Status(p) # "UNAVAILABLE"
      /\ FlashOK /\ CtxOK /\ StatusMirrored /\ Layout /\ Targets
  BY <1>1, PagesFacts DEF IInv, RestOK, DataInv, CtxOK, Ctx, CallInv, Loaded, NonePage,
     StoreInv
<1>3. PICK v \in Pages, u \in Nat : v = frame.victim /\ u = frame.off
  BY <1>2 DEF Frame
<1>4. ~(pc = "Found") => InRealign /\ Status(v) = "FULL"
  BY <1>1, <1>3 DEF InRealign, IInv, Control, RealignControl
<1>5. \A k \in Keys, p \in Pages, o \in Offsets : Holds(p, o, k) => InUse(p) /\ o < Used(p)
  BY <1>1, <1>2, LiveInUse
(* What does not depend on the copies. *)
<1>6. ASSUME frame'.loc = frame.loc, frame'.cnt = frame.cnt,
             \A q \in Pages : Status(q)' # "UNAVAILABLE",
             \A k \in Keys, p \in Pages, o \in Offsets :
               p = frame.loc.page /\ o = frame.loc.off /\ Holds(p, o, k) => Holds(p, o, k)',
             \A k \in Keys : Stored(k)' => Stored(k)
      PROVE  CallInv'
  <2>1. OldKnown'
    BY <1>1, <1>6, OldKept DEF CallInv
  <2>. QED
    BY <1>1, <1>6, <2>1 DEF CallInv, SearchSoFar, Searching, OldThere, Replacing, Course, Truth,
       Loaded, NonePage
(* A step that moves nothing. *)
<1>7. ASSUME frame'.loc = frame.loc, frame'.cnt = frame.cnt, SameLive,
             \A q \in Pages : Status(q)' # "UNAVAILABLE",
             \A k \in Keys, p \in Pages, o \in Offsets :
               Holds(p, o, k) => (Stale(k, p, o)' <=> Stale(k, p, o))
      PROVE  CopiesInv' /\ CallInv' /\ SameValues
  <2>1. ~Written'
    BY <1>1 DEF Written, Replacing
  <2>2. CopiesInv' /\ SameValues
    BY <1>1, <1>7, <2>1, CopiesSame, SameAwaited
  <2>. QED
    BY <1>6, <1>7, <2>2, SameHolds, SameStored
<1>8. UNCHANGED <<flash, ctx>> => SameLive /\ \A q \in Pages : Status(q)' # "UNAVAILABLE"
  BY <1>2, SameFlashLive DEF Status
<1>9. ASSUME NEW p \in Pages, RealignNone(p)
      PROVE  CopiesInv' /\ CallInv' /\ SameValues
  <2>1. UNCHANGED <<flash, ctx, frame>> /\ pc = "Found" /\ pc' = "Recheck"
    BY <1>9 DEF RealignNone, Crowded, Choosing, Goto
  <2>2. \A k \in Keys, q \in Pages, o \in Offsets : ~Stale(k, q, o) /\ ~Stale(k, q, o)'
    BY <2>1 DEF Stale, InRealign, Replacing
  <2>. QED
    BY <1>7, <1>8, <2>1, <2>2
<1>10. ASSUME NEW p \in Pages, NEW w \in Pages, RealignStart(p, w)
       PROVE  CopiesInv' /\ CallInv' /\ SameValues
  <2>1. /\ UNCHANGED <<flash, ctx>> /\ pc = "Found" /\ pc' = "Realign"
        /\ frame' = [frame EXCEPT !.victim = w, !.off = 0]
    BY <1>10 DEF RealignStart, Crowded, Choosing, Goto
  <2>2. frame'.loc = frame.loc /\ frame'.cnt = frame.cnt /\ frame'.off = 0
    BY <1>2, <2>1 DEF Frame
  <2>3. \A k \in Keys, q \in Pages, o \in Offsets : ~Stale(k, q, o) /\ ~Stale(k, q, o)'
    BY <2>1, <2>2, OffsetsFacts DEF Stale, InRealign, Replacing
  <2>. QED
    BY <1>7, <1>8, <2>1, <2>2, <2>3
<1>11. ASSUME Moving
       PROVE  /\ pc = "Realign" /\ u \in Offsets /\ Moved = flash[v].cell[u]
              /\ Moved.size \in Nat /\ Moved.kind \in {"blank", "live", "dead"}
              /\ Moved.kind = "live" => Moved.key \in Keys /\ Moved.size = Size(Moved.key)
              /\ Moved.kind # "blank" => Moved.size > 0 /\ \A k \in Keys, o \in Offsets :
                   Holds(v, o, k) => (o < u + Moved.size <=> o < u \/ o = u)
  <2>1. pc = "Realign" /\ u < Used(v) /\ Moved = flash[v].cell[u]
    BY <1>3, <1>11 DEF Moving, Moved
  <2>2. u \in Offsets
    BY <1>2, <2>1, InPageOffset
  <2>3. /\ Moved.size \in Nat /\ Moved.kind \in {"blank", "live", "dead"}
        /\ Moved.kind = "live" => Moved.key \in Keys /\ Moved.size = Size(Moved.key)
        /\ Moved.kind # "blank" => Moved.size > 0
    BY <1>2, <2>1, <2>2, CleanCell DEF OnlyResets
  <2>4. ASSUME Moved.kind # "blank", NEW k \in Keys, NEW o \in Offsets, Holds(v, o, k)
        PROVE  o < u + Moved.size <=> o < u \/ o = u
    <3>1. Tidy(flash[v].cell)
      BY <1>2 DEF Layout, PageOK
    <3>2. Occupied(flash[v].cell, o) /\ Occupied(flash[v].cell, u)
      BY <2>1, <2>2, <2>4 DEF Holds, Occupied
    <3>3. u < o => u + Moved.size <= o
      BY <2>1, <2>2, <3>1, <3>2 DEF Tidy
    <3>. QED
      BY <2>2, <2>3, <2>4, <3>3, OffsetsFacts
  <2>. QED
    BY <2>1, <2>2, <2>3, <2>4
<1>12. CASE RealignSkip
  <2>1. Moving /\ Moved.kind = "dead" /\ UNCHANGED <<flash, ctx>>
        /\ frame' = [frame EXCEPT !.off = @ + Moved.size] /\ pc' = "Realign"
    BY <1>12 DEF RealignSkip, NoMishap, DropsItem, Goto, StepOver
  <2>2. /\ frame'.loc = frame.loc /\ frame'.cnt = frame.cnt /\ frame'.victim = v
        /\ frame'.off = u + Moved.size
    BY <1>2, <1>3, <2>1 DEF Frame
  <2>3. ASSUME NEW k \in Keys, NEW p \in Pages, NEW o \in Offsets, Holds(p, o, k)
        PROVE  Stale(k, p, o)' <=> Stale(k, p, o)
    <3>1. Stale(k, p, o) <=> p = v /\ o < u
      BY <1>3, <1>11, <2>1 DEF Stale, InRealign, Replacing
    <3>2. Stale(k, p, o)' <=> p = v /\ o < u + Moved.size
      BY <2>1, <2>2 DEF Stale, InRealign, Replacing
    <3>3. p = v => o # u
      BY <1>11, <2>1, <2>3 DEF Holds
    <3>. QED
      BY <1>11, <2>1, <2>3, <3>1, <3>2, <3>3
  <2>. QED
    BY <1>1, <1>7, <1>8, <2>1, <2>2, <2>3
<1>13. CASE RealignCorrupt
  BY <1>11, <1>13 DEF RealignCorrupt
<1>14. ASSUME InRealign, InRealign', frame'.victim = v, frame'.off = u,
              frame'.loc = frame.loc, frame'.cnt = frame.cnt,
              NEW p \in Pages, NEW st \in {"ACTIVE", "FULL"}, UpdateStatus(p, st)
       PROVE  CopiesInv' /\ CallInv' /\ SameValues
  <2>1. SameCells /\ Status(p)' = st /\ \A q \in Pages \ {p} : Status(q)' = Status(q)
    BY <1>1, <1>2, <1>14, MarkedStep
  <2>2. \A q \in Pages : Status(q)' # "UNAVAILABLE"
    BY <1>2, <2>1
  <2>3. \A k \in Keys, q \in Pages, o \in Offsets : Stale(k, q, o)' <=> Stale(k, q, o)
    BY <1>3, <1>14 DEF Stale, InRealign, Replacing
  <2>. QED
    BY <1>7, <1>14, <2>1, <2>2, <2>3, SameCellsLive
<1>15. ASSUME NEW p \in Pages, RealignFull(p)
       PROVE  CopiesInv' /\ CallInv' /\ SameValues
  <2>1. /\ ctx.active \in Pages /\ UpdateStatus(ctx.active, "FULL") /\ pc = "Realign"
        /\ pc' = "RealignTake" /\ frame' = [frame EXCEPT !.pg = p]
    BY <1>2, <1>11, <1>15 DEF RealignFull, HasRoom, Goto
  <2>2. PICK a \in Pages : a = ctx.active
    BY <2>1
  <2>3. /\ frame'.victim = v /\ frame'.off = u /\ frame'.loc = frame.loc
        /\ frame'.cnt = frame.cnt /\ UpdateStatus(a, "FULL") /\ InRealign /\ InRealign'
    BY <1>2, <1>3, <2>1, <2>2 DEF Frame, InRealign
  <2>. QED
    BY <1>14, <2>3
<1>16. CASE RealignTake \/ CopySeal
  <2>1. PICK g \in Pages, st \in {"ACTIVE", "FULL"} : UpdateStatus(g, st)
    BY <1>2, <1>16 DEF RealignTake, CopySeal, Frame
  <2>2. InRealign /\ InRealign' /\ UNCHANGED frame
    BY <1>16 DEF RealignTake, CopySeal, Goto, InRealign
  <2>. QED
    BY <1>1, <1>3, <1>14, <2>1, <2>2
<1>17. CASE RealignFails
  BY <1>17 DEF RealignFails, NoMishap, Stuck
<1>18. CASE RealignCopy
  <2>1. PICK c \in Cell : c = Moved
    BY <1>2, <1>11, <1>18 DEF RealignCopy, CanCopy, FlashOK, FlashPage
  <2>2. PICK j \in Keys : j = c.key
    BY <1>11, <1>18, <2>1 DEF RealignCopy, CanCopy, Movable
  <2>3. /\ Moving /\ c.kind = "live" /\ c.size = Size(j) /\ c.size \in Nat /\ c.size > 0
        /\ Holds(v, u, j) /\ Content(v, u) = c.val /\ u \in Offsets /\ c = flash[v].cell[u]
    BY <1>11, <1>18, <2>1, <2>2 DEF RealignCopy, CanCopy, Movable, Holds, Content
  <2>4. PICK a \in Pages : a = ctx.active
    BY <1>18 DEF RealignCopy, CanCopy, Storable
  <2>5. /\ HasRoom(a, c.size) /\ Storable(a, c.size) /\ WriteItem(a, c)
        /\ frame' = [frame EXCEPT !.off = @ + c.size, !.pg = a]
        /\ pc' \in {"CopySeal", "Realign"}
    BY <1>18, <2>1, <2>4 DEF RealignCopy, CanCopy, Goto
  <2>6. Status(a) = "ACTIVE" /\ a # v
    BY <1>4, <1>11, <2>3, <2>5, RoomActive
  <2>7. Neat(c)
    BY <1>2, <2>3 DEF Layout, PageOK, Tidy
  <2>8. /\ Used(a) \in Offsets /\ flash[a].cell[Used(a)] = Blank
        /\ flash' = [flash EXCEPT ![a] =
             [flash[a] EXCEPT !.cell = [flash[a].cell EXCEPT ![Used(a)] = c]]]
        /\ \A q \in Pages : Status(q)' = Status(q)
    BY <1>2, <1>11, <2>2, <2>3, <2>5, <2>6, <2>7, WriteEffect
  <2>9. PICK w \in Offsets : w = Used(a)
    BY <2>8
  <2>10. /\ \A q \in Pages, r \in Offsets : q # a \/ r # w => flash'[q].cell[r] = flash[q].cell[r]
         /\ flash'[a].cell[w] = c /\ flash[a].cell[w] = Blank
    BY <1>2, <2>8, <2>9, PageTypes DEF FlashOK, FlashPage
  <2>11. /\ frame'.loc = frame.loc /\ frame'.cnt = frame.cnt /\ frame'.victim = v
         /\ frame'.off = u + c.size
    BY <1>2, <1>3, <2>5 DEF Frame
  <2>12. Current(j, v, u)
    BY <1>3, <1>11, <2>3, OffsetsFacts DEF Current, Stale, InRealign, Replacing
  <2>13. ASSUME NEW k \in Keys, NEW p \in Pages, NEW o \in Offsets
         PROVE  /\ Holds(p, o, k)' <=> Holds(p, o, k) \/ (k = j /\ p = a /\ o = w)
                /\ ~(Holds(p, o, k) /\ p = a /\ o = w)
                /\ Holds(p, o, k) => Content(p, o)' = Content(p, o)
                /\ Current(k, p, o)' <=> \/ k = j /\ p = a /\ o = w
                                         \/ Current(k, p, o) /\ ~(p = v /\ o = u)
    <3>1. ~(Holds(p, o, k) /\ p = a /\ o = w)
      BY <2>10, BlankCell DEF Holds
    <3>2. Holds(p, o, k)' <=> Holds(p, o, k) \/ (k = j /\ p = a /\ o = w)
      BY <2>2, <2>3, <2>10, <3>1 DEF Holds
    <3>3. Holds(p, o, k) => Content(p, o)' = Content(p, o)
      BY <2>10, <3>1 DEF Content
    <3>4. Stale(k, p, o) <=> p = v /\ o < u
      BY <1>3, <1>11, <2>3 DEF Stale, InRealign, Replacing
    <3>5. Stale(k, p, o)' <=> p = v /\ o < u + c.size
      BY <2>5, <2>11 DEF Stale, InRealign, Replacing
    <3>6. Holds(p, o, k) /\ p = v => (o < u + c.size <=> o < u \/ o = u)
      BY <1>11, <2>1, <2>3
    <3>7. k = j /\ p = a /\ o = w => Current(k, p, o)'
      BY <2>6, <3>2, <3>5 DEF Current
    <3>8. ~(u < u)
      OBVIOUS
    <3>. QED
      BY <2>6, <3>1, <3>2, <3>3, <3>4, <3>5, <3>6, <3>7, <3>8 DEF Current
  <2>14. \A k \in Keys : Current(k, v, u) => k = j
    BY <2>2, <2>3 DEF Current, Holds
  <2>15. Unique'
    <3>1. \A p \in Pages, o \in Offsets : Current(j, p, o) => p = v /\ o = u
      BY <2>3, <2>12 DEF CopiesInv, Unique
    <3>. QED
      BY <2>13, <3>1 DEF CopiesInv, Unique
  <2>16. Backed'
    <3>1. ASSUME NEW k \in Keys, NEW p \in Pages, NEW o \in Offsets, Holds(p, o, k)'
          PROVE  \E q \in Pages, r \in Offsets : Current(k, q, r)'
      <4>1. CASE k = j
        BY <2>13, <4>1
      <4>2. CASE k # j
        <5>1. PICK q \in Pages, r \in Offsets : Current(k, q, r)
          BY <2>13, <3>1, <4>2 DEF CopiesInv, Backed
        <5>. QED
          BY <2>13, <2>14, <4>2, <5>1
      <4>. QED
        BY <4>1, <4>2
    <3>. QED
      BY <3>1 DEF Backed
  <2>17. Contents'
    <3>1. \A k \in Keys : Awaited(k)' = Awaited(k) /\ expect'[k] = expect[k]
      BY <1>1 DEF Awaited
    <3>2. Content(a, w)' = Content(v, u) /\ Content(v, u) \in Awaited(j)
      BY <2>3, <2>10 DEF Content, CopiesInv, Contents
    <3>3. ASSUME NEW k \in Keys, NEW p \in Pages, NEW o \in Offsets, Holds(p, o, k)'
          PROVE  Content(p, o)' \in Awaited(k)'
      <4>1. CASE Holds(p, o, k)
        BY <2>13, <3>1, <4>1 DEF CopiesInv, Contents
      <4>2. CASE ~Holds(p, o, k)
        BY <2>13, <3>1, <3>2, <3>3, <4>2
      <4>. QED
        BY <4>1, <4>2
    <3>4. \A k \in Keys : Stored(k) => Stored(k)'
      BY <2>13 DEF Stored
    <3>. QED
      BY <3>1, <3>3, <3>4 DEF CopiesInv, Contents
  <2>18. Fresh'
    BY <1>1 DEF Fresh, Written, Replacing
  <2>19. CallInv'
    <3>1. Stored(j)
      BY <2>3 DEF Stored
    <3>2. \A k \in Keys : Stored(k)' => Stored(k)
      BY <2>13, <3>1 DEF Stored
    <3>. QED
      BY <1>2, <1>6, <2>8, <2>11, <2>13, <3>2
  <2>20. SameValues
    <3>1. Content(a, w)' = Content(v, u)
      BY <2>3, <2>10 DEF Content
    <3>2. ASSUME NEW k \in Keys, NEW x \in Vals \cup {NoVal}, HasValue(k, x) PROVE HasValue(k, x)'
      <4>1. PICK p \in Pages, o \in Offsets : Current(k, p, o) /\ Content(p, o) = x
        BY <3>2 DEF HasValue
      <4>2. CASE p = v /\ o = u
        BY <2>13, <2>14, <3>1, <4>1, <4>2 DEF HasValue
      <4>3. CASE ~(p = v /\ o = u)
        BY <2>13, <4>1, <4>3 DEF HasValue, Current
      <4>. QED
        BY <4>2, <4>3
    <3>3. HasValue(j, Content(v, u))
      BY <2>3, <2>12 DEF HasValue
    <3>4. ASSUME NEW k \in Keys, NEW x \in Vals \cup {NoVal}, HasValue(k, x)' PROVE HasValue(k, x)
      <4>1. PICK p \in Pages, o \in Offsets : Current(k, p, o)' /\ Content(p, o)' = x
        BY <3>4 DEF HasValue
      <4>2. CASE k = j /\ p = a /\ o = w
        BY <2>12, <3>1, <3>3, <4>1, <4>2 DEF HasValue
      <4>3. CASE ~(k = j /\ p = a /\ o = w)
        BY <2>13, <4>1, <4>3 DEF HasValue, Current
      <4>. QED
        BY <4>2, <4>3
    <3>. QED
      BY <3>2, <3>4 DEF SameValues
  <2>. QED
    BY <1>1, <2>15, <2>16, <2>17, <2>18, <2>19, <2>20 DEF CopiesInv
<1>19. CASE RealignEnd
  <2>1. /\ pc = "Realign" /\ ~(u < Used(v)) /\ ErasePage(v) /\ pc' = "Recheck"
        /\ UNCHANGED frame /\ frame.loc.page # v
    BY <1>3, <1>19 DEF RealignEnd, Moving, Goto, NoMishap, MovesOldCopy
  <2>2. /\ flash' = [flash EXCEPT ![v] = BlankPage] /\ Status(v)' = "ERASED"
        /\ \A q \in Pages \ {v} : flash'[q] = flash[q] /\ ctx'.page[q] = ctx.page[q]
    BY <1>1, <1>2, <2>1, EraseEffect
  <2>3. \A o \in Offsets : flash'[v].cell[o].kind = "blank"
    BY <1>2, <2>2, BlankCell DEF BlankPage, FlashOK
  <2>4. \A q \in Pages : Status(q)' # "UNAVAILABLE"
    BY <1>2, <2>2 DEF Status
  <2>5. ASSUME NEW k \in Keys, NEW p \in Pages, NEW o \in Offsets
        PROVE  /\ Holds(p, o, k)' <=> Holds(p, o, k) /\ p # v
               /\ Holds(p, o, k)' => Content(p, o)' = Content(p, o)
               /\ Current(k, p, o) <=> Holds(p, o, k) /\ p # v
               /\ Current(k, p, o)' <=> Holds(p, o, k)'
    <3>1. Holds(p, o, k)' <=> Holds(p, o, k) /\ p # v
      BY <2>2, <2>3 DEF Holds
    <3>2. Holds(p, o, k)' => Content(p, o)' = Content(p, o)
      BY <2>2, <3>1 DEF Content
    <3>3. Stale(k, p, o) <=> p = v /\ o < u
      BY <1>3, <2>1 DEF Stale, InRealign, Replacing
    <3>4. ~Stale(k, p, o)'
      BY <2>1 DEF Stale, InRealign, Replacing
    <3>5. Holds(p, o, k) /\ p = v => o < u
      <4>1. ctx.page[v] \in RamPage
        BY <1>2, PageTypes
      <4>2. Used(v) \in Nat
        BY <4>1 DEF RamPage, Used
      <4>. QED
        BY <1>5, <2>1, <4>2, OffsetsFacts
    <3>. QED
      BY <3>1, <3>2, <3>3, <3>4, <3>5 DEF Current
  <2>6. Unique'
    BY <2>5 DEF CopiesInv, Unique
  <2>7. Backed'
    BY <2>5 DEF Backed
  <2>8. \A k \in Keys : Stored(k)' <=> Stored(k)
    <3>1. ASSUME NEW k \in Keys, Stored(k) PROVE Stored(k)'
      <4>1. PICK q \in Pages, r \in Offsets : Current(k, q, r)
        BY <3>1 DEF Stored, CopiesInv, Backed
      <4>. QED
        BY <2>5, <4>1 DEF Stored
    <3>. QED
      BY <2>5, <3>1 DEF Stored
  <2>9. Contents'
    <3>1. \A k \in Keys : Awaited(k)' = Awaited(k) /\ expect'[k] = expect[k]
      BY <1>1 DEF Awaited
    <3>. QED
      BY <2>5, <2>8, <3>1 DEF CopiesInv, Contents
  <2>10. Fresh'
    BY <2>1 DEF Fresh, Written, Replacing
  <2>11. CallInv'
    BY <1>6, <2>1, <2>4, <2>5, <2>8
  <2>12. SameValues
    BY <2>5 DEF SameValues, HasValue
  <2>. QED
    BY <1>1, <2>6, <2>7, <2>9, <2>10, <2>11, <2>12 DEF CopiesInv
<1>. QED
  BY <1>1, <1>9, <1>10, <1>12, <1>13, <1>15, <1>16, <1>17, <1>18, <1>19 DEF Realign

(* A write takes effect when the item is appended. *)
Appends ==
  \E k \in Keys, v \in Vals \cup {NoVal} :
    /\ k = call.key /\ v = call.val /\ call.op = "write" /\ UNCHANGED <<call, ret>>
    /\ HasValue(k, v)'
    /\ \A j \in Keys \ {k}, w \in Vals \cup {NoVal} : HasValue(j, w)' <=> HasValue(j, w)

(* The new copy is written, and then the old one is deleted. *)
LEMMA WriteCopies ==
  ASSUME OnlyResets, IInv, StoreInv, CopiesInv, CallInv, Write
  PROVE  /\ CopiesInv' /\ CallInv'
         /\ \/ Fails
            \/ SameValues /\ UNCHANGED <<call, ret>>
            \/ Appends
            \/ SameValues /\ WriteReturns /\ HasValue(call.key, call.val)
<1>1. /\ pc \in {"Append", "AppendSeal", "Wrote", "Done"} /\ call.op = "write"
      /\ frame \in Frame /\ NoPage \notin Pages /\ call.val \in Vals \cup {NoVal}
      /\ \A p \in Pages : Status(p) # "UNAVAILABLE"
      /\ FlashOK /\ CtxOK /\ StatusMirrored /\ Layout /\ Targets
  <2>1. pc \in {"Append", "AppendSeal", "Wrote", "Done"}
    BY DEF Write, AppendRefused, AppendItem, CanAppend, AppendSeal, WriteDeletesOld, WriteReturns
  <2>2. call.op \in {"none", "read", "write"} /\ call.val \in Vals \cup {NoVal}
    BY DEF IInv, RestOK, Call
  <2>. QED
    BY <2>1, <2>2, PagesFacts DEF IInv, RestOK, DataInv, CallInv, Course, Searching, Loaded,
       NonePage, StoreInv
<1>2. PICK k \in Keys : k = call.key
  BY <1>1 DEF IInv, Control, CallControl
<1>3. PICK g \in Pages : g = frame.pg
  BY <1>1 DEF Frame
<1>4. CASE AppendRefused
  BY <1>1, <1>4, FailCopies DEF AppendRefused, Plain, Fail, Return, Fails
<1>5. CASE AppendItem
  <2>1. PICK c \in Cell : c = LiveCell(k, call.val)
    BY <1>1, SizeType DEF LiveCell, Cell, CellKinds
  <2>2. c.kind = "live" /\ c.key = k /\ c.val = call.val /\ c.size = Need /\ Neat(c)
    <3>1. Need > ItemHeaderSize
      BY <1>1, NeedPositive
    <3>. QED
      BY <1>2, <2>1, <3>1 DEF LiveCell, Need, Neat
  <2>3. /\ pc = "Append" /\ pc' \in {"AppendSeal", "Wrote"} /\ Storable(g, c.size)
        /\ WriteItem(g, c) /\ UNCHANGED <<frame, call, ret, expect>> /\ Status(g) = "ACTIVE"
    BY <1>1, <1>2, <1>3, <1>5, <2>1, <2>2 DEF AppendItem, CanAppend, Goto, Targets
  <2>4. /\ Used(g) \in Offsets /\ flash[g].cell[Used(g)] = Blank
        /\ flash' = [flash EXCEPT ![g] =
             [flash[g] EXCEPT !.cell = [flash[g].cell EXCEPT ![Used(g)] = c]]]
        /\ \A q \in Pages : Status(q)' = Status(q)
    BY <1>1, <2>2, <2>3, WriteEffect
  <2>5. PICK w \in Offsets : w = Used(g)
    BY <2>4
  <2>6. /\ \A q \in Pages, r \in Offsets : q # g \/ r # w => flash'[q].cell[r] = flash[q].cell[r]
        /\ flash'[g].cell[w] = c /\ flash[g].cell[w] = Blank
    BY <1>1, <2>4, <2>5, PageTypes DEF FlashOK, FlashPage
  <2>7. ASSUME NEW j \in Keys, NEW p \in Pages, NEW o \in Offsets
        PROVE  /\ Holds(p, o, j)' <=> Holds(p, o, j) \/ (j = k /\ p = g /\ o = w)
               /\ ~(Holds(p, o, j) /\ p = g /\ o = w)
               /\ Holds(p, o, j) => Content(p, o)' = Content(p, o)
               /\ Current(j, p, o) <=> Holds(p, o, j)
    <3>1. ~(Holds(p, o, j) /\ p = g /\ o = w)
      BY <2>6, BlankCell DEF Holds
    <3>2. Holds(p, o, j)' <=> Holds(p, o, j) \/ (j = k /\ p = g /\ o = w)
      BY <2>2, <2>6, <3>1 DEF Holds
    <3>3. Holds(p, o, j) => Content(p, o)' = Content(p, o)
      BY <2>6, <3>1 DEF Content
    <3>4. ~Stale(j, p, o)
      BY <2>3 DEF Stale, InRealign, Replacing
    <3>. QED
      BY <3>1, <3>2, <3>3, <3>4 DEF Current
  (* The old copy, if there is one, becomes stale: it was the only one. *)
  <2>8. ASSUME NEW p \in Pages, NEW o \in Offsets, Holds(p, o, k)
        PROVE  p = frame.loc.page /\ o = frame.loc.off
    <3>1. frame.loc.page # NoPage
      BY <1>2, <2>3, <2>8 DEF CallInv, OldKnown, Stored
    <3>2. PICK q \in Pages, r \in Offsets : q = frame.loc.page /\ r = frame.loc.off
      BY <2>3, <3>1 DEF CallInv, OldKnown, StoreInv, Places
    <3>3. Holds(q, r, k)
      BY <1>2, <2>3, <3>1, <3>2 DEF CallInv, OldKnown
    <3>. QED
      BY <2>7, <2>8, <3>2, <3>3 DEF CopiesInv, Unique
  <2>9. frame.loc.page = NoPage \/ \E p \in Pages, o \in Offsets :
          p = frame.loc.page /\ o = frame.loc.off /\ Holds(p, o, k)
    <3>1. SUFFICES ASSUME frame.loc.page # NoPage
                   PROVE  \E p \in Pages, o \in Offsets :
                            p = frame.loc.page /\ o = frame.loc.off /\ Holds(p, o, k)
      OBVIOUS
    <3>2. PICK q \in Pages, r \in Offsets : q = frame.loc.page /\ r = frame.loc.off
      BY <2>3, <3>1 DEF CallInv, OldKnown, StoreInv, Places
    <3>. QED
      BY <1>2, <2>3, <3>1, <3>2 DEF CallInv, OldKnown
  <2>10. ASSUME NEW j \in Keys, NEW p \in Pages, NEW o \in Offsets
         PROVE  Current(j, p, o)' <=> IF j = k THEN p = g /\ o = w ELSE Current(j, p, o)
    <3>1. Stale(j, p, o)' <=> j = k /\ p = frame.loc.page /\ o = frame.loc.off
      BY <1>2, <2>3 DEF Stale, InRealign, Replacing
    <3>2. ~(g = frame.loc.page /\ w = frame.loc.off)
      BY <1>1, <2>7, <2>9
    <3>. QED
      BY <2>7, <2>8, <3>1, <3>2 DEF Current
  <2>11. Unique'
    BY <2>10 DEF CopiesInv, Unique
  <2>12. Backed'
    <3>1. ASSUME NEW j \in Keys, NEW p \in Pages, NEW o \in Offsets, Holds(p, o, j)'
          PROVE  \E q \in Pages, r \in Offsets : Current(j, q, r)'
      BY <2>7, <2>10, <3>1
    <3>. QED
      BY <3>1 DEF Backed
  <2>13. Contents'
    <3>1. \A j \in Keys : Awaited(j)' = Awaited(j) /\ expect'[j] = expect[j]
      BY <2>3 DEF Awaited
    <3>2. Content(g, w)' = call.val /\ call.val \in Awaited(k)
      BY <1>1, <1>2, <2>2, <2>6 DEF Content, Awaited
    <3>3. ASSUME NEW j \in Keys, NEW p \in Pages, NEW o \in Offsets, Holds(p, o, j)'
          PROVE  Content(p, o)' \in Awaited(j)'
      <4>1. CASE Holds(p, o, j)
        BY <2>7, <3>1, <4>1 DEF CopiesInv, Contents
      <4>2. CASE ~Holds(p, o, j)
        BY <2>7, <3>1, <3>2, <3>3, <4>2
      <4>. QED
        BY <4>1, <4>2
    <3>4. \A j \in Keys : Stored(j) => Stored(j)'
      BY <2>7 DEF Stored
    <3>. QED
      BY <3>1, <3>3, <3>4 DEF CopiesInv, Contents
  <2>14. Fresh'
    <3>1. Current(k, g, w)' /\ Content(g, w)' = call'.val /\ k = call'.key
      BY <1>2, <2>2, <2>3, <2>6, <2>10 DEF Content
    <3>. QED
      BY <3>1 DEF Fresh
  <2>15. OldThere'
    <3>1. CASE frame.loc.page = NoPage
      BY <2>3, <3>1 DEF OldThere
    <3>2. CASE frame.loc.page # NoPage
      <4>1. PICK p \in Pages, o \in Offsets :
              p = frame.loc.page /\ o = frame.loc.off /\ Holds(p, o, k)
        BY <2>9, <3>2
      <4>2. Holds(p, o, k)' /\ frame'.loc.page = p /\ frame'.loc.off = o /\ call'.key = k
        BY <1>2, <2>3, <2>7, <4>1
      <4>3. Holds(frame.loc.page, frame.loc.off, call.key)'
        BY <4>2 DEF Holds
      <4>. QED
        BY <4>2, <4>3 DEF OldThere
    <3>. QED
      BY <3>1, <3>2
  <2>16. SearchSoFar' /\ OldKnown' /\ Course' /\ Truth' /\ Loaded'
    BY <1>1, <2>3, <2>4 DEF CallInv, SearchSoFar, Searching, OldKnown, Course, Truth, Loaded,
       NonePage
  <2>17. Appends
    <3>1. ASSUME NEW j \in Keys \ {k}, NEW v \in Vals \cup {NoVal}
          PROVE  HasValue(j, v)' <=> HasValue(j, v)
      <4>1. ASSUME NEW p \in Pages, NEW o \in Offsets
            PROVE  /\ Current(j, p, o)' <=> Current(j, p, o)
                   /\ Current(j, p, o) => Content(p, o)' = Content(p, o)
        <5>1. j # k /\ j \in Keys
          OBVIOUS
        <5>. QED
          BY <2>7, <2>10, <5>1
      <4>. QED
        BY <4>1 DEF HasValue
    <3>2. PICK v \in Vals \cup {NoVal} : v = call.val
      BY <1>1
    <3>3. HasValue(k, v)'
      BY <2>2, <2>6, <2>10, <3>2 DEF HasValue, Content
    <3>. QED
      BY <1>1, <1>2, <2>3, <3>1, <3>2, <3>3 DEF Appends
  <2>. QED
    BY <2>11, <2>12, <2>13, <2>14, <2>15, <2>16, <2>17 DEF CopiesInv, CallInv
<1>6. CASE AppendSeal
  <2>1. /\ pc = "AppendSeal" /\ pc' = "Wrote" /\ UpdateStatus(g, "FULL")
        /\ UNCHANGED <<frame, call, ret, expect>>
    BY <1>3, <1>6 DEF AppendSeal, Goto
  <2>2. SameCells /\ Status(g)' = "FULL" /\ \A q \in Pages \ {g} : Status(q)' = Status(q)
    BY <1>1, <2>1, MarkedStep
  <2>3. SameLive
    BY <2>2, SameCellsLive
  <2>4. CopiesInv' /\ SameValues
    <3>1. \A j \in Keys, p \in Pages, o \in Offsets : Stale(j, p, o)' <=> Stale(j, p, o)
      BY <2>1 DEF Stale, InRealign, Replacing
    <3>2. Written
      BY <2>1 DEF Written, Replacing
    <3>. QED
      BY <1>2, <2>1, <2>3, <3>1, <3>2, CopiesSame, SameAwaited
  <2>5. OldThere'
    BY <1>2, <2>1, <2>3, OldThereKept DEF CallInv, Replacing
  <2>6. \A p \in Pages : Status(p)' # "UNAVAILABLE"
    BY <1>1, <2>2
  <2>7. SearchSoFar' /\ OldKnown' /\ Course' /\ Truth' /\ Loaded'
    BY <1>1, <2>1, <2>6 DEF CallInv, SearchSoFar, Searching, OldKnown, Course, Truth, Loaded,
       NonePage
  <2>. QED
    BY <2>1, <2>4, <2>5, <2>7 DEF CallInv
<1>7. CASE WriteDeletesOld
  <2>1. /\ pc = "Wrote" /\ UNCHANGED <<flash, call, ret, expect>> /\ ctx'.page = ctx.page
        /\ IF frame.loc.page = NoPage
             THEN pc' = "Done" /\ UNCHANGED frame
             ELSE pc' = "Del" /\ frame' = [frame EXCEPT !.del = frame.loc, !.back = "Done"]
    BY <1>1, <1>7 DEF WriteDeletesOld, Goto, CtxOK, Ctx
  <2>2. /\ frame'.loc = frame.loc
        /\ pc' = "Del" => frame'.del = frame.loc /\ frame'.back = "Done"
    BY <1>1, <2>1 DEF Frame
  <2>3. CopiesInv' /\ SameValues
    <3>1. \A j \in Keys, p \in Pages, o \in Offsets : Stale(j, p, o)' <=> Stale(j, p, o)
      BY <1>1, <2>1, <2>2 DEF Stale, InRealign, Replacing
    <3>2. Written
      BY <2>1 DEF Written, Replacing
    <3>. QED
      BY <1>2, <2>1, <3>1, <3>2, CopiesSame, SameAwaited, SameFlashLive
  <2>4. OldThere'
    BY <1>2, <2>1, <2>2, SameFlashLive, OldThereKept DEF CallInv, Replacing
  <2>5. \A p \in Pages : Status(p)' # "UNAVAILABLE"
    BY <1>1, <2>1 DEF Status
  <2>6. SearchSoFar' /\ OldKnown' /\ Course' /\ Truth' /\ Loaded'
    BY <1>1, <2>1, <2>2, <2>5 DEF CallInv, SearchSoFar, Searching, OldKnown, Course, Truth,
       Loaded, NonePage
  <2>. QED
    BY <2>1, <2>3, <2>4, <2>6 DEF CallInv
<1>8. CASE WriteReturns
  <2>1. /\ pc = "Done" /\ pc' = "Idle" /\ UNCHANGED <<flash, ctx>> /\ call' = NoCall
        /\ ret'.kind = "ok" /\ expect' = [expect EXCEPT ![k] = {call.val}]
    BY <1>2, <1>8 DEF WriteReturns, Return
  <2>2. PICK v \in Vals \cup {NoVal} : v = call.val
    BY <1>1
  <2>3. \A j \in Keys, p \in Pages, o \in Offsets : ~Stale(j, p, o) /\ ~Stale(j, p, o)'
    BY <2>1 DEF Stale, InRealign, Replacing
  <2>4. PICK q \in Pages, r \in Offsets : Holds(q, r, k) /\ Content(q, r) = v
    BY <1>2, <2>1, <2>2 DEF CopiesInv, Fresh, Written, Current
  <2>5. \A p \in Pages, o \in Offsets : Holds(p, o, k) => p = q /\ o = r
    BY <2>3, <2>4 DEF CopiesInv, Unique, Current
  <2>6. Stored(k) /\ \A p \in Pages, o \in Offsets : Holds(p, o, k) => Content(p, o) = v
    BY <2>4, <2>5 DEF Stored
  <2>7. CopiesInv' /\ SameValues
    <3>1. ~Written' /\ call'.op = "none" /\ expect' = [expect EXCEPT ![k] = {v}]
      BY <2>1, <2>2 DEF Written, Replacing, NoCall
    <3>. QED
      BY <1>2, <2>1, <2>3, <2>6, <3>1, NarrowCopies DEF IInv
  <2>8. Truth'
    BY <2>1 DEF Truth
  <2>9. HasValue(k, call.val)
    BY <2>2, <2>3, <2>4 DEF HasValue, Current
  <2>. QED
    BY <1>2, <1>8, <2>1, <2>7, <2>8, <2>9, IdleCall DEF CallInv
<1>. QED
  BY <1>4, <1>5, <1>6, <1>7, <1>8 DEF Write

LEMMA CopiesStep ==
  ASSUME OnlyResets, IInv, StoreInv, CopiesInv, CallInv, NoMishap, ~BootIncomplete', [Next]_vars
  PROVE  CopiesInv' /\ CallInv'
<1>1. CASE UNCHANGED vars
  <2>1. CopiesInv'
    BY <1>1 DEF vars, CopiesInv, Unique, Backed, Contents, Fresh, Current, Holds, Stale,
       Content, InRealign, Replacing, Written, Awaited, Stored
  <2>2. SearchSoFar' /\ OldKnown' /\ OldThere'
    BY <1>1 DEF vars, CallInv, SearchSoFar, Searching, NotFound, FoundOne, Seen, Behind,
       OldKnown, OldThere, Holds, Content, Stored, Replacing
  <2>3. Course' /\ Truth' /\ Loaded'
    BY <1>1 DEF vars, CallInv, Course, Searching, Truth, Loaded, NonePage, Status
  <2>. QED
    BY <2>1, <2>2, <2>3 DEF CallInv
<1>2. CASE Boot
  BY <1>2, BootCopies
<1>3. CASE Find
  BY <1>3, FindCopies
<1>4. CASE Delete
  BY <1>4, DeleteCopies
<1>5. CASE GetPage
  BY <1>5, GetPageCopies
<1>6. CASE Realign
  BY <1>6, RealignCopies
<1>7. CASE Write
  BY <1>7, WriteCopies
<1>8. CASE Calls
  BY <1>8, BeginCopies
<1>9. CASE Reset
  BY <1>9, ResetCopies
<1>10. CASE PowerLoss \/ TornWrite \/ TornErase \/ Decay
  BY <1>10 DEF OnlyResets, PowerLoss, TornWrite, TornErase, Decay, Fault
<1>. QED
  BY <1>1, <1>2, <1>3, <1>4, <1>5, <1>6, <1>7, <1>8, <1>9, <1>10 DEF Next, Step

THEOREM CopiesInvariance ==
  ASSUME OnlyResets
  PROVE  Spec /\ []NoMishap => [](IInv /\ StoreInv /\ CopiesInv /\ CallInv)
<1>1. Init => IInv /\ StoreInv /\ CopiesInv /\ CallInv
  BY InitInv, StoreInit, InitCopies
<1>2. CalmFaults
  BY DEF OnlyResets, CalmFaults
<1>3. IInv /\ StoreInv /\ CopiesInv /\ CallInv /\ NoMishap /\ NoMishap' /\ [Next]_vars =>
        IInv' /\ StoreInv' /\ CopiesInv' /\ CallInv'
  BY <1>2, NextInv, StoreStep, CopiesStep DEF NoMishap
<1>. QED
  BY <1>1, <1>3, PTL DEF Spec

(* When no call is running every item has at most one copy. *)
THEOREM NoItemTwice ==
  ASSUME OnlyResets
  PROVE  Spec /\ []NoMishap => []NoDuplicates
<1>1. ASSUME CopiesInv PROVE NoDuplicates
  <2>1. SUFFICES ASSUME pc = "Idle", NEW k \in Keys PROVE Cardinality(Copies(k)) <= 1
    BY DEF NoDuplicates
  <2>2. ASSUME NEW c \in Copies(k), NEW d \in Copies(k) PROVE c = d
    <3>1. PICK p \in Pages, o \in Offsets : c = <<p, o>> /\ Holds(p, o, k)
      BY DEF Copies, At, Holds
    <3>2. PICK q \in Pages, r \in Offsets : d = <<q, r>> /\ Holds(q, r, k)
      BY DEF Copies, At, Holds
    <3>3. ~Stale(k, p, o) /\ ~Stale(k, q, r)
      BY <2>1 DEF Stale, InRealign, Replacing
    <3>4. p = q /\ o = r
      BY <1>1, <3>1, <3>2, <3>3 DEF CopiesInv, Unique, Current
    <3>. QED
      BY <3>1, <3>2, <3>4
  <2>3. CASE Copies(k) = {}
    BY <2>3, FS_EmptySet
  <2>4. CASE Copies(k) # {}
    <3>1. PICK c : Copies(k) = {c}
      BY <2>2, <2>4
    <3>2. Cardinality({c}) = 1
      BY FS_Singleton
    <3>. QED
      BY <3>1, <3>2
  <2>. QED
    BY <2>3, <2>4
<1>. QED
  BY <1>1, CopiesInvariance, PTL

(* At every moment flash holds a copy of every item that was ever stored,  *)
(* with the content last acknowledged or the one being written.            *)
THEOREM ItemsStay ==
  ASSUME OnlyResets
  PROVE  Spec /\ []NoMishap => []AlwaysRecoverable
<1>1. ASSUME CopiesInv PROVE AlwaysRecoverable
  <2>1. SUFFICES ASSUME NEW k \in Keys, NoVal \notin expect[k]
                 PROVE  \E c \in Copies(k) :
                          \/ At(c).val \in expect[k]
                          \/ call.op = "write" /\ call.key = k /\ At(c).val = call.val
    BY DEF AlwaysRecoverable
  <2>2. PICK p \in Pages, o \in Offsets : Holds(p, o, k)
    BY <1>1, <2>1 DEF CopiesInv, Contents, Stored
  <2>3. Content(p, o) \in Awaited(k)
    BY <1>1, <2>2 DEF CopiesInv, Contents
  <2>4. <<p, o>> \in Copies(k) /\ At(<<p, o>>).val = Content(p, o)
    BY <2>2 DEF Copies, At, Holds, Content
  <2>. QED
    BY <2>3, <2>4 DEF Awaited
<1>. QED
  BY <1>1, CopiesInvariance, PTL

(* A read returns what was last written, and nothing outdated. *)
THEOREM ReadsAreTrue ==
  ASSUME OnlyResets
  PROVE  Spec /\ []NoMishap => []ReadsReturnWritten /\ []ReadsNeverStale
<1>1. CallInv => ReadsReturnWritten /\ ReadsNeverStale
  BY DEF CallInv, Truth, ReadsReturnWritten, ReadsNeverStale
<1>. QED
  BY <1>1, CopiesInvariance, PTL

(* Reading an item deletes no copy of it. *)
THEOREM ReadsDeleteNothing ==
  ASSUME OnlyResets
  PROVE  Spec /\ []NoMishap => ReadKeepsData
<1>. DEFINE Kept == \A k \in Keys : (call.op = "read" /\ Copies(k) # {}) => Copies(k)' # {}
<1>1. ASSUME IInv, StoreInv, CopiesInv, CallInv, [Next]_vars
      PROVE  [Kept]_vars
  <2>1. SUFFICES ASSUME Next, call.op = "read" PROVE UNCHANGED flash
    BY <1>1 DEF Copies, At
  <2>2. pc \in {"Page", "Find", "Hit", "Next", "Found"}
    BY <1>1, <2>1 DEF CallInv, Course, Searching
  <2>3. CASE Find
    <3>1. CASE ReadReturns
      BY <3>1 DEF ReadReturns
    <3>2. CASE ~ReadReturns
      BY <1>1, <2>3, <3>2, SearchStep
    <3>. QED
      BY <3>1, <3>2
  <2>4. CASE Boot
    BY <2>2, <2>4 DEF Boot, LoadErased, LoadUnknown, LoadInUse, ScanItem, ScanCorrupt,
       ScanAbort, ScanEnd
  <2>5. CASE Delete
    BY <2>2, <2>5 DEF Delete, DelNothing, DelMismatch, DelMark, DelErase
  <2>6. CASE GetPage
    BY <2>1, <2>2, <2>6 DEF GetPage, UseCandidate, SealCandidate, TakePage, NoCandidate,
       RecheckFails, RecheckRoom, RecheckSeal, TakeFails, Choosing
  <2>7. CASE Realign
    BY <2>1, <2>2, <2>7 DEF Realign, RealignNone, RealignFull, RealignStart, RealignSkip,
       RealignCorrupt, RealignTake, RealignFails, RealignCopy, CopySeal, RealignEnd, Crowded,
       Choosing, Moving, CanCopy
  <2>8. CASE Write
    BY <2>2, <2>8 DEF Write, AppendRefused, AppendItem, CanAppend, AppendSeal,
       WriteDeletesOld, WriteReturns
  <2>9. CASE Calls \/ Reset \/ PowerLoss
    BY <2>9 DEF Calls, st_read_item, st_write_item, Begin, Reset, PowerLoss
  <2>10. CASE TornWrite \/ TornErase \/ Decay
    BY <2>10 DEF OnlyResets, TornWrite, TornErase, Decay, Fault
  <2>. QED
    BY <2>1, <2>3, <2>4, <2>5, <2>6, <2>7, <2>8, <2>9, <2>10 DEF Next, Step
<1>2. ReadKeepsData <=> [][Kept]_vars
  BY DEF ReadKeepsData
<1>3. Spec /\ []NoMishap => [][Kept]_vars
  <2>. HIDE DEF Kept
  <2>. QED
    BY <1>1, CopiesInvariance, PTL DEF Spec
<1>. QED
  BY <1>2, <1>3

------------------------------------------------------------------------------
(* The store implements the map of KVStore. *)

(* The content of an item is that of its one current copy. *)
ValueIsCurrent ==
  \A k \in Keys :
    /\ Value(k) \in Vals \cup {NoVal}
    /\ \A v \in Vals \cup {NoVal} :
         Value(k) = v <=>
           HasValue(k, v) \/ (v = NoVal /\ \A w \in Vals \cup {NoVal} : ~HasValue(k, w))

LEMMA CurrentValue == FlashOK /\ Unique => ValueIsCurrent
<1>. SUFFICES ASSUME FlashOK, Unique, NEW k \in Keys
              PROVE  /\ Value(k) \in Vals \cup {NoVal}
                     /\ \A v \in Vals \cup {NoVal} : Value(k) = v <=>
                          HasValue(k, v) \/ (v = NoVal /\ \A w \in Vals \cup {NoVal} : ~HasValue(k, w))
  BY DEF ValueIsCurrent
<1>1. \A p \in Pages, o \in Offsets :
        Current(k, p, o) <=> <<p, o>> \in CurrentCopies(k)
  BY DEF Current, Holds, CurrentCopies, Copies, At
<1>2. CASE CurrentCopies(k) = {}
  <2>1. Value(k) = NoVal /\ \A w : ~HasValue(k, w)
    BY <1>1, <1>2 DEF Value, HasValue
  <2>. QED
    BY <2>1
<1>3. CASE CurrentCopies(k) # {}
  <2>1. PICK c \in CurrentCopies(k) : Value(k) = At(c).val
    BY <1>3 DEF Value
  <2>2. PICK p \in Pages, o \in Offsets : c = <<p, o>>
    BY DEF CurrentCopies, Copies
  <2>3. Current(k, p, o) /\ Value(k) = Content(p, o)
    BY <1>1, <2>1, <2>2 DEF At, Content
  <2>4. Content(p, o) \in Vals \cup {NoVal}
    BY DEF FlashOK, FlashPage, Cell, Content
  <2>5. \A v : HasValue(k, v) <=> v = Content(p, o)
    BY <2>3 DEF HasValue, Unique
  <2>. QED
    BY <2>3, <2>4, <2>5
<1>. QED
  BY <1>2, <1>3

LEMMA SameDict ==
  ASSUME ValueIsCurrent, ValueIsCurrent', SameValues, NEW k \in Keys
  PROVE  Value(k)' = Value(k)
<1>1. PICK v \in Vals \cup {NoVal} : v = Value(k)
  BY DEF ValueIsCurrent
<1>2. HasValue(k, v) \/ (v = NoVal /\ \A w \in Vals \cup {NoVal} : ~HasValue(k, w))
  BY <1>1 DEF ValueIsCurrent
<1>3. \A w \in Vals \cup {NoVal} : HasValue(k, w)' <=> HasValue(k, w)
  BY DEF SameValues
<1>4. Value(k)' = v
  BY <1>2, <1>3 DEF ValueIsCurrent
<1>. QED
  BY <1>1, <1>4

LEMMA KVInitial == Init => KV!KVInit
<1>. SUFFICES ASSUME Init PROVE KV!KVInit
  OBVIOUS
<1>1. \A p \in Pages, o \in Offsets : flash[p].cell[o].kind # "live"
  BY DEF Init, BlankPage, Blank
<1>2. \A k \in Keys : CurrentCopies(k) = {}
  BY <1>1 DEF CurrentCopies, Copies, At
<1>3. \A k \in Keys : Value(k) = NoVal
  BY <1>2 DEF Value
<1>. QED
  BY <1>3 DEF Init, NoCall, NoRet, KV!KVInit, KV!NoCall, KV!NoRet

(* Every step of the store is one of KVStore, or changes nothing there. *)
LEMMA KVStep ==
  ASSUME Faults = {}, IInv, StoreInv, CopiesInv, CallInv, ValueIsCurrent, ValueIsCurrent',
         NoMishap, NoMishap', CallsSucceed', [Next]_vars
  PROVE  [KV!KVNext]_<<[k \in Keys |-> Value(k)], call, ret>>
<1>0. OnlyResets /\ ~Fails
  BY DEF OnlyResets, CallsSucceed, Fails
<1>1. SameValues => [k \in Keys |-> Value(k)]' = [k \in Keys |-> Value(k)]
  BY SameDict
<1>2. CASE UNCHANGED vars
  BY <1>1, <1>2 DEF vars, SameValues, HasValue, Current, Holds, Stale, InRealign, Replacing,
     Content
<1>3. CASE Boot
  BY <1>0, <1>1, <1>3, BootCopies DEF NoMishap
<1>4. CASE Delete
  BY <1>0, <1>1, <1>4, DeleteCopies
<1>5. CASE GetPage
  BY <1>0, <1>1, <1>5, GetPageCopies
<1>6. CASE Realign
  BY <1>0, <1>1, <1>6, RealignCopies
<1>7. CASE Find /\ ~ReadReturns
  <2>1. SameValues
    BY <1>0, <1>7, FindCopies
  <2>2. UNCHANGED <<call, ret>>
    BY <1>0, <1>7, SearchStep
  <2>. QED
    BY <1>1, <2>1, <2>2
<1>8. CASE ReadReturns
  <2>1. SameValues
    BY <1>0, <1>8, FindCopies DEF Find
  <2>2. PICK k \in Keys : k = call.key
    BY <1>8 DEF ReadReturns, IInv, Control, CallControl
  <2>3. /\ call.op = "read" /\ call' = NoCall
        /\ ret' = [kind |-> "value", key |-> k,
                   val |-> IF frame.cnt = 0 THEN NoVal ELSE frame.val]
    BY <1>8, <2>2 DEF ReadReturns, Return
  <2>4. Value(k) = IF frame.cnt = 0 THEN NoVal ELSE frame.val
    <3>1. \A p \in Pages, o \in Offsets : Current(k, p, o) <=> Holds(p, o, k)
      BY <1>8 DEF ReadReturns, Current, Stale, InRealign, Replacing
    <3>2. CASE frame.loc.page = NoPage
      <4>1. frame.cnt = 0 /\ ~Stored(k)
        BY <1>8, <2>2, <3>2 DEF ReadReturns, CallInv, OldKnown
      <4>2. \A w : ~HasValue(k, w)
        BY <3>1, <4>1 DEF Stored, HasValue
      <4>. QED
        BY <4>1, <4>2 DEF ValueIsCurrent
    <3>3. CASE frame.loc.page # NoPage
      <4>1. PICK p \in Pages, o \in Offsets : p = frame.loc.page /\ o = frame.loc.off
        BY <1>8, <3>3 DEF ReadReturns, CallInv, OldKnown, StoreInv, Places
      <4>2. Holds(p, o, k) /\ frame.cnt = 1 /\ frame.val = Content(p, o)
        BY <1>8, <2>2, <3>3, <4>1 DEF ReadReturns, CallInv, OldKnown
      <4>3. HasValue(k, frame.val) /\ frame.val \in Vals \cup {NoVal}
        BY <3>1, <4>1, <4>2 DEF HasValue, IInv, RestOK, Frame
      <4>. QED
        BY <4>2, <4>3 DEF ValueIsCurrent
    <3>. QED
      BY <3>2, <3>3
  <2>5. KV!Answer
    BY <1>1, <2>1, <2>2, <2>3, <2>4 DEF KV!Answer, KV!NoCall, NoCall
  <2>. QED
    BY <2>5 DEF KV!KVNext
<1>9. CASE Write
  <2>1. CASE SameValues /\ UNCHANGED <<call, ret>>
    BY <1>1, <2>1
  <2>2. CASE Appends
    <3>1. PICK k \in Keys, v \in Vals \cup {NoVal} :
            /\ k = call.key /\ v = call.val /\ call.op = "write" /\ UNCHANGED <<call, ret>>
            /\ HasValue(k, v)'
            /\ \A j \in Keys \ {k}, w \in Vals \cup {NoVal} : HasValue(j, w)' <=> HasValue(j, w)
      BY <2>2 DEF Appends
    <3>2. Value(k)' = v
      BY <3>1 DEF ValueIsCurrent
    <3>3. ASSUME NEW j \in Keys \ {k} PROVE Value(j)' = Value(j)
      <4>1. PICK w \in Vals \cup {NoVal} : w = Value(j)
        BY DEF ValueIsCurrent
      <4>2. HasValue(j, w) \/ (w = NoVal /\ \A x \in Vals \cup {NoVal} : ~HasValue(j, x))
        BY <4>1 DEF ValueIsCurrent
      <4>3. Value(j)' = w
        BY <3>1, <4>2 DEF ValueIsCurrent
      <4>. QED
        BY <4>1, <4>3
    <3>4. KV!TakeEffect
      BY <3>1, <3>2, <3>3 DEF KV!TakeEffect
    <3>. QED
      BY <3>4 DEF KV!KVNext
  <2>3. CASE SameValues /\ WriteReturns /\ HasValue(call.key, call.val)
    <3>1. PICK k \in Keys : k = call.key
      BY <2>3 DEF WriteReturns, IInv, Control, CallControl
    <3>2. call.val \in Vals \cup {NoVal} /\ call.op \in {"none", "read", "write"}
      BY DEF IInv, RestOK, Call
    <3>3. Value(k) = call.val
      BY <2>3, <3>1, <3>2 DEF ValueIsCurrent
    <3>4. call.op = "write"
      BY <2>3, <3>2 DEF WriteReturns, CallInv, Course, Searching
    <3>5. KV!Succeed
      BY <1>1, <2>3, <3>1, <3>3, <3>4 DEF WriteReturns, Return, KV!Succeed, KV!NoCall, NoCall
    <3>. QED
      BY <3>5 DEF KV!KVNext
  <2>. QED
    BY <1>0, <1>9, <2>1, <2>2, <2>3, WriteCopies
<1>10. CASE Calls
  <2>1. SameValues
    BY <1>10, BeginCopies
  <2>2. pc = "Idle" /\ ret' = NoRet
    BY <1>10 DEF Calls, st_read_item, st_write_item, Begin
  <2>3. call = NoCall
    BY <2>2 DEF CallInv, Course
  <2>4. \E k \in Keys : \/ call' = [op |-> "read", key |-> k, val |-> NoVal]
                        \/ \E v \in Vals : call' = [op |-> "write", key |-> k, val |-> v]
    BY <1>10 DEF Calls, st_read_item, st_write_item, Begin
  <2>5. KV!Invoke
    BY <1>1, <2>1, <2>2, <2>3, <2>4 DEF KV!Invoke, KV!NoCall, KV!NoRet, NoCall, NoRet
  <2>. QED
    BY <2>5 DEF KV!KVNext
<1>11. CASE Reset \/ PowerLoss \/ TornWrite \/ TornErase \/ Decay
  BY <1>11 DEF Reset, PowerLoss, TornWrite, TornErase, Decay, Fault
<1>. QED
  BY <1>2, <1>3, <1>4, <1>5, <1>6, <1>7, <1>8, <1>9, <1>10, <1>11 DEF Next, Step, Find

(* Without faults, and as long as no call fails, a write takes effect at   *)
(* one instant and a read returns what the map holds, whatever pages are   *)
(* filled, realigned and erased meanwhile.                                 *)
THEOREM StoreImplementsKV ==
  ASSUME Faults = {}
  PROVE  Spec /\ []NoMishap /\ []CallsSucceed => ImplementsKV
<1>1. OnlyResets
  BY DEF OnlyResets
<1>2. Spec /\ []NoMishap => [](IInv /\ StoreInv /\ CopiesInv /\ CallInv)
  BY <1>1, CopiesInvariance
<1>3. IInv /\ CopiesInv => ValueIsCurrent
  BY CurrentValue DEF IInv, DataInv, CopiesInv
<1>4. ASSUME IInv, StoreInv, CopiesInv, CallInv, ValueIsCurrent, ValueIsCurrent',
             NoMishap, NoMishap', CallsSucceed', [Next]_vars
      PROVE  [KV!KVNext]_<<[k \in Keys |-> Value(k)], call, ret>>
  BY <1>4, KVStep
<1>. QED
  BY <1>2, <1>3, <1>4, KVInitial, PTL DEF Spec, ImplementsKV, KV!KVSpec

------------------------------------------------------------------------------
(* A store with room enough (Roomy), one updated item and no faults meets  *)
(* none of the mishaps, and no call of it fails.                           *)

RoomyStore(load, fill) == Faults = {} /\ ZeroCrc = {} /\ Roomy(load, fill)

KeysOn(p) == {k \in Keys : \E o \in Offsets : Holds(p, o, k)}
HasDead(p) == \E o \in Offsets : flash[p].cell[o].kind = "dead"

(* Without a restart the page in page_active is the one ACTIVE page. *)
OneActive ==
  /\ \A p \in Pages : Status(p) = "ACTIVE" => p = ctx.active
  /\ ctx.active \in Pages => Status(ctx.active) = "ACTIVE"

(* The boot finds blank pages. *)
BootBlank ==
  /\ pc # "Scan"
  /\ pc = "Boot" => /\ flash = [p \in Pages |-> BlankPage]
                    /\ \A p \in Pages : p < frame.pg => Status(p) = "ERASED"

(* What lies on a page is one of the fills, and as long as nothing on it   *)
(* was deleted, or replaced, one of the loads.                             *)
Levels(fill) == \A p \in Pages : InUse(p) => <<KeysOn(p) \ Updated, Used(p)>> \in fill
OldHere(p) == Replacing /\ p = frame.loc.page
Loads(load) ==
  \A p \in Pages : InUse(p) => HasDead(p) \/ OldHere(p) \/ <<KeysOn(p), Used(p)>> \in load

(* A page in use has a live item, unless it is about to be erased or to    *)
(* get its first one.                                                      *)
Expected == pc = "Append" \/ (Moving /\ Movable)
Tenanted ==
  \A p \in Pages : InUse(p) =>
    IF Used(p) > 0 THEN ctx.page[p].cnt > 0 \/ (pc = "DelErase" /\ p = frame.del.page)
    ELSE p = ctx.active /\ Expected

(* The ACTIVE page has a deleted item only if it holds the updated one. *)
UpdatedHere ==
  \A p \in Pages : Status(p) = "ACTIVE" /\ HasDead(p) => KeysOn(p) \cap Updated # {}

(* While a write deletes the old copy, the new one is where it was put,    *)
(* and the item is the updated one.                                        *)
NewThere ==
  Replacing =>
    /\ \E r \in Offsets : /\ Holds(frame.pg, r, call.key)
                          /\ frame.pg # frame.loc.page \/ r # frame.loc.off
    /\ pc # "AppendSeal" => \A p \in Pages : Status(p) = "ACTIVE" => p = frame.pg
    /\ frame.loc.page # NoPage => call.key \in Updated

(* A write that runs was allowed; an item that may be read as missing is   *)
(* missing, or is just being written for the first time.                   *)
Writing == call.op = "write" => call.val \in Vals /\ MayWrite(call.key)
Known == \A k \in Keys : NoVal \in expect[k] /\ Stored(k) => Written /\ k = call.key

(* Each part of a write finds the page it needs. *)
Placing ==
  /\ pc # "CopySeal" /\ ret.kind # "err"
  /\ pc = "Realign" => ctx.active \in Pages /\ frame.loc.page # frame.victim
  /\ pc = "Recheck" => ctx.active \in Pages
  /\ pc \in {"Take", "RealignTake"} => ctx.active = NoPage
  /\ pc = "RealignTake" =>
       /\ Status(frame.pg) = "ERASED" /\ frame.loc.page # frame.victim
       /\ frame.off < Used(frame.victim) /\ Movable
  /\ pc = "Append" => Storable(frame.pg, Need)

Core == IInv /\ StoreInv /\ CopiesInv /\ CallInv
PageRoom(load, fill) == OneActive /\ Levels(fill) /\ Loads(load) /\ Tenanted /\ UpdatedHere
CallRoom == BootBlank /\ NewThere /\ Writing /\ Known /\ Placing
RoomInv(load, fill) == PageRoom(load, fill) /\ CallRoom

LEMMA RoomyFacts ==
  ASSUME NEW load, NEW fill, RoomyStore(load, fill)
  PROVE  OnlyResets /\ CalmFaults /\ Faults = {} /\ ZeroCrc = {} /\ "decay" \notin Faults
BY DEF RoomyStore, OnlyResets, CalmFaults

LEMMA LoadNext ==
  ASSUME NEW load, LoadFits(load), NEW K, NEW n, <<K, n>> \in load, NEW k \in Keys, k \notin K
  PROVE  /\ <<K \cup {k}, n + Size(k)>> \in load
         /\ BytesLeft(n + Size(k)) >= ItemHeaderSize
<1>1. <<K \cup {k}, n + Size(k)>> \in load
  BY DEF LoadFits
<1>. QED
  BY <1>1 DEF LoadFits

LEMMA FillNext ==
  ASSUME NEW fill, FillFits(fill), NEW S, NEW n, <<S, n>> \in fill, NEW k \in Keys, k \notin S,
         Size(k) <= BytesLeft(n)
  PROVE  LET T == S \cup ({k} \ Updated) IN
         /\ <<T, n + Size(k)>> \in fill /\ BytesLeft(n + Size(k)) # 0
         /\ T # {} => BytesLeft(n + Size(k)) >= ItemHeaderSize
<1>. DEFINE T == S \cup ({k} \ Updated)
<1>1. <<T, n + Size(k)>> \in fill
  BY DEF FillFits
<1>2. BytesLeft(n + Size(k)) # 0 /\ (T # {} => BytesLeft(n + Size(k)) >= ItemHeaderSize)
  BY <1>1 DEF FillFits
<1>. QED
  BY <1>1, <1>2

(* Any item fits a page that has been erased. *)
LEMMA FreshFits ==
  ASSUME NEW load, LoadFits(load), NEW k \in Keys
  PROVE  BytesLeft(Size(k)) >= ItemHeaderSize
<1>1. <<{}, 0>> \in load
  BY DEF LoadFits
<1>2. \A K, n : <<K, n>> \in load /\ k \notin K => BytesLeft(n + Size(k)) >= ItemHeaderSize
  BY LoadNext
<1>3. BytesLeft(0 + Size(k)) >= ItemHeaderSize
  BY <1>1, <1>2
<1>. QED
  BY <1>3, SizeType

LEMMA UpdatedOne ==
  ASSUME NEW load, NEW fill, Roomy(load, fill), NEW j \in Updated, NEW k \in Updated
  PROVE  j = k
BY DEF Roomy

(* What HasRoom and Storable say of a page in use, in terms of bytes left. *)
LEMMA RoomLeft ==
  ASSUME IInv, NEW p \in Pages, NEW k \in Keys
  PROVE  /\ Used(p) \in Nat
         /\ HasRoom(p, Size(k)) <=> Status(p) = "ACTIVE" /\ Size(k) <= BytesLeft(Used(p))
         /\ Storable(p, Size(k)) <=> Size(k) < BytesLeft(Used(p))
<1>1. Used(p) \in Nat /\ Size(k) \in Nat /\ Size(k) > 0 /\ p # NoPage
  BY SizeType, PagesFacts DEF IInv, DataInv, CtxOK, Ctx, RamPage, Used, ItemHeaderSize
<1>2. PageSize \in Nat
  BY PagesAssumption
<1>3. HasRoom(p, Size(k)) <=> Status(p) = "ACTIVE" /\ Size(k) <= BytesLeft(Used(p))
  BY <1>1, <1>2 DEF HasRoom, Free, BytesLeft
<1>4. Storable(p, Size(k)) <=> Size(k) < BytesLeft(Used(p))
  BY <1>1, <1>2 DEF Storable, Accessible, BytesLeft, PageHeaderSize
<1>. QED
  BY <1>1, <1>3, <1>4

(* An item that a page can take fits it exactly in no case. *)
LEMMA NoExactFit ==
  ASSUME NEW fill, FillFits(fill), IInv, Levels(fill), NEW p \in Pages, NEW k \in Keys,
         k \in Updated \/ k \notin KeysOn(p), HasRoom(p, Size(k))
  PROVE  LET T == (KeysOn(p) \ Updated) \cup ({k} \ Updated) IN
         /\ Status(p) = "ACTIVE" /\ Storable(p, Size(k))
         /\ <<T, Used(p) + Size(k)>> \in fill
         /\ T # {} => BytesLeft(Used(p) + Size(k)) >= ItemHeaderSize
<1>. DEFINE S == KeysOn(p) \ Updated
            T == S \cup ({k} \ Updated)
<1>1. Status(p) = "ACTIVE" /\ Size(k) <= BytesLeft(Used(p)) /\ Used(p) \in Nat /\ Size(k) \in Nat
  BY RoomLeft, SizeType
<1>2. <<S, Used(p)>> \in fill /\ k \notin S
  BY <1>1 DEF Levels, InUse
<1>. HIDE DEF S
<1>3. /\ <<T, Used(p) + Size(k)>> \in fill /\ BytesLeft(Used(p) + Size(k)) # 0
      /\ T # {} => BytesLeft(Used(p) + Size(k)) >= ItemHeaderSize
  BY <1>1, <1>2, FillNext
<1>4. Size(k) < BytesLeft(Used(p))
  BY <1>1, <1>3, PagesAssumption DEF BytesLeft, PageHeaderSize
<1>. QED
  BY <1>1, <1>3, <1>4, RoomLeft DEF S

(* There is a page without a current copy: there are more pages than keys. *)
LEMMA SparePage ==
  ASSUME NEW load, NEW fill, Roomy(load, fill), Unique
  PROVE  \E p \in Pages : \A k \in Keys, o \in Offsets : ~Current(k, p, o)
<1>1. SUFFICES ASSUME \A p \in Pages : \E k \in Keys : \E o \in Offsets : Current(k, p, o)
               PROVE  FALSE
  OBVIOUS
<1>. DEFINE f == [p \in Pages |-> CHOOSE k \in Keys : \E o \in Offsets : Current(k, p, o)]
<1>2. \A p \in Pages : f[p] \in Keys /\ \E o \in Offsets : Current(f[p], p, o)
  BY <1>1
<1>3. f \in [Pages -> Keys]
  BY <1>2
<1>. HIDE DEF f
<1>4. IsFiniteSet(Pages) /\ Cardinality(Pages) = PageMax
  <2>1. Pages = 0..(PageMax - 1) /\ PageMax \in Nat \ {0}
    BY PagesFacts
  <2>2. IsFiniteSet(0..(PageMax - 1)) /\ Cardinality(0..(PageMax - 1)) = PageMax
    BY <2>1, FS_Interval
  <2>. QED
    BY <2>1, <2>2
<1>5. IsFiniteSet(Keys) /\ Cardinality(Keys) < Cardinality(Pages)
  BY <1>4 DEF Roomy
<1>6. PICK p, q \in Pages : p # q /\ f[p] = f[q]
  BY <1>3, <1>4, <1>5, FS_PigeonHole
<1>7. PICK k \in Keys : k = f[p] /\ k = f[q]
  BY <1>2, <1>6
<1>. QED
  BY <1>2, <1>6, <1>7 DEF Unique

(* A page whose counter is not zero holds an item. *)
LEMMA LiveTenant ==
  ASSUME OnlyResets, FlashOK, CtxOK, Layout, pc # "Scan", NEW p \in Pages,
         Status(p) # "UNAVAILABLE", ctx.page[p].cnt > 0
  PROVE  \E k \in Keys, o \in Offsets : Holds(p, o, k)
<1>. DEFINE I == Items(flash[p].cell, ctx.page[p].used)
<1>1. PageOK(flash[p], ctx.page[p], TRUE)
  BY LayoutWhole
<1>2. ctx.page[p].cnt = Cardinality(I)
  BY <1>1 DEF PageOK, Counts, Status, OnlyResets
<1>3. I # {}
  BY <1>2, FS_EmptySet
<1>4. PICK o \in Offsets : flash[p].cell[o].key # NoKey
  BY <1>3 DEF Items
<1>5. flash[p].cell[o].kind = "live" /\ flash[p].cell[o].key \in Keys
  BY <1>4, CleanCell
<1>. QED
  BY <1>5 DEF Holds

------------------------------------------------------------------------------
(* What holds at the moment a call chooses, or moves, or writes. *)

LEMMA MovingFacts ==
  ASSUME Core, OnlyResets, Moving
  PROVE  /\ frame.victim \in Pages /\ frame.off \in Offsets
         /\ Status(frame.victim) = "FULL" /\ InRealign /\ ~Replacing
         /\ Moved.kind \in {"blank", "live", "dead"}
         /\ Moved.kind = "live" =>
              /\ Moved.key \in Keys /\ Moved.size = Size(Moved.key)
              /\ Current(Moved.key, frame.victim, frame.off)
<1>. DEFINE v == frame.victim
            u == frame.off
<1>1. /\ frame \in Frame /\ v \in Pages /\ u \in Nat /\ u < Used(v) /\ pc = "Realign"
      /\ FlashOK /\ CtxOK /\ Layout /\ Moved = flash[v].cell[u]
  BY DEF Core, IInv, DataInv, RestOK, StoreInv, Frame, Moving, Moved
<1>2. u \in Offsets /\ InRealign /\ ~Replacing
  BY <1>1, InPageOffset DEF InRealign, Replacing
<1>3. Status(v) = "FULL"
  BY <1>1 DEF Core, IInv, Control, RealignControl
<1>4. /\ Moved.kind \in {"blank", "live", "dead"}
      /\ Moved.kind = "live" => Moved.key \in Keys /\ Moved.size = Size(Moved.key)
  BY <1>1, <1>2, CleanCell
<1>5. ~Stale(Moved.key, v, u)
  BY <1>1, <1>2 DEF Stale
<1>. QED
  BY <1>1, <1>2, <1>3, <1>4, <1>5 DEF Current, Holds

LEMMA OtherCurrent ==
  ASSUME ~Replacing, NEW p \in Pages, NEW o \in Offsets, NEW k \in Keys, Holds(p, o, k),
         InRealign => p # frame.victim
  PROVE  Current(k, p, o)
BY DEF Current, Stale

(* The item being moved has no copy on another page. *)
LEMMA MovedAlone ==
  ASSUME Core, OnlyResets, Moving, Moved.kind = "live", NEW p \in Pages, p # frame.victim
  PROVE  Moved.key \notin KeysOn(p)
<1>1. Moved.key \in Keys /\ Current(Moved.key, frame.victim, frame.off)
        /\ frame.victim \in Pages /\ frame.off \in Offsets /\ ~Replacing
  BY MovingFacts
<1>2. \A o \in Offsets : Holds(p, o, Moved.key) => Current(Moved.key, p, o)
  BY <1>1, OtherCurrent
<1>. QED
  BY <1>1, <1>2 DEF KeysOn, Core, CopiesInv, Unique

LEMMA StatusKnown ==
  ASSUME Core, pc \notin {"Boot", "Scan"}, NEW p \in Pages
  PROVE  Status(p) \in {"ERASED", "ACTIVE", "FULL"}
BY DEF Core, CallInv, Loaded, NonePage, IInv, DataInv, CtxOK, Ctx, RamPage, RamStatus, Status

(* A write that has not yet put its item has found the old copy, if any.   *)
Before == {"Found", "Recheck", "Realign", "RealignTake", "CopySeal", "Take", "Append"}
LEMMA OldCopy ==
  ASSUME Core, Writing, Known, pc \in Before, pc = "Found" => call.op = "write"
  PROVE  /\ call.key \in Keys /\ call.op = "write" /\ call.val \in Vals /\ ~Written
         /\ Stored(call.key) =>
              /\ call.key \in Updated
              /\ frame.loc.page \in Pages /\ frame.loc.off \in Offsets
              /\ Holds(frame.loc.page, frame.loc.off, call.key)
         /\ ~Stored(call.key) => frame.loc.page = NoPage
<1>1. call.key \in Keys
  BY DEF Before, Core, IInv, Control, CallControl
<1>2. call.op = "write"
  BY DEF Before, Core, CallInv, Course, Searching, IInv, RestOK, Call
<1>3. ~Written
  BY DEF Before, Written, Replacing
<1>4. /\ frame.loc.page = NoPage => ~Stored(call.key)
      /\ frame.loc.page # NoPage =>
           frame.loc.page \in Pages /\ Holds(frame.loc.page, frame.loc.off, call.key)
  BY DEF Before, Core, CallInv, OldKnown
<1>5. frame.loc.page \in Pages => frame.loc.off \in Offsets
  BY DEF Core, StoreInv, Places
<1>6. Stored(call.key) => call.key \in Updated
  BY <1>1, <1>2, <1>3 DEF Writing, MayWrite, Known
<1>. QED
  BY <1>1, <1>2, <1>3, <1>4, <1>5, <1>6 DEF Writing, Stored

(* No page but the one of the old copy holds the item that is written.     *)
LEMMA OldAlone ==
  ASSUME Core, Writing, Known, pc \in Before, pc = "Found" => call.op = "write",
         NEW p \in Pages, ~InRealign
  PROVE  call.key \in KeysOn(p) => call.key \in Updated /\ p = frame.loc.page
<1>1. ASSUME NEW o \in Offsets, Holds(p, o, call.key)
      PROVE  call.key \in Updated /\ p = frame.loc.page
  <2>1. Stored(call.key)
    BY <1>1 DEF Stored
  <2>2. /\ call.key \in Updated /\ call.key \in Keys /\ ~Written
        /\ frame.loc.page \in Pages /\ frame.loc.off \in Offsets
        /\ Holds(frame.loc.page, frame.loc.off, call.key)
    BY <2>1, OldCopy
  <2>3. ~Replacing
    BY <2>2 DEF Written
  <2>4. Current(call.key, p, o) /\ Current(call.key, frame.loc.page, frame.loc.off)
    BY <1>1, <2>2, <2>3, OtherCurrent
  <2>. QED
    BY <2>2, <2>4 DEF Core, CopiesInv, Unique
<1>. QED
  BY <1>1 DEF KeysOn

(* Where the updated item is not, the ACTIVE page has room for it. *)
LEMMA ActiveClean ==
  ASSUME NEW load, NEW fill, Roomy(load, fill), IInv, Loads(load), UpdatedHere,
         NEW p \in Pages, Status(p) = "ACTIVE", ~Replacing, NEW k \in Updated, k \notin KeysOn(p)
  PROVE  /\ BytesLeft(Used(p) + Size(k)) >= ItemHeaderSize
         /\ HasRoom(p, Size(k))
<1>1. k \in Keys
  BY SetsAssumption
<1>2. KeysOn(p) \cap Updated = {}
  BY UpdatedOne
<1>3. ~HasDead(p) /\ InUse(p)
  BY <1>2 DEF UpdatedHere, InUse
<1>4. <<KeysOn(p), Used(p)>> \in load
  BY <1>3 DEF Loads, OldHere
<1>5. BytesLeft(Used(p) + Size(k)) >= ItemHeaderSize
  BY <1>1, <1>4, LoadNext DEF Roomy
<1>6. Size(k) \in Nat /\ Used(p) \in Nat /\ PageSize \in Nat
  BY <1>1, SizeType, RoomLeft, PagesAssumption
<1>7. Size(k) <= BytesLeft(Used(p))
  BY <1>5, <1>6 DEF BytesLeft, ItemHeaderSize, PageHeaderSize
<1>. QED
  BY <1>1, <1>5, <1>7, RoomLeft

(* A page is erased when one is looked for. *)
LEMMA ErasedLeft ==
  ASSUME NEW load, NEW fill, RoomyStore(load, fill), Core, PageRoom(load, fill),
         pc = "Take" \/ (Moving /\ Movable /\ ~HasRoom(ctx.active, Moved.size))
  PROVE  ~NonePage("ERASED")
<1>1. SUFFICES ASSUME NonePage("ERASED") PROVE FALSE
  OBVIOUS
<1>2. PICK p \in Pages : \A k \in Keys, o \in Offsets : ~Current(k, p, o)
  BY SparePage DEF RoomyStore, Core, CopiesInv
<1>3. pc \in {"Take", "Realign"} /\ ~Replacing
  BY DEF Moving, Replacing
<1>4. InUse(p) /\ Status(p) # "UNAVAILABLE"
  BY <1>1, <1>3, StatusKnown DEF NonePage, InUse
<1>5. IInv /\ FlashOK /\ CtxOK /\ Layout /\ pc # "Scan" /\ OnlyResets
  BY <1>3, RoomyFacts DEF Core, IInv, DataInv, StoreInv
<1>6. Used(p) > 0
  <2>1. SUFFICES ASSUME Used(p) = 0 PROVE FALSE
    BY <1>5 DEF CtxOK, Ctx, RamPage, Used
  <2>2. p = ctx.active /\ Moving /\ Movable /\ pc = "Realign"
    BY <1>3, <1>4, <2>1 DEF PageRoom, Tenanted, Expected, Moving
  <2>3. Moved.key \in Keys /\ Moved.size = Size(Moved.key)
    BY <1>5, <2>2, MovingFacts DEF Movable
  <2>4. Size(Moved.key) \in Nat /\ BytesLeft(Size(Moved.key)) >= ItemHeaderSize
    BY <2>3, FreshFits, SizeType DEF RoomyStore, Roomy
  <2>5. Size(Moved.key) <= BytesLeft(Used(p)) /\ Status(p) = "ACTIVE"
    BY <1>4, <2>1, <2>2, <2>4, PagesAssumption DEF BytesLeft, ItemHeaderSize, PageHeaderSize,
       PageRoom, OneActive
  <2>. QED
    BY <1>3, <1>5, <2>2, <2>3, <2>5, RoomLeft
<1>7. ctx.page[p].cnt > 0
  BY <1>3, <1>4, <1>6 DEF PageRoom, Tenanted
<1>8. PICK k \in Keys, o \in Offsets : Holds(p, o, k)
  BY <1>4, <1>5, <1>7, LiveTenant
<1>9. CASE InRealign /\ p = frame.victim
  <2>1. Moving /\ Movable
    BY <1>3, <1>9 DEF InRealign
  <2>. QED
    BY <1>2, <1>5, <1>9, <2>1, MovingFacts DEF Movable
<1>10. CASE ~(InRealign /\ p = frame.victim)
  BY <1>2, <1>3, <1>8, <1>10, OtherCurrent
<1>. QED
  BY <1>9, <1>10

(* None of the mishaps, and no failing call. *)
LEMMA RoomNoMishap ==
  ASSUME NEW load, NEW fill, RoomyStore(load, fill), Core, RoomInv(load, fill)
  PROVE  NoMishap /\ CallsSucceed
<1>1. ~MovesOldCopy /\ CallsSucceed
  BY DEF MovesOldCopy, CallsSucceed, RoomInv, CallRoom, Placing
<1>2. ~DropsItem
  BY DEF DropsItem, RoomyStore
<1>3. ~BootIncomplete
  BY DEF BootIncomplete, Core, CallInv, Loaded
<1>4. ~Stuck
  <2>1. SUFFICES ASSUME Moving, Movable,
                        HasRoom(ctx.active, Moved.size) /\ ~Storable(ctx.active, Moved.size)
                 PROVE  FALSE
    BY ErasedLeft DEF Stuck, RoomInv
  <2>2. ctx.active \in Pages /\ Status(ctx.active) = "ACTIVE" /\ OnlyResets
    BY <2>1, RoomyFacts DEF RoomInv, CallRoom, Placing, PageRoom, OneActive, Moving
  <2>3. Moved.key \in Keys /\ Moved.size = Size(Moved.key) /\ frame.victim # ctx.active
    BY <2>1, <2>2, MovingFacts DEF Movable
  <2>4. Moved.key \notin KeysOn(ctx.active)
    BY <2>1, <2>2, <2>3, MovedAlone DEF Movable
  <2>. QED
    BY <2>1, <2>2, <2>3, <2>4, NoExactFit DEF RoomyStore, Roomy, Core, RoomInv, PageRoom
<1>. QED
  BY <1>1, <1>2, <1>3, <1>4 DEF NoMishap

------------------------------------------------------------------------------
(* What the operations on pages do to what lies on them. *)

LEMMA CellsSeen ==
  ASSUME NEW p \in Pages, flash'[p].cell = flash[p].cell
  PROVE  /\ KeysOn(p)' = KeysOn(p) /\ HasDead(p)' = HasDead(p)
         /\ \A o \in Offsets, k \in Keys : Holds(p, o, k)' <=> Holds(p, o, k)
BY DEF KeysOn, HasDead, Holds

LEMMA PagesKept ==
  ASSUME NEW load, NEW fill, PageRoom(load, fill), OneActive',
         \A p \in Pages : InUse(p)' =>
           /\ InUse(p) /\ flash'[p].cell = flash[p].cell
           /\ Used(p)' = Used(p) /\ ctx'.page[p].cnt = ctx.page[p].cnt
           /\ Status(p)' = "ACTIVE" => Status(p) = "ACTIVE"
           /\ OldHere(p) => OldHere(p)'
           /\ pc = "DelErase" => p # frame.del.page \/ UNCHANGED <<pc, frame>>
           /\ Used(p) > 0 \/ (p = ctx.active /\ Expected => p = ctx'.active /\ Expected')
  PROVE  PageRoom(load, fill)'
<1>. USE DEF PageRoom
<1>1. \A p \in Pages : InUse(p)' => KeysOn(p)' = KeysOn(p) /\ HasDead(p)' = HasDead(p)
  BY CellsSeen
<1>2. Levels(fill)'
  BY <1>1 DEF Levels
<1>3. Loads(load)'
  BY <1>1 DEF Loads
<1>4. Tenanted'
  BY DEF Tenanted
<1>5. UpdatedHere'
  <2>1. \A p \in Pages : Status(p)' = "ACTIVE" => InUse(p)'
    BY DEF InUse
  <2>. QED
    BY <1>1, <2>1 DEF UpdatedHere
<1>. QED
  BY <1>2, <1>3, <1>4, <1>5

LEMMA StatusEffect ==
  ASSUME IInv, Layout, pc # "Scan", NEW p \in Pages, NEW st \in {"ACTIVE", "FULL"},
         Status(p) \notin {"UNAVAILABLE", st}, UpdateStatus(p, st)
  PROVE  /\ SameCells /\ Status(p)' = st
         /\ \A q \in Pages \ {p} : Status(q)' = Status(q)
         /\ \A q \in Pages : Used(q)' = Used(q) /\ ctx'.page[q].cnt = ctx.page[q].cnt
         /\ ctx'.active = IF st = "ACTIVE" THEN p
                          ELSE IF Status(p) = "ACTIVE" THEN NoPage ELSE ctx.active
<1>1. /\ SameCells
      /\ \A q \in Pages : Used(q)' = Used(q) /\ ctx'.page[q].cnt = ctx.page[q].cnt
  BY UpdateEffect DEF IInv, DataInv
<1>2. Status(p)' = st /\ \A q \in Pages \ {p} : Status(q)' = Status(q)
  BY UpdateKeeps DEF IInv
<1>3. ctx'.active = IF st = "ACTIVE" THEN p
                    ELSE IF Status(p) = "ACTIVE" THEN NoPage ELSE ctx.active
  BY DEF UpdateStatus, IInv, DataInv, CtxOK, Ctx
<1>. QED
  BY <1>1, <1>2, <1>3

(* The ACTIVE page is marked FULL. *)
LEMMA SealRoom ==
  ASSUME NEW load, NEW fill, Core, PageRoom(load, fill), pc \notin {"Scan", "DelErase"},
         NEW p \in Pages, Status(p) = "ACTIVE", UpdateStatus(p, "FULL"), Used(p) > 0,
         \A q \in Pages : OldHere(q) => OldHere(q)'
  PROVE  /\ PageRoom(load, fill)' /\ SameCells /\ ctx'.active = NoPage
         /\ Status(p)' = "FULL" /\ \A q \in Pages \ {p} : Status(q)' = Status(q)
         /\ \A q \in Pages : Used(q)' = Used(q) /\ Status(q)' # "ACTIVE"
<1>1. /\ SameCells /\ Status(p)' = "FULL" /\ ctx'.active = NoPage
      /\ \A q \in Pages \ {p} : Status(q)' = Status(q)
      /\ \A q \in Pages : Used(q)' = Used(q) /\ ctx'.page[q].cnt = ctx.page[q].cnt
  BY StatusEffect DEF Core, StoreInv
<1>2. \A q \in Pages : Status(q) = "ACTIVE" => q = p
  BY DEF PageRoom, OneActive
<1>3. \A q \in Pages : Status(q)' # "ACTIVE"
  BY <1>1, <1>2
<1>4. OneActive'
  BY <1>1, <1>3, PagesFacts DEF OneActive
<1>5. \A q \in Pages : InUse(q)' => InUse(q) /\ flash'[q].cell = flash[q].cell
  BY <1>1 DEF InUse, SameCells
<1>6. \A q \in Pages : q = ctx.active => q = p
  BY <1>2 DEF PageRoom, OneActive
<1>7. PageRoom(load, fill)'
  BY <1>1, <1>3, <1>4, <1>5, <1>6, PagesKept
<1>. QED
  BY <1>1, <1>3, <1>7

(* An erased page is taken as the ACTIVE one, to get an item at once. *)
LEMMA TakeRoom ==
  ASSUME NEW load, NEW fill, Roomy(load, fill), Core, PageRoom(load, fill),
         pc \notin {"Boot", "Scan", "DelErase"}, ~Replacing, ~Expected,
         ctx.active = NoPage, NEW p \in Pages, Status(p) = "ERASED",
         UpdateStatus(p, "ACTIVE"), Expected'
  PROVE  /\ PageRoom(load, fill)' /\ SameCells /\ ctx'.active = p
         /\ Status(p)' = "ACTIVE" /\ Used(p)' = 0
         /\ \A q \in Pages \ {p} : Status(q)' = Status(q)
         /\ \A q \in Pages : Used(q)' = Used(q)
<1>1. /\ SameCells /\ Status(p)' = "ACTIVE" /\ ctx'.active = p
      /\ \A q \in Pages \ {p} : Status(q)' = Status(q)
      /\ \A q \in Pages : Used(q)' = Used(q) /\ ctx'.page[q].cnt = ctx.page[q].cnt
  BY StatusEffect DEF Core, StoreInv
<1>2. \A q \in Pages : Status(q) # "ACTIVE"
  BY PagesFacts DEF PageRoom, OneActive
<1>3. OneActive'
  BY <1>1, <1>2 DEF OneActive
<1>4. Used(p) = 0 /\ KeysOn(p) = {} /\ ~HasDead(p)
  <2>1. PageOK(flash[p], ctx.page[p], TRUE)
    BY LayoutWhole DEF Core, StoreInv
  <2>2. Used(p) = 0 /\ EmptyFrom(flash[p].cell, 0)
    BY <2>1 DEF PageOK, Status, Used
  <2>3. \A o \in Offsets : flash[p].cell[o].kind = "blank"
    BY <2>2, OffsetsFacts DEF EmptyFrom, Occupied
  <2>. QED
    BY <2>2, <2>3 DEF KeysOn, Holds, HasDead
<1>5. KeysOn(p)' = {} /\ ~HasDead(p)' /\ Used(p)' = 0
  BY <1>1, <1>4, CellsSeen DEF SameCells
<1>6. \A q \in Pages \ {p} : /\ KeysOn(q)' = KeysOn(q) /\ HasDead(q)' = HasDead(q)
                             /\ InUse(q)' = InUse(q)
  BY <1>1, CellsSeen DEF SameCells, InUse
<1>. USE DEF PageRoom
<1>7. Levels(fill)'
  BY <1>1, <1>5, <1>6 DEF Levels, Roomy, FillFits
<1>8. Loads(load)'
  BY <1>1, <1>5, <1>6 DEF Loads, Roomy, LoadFits, OldHere
<1>9. Tenanted'
  BY <1>1, <1>5, <1>6 DEF Tenanted
<1>10. UpdatedHere'
  BY <1>1, <1>2, <1>5 DEF UpdatedHere
<1>. QED
  BY <1>1, <1>3, <1>5, <1>7, <1>8, <1>9, <1>10

(* A FULL page is erased. *)
LEMMA EraseRoom ==
  ASSUME NEW load, NEW fill, Core, PageRoom(load, fill), pc # "Scan", ~Replacing, ~Expected,
         NEW p \in Pages, Status(p) = "FULL", pc = "DelErase" => p = frame.del.page,
         ErasePage(p)
  PROVE  /\ PageRoom(load, fill)' /\ ctx'.active = ctx.active /\ Status(p)' = "ERASED"
         /\ \A q \in Pages \ {p} : flash'[q] = flash[q] /\ ctx'.page[q] = ctx.page[q]
         /\ \A k \in Keys : Stored(k)' => Stored(k)
<1>1. /\ flash' = [flash EXCEPT ![p] = BlankPage]
      /\ \A q \in Pages \ {p} : flash'[q] = flash[q] /\ ctx'.page[q] = ctx.page[q]
      /\ Status(p)' = "ERASED" /\ ctx'.active = ctx.active
  BY EraseEffect DEF Core, IInv, DataInv, StoreInv
<1>2. \A q \in Pages \ {p} : /\ flash'[q].cell = flash[q].cell /\ Status(q)' = Status(q)
                             /\ Used(q)' = Used(q) /\ ctx'.page[q].cnt = ctx.page[q].cnt
  BY <1>1 DEF Status, Used
<1>3. OneActive'
  BY <1>1, <1>2 DEF PageRoom, OneActive
<1>4. \A q \in Pages : InUse(q) => Used(q) > 0
  BY DEF PageRoom, Tenanted, Core, IInv, DataInv, CtxOK, Ctx, RamPage, Used
<1>5. PageRoom(load, fill)'
  BY <1>1, <1>2, <1>3, <1>4, PagesKept DEF InUse, OldHere
<1>6. \A o \in Offsets, k \in Keys : ~Holds(p, o, k)'
  BY <1>1 DEF Holds, BlankPage, Blank, Core, IInv, DataInv, FlashOK
<1>7. \A k \in Keys : Stored(k)' => Stored(k)
  BY <1>2, <1>6 DEF Stored, Holds
<1>. QED
  BY <1>1, <1>5, <1>7

(* An item is put on the ACTIVE page. *)
LEMMA PutRoom ==
  ASSUME NEW load, NEW fill, Roomy(load, fill), OnlyResets, Core, PageRoom(load, fill),
         pc \notin {"Boot", "Scan", "DelErase"}, ~Replacing,
         NEW p \in Pages, Status(p) = "ACTIVE", NEW c \in Cell, Neat(c), c.kind = "live",
         c.key \in Keys, c.size = Size(c.key), Storable(p, c.size), WriteItem(p, c),
         c.key \in Updated \/ c.key \notin KeysOn(p),
         c.key \in KeysOn(p) => OldHere(p)'
  PROVE  /\ PageRoom(load, fill)' /\ ctx'.active = ctx.active
         /\ Used(p) \in Offsets /\ flash[p].cell[Used(p)] = Blank
         /\ \A q \in Pages, o \in Offsets, k \in Keys :
              Holds(q, o, k)' <=> Holds(q, o, k) \/ (q = p /\ o = Used(p) /\ k = c.key)
         /\ \A q \in Pages : Status(q)' = Status(q)
         /\ \A q \in Pages : q # p => Used(q)' = Used(q)
<1>. DEFINE u == Used(p)
<1>1. /\ u \in Offsets /\ flash[p].cell[u] = Blank
      /\ flash' = [flash EXCEPT ![p] =
                     [flash[p] EXCEPT !.cell = [flash[p].cell EXCEPT ![u] = c]]]
      /\ ctx'.active = ctx.active /\ \A q \in Pages : Status(q)' = Status(q)
      /\ ctx'.page = [ctx.page EXCEPT ![p] =
              [ctx.page[p] EXCEPT !.used = u + c.size, !.cnt = ctx.page[p].cnt + 1]]
  BY WriteEffect DEF Core, IInv, DataInv, StoreInv
<1>2. /\ flash[p] \in FlashPage /\ ctx.page[p] \in RamPage /\ flash \in [Pages -> FlashPage]
      /\ ctx.page \in [Pages -> RamPage] /\ flash[p].cell \in [Offsets -> Cell]
  BY PageTypes DEF Core, IInv, DataInv, FlashOK, CtxOK, Ctx, FlashPage
<1>3. /\ flash'[p].cell = [flash[p].cell EXCEPT ![u] = c]
      /\ Used(p)' = u + c.size /\ ctx'.page[p].cnt = ctx.page[p].cnt + 1
      /\ \A q \in Pages : q # p =>
           flash'[q] = flash[q] /\ Used(q)' = Used(q) /\ ctx'.page[q].cnt = ctx.page[q].cnt
  BY <1>1, <1>2 DEF FlashPage, RamPage, Used
<1>. HIDE DEF u
<1>4. ASSUME NEW q \in Pages, NEW o \in Offsets, NEW k \in Keys
      PROVE  Holds(q, o, k)' <=> Holds(q, o, k) \/ (q = p /\ o = u /\ k = c.key)
  <2>1. CASE q # p
    BY <1>3, <2>1 DEF Holds
  <2>2. CASE q = p
    BY <1>1, <1>2, <1>3, <2>2 DEF Holds, Blank
  <2>. QED
    BY <2>1, <2>2
<1>5. KeysOn(p)' = KeysOn(p) \cup {c.key} /\ \A q \in Pages : q # p => KeysOn(q)' = KeysOn(q)
  BY <1>1, <1>4 DEF KeysOn
<1>6. \A q \in Pages : HasDead(q)' = HasDead(q)
  <2>1. HasDead(p)' = HasDead(p)
    BY <1>1, <1>2, <1>3 DEF HasDead, Blank
  <2>. QED
    BY <1>3, <2>1 DEF HasDead
<1>7. /\ Size(c.key) \in Nat /\ Size(c.key) > 0 /\ u \in Nat
      /\ HasRoom(p, Size(c.key))
  <2>1. Size(c.key) \in Nat /\ Size(c.key) > ItemHeaderSize /\ u \in Nat
    BY SizeType, RoomLeft DEF u, Core
  <2>2. Size(c.key) <= BytesLeft(u)
    BY <2>1, RoomLeft, PagesAssumption DEF BytesLeft, PageHeaderSize, Core, u
  <2>. QED
    BY <2>1, <2>2, RoomLeft DEF u, Core, ItemHeaderSize
<1>. USE DEF PageRoom
<1>8. OneActive'
  BY <1>1 DEF OneActive
<1>9. Levels(fill)'
  <2>1. <<(KeysOn(p) \ Updated) \cup ({c.key} \ Updated), u + c.size>> \in fill
    BY <1>7, NoExactFit DEF Core, Roomy, u
  <2>2. KeysOn(p)' \ Updated = (KeysOn(p) \ Updated) \cup ({c.key} \ Updated)
    BY <1>5
  <2>. QED
    BY <1>1, <1>3, <1>5, <2>1, <2>2 DEF Levels, InUse
<1>10. Loads(load)'
  <2>1. ASSUME ~HasDead(p), c.key \notin KeysOn(p)
        PROVE  <<KeysOn(p) \cup {c.key}, u + Size(c.key)>> \in load
    <3>1. <<KeysOn(p), u>> \in load
      BY <2>1 DEF Loads, OldHere, InUse, u
    <3>. QED
      BY <2>1, <3>1, LoadNext DEF Roomy
  <2>2. HasDead(p)' \/ OldHere(p)' \/ <<KeysOn(p)', Used(p)'>> \in load
    BY <1>3, <1>5, <1>6, <2>1
  <2>3. \A q \in Pages : q # p /\ InUse(q)' => HasDead(q)' \/ <<KeysOn(q)', Used(q)'>> \in load
    BY <1>1, <1>3, <1>5, <1>6 DEF Loads, OldHere, InUse
  <2>. QED
    BY <2>2, <2>3 DEF Loads
<1>11. Tenanted'
  <2>1. Used(p)' > 0 /\ ctx'.page[p].cnt > 0
    BY <1>2, <1>3, <1>7 DEF RamPage
  <2>2. ASSUME NEW q \in Pages, q # p, InUse(q)'
        PROVE  Used(q)' > 0 /\ ctx'.page[q].cnt > 0
    <3>1. InUse(q) /\ p = ctx.active /\ q # ctx.active
      BY <1>1, <2>2 DEF InUse, OneActive
    <3>. QED
      BY <1>3, <2>2, <3>1 DEF Tenanted
  <2>. QED
    BY <2>1, <2>2 DEF Tenanted
<1>12. UpdatedHere'
  BY <1>1, <1>5, <1>6 DEF UpdatedHere
<1>. QED
  BY <1>1, <1>3, <1>4, <1>8, <1>9, <1>10, <1>11, <1>12 DEF u

------------------------------------------------------------------------------
(* One lemma per group of actions. *)

LEMMA QuietRoom ==
  ASSUME NEW load, NEW fill, PageRoom(load, fill), UNCHANGED <<flash, ctx>>,
         \A q \in Pages : OldHere(q) => OldHere(q)',
         Expected => Expected', pc = "DelErase" => UNCHANGED <<pc, frame>>
  PROVE  PageRoom(load, fill)'
<1>1. \A p \in Pages : /\ Status(p)' = Status(p) /\ Used(p)' = Used(p)
                       /\ InUse(p)' <=> InUse(p)
  BY DEF Status, Used, InUse
<1>2. OneActive'
  BY <1>1 DEF PageRoom, OneActive
<1>. QED
  BY <1>1, <1>2, PagesKept

LEMMA WordsKept ==
  ASSUME Writing, Known, UNCHANGED <<call, expect>>, Written => Written',
         \A k \in Keys : Stored(k)' => Stored(k) \/ (Written' /\ k = call.key)
  PROVE  Writing' /\ Known'
BY DEF Writing, Known, MayWrite

LEMMA SameStoredFlash == ASSUME UNCHANGED flash PROVE \A k \in Keys : Stored(k)' => Stored(k)
BY DEF Stored, Holds

LEMMA BootRoom ==
  ASSUME NEW load, NEW fill, RoomyStore(load, fill), Core, RoomInv(load, fill), Boot
  PROVE  RoomInv(load, fill)' /\ ~BootIncomplete'
<1>1. /\ frame.pg \in Pages /\ pc = "Boot" /\ flash = [p \in Pages |-> BlankPage]
      /\ Status(frame.pg) = "UNAVAILABLE" /\ call = NoCall
      /\ \A q \in Pages : q < frame.pg => Status(q) = "ERASED"
  BY DEF Boot, LoadErased, LoadUnknown, LoadInUse, ScanItem, ScanCorrupt, ScanAbort, ScanEnd,
     RoomInv, CallRoom, BootBlank, Core, IInv, RestOK, Frame, Control, BootControl, CallInv, Course
<1>2. LoadErased
  BY <1>1 DEF Boot, LoadUnknown, LoadInUse, ScanItem, ScanCorrupt, ScanAbort, ScanEnd, BlankPage
<1>3. PICK g \in Pages : g = frame.pg
  BY <1>1
<1>4. /\ UNCHANGED <<flash, call, ret, expect>> /\ NextBootPage
      /\ ctx'.page = [ctx.page EXCEPT ![g] = FreshPage("ERASED")] /\ ctx'.active = ctx.active
  BY <1>2, <1>3 DEF LoadErased, NextBootPage, Goto, Core, IInv, DataInv, CtxOK, Ctx
<1>5. Status(g)' = "ERASED" /\ \A q \in Pages : q # g => ctx'.page[q] = ctx.page[q]
  BY <1>4 DEF Status, FreshPage, Core, IInv, DataInv, CtxOK, Ctx
<1>6. \A q \in Pages : q # g => Status(q)' = Status(q) /\ Used(q)' = Used(q)
  BY <1>5 DEF Status, Used
<1>7. \/ pc' = "Boot" /\ g + 1 \in Pages /\ frame'.pg = g + 1
      \/ pc' = "Idle" /\ g + 1 \notin Pages
  BY <1>3, <1>4 DEF NextBootPage, Goto, Core, IInv, RestOK, Frame
<1>8. \A q \in Pages : q <= g => Status(q)' = "ERASED"
  BY <1>1, <1>3, <1>5, <1>6, PagesFacts
<1>9. PageRoom(load, fill)'
  <2>1. OneActive'
    BY <1>1, <1>3, <1>4, <1>5, <1>6 DEF RoomInv, PageRoom, OneActive
  <2>2. \A q \in Pages : InUse(q)' => q # g /\ InUse(q)
    BY <1>5, <1>6 DEF InUse
  <2>3. ~Expected /\ \A q \in Pages : ~OldHere(q)
    BY <1>1 DEF Expected, OldHere, Replacing, Moving
  <2>. QED
    BY <1>1, <1>4, <1>5, <1>6, <2>1, <2>2, <2>3, PagesKept DEF RoomInv
<1>10. BootBlank'
  BY <1>1, <1>4, <1>7, <1>8, PagesFacts DEF BootBlank
<1>11. NewThere' /\ Placing' /\ Writing'
  BY <1>1, <1>4, <1>7 DEF NewThere, Replacing, Placing, Moving, RoomInv, CallRoom, Writing, NoCall
<1>12. Known'
  <2>1. \A k \in Keys : ~Stored(k)'
    BY <1>1, <1>4 DEF Stored, Holds, BlankPage, Blank
  <2>. QED
    BY <2>1 DEF Known
<1>13. ~BootIncomplete'
  BY <1>7, <1>8, PagesFacts DEF BootIncomplete, NonePage
<1>. QED
  BY <1>9, <1>10, <1>11, <1>12, <1>13 DEF RoomInv, CallRoom

LEMMA FindRoom ==
  ASSUME NEW load, NEW fill, RoomyStore(load, fill), Core, RoomInv(load, fill), Find
  PROVE  RoomInv(load, fill)'
<1>1. OnlyResets
  BY RoomyFacts
<1>2. CASE ~ReadReturns
  <2>1. /\ UNCHANGED <<flash, ctx, call, ret, expect>>
        /\ pc' \in {"Find", "Hit", "Next", "Page", "Found"}
    BY <1>1, <1>2, SearchStep DEF Core
  <2>2. pc \in {"Page", "Find", "Hit", "Next"}
    BY <1>2 DEF Find, FindPage, FindPass, FindCorrupt, FindHit, FindKeep, FindPageEnd, FindNextPage
  <2>3. ~Expected /\ ~Replacing /\ ~Replacing' /\ ~Written
    BY <2>1, <2>2 DEF Expected, Moving, Replacing, Written
  <2>4. PageRoom(load, fill)'
    BY <2>1, <2>2, <2>3, QuietRoom DEF RoomInv, OldHere
  <2>5. Writing' /\ Known'
    BY <2>1, <2>3, WordsKept, SameStoredFlash DEF RoomInv, CallRoom
  <2>6. BootBlank' /\ NewThere' /\ Placing'
    BY <2>1, <2>3 DEF BootBlank, NewThere, Placing, RoomInv, CallRoom
  <2>. QED
    BY <2>4, <2>5, <2>6 DEF RoomInv, CallRoom
<1>3. CASE ReadReturns
  <2>1. /\ UNCHANGED <<flash, ctx>> /\ pc = "Found" /\ pc' = "Idle" /\ call' = NoCall
        /\ ret'.kind = "value"
        /\ expect' = [expect EXCEPT ![call.key] =
             IF (IF frame.cnt = 0 THEN NoVal ELSE frame.val) \in @
               THEN {IF frame.cnt = 0 THEN NoVal ELSE frame.val} ELSE @]
    BY <1>3 DEF ReadReturns, Return
  <2>2. ~Expected /\ ~Replacing /\ ~Replacing' /\ ~Written
    BY <2>1 DEF Expected, Moving, Replacing, Written
  <2>3. PageRoom(load, fill)'
    BY <2>1, <2>2, QuietRoom DEF RoomInv, OldHere
  <2>4. BootBlank' /\ NewThere' /\ Placing' /\ Writing'
    BY <2>1, <2>2 DEF BootBlank, NewThere, Placing, Writing, NoCall
  <2>5. ASSUME NEW k \in Keys, NoVal \in expect'[k], Stored(k)'
        PROVE  FALSE
    <3>1. Stored(k) /\ NoVal \notin expect[k]
      BY <2>1, <2>2, <2>5, SameStoredFlash DEF RoomInv, CallRoom, Known
    <3>2. k = call.key /\ expect \in [Keys -> SUBSET (Vals \cup {NoVal})]
      BY <2>1, <2>5, <3>1 DEF Core, IInv, RestOK
    <3>. QED
      BY <2>1, <2>5, <3>1, <3>2
  <2>. QED
    BY <2>3, <2>4, <2>5 DEF RoomInv, CallRoom, Known
<1>. QED
  BY <1>2, <1>3

LEMMA CallRoomStep ==
  ASSUME NEW load, NEW fill, Core, RoomInv(load, fill), Calls
  PROVE  RoomInv(load, fill)'
<1>1. /\ UNCHANGED <<flash, ctx, expect>> /\ pc = "Idle" /\ pc' = "Page" /\ ret' = NoRet
      /\ call'.op = "write" => call'.val \in Vals /\ MayWrite(call'.key)
  BY DEF Calls, st_read_item, st_write_item, Begin
<1>2. ~Expected /\ ~Replacing /\ ~Replacing' /\ ~Written
  BY <1>1 DEF Expected, Moving, Replacing, Written
<1>3. PageRoom(load, fill)'
  BY <1>1, <1>2, QuietRoom DEF RoomInv, OldHere
<1>4. Writing'
  BY <1>1 DEF Writing, MayWrite
<1>5. Known'
  BY <1>1, <1>2, SameStoredFlash DEF RoomInv, CallRoom, Known
<1>6. BootBlank' /\ NewThere' /\ Placing'
  BY <1>1, <1>2 DEF BootBlank, NewThere, Placing, NoRet
<1>. QED
  BY <1>3, <1>4, <1>5, <1>6 DEF RoomInv, CallRoom

(* A page with an item on it is counted as one. *)
LEMMA CountedItem ==
  ASSUME NEW fp, NEW rp, PageOK(fp, rp, TRUE), "decay" \notin Faults, rp.cnt \in Nat,
         rp.status # "UNAVAILABLE", NEW o \in Offsets, fp.cell[o].kind = "live",
         fp.cell[o].key # NoKey, rp.used \in Nat
  PROVE  rp.cnt > 0
<1>. DEFINE I == Items(fp.cell, rp.used)
<1>1. rp.cnt = Cardinality(I) /\ EmptyFrom(fp.cell, rp.used)
  BY DEF PageOK, Counts
<1>2. o < rp.used
  BY <1>1, OffsetsFacts DEF EmptyFrom, Occupied
<1>3. o \in I
  BY <1>2 DEF Items
<1>4. IsFiniteSet(I)
  BY ItemsFinite DEF Items
<1>. QED
  BY <1>1, <1>3, <1>4, FS_EmptySet

LEMMA DeleteRoom ==
  ASSUME NEW load, NEW fill, RoomyStore(load, fill), Core, RoomInv(load, fill), Delete
  PROVE  RoomInv(load, fill)'
<1>1. /\ pc \in {"Del", "DelErase"} /\ frame.back = "Done" /\ frame.del = frame.loc
      /\ frame.loc.page \in Pages /\ frame.loc.off \in Offsets /\ call.key \in Keys
      /\ OnlyResets /\ FlashOK /\ CtxOK /\ Layout /\ "decay" \notin Faults
  BY RoomyFacts DEF Delete, DelNothing, DelMismatch, DelMark, DelErase, Core, CallInv, Course,
     IInv, DataInv, Control, CallControl, DeleteControl, StoreInv, Places
<1>2. PICK p \in Pages, o \in Offsets : p = frame.loc.page /\ o = frame.loc.off
  BY <1>1
<1>3. CASE pc = "Del"
  <2>1. Replacing /\ Holds(p, o, call.key) /\ Written
    BY <1>1, <1>2, <1>3, PagesFacts DEF Replacing, Core, CallInv, OldThere, Written
  <2>2. Status(p) \in {"ACTIVE", "FULL"} /\ InUse(p) /\ ctx.page[p].cnt > 0
    <3>1. Status(p) # "UNAVAILABLE"
      BY <1>3, StatusKnown
    <3>2. InUse(p) /\ ctx.page[p].cnt > 0
      BY <1>1, <1>3, <2>1, <3>1, LiveInUse
    <3>. QED
      BY <3>2 DEF InUse
  <2>3. DelMark
    BY <1>1, <1>2, <1>3, <2>1, <2>2
    DEF Delete, DelNothing, DelMismatch, DelErase, Doomed, Holds
  <2>4. PICK n \in Nat : n = ctx.page[p].cnt - 1
    BY <1>1, <2>2 DEF CtxOK, Ctx, RamPage
  <2>5. /\ MarkDead(p, o)
        /\ ctx'.page = [ctx.page EXCEPT ![p] = [ctx.page[p] EXCEPT !.cnt = n]]
        /\ ctx'.active = ctx.active
        /\ UNCHANGED <<frame, call, ret, expect>>
        /\ pc' = IF n = 0 /\ Status(p) = "FULL" THEN "DelErase" ELSE "Done"
    BY <1>1, <1>2, <2>3, <2>4 DEF DelMark, Goto, CtxOK, Ctx, RamPage
  <2>6. flash[p].cell[o].key # NoKey /\ ctx.page[p].cnt = n + 1
    BY <1>1, <2>1, <2>4, KeysAssumption DEF Holds, CtxOK, Ctx, RamPage
  <2>7. /\ Layout'
        /\ flash' = [flash EXCEPT ![p] = [flash[p] EXCEPT !.cell =
              [flash[p].cell EXCEPT ![o] = DeadCell(flash[p].cell[o].size)]]]
        /\ \A q \in Pages : Status(q)' = Status(q) /\ Used(q)' = Used(q)
        /\ ctx'.page[p].cnt = n
    BY <1>1, <1>3, <2>2, <2>5, <2>6, MarkEffect
  <2>8. /\ flash'[p].cell = [flash[p].cell EXCEPT ![o] = DeadCell(flash[p].cell[o].size)]
        /\ \A q \in Pages : q # p => flash'[q] = flash[q] /\ ctx'.page[q].cnt = ctx.page[q].cnt
    BY <1>1, <2>5, <2>7 DEF FlashOK, FlashPage, CtxOK, Ctx
  <2>9. flash[p].cell \in [Offsets -> Cell]
    BY <1>1 DEF FlashOK, FlashPage
  <2>10. ASSUME NEW q \in Pages, NEW r \in Offsets, NEW j \in Keys
         PROVE  Holds(q, r, j)' <=> Holds(q, r, j) /\ ~(q = p /\ r = o)
    BY <2>8, <2>9 DEF Holds, DeadCell
  <2>11. call.key \in Updated
    BY <1>1, <2>1, PagesFacts DEF RoomInv, CallRoom, NewThere
  <2>12. \A q \in Pages : KeysOn(q)' \ Updated = KeysOn(q) \ Updated
    <3>1. \A k \in Keys : Holds(p, o, k) => k \in Updated
      BY <2>1, <2>11 DEF Holds
    <3>. QED
      BY <2>10, <3>1 DEF KeysOn
  <2>13. HasDead(p)' /\ \A q \in Pages : q # p => HasDead(q)' = HasDead(q) /\ KeysOn(q)' = KeysOn(q)
    BY <2>8, <2>9 DEF HasDead, KeysOn, Holds, DeadCell
  <2>k. PICK k \in Keys : k = call.key
    BY <1>1
  <2>14. ASSUME Status(p) = "ACTIVE"
         PROVE  \E r \in Offsets : Holds(p, r, k)'
    <3>1. p = frame.pg /\ \E r \in Offsets : Holds(p, r, k) /\ r # o
      BY <1>2, <1>3, <2>1, <2>14, <2>k DEF RoomInv, CallRoom, NewThere
    <3>. QED
      BY <2>10, <3>1
  <2>15. \A q \in Pages : InUse(q)' <=> InUse(q)
    BY <2>7 DEF InUse
  <2>16. OneActive'
    BY <2>5, <2>7 DEF OneActive, RoomInv, PageRoom
  <2>17. Levels(fill)'
    BY <2>7, <2>12, <2>15 DEF Levels, RoomInv, PageRoom
  <2>18. Loads(load)'
    BY <1>2, <2>7, <2>13, <2>15 DEF Loads, OldHere, RoomInv, PageRoom
  <2>19. UpdatedHere'
    <3>1. Status(p)' = "ACTIVE" => k \in KeysOn(p)' /\ k \in Updated
      BY <2>7, <2>11, <2>k, <2>14 DEF KeysOn
    <3>. QED
      BY <2>7, <2>13, <3>1 DEF UpdatedHere, RoomInv, PageRoom
  <2>20. Tenanted'
    <3>1. \A q \in Pages : InUse(q) => Used(q) > 0 /\ ctx.page[q].cnt > 0
      BY <1>1, <1>3 DEF RoomInv, PageRoom, Tenanted, Expected, Moving, CtxOK, Ctx, RamPage, Used
    <3>2. ASSUME Status(p) = "ACTIVE" PROVE n > 0
      <4>1. PICK r \in Offsets : Holds(p, r, k)'
        BY <2>14, <3>2
      <4>2. flash'[p].cell[r].kind = "live" /\ flash'[p].cell[r].key # NoKey
        BY <1>1, <4>1, KeysAssumption DEF Holds
      <4>3. PageOK(flash'[p], ctx'.page[p], TRUE)
        BY <2>5, <2>7 DEF Layout, Whole
      <4>4. ctx'.page[p].cnt = n /\ ctx'.page[p].status = "ACTIVE" /\ ctx'.page[p].used \in Nat
        BY <1>1, <2>5, <3>2 DEF CtxOK, Ctx, RamPage, Status
      <4>. QED
        BY <1>1, <4>2, <4>3, <4>4, CountedItem
    <3>3. n > 0 \/ (pc' = "DelErase" /\ p = frame'.del.page)
      BY <1>1, <1>2, <2>2, <2>5, <3>2
    <3>. QED
      BY <2>7, <2>8, <2>15, <3>1, <3>3 DEF Tenanted
  <2>21. Writing' /\ Known'
    <3>1. Written' /\ \A j \in Keys : Stored(j)' => Stored(j)
      BY <1>1, <2>5, <2>10 DEF Written, Stored
    <3>. QED
      BY <2>5, <3>1, WordsKept DEF RoomInv, CallRoom
  <2>22. BootBlank' /\ NewThere' /\ Placing'
    BY <2>5 DEF BootBlank, NewThere, Replacing, Placing, RoomInv, CallRoom
  <2>. QED
    BY <2>16, <2>17, <2>18, <2>19, <2>20, <2>21, <2>22 DEF RoomInv, PageRoom, CallRoom
<1>4. CASE pc = "DelErase"
  <2>1. DelErase /\ ErasePage(p) /\ pc' = "Done" /\ UNCHANGED <<frame, call, ret, expect>>
    BY <1>1, <1>2, <1>4 DEF Delete, DelNothing, DelMismatch, DelMark, DelErase, Goto
  <2>2. Status(p) = "FULL" /\ p = frame.del.page
    BY <1>1, <1>2, <1>4 DEF Core, IInv, Control, DeleteControl
  <2>3. ~Replacing /\ ~Expected /\ ~Replacing' /\ Written'
    BY <1>4, <2>1 DEF Replacing, Expected, Moving, Written
  <2>4. PageRoom(load, fill)' /\ \A k \in Keys : Stored(k)' => Stored(k)
    BY <1>4, <2>1, <2>2, <2>3, EraseRoom DEF RoomInv
  <2>5. Writing' /\ Known'
    BY <2>1, <2>3, <2>4, WordsKept DEF RoomInv, CallRoom
  <2>6. BootBlank' /\ NewThere' /\ Placing'
    BY <2>1, <2>3 DEF BootBlank, NewThere, Placing, RoomInv, CallRoom
  <2>. QED
    BY <2>4, <2>5, <2>6 DEF RoomInv, CallRoom
<1>. QED
  BY <1>1, <1>3, <1>4

LEMMA CandidateActive ==
  ASSUME OneActive, NEW p \in Pages, IsCandidate(p)
  PROVE  Status(p) = "ACTIVE" /\ p = ctx.active
BY DEF OneActive, IsCandidate, IsFirstPage

(* Where the item is written next there is room for it. *)
LEMMA RoomToAppend ==
  ASSUME NEW load, NEW fill, RoomyStore(load, fill), Core, RoomInv(load, fill),
         pc \in {"Found", "Recheck"}, pc = "Found" => call.op = "write",
         NEW p \in Pages, HasRoom(p, Need), UNCHANGED <<flash, ctx>>, AppendTo(p)
  PROVE  RoomInv(load, fill)'
<1>1. /\ pc' = "Append" /\ UNCHANGED <<call, ret, expect>> /\ frame'.pg = p
      /\ frame'.loc = frame.loc
  BY DEF AppendTo, Goto, Core, IInv, RestOK, Frame
<1>2. PICK k \in Keys : k = call.key
  BY DEF Core, IInv, Control, CallControl
<1>3. k \in Updated \/ k \notin KeysOn(p)
  BY <1>2, OldAlone DEF Before, InRealign, RoomInv, CallRoom
<1>4. Storable(p, Size(k))
  BY <1>2, <1>3, NoExactFit DEF Need, RoomyStore, Roomy, Core, RoomInv, PageRoom
<1>5. ~Expected /\ ~Replacing /\ ~Replacing' /\ ~Written
  BY <1>1 DEF Expected, Moving, Replacing, Written
<1>6. PageRoom(load, fill)'
  BY <1>1, <1>5, QuietRoom DEF RoomInv, OldHere
<1>7. Writing' /\ Known'
  BY <1>1, <1>5, WordsKept, SameStoredFlash DEF RoomInv, CallRoom
<1>8. Placing'
  BY <1>1, <1>2, <1>4 DEF Placing, Storable, Used, Need, RoomInv, CallRoom
<1>9. BootBlank' /\ NewThere'
  BY <1>1, <1>5 DEF BootBlank, NewThere
<1>. QED
  BY <1>6, <1>7, <1>8, <1>9 DEF RoomInv, CallRoom

LEMMA SealForTake ==
  ASSUME NEW load, NEW fill, Core, RoomInv(load, fill), pc \in {"Found", "Recheck"},
         NEW p \in Pages, Status(p) = "ACTIVE", SealPage(p)
  PROVE  RoomInv(load, fill)'
<1>1. /\ pc' = "Take" /\ UNCHANGED <<call, ret, expect>> /\ UpdateStatus(p, "FULL")
  BY DEF SealPage, Goto
<1>2. ~Expected /\ ~Replacing /\ ~Replacing' /\ ~Written
  BY <1>1 DEF Expected, Moving, Replacing, Written
<1>3. Used(p) > 0
  BY <1>2 DEF RoomInv, PageRoom, Tenanted, InUse, Core, IInv, DataInv, CtxOK, Ctx, RamPage, Used
<1>4. PageRoom(load, fill)' /\ ctx'.active = NoPage /\ SameCells
  BY <1>1, <1>2, <1>3, SealRoom DEF RoomInv, OldHere
<1>5. \A k \in Keys : Stored(k)' => Stored(k)
  BY <1>4, SameCellsLive, SameStored
<1>6. Writing' /\ Known'
  BY <1>1, <1>2, <1>5, WordsKept DEF RoomInv, CallRoom
<1>7. BootBlank' /\ NewThere' /\ Placing'
  BY <1>1, <1>2, <1>4 DEF BootBlank, NewThere, Placing, RoomInv, CallRoom
<1>. QED
  BY <1>4, <1>6, <1>7 DEF RoomInv, CallRoom

LEMMA GetPageRoom ==
  ASSUME NEW load, NEW fill, RoomyStore(load, fill), Core, RoomInv(load, fill), GetPage
  PROVE  RoomInv(load, fill)'
<1>1. OneActive /\ Placing /\ PageRoom(load, fill)
  BY DEF RoomInv, PageRoom, CallRoom
<1>2. ASSUME NEW p \in Pages, UseCandidate(p)
      PROVE  RoomInv(load, fill)'
  BY <1>2, RoomToAppend DEF UseCandidate, Choosing
<1>3. ASSUME NEW p \in Pages, SealCandidate(p)
      PROVE  RoomInv(load, fill)'
  BY <1>1, <1>3, CandidateActive, SealForTake DEF SealCandidate, Choosing
<1>4. CASE RecheckRoom
  <2>1. ctx.active \in Pages /\ pc = "Recheck"
    BY <1>1, <1>4 DEF RecheckRoom, Placing
  <2>. QED
    BY <1>4, <2>1, RoomToAppend DEF RecheckRoom
<1>5. CASE RecheckSeal
  <2>1. ctx.active \in Pages /\ pc = "Recheck" /\ Status(ctx.active) = "ACTIVE"
    BY <1>1, <1>5 DEF RecheckSeal, Placing, OneActive
  <2>. QED
    BY <1>5, <2>1, SealForTake DEF RecheckSeal
<1>6. CASE NoCandidate
  <2>1. /\ UNCHANGED <<flash, ctx, call, ret, expect>> /\ pc = "Found" /\ pc' = "Take"
    BY <1>6 DEF NoCandidate, Choosing, Goto
  <2>2. ctx.active = NoPage
    BY <1>6 DEF NoCandidate, IsCandidate, Core, IInv, DataInv, CtxOK, Ctx
  <2>3. ~Expected /\ ~Replacing /\ ~Replacing' /\ ~Written
    BY <2>1 DEF Expected, Moving, Replacing, Written
  <2>4. PageRoom(load, fill)'
    BY <1>1, <2>1, <2>3, QuietRoom DEF OldHere
  <2>5. Writing' /\ Known'
    BY <2>1, <2>3, WordsKept, SameStoredFlash DEF RoomInv, CallRoom
  <2>6. BootBlank' /\ NewThere' /\ Placing'
    BY <1>1, <2>1, <2>2, <2>3 DEF BootBlank, NewThere, Placing
  <2>. QED
    BY <2>4, <2>5, <2>6 DEF RoomInv, CallRoom
<1>7. ASSUME NEW p \in Pages, TakePage(p)
      PROVE  RoomInv(load, fill)'
  <2>1. /\ pc = "Take" /\ pc' = "Append" /\ Status(p) = "ERASED" /\ UpdateStatus(p, "ACTIVE")
        /\ UNCHANGED <<call, ret, expect>> /\ frame'.pg = p
    BY <1>7 DEF TakePage, AppendTo, Goto, IsFirstPage, Core, IInv, RestOK, Frame
  <2>2. ~Expected /\ Expected' /\ ~Replacing /\ ~Replacing' /\ ~Written
    BY <2>1 DEF Expected, Moving, Replacing, Written
  <2>3. PageRoom(load, fill)' /\ SameCells /\ Used(p)' = 0
    BY <1>1, <2>1, <2>2, TakeRoom DEF RoomyStore, Placing
  <2>4. PICK k \in Keys : k = call.key
    BY <2>1 DEF Core, IInv, Control, CallControl
  <2>5. Storable(p, Size(k))'
    <3>1. BytesLeft(Size(k)) >= ItemHeaderSize /\ Size(k) \in Nat
      BY FreshFits, SizeType DEF RoomyStore, Roomy
    <3>. QED
      BY <2>3, <3>1, PagesAssumption
      DEF Storable, Accessible, BytesLeft, ItemHeaderSize, PageHeaderSize
  <2>6. Placing'
    BY <1>1, <2>1, <2>4, <2>5 DEF Placing, Need, Storable
  <2>7. \A j \in Keys : Stored(j)' => Stored(j)
    BY <2>3, SameCellsLive, SameStored
  <2>8. Writing' /\ Known'
    BY <2>1, <2>2, <2>7, WordsKept DEF RoomInv, CallRoom
  <2>9. BootBlank' /\ NewThere'
    BY <2>1, <2>2 DEF BootBlank, NewThere
  <2>. QED
    BY <2>3, <2>6, <2>8, <2>9 DEF RoomInv, CallRoom
<1>8. ~TakeFails /\ ~RecheckFails
  BY <1>1, ErasedLeft, PagesFacts DEF TakeFails, RecheckFails, Placing
<1>. QED
  BY <1>2, <1>3, <1>4, <1>5, <1>6, <1>7, <1>8 DEF GetPage

(* A realignment begins with another page than the one of the old copy:    *)
(* where the item that is written has none on the ACTIVE page, it fits     *)
(* there.                                                                  *)
LEMMA VictimOther ==
  ASSUME NEW load, NEW fill, RoomyStore(load, fill), Core, RoomInv(load, fill),
         NEW p \in Pages, Crowded(p), NEW w \in Pages, Status(w) = "FULL"
  PROVE  frame.loc.page # w
<1>1. SUFFICES ASSUME frame.loc.page = w PROVE FALSE
  OBVIOUS
<1>2. pc = "Found" /\ call.op = "write" /\ IsCandidate(p) /\ ~HasRoom(p, Need)
  BY DEF Crowded, Choosing
<1>3. Status(p) = "ACTIVE" /\ p # w
  BY <1>2, CandidateActive DEF RoomInv, PageRoom
<1>4. PICK k \in Keys : k = call.key
  BY <1>2 DEF Core, IInv, Control, CallControl
<1>5. Stored(k)
  BY <1>1, <1>2, <1>4, OldCopy, PagesFacts DEF Before, RoomInv, CallRoom
<1>6. k \in Updated
  BY <1>2, <1>4, <1>5, OldCopy DEF Before, RoomInv, CallRoom
<1>7. k \notin KeysOn(p)
  BY <1>1, <1>2, <1>3, <1>4, OldAlone DEF Before, InRealign, RoomInv, CallRoom
<1>8. ~Replacing
  BY <1>2 DEF Replacing
<1>9. HasRoom(p, Size(k))
  BY <1>3, <1>6, <1>7, <1>8, ActiveClean DEF RoomyStore, Core, RoomInv, PageRoom
<1>. QED
  BY <1>2, <1>4, <1>9 DEF Need

LEMMA RealignRoom ==
  ASSUME NEW load, NEW fill, RoomyStore(load, fill), Core, RoomInv(load, fill), Realign
  PROVE  RoomInv(load, fill)'
<1>1. /\ pc \in {"Found", "Realign", "RealignTake"}
      /\ pc' \in {"Recheck", "Realign", "RealignTake", "CopySeal"}
      /\ UNCHANGED <<call, ret, expect>>
  BY DEF Realign, RealignNone, RealignFull, RealignStart, RealignSkip, RealignCorrupt,
     RealignTake, RealignFails, RealignCopy, CopySeal, RealignEnd, Crowded, Choosing,
     Moving, CanCopy, Goto, RoomInv, CallRoom, Placing
<1>2. /\ ~Replacing /\ ~Replacing' /\ ~Written /\ pc # "DelErase" /\ OnlyResets
      /\ OneActive /\ Placing /\ Writing /\ Known /\ PageRoom(load, fill)
      /\ frame \in Frame /\ \A q \in Pages : ~OldHere(q)
  BY <1>1, RoomyFacts DEF Replacing, Written, OldHere, RoomInv, PageRoom, CallRoom, Core, IInv,
     RestOK
<1>3. BootBlank' /\ NewThere'
  BY <1>1, <1>2 DEF BootBlank, NewThere
<1>4. ASSUME PageRoom(load, fill)', Placing', \A k \in Keys : Stored(k)' => Stored(k)
      PROVE  RoomInv(load, fill)'
  BY <1>1, <1>2, <1>3, <1>4, WordsKept DEF RoomInv, CallRoom
<1>5. ASSUME NEW p \in Pages, RealignNone(p)
      PROVE  RoomInv(load, fill)'
  <2>1. UNCHANGED <<flash, ctx, frame>> /\ pc = "Found" /\ pc' = "Recheck" /\ IsCandidate(p)
    BY <1>5 DEF RealignNone, Crowded, Choosing, Goto
  <2>2. ctx.active \in Pages
    BY <1>2, <2>1, CandidateActive
  <2>3. ~Expected
    BY <2>1 DEF Expected, Moving
  <2>4. PageRoom(load, fill)'
    BY <1>2, <2>1, <2>3, QuietRoom
  <2>5. Placing'
    BY <1>1, <1>2, <2>1, <2>2 DEF Placing
  <2>. QED
    BY <1>4, <2>1, <2>4, <2>5, SameStoredFlash
<1>6. ASSUME NEW p \in Pages, NEW w \in Pages, RealignStart(p, w)
      PROVE  RoomInv(load, fill)'
  <2>1. /\ UNCHANGED <<flash, ctx>> /\ pc = "Found" /\ pc' = "Realign" /\ IsCandidate(p)
        /\ frame'.victim = w /\ frame'.loc = frame.loc /\ Crowded(p) /\ Status(w) = "FULL"
    BY <1>2, <1>6 DEF RealignStart, Crowded, Choosing, Goto, IsVictim, Frame
  <2>2. ctx.active \in Pages /\ frame.loc.page # w
    BY <1>2, <2>1, CandidateActive, VictimOther
  <2>3. ~Expected
    BY <2>1 DEF Expected, Moving
  <2>4. PageRoom(load, fill)'
    BY <1>2, <2>1, <2>3, QuietRoom
  <2>5. Placing'
    BY <1>1, <1>2, <2>1, <2>2 DEF Placing
  <2>. QED
    BY <1>4, <2>1, <2>4, <2>5, SameStoredFlash
<1>7. CASE RealignSkip
  <2>1. /\ UNCHANGED <<flash, ctx>> /\ pc = "Realign" /\ pc' = "Realign"
        /\ frame'.victim = frame.victim /\ frame'.loc = frame.loc
        /\ Moved.kind = "dead"
    BY <1>2, <1>7, RoomyFacts DEF RealignSkip, Moving, StepOver, Goto, Frame
  <2>2. ~Expected
    BY <2>1 DEF Expected, Movable
  <2>3. PageRoom(load, fill)'
    BY <1>2, <2>1, <2>2, QuietRoom
  <2>4. Placing'
    BY <1>1, <1>2, <2>1 DEF Placing
  <2>. QED
    BY <1>4, <2>1, <2>3, <2>4, SameStoredFlash
<1>8. ASSUME NEW new \in Pages, RealignFull(new)
      PROVE  RoomInv(load, fill)'
  <2>1. /\ Moving /\ Movable /\ ~HasRoom(ctx.active, Moved.size) /\ Status(new) = "ERASED"
        /\ pc = "Realign" /\ pc' = "RealignTake" /\ UpdateStatus(ctx.active, "FULL")
        /\ frame'.pg = new /\ frame'.loc = frame.loc /\ frame'.off = frame.off
        /\ frame'.victim = frame.victim
    BY <1>2, <1>8 DEF RealignFull, Moving, IsFirstPage, Goto, Frame
  <2>2. PICK a \in Pages : a = ctx.active /\ Status(a) = "ACTIVE"
    BY <1>2, <2>1 DEF Placing, OneActive
  <2>3. /\ frame.victim \in Pages /\ frame.off \in Offsets
        /\ Moved.key \in Keys /\ Moved.size = Size(Moved.key)
    BY <1>2, <2>1, MovingFacts DEF Movable
  <2>4. Used(a) > 0
    <3>1. Used(a) \in Nat /\ Size(Moved.key) \in Nat
      BY <2>3, SizeType, RoomLeft DEF Core
    <3>2. BytesLeft(Size(Moved.key)) >= ItemHeaderSize
      BY <2>3, FreshFits DEF RoomyStore, Roomy
    <3>3. Used(a) = 0 => Size(Moved.key) <= BytesLeft(Used(a))
      BY <3>1, <3>2, PagesAssumption DEF BytesLeft, ItemHeaderSize, PageHeaderSize
    <3>. QED
      BY <2>1, <2>2, <2>3, <3>1, <3>3, RoomLeft DEF Core
  <2>5. /\ PageRoom(load, fill)' /\ SameCells /\ ctx'.active = NoPage /\ Status(new)' = "ERASED"
        /\ \A q \in Pages : Used(q)' = Used(q)
    BY <1>1, <1>2, <2>1, <2>2, <2>4, SealRoom
  <2>6. Moved' = Moved
    BY <2>1, <2>3, <2>5 DEF Moved, SameCells
  <2>7. Placing'
    <3>1. PICK w \in Pages, u \in Nat : w = frame.victim /\ u = frame.off
      BY <1>2 DEF Frame
    <3>2. (frame.off < Used(frame.victim))' /\ frame.loc.page # frame.victim
      BY <1>2, <2>1, <2>5, <3>1 DEF Used, Moving, Placing
    <3>3. Movable'
      BY <2>1, <2>6 DEF Movable
    <3>4. (Status(frame.pg) = "ERASED")'
      BY <2>1, <2>5 DEF Status
    <3>. QED
      BY <1>1, <1>2, <2>1, <2>5, <3>1, <3>2, <3>3, <3>4 DEF Placing
  <2>8. \A k \in Keys : Stored(k)' => Stored(k)
    BY <2>5, SameCellsLive, SameStored
  <2>. QED
    BY <1>4, <2>5, <2>7, <2>8
<1>9. CASE RealignTake
  <2>1. /\ pc = "RealignTake" /\ pc' = "Realign" /\ UNCHANGED frame
        /\ UpdateStatus(frame.pg, "ACTIVE")
    BY <1>9 DEF RealignTake, Goto
  <2>2. PICK p \in Pages, w \in Pages, u \in Nat :
          p = frame.pg /\ w = frame.victim /\ u = frame.off
    BY <1>2 DEF Frame
  <2>3. /\ Status(p) = "ERASED" /\ ctx.active = NoPage /\ u < Used(w) /\ Movable
        /\ frame.loc.page # w
    BY <1>2, <2>1, <2>2 DEF Placing
  <2>4. SameCells /\ \A q \in Pages : Used(q)' = Used(q)
    BY <1>1, <2>1, <2>2, <2>3, StatusEffect DEF Core, StoreInv
  <2>5. Moved' = Moved
    <3>1. Moved = flash[w].cell[u] /\ Moved' = flash'[w].cell[u]
      BY <2>1, <2>2 DEF Moved
    <3>. QED
      BY <2>4, <3>1 DEF SameCells
  <2>6. ~Expected /\ Expected'
    <3>1. Used(w)' = Used(w) /\ (frame.off < Used(frame.victim))'
      BY <2>1, <2>2, <2>3, <2>4 DEF Used
    <3>. QED
      BY <2>1, <2>3, <2>5, <3>1 DEF Expected, Moving, Movable
  <2>7. PageRoom(load, fill)' /\ ctx'.active = p
    BY <1>1, <1>2, <2>1, <2>2, <2>3, <2>6, TakeRoom DEF RoomyStore
  <2>8. Placing'
    BY <1>1, <1>2, <2>1, <2>2, <2>3, <2>7 DEF Placing
  <2>9. \A k \in Keys : Stored(k)' => Stored(k)
    BY <2>4, SameCellsLive, SameStored
  <2>. QED
    BY <1>4, <2>7, <2>8, <2>9
<1>10. CASE RealignCopy
  <2>1. /\ Moving /\ Movable /\ pc = "Realign" /\ HasRoom(ctx.active, Moved.size)
        /\ Storable(ctx.active, Moved.size) /\ WriteItem(ctx.active, Moved)
        /\ frame'.loc = frame.loc /\ frame'.victim = frame.victim
        /\ pc' = IF Fills(ctx.active, Moved.size) THEN "CopySeal" ELSE "Realign"
    BY <1>2, <1>10 DEF RealignCopy, CanCopy, Moving, Goto, Frame
  <2>2. PICK a \in Pages : a = ctx.active /\ Status(a) = "ACTIVE"
    BY <1>2, <2>1 DEF Placing, OneActive
  <2>3. /\ frame.victim \in Pages /\ frame.off \in Offsets /\ Status(frame.victim) = "FULL"
        /\ Moved.kind = "live" /\ Current(Moved.key, frame.victim, frame.off)
    BY <1>2, <2>1, MovingFacts DEF Movable
  <2>4. PICK k \in Keys : k = Moved.key /\ Moved.size = Size(k)
    BY <1>2, <2>1, <2>3, MovingFacts
  <2>5. k \notin KeysOn(a)
    BY <1>2, <2>1, <2>2, <2>3, <2>4, MovedAlone
  <2>6. Moved \in Cell /\ Neat(Moved)
    <3>1. Moved = flash[frame.victim].cell[frame.off]
      BY DEF Moved
    <3>2. PageOK(flash[frame.victim], ctx.page[frame.victim], TRUE)
      BY <2>1, <2>3, LayoutWhole DEF Core, StoreInv
    <3>3. Moved \in Cell
      BY <2>3, <3>1 DEF Core, IInv, DataInv, FlashOK, FlashPage
    <3>. QED
      BY <2>3, <3>1, <3>2, <3>3 DEF PageOK, Tidy
  <2>7. /\ PageRoom(load, fill)' /\ ctx'.active = a
        /\ \A q \in Pages, o \in Offsets, j \in Keys :
             Holds(q, o, j)' <=> Holds(q, o, j) \/ (q = a /\ o = Used(a) /\ j = k)
    BY <1>2, <2>1, <2>2, <2>3, <2>4, <2>5, <2>6, PutRoom DEF RoomyStore
  <2>8. ~Fills(a, Moved.size)
    <3>1. BytesLeft(Used(a) + Size(k)) >= ItemHeaderSize
      <4>1. CASE k \in Updated
        BY <1>2, <2>2, <2>5, <4>1, ActiveClean DEF RoomyStore, Core, PageRoom
      <4>2. CASE k \notin Updated
        <5>1. (KeysOn(a) \ Updated) \cup ({k} \ Updated) # {}
          BY <4>2
        <5>. QED
          BY <1>2, <2>1, <2>2, <2>4, <2>5, <5>1, NoExactFit
          DEF RoomyStore, Roomy, Core, PageRoom
      <4>. QED
        BY <4>1, <4>2
    <3>2. Used(a) \in Nat /\ Size(k) \in Nat /\ PageSize \in Nat
      BY SizeType, RoomLeft, PagesAssumption DEF Core
    <3>. QED
      BY <2>4, <3>1, <3>2 DEF Fills, BytesLeft, PageHeaderSize, ItemHeaderSize
  <2>9. Placing'
    BY <1>1, <1>2, <2>1, <2>2, <2>7, <2>8 DEF Placing
  <2>10. ASSUME NEW j \in Keys, Stored(j)' PROVE Stored(j)
    <3>1. PICK q \in Pages, o \in Offsets : Holds(q, o, j)'
      BY <2>10 DEF Stored
    <3>2. Holds(q, o, j) \/ j = k
      BY <2>7, <3>1
    <3>. QED
      BY <2>3, <2>4, <3>2 DEF Stored, Current
  <2>. QED
    BY <1>4, <2>7, <2>9, <2>10
<1>11. CASE RealignEnd
  <2>1. pc = "Realign" /\ ~Moving /\ ErasePage(frame.victim) /\ pc' = "Recheck" /\ UNCHANGED frame
    BY <1>11 DEF RealignEnd, Goto
  <2>2. PICK w \in Pages : w = frame.victim /\ Status(w) = "FULL"
    BY <1>2, <2>1 DEF Frame, Core, IInv, Control, RealignControl
  <2>3. ~Expected /\ ctx.active \in Pages
    BY <1>2, <2>1 DEF Expected, Placing
  <2>4. /\ PageRoom(load, fill)' /\ ctx'.active = ctx.active
        /\ \A k \in Keys : Stored(k)' => Stored(k)
    BY <1>1, <1>2, <2>1, <2>2, <2>3, EraseRoom
  <2>5. Placing'
    BY <1>1, <1>2, <2>1, <2>3, <2>4 DEF Placing
  <2>. QED
    BY <1>4, <2>4, <2>5
<1>12. ~RealignCorrupt /\ ~RealignFails /\ ~CopySeal
  <2>1. ~RealignCorrupt
    BY <1>2, MovingFacts DEF RealignCorrupt
  <2>2. ~RealignFails
    BY RoomNoMishap DEF RealignFails, NoMishap, Stuck
  <2>3. ~CopySeal
    BY <1>1 DEF CopySeal
  <2>. QED
    BY <2>1, <2>2, <2>3
<1>. QED
  BY <1>5, <1>6, <1>7, <1>8, <1>9, <1>10, <1>11, <1>12 DEF Realign

LEMMA AppendRoom ==
  ASSUME NEW load, NEW fill, RoomyStore(load, fill), Core, RoomInv(load, fill), pc = "Append",
         Write
  PROVE  RoomInv(load, fill)'
<1>1. /\ Storable(frame.pg, Need) /\ OnlyResets /\ PageRoom(load, fill) /\ Writing /\ Known
      /\ ~Replacing /\ ~Written /\ ~InRealign /\ pc \in Before /\ Placing
  BY RoomyFacts DEF RoomInv, CallRoom, Placing, Replacing, Written, InRealign, Before
<1>2. /\ WriteItem(frame.pg, LiveCell(call.key, call.val)) /\ UNCHANGED <<frame, call, ret, expect>>
      /\ pc' = IF Fills(frame.pg, Need) THEN "AppendSeal" ELSE "Wrote"
  BY <1>1 DEF Write, AppendRefused, AppendItem, AppendSeal, WriteDeletesOld, WriteReturns,
     CanAppend, Goto
<1>3. PICK p \in Pages : p = frame.pg /\ Status(p) = "ACTIVE"
  BY <1>1 DEF Storable, Core, StoreInv, Targets
<1>4. PICK k \in Keys, v \in Vals : k = call.key /\ v = call.val
  BY <1>1, OldCopy
<1>5. Need = Size(k) /\ ~Written
  BY <1>1, <1>4 DEF Need
<1>6. k \in KeysOn(p) => k \in Updated /\ p = frame.loc.page
  BY <1>1, <1>4, OldAlone
<1>. DEFINE c == LiveCell(k, v)
<1>7. c \in Cell /\ Neat(c) /\ c.kind = "live" /\ c.key = k /\ c.size = Size(k)
  BY CellTypes, SizeType DEF LiveCell, Neat
<1>8. Replacing' /\ Written' /\ (p = frame.loc.page => OldHere(p)')
  BY <1>2 DEF Replacing, Written, OldHere
<1>. HIDE DEF c
<1>9. /\ PageRoom(load, fill)' /\ ctx'.active = ctx.active
      /\ Used(p) \in Offsets /\ flash[p].cell[Used(p)] = Blank
      /\ \A q \in Pages, o \in Offsets, j \in Keys :
           Holds(q, o, j)' <=> Holds(q, o, j) \/ (q = p /\ o = Used(p) /\ j = k)
      /\ \A q \in Pages : Status(q)' = Status(q)
  <2>1. WriteItem(p, c) /\ Storable(p, c.size)
    BY <1>1, <1>2, <1>3, <1>4, <1>5, <1>7 DEF c
  <2>2. k \in Updated \/ k \notin KeysOn(p)
    BY <1>6
  <2>3. k \in KeysOn(p) => OldHere(p)'
    BY <1>6, <1>8
  <2>. QED
    BY <1>1, <1>3, <1>7, <2>1, <2>2, <2>3, PutRoom DEF RoomyStore
<1>10. NewThere'
  <2>1. PICK r \in Offsets : r = Used(p)
    BY <1>9
  <2>2. Holds(p, r, k)'
    BY <1>9, <2>1
  <2>3. Stored(k) => k \in Updated /\ Holds(frame.loc.page, frame.loc.off, k)
    BY <1>1, <1>4, OldCopy
  <2>4. ~Stored(k) => frame.loc.page = NoPage
    BY <1>1, <1>4, OldCopy
  <2>5. frame.loc.page # p \/ frame.loc.off # r
    BY <1>9, <2>1, <2>3, <2>4, PagesFacts DEF Holds, Blank
  <2>6. \A q \in Pages : Status(q)' = "ACTIVE" => q = p
    BY <1>1, <1>3, <1>9 DEF PageRoom, OneActive
  <2>. QED
    BY <1>2, <1>3, <1>4, <2>2, <2>3, <2>4, <2>5, <2>6 DEF NewThere
<1>11. Writing' /\ Known'
  <2>1. \A j \in Keys : Stored(j)' => Stored(j) \/ j = k
    BY <1>9 DEF Stored
  <2>. QED
    BY <1>1, <1>2, <1>4, <1>8, <2>1, WordsKept
<1>12. BootBlank' /\ Placing'
  BY <1>1, <1>2 DEF BootBlank, Placing
<1>. QED
  BY <1>9, <1>10, <1>11, <1>12 DEF RoomInv, CallRoom

LEMMA WriteRoom ==
  ASSUME NEW load, NEW fill, RoomyStore(load, fill), Core, RoomInv(load, fill), Write
  PROVE  RoomInv(load, fill)'
<1>1. /\ OneActive /\ Placing /\ Writing /\ Known /\ NewThere /\ PageRoom(load, fill)
      /\ frame \in Frame /\ ctx \in Ctx
  BY DEF RoomInv, PageRoom, CallRoom, Core, IInv, RestOK, DataInv, CtxOK
<1>2. CASE pc = "Append"
  BY <1>2, AppendRoom
<1>3. CASE AppendSeal
  <2>1. /\ pc = "AppendSeal" /\ pc' = "Wrote" /\ UpdateStatus(frame.pg, "FULL")
        /\ UNCHANGED <<frame, call, ret, expect>>
    BY <1>3 DEF AppendSeal, Goto
  <2>2. PICK p \in Pages : p = frame.pg /\ Status(p) = "ACTIVE"
    BY <1>1, <2>1 DEF Frame, Core, StoreInv, Targets
  <2>3. ~Expected /\ Replacing /\ Replacing' /\ Written /\ Written'
    BY <2>1 DEF Expected, Moving, Replacing, Written
  <2>4. Used(p) > 0
    BY <1>1, <2>2, <2>3 DEF PageRoom, Tenanted, InUse, Ctx, RamPage, Used
  <2>5. /\ PageRoom(load, fill)' /\ SameCells /\ \A q \in Pages : Status(q)' # "ACTIVE"
    BY <1>1, <2>1, <2>2, <2>3, <2>4, SealRoom DEF OldHere
  <2>6. NewThere'
    <3>1. PICK k \in Keys, r \in Offsets :
            /\ k = call.key /\ Holds(p, r, k) /\ (p # frame.loc.page \/ r # frame.loc.off)
      BY <1>1, <2>1, <2>2, <2>3 DEF NewThere, Core, IInv, Control, CallControl
    <3>2. Holds(p, r, k)'
      BY <2>5, <3>1 DEF SameCells, Holds
    <3>. QED
      BY <1>1, <2>1, <2>2, <2>3, <2>5, <3>1, <3>2 DEF NewThere
  <2>7. \A k \in Keys : Stored(k)' => Stored(k)
    BY <2>5, SameCellsLive, SameStored
  <2>8. Writing' /\ Known'
    BY <1>1, <2>1, <2>3, <2>7, WordsKept
  <2>9. BootBlank' /\ Placing'
    BY <1>1, <2>1 DEF BootBlank, Placing
  <2>. QED
    BY <2>5, <2>6, <2>8, <2>9 DEF RoomInv, CallRoom
<1>4. CASE WriteDeletesOld
  <2>1. /\ pc = "Wrote" /\ UNCHANGED <<flash, call, ret, expect>>
        /\ ctx' = [ctx EXCEPT !.active = IF Status(frame.pg) = "ACTIVE" THEN frame.pg ELSE @]
        /\ frame'.loc = frame.loc /\ frame'.pg = frame.pg
        /\ \/ frame.loc.page = NoPage /\ pc' = "Done"
           \/ frame.loc.page # NoPage /\ pc' = "Del" /\ frame'.back = "Done"
    BY <1>1, <1>4 DEF WriteDeletesOld, Goto, Frame
  <2>2. PICK p \in Pages : p = frame.pg
    BY <1>1 DEF Frame
  <2>3. UNCHANGED ctx
    BY <1>1, <2>1, <2>2 DEF OneActive, Ctx
  <2>4. /\ ~Expected /\ Replacing /\ Written /\ Written'
        /\ \A q \in Pages : OldHere(q) => OldHere(q)'
    BY <2>1, PagesFacts DEF Expected, Moving, Replacing, Written, OldHere
  <2>5. PageRoom(load, fill)'
    BY <1>1, <2>1, <2>3, <2>4, QuietRoom
  <2>6. NewThere'
    <3>1. PICK k \in Keys, r \in Offsets :
            /\ k = call.key /\ Holds(p, r, k) /\ (p # frame.loc.page \/ r # frame.loc.off)
      BY <1>1, <2>1, <2>2, <2>4 DEF NewThere, Core, IInv, Control, CallControl
    <3>2. Holds(p, r, k)'
      BY <2>1, <3>1 DEF Holds
    <3>3. \A q \in Pages : Status(q)' = "ACTIVE" => q = p
      BY <1>1, <2>1, <2>2, <2>3, <2>4 DEF NewThere, Status
    <3>. QED
      BY <1>1, <2>1, <2>2, <2>4, <3>1, <3>2, <3>3 DEF NewThere
  <2>7. Writing' /\ Known'
    BY <1>1, <2>1, <2>4, WordsKept, SameStoredFlash
  <2>8. BootBlank' /\ Placing'
    BY <1>1, <2>1 DEF BootBlank, Placing
  <2>. QED
    BY <2>5, <2>6, <2>7, <2>8 DEF RoomInv, CallRoom
<1>5. CASE WriteReturns
  <2>1. /\ UNCHANGED <<flash, ctx>> /\ pc = "Done" /\ pc' = "Idle" /\ call' = NoCall
        /\ ret'.kind = "ok" /\ expect' = [expect EXCEPT ![call.key] = {call.val}]
    BY <1>5 DEF WriteReturns, Return
  <2>2. ~Expected /\ ~Replacing /\ ~Replacing'
    BY <2>1 DEF Expected, Moving, Replacing
  <2>3. PageRoom(load, fill)'
    BY <1>1, <2>1, <2>2, QuietRoom DEF OldHere
  <2>4. BootBlank' /\ NewThere' /\ Placing' /\ Writing'
    BY <2>1, <2>2 DEF BootBlank, NewThere, Placing, Writing, NoCall
  <2>5. call.val # NoVal
    <3>1. call.op = "write"
      BY <2>1 DEF Core, CallInv, Course, Searching, IInv, RestOK, Call
    <3>. QED
      BY <1>1, <3>1, KeysAssumption DEF Writing
  <2>6. ASSUME NEW k \in Keys, NoVal \in expect'[k], Stored(k)'
        PROVE  FALSE
    <3>1. expect \in [Keys -> SUBSET (Vals \cup {NoVal})]
      BY DEF Core, IInv, RestOK
    <3>2. k # call.key /\ NoVal \in expect[k]
      BY <2>1, <2>5, <2>6, <3>1
    <3>. QED
      BY <1>1, <2>1, <2>6, <3>2, SameStoredFlash DEF Known
  <2>. QED
    BY <2>3, <2>4, <2>6 DEF RoomInv, CallRoom, Known
<1>. QED
  BY <1>2, <1>3, <1>4, <1>5 DEF Write, AppendRefused, AppendItem, CanAppend

LEMMA RoomInit ==
  ASSUME NEW load, NEW fill, Init
  PROVE  RoomInv(load, fill)
<1>1. /\ pc = "Boot" /\ flash = [p \in Pages |-> BlankPage] /\ frame.pg = 0 /\ call.op = "none"
      /\ ret.kind = "none" /\ ctx.active = NoPage
      /\ \A p \in Pages : Status(p) = "UNAVAILABLE"
  BY DEF Init, BootCtx, NoFrame, NoCall, NoRet, Status, FreshPage
<1>2. PageRoom(load, fill)
  BY <1>1, PagesFacts
  DEF PageRoom, OneActive, Levels, Loads, Tenanted, UpdatedHere, InUse
<1>3. ~Replacing /\ \A k \in Keys : ~Stored(k)
  BY <1>1 DEF Replacing, Stored, Holds, BlankPage, Blank
<1>4. BootBlank
  BY <1>1, PagesFacts DEF BootBlank
<1>. QED
  BY <1>1, <1>2, <1>3, <1>4 DEF RoomInv, CallRoom, NewThere, Writing, Known, Placing

LEMMA RoomStep ==
  ASSUME NEW load, NEW fill, RoomyStore(load, fill), Core, RoomInv(load, fill), [Next]_vars
  PROVE  Core' /\ RoomInv(load, fill)'
<1>1. OnlyResets /\ CalmFaults /\ Faults = {}
  BY RoomyFacts
<1>2. IInv' /\ StoreInv'
  BY <1>1, NextInv, StoreStep DEF Core
<1>3. RoomInv(load, fill)'
  <2>1. CASE UNCHANGED vars
    <3>1. PageRoom(load, fill)'
      BY <2>1, QuietRoom DEF vars, RoomInv, OldHere, Replacing, Expected, Moving, Movable, Moved, Used
    <3>2. CallRoom'
      BY <2>1 DEF vars, RoomInv, CallRoom, BootBlank, Status, NewThere, Replacing, Holds, Writing,
         MayWrite, Known, Stored, Written, Placing, Used, Movable, Moved, Storable, Need
    <3>. QED
      BY <3>1, <3>2 DEF RoomInv
  <2>2. CASE Step
    BY <2>2, BootRoom, FindRoom, DeleteRoom, GetPageRoom, RealignRoom, WriteRoom DEF Step
  <2>3. CASE Calls
    BY <2>3, CallRoomStep
  <2>4. CASE Reset \/ PowerLoss \/ TornWrite \/ TornErase \/ Decay
    BY <1>1, <2>4 DEF Reset, PowerLoss, TornWrite, TornErase, Decay, Fault
  <2>. QED
    BY <2>1, <2>2, <2>3, <2>4 DEF Next
<1>4. NoMishap
  BY RoomNoMishap
<1>5. CopiesInv' /\ CallInv'
  <2>1. CASE Boot
    BY <1>1, <2>1, BootRoom, BootCopies DEF Core
  <2>2. CASE Find
    BY <1>1, <2>2, FindCopies DEF Core
  <2>3. CASE Delete
    BY <1>1, <2>3, DeleteCopies DEF Core
  <2>4. CASE GetPage
    BY <1>1, <2>4, GetPageCopies DEF Core
  <2>5. CASE Realign
    BY <1>1, <1>4, <2>5, RealignCopies DEF Core
  <2>6. CASE Write
    BY <1>1, <2>6, WriteCopies DEF Core
  <2>7. CASE Calls
    BY <2>7, BeginCopies DEF Core
  <2>8. CASE Reset \/ PowerLoss \/ TornWrite \/ TornErase \/ Decay
    BY <1>1, <2>8 DEF Reset, PowerLoss, TornWrite, TornErase, Decay, Fault
  <2>9. CASE UNCHANGED vars
    <3>1. ~BootIncomplete'
      BY <1>4, <2>9 DEF vars, NoMishap, BootIncomplete, NonePage, Status
    <3>. QED
      BY <1>1, <1>4, <2>9, <3>1, CopiesStep DEF Core
  <2>. QED
    BY <2>1, <2>2, <2>3, <2>4, <2>5, <2>6, <2>7, <2>8, <2>9 DEF Next, Step
<1>. QED
  BY <1>2, <1>3, <1>5 DEF Core

(* Where the sizes are Roomy and the store has run without faults since it *)
(* was blank, every page holds one of the fills or loads, there is one     *)
(* ACTIVE page at most, and each part of a call finds the page it needs:   *)
(* the strengthening from which the capacity is enough for ever.           *)
THEOREM RoomInvariance ==
  ASSUME NEW load, NEW fill, RoomyStore(load, fill)
  PROVE  Spec => [](Core /\ RoomInv(load, fill))
<1>1. Init => Core /\ RoomInv(load, fill)
  BY InitInv, StoreInit, InitCopies, RoomInit DEF Core
<1>2. Core /\ RoomInv(load, fill) /\ [Next]_vars => (Core /\ RoomInv(load, fill))'
  BY RoomStep
<1>. QED
  BY <1>1, <1>2, PTL DEF Spec

(* Such a store never realigns the page on which a call found the old      *)
(* copy, nor runs out of pages in a realignment, drops an item, or gives   *)
(* up its boot.                                                            *)
THEOREM RoomyNoMishap ==
  ASSUME NEW load, NEW fill, RoomyStore(load, fill)
  PROVE  Spec => []NoMishap
<1>. QED
  BY RoomInvariance, RoomNoMishap, PTL

(* No call of such a store fails: st_get_available_page always finds a     *)
(* page, and the bounds of the append always hold.                         *)
THEOREM RoomyCallsSucceed ==
  ASSUME NEW load, NEW fill, RoomyStore(load, fill)
  PROVE  Spec => []CallsSucceed
<1>. QED
  BY RoomInvariance, RoomNoMishap, PTL

(* Such a store is the map of KVStore, with nothing assumed of its runs.   *)
THEOREM RoomyStoreIsAMap ==
  ASSUME NEW load, NEW fill, RoomyStore(load, fill)
  PROVE  Spec => ImplementsKV
<1>. QED
  BY RoomyNoMishap, RoomyCallsSucceed, StoreImplementsKV, PTL DEF RoomyStore

(* Such a store keeps one copy of every item, has one at every moment, and *)
(* reads what was written without deleting anything.                       *)
THEOREM RoomyStoreIsSound ==
  ASSUME NEW load, NEW fill, RoomyStore(load, fill)
  PROVE  Spec => /\ []NoDuplicates /\ []AlwaysRecoverable
                 /\ []ReadsReturnWritten /\ []ReadsNeverStale
                 /\ ReadKeepsData
<1>1. OnlyResets
  BY RoomyFacts
<1>. QED
  BY <1>1, RoomyNoMishap, NoItemTwice, ItemsStay, ReadsAreTrue, ReadsDeleteNothing, PTL

=============================================================================
