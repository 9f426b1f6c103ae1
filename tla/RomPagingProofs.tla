---------------------------- MODULE RomPagingProofs -----------------------------
(***************************************************************************)
(* Theorems about RomPaging for every ROM size, every buffer of at least    *)
(* two slots and every pattern of failed reads, with any changes of game.   *)
(***************************************************************************)
EXTENDS RomPaging, WellFoundedInduction, FiniteSetTheorems, TLAPS

-------------------------------------------------------------------------------
(* The eviction scans find a slot. *)

(* A non-empty set of naturals has a least element. *)
LEMMA LeastNat ==
  ASSUME NEW T \in SUBSET Nat, T # {}
  PROVE  \E x \in T : \A y \in T : x <= y
<1> DEFINE R == {ss \in Nat \X Nat : ss[1] < ss[2]}
<1>1. IsWellFoundedOn(R, Nat)
  BY NatLessThanWellFounded DEF OpToRel
<1>2. PICK x \in T : \A y \in T : ~ (<<y, x>> \in R)
  <2> HIDE DEF R
  <2> QED
    BY <1>1, WFMin
<1>3. ASSUME NEW y \in T PROVE x <= y
  <2>1. x \in Nat /\ y \in Nat
    OBVIOUS
  <2>2. ~ (<<y, x>> \in R)
    BY <1>2
  <2>3. <<y, x>> \in Nat \X Nat /\ <<y, x>>[1] = y /\ <<y, x>>[2] = x
    BY <2>1
  <2>4. ~ (y < x)
    <3> SUFFICES ASSUME y < x PROVE FALSE
      OBVIOUS
    <3>1. <<y, x>>[1] < <<y, x>>[2]
      BY <2>3
    <3> QED
      BY <2>2, <2>3, <3>1, Zenon
  <2> QED
    BY <2>1, <2>4
<1> QED
  BY <1>3

(* Among some slots there is one with the smallest timestamp. *)
LEMMA OldestExists ==
  ASSUME NEW stamp \in [Slots -> Nat], NEW S \in SUBSET Slots, S # {}
  PROVE  \E s \in S : \A r \in S : stamp[s] <= stamp[r]
<1> DEFINE T == {stamp[s] : s \in S}
<1>1. T \in SUBSET Nat /\ T # {}
  OBVIOUS
<1>2. PICK x \in T : \A y \in T : x <= y
  BY <1>1, LeastNat
<1> QED
  BY <1>2

LEMMA SlotsAreNat == Slots \subseteq Nat /\ NULL \notin Slots /\ 0 \in Slots /\ 1 \in Slots
  BY PagingAssumption DEF Slots, NULL

(* evict_gamepak_page returns a slot of the buffer, and none is older. *)
LEMMA EvictedIsSlot ==
  ASSUME NEW t, t.stamp \in [Slots -> Nat]
  PROVE  /\ Evicted(t) \in Slots
         /\ \A r \in Slots : t.stamp[Evicted(t)] <= t.stamp[r]
<1>1. PICK s0 \in Slots : \A r \in Slots : t.stamp[s0] <= t.stamp[r]
  BY OldestExists, SlotsAreNat
<1> DEFINE S == {s \in Slots : t.stamp[s] = t.stamp[s0]}
           T == {gamepak_ram_pages - s : s \in S}
<1>2. T \in SUBSET Nat /\ T # {}
  BY PagingAssumption DEF Slots
<1>3. PICK x \in T : \A y \in T : x <= y
  BY <1>2, LeastNat
<1>4. PICK s \in S : x = gamepak_ram_pages - s
  OBVIOUS
<1>5. ASSUME NEW r \in Slots
      PROVE  t.stamp[s] < t.stamp[r] \/ (t.stamp[s] = t.stamp[r] /\ r <= s)
  <2>1. CASE t.stamp[r] = t.stamp[s0]
    <3>1. x <= gamepak_ram_pages - r
      BY <1>3, <2>1
    <3> QED
      BY <1>4, <2>1, <3>1, PagingAssumption DEF Slots
  <2>2. CASE t.stamp[r] # t.stamp[s0]
    BY <1>1, <1>4, <2>2
  <2> QED
    BY <2>1, <2>2
<1>6. \E q \in Slots : \A r \in Slots :
        t.stamp[q] < t.stamp[r] \/ (t.stamp[q] = t.stamp[r] /\ r <= q)
  BY <1>5
<1>7. /\ Evicted(t) \in Slots
      /\ \A r \in Slots : \/ t.stamp[Evicted(t)] < t.stamp[r]
                          \/ t.stamp[Evicted(t)] = t.stamp[r] /\ r <= Evicted(t)
  BY <1>6 DEF Evicted
<1> QED
  BY <1>7

(* evict_gamepak_page_except returns another slot than the one to keep, and *)
(* none of the others is older.                                            *)
LEMMA EvictedExceptIsSlot ==
  ASSUME NEW t, t.stamp \in [Slots -> Nat], NEW keep \in Slots
  PROVE  /\ EvictedExcept(t, keep) \in Slots \ {keep}
         /\ \A r \in Slots \ {keep} :
              t.stamp[EvictedExcept(t, keep)] <= t.stamp[r]
<1> DEFINE Others == Slots \ {keep}
<1>1. PICK s0 \in Others : \A r \in Others : t.stamp[s0] <= t.stamp[r]
  <2>1. Others # {} /\ Others \in SUBSET Slots
    <3>1. 0 \in Others \/ 1 \in Others
      BY SlotsAreNat
    <3> QED
      BY <3>1
  <2> HIDE DEF Others
  <2> QED
    BY <2>1, OldestExists
<1> DEFINE S == {s \in Others : t.stamp[s] = t.stamp[s0]}
<1>2. S \in SUBSET Nat /\ S # {}
  BY SlotsAreNat
<1>3. PICK s \in S : \A r \in S : s <= r
  BY <1>2, LeastNat
<1>4. ASSUME NEW r \in Others
      PROVE  t.stamp[s] < t.stamp[r] \/ (t.stamp[s] = t.stamp[r] /\ s <= r)
  BY <1>1, <1>3
<1>5. \E q \in Others : \A r \in Others :
        t.stamp[q] < t.stamp[r] \/ (t.stamp[q] = t.stamp[r] /\ q <= r)
  BY <1>4
<1>6. /\ EvictedExcept(t, keep) \in Others
      /\ \A r \in Others :
           \/ t.stamp[EvictedExcept(t, keep)] < t.stamp[r]
           \/ t.stamp[EvictedExcept(t, keep)] = t.stamp[r] /\ EvictedExcept(t, keep) <= r
  BY <1>5 DEF EvictedExcept
<1> QED
  BY <1>6

-------------------------------------------------------------------------------
(* What every load keeps. *)

(* A pointer leads to a slot that gamepak_memory_map says holds the page,   *)
(* and that does hold it; a slot that says it holds another page than 0 is  *)
(* pointed to from every mirror; the mirrors agree.  Pointers left over by  *)
(* another game are the exception.                                          *)
TableOK(t) ==
  /\ t.time \in Nat
  /\ t.stamp \in [Slots -> Nat]
  /\ t.index \in [Slots -> Pages]
  /\ t.map \in Pointers
  /\ DOMAIN t.content = Slots
  /\ \A m \in Mirrors, p \in Pages :
       t.map[m][p] # NULL =>
         \/ /\ t.index[t.map[m][p]] = p
            /\ t.content[t.map[m][p]] \in {<<game, p>>, <<game, Zeros>>}
         \/ LeftOver(t.map, m, p)
  /\ \A m \in Mirrors, s \in Slots :
       t.index[s] # 0 => t.map[m][t.index[s]] = s
  /\ \A m \in Mirrors, p \in Pages :
       t.map[m][p] = t.map["08"][p] \/ LeftOver(t.map, m, p)

(* The pointers after map_gamepak_physical_page. *)
LEMMA MappedPointers ==
  ASSUME NEW t, t.map \in Pointers, t.index \in [Slots -> Pages],
         NEW page \in Pages, NEW slot \in Slots, NEW readable
  PROVE  /\ Mapped(t, page, slot, readable).map \in Pointers
         /\ \A m \in Mirrors, p \in Pages :
              Mapped(t, page, slot, readable).map[m][p]
              = IF p = page THEN slot
                ELSE IF p = t.index[slot] THEN NULL ELSE t.map[m][p]
<1> DEFINE map == [m \in Mirrors |->
                     [Unmapped(t.map, t.index[slot])[m] EXCEPT ![page] = slot]]
<1>1. Mapped(t, page, slot, readable).map = map
  BY DEF Mapped
<1>2. ASSUME NEW m \in Mirrors
      PROVE  /\ map[m] \in [Pages -> Slots \cup {NULL}]
             /\ \A p \in Pages :
                  map[m][p] = IF p = page THEN slot
                              ELSE IF p = t.index[slot] THEN NULL
                              ELSE t.map[m][p]
  BY DEF Unmapped, Pointers
<1> HIDE DEF map
<1>3. map \in Pointers
  <2>1. DOMAIN map = Mirrors /\ map = [m \in Mirrors |-> map[m]]
    BY DEF map
  <2> QED
    BY <1>2, <2>1 DEF Pointers
<1> QED
  BY <1>1, <1>2, <1>3

(* map_gamepak_physical_page keeps the table sound when the page it maps    *)
(* was not resident.                                                        *)
LEMMA MappedOK ==
  ASSUME NEW t, TableOK(t), NEW page \in Pages, NEW slot \in Slots,
         NEW readable \in BOOLEAN, t.map["08"][page] = NULL
  PROVE  TableOK(Mapped(t, page, slot, readable))
<1> DEFINE u == Mapped(t, page, slot, readable)
<1>1. /\ u.time = t.time + 1
      /\ u.stamp = [t.stamp EXCEPT ![slot] = t.time]
      /\ u.index = [t.index EXCEPT ![slot] = page]
      /\ u.content = [t.content EXCEPT ![slot] =
                        IF readable THEN <<game, page>> ELSE <<game, Zeros>>]
  BY DEF Mapped
<1>2. /\ u.map \in Pointers
      /\ \A m \in Mirrors, p \in Pages :
           u.map[m][p] = IF p = page THEN slot
                         ELSE IF p = t.index[slot] THEN NULL ELSE t.map[m][p]
  BY MappedPointers DEF TableOK
<1> HIDE DEF u
<1>3. u.time \in Nat /\ u.stamp \in [Slots -> Nat] /\ u.index \in [Slots -> Pages]
      /\ DOMAIN u.content = Slots
  BY <1>1 DEF TableOK
<1>4. "08" \in Mirrors
  BY DEF Mirrors
<1>8. ASSUME NEW m \in Mirrors, NEW p \in Pages, p # page, LeftOver(t.map, m, p)
      PROVE  LeftOver(u.map, m, p)
  BY <1>2, <1>4, <1>8 DEF LeftOver
<1>5. ASSUME NEW m \in Mirrors, NEW p \in Pages, u.map[m][p] # NULL,
             ~LeftOver(u.map, m, p)
      PROVE  /\ u.index[u.map[m][p]] = p
             /\ u.content[u.map[m][p]] \in {<<game, p>>, <<game, Zeros>>}
  <2>1. CASE p = page
    <3>1. u.map[m][p] = slot
      BY <1>2, <2>1
    <3> QED
      BY <1>1, <2>1, <3>1 DEF TableOK
  <2>2. CASE p # page
    <3>1. p # t.index[slot] /\ u.map[m][p] = t.map[m][p] /\ t.map[m][p] # NULL
      BY <1>2, <1>5, <2>2
    <3>2. /\ t.map[m][p] \in Slots /\ t.index[t.map[m][p]] = p
          /\ t.content[t.map[m][p]] \in {<<game, p>>, <<game, Zeros>>}
      <4>1. ~LeftOver(t.map, m, p)
        BY <1>5, <1>8, <2>2
      <4> QED
        BY <3>1, <4>1 DEF TableOK, Pointers
    <3>3. t.map[m][p] # slot
      BY <3>1, <3>2
    <3> QED
      BY <1>1, <3>1, <3>2, <3>3 DEF TableOK
  <2> QED
    BY <2>1, <2>2
<1>6. ASSUME NEW m \in Mirrors, NEW s \in Slots, u.index[s] # 0
      PROVE  u.map[m][u.index[s]] = s
  <2>1. CASE s = slot
    BY <1>1, <1>2, <2>1 DEF TableOK
  <2>2. CASE s # slot
    <3>1. u.index[s] = t.index[s] /\ t.index[s] \in Pages
      BY <1>1, <2>2 DEF TableOK
    <3>2. t.map[m][t.index[s]] = s
      BY <1>6, <3>1 DEF TableOK
    <3>3. t.index[s] # page
      <4> SUFFICES ASSUME t.index[s] = page PROVE FALSE
        OBVIOUS
      <4>1. t.map["08"][page] = s
        BY <1>4, <1>6, <3>1 DEF TableOK
      <4> QED
        BY <4>1, SlotsAreNat
    <3>4. t.index[s] # t.index[slot]
      <4> SUFFICES ASSUME t.index[s] = t.index[slot] PROVE FALSE
        OBVIOUS
      <4>1. t.map[m][t.index[slot]] = slot
        BY <1>6, <3>1 DEF TableOK
      <4> QED
        BY <2>2, <3>2, <4>1
    <3> QED
      BY <1>2, <3>1, <3>2, <3>3, <3>4
  <2> QED
    BY <2>1, <2>2
<1>7. ASSUME NEW m \in Mirrors, NEW p \in Pages
      PROVE  u.map[m][p] = u.map["08"][p] \/ LeftOver(u.map, m, p)
  <2>1. CASE p = page \/ p = t.index[slot]
    BY <1>2, <1>4, <2>1
  <2>2. CASE p # page /\ p # t.index[slot]
    <3>1. t.map[m][p] = t.map["08"][p] \/ LeftOver(t.map, m, p)
      BY DEF TableOK
    <3> QED
      BY <1>2, <1>4, <1>8, <2>2, <3>1
  <2> QED
    BY <2>1, <2>2
<1> QED
  BY <1>2, <1>3, <1>5, <1>6, <1>7 DEF TableOK, u

(* load_gamepak_page keeps the table sound; the page it was asked for is in *)
(* the slot it returns, and mapped there unless it is page 0, whose number  *)
(* the prefetch may find in a slot that was never used.                     *)
LEMMA LoadedOK ==
  ASSUME NEW t, TableOK(t), NEW page \in Pages, t.map["08"][page] = NULL,
         NEW r1 \in BOOLEAN, NEW r2 \in BOOLEAN
  PROVE  /\ TableOK(Loaded(t, page, r1, r2))
         /\ page # 0 => Loaded(t, page, r1, r2).map["08"][page] = Evicted(t)
<1> DEFINE slot == Evicted(t)
           first == Mapped(t, page, slot, r1)
<1>1. slot \in Slots
  BY EvictedIsSlot DEF TableOK
<1> HIDE DEF slot
<1>2. TableOK(first)
  BY <1>1, MappedOK
<1>3. first.index[slot] = page /\ first.map["08"][page] = slot
  <2>1. first.index = [t.index EXCEPT ![slot] = page]
    BY DEF Mapped
  <2>2. first.map["08"][page] = slot
    BY <1>1, MappedPointers DEF TableOK, Mirrors
  <2> QED
    BY <1>1, <2>1, <2>2 DEF TableOK
<1> HIDE DEF first
<1>4. CASE ~Prefetches(first, page)
  <2>1. Loaded(t, page, r1, r2) = first
    BY <1>4 DEF Loaded, first, slot
  <2> QED
    BY <1>2, <1>3, <2>1 DEF slot
<1>5. CASE Prefetches(first, page)
  <2> DEFINE other == EvictedExcept(first, slot)
             last  == Mapped(first, page + 1, other, r2)
  <2>1. other \in Slots /\ other # slot
    BY <1>1, <1>2, EvictedExceptIsSlot DEF TableOK
  <2>2. page + 1 \in Pages /\ first.map["08"][page + 1] = NULL
    BY <1>5 DEF Prefetches
  <2>3. Loaded(t, page, r1, r2) = last
    BY <1>5 DEF Loaded, first, slot
  <2> HIDE DEF other
  <2>4. TableOK(last)
    BY <1>2, <2>1, <2>2, MappedOK
  <2>5. ASSUME page # 0 PROVE last.map["08"][page] = slot
    <3>1. first.index[other] # page
      <4> SUFFICES ASSUME first.index[other] = page PROVE FALSE
        OBVIOUS
      <4>1. first.map["08"][first.index[other]] = other
        BY <1>2, <2>1, <2>5 DEF TableOK, Mirrors
      <4> QED
        BY <1>3, <2>1, <4>1
    <3>2. page # page + 1
      BY PagingAssumption DEF Pages
    <3>3. "08" \in Mirrors
      BY DEF Mirrors
    <3>4. last.map["08"][page] = first.map["08"][page]
      BY <1>2, <2>1, <2>2, <3>1, <3>2, <3>3, MappedPointers DEF TableOK
    <3> QED
      BY <1>3, <3>4
  <2> QED
    BY <2>3, <2>4, <2>5 DEF slot
<1> QED
  BY <1>4, <1>5

-------------------------------------------------------------------------------
(* The specification. *)

(* The inductive invariant: the table is sound, and the PC is outside the   *)
(* ROM or in a page of it.                                                  *)
PagingInv ==
  /\ TableOK(Table)
  /\ game \in Nat
  /\ pc_page \in Pages \cup {Outside}

(* A table reached by becoming t is sound if t is; its bytes do not matter. *)
LEMMA BecomesOK ==
  ASSUME NEW t, TableOK(t), Becomes(t), game' = game
  PROVE  TableOK(Table)'
<1>1. /\ page_time' = t.time /\ page_timestamp' = t.stamp
      /\ physical_index' = t.index /\ content' = t.content
      /\ memory_map_read' = t.map
  BY DEF Becomes
<1> QED
  BY <1>1 DEF TableOK, Table, LeftOver

(* A call for a page, hit or miss; a pointer left over by another game is   *)
(* a hit.                                                                   *)
LEMMA AfterOK ==
  ASSUME TableOK(Table), NEW m \in Mirrors, NEW page \in Pages,
         NEW t \in After(m, page)
  PROVE  /\ TableOK(t)
         /\ page # 0 /\ t.time # page_time => t.map["08"][page] = Pointer(m, page)
<1>1. memory_map_read[m][page] = NULL => memory_map_read["08"][page] = NULL
  BY DEF TableOK, Table, LeftOver
<1>2. CASE memory_map_read[m][page] = NULL
  <2>1. PICK r1 \in BOOLEAN, r2 \in BOOLEAN : t = Loaded(Table, page, r1, r2)
    BY <1>2 DEF After
  <2>2. Table.map["08"][page] = NULL
    BY <1>1, <1>2 DEF Table
  <2> QED
    BY <1>2, <2>1, <2>2, LoadedOK DEF Pointer
<1>3. CASE memory_map_read[m][page] # NULL
  <2>1. t = Table
    BY <1>3 DEF After
  <2> QED
    BY <2>1 DEF Table
<1> QED
  BY <1>2, <1>3

LEMMA InitPaging == Init => PagingInv
<1> SUFFICES ASSUME Init PROVE PagingInv
  OBVIOUS
<1>1. 0 \in Pages
  BY PagingAssumption DEF Pages
<1>2. TableOK(Table)
  <2>1. /\ page_time \in Nat /\ page_timestamp \in [Slots -> Nat]
        /\ physical_index \in [Slots -> Pages] /\ DOMAIN content = Slots
        /\ \A s \in Slots : physical_index[s] = 0
    BY <1>1 DEF Init
  <2>2. /\ memory_map_read \in Pointers
        /\ \A m \in Mirrors, p \in Pages : memory_map_read[m][p] = NULL
        /\ \A p \in Pages : memory_map_read["08"][p] = NULL
    BY DEF Init, Pointers, Mirrors
  <2> QED
    BY <2>1, <2>2 DEF TableOK, Table
<1> QED
  BY <1>2 DEF Init, PagingInv

(* Loading another game empties the table but for what is left over in the  *)
(* upper half of the third mirror.                                          *)
LEMMA LoadGamepakOK ==
  ASSUME PagingInv, LoadGamepak
  PROVE  PagingInv'
<1>1. ASSUME NEW m \in Mirrors, NEW p \in Pages
      PROVE  memory_map_read'[m][p] = IF m = "0C" /\ p \in HighPages
                                      THEN memory_map_read[m][p] ELSE NULL
  BY DEF LoadGamepak, InitMap
<1>2. 0 \in Pages
  BY PagingAssumption DEF Pages
<1>3. /\ page_timestamp' = [s \in Slots |-> 0] /\ physical_index' = [s \in Slots |-> 0]
      /\ UNCHANGED <<page_time, content>> /\ game' = game + 1
  BY DEF LoadGamepak
<1>4. memory_map_read' \in Pointers
  <2>1. memory_map_read \in Pointers
    BY DEF PagingInv, TableOK, Table
  <2>2. \A m \in Mirrors, p \in Pages : memory_map_read[m][p] \in Slots \cup {NULL}
    BY <2>1 DEF Pointers
  <2>3. memory_map_read' = [m \in Mirrors |-> [p \in Pages |->
           IF m = "0C" /\ p \in HighPages THEN memory_map_read[m][p] ELSE NULL]]
    BY DEF LoadGamepak, InitMap
  <2> QED
    BY <2>2, <2>3 DEF Pointers
<1>5. "08" \in Mirrors
  BY DEF Mirrors
<1>6. ASSUME NEW m \in Mirrors, NEW p \in Pages
      PROVE  memory_map_read'[m][p] = NULL \/ LeftOver(memory_map_read, m, p)'
  <2>1. memory_map_read'["08"][p] = NULL /\ game' > 0
    BY <1>1, <1>3, <1>5 DEF PagingInv
  <2> QED
    BY <1>1, <2>1 DEF LeftOver
<1>7. \A m \in Mirrors, p \in Pages :
        memory_map_read'[m][p] = memory_map_read'["08"][p]
        \/ LeftOver(memory_map_read, m, p)'
  BY <1>1, <1>5, <1>6
<1>8. TableOK(Table)'
  BY <1>2, <1>3, <1>4, <1>6, <1>7 DEF PagingInv, Table, TableOK, LeftOver
<1> QED
  BY <1>3, <1>8 DEF LoadGamepak, PagingInv

(* A store to an RTC register leaves all of the table but bytes alone. *)
LEMMA RtcWritesBytes ==
  ASSUME NEW m, NEW page, NEW t \in After(m, page), NEW slot, NEW i, NEW value,
         Becomes([t EXCEPT !.bytes[slot][i] = value])
  PROVE  /\ page_time' = t.time /\ page_timestamp' = t.stamp
         /\ physical_index' = t.index /\ content' = t.content
         /\ memory_map_read' = t.map
<1> DEFINE Fields == {"time", "stamp", "index", "content", "map", "bytes"}
           u == [t EXCEPT !.bytes[slot][i] = value]
<1>1. \A v, p, s, r : DOMAIN Mapped(v, p, s, r) = Fields
  BY DEF Mapped
<1>2. \A v, p, r1, r2 : DOMAIN Loaded(v, p, r1, r2) = Fields
  BY <1>1 DEF Loaded
<1>3. DOMAIN Table = Fields
  BY DEF Table
<1>4. DOMAIN t = Fields
  BY <1>2, <1>3 DEF After
<1>5. /\ u.time = t.time /\ u.stamp = t.stamp /\ u.index = t.index
      /\ u.content = t.content /\ u.map = t.map
  BY <1>4
<1>6. Becomes(u)
  OBVIOUS
<1> HIDE DEF u
<1> QED
  BY <1>5, <1>6 DEF Becomes

LEMMA PagingStep ==
  ASSUME PagingInv, [Next]_vars
  PROVE  PagingInv'
<1>1. ASSUME NEW m \in Mirrors, NEW page \in Pages,
             ReadGamepak(m, page) \/ CheckPcRegion(m, page)
      PROVE  PagingInv'
  <2>1. PICK t \in After(m, page) : Becomes(t)
    BY <1>1 DEF ReadGamepak, CheckPcRegion, Access
  <2>2. game' = game /\ pc_page' \in Pages \cup {Outside}
    BY <1>1 DEF ReadGamepak, CheckPcRegion, pc, PagingInv
  <2> QED
    BY <2>1, <2>2, AfterOK, BecomesOK DEF PagingInv
<1>2. ASSUME NEW i \in 1 .. 3, NEW value \in RegisterValues, WriteRtc(i, value)
      PROVE  PagingInv'
  <2>1. PICK t \in After("08", 0) :
               Becomes([t EXCEPT !.bytes[Pointer("08", 0)][i] = value])
    BY <1>2 DEF WriteRtc
  <2>2. TableOK(t)
    BY <2>1, PagingAssumption, AfterOK DEF PagingInv, Pages, Mirrors
  <2>3. /\ page_time' = t.time /\ page_timestamp' = t.stamp
        /\ physical_index' = t.index /\ content' = t.content
        /\ memory_map_read' = t.map
    BY <2>1, RtcWritesBytes
  <2>4. game' = game /\ pc_page' = pc_page
    BY <1>2 DEF WriteRtc, pc
  <2> QED
    BY <2>2, <2>3, <2>4 DEF PagingInv, TableOK, Table, LeftOver
<1>3. CASE LeaveGamepak
  BY <1>3 DEF LeaveGamepak, table, PagingInv, TableOK, Table, LeftOver
<1>4. CASE LoadGamepak
  BY <1>4, LoadGamepakOK
<1>5. CASE UNCHANGED vars
  BY <1>5 DEF vars, table, pc, PagingInv, TableOK, Table, LeftOver
<1> QED
  BY <1>1, <1>2, <1>3, <1>4, <1>5 DEF Next

(* Every pointer of memory_map_read leads to the page of the loaded game    *)
(* that it stands for, whatever was evicted, prefetched or unreadable, but  *)
(* for the pointers init_memory_gamepak leaves above 0x0D000000 when the    *)
(* game changes, and those only until the page is loaded.                   *)
THEOREM PointersAreSound == Spec => []MapIsSound
<1>1. PagingInv => MapIsSound
  BY DEF PagingInv, TableOK, Table, MapIsSound, Holds
<1> QED
  BY <1>1, InitPaging, PagingStep, PTL DEF Spec

(* The three mirrors agree on what is resident, the same pointers apart.    *)
THEOREM MirrorsStayEqual == Spec => []MirrorsAgree
<1>1. PagingInv => MirrorsAgree
  BY DEF PagingInv, TableOK, Table, MirrorsAgree
<1> QED
  BY <1>1, InitPaging, PagingStep, PTL DEF Spec

(* The prefetch that follows a miss never takes the page just brought in,   *)
(* page 0 excepted.                                                         *)
THEOREM PrefetchSparesMiss == Spec => MissStaysMapped
<1>1. ASSUME PagingInv, [Next]_vars, pc_page' # pc_page, pc_page' \in Pages \ {0},
             page_time' # page_time
      PROVE  memory_map_read'["08"][pc_page'] = pc_slot'
  <2>1. ~ UNCHANGED pc_page
    BY <1>1
  <2>2. Outside \notin Pages
    BY PagingAssumption DEF Outside, Pages
  <2>3. PICK m \in Mirrors, page \in Pages : CheckPcRegion(m, page)
    BY <1>1, <2>1, <2>2 DEF Next, ReadGamepak, LeaveGamepak, WriteRtc,
                            LoadGamepak, vars, pc
  <2>4. pc_page' = page /\ pc_slot' = Pointer(m, page)
    BY <2>3 DEF CheckPcRegion
  <2>5. PICK t \in After(m, page) : Becomes(t)
    BY <2>3 DEF CheckPcRegion, Access
  <2>6. memory_map_read' = t.map /\ page_time' = t.time
    BY <2>5 DEF Becomes
  <2>7. t.map["08"][page] = Pointer(m, page)
    BY <1>1, <2>4, <2>6, AfterOK DEF PagingInv
  <2> QED
    BY <2>4, <2>6, <2>7
<1>2. PagingInv /\ [Next]_vars
      => [pc_page' # pc_page /\ pc_page' \in Pages \ {0} /\ page_time' # page_time
          => memory_map_read'["08"][pc_page'] = pc_slot']_vars
  BY <1>1
<1> QED
  BY <1>2, InitPaging, PagingStep, PTL DEF Spec, MissStaysMapped


-------------------------------------------------------------------------------
(* The interpreter's pointer into the page it runs in stays good for as     *)
(* many loads as the buffer has slots (HeldBlockSurvives).                  *)
(*                                                                          *)
(* Timestamps are distinct once they are not 0, and a load evicts the       *)
(* smallest.  While the held slot has the smallest stamp of all, every      *)
(* other slot was loaded after it, at a time of its own: that takes as many *)
(* loads as there are other slots, and the held one goes only then.         *)


(* Stamps are times gone by, and distinct unless the slot was never used. *)
Stamped(t) ==
  /\ \A s \in Slots : t.stamp[s] = 0 \/ t.stamp[s] < t.time
  /\ \A r, s \in Slots : r # s /\ t.stamp[r] = t.stamp[s] => t.stamp[s] = 0

(* Slot h, loaded at time c, still holds what it did or has had its time.   *)
Held(t, h, c) == c > 0 /\ t.time <= c + gamepak_ram_pages => t.stamp[h] = c

(* Some slot is older than h while fewer loads than there are slots have    *)
(* followed h's: the others would need distinct stamps between h's and now. *)
LEMMA OlderExists ==
  ASSUME NEW t, TableOK(t), Stamped(t), NEW h \in Slots,
         t.stamp[h] > 0, t.time < t.stamp[h] + gamepak_ram_pages
  PROVE  \E s \in Slots : t.stamp[s] < t.stamp[h]
<1> DEFINE c == t.stamp[h]
           Others == Slots \ {h}
           Later == c + 1 .. t.time - 1
           f == [s \in Others |-> t.stamp[s]]
<1> SUFFICES ASSUME \A s \in Slots : ~(t.stamp[s] < c) PROVE FALSE
  OBVIOUS
<1>1. c \in Nat /\ t.time \in Nat /\ c < t.time /\ gamepak_ram_pages \in Nat
  BY PagingAssumption DEF TableOK, Stamped
<1>2. ASSUME NEW s \in Others PROVE t.stamp[s] \in Later
  <2>1. t.stamp[s] \in Nat /\ t.stamp[s] >= c /\ t.stamp[s] # c
    BY <1>1 DEF TableOK, Stamped
  <2>2. t.stamp[s] < t.time
    BY <2>1, <1>1 DEF Stamped
  <2> QED
    BY <1>1, <2>1, <2>2
<1>3. f \in Injection(Others, Later)
  <2>1. ASSUME NEW r \in Others, NEW s \in Others, t.stamp[r] = t.stamp[s]
        PROVE  r = s
    <3>1. t.stamp[s] # 0
      BY <1>1, <1>2
    <3> QED
      BY <2>1, <3>1 DEF Stamped
  <2> QED
    BY <1>2, <2>1 DEF Injection, IsInjective
<1>4. /\ IsFiniteSet(Later)
      /\ Cardinality(Later) = t.time - 1 - c
  <2>1. c + 1 \in Int /\ t.time - 1 \in Int
    BY <1>1
  <2>2. /\ IsFiniteSet(Later)
        /\ Cardinality(Later) = IF c + 1 > t.time - 1 THEN 0
                                ELSE (t.time - 1) - (c + 1) + 1
    BY <2>1, FS_Interval
  <2> QED
    BY <1>1, <2>2
<1>5. /\ IsFiniteSet(Slots)
      /\ Cardinality(Slots) = gamepak_ram_pages
  BY <1>1, PagingAssumption, FS_Interval DEF Slots
<1>6. Cardinality(Others) = gamepak_ram_pages - 1
  BY <1>5, FS_RemoveElement
<1>7. Cardinality(Others) <= Cardinality(Later)
  <2> HIDE DEF f, Others, Later
  <2> QED
    BY <1>3, <1>4, FS_Injection
<1> QED
  BY <1>1, <1>4, <1>6, <1>7

(* map_gamepak_physical_page keeps stamps distinct, and what is held if it  *)
(* does not take that slot before its time.                                *)
LEMMA MappedHeld ==
  ASSUME NEW t, TableOK(t), Stamped(t), NEW page \in Pages, NEW slot \in Slots,
         NEW readable \in BOOLEAN
  PROVE  /\ Stamped(Mapped(t, page, slot, readable))
         /\ \A h \in Slots, c \in Nat :
              Held(t, h, c) /\ (c > 0 /\ t.time < c + gamepak_ram_pages => slot # h)
              => Held(Mapped(t, page, slot, readable), h, c)
<1> DEFINE u == Mapped(t, page, slot, readable)
<1>1. /\ u.time = t.time + 1
      /\ u.stamp = [t.stamp EXCEPT ![slot] = t.time]
  BY DEF Mapped
<1> HIDE DEF u
<1>2. ASSUME NEW s \in Slots
      PROVE  /\ u.stamp[s] = IF s = slot THEN t.time ELSE t.stamp[s]
             /\ t.stamp[s] \in Nat /\ t.time \in Nat
  BY <1>1 DEF TableOK
<1>3. Stamped(u)
  BY <1>1, <1>2 DEF Stamped
<1>4. ASSUME NEW h \in Slots, NEW c \in Nat, Held(t, h, c),
             c > 0 /\ t.time < c + gamepak_ram_pages => slot # h
      PROVE  Held(u, h, c)
  <2> SUFFICES ASSUME c > 0, u.time <= c + gamepak_ram_pages PROVE u.stamp[h] = c
    BY DEF Held
  <2>1. t.time < c + gamepak_ram_pages /\ t.time <= c + gamepak_ram_pages
    BY <1>1, <1>2, PagingAssumption
  <2> QED
    BY <1>2, <1>4, <2>1 DEF Held
<1> QED
  BY <1>3, <1>4 DEF u

(* load_gamepak_page spares what is held, twice if it prefetches.           *)
LEMMA LoadedHeld ==
  ASSUME NEW t, TableOK(t), Stamped(t), NEW page \in Pages, t.map["08"][page] = NULL,
         NEW r1 \in BOOLEAN, NEW r2 \in BOOLEAN
  PROVE  /\ Stamped(Loaded(t, page, r1, r2))
         /\ \A h \in Slots, c \in Nat :
              Held(t, h, c) => Held(Loaded(t, page, r1, r2), h, c)
<1> DEFINE slot == Evicted(t)
           first == Mapped(t, page, slot, r1)
<1>1. slot \in Slots /\ \A r \in Slots : t.stamp[slot] <= t.stamp[r]
  BY EvictedIsSlot DEF TableOK
<1> HIDE DEF slot
<1>2. /\ TableOK(first) /\ Stamped(first)
      /\ first.time = t.time + 1 /\ first.stamp[slot] = t.time
  <2>1. TableOK(first) /\ Stamped(first)
    BY <1>1, MappedOK, MappedHeld
  <2>2. /\ first.time = t.time + 1
        /\ first.stamp = [t.stamp EXCEPT ![slot] = t.time]
    BY DEF Mapped
  <2> HIDE DEF first
  <2> QED
    BY <1>1, <2>1, <2>2 DEF TableOK
<1>3. ASSUME NEW h \in Slots, NEW c \in Nat, Held(t, h, c)
      PROVE  Held(first, h, c)
  <2>1. ASSUME c > 0, t.time < c + gamepak_ram_pages PROVE slot # h
    <3>1. t.stamp[h] = c
      BY <1>3, <2>1, PagingAssumption DEF Held, TableOK
    <3>2. PICK s \in Slots : t.stamp[s] < t.stamp[h]
      BY <2>1, <3>1, OlderExists
    <3>3. t.stamp[s] \in Nat /\ t.stamp[h] \in Nat /\ t.stamp[slot] <= t.stamp[s]
      BY <1>1 DEF TableOK
    <3> QED
      BY <3>2, <3>3
  <2> QED
    BY <1>1, <1>3, <2>1, MappedHeld
<1> HIDE DEF first
<1>4. CASE ~Prefetches(first, page)
  <2>1. Loaded(t, page, r1, r2) = first
    BY <1>4 DEF Loaded, first, slot
  <2> QED
    BY <1>2, <1>3, <2>1 DEF slot
<1>5. CASE Prefetches(first, page)
  <2> DEFINE other == EvictedExcept(first, slot)
             last  == Mapped(first, page + 1, other, r2)
  <2>1. /\ other \in Slots \ {slot}
        /\ \A r \in Slots \ {slot} : first.stamp[other] <= first.stamp[r]
    BY <1>1, <1>2, EvictedExceptIsSlot DEF TableOK
  <2>2. page + 1 \in Pages
    BY <1>5 DEF Prefetches
  <2>3. Loaded(t, page, r1, r2) = last
    BY <1>5 DEF Loaded, first, slot
  <2> HIDE DEF other
  <2>4. ASSUME NEW h \in Slots, NEW c \in Nat, Held(first, h, c)
        PROVE  Held(last, h, c)
    <3>1. ASSUME c > 0, first.time < c + gamepak_ram_pages, h # slot PROVE other # h
      <4>1. first.stamp[h] = c
        BY <2>4, <3>1, <1>2, PagingAssumption DEF Held, TableOK
      <4>2. PICK s \in Slots : first.stamp[s] < first.stamp[h]
        BY <1>2, <3>1, <4>1, OlderExists
      <4>3. /\ first.stamp[s] \in Nat /\ first.stamp[h] \in Nat
            /\ first.time \in Nat /\ t.time \in Nat
        BY <1>2 DEF TableOK
      <4>4. s # slot
        BY <1>2, <3>1, <4>1, <4>2, <4>3 DEF Stamped
      <4> QED
        BY <2>1, <4>2, <4>3, <4>4
    <3> QED
      BY <1>2, <2>1, <2>2, <2>4, <3>1, MappedHeld
  <2>5. Stamped(last)
    BY <1>2, <2>1, <2>2, MappedHeld
  <2> HIDE DEF last
  <2> QED
    BY <1>2, <1>3, <2>3, <2>4, <2>5 DEF slot
<1> QED
  BY <1>4, <1>5

-------------------------------------------------------------------------------
(* The inductive invariant: stamps are distinct, and the CPU's slot still   *)
(* has the stamp with which it was taken, or has had its time.              *)
HeldInv ==
  /\ PagingInv
  /\ Stamped(Table)
  /\ pc_page # Outside =>
       /\ pc_slot \in Slots /\ pc_time \in Nat
       /\ Held(Table, pc_slot, pc_time)

(* A call for a page, hit or miss, spares what is held.                     *)
LEMMA AfterHeld ==
  ASSUME TableOK(Table), Stamped(Table), NEW m \in Mirrors, NEW page \in Pages,
         NEW t \in After(m, page)
  PROVE  /\ Stamped(t)
         /\ \A h \in Slots, c \in Nat :
              Held(Table, h, c) => Held(t, h, c)
         /\ Pointer(m, page) \in Slots
<1>1. CASE memory_map_read[m][page] = NULL
  <2>1. PICK r1 \in BOOLEAN, r2 \in BOOLEAN : t = Loaded(Table, page, r1, r2)
    BY <1>1 DEF After
  <2>2. Table.map["08"][page] = NULL
    BY <1>1 DEF Table, TableOK, LeftOver
  <2>3. Pointer(m, page) = Evicted(Table) /\ Evicted(Table) \in Slots
    BY <1>1, EvictedIsSlot DEF Pointer, TableOK
  <2> QED
    BY <2>1, <2>2, <2>3, LoadedHeld
<1>2. CASE memory_map_read[m][page] # NULL
  <2>1. t = Table /\ Pointer(m, page) = memory_map_read[m][page]
    BY <1>2 DEF After, Pointer
  <2> QED
    BY <1>2, <2>1 DEF TableOK, Table, Pointers
<1> QED
  BY <1>1, <1>2

(* What is said of a table holds of the variables that become it. *)
LEMMA BecomesHeld ==
  ASSUME NEW t, page_time' = t.time, page_timestamp' = t.stamp, Stamped(t)
  PROVE  /\ Stamped(Table)'
         /\ Held(t, pc_slot', pc_time')
            => Held(Table, pc_slot, pc_time)'
  BY DEF Stamped, Held, Table

LEMMA HeldStep ==
  ASSUME HeldInv, [Next]_vars
  PROVE  HeldInv'
<1> USE DEF HeldInv
<1>0. PagingInv'
  BY PagingStep
<1>1. ASSUME NEW m \in Mirrors, NEW page \in Pages, ReadGamepak(m, page)
      PROVE  HeldInv'
  <2>1. PICK t \in After(m, page) : Becomes(t)
    BY <1>1 DEF ReadGamepak, Access
  <2>2. Stamped(t) /\ (pc_page # Outside => Held(t, pc_slot, pc_time))
    BY AfterHeld DEF PagingInv
  <2>3. UNCHANGED <<game, pc_page, pc_slot, pc_time>>
    BY <1>1 DEF ReadGamepak, pc
  <2> QED
    BY <1>0, <2>1, <2>2, <2>3, BecomesHeld DEF Becomes
<1>2. ASSUME NEW m \in Mirrors, NEW page \in Pages, CheckPcRegion(m, page)
      PROVE  HeldInv'
  <2>1. PICK t \in After(m, page) : Becomes(t)
    BY <1>2 DEF CheckPcRegion, Access
  <2>2. /\ Stamped(t) /\ TableOK(t)
        /\ Pointer(m, page) \in Slots
    BY AfterHeld, AfterOK DEF PagingInv
  <2>3. /\ pc_page' = page /\ pc_slot' = Pointer(m, page) /\ game' = game
        /\ pc_time' = t.stamp[Pointer(m, page)]
    BY <1>2, <2>1 DEF CheckPcRegion, Becomes
  <2>4. Held(t, pc_slot', pc_time') /\ pc_time' \in Nat
    BY <2>2, <2>3 DEF Held, TableOK
  <2> QED
    BY <1>0, <2>1, <2>2, <2>3, <2>4, BecomesHeld DEF Becomes
<1>3. ASSUME NEW i \in 1 .. 3, NEW value \in RegisterValues, WriteRtc(i, value)
      PROVE  HeldInv'
  <2>1. PICK t \in After("08", 0) :
               Becomes([t EXCEPT !.bytes[Pointer("08", 0)][i] = value])
    BY <1>3 DEF WriteRtc
  <2>2. 0 \in Pages /\ "08" \in Mirrors
    BY PagingAssumption DEF Pages, Mirrors
  <2>3. Stamped(t) /\ (pc_page # Outside => Held(t, pc_slot, pc_time))
    BY <2>2, AfterHeld DEF PagingInv
  <2>4. page_time' = t.time /\ page_timestamp' = t.stamp
    BY <2>1, RtcWritesBytes
  <2>5. UNCHANGED <<game, pc_page, pc_slot, pc_time>>
    BY <1>3 DEF WriteRtc, pc
  <2> QED
    BY <1>0, <2>3, <2>4, <2>5, BecomesHeld
<1>4. CASE LeaveGamepak
  BY <1>0, <1>4 DEF LeaveGamepak, table, Stamped, Table
<1>5. CASE LoadGamepak
  <2>1. Stamped(Table)'
    BY <1>5 DEF LoadGamepak, Stamped, Table
  <2> QED
    BY <1>0, <1>5, <2>1 DEF LoadGamepak
<1>6. CASE UNCHANGED vars
  BY <1>0, <1>6 DEF vars, table, pc, Stamped, Held, Table
<1> QED
  BY <1>1, <1>2, <1>3, <1>4, <1>5, <1>6 DEF Next

(* The page the interpreter runs in is not evicted under its pointer before *)
(* as many pages have been loaded as the buffer has slots.                  *)
THEOREM HeldBlockIsSafe == Spec => []HeldBlockSurvives
<1>1. Init => HeldInv
  BY InitPaging DEF Init, HeldInv, Stamped, Table
<1>2. HeldInv => HeldBlockSurvives
  BY DEF HeldInv, Held, HeldBlockSurvives, Table
<1> QED
  BY <1>1, <1>2, HeldStep, PTL DEF Spec

===============================================================================
