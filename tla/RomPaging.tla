------------------------------- MODULE RomPaging --------------------------------
(***************************************************************************)
(* Demand paging of a ROM larger than the resident buffer (memory.c).       *)
(* gamepak_rom is an array of 32KB slots; memory_map_read points into it    *)
(* from the three mirrors of the ROM at 0x08, 0x0A and 0x0C.  A miss evicts *)
(* the slot with the smallest timestamp, reads the page from the file, and  *)
(* prefetches the page after it.  Timestamps are set when a page is loaded, *)
(* not when it is used.  The interpreter keeps the pointer it fetches       *)
(* instructions through until the PC leaves the page.                       *)
(***************************************************************************)
EXTENDS Naturals

CONSTANTS
  gamepak_ram_pages,  (* slots in the resident buffer                       *)
  RomPages,           (* pages in the ROM                                   *)
  HighPages,          (* pages whose 0x0C mirror lies at 0x0D000000 or more *)
  RegisterValues,     (* what the game writes to the RTC registers          *)
  MaxTime,            (* bound on page_time (TLC)                           *)
  MaxGames            (* bound on game loads (TLC)                          *)

Pages   == 0 .. RomPages - 1
Slots   == 0 .. gamepak_ram_pages - 1
Mirrors == {"08", "0A", "0C"}
NULL    == gamepak_ram_pages

ASSUME PagingAssumption ==
  /\ gamepak_ram_pages \in Nat \ {0, 1}
  /\ RomPages \in Nat \ {0}
  /\ HighPages \subseteq Pages
  /\ RegisterValues \subseteq 0 .. 255 /\ 0 \in RegisterValues
  /\ MaxTime \in Nat /\ MaxGames \in Nat

VARIABLES
  page_time,
  page_timestamp,   (* gamepak_memory_map, by slot                          *)
  physical_index,
  content,          (* what a slot holds: a page of a game, or zeros        *)
  memory_map_read,  (* by mirror and page, a slot or NULL                   *)
  rtc_enabled,      (* rtc_state # RTC_DISABLED                             *)
  rtc_registers,    (* the registers at 0xC4, 0xC6 and 0xC8                 *)
  rtc_bytes,        (* the halfwords a slot holds at those offsets          *)
  game,             (* the game loaded                                      *)
  pc_page, pc_slot, (* the page the CPU runs in, its pc_address_block       *)
  pc_time           (* the timestamp of that slot when the CPU took it      *)

table == <<page_time, page_timestamp, physical_index, content,
           memory_map_read, rtc_bytes>>
rtc   == <<rtc_enabled, rtc_registers>>
pc    == <<pc_page, pc_slot, pc_time>>
vars  == <<table, rtc, game, pc>>

Blank   == <<0, 0, 0>>
Zeros   == RomPages    (* a slot that is all zeros    *)
Outside == RomPages    (* the CPU runs outside the ROM *)

Pointers == [Mirrors -> [Pages -> Slots \cup {NULL}]]

-------------------------------------------------------------------------------
(* The page table as a value, so that a miss can change it twice. *)

Table == [time |-> page_time, stamp |-> page_timestamp,
          index |-> physical_index, content |-> content,
          map |-> memory_map_read, bytes |-> rtc_bytes]

Becomes(t) ==
  /\ page_time' = t.time /\ page_timestamp' = t.stamp
  /\ physical_index' = t.index /\ content' = t.content
  /\ memory_map_read' = t.map /\ rtc_bytes' = t.bytes

(* Mutant: the comparison is the wrong way round. *)
EvictedNewest(t) ==
  CHOOSE s \in Slots : \A r \in Slots :
    t.stamp[s] > t.stamp[r] \/ (t.stamp[s] = t.stamp[r] /\ r <= s)

(* evict_gamepak_page: the last slot among those with the smallest stamp. *)
Evicted(t) ==
  CHOOSE s \in Slots : \A r \in Slots :
    t.stamp[s] < t.stamp[r] \/ (t.stamp[s] = t.stamp[r] /\ r <= s)

(* Mutant: so is this one, and the slot to keep is not left out. *)
EvictedExceptNone(t, keep) ==
  CHOOSE s \in Slots : \A r \in Slots :
    t.stamp[s] > t.stamp[r] \/ (t.stamp[s] = t.stamp[r] /\ s <= r)

(* evict_gamepak_page_except: the first of the oldest, leaving out one. *)
EvictedExcept(t, keep) ==
  CHOOSE s \in Slots \ {keep} : \A r \in Slots \ {keep} :
    t.stamp[s] < t.stamp[r] \/ (t.stamp[s] = t.stamp[r] /\ s <= r)

(* Mutant: the page that leaves is not unmapped. *)
NotUnmapped(map, page) == map

(* Mutant: the third mirror is forgotten. *)
ThirdKept(map, page) ==
  [m \in Mirrors |-> IF m = "0C" THEN map[m] ELSE [map[m] EXCEPT ![page] = NULL]]

(* unmap_gamepak_physical_page *)
Unmapped(map, page) == [m \in Mirrors |-> [map[m] EXCEPT ![page] = NULL]]

(* map_gamepak_physical_page: page goes into slot, which is evicted.  If    *)
(* the file cannot be read the slot is zeroed and mapped all the same.  The *)
(* RTC registers are copied over page 0 as three consecutive BYTES.         *)
Mapped(t, page, slot, readable) ==
  [time    |-> t.time + 1,
   stamp   |-> [t.stamp EXCEPT ![slot] = t.time],
   index   |-> [t.index EXCEPT ![slot] = page],
   content |-> [t.content EXCEPT ![slot] =
                  IF readable THEN <<game, page>> ELSE <<game, Zeros>>],
   map     |-> [m \in Mirrors |->
                  [Unmapped(t.map, t.index[slot])[m] EXCEPT ![page] = slot]],
   bytes   |-> [t.bytes EXCEPT ![slot] =
                  IF rtc_enabled /\ page = 0
                  THEN <<rtc_registers[1] + 256 * rtc_registers[2],
                         rtc_registers[3], 0>>
                  ELSE Blank]]

(* prefetch_adjacent_gamepak_page; only the 0x08 mirror is asked. *)
Prefetches(t, page) == page + 1 \in Pages /\ t.map["08"][page + 1] = NULL

(* load_gamepak_page(page): the table after it. *)
Loaded(t, page, readable, next_readable) ==
  LET first == Mapped(t, page, Evicted(t), readable)
  IN IF Prefetches(first, page)
     THEN Mapped(first, page + 1, EvictedExcept(first, Evicted(t)), next_readable)
     ELSE first

(* The slot a caller that asks for a page through a mirror gets. *)
Pointer(m, page) ==
  IF memory_map_read[m][page] = NULL THEN Evicted(Table)
  ELSE memory_map_read[m][page]

(* The tables after such a call, which loads the page if it has to. *)
After(m, page) ==
  IF memory_map_read[m][page] = NULL
  THEN {Loaded(Table, page, readable, next_readable) :
          readable \in BOOLEAN, next_readable \in BOOLEAN}
  ELSE {Table}

Access(m, page) == \E t \in After(m, page) : t.time <= MaxTime /\ Becomes(t)

-------------------------------------------------------------------------------
(* init_memory_gamepak for a large ROM.  map_null stops at 0x0D000000, so   *)
(* the upper half of the third mirror keeps what it had.                    *)
InitMap(map) ==
  [m \in Mirrors |-> [p \in Pages |->
     IF m = "0C" /\ p \in HighPages THEN map[m][p] ELSE NULL]]

Init ==
  /\ page_time = 0
  /\ page_timestamp = [s \in Slots |-> 0]
  /\ physical_index = [s \in Slots |-> 0]
  /\ content = [s \in Slots |-> <<0, Zeros>>]
  /\ memory_map_read = [m \in Mirrors |-> [p \in Pages |-> NULL]]
  /\ rtc_enabled = FALSE
  /\ rtc_registers = Blank
  /\ rtc_bytes = [s \in Slots |-> Blank]
  /\ game = 0
  /\ pc_page = Outside /\ pc_slot = NULL /\ pc_time = 0

(* A read of the ROM: the CPU's, a DMA's, or the translator's. *)
ReadGamepak(m, page) ==
  /\ memory_map_read[m][page] = NULL
  /\ Access(m, page)
  /\ UNCHANGED <<rtc, game, pc>>

(* check_pc_region: the PC enters a page of the ROM. *)
CheckPcRegion(m, page) ==
  /\ page # pc_page
  /\ Access(m, page)
  /\ pc_page' = page
  /\ pc_slot' = Pointer(m, page)
  /\ pc_time' = page_timestamp'[Pointer(m, page)]
  /\ UNCHANGED <<rtc, game>>

(* The PC leaves the ROM: an interrupt, a call to code in RAM. *)
LeaveGamepak ==
  /\ pc_page # Outside
  /\ pc_page' = Outside /\ pc_slot' = NULL /\ pc_time' = 0
  /\ UNCHANGED <<table, rtc, game>>

(* write_rtc_register on register i: page 0 is brought in, the register is  *)
(* kept, and its halfword in the page is overwritten.                       *)
WriteRtc(i, value) ==
  /\ \E t \in After("08", 0) :
       /\ t.time <= MaxTime
       /\ Becomes([t EXCEPT !.bytes[Pointer("08", 0)][i] = value])
  /\ rtc_enabled' = TRUE
  /\ rtc_registers' = [rtc_registers EXCEPT ![i] = value]
  /\ UNCHANGED <<game, pc>>

(* Another game of the same size is loaded and the machine reset. *)
LoadGamepak ==
  /\ game < MaxGames
  /\ game' = game + 1
  /\ page_timestamp' = [s \in Slots |-> 0]
  /\ physical_index' = [s \in Slots |-> 0]
  /\ memory_map_read' = InitMap(memory_map_read)
  /\ rtc_enabled' = FALSE /\ rtc_registers' = Blank
  /\ pc_page' = Outside /\ pc_slot' = NULL /\ pc_time' = 0
  /\ UNCHANGED <<page_time, content, rtc_bytes>>

Next ==
  \/ \E m \in Mirrors, page \in Pages :
       ReadGamepak(m, page) \/ CheckPcRegion(m, page)
  \/ LeaveGamepak
  \/ \E i \in 1 .. 3, value \in RegisterValues : WriteRtc(i, value)
  \/ LoadGamepak

Spec == Init /\ [][Next]_vars

-------------------------------------------------------------------------------
Holds(slot, page) == content[slot] \in {<<game, page>>, <<game, Zeros>>}

(* A pointer that init_memory_gamepak left behind: after a change of game,  *)
(* in the upper half of the third mirror, to a page not loaded since.       *)
LeftOver(map, m, page) ==
  game > 0 /\ m = "0C" /\ page \in HighPages /\ map["08"][page] = NULL

(* Every pointer of memory_map_read leads to the page it stands for, of the *)
(* game that is loaded, through any evictions and prefetches, and even      *)
(* though unused slots claim to hold page 0.  The only exception is what    *)
(* init_memory_gamepak leaves behind, until the page is loaded.             *)
MapIsSound ==
  \A m \in Mirrors, p \in Pages :
    memory_map_read[m][p] # NULL
    => Holds(memory_map_read[m][p], p) \/ LeftOver(memory_map_read, m, p)

(* The three mirrors of the ROM agree on what is resident: an eviction      *)
(* that reaches only some of them leaves a pointer into a reused slot.  They *)
(* differ only in what init_memory_gamepak leaves behind, and agree again   *)
(* once the page is loaded.                                                 *)
MirrorsAgree ==
  \A m \in Mirrors, p \in Pages :
    \/ memory_map_read[m][p] = memory_map_read["08"][p]
    \/ LeftOver(memory_map_read, m, p)

(* The interpreter keeps its pointer while other pages are loaded, and      *)
(* eviction goes by load time, not by use: the slot it leads to is loaded   *)
(* with nothing else for as many loads as there are slots.  The exception   *)
(* is a page that was loaded at time 0, which looks like an unused slot.    *)
HeldBlockSurvives ==
  /\ pc_page # Outside
  /\ pc_time > 0
  /\ page_time <= pc_time + gamepak_ram_pages
  => page_timestamp[pc_slot] = pc_time

(* A miss leaves the page it brought in mapped: the prefetch that follows   *)
(* must not evict it.  Page 0 is the exception, see the README.             *)
MissStaysMapped ==
  [][pc_page' # pc_page /\ pc_page' \in Pages \ {0} /\ page_time' # page_time
     => memory_map_read'["08"][pc_page'] = pc_slot']_vars

===============================================================================
