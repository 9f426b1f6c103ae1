# gPSPDC in TLA+

gPSPDC is a Game Boy Advance emulator (gpSP and its Dreamcast port) in C. This
directory holds TLA+ models of the parts of it in which order, failure, limits
and the edges of a word decide what happens, TLC runs that check them on small
instances, and theorems that TLAPS checks for every value of the constants.

The README has the inventory of the system, then, module by module, how a model
corresponds to the code and what its runs and theorems show, then the findings,
what is only model-checked, what is left out, and the plan.

Run a check with `tlc -workers 2 -config MCBackup.cfg MCBackup` (the module of a
configuration is the `MC` module it is named after) and a proof with
`tlapm BackupProofs.tla`.

## Inventory

The program has two threads: the emulation thread, which runs everything, and
SDL's audio thread, which runs `sound_callback` only. All the rest is calls and
shared globals.

| Component | State it keeps | Operations | Talks to | What is hard | What makes it correct |
|---|---|---|---|---|---|
| Sound ring (`sound.c`) | `sound_buffer`, base, index, `sound_mutex`, `sound_cv`, `synchronize_flag` | `update_gbc_sound`, `sound_callback`, `reset_sound`, savestate | both threads; `input.c` toggles the flag | signal before publish, publish outside the lock, wrap-around, resets while asleep | nothing lost or played twice, nobody sleeps for ever |
| Direct sound FIFO (`sound.c`) | two 32-byte FIFOs | `sound_timer_queue`, `sound_timer` | timers, DMA 1 and 2 | full and empty look alike, refill request | a refill before the FIFO runs dry, each sample once |
| GBC channels (`sound.h`, `sound.c`) | rate, length, envelope, sweep of four channels | register writes, `update_gbc_sound` | I/O writes | zero and overflow of sweep, length, envelope | notes end, playing bits tell the truth |
| I/O registers (`memory.c`) | `io_registers` and the devices behind it | `write_io_register8`, `16`, `32` | every device | three switches for the same registers | the width of a store makes no difference |
| DMA (`memory.c`) | four channels | `trigger_dma`, `gpsp_dma_transfer` | memory, FIFOs, EEPROM, the DMA registers themselves | transfers inside transfers, repeats, hooks of FIFOs | only enabled channels transfer |
| Cartridge backup (`memory.c`) | kind, sizes, protocol state, `gamepak_backup`, countdown, `.sav` | `write_backup`, `read_backup`, `write_eeprom`, `read_eeprom`, `update_backup`, `load_backup` | the game, DMA 3, the menu, `quit` | detection of the kind, retries, restart and quit with a save pending | what the game wrote reaches the file, or the user is told |
| ROM paging (`memory.c`) | page table, `memory_map_read`, `page_time` | `load_gamepak_page`, eviction, prefetch | interpreter, translator, RTC | eviction while a pointer is held, three mirrors | a pointer never leads to another page |
| Translation cache (`cpu_threaded.c`) | three caches, tags, hash, `code_min`/`code_max` | `block_lookup_address`, `translate_block`, three flushes | stores and DMA, savestates, cheats | recursion, overflow at any depth, partial flushes | no lookup or link leads to discarded code |
| Block translation (`cpu_threaded.c`, emitters) | `block_data`, exits, patches, `cycle_count` | `scan_block`, `translate_arm_instruction`, branch patching | emitters, `update_gba` | one test for a run of instructions, patches of skips and branches | the code does what the program says, and returns in time |
| Interpreter (`cpu.c`) | `reg`, flags | `execute_arm`, `execute_thumb` | memory, modes | flags and shifts at their edges, aliasing, PC as an operand | the architecture |
| Emitters and helpers (`x86/`, `dc/`, `psp/`, `gp2x/`) | host registers | one macro per instruction | the translator | as above, in four more forms | the architecture |
| CPU modes (`cpu_mode.h` and engines) | `reg_mode`, `spsr`, CPSR | mode switch, SWI, IRQ entry, MSR, returns | interrupts | flags outside CPSR, shared banks, nesting | what is interrupted goes on unharmed |
| Event loop (`main.c`, `main.h`, `cpu.c`) | `execute_cycles`, `video_count`, timers, IE/IF/IME, halt | `update_gba`, `trigger_timer`, `raise_interrupt` | all of the machine | writes to timers in mid-slice, halt | no event passed over, an enabled interrupt is taken |
| RTC (`memory.c`) | `rtc_state`, command, bit counts | `write_rtc`, paging overlay | ROM paging | bit protocol, page 0 replaced | registers readable |
| Savestates (`memory.c` and every component) | a file | `save_state`, `load_state` | everything | short files, locks, caches | load after save is the identity, or nothing |
| Video renderer | - | pixel composition | VRAM, registers | data | out of reach, see below |
| Cheats, input, menu, configuration, zip | - | parsing and user interface | flushes, restart, load | little | - |

`PROJECT.json` lists every component, and under `hazards` every place where the
code can go wrong in a way tests would hardly reach.

The modules, from the one with no parts to those that compose:

| Module | Models | Used by |
|---|---|---|
| `SamplePipe`, `SoundRing` | the ring of samples and its promise | `MCSoundRing`, `SoundProofs` |
| `Backup` | the cartridge's backup and its file | `MCBackup`, `BackupProofs` |
| `RomPaging` | paged ROMs | `MCRomPaging`, `RomPagingProofs` |
| `TranslationCache` | lookups, links and flushes of blocks | `MCTranslationCache`, `TranslationCacheProofs` |
| `EventLoop` | the clock of the machine | `MCEventLoop`, `EventLoopProofs` |
| `ProgramOrder`, `BlockTranslation` | what one block's code does, and its promise | `MCBlockTranslation`, `BlockProofs` |
| `Words`, `ArmRule` | words and the rule | all of the next row |
| `Interpreter`, `ThumbInterpreter`; `Translator`, `EmittedCode`, `X86Helpers`, `Sh4Helpers` | instructions in the interpreter and in emitted code | `MCParity` |
| `BankedRegisters`, `CpuModes` | modes and exceptions, and the architecture's | `MCCpuModes`, `CpuModesProofs` |
| `DmaChannels` | DMA and direct sound | `MCDmaChannels`, `DmaProofs` |
| `IoRegisters`, `IoDevices` | stores to I/O registers, and the devices at work | `MCIoDevices`, `SoundProofs` |

## SoundRing and SamplePipe

`SamplePipe` is the promise: a bounded pipe of samples, put in by the emulation
thread, taken out a callback's worth at a time, and never full for ever.
`SoundRing` is the code. Positions count `s16` slots; `unplayed` is the set of
slots that are not clear. One action per stretch between two points where the
other thread can act:

| Action | Code |
|---|---|
| `BeginUpdate`, `LockMutex`, `CpuWait`, `Render`, `Publish` | `update_gbc_sound`: entry, lock, wait loop, mixing and signal, index advance after unlock |
| `BeginCallback`, `LockMutex`, `AudioWait`, `Play` | `sound_callback`; `Play` copies and clears in one piece or, at the end of the ring, in two (`FirstPiece`, `Remainder`) |
| `ToggleSync` | the fast-forward button in `update_input` |
| `ResetSound`, `LoadState` | `reset_sound`, `sound_read_savestate` |

`stream` is what SDL gets: for each sample of a callback, the slot it comes from.

`sound` has a ring of 16 slots with callbacks of 3, which do not divide the ring, so
that a callback is cut in two by its end at one place after another, the fast-forward
button, resets, and savestates below and above the high-water mark. The threads never
sleep together (`NoMutualWait`) and both handlers complete (`CallbackServed`,
`UpdateCompletes`). While the ring is *in step*, that is from power-on or a reset
until the user fast-forwards or loads a state (the history variable `in_step`), the
unplayed slots are exactly the published ones (`UnplayedIsPublished`), mixing (`+=`)
meets only clear slots (`MixesIntoClearSlots`), SDL is handed no sample twice and none
that was not there (`PlayedOnce`), and the ring refines `SamplePipe`, liveness included
(`PipeSpec`: `queued` is the fill, and 0 when out of step). Out of step nothing of the
kind holds: a producer that does not wait laps the consumer, and a load moves the
positions and leaves the contents. Sizes are small because
only their ratios matter (the waits compare `Fill` with one and one and a half buffer
sizes); `StepAssumption` and `SizeAssumption` state the relations that the real numbers
satisfy: `init_sound` rounds the buffer to 2048 or more, a frame is at most 740
slots, the ring has 32768. `MaxResets` bounds resets and loads to two, so that each can
follow the other.

A savestate may hold any base and index (`SavedAssumption`): `save_state` writes them
as they are, and behind a publish, or while fast-forwarding, the fill is above the
high-water mark. `sound_read_savestate` signals nobody (`sound.c:793`), so that a load
of such a ring while the callback sleeps on an emptier one leaves it asleep, and
`update_gbc_sound` goes to sleep beside it: the game stands still. The history variable
`stranded` marks that case, until an update gets through or a reset or another load
takes it back; `NoMutualWait`, `CallbackServed` and `UpdateCompletes` except it and
nothing else.

At the end of the ring another thing is wrong: both calls of `sound_copy` write from
`stream_base` (`sound.c:613-619`), so that the second piece overwrites the first, whose
samples are cleared all the same, and the end of SDL's stream is not written.
`PlayedOnce` is therefore "at most once". A callback takes 512 n + 1024 slots, n being
`audio_buffer_size_number`; with the default of 2, and with 0, 6, 14, ..., they divide
32768 and the case never comes.

Fairness is weak on every step of a started handler. `BeginUpdate` with a
non-empty step is strongly fair, since the emulated machine goes on and a frame
carries samples, though the user may press the button between two frames.
`CallbackServed` assumes that the user leaves fast-forward off at last; nothing
is assumed of `sound_cv` beyond waking one sleeper per signal. Deadlock is not checked,
since `stranded` threads stop; `NoMutualWait` is what forbids any other deadlock.
`sound_timer`, which mixes the samples of the FIFOs into the same ring, is left out:
it takes the mutex but neither waits nor signals, and moves neither position.

Proved (`SoundProofs`): `TypeCorrect`; `NeverAsleepTogether` and
`WakeupsArrive`, by an inductive invariant that says who may be asleep with which
fill: the producer sleeps only above the high-water mark, the callback only below
one buffer or `stranded`, and, the delicate case, a producer that has signalled and not
yet published is awake. `RingIsPipe` is the safety half of the refinement: under the
same invariant every step maps to a step of the pipe or leaves it alone.
`RingHoldsTheUnplayed` and `MixingSparesTheUnplayed` add the contents (`MInv`): a
slot's distance from the base decides whether it is in a region, so that regions
join and lose their front by arithmetic, whatever wraps; that the two pieces a callback
clears are together the region from the base on is a lemma about the seam.
`HeardOnce` (`PlayedOnce`) adds that a callback's stream is untouched before it plays.
These theorems hold for every size, set of savestates and use of the button: `in_step`
is part of what they say, not an assumption on the constants.

## Backup

The registers keep their real values and addresses. A cell of `gamepak_backup`
is abstracted to whether it holds game data (`used`) and whether the file holds
the same (`saved`). The game is external: it issues commands, each a script of
bus accesses, and frames, the user and loss of power come between accesses,
except inside an EEPROM DMA, which the emulator carries out in one call.

| Action | Code |
|---|---|
| `ReadBackup`, `WriteBackup` | `read_backup`, `write_backup`, with one disjunct per branch |
| `TriggerDma`, `WriteEeprom`, `ReadEeprom` | size detection in `trigger_dma`, `write_eeprom`, `read_eeprom` |
| `Frame`, `FrameSaves` | `update_backup`: count down, or save |
| `Quit`, `LoadGamepak`, `Restart`, `ToggleUpdateFlag`, `PowerOff` | `quit`, `load_gamepak` with `load_backup` and `init_memory`, `menu_restart`, the menu option, the switch |

`backup` runs five kinds of cartridge (two flash, two EEPROM, SRAM) against a
storage device that may refuse to open, write short, or fail at close. It shows
that the size a save uses covers all that waits for it (`CoveredBySave`), that no
programmed byte is taken for part of an unlock sequence (`NoDroppedProgram`), that
quitting in Exit only mode saves or tells (`QuitSavesOrTells`), and that data
reaches the file at last once the game stops writing and saving is automatic
(`BackupReachesFile`). Two data bits per EEPROM block, a delay of 2 and a retry
interval of 3 frames keep every comparison of the counters distinct; the three
offsets are the first sector, a second EEPROM page and the command address.
Fairness: frames come, a DMA runs to its end, and a device that is tried for ever
takes a save at last (`SF` on the successful save).

`Restart` comes at any moment, also with a save pending. It calls `init_memory`, which
forgets the kind of backup and its size (`memory.c:3263`), while `gamepak_backup` and the
countdown stay; the countdown then finds nothing to write and reports success.
`README.md:141` promises that pending data is lost only by quitting or by loading
another game: `backup_restart` shows the contrary (`PendingUntilSaved` is violated). The
properties of `backup` therefore speak of what the game wrote since the last restart or
load (the history variable `written`), which the code keeps however often it is
restarted. Of older data nothing can be said, and one more case is of that kind:
`init_memory` puts `flash_size` back to 64KB after `load_backup` recognised a
file of 128KB (`memory.c:3266`), so that a save before the first bank switch cuts the
file in half, its second bank and all; in Exit only mode `quit()` saves whatever size is
detected by then (`main.c:935`), and a game left while it still identifies its chip loses
the upper bank.

Proved (`BackupProofs`): `ProgramNeverDropped` is inductive by itself, since each
way out of a third unlock write resets the position. `NotifiedOnce` uses
`NoticeInv`: no notice has been given, or `backup_failure_reported` is set.
`SavesCover` proves `CoveredBySave` for SRAM and flash games with any addresses,
scripts, delays, failures and restarts, when each command of the game is of the kind
libraries issue (`KnownGame`): an SRAM game keeps to 32KB and away from 0x5555 (`IsSram`); a flash
game writes nothing before it unlocks (`UnlocksFirst`), and one with 128KB switches
banks first in each command that erases or programs (`IsFlash128`). `MCBackup`
assumes these of its own games, so TLC evaluates them. The invariant `CoverInv` has
one part per kind; `Holds` is common to them: either the file has everything written
since the last restart or load, or the size detected is the right one. For 128KB, `Small` says how an unlock
sequence in progress continues while the chip still passes for one of 64KB.
`QuitKeepsOrTells` proves `QuitSavesOrTells` of the same games from `CoverInv`: what
waits was written to a chip whose size is known by then. EEPROM games stay with
TLC, the block an address spells being a fold over its bits.

Simplifications: one game per `.sav` file; a short write leaves an empty file,
the worst that can be left; savestates, which carry part of this state, are not
included.

## RomPaging

The page table is a record value (`Table`), because one miss changes it twice.
`Access` is `read_memory_gamepak` and, for the interpreter, `check_pc_region`;
`Mapped` is `map_gamepak_physical_page` with the unmapping, the read that may
fail, the RTC overlay and the new timestamp; `Loaded` is a miss with its prefetch.
The CPU's held pointer is `pc_slot`.

`paging` has 3 slots, 4 pages, up to 7 loads and a change of game: enough for
every slot to be replaced while another page is held. Two of the pages stand for the
part of a ROM above 16MB, which the third mirror shows above 0x0D000000
(`HighPages`). `init_memory_gamepak` clears the map only up to there
(`memory.c:3094`), so that after a change of game pointers of the previous one stay in
the third mirror until their page is loaded; the properties except exactly these
(`LeftOver`). The run shows that every other pointer
leads to the page it stands for (`MapIsSound`), that the three mirrors agree
(`MirrorsAgree`), that the block under the PC is not replaced while fewer loads than slots have happened since it was
fetched (`HeldBlockSurvives`), and that the page just brought in is not the
victim of its own prefetch (`MissStaysMapped`). When page 0 comes back with the
RTC active, the registers are copied over it as three consecutive bytes, though
games read them as halfwords at 0xC4, 0xC6 and 0xC8 (`memory.c:2993`); the action
is modelled, and no property speaks of it.

Proved (`RomPagingProofs`): `PointersAreSound`, `MirrorsStayEqual`,
`PrefetchSparesMiss`, by `PagingInv`: every mapped page points to the slot whose
`physical_index` names it. `HeldBlockIsSafe` adds that time
stamps other than 0 are distinct (`HeldInv`): were the held slot the oldest, all
others would have stamps of their own between its and the present, which takes as
many loads as there are other slots. All four hold for every set of `HighPages`.
Page 0 is excepted from `MissStaysMapped`, since slots never used claim to hold
it.

Not modelled: ROMs that fit in the buffer, whose map is fixed, and accesses
outside the ROM.

## TranslationCache

An address is a number, an instruction is nothing: a block has an end, exits and
a native size (`body`, and `gate` for a translation gate at its end). `stack`
is the C stack of `block_lookup_address` and `translate_block`; each frame says
where its block goes, which exit it links next, and whether it failed.

| Action | Code |
|---|---|
| `Lookup` | `block_lookup_address` at recursion level 0 |
| `EnterTagged`, `EnterRom`, `GiveUp` | the two `redo:` labels, and the retry limit |
| `Overflow`, `GateOverflow`, `Commit` | `translate_block` up to the point where the pointers are stored |
| `Link`, `Recurse`, `Return` | its last loop, with nested lookups |
| `Unwind`, `Done` | failure goes up to level 0 and starts again; success |
| `StoreToCode`, `FlushAll` | stores and DMAs beside a mark; savestates and cheat hooks |

`block_ptrs` keeps stale entries after a flush as in the code, tags are reused
from the first, and `ClearedEwram` follows the page arithmetic of
`flush_translation_cache_ram`, with the maximum of a range still unset when no
translation has succeeded.

`translation_cache` runs thirteen blocks in EWRAM (three pages), IWRAM, BIOS and
ROM. The RAM cache holds two blocks, so a caller and its callees never fit
together with anything else; ROM entries share a hash bucket; two blocks end in a gate
that takes them over the limit. Blocks call backwards, forwards, into the other RAM and
into another cache, and one of the gated blocks is called. It shows:

* Nothing a lookup finds is stale but what an unfinished translation left behind
  (`OnlyUnfinishedAreStale`; the history variable `unfinished` holds the PCs whose last
  translation failed or goes on). Such stale entries do come up in this run; what is
  called in range, below its caller's end in the same RAM and with no gate, is never
  stale, whatever the rest of the program does (`InRangeIsLive`).
* No step makes a link within a direct branch's reach (32MB: the block's own cache and
  the BIOS) lead to anything but live code, by patching it or by taking the code away,
  unless its target was left unfinished (`LinksStayLive`); and once a lookup has
  returned, every such exit of every cached block is patched, and to live code, where it
  is called in range (`LinksAreLive`).
* There is a mark beside every byte that code was made from (`CodeIsGuarded`), and what
  was just translated can be found (`TranslatedIsFound`).
* A lookup ends with its block translated, and not with the fatal retry limit, where no
  chain of exits from it reaches a gate (`LookupReturns`), also after lookups that gave
  up inside.

`translation_stale` runs a program with one forward call and shows that `NoStaleTag`,
which is what the repository promises, is false: the nested block overflows, its own
tag lies above `code_max`, and survives the flush.

The only fairness is that the translator, sequential code, goes on. Deadlock is not
checked: the fatal screen is an end. What `LookupReturns` leaves out, the code gets
wrong, and the model with it:

* A RAM block that only its gate takes over the limit fails without a flush
  (`cpu_threaded.c:3451`), each retry fails in the same way, and the 33rd is fatal,
  although a flush would make room. That is how `GiveUp` comes up in the run.
* ROM blocks in a chain that do not fit the cache together are tried for ever: the
  ROM's `redo` counts no attempts (`cpu_threaded.c:2890-2912`).
* Each nested translation of a RAM or BIOS block counts as a retry although it succeeds
  (`cpu_threaded.c:2791`), so that a chain of 32 gives up although the cache has room.
  The run's chains are shorter. Only RAM and BIOS lookups reset the count; `MaxFlushes`
  is 1, and no block of the ROM calls one of the RAM.

Not modelled: bad jumps, the limit of 256 exits, ARM and Thumb as such (they
differ in the width of a mark), mirrors of RAM (guest code runs in the first one and
short of its last address, `BlockAssumption`, so that the masks of
`flush_translation_cache_ram` change no address; `scan_block` ends a block short of the end
of IWRAM, but the other address it tests, 0x203FFFF0, lies beyond EWRAM), the bytes of a
tag and its 16 bits
(65,000 blocks are more than a RAM cache of 384KB holds; `GUARD`, 0xFFFF, is a
value no tag has), the one
instruction by which a BIOS block may overrun its cache.

Proved (`TranslationCacheProofs`): `CodeStaysGuarded`, for every program, memory
layout and cache size. The invariant is `CodeIsGuarded` itself together with
`Shape`, the types of the stack, pointers, tags and hash chains and what a block
in a cache is: marks are only added between flushes, a commit marks the whole
span of its block, and each flush that clears a mark drops the code it guarded.
It needs of `BlockAssumption` that a block of RAM ends within that RAM.

`TranslationIsFound` (`TranslatedIsFound`) rests on `FindInv`: every translation in
progress that has not failed is already entered, its tag or its hash entry leading to
where its code goes (`Held`, `Cells`); only the innermost waits for no other
(`Nested`); a nested lookup's PC differs from those of its callers, since it would
have been found (`Fresh`); a cache is over its limit only while its last block is
emitted (`PtrFits`). An overflow breaks `Held` and fails every frame with it.
`ProgramAssumption` asks that offsets and addresses stay below `None`, and that a
block has a body.

`StaleIsUnfinished` (`OnlyUnfinishedAreStale`) adds `LiveInv`, without any condition on
the guest program: every tag and every hash entry leads to live code for its PC, or that
PC is unfinished (`TagsLive`, `HashLive`); the code made from a RAM lies between its
`code_min` and `code_max` (`CodeInRange`), so that a flush that takes code takes its tag;
the callers of the innermost translation are live while it has not failed (`FramesLive`,
`Nests`); code lies below its cache's pointer (`CodeAt`), so that a block never lands on
another. `NoStaleTag` itself is not provable, being false for programs such as
`translation_stale`'s.

`LinksAreKept` (`LinksStayLive`) follows from `LiveInv` in each step: `Link` patches what
`Found` returns, `Return` the innermost block, which is live, into the exit its caller
waits with; of the flushes, one of the RAM or the ROM leaves no block that jumps there
within a direct branch's reach, and one of the BIOS takes all three caches. Nothing is asked of the
program, and nothing of the number of attempts. That every exit of a cached block is
patched at last (`LinksAreLive`) is model-checked only: once a nested lookup has given
up, its ROM caller keeps an open exit and is found again by the retry.

## EventLoop

The CPU is given `execute_cycles` and then comes back to `update_gba`. Time is
counted in cycles, `cpu_ticks` modulo a frame; a prescale is its factor (1, 64,
256, 1024); the registers hold sets of interrupt sources. A stopped timer keeps
its reload only, since starting overwrites the rest.

| Action | Code |
|---|---|
| `UpdateMidLine`, `UpdateHblank`, `UpdateLine` | `update_gba`: charge the slice, update the timers, move the video, `raise_interrupt`, choose the next slice |
| `LoadState`, `Reset` | the early return from `update_gba` when `update_input` loaded a savestate, or the menu called `reset_gba` |
| `WriteReload`, `StartTimer`, `StopTimer` | `count_timer`, `trigger_timer` |
| `WriteDispstat`, `WriteIE`, `WriteIME`, `AckIF`, `Halt` | the I/O writes of `memory.c` |
| `StoreCpsr` | CPSR writes and SPSR restores with `check_for_interrupts` |

The game acts any number of times within a slice; how much of the slice the CPU
has used does not matter, since `update_gba` charges `execute_cycles` as it then
is. `events` has two lines of 3 + 2 cycles and two timers with periods 2 and 3,
so that a timer runs out before, with and after each part of a line, alone or in
cascade; all four timers run the same macro. One source of each kind (video and
timer) is enabled. The run shows that no slice passes an event
(`EventsAhead`), that the picture keeps time with the cycles charged
(`VideoOnTime`), that a halted CPU wakes up (`HaltEnds`), and that frames keep
coming (`FramesKeepComing`). Fairness is weak on `update_gba`: instructions cost
cycles, and a halted CPU calls it in a loop. `LoadState` happens once between
resets (`loaded`); a user who loads without end holds the machine in the last
hblank of a frame. The state it loads is the one saved at the same point, or none
because the file is missing, which come to the same. Afterwards `update_gba`
returns the budget it has just charged and drops the interrupts it has collected
(`main.c:728`), and slices may pass events; `EventsAhead` and the position in
`VideoOnTime` are therefore stated until a savestate is loaded.

Proved (`EventLoopProofs`), for any number of timers, any reloads, prescales,
lines and interrupts: `TypeCorrect`; `NoEventMissed`, inductive with the types,
because charging a slice that passes no event leaves every running timer with a
positive count, and the next slice is the least of those; `PictureKeepsTime`,
which needs `EventsAhead` (a slice never overshoots the part of the line, so that
nothing is lost when the next part begins) and the arithmetic of remainders; and
`PendingIsTaken`.

Not modelled: the DMAs and sound that `update_gba` and the timers set off,
keypad interrupts, CPU alerts, loading a state saved elsewhere.

## BlockTranslation and ProgramOrder

`TranslationCache` takes the code of a block as given; `BlockTranslation` models
how it is made and what it does when it runs, and leaves the cache out: a block
that is left is looked up where it went, and translated there. A program is a
handful of instructions, each with a condition and one of four operations: plain,
flag-setting, direct branch, `bx`.

| Action | Code |
|---|---|
| `scan_block` | one turn of the scan: classification by `arm_set_condition`, exits, the end of the block, `update_cycles` |
| `translate_arm_instruction` | one turn of `translate_block`'s second loop: new run, patch of the last skip, header, emission, cycle update |
| `FinishBlock` | the gate, and the patching of branches inside the block |
| `RunSkip`, `RunExecute`, `RunCycleUpdate`, `RunJump`, `RunIndirect`, `RunGate` | the emitted code, one operation at a time |

`blocks` tries every program of three instructions and a last `bx`, with and
without a gate before the last. It shows that the emitted code implements `ProgramOrder`, the
plain reading of the program, as a refinement (`OrderSpec`): one test stands for a
run of instructions with one condition, and that is right only because an
instruction that writes flags ends the run; and that a program that keeps running
spends its budget again and again (`HardwareIsUpdated`; fairness: the host runs
on). `MAX_EXITS` and `MAX_BLOCK_SIZE` lie above what three instructions need.

What the code is known to get wrong, left out of the run by `EntersARun` and
`OpenAtGate` (both in `Translatable`): a direct branch into the middle of a run of one condition lands
behind the run's only test, and a block that ends after a conditional instruction
at a gate or a limit leaves that one's skip unpatched. Two more are in the model
and break no property: the cycles of instructions before a conditional branch not
taken are lost, and indirect branches neither charge `cycle_count` nor look at the
budget (`ROADMAP.md:43`, item B2), so that a loop closed by one starves the
hardware.

Proved (`BlockProofs`), for programs of every length, any limits, gates and budget:

* `JumpsReachTargets`: each jump of a finished block is patched to where its own
  target's code begins (`JumpsGoToTheirTargets`, which is proved only and in no run), of
  every program, the ones whose blocks go wrong included, by
  `CodeInv`, which says what emitted code looks like as far as translation has got:
  the block is a stretch of the program (`Span`); its exits are its direct branches
  in order, and those emitted are those before `pc` (`Exits`, by a numbering `f` of
  the exits); every instruction's recorded offset is where its code begins
  (`Offsets`), which is where jumps are patched to (`JumpsPatched`); what may follow
  what (`Flow`, `CodeTail`); and a skip lands where the run of its condition ends,
  the last one apart, which is the one `backpatch_address` holds (`Skips`,
  `LastCondition`).
* `HostStaysInCode` and the refinement `BlocksFollowOrder` (`Spec => OrderSpec`),
  under `Translatable`, by `RunInv`: the host never runs past the block's last
  operation (`Closed`, from `BlockEnd`), and whatever it is about to execute has had
  its condition tested since the flags last changed (`Tested`).

`BlockAssumption` types the constants. `Translatable` is the condition the run is
under: no branch into the middle of a run, no gate behind a conditional
instruction, an exit always taken as the last instruction, and limits no
block reaches; `MCBlockTranslation` assumes it, so TLC evaluates it.

## Instructions: Words, ArmRule, Interpreter, Translator and EmittedCode

`Words` has the machine one instruction works on: fifteen registers, four flags, a
program counter, and a bus that records accesses in order. Words have `W` bits and
shift amounts `A`, so that amounts below, at and above the width exist, and so do
registers that do not fit an amount.

| Module | Code |
|---|---|
| `Interpreter`, `ThumbInterpreter` | the two switches of `cpu.c` and the macros they use: shifter, flags, ALU, multiplies, transfers, block transfers, branches |
| `Translator` | the two switches of `cpu_threaded.c`: which emitter macro a case invokes, with which arguments |
| `EmittedCode` | what the macros of `x86_emit.h` and `sh4_instr.inc` emit, in the order in which it reads and writes registers |
| `X86Helpers`, `Sh4Helpers` | the C functions that emitted code calls, and `sh4_helpers.c`; parameters of `EmittedCode` |
| `ArmRule` | the reference: the ARM7TDMI's rule, written from the architecture and not from the code (so it has no lines in the map) |

Instruction fields are numbers (`hi` is bits 27-20), so that the switches are
tables over the same indices as in the code, and a wrong entry is a wrong result.
`parity` has one initial state and one step to each case: every ALU row with flags
and carry-in, every shift with amounts 0, 1, around the width and beyond it, with
the PC in each place, multiplies at the sign, every transfer with each write-back,
each list of a block transfer with the base in it and out of it, swaps with equal
registers, conditions with all flags, and the Thumb forms. W = 5, A = 3 is the
least at which an amount can equal the width, exceed it, and not fit.

`InterpreterFollowsArm`, `X86FollowsArm` and `Sh4FollowsArm` say that registers,
flags, bus and the next instruction are the rule's, except in these cases, each an
operator of `MCParity`:

* `CarryForm`: flags of ADCS, SBCS and RSCS (and of Thumb's) in the interpreter and
  on x86, where the carry in is counted in the result but not in the carry
  (`ROADMAP.md`, item B0); the interpreter also gets the result of RSCS of an
  immediate and of Thumb SBC wrong; of Thumb ADC only the flags are excepted. The
  Dreamcast's are right.
* `LongAmount`: shifts by a register with bits above the low byte, masked only by
  the Dreamcast's code.
* `PcBesideLongShift`: the PC as Rn beside a shift by a register.
* `UnalignedBase`, `MovedBaseStored`: Thumb block transfers clear the low bits of
  the base they write back; emitted STMIA stores the base already moved.
* `LoneFirstHalf`: no code is emitted for the first half of a Thumb BL.
* `LoadedPc`: x86 enters a PC that LDM loads in the state its low bit says.

Not modelled: stores that raise an alert (SWP loses Rd, STR its write-back, and
cycles stay stale then), the fetch loop, coprocessors, what bus reads return
beyond being a function of the access. Status registers are in `CpuModes`.

## CpuModes and BankedRegisters

`cpu` has the registers in use (R8 stands for R8 to R12), `reg_mode`, `CPU_MODE`,
CPSR with one flag bit that also lives apart in `f`, and the saved statuses.
`engine` says whose code runs: the interpreter, x86, or the Dreamcast.

| Action | Code |
|---|---|
| `Write` | any data instruction |
| `StoreCpsr`, `StoreSpsr` | `arm_psr_store`, `execute_store_cpsr`, `execute_store_spsr` of each engine, and the interrupt they let in |
| `Return` | `arm_spsr_restore` and its emitted twins, LDM with ^ and the PC |
| `SoftwareInterrupt`, `Raise` | `execute_swi`, `raise_interrupt` |
| `LoadUserBank`, `LoadPcUserBank` | LDM with ^ |
| `Open`, `Close` | a handler lets interrupts in by MSR, and comes back to return |

`modes` nests up to three exceptions around a program of two addresses. It shows
that each step
does to every mode's registers what the architecture does, as `BankedRegisters`
says it over a plain file of registers per mode (`FollowsBanks`); and that what was
interrupted goes on with the registers, flags, mode and masks it had
(`ResumesWhereInterrupted`). Named exceptions in the module: an exception entered
from its own mode loses LR (`FromItself`, which the architecture does too, except
that here LR is not written); x86 takes stale flags at a partial MSR (`LostFlags`);
an interrupt that MSR lets in returns to the MSR in emitted code (`MsrAgain`,
`ROADMAP.md:46`); LDM ^ of R8 to R12 uses the wrong bank outside FIQ (`WrongBank`)
and LDM ^ with the PC does not restore CPSR (`StatusKept`, `ROADMAP.md:42`) except
on the Dreamcast.

Proved (`CpuModesProofs`): `SwitchKeepsFile`, that moving the banked registers for
another mode changes no mode's view of the file; `BanksFollowCpsr`, which states
`ModeIsCurrent` and is in no run, by `ModesInv`: the types of banks, statuses and frames, with `cpu.mode = cpu.cpsr.mode`.
`EnginesFollowBanks` is the refinement of `BankedRegisters`, one lemma per action: the
register file of a mode is read from the registers in use where the mode shares
them, from `reg_mode` elsewhere, and by `SwitchKeepsFile` moving banks is a stutter.
`HandlersResume` rests on `ResumeInv`: of every handler on the way, the link register
and saved status of the mode it was entered in, or what it kept of them before it let
others in, lead back to what it interrupted (`WayBack`); the registers of the
interrupted mode are as they were, but for an IRQ's own LR (`Untouched`); and no
software interrupt is taken while one, or the program in its mode, is interrupted
(`NoSwiInside`).

## DmaChannels

A transfer may store to the registers of another channel and start a transfer
inside its own loop; `tasks` is the C stack of these calls, and the CPU runs on
when it is empty. Of a FIFO byte is kept whether it is clear, to be played, or
played.

| Action | Code |
|---|---|
| `StoreRegisters`, `StoreControl` | stores to DMAxSAD, DAD, CNT_L; `trigger_dma` |
| `CopyWord`, `FinishTransfer` | one turn of `dma_transfer_loop`; the end of `gpsp_dma_transfer` |
| `ServeBlank`, `Blank` | the hblank and vblank starts in `update_gba` |
| `Overflow`, `sound_timer`, `ServeFifo` | `update_timer`, `sound_timer`, and the refill it asks of DMA 1 and 2 |
| `StoreFifo`, `StoreSoundControl` | stores to a FIFO; `trigger_sound` |

`dma` has the two channels that can feed FIFOs and one FIFO of four bytes. One
channel copies in memory; the other feeds the FIFO or overwrites the first's
registers, at once or at hblank. It shows that the enable bit a game reads tells
whether the channel is active (`ControlTellsActive`), that a FIFO asks only enabled
channels (`OnlyEnabledTransfer`), that a FIFO one DMA feeds loses and repeats
nothing, although full and empty look alike (`SamplesPlayedOnce`; a FIFO is
`disturbed` when the game stores to it or another DMA does), and that it keeps
being fed when the game leaves it alone (`FifoKeepsFed`; fairness: calls run on, a
timer that runs overflows again and again).

Proved (`DmaProofs`), for any channels, games and FIFO sizes: `ControlIsTrue`, by
`ChannelsOK`, an invariant of every channel whatever calls are open; and
`FifoAsksEnabledOnly`, which adds what a FIFO is hooked to (`HooksOK`) and what the
open calls may be (`TasksOK`), for games whose sound DMAs repeat.

`EachSampleOnce` (`SamplesPlayedOnce`) rests on `SoundsOK`. Going round from the next
byte to play, a FIFO holds what was not played, then what was (`Fresh`); it holds more
than half, or half and the one channel that feeds it is asked, or half and more and
that channel is the innermost call, whose words still to copy fit (`Enough`). Only
the order of the open calls keeps others from coming between the request and the
copy: under a request lie requests of the same FIFO and sounds to play, and a copy
that feeds a FIFO is never interrupted, since its destination is no control register
(`Nested`). Its assumptions on sizes are the code's (four words of four bytes are no
more than the half of 32 that was played, `DmaAssumption`). Of the game it needs that
sound DMAs repeat (`SoundRepeats`) and find something to read (`SoundFromMemory`):
a reloading source or a region without a loop in `dma_transfer_loop` copies nothing,
and the FIFO would play its old bytes again. TLC evaluates both for the run's game
(`PlaysSound`). The bytes of a word go to one slot after another, so that
`sound_timer_queue32` is written in closed form.

Known and kept out by what the games of the run do: a sound DMA without repeat
keeps its hook to the FIFO when it ends (`memory.c:2892`); EXT to EXT is mistyped
(`memory.c:2807`, `HasLoop` leaves it out). Not modelled: the bytes, the
interrupt a transfer raises, which hides that it overwrote translated code
(`memory.c:2900`), and the fold of VRAM addresses.

## IoRegisters and IoDevices

`IoRegisters` is a function from a device record, an address and a value to the
record after the store, for `write_io_register8`, `16` and `32` with every case:
video and affine registers, the GBC sound registers, direct sound, DMA and timer
controls, interrupts, waits and HALTCNT. `IoDevices` puts the GBC channels to work
behind it: `StoreHalfword`, `StoreLowByte`, `StoreHighByte`, `StoreWord` are a
game's stores, `PlayAfterStore` and `PlayFrame` are `update_gbc_sound` where
`update_gba` calls it, with any set of channels whose tick counter carries.

`io` has eight games, each with a group of registers and up to three stores of
chosen contents, while sound plays on for ever. It shows that storing a halfword
by bytes, or a word by halfwords, does the same to every device (`WidthsAgree`); that
envelopes neither wrap nor leave the table (`EnvelopeNeverWraps`); and that a note with
a length ends (`LengthEnds`). Fairness: frames end, and a channel's tick counter keeps
carrying. Counters are numbers that stop at `Wrapped` when one at 0 is
decremented: in the code they become 2^32 - 1, which no note lives to count down.
`LengthEnds` speaks of channels that count down a length (`CountsDown`): they neither do
so for ever nor go on sounding when it is used up. A channel triggered with no length left
does play on for ever, since a trigger does not reload the length (`sound.h:146`), and is
not in the property.

`ApartByBytes` and `StillTriggered` name the registers where bytes do something
else: DISPCNT's high byte, the high bytes of the sweep and of DMA and timer
controls, TMxCNT_L (completed with the count), FIFO halfwords, KEYINPUT, WAITCNT,
POSTFLG, and triggers stored twice. Also seen: the output enables of SOUNDCNT_L mix
channels, a trigger does not reload the length, one given while sound is off sets
`active_flag`, and the carry at which a length runs out stays in `tick_counter`.

Proved (`SoundProofs`), for every set of registers, every content a game stores,
any number of stores: `EnvelopesNeverWrap`, `StoresSpareHardware` (of
`HardwareBitsStay`, which no run checks) and `WidthsAlwaysAgree`, all from `DeviceSpec` (the names
`PowerOn`, `DeviceStep` and `DeviceSpec` keep this component apart from `SoundRing`,
whose proofs share the module). The assumption is `StoresFit`: registers lie at even
addresses up to 0x3FE and contents are halfwords (`IoDevices` assumes it, TLC
evaluates it).

`DevicesStayGood` is the inductive invariant (`IoInv`): every register holds a
halfword, and each channel's envelope has a length that is a number, an initial and a
current volume in the table and, while it counts, ticks between 1 and the length. The
envelope property alone is not inductive: a trigger takes ticks and volume from the
initial ones, so these must be in range too; and a byte store completes the register
with the byte already there, so registers must stay halfwords for a merged store to
be one. Playing counts ticks that are not 1 down and goes from 1 back to the length.
Each register's handler keeps the record good and moves no bit the hardware reports
(`Kept`, a lemma for every register and for each width), and then playing does. For
IF the store is `x & ~y`, written as a sum of bits; that its bits are those of x
without those of y rests on a halfword having only one sum of binary digits
(`DigitsAreBits`, `BitsAreDigits`), and a byte stored to it on the bits of the two
bytes (`BitsOfBytes`).

`WidthsAgree` follows from `IoInv` in one state, without another invariant, since it
speaks of what two stores would do from there. Storing the low byte runs the handler
on that byte merged with the old high one; storing the high byte runs it again, on the
whole halfword. So the first run must leave nothing behind: for every handler a lemma
(`ToneLowTwice`, `WaveHighTwice`, `TriggerSoundTwice` and so on) says that a second
store to the register overwrites all that the first did. This is false when the first
run triggers a channel or empties a FIFO that the second one does not, and
`StillTriggered` is exactly the condition for which the lemmas ask: a low byte merged
with a high byte below 8 has no such bit. Registers that only keep bytes, DISPSTAT,
SOUNDCNT_X and the wave samples are put together from their parts, IF from
`x & ~y` of each byte (`AndNotJoin`), and a word's affine reference is taken from both
halfwords whenever either is stored (`AffineOver`).

## Findings

Two runs end in a violation, because the repository says otherwise:

| Run | The code | The repository |
|---|---|---|
| `backup_restart` | a restart drops a pending save (`memory.c:3266`) | lost only by quitting or replacing the game (`README.md:141`) |
| `translation_stale` | the tag of a block that overflowed may lie above `code_max` and survive the flush (`cpu_threaded.c:3537`) | every touched page's tags are cleared (`HIGH_IMPACT_FIXES.md:278-284`) |

The other disagreements met on the way are named in the sections above, and the
models have them: as a named exception of a property, as a condition on the
instance, or as a hazard without a property in `PROJECT.json`.

## What is only model-checked

Liveness (`CallbackServed`, `UpdateCompletes`, `BackupReachesFile`,
`LookupReturns`, `HaltEnds`, `FramesKeepComing`, `HardwareIsUpdated`,
`FifoKeepsFed`, `LengthEnds`, the liveness half of
`PipeSpec`), since the prover has no rules for fairness and ENABLED here. The
instruction models use the bit operators of `Bitwise`, which the prover cannot
reach, so parity is checked on small words only.
`InRangeIsLive`, and that `LinksAreLive` finds every exit patched, are model-checked on
one program; the theorems state what holds of every program without a condition on its
calls (`StaleIsUnfinished`, `LinksAreKept`).
`CoveredBySave` and `QuitSavesOrTells` are proved for SRAM and flash games
only, the block an EEPROM address spells being a fold over its bits; and they hold of
what cartridge libraries do and not of every script: a game that never switches banks
before it writes to a file of 128KB loses the upper half.

## What is not modelled

* The back ends for the PSP and the GP2X, which this translator cannot be built
  with: `arm_block_memory` takes five arguments in `psp/mips_emit.h:1841` and is
  called with the four of the other back ends (`cpu_threaded.c:1538-1693`), and
  `gp2x/arm_emit.h` is empty.
* Instruction encodings of the hosts, register allocation and the memory stubs in
  assembly.
* Pixel composition (`video.c`): a function of memory and registers with no protocol
  of its own, and too wide for TLC.
* Savestates as a whole, the RTC's serial protocol, cheats.
* Zip and miniz are vendored or sequential parsing; the menu, game configuration,
  fonts and assets hold no protocol beyond the calls that are modelled. Platform
  ports set up devices.

## Plan

1. (done) `SoundRing` with `SamplePipe`, `Backup`, `RomPaging`,
   `TranslationCache`, `EventLoop`, each with its first theorems.
2. (done) The two interpreters and the emitted code against one rule; blocks
   against the order of the program; modes against a banked register file;
   DMA with direct sound; I/O registers with the GBC channels.
3. `Savestate`: writing and reading in the same order, a short file, and what of
   each component's state a load leaves behind.
4. `Rtc`: the serial protocol, joined to the overlay in `RomPaging`.
5. The bytes of tags and the store stubs, as a refinement of the marks of
   `TranslationCache`; shutdown (`sound_exit`) in `SoundRing`.
6. Proofs: `BlocksFollowOrder` for blocks that end at a limit behind an
   unconditional instruction.
