----------------------------- MODULE DmaChannels -----------------------------
(***************************************************************************)
(* The four DMA channels and the two FIFOs of direct sound (memory.c,      *)
(* sound.c, main.c).  A store to a channel's control register starts a     *)
(* transfer at once, or leaves the channel waiting for hblank, for vblank, *)
(* or for a FIFO that runs low; a transfer may itself store to another     *)
(* channel's control register and start a transfer inside its own.  The    *)
(* calls still open are a stack of tasks, the innermost first; the CPU     *)
(* runs on when there are none.                                            *)
(*                                                                         *)
(* What is copied is left out.  Of a byte of a FIFO is kept whether it is  *)
(* clear, holds a sample to be played, or one that was.  Words are 32      *)
(* bits; an address is a region of dma_region_map and a word of it.  Sound *)
(* is initialised: before that sound_timer returns at once.                *)
(***************************************************************************)
EXTENDS Integers, Sequences

CONSTANTS
  Channels,             (* of 0 .. 3                                        *)
  Sounds,               (* direct sound A and B: 0 and 1, or one of them    *)
  FifoSize,             (* bytes of a FIFO (32)                             *)
  FifoWords, WordBytes, (* what a request for samples transfers (4, 4)      *)
  RegionWords,          (* words until a pointer wraps in memory            *)
  Registers(_),         (* what the game stores to a channel's address and  *)
                        (* count registers: source, dest, count             *)
  Controls(_),          (* and to its control register                      *)
  DmaData,              (* the control words a transfer may copy            *)
  OwnStores,            (* FIFOs the game also stores to by itself          *)
  SoundTimers,          (* timers it lets drive the FIFOs                   *)
  MaxTasks              (* bound on transfers inside transfers (TLC)        *)

VARIABLES
  registers,            (* DMAxSAD, DMAxDAD, DMAxCNT_L                      *)
  enabled,              (* bit 15 of DMAxCNT_H as it reads                  *)
  dma,                  (* the dma_transfer_type of each channel            *)
  fifo,                 (* data, fifo_top and fifo_base of each FIFO        *)
  ds_timer,             (* which timer plays each FIFO                      *)
  tasks,                (* open calls, the innermost first                  *)
  lost, replayed,       (* history: a sample was overwritten, or played     *)
                        (* twice, since the FIFO was last reset             *)
  disturbed             (* history: the FIFO was not fed by one DMA alone   *)

devices == <<registers, enabled, dma>>
history == <<lost, replayed, disturbed>>
vars == <<devices, fifo, ds_timer, tasks, history>>

NO_DIRECT_SOUND == 2
INACTIVE == "inactive"

Address(region, word) == [region |-> region, word |-> word]
IsAddress(a) == a = Address(a.region, a.word)
IO == "io"
FIFO(ch) == Address(IO, 40 + ch)         \* 0x40000A0, 0x40000A4
SAD(n) == Address(IO, 44 + 3 * n)        \* 0x40000B0 + 12 * n, and so on
DAD(n) == Address(IO, 45 + 3 * n)
CNT(n) == Address(IO, 46 + 3 * n)        \* DMAxCNT_L and, above it, DMAxCNT_H
Words(region) == IF region = IO THEN 256 ELSE RegionWords

(* What a request transfers fits in the half of a FIFO that has been played. *)
ASSUME DmaAssumption ==
  /\ Channels \subseteq 0 .. 3 /\ Sounds \subseteq {0, 1} /\ OwnStores \subseteq Sounds
  /\ FifoSize \in Nat /\ FifoSize >= 2
  /\ FifoWords \in Nat \ {0} /\ WordBytes \in Nat \ {0}
  /\ FifoWords * WordBytes <= FifoSize - FifoSize \div 2
  /\ \A n \in Channels : \A value \in Controls(n) \cup DmaData :
       value.enable \in BOOLEAN
       /\ value.start \in {"immediately", "vblank", "hblank", "special"}
  /\ \A n \in Channels :
       /\ Registers(n) # {}
       /\ \A r \in Registers(n) :
            /\ r = [source |-> r.source, dest |-> r.dest, count |-> r.count]
            /\ IsAddress(r.source) /\ IsAddress(r.dest)

-----------------------------------------------------------------------------
(* The FIFOs. *)

Cleared == [data |-> [k \in 0 .. FifoSize - 1 |-> "clear"], top |-> 0, base |-> 0]
Fill(f) == (f.top - f.base) % FifoSize

\* sound_timer_queue32: a word of samples, whatever the FIFO still holds.  The bytes go
\* to one slot after another.
Next32(f) == {(f.top + k) % FifoSize : k \in 0 .. WordBytes - 1}
sound_timer_queue32(f) ==
  [f EXCEPT !.data = [s \in 0 .. FifoSize - 1 |-> IF s \in Next32(f) THEN "sample" ELSE f.data[s]],
            !.top = (f.top + WordBytes) % FifoSize]

QueueWord(ch) ==
  /\ fifo' = [fifo EXCEPT ![ch] = sound_timer_queue32(fifo[ch])]
  /\ lost' = [lost EXCEPT ![ch] = @ \/ \E s \in Next32(fifo[ch]) : fifo[ch].data[s] = "sample"]

-----------------------------------------------------------------------------
(* gpsp_dma_transfer. *)

(* Pairs of regions dma_transfer_loop has a case for: any readable one to    *)
(* any writable one, but for the backup to itself, mistyped, and the BIOS    *)
(* where nothing keeps it.                                                   *)
Readable == {"iwram", "ewram", "vram", "palette", "oam", IO, "gamepak", "ext", "bios"}
Writable == {"iwram", "ewram", "vram", "palette", "oam", IO, "ext"}
HasLoop(source, dest) ==
  source \in Readable /\ dest \in Writable /\ <<source, dest>> # <<"ext", "ext">>

\* dma_adjust_ptr_inc, _dec and _fix; a reloaded destination counts upwards.
Adjusted(address, direction) ==
  [address EXCEPT !.word =
    CASE direction \in {"increment", "reload"} -> IF @ + 1 = Words(address.region) THEN 0 ELSE @ + 1
      [] direction = "decrement"               -> IF @ = 0 THEN Words(address.region) - 1 ELSE @ - 1
      [] direction = "fixed"                   -> @]

\* The call: pointers, directions and length are copies; a source that reloads
\* copies nothing.
gpsp_dma_transfer(n, d, by) ==
  LET loops == d.source_direction # "reload"
               /\ HasLoop(d.source_address.region, d.dest_address.region)
  IN  [do |-> "copy", n |-> n, by |-> by, left |-> IF loops THEN d.length ELSE 0,
       source |-> d.source_address, source_direction |-> d.source_direction,
       dest |-> d.dest_address, dest_direction |-> d.dest_direction]

\* What the settings of a stopped channel were is forgotten, unless they are still used.
Nothing == Address("bios", 0)
Stopped(d) ==
  IF d.direct_sound_channel # NO_DIRECT_SOUND THEN [d EXCEPT !.start_type = INACTIVE]
  ELSE [d EXCEPT !.start_type = INACTIVE, !.source_address = Nothing, !.dest_address = Nothing,
                 !.length = 0, !.source_direction = "fixed", !.dest_direction = "fixed"]

(* trigger_dma: a store to the control register of a channel.  One that is  *)
(* active takes no notice of a new setting until it is switched off.        *)
Starts(n, value) == value.enable /\ dma[n].start_type = INACTIVE

Loaded(n, value, r) ==
  LET common == [dma[n] EXCEPT !.source_address = r.source, !.dest_address = r.dest,
                  !.source_direction = value.source, !.repeat = value.repeat,
                  !.start_type = value.start]
  IN  IF n \in {1, 2} /\ value.start = "special"
      THEN [common EXCEPT !.length = FifoWords, !.dest_direction = "fixed",
              !.direct_sound_channel = IF r.dest = FIFO(1) THEN 1 ELSE 0]
      ELSE [common EXCEPT !.length = r.count, !.dest_direction = value.dest]

\* Mutants: switching a channel off forgets to stop it, or to unhook the FIFO.
OffStillActive(d) == [d EXCEPT !.direct_sound_channel = NO_DIRECT_SOUND]
OffStillHooked(d) == Stopped(d)

Off(d) == Stopped([d EXCEPT !.direct_sound_channel = NO_DIRECT_SOUND])

trigger_dma(n, value, r, by, rest) ==
  /\ dma' = CASE Starts(n, value) -> [dma EXCEPT ![n] = Loaded(n, value, r)]
              [] ~value.enable    -> [dma EXCEPT ![n] = Off(@)]
              [] OTHER            -> dma
  /\ enabled' = IF Starts(n, value) \/ ~value.enable
                THEN [enabled EXCEPT ![n] = value.enable] ELSE enabled
  /\ tasks' = IF Starts(n, value) /\ value.start = "immediately"
              THEN <<gpsp_dma_transfer(n, Loaded(n, value, r), by)>> \o rest
              ELSE rest
  /\ registers' = [registers EXCEPT ![n] = r]

\* A channel that feeds FIFO ch whenever it runs low.
Feeds(n, ch, d) == n \in {1, 2} /\ d[n].direct_sound_channel = ch
Feeders(ch, d) == {n \in Channels : Feeds(n, ch, d)}
Feeding(ch, d) ==
  \E n \in Channels : Feeders(ch, d) = {n} /\ d[n].dest_address = FIFO(ch)

\* The samples come from elsewhere too, or stop coming.
Disturb(chs) == disturbed' = [ch \in Sounds |-> disturbed[ch] \/ ch \in chs]
ChangesFeeder(ch) == Feeders(ch, dma') # Feeders(ch, dma)
Interfered == {ch \in Sounds : ChangesFeeder(ch) /\ (Feeders(ch, dma) # {} \/
                                                     ~Feeding(ch, dma'))}

Running(do) == tasks # <<>> /\ Head(tasks).do = do
Rest == Tail(tasks)

(* One word of a transfer.  Its store is a register's if it goes to one.    *)
CopyWord ==
  /\ Running("copy") /\ Head(tasks).left > 0
  /\ LET t == Head(tasks)
         next == [t EXCEPT !.left = @ - 1,  !.source = Adjusted(t.source, t.source_direction),
                    !.dest = Adjusted(t.dest, t.dest_direction)]
         onward == <<next>> \o Rest
     IN  \/ /\ \E ch \in Sounds :
                 /\ t.dest = FIFO(ch) /\ QueueWord(ch)
                 /\ Disturb({c \in {ch} : Feeders(c, dma) # {t.n} \/ t.by # "fifo"})
            /\ tasks' = onward
            /\ UNCHANGED <<devices, replayed>>
         \/ /\ Len(tasks) < MaxTasks
            /\ \E n \in Channels : \E value \in DmaData, data \in Registers(n) :
                 /\ t.dest = CNT(n)
                 /\ trigger_dma(n, value, [registers[n] EXCEPT !.count = data.count],
                                "dma", onward)
            /\ Disturb(Interfered)
            /\ UNCHANGED <<fifo, lost, replayed>>
         \/ /\ \E n \in Channels : \E data \in Registers(n) :
                 \/ t.dest = SAD(n) /\ registers' = [registers EXCEPT ![n].source = data.source]
                 \/ t.dest = DAD(n) /\ registers' = [registers EXCEPT ![n].dest = data.dest]
            /\ tasks' = onward
            /\ UNCHANGED <<enabled, dma, fifo, history>>
         \/ /\ t.dest \notin {FIFO(ch) : ch \in Sounds}
                            \cup UNION {{SAD(n), DAD(n), CNT(n)} : n \in Channels}
            /\ tasks' = onward
            /\ UNCHANGED <<devices, fifo, history>>
  /\ UNCHANGED ds_timer

(* The end of the call.  Its interrupt, and the alert for overwritten code, *)
(* are left out.                                                            *)
FinishTransfer ==
  /\ Running("copy") /\ Head(tasks).left = 0
  /\ LET t == Head(tasks)
         d == dma[t.n]
         done == ~d.repeat \/ d.start_type = "immediately"
         left == [d EXCEPT !.source_address = t.source,
                           !.dest_address = IF t.dest_direction = "reload" THEN @ ELSE t.dest]
     IN  /\ dma' = [dma EXCEPT ![t.n] = IF done THEN Stopped(left) ELSE left]
         /\ enabled' = IF done THEN [enabled EXCEPT ![t.n] = FALSE] ELSE enabled
  /\ tasks' = Rest
  /\ UNCHANGED <<registers, fifo, ds_timer, history>>

-----------------------------------------------------------------------------
(* Requests: what update_gba and sound_timer call, one after another.  Each  *)
(* looks at the channel when its turn comes.                                 *)

Request(n, start) == [do |-> "request", n |-> n, start |-> start]
Feed(n, ch) == [do |-> "feed", n |-> n, ch |-> ch]

Serve(n, wanted, by) ==
  /\ tasks' = IF wanted THEN <<gpsp_dma_transfer(n, dma[n], by)>> \o Rest ELSE Rest
  /\ UNCHANGED <<devices, fifo, ds_timer, history>>

ServeBlank ==
  /\ Running("request")
  /\ LET t == Head(tasks) IN Serve(t.n, dma[t.n].start_type = t.start, "video")

ServeFifo ==
  /\ Running("feed")
  /\ LET t == Head(tasks) IN Serve(t.n, dma[t.n].direct_sound_channel = t.ch, "fifo")

(* sound_timer: a sample goes from the FIFO to the ring, and the channels    *)
(* are asked for more when half the FIFO or less is left.                    *)
\* Mutant: more is asked for one sample too early.
RunsLowEarly(f) == Fill(f) <= FifoSize \div 2 + 1

RunsLow(f) == Fill(f) <= FifoSize \div 2

\* Mutant: the second channel is not asked.
AskTheFirst(ch) == IF 1 \in Channels THEN <<Feed(1, ch)>> ELSE <<>>

AskChannels(ch) ==
  LET Ask(n) == IF n \in Channels THEN <<Feed(n, ch)>> ELSE <<>>
  IN  Ask(1) \o Ask(2)

sound_timer ==
  /\ Running("play")
  /\ LET ch == Head(tasks).ch
         base == fifo[ch].base
         f == [fifo[ch] EXCEPT !.base = (base + 1) % FifoSize,
                               !.data[base] = IF @ = "clear" THEN @ ELSE "played"]
     IN  /\ fifo' = [fifo EXCEPT ![ch] = f]
         /\ replayed' = [replayed EXCEPT ![ch] = @ \/ fifo[ch].data[base] = "played"]
         /\ tasks' = IF RunsLow(f) THEN AskChannels(ch) \o Rest ELSE Rest
         /\ Disturb({c \in {ch} : ~Feeding(c, dma)})
  /\ UNCHANGED <<devices, ds_timer, lost>>

-----------------------------------------------------------------------------
(* What the CPU and the hardware clock do between those. *)

Idle == tasks = <<>>

StoreRegisters(n, r) ==
  /\ Idle
  /\ registers' = [registers EXCEPT ![n] = r]
  /\ UNCHANGED <<enabled, dma, fifo, ds_timer, tasks, history>>

StoreControl(n, value) ==
  /\ Idle
  /\ trigger_dma(n, value, registers[n], "cpu", <<>>)
  /\ Disturb(Interfered)
  /\ UNCHANGED <<fifo, ds_timer, lost, replayed>>

\* A game's own store to a FIFO.
StoreFifo(ch) ==
  /\ Idle
  /\ QueueWord(ch)
  /\ Disturb({ch})
  /\ UNCHANGED <<devices, ds_timer, tasks, replayed>>

\* trigger_sound: the timer of each FIFO, and the FIFOs reset.
StoreSoundControl(timers, resets) ==
  /\ Idle
  /\ ds_timer' = timers
  /\ fifo' = [ch \in Sounds |-> IF ch \in resets THEN Cleared ELSE fifo[ch]]
  /\ lost' = [ch \in Sounds |-> lost[ch] /\ ch \notin resets]
  /\ replayed' = [ch \in Sounds |-> replayed[ch] /\ ch \notin resets]
  /\ disturbed' = [ch \in Sounds |-> disturbed[ch] /\ ch \notin resets]
  /\ UNCHANGED <<devices, tasks>>

\* update_timer: timer 0 or 1 overflows, and plays the FIFOs it drives.
Overflow(timer) ==
  /\ Idle
  /\ LET Play(ch) == IF ch \in Sounds /\ ds_timer[ch] = timer THEN <<[do |-> "play", ch |-> ch]>> ELSE <<>>
     IN  tasks' = Play(0) \o Play(1)
  /\ UNCHANGED <<devices, fifo, ds_timer, history>>

\* update_gba, on entering hblank or vblank: the channels in order.
Blank(why) ==
  /\ Idle
  /\ LET Ask(n) == IF n \in Channels THEN <<Request(n, why)>> ELSE <<>>
     IN  tasks' = Ask(0) \o Ask(1) \o Ask(2) \o Ask(3)
  /\ UNCHANGED <<devices, fifo, ds_timer, history>>

-----------------------------------------------------------------------------
Inside == CopyWord \/ FinishTransfer \/ ServeBlank \/ ServeFifo \/ sound_timer
Game ==
  \/ \E n \in Channels :
       \/ \E r \in Registers(n) : StoreRegisters(n, r)
       \/ \E value \in Controls(n) : StoreControl(n, value)
  \/ \E ch \in OwnStores : StoreFifo(ch)
  \/ \E timers \in SoundTimers, resets \in SUBSET Sounds :
       StoreSoundControl(timers, resets)
Clock == (\E timer \in {0, 1} : Overflow(timer)) \/ Blank("hblank") \/ Blank("vblank")
Next == Inside \/ Game \/ Clock

\* reset_gba and init_memory
Init ==
  /\ registers = [n \in Channels |-> CHOOSE r \in Registers(n) : TRUE]
  /\ enabled = [n \in Channels |-> FALSE]
  /\ dma = [n \in Channels |->
             [start_type |-> INACTIVE, direct_sound_channel |-> NO_DIRECT_SOUND,
              source_address |-> Nothing, dest_address |-> Nothing, length |-> 0,
              source_direction |-> "fixed", dest_direction |-> "fixed",
              repeat |-> FALSE]]
  /\ fifo = [ch \in Sounds |-> Cleared]
  /\ ds_timer = [ch \in Sounds |-> 0]
  /\ tasks = <<>>
  /\ lost = [ch \in Sounds |-> FALSE] /\ replayed = lost /\ disturbed = lost

Spec == Init /\ [][Next]_vars
\* The timers a game runs overflow again and again; a call runs on.
FairSpec == Spec /\ WF_vars(Inside) /\ \A timer \in {0, 1} : SF_vars(Overflow(timer))

-----------------------------------------------------------------------------
(* Properties. *)

\* What a game reads back from DMAxCNT_H tells whether the channel is active.
ControlTellsActive ==
  \A n \in Channels : enabled[n] <=> dma[n].start_type # INACTIVE

\* sound.c: "if DMA is enabled for the sound channel initiate a DMA transfer".
OnlyEnabledTransfer ==
  [][Running("feed") /\ Len(tasks') = Len(tasks) => enabled[Head(tasks).n]]_vars

(* What games do that use direct sound: DMAs for it repeat, and come from    *)
(* where there is something to read.                                        *)
SoundRepeats ==
  \A n \in Channels : \A value \in Controls(n) \cup DmaData :
    value.start = "special" => value.repeat = TRUE
SoundFromMemory ==
  \A n \in Channels :
    /\ \A value \in Controls(n) \cup DmaData :
         value.start = "special" => value.source # "reload"
    /\ \A r \in Registers(n) : r.source.region \in Readable

(* A FIFO that one DMA feeds plays each sample once and overwrites none,     *)
(* although its fill wraps, full and empty look alike, and the first request *)
(* comes only when the FIFO has been played halfway round empty.             *)
SamplesPlayedOnce == \A ch \in Sounds : ~disturbed[ch] => ~lost[ch] /\ ~replayed[ch]

(* And it does not starve: it is asked for samples again and again, once the *)
(* game leaves it alone.                                                     *)
LeftAlone == <>[][~Idle]_<<fifo, ds_timer>>
FifoKeepsFed ==
  \A ch \in Sounds :
    <>[]Feeding(ch, dma) /\ LeftAlone
    => []<>(Running("copy") /\ Head(tasks).dest = FIFO(ch))
=============================================================================
