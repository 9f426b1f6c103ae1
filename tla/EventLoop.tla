------------------------------- MODULE EventLoop -------------------------------
(***************************************************************************)
(* The event loop of the emulated machine (main.c, main.h, cpu.c): the CPU  *)
(* runs for execute_cycles cycles, then update_gba charges them to the      *)
(* timers and to the video, raises the interrupts that came due, and        *)
(* chooses the next slice so that it ends at the next event.                *)
(*                                                                         *)
(* The game writes I/O registers at any point of a slice.  A timer started  *)
(* in mid-slice may shorten execute_cycles under the running CPU; only what *)
(* is charged counts here, so the CPU's own countdown is not modelled.      *)
(***************************************************************************)
EXTENDS Integers

CONSTANTS
  HdrawCycles, HblankCycles,  (* the two parts of a line (960, 272)         *)
  Visible, Lines,             (* visible lines, all lines (160, 228)        *)
  LastTimer,                  (* 3                                          *)
  Reloads,                    (* 0x10000 - value of the writes to TMxD      *)
  FullReload,                 (* 0x10000                                    *)
  Prescales,                  (* cycles of a timer step: 1, 64, 256, 1024   *)
  IrqTimers,                  (* timers the game wants interrupts of        *)
  Masks,                      (* what it writes to IE and IF                *)
  DispstatSets,               (* the interrupts it enables in DISPSTAT      *)
  VcountSettings,             (* the line it compares with                  *)
  SavestateLoads              (* whether the user loads a savestate         *)

VARIABLES
  execute_cycles,
  cpu_ticks,                  (* modulo a frame                             *)
  video_count,
  vcount,                     (* REG_VCOUNT                                 *)
  hblank, vblank, matched,    (* DISPSTAT's three status bits               *)
  dispstat_irq,               (* the interrupts enabled in DISPSTAT         *)
  vcount_setting,             (* DISPSTAT's upper byte                      *)
  timer,
  REG_IE, REG_IF, REG_IME,    (* enable, flags, master enable               *)
  irq_disabled,               (* bit 7 of CPSR                              *)
  halted,                     (* CPU_HALT_STATE # CPU_ACTIVE                *)
  loaded                      (* history: a savestate has been loaded       *)

video == <<video_count, vcount, hblank, vblank, matched>>
dispstat == <<dispstat_irq, vcount_setting>>
irq == <<REG_IE, REG_IF, REG_IME, irq_disabled, halted>>
vars == <<execute_cycles, cpu_ticks, video, dispstat, timer, irq, loaded>>

Timers == 0 .. LastTimer
LineCycles == HdrawCycles + HblankCycles
FrameCycles == Lines * LineCycles

(* Interrupt sources, by their bit in REG_IE and REG_IF. *)
VBLANK == 0
HBLANK == 1
VCOUNT == 2
TIMER(i) == 3 + i
Sources == 0 .. TIMER(LastTimer)

Running == {"prescale", "cascade"}

(* A stopped timer: what the code keeps of its count, prescale and irq is   *)
(* overwritten when it starts again, and not kept here.                     *)
Stopped(reload) == [status |-> "inactive", count |-> 0, reload |-> reload,
                    prescale |-> 1, irq |-> FALSE]

ASSUME LoopAssumption ==
  /\ HdrawCycles \in Nat \ {0} /\ HblankCycles \in Nat \ {0}
  /\ Visible \in Nat \ {0} /\ Lines \in Nat /\ Visible < Lines
  /\ LastTimer \in Nat
  /\ Reloads \subseteq Nat \ {0} /\ FullReload \in Reloads
  /\ Prescales \subseteq Nat \ {0} /\ 1 \in Prescales
  /\ IrqTimers \subseteq Timers
  /\ Masks \subseteq SUBSET Sources
  /\ DispstatSets \subseteq SUBSET {VBLANK, HBLANK, VCOUNT}
  /\ VcountSettings \subseteq 0 .. 255
  /\ SavestateLoads \in BOOLEAN

(* The state after reset_gba. *)
Init ==
  /\ execute_cycles = HdrawCycles /\ video_count = HdrawCycles
  /\ cpu_ticks = 0 /\ vcount = 0
  /\ hblank = FALSE /\ vblank = FALSE /\ matched = FALSE
  /\ dispstat_irq = {} /\ vcount_setting = 0
  /\ timer = [i \in Timers |-> Stopped(FullReload)]
  /\ REG_IE = {} /\ REG_IF = {} /\ REG_IME = FALSE
  /\ irq_disabled = FALSE /\ halted = FALSE
  /\ loaded = FALSE

-------------------------------------------------------------------------------
(* Time passes. *)

Period(i) == timer[i].reload * timer[i].prescale

(* Timer i overflows: a prescaled timer at or below it runs out in this     *)
(* slice, and every timer from there up to i cascades and is at its last    *)
(* step.                                                                    *)
Overflows(i) ==
  \E j \in 0 .. i :
    /\ timer[j].status = "prescale" /\ timer[j].count <= execute_cycles
    /\ \A k \in j + 1 .. i : timer[k].status = "cascade" /\ timer[k].count <= 1

Elapsed(i) ==
  CASE timer[i].status = "prescale" -> execute_cycles
    [] timer[i].status = "cascade" /\ i > 0 /\ Overflows(i - 1) -> 1
    [] OTHER -> 0

(* update_timer: a timer that has run out starts again from its reload.     *)
CountAfter(i) ==
  LET left == timer[i].count - Elapsed(i)
  IN IF timer[i].status \in Running /\ left <= 0 THEN left + Period(i) ELSE left

UpdatedTimers == [i \in Timers |-> [timer[i] EXCEPT !.count = CountAfter(i)]]

TimerIrqs == {TIMER(i) : i \in {j \in Timers : timer[j].irq /\ Overflows(j)}}

(* The counts the next slice must not pass.  check_timer compares them as   *)
(* unsigned numbers, so that a negative one is not seen.                    *)
Deadlines(count, timers) ==
  {count} \cup {timers[i].count :
                i \in {j \in Timers : /\ timers[j].status = "prescale"
                                      /\ timers[j].count >= 0}}

NextSlice(count) ==
  \E d \in Deadlines(count, UpdatedTimers) :
    /\ \A e \in Deadlines(count, UpdatedTimers) : d <= e
    /\ execute_cycles' = d

(* Mutant: an interrupt does not wake a halted CPU.                         *)
StaysHalted(taken) == halted

AwakeAfter(taken) == halted /\ ~taken

(* raise_interrupt: taken at once, or left in REG_IF. *)
RaiseInterrupt(raised) ==
  LET taken == REG_IE \cap raised # {} /\ REG_IME /\ ~irq_disabled
  IN /\ REG_IF' = REG_IF \cup raised
     /\ irq_disabled' = (irq_disabled \/ taken)
     /\ halted' = AwakeAfter(taken)
     /\ UNCHANGED <<REG_IE, REG_IME>>

Left == video_count - execute_cycles

Charge ==
  /\ cpu_ticks' = (cpu_ticks + execute_cycles) % FrameCycles
  /\ timer' = UpdatedTimers

(* The parts of update_gba common to its ways through the video: charge the *)
(* slice, raise what came due, choose the next slice.                       *)
Update(raised, count) ==
  /\ Charge
  /\ video_count' = count
  /\ RaiseInterrupt(raised \cup TimerIrqs)
  /\ NextSlice(count)
  /\ UNCHANGED <<dispstat, loaded>>

(* The slice ends before the line's part does. *)
UpdateMidLine ==
  /\ Left > 0
  /\ Update({}, Left)
  /\ UNCHANGED <<vcount, hblank, vblank, matched>>

(* From hrefresh to hblank. *)
UpdateHblank ==
  /\ Left <= 0 /\ ~hblank
  /\ hblank' = TRUE
  /\ Update(dispstat_irq \cap {HBLANK}, Left + HblankCycles)
  /\ UNCHANGED <<vcount, vblank, matched>>

LineAfter == (vcount + 1) % Lines

Matches(line) == line = vcount_setting

(* What the video raises on entering a line. *)
LineIrqs(line) ==
  dispstat_irq \cap ((IF line = Visible THEN {VBLANK} ELSE {})
                     \cup (IF Matches(line) THEN {VCOUNT} ELSE {}))

(* Mutant: hblank is not left. *)
HblankKept == TRUE

HblankAfterLine == FALSE

(* Mutant: vblank is not left. *)
VblankKept(line) == vblank \/ line = Visible

(* vblank is entered at line 160 and left with the frame. *)
VblankAfter(line) == line # 0 /\ (vblank \/ line = Visible)

(* From hblank to the next line. *)
UpdateLine ==
  /\ Left <= 0 /\ hblank
  /\ hblank' = HblankAfterLine
  /\ vcount' = LineAfter
  /\ vblank' = VblankAfter(LineAfter)
  /\ matched' = Matches(LineAfter)
  /\ Update(LineIrqs(LineAfter), Left + HdrawCycles)

EndOfFrame == Left <= 0 /\ hblank /\ LineAfter = 0

(* update_gba is left from update_input when that has loaded a savestate:   *)
(* the slice is charged, but neither the line nor the slice is renewed and  *)
(* no interrupt is raised.  The state is the one saved at this same point,  *)
(* or the file is missing.  Bound: once between resets.                     *)
LoadState ==
  /\ SavestateLoads /\ ~loaded /\ EndOfFrame
  /\ loaded' = TRUE
  /\ Charge
  /\ video_count' = Left + HdrawCycles
  /\ UNCHANGED <<execute_cycles, vcount, hblank, vblank, matched, dispstat, irq>>

(* update_gba is left in the same way when the menu has reset the machine.  *)
Reset ==
  /\ EndOfFrame
  /\ execute_cycles' = HdrawCycles /\ video_count' = HdrawCycles
  /\ cpu_ticks' = 0 /\ vcount' = 0
  /\ hblank' = FALSE /\ vblank' = FALSE /\ matched' = FALSE
  /\ dispstat_irq' = {} /\ vcount_setting' = 0
  /\ timer' = [i \in Timers |-> Stopped(FullReload)]
  /\ REG_IE' = {} /\ REG_IF' = {} /\ REG_IME' = FALSE
  /\ irq_disabled' = FALSE /\ halted' = FALSE
  /\ loaded' = FALSE

-------------------------------------------------------------------------------
(* The game writes I/O registers, in the course of a slice. *)

(* count_timer: takes effect at the next start or overflow. *)
WriteReload(i, r) ==
  /\ ~halted
  /\ timer' = [timer EXCEPT ![i].reload = r]
  /\ UNCHANGED <<execute_cycles, cpu_ticks, video, dispstat, irq, loaded>>

(* Mutant: the slice is not cut short. *)
SliceKept(count) == execute_cycles

SliceCut(count) == IF count < execute_cycles THEN count ELSE execute_cycles

(* trigger_timer, with the enable bit: a timer that runs goes on.  The      *)
(* count of a cascading timer also cuts the slice.                          *)
StartTimer(i, status, prescale) ==
  LET count == timer[i].reload * prescale
  IN /\ ~halted /\ timer[i].status = "inactive"
     /\ timer' = [timer EXCEPT ![i] =
          [status |-> status, count |-> count, reload |-> timer[i].reload,
           prescale |-> prescale, irq |-> i \in IrqTimers]]
     /\ execute_cycles' = SliceCut(count)
     /\ UNCHANGED <<cpu_ticks, video, dispstat, irq, loaded>>

(* trigger_timer, without it. *)
StopTimer(i) ==
  /\ ~halted /\ timer[i].status # "inactive"
  /\ timer' = [timer EXCEPT ![i] = Stopped(timer[i].reload)]
  /\ UNCHANGED <<execute_cycles, cpu_ticks, video, dispstat, irq, loaded>>

(* The three status bits of DISPSTAT are not the game's to write. *)
WriteDispstat(irqs, line) ==
  /\ ~halted
  /\ dispstat_irq' = irqs /\ vcount_setting' = line
  /\ UNCHANGED <<execute_cycles, cpu_ticks, video, timer, irq, loaded>>

(* REG_IE and REG_IME are plain registers: writing them takes no interrupt. *)
WriteIE(mask) ==
  /\ ~halted
  /\ REG_IE' = mask
  /\ UNCHANGED <<execute_cycles, cpu_ticks, video, dispstat, timer, loaded,
                 REG_IF, REG_IME, irq_disabled, halted>>

WriteIME(b) ==
  /\ ~halted
  /\ REG_IME' = b
  /\ UNCHANGED <<execute_cycles, cpu_ticks, video, dispstat, timer, loaded,
                 REG_IE, REG_IF, irq_disabled, halted>>

AckIF(mask) ==
  /\ ~halted
  /\ REG_IF' = REG_IF \ mask
  /\ UNCHANGED <<execute_cycles, cpu_ticks, video, dispstat, timer, loaded,
                 REG_IE, REG_IME, irq_disabled, halted>>

(* The rest of the slice is skipped: update_gba runs until an interrupt     *)
(* makes the CPU active.                                                    *)
Halt ==
  /\ ~halted
  /\ halted' = TRUE
  /\ UNCHANGED <<execute_cycles, cpu_ticks, video, dispstat, timer, loaded,
                 REG_IE, REG_IF, REG_IME, irq_disabled>>

(* check_for_interrupts, with the new I bit. *)
Pending(b) == REG_IE \cap REG_IF # {} /\ REG_IME /\ ~b

(* The CPU writes CPSR, or returns from an exception by SPSR. *)
StoreCpsr(b) ==
  /\ ~halted
  /\ irq_disabled' = (b \/ Pending(b))
  /\ UNCHANGED <<execute_cycles, cpu_ticks, video, dispstat, timer, loaded,
                 REG_IE, REG_IF, REG_IME, halted>>

-------------------------------------------------------------------------------
UpdateGba == UpdateMidLine \/ UpdateHblank \/ UpdateLine

TimerWrite ==
  \E i \in Timers :
    \/ \E r \in Reloads : WriteReload(i, r)
    \/ \E s \in Running, p \in Prescales : StartTimer(i, s, p)
    \/ StopTimer(i)

InterruptWrite ==
  \/ \E irqs \in DispstatSets, line \in VcountSettings : WriteDispstat(irqs, line)
  \/ \E mask \in Masks : WriteIE(mask) \/ AckIF(mask)
  \/ \E b \in BOOLEAN : WriteIME(b) \/ StoreCpsr(b)
  \/ Halt

Next == UpdateGba \/ LoadState \/ Reset \/ TimerWrite \/ InterruptWrite

(* The CPU always comes to the end of its slice: every instruction costs    *)
(* cycles, and a halted CPU calls update_gba in a loop.                     *)
Spec == Init /\ [][Next]_vars /\ WF_vars(UpdateGba)

-------------------------------------------------------------------------------
(* Types. *)
TypeOK ==
  /\ execute_cycles \in Int /\ video_count \in Int
  /\ cpu_ticks \in 0 .. FrameCycles - 1 /\ vcount \in 0 .. Lines - 1
  /\ hblank \in BOOLEAN /\ vblank \in BOOLEAN /\ matched \in BOOLEAN
  /\ dispstat_irq \subseteq {VBLANK, HBLANK, VCOUNT} /\ vcount_setting \in Int
  /\ timer \in [Timers -> [status : Running \cup {"inactive"}, count : Int,
                           reload : Reloads, prescale : Prescales,
                           irq : BOOLEAN]]
  /\ REG_IE \subseteq Sources /\ REG_IF \subseteq Sources /\ REG_IME \in BOOLEAN
  /\ irq_disabled \in BOOLEAN /\ halted \in BOOLEAN /\ loaded \in BOOLEAN

(* The cycle budget that update_gba returns is a fresh one: it passes no    *)
(* event, neither the end of the line's part nor the overflow of a timer,   *)
(* and no timer has run out without starting again.                         *)
BudgetIsFresh ==
  /\ 0 < execute_cycles /\ execute_cycles <= video_count
  /\ \A i \in Timers :
       /\ timer[i].status = "prescale" => execute_cycles <= timer[i].count
       /\ timer[i].status = "cascade" => 0 < timer[i].count

(* However the game starts, stops and reloads timers in the middle of       *)
(* slices, no slice passes an event, until a savestate is loaded            *)
(* (update_gba, check_timer, trigger_timer).                                *)
EventsAhead == loaded \/ BudgetIsFresh

(* The picture keeps time with the CPU: until a savestate is loaded, the    *)
(* cycles charged since power-on, modulo a frame, say exactly which line is *)
(* drawn and how far, however timers have cut the slices; and vblank is on  *)
(* just for the lines below the picture (update_gba).                       *)
VideoOnTime ==
  /\ loaded \/ cpu_ticks = vcount * LineCycles
       + (IF hblank THEN LineCycles ELSE HdrawCycles) - video_count
  /\ loaded \/ video_count <= (IF hblank THEN HblankCycles ELSE HdrawCycles)
  /\ vblank <=> vcount >= Visible

Wanted == REG_IE \cap REG_IF # {} /\ REG_IME

(* An interrupt that came in while they were disabled is taken when they    *)
(* are enabled in CPSR: they stay disabled, for its handler, unless nothing *)
(* that is pending is wanted any more (check_for_interrupts).               *)
PendingTakenAtReturn ==
  [][irq_disabled /\ Wanted /\ Wanted' => irq_disabled']_vars

(* Interrupts that come again and again. *)
Recurring ==
  (dispstat_irq \cap ({VBLANK, HBLANK}
                      \cup (IF vcount_setting < Lines THEN {VCOUNT} ELSE {})))
  \cup {TIMER(i) : i \in {j \in Timers : timer[j].status = "prescale" /\ timer[j].irq}}

(* A CPU that halts to wait for an interrupt that can come wakes up: the    *)
(* event is reached although nobody executes, and raise_interrupt makes the *)
(* CPU active.  (With interrupts off in CPSR or IME it would sleep on.)     *)
HaltEnds ==
  (halted /\ REG_IME /\ ~irq_disabled /\ REG_IE \cap Recurring # {}) ~> ~halted

(* Frames keep coming, whatever the game does to the timers: no slice is    *)
(* empty, so the video always advances (update_gba, trigger_timer).         *)
FramesKeepComing == []<>(vcount = 0 /\ ~hblank)

===============================================================================
