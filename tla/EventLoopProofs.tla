---------------------------- MODULE EventLoopProofs ----------------------------
(***************************************************************************)
(* Theorems about EventLoop for every number of timers, every reload value, *)
(* prescale, line and frame length, every set of interrupts, and with or    *)
(* without savestates.                                                      *)
EXTENDS EventLoop, TLAPS

Status == Running \cup {"inactive"}
TimerType == [status : Status, count : Int, reload : Reloads,
              prescale : Prescales, irq : BOOLEAN]

LEMMA Remainder ==
  ASSUME NEW n \in Nat, n > 0, NEW x \in Int
  PROVE  x % n \in 0 .. n - 1
  OBVIOUS

LEMMA Product ==
  ASSUME NEW a \in Nat, a > 0, NEW b \in Nat, b > 0
  PROVE  a * b \in Nat /\ a * b > 0
  OBVIOUS

LEMMA Sizes ==
  /\ LineCycles \in Nat /\ LineCycles > 0
  /\ FrameCycles \in Nat /\ FrameCycles > 0
<1>1. LineCycles \in Nat /\ LineCycles > 0
  BY LoopAssumption DEF LineCycles
<1>2. Lines \in Nat /\ Lines > 0
  BY LoopAssumption
<1> QED
  BY <1>1, <1>2, Product DEF FrameCycles

LEMMA Numbers ==
  /\ \A r \in Reloads : r \in Nat /\ r > 0
  /\ \A p \in Prescales : p \in Nat /\ p > 0
  /\ FullReload \in Reloads /\ 1 \in Prescales
  BY LoopAssumption

LEMMA StoppedType ==
  ASSUME NEW r \in Reloads
  PROVE  Stopped(r) \in TimerType
  BY Numbers DEF Stopped, TimerType, Status

(* The period of a timer is positive. *)
LEMMA PeriodPositive ==
  ASSUME TypeOK, NEW i \in Timers
  PROVE  Period(i) \in Nat /\ Period(i) > 0
<1>1. timer[i].reload \in Reloads /\ timer[i].prescale \in Prescales
  BY DEF TypeOK
<1> QED
  BY <1>1, Numbers, Product DEF Period

LEMMA ElapsedType ==
  ASSUME TypeOK, NEW i \in Timers
  PROVE  Elapsed(i) \in Int
<1>1. CASE timer[i].status = "prescale"
  BY <1>1 DEF Elapsed, TypeOK
<1>2. CASE timer[i].status # "prescale" /\ (timer[i].status = "cascade" /\ i > 0 /\ Overflows(i - 1))
  BY <1>2 DEF Elapsed
<1>3. CASE timer[i].status # "prescale" /\ ~ (timer[i].status = "cascade" /\ i > 0 /\ Overflows(i - 1))
  BY <1>3 DEF Elapsed
<1> QED
  BY <1>1, <1>2, <1>3

LEMMA UpdatedType ==
  ASSUME TypeOK
  PROVE  UpdatedTimers \in [Timers -> TimerType]
<1>1. ASSUME NEW i \in Timers PROVE [timer[i] EXCEPT !.count = CountAfter(i)] \in TimerType
  <2>1. timer[i] \in TimerType
    BY DEF TypeOK, TimerType, Status
  <2>2. CountAfter(i) \in Int
    BY <2>1, ElapsedType, PeriodPositive DEF CountAfter, TimerType
  <2> QED
    BY <2>1, <2>2 DEF TimerType
<1> QED
  BY <1>1 DEF UpdatedTimers

(* The charge leaves every running timer with time to run. *)
LEMMA UpdatedCounts ==
  ASSUME TypeOK, BudgetIsFresh, NEW i \in Timers, UpdatedTimers[i].status \in Running
  PROVE  UpdatedTimers[i].count \in Int /\ UpdatedTimers[i].count > 0
<1>1. timer[i] \in TimerType
  BY DEF TypeOK, TimerType, Status
<1>2. UpdatedTimers[i].status = timer[i].status /\ UpdatedTimers[i].count = CountAfter(i)
  BY <1>1 DEF UpdatedTimers, TimerType
<1>3. timer[i].count \in Int /\ timer[i].status \in Running
  BY <1>1, <1>2 DEF TimerType
<1>4. timer[i].count - Elapsed(i) >= 0
  <2>1. CASE timer[i].status = "prescale"
    BY <2>1, <1>3 DEF Elapsed, BudgetIsFresh, TypeOK
  <2>2. CASE timer[i].status = "cascade"
    <3>1. timer[i].count > 0
      BY <2>2, <1>3 DEF BudgetIsFresh
    <3>2. Elapsed(i) = 1 \/ Elapsed(i) = 0
      BY <2>2 DEF Elapsed
    <3> QED
      BY <3>1, <3>2, <1>3
  <2> QED
    BY <2>1, <2>2, <1>3 DEF Running
<1>5. CountAfter(i) \in Int /\ CountAfter(i) > 0
  BY <1>3, <1>4, ElapsedType, PeriodPositive DEF CountAfter
<1> QED
  BY <1>2, <1>5

-------------------------------------------------------------------------------
(* Types. *)

LEMMA ChargeType ==
  ASSUME TypeOK, Charge
  PROVE  /\ cpu_ticks' \in 0 .. FrameCycles - 1
         /\ timer' \in [Timers -> TimerType]
<1>1. cpu_ticks + execute_cycles \in Int
  BY Sizes DEF TypeOK
<1> QED
  BY <1>1, Sizes, Remainder, UpdatedType DEF Charge

LEMMA UpdateType ==
  ASSUME TypeOK, NEW raised \in SUBSET Sources, NEW count \in Int, Update(raised, count)
  PROVE  /\ execute_cycles' \in Int /\ video_count' \in Int
         /\ cpu_ticks' \in 0 .. FrameCycles - 1
         /\ timer' \in [Timers -> TimerType]
         /\ REG_IE' \subseteq Sources /\ REG_IF' \subseteq Sources /\ REG_IME' \in BOOLEAN
         /\ irq_disabled' \in BOOLEAN /\ halted' \in BOOLEAN /\ loaded' \in BOOLEAN
         /\ dispstat_irq' = dispstat_irq /\ vcount_setting' = vcount_setting
<1>1. Charge /\ video_count' = count /\ RaiseInterrupt(raised \cup TimerIrqs) /\ NextSlice(count)
      /\ UNCHANGED <<dispstat, loaded>>
  BY DEF Update
<1>2. execute_cycles' \in Int
  BY <1>1, UpdatedType DEF NextSlice, Deadlines, TimerType
<1>3. TimerIrqs \subseteq Sources
  BY LoopAssumption DEF TimerIrqs, Sources, TIMER, Timers
<1>4. /\ REG_IE' \subseteq Sources /\ REG_IF' \subseteq Sources /\ REG_IME' \in BOOLEAN
      /\ irq_disabled' \in BOOLEAN /\ halted' \in BOOLEAN
  BY <1>1, <1>3, Zenon DEF RaiseInterrupt, AwakeAfter, TypeOK
<1> QED
  BY <1>1, <1>2, <1>4, ChargeType DEF TypeOK, dispstat

LEMMA SourceBits == {VBLANK, HBLANK, VCOUNT} \subseteq Sources
  BY LoopAssumption DEF VBLANK, HBLANK, VCOUNT, Sources, TIMER

LEMMA LineType ==
  ASSUME TypeOK
  PROVE  LineAfter \in 0 .. Lines - 1
<1>1. Lines \in Nat /\ Lines > 0 /\ vcount + 1 \in Int
  BY LoopAssumption DEF TypeOK
<1> QED
  BY <1>1, Remainder DEF LineAfter

LEMMA UpdateGbaType ==
  ASSUME TypeOK, UpdateGba
  PROVE  TypeOK'
<1> USE DEF TimerType, Status
<1>0. Left \in Int /\ Left + HblankCycles \in Int /\ Left + HdrawCycles \in Int
  BY LoopAssumption DEF Left, TypeOK
<1>1. CASE UpdateMidLine
  <2>1. Update({}, Left)
    BY <1>1 DEF UpdateMidLine
  <2> QED
    BY <1>0, <1>1, <2>1, UpdateType DEF UpdateMidLine, TypeOK
<1>2. CASE UpdateHblank
  <2>1. dispstat_irq \cap {HBLANK} \in SUBSET Sources
    BY SourceBits DEF TypeOK
  <2>2. Update(dispstat_irq \cap {HBLANK}, Left + HblankCycles)
    BY <1>2 DEF UpdateHblank
  <2> QED
    BY <1>0, <1>2, <2>1, <2>2, UpdateType DEF UpdateHblank, TypeOK
<1>3. CASE UpdateLine
  <2>1. LineIrqs(LineAfter) \in SUBSET Sources
    BY SourceBits DEF TypeOK, LineIrqs
  <2>2. Update(LineIrqs(LineAfter), Left + HdrawCycles)
    BY <1>3 DEF UpdateLine
  <2>3. /\ vcount' \in 0 .. Lines - 1 /\ hblank' \in BOOLEAN
        /\ vblank' \in BOOLEAN /\ matched' \in BOOLEAN
    BY <1>3, LineType DEF UpdateLine, HblankAfterLine, VblankAfter, Matches
  <2> QED
    BY <1>0, <2>1, <2>2, <2>3, UpdateType DEF TypeOK
<1> QED
  BY <1>1, <1>2, <1>3 DEF UpdateGba

LEMMA TypeStep == TypeOK /\ [Next]_vars => TypeOK'
<1> SUFFICES ASSUME TypeOK, [Next]_vars PROVE TypeOK'
  OBVIOUS
<1> USE DEF TimerType, Status
<1>1. CASE UpdateGba
  BY <1>1, UpdateGbaType
<1>2. CASE LoadState
  <2>1. video_count' \in Int
    BY <1>2, LoopAssumption DEF LoadState, Left, TypeOK
  <2>2. Charge
    BY <1>2 DEF LoadState
  <2> QED
    BY <1>2, <2>1, <2>2, ChargeType DEF LoadState, TypeOK, dispstat, irq
<1>3. CASE Reset
  <2>1. timer' \in [Timers -> TimerType]
    BY <1>3, StoppedType, Numbers DEF Reset
  <2>2. cpu_ticks' \in 0 .. FrameCycles - 1 /\ vcount' \in 0 .. Lines - 1
    BY <1>3, Sizes, LoopAssumption DEF Reset
  <2>3. execute_cycles' \in Int /\ video_count' \in Int /\ vcount_setting' \in Int
    BY <1>3, LoopAssumption DEF Reset
  <2>4. /\ hblank' \in BOOLEAN /\ vblank' \in BOOLEAN /\ matched' \in BOOLEAN
        /\ REG_IME' \in BOOLEAN /\ irq_disabled' \in BOOLEAN
        /\ halted' \in BOOLEAN /\ loaded' \in BOOLEAN
    BY <1>3, Zenon DEF Reset
  <2>5. /\ dispstat_irq' \subseteq {VBLANK, HBLANK, VCOUNT}
        /\ REG_IE' \subseteq Sources /\ REG_IF' \subseteq Sources
    BY <1>3, Zenon DEF Reset
  <2> QED
    BY <2>1, <2>2, <2>3, <2>4, <2>5 DEF TypeOK
<1>4. CASE TimerWrite
  <2>1. PICK i \in Timers :
          \/ \E r \in Reloads : WriteReload(i, r)
          \/ \E s \in Running, p \in Prescales : StartTimer(i, s, p)
          \/ StopTimer(i)
    BY <1>4 DEF TimerWrite
  <2>2. timer[i] \in TimerType
    BY DEF TypeOK
  <2>3. ASSUME NEW r \in Reloads, WriteReload(i, r) PROVE TypeOK'
    BY <2>3, <2>2 DEF WriteReload, TypeOK, video, dispstat, irq
  <2>4. ASSUME NEW s \in Running, NEW p \in Prescales, StartTimer(i, s, p) PROVE TypeOK'
    <3>1. timer[i].reload * p \in Int
      BY <2>2, Numbers, Product
    <3>2. execute_cycles' \in Int
      BY <2>4, <3>1 DEF StartTimer, SliceCut, TypeOK
    <3>3. [status |-> s, count |-> timer[i].reload * p, reload |-> timer[i].reload,
           prescale |-> p, irq |-> i \in IrqTimers] \in TimerType
      BY <2>2, <3>1
    <3>4. timer' \in [Timers -> TimerType]
      BY <2>4, <3>3 DEF StartTimer, TypeOK
    <3> QED
      BY <2>4, <3>2, <3>4 DEF StartTimer, TypeOK, video, dispstat, irq
  <2>5. ASSUME StopTimer(i) PROVE TypeOK'
    <3>1. Stopped(timer[i].reload) \in TimerType
      BY <2>2, StoppedType
    <3>2. timer' \in [Timers -> TimerType]
      BY <2>5, <3>1 DEF StopTimer, TypeOK
    <3> QED
      BY <2>5, <3>2 DEF StopTimer, TypeOK, video, dispstat, irq
  <2> QED
    BY <2>1, <2>3, <2>4, <2>5
<1>5. CASE InterruptWrite
  <2>1. ASSUME NEW irqs \in DispstatSets, NEW line \in VcountSettings, WriteDispstat(irqs, line)
        PROVE  TypeOK'
    BY <2>1, LoopAssumption DEF WriteDispstat, TypeOK, video, irq
  <2>2. ASSUME NEW mask \in Masks, WriteIE(mask) PROVE TypeOK'
    BY <2>2, LoopAssumption DEF WriteIE, TypeOK, video, dispstat
  <2>3. ASSUME NEW mask \in Masks, AckIF(mask) PROVE TypeOK'
    BY <2>3 DEF AckIF, TypeOK, video, dispstat
  <2>4. ASSUME NEW b \in BOOLEAN, WriteIME(b) PROVE TypeOK'
    BY <2>4 DEF WriteIME, TypeOK, video, dispstat
  <2>5. ASSUME NEW b \in BOOLEAN, StoreCpsr(b) PROVE TypeOK'
    BY <2>5 DEF StoreCpsr, Pending, TypeOK, video, dispstat
  <2>6. ASSUME Halt PROVE TypeOK'
    BY <2>6 DEF Halt, TypeOK, video, dispstat
  <2> QED
    BY <1>5, <2>1, <2>2, <2>3, <2>4, <2>5, <2>6 DEF InterruptWrite
<1>6. CASE UNCHANGED vars
  BY <1>6 DEF vars, video, dispstat, irq, TypeOK
<1> QED
  BY <1>1, <1>2, <1>3, <1>4, <1>5, <1>6 DEF Next

LEMMA InitType == Init => TypeOK
<1> SUFFICES ASSUME Init PROVE TypeOK
  OBVIOUS
<1>1. timer \in [Timers -> TimerType]
  BY StoppedType, Numbers DEF Init
<1>2. /\ execute_cycles \in Int /\ video_count \in Int /\ vcount_setting \in Int
      /\ cpu_ticks \in 0 .. FrameCycles - 1 /\ vcount \in 0 .. Lines - 1
  BY Sizes, LoopAssumption DEF Init
<1>3. /\ hblank \in BOOLEAN /\ vblank \in BOOLEAN /\ matched \in BOOLEAN
      /\ REG_IME \in BOOLEAN /\ irq_disabled \in BOOLEAN
      /\ halted \in BOOLEAN /\ loaded \in BOOLEAN
  BY Zenon DEF Init
<1>4. /\ dispstat_irq \subseteq {VBLANK, HBLANK, VCOUNT}
      /\ REG_IE \subseteq Sources /\ REG_IF \subseteq Sources
  BY Zenon DEF Init
<1> QED
  BY <1>1, <1>2, <1>3, <1>4 DEF TypeOK, TimerType, Status

(* Every variable of the event loop keeps its type; in particular the line  *)
(* stays in the frame (update_gba).                                         *)
THEOREM TypeCorrect == Spec => []TypeOK
  BY InitType, TypeStep, PTL DEF Spec

-------------------------------------------------------------------------------
(* No slice passes an event. *)

(* The next slice is the shortest of the times to the video's and the       *)
(* timers' events.                                                          *)
LEMMA NextSliceIsFresh ==
  ASSUME TypeOK, BudgetIsFresh, Charge,
         NEW count \in Int, count > 0, video_count' = count, NextSlice(count)
  PROVE  BudgetIsFresh'
<1> DEFINE D == Deadlines(count, UpdatedTimers)
<1>1. PICK d \in D : (\A e \in D : d <= e) /\ execute_cycles' = d
  BY DEF NextSlice
<1>2. count \in D
  BY DEF Deadlines
<1>3. ASSUME NEW i \in Timers, UpdatedTimers[i].status = "prescale"
      PROVE  UpdatedTimers[i].count \in D
  BY <1>3, UpdatedCounts DEF Deadlines, Running
<1>4. d \in Int /\ d > 0
  <2>1. CASE d = count
    BY <2>1
  <2>2. CASE d # count
    <3>1. PICK i \in Timers : UpdatedTimers[i].status = "prescale" /\ d = UpdatedTimers[i].count
      BY <1>1, <2>2 DEF Deadlines
    <3> QED
      BY <3>1, UpdatedCounts DEF Running
  <2> QED
    BY <2>1, <2>2
<1>5. timer' = UpdatedTimers
  BY DEF Charge
<1>6. d <= count
  BY <1>1, <1>2
<1>7. ASSUME NEW i \in Timers
      PROVE  /\ UpdatedTimers[i].status = "prescale" => d <= UpdatedTimers[i].count
             /\ UpdatedTimers[i].status = "cascade" => 0 < UpdatedTimers[i].count
  BY <1>1, <1>3, UpdatedCounts DEF Running
<1> HIDE DEF D
<1> QED
  BY <1>1, <1>4, <1>5, <1>6, <1>7 DEF BudgetIsFresh

LEMMA UpdateGbaFresh ==
  ASSUME TypeOK, BudgetIsFresh, UpdateGba
  PROVE  BudgetIsFresh'
<1>0. Left \in Int /\ Left >= 0 /\ Left + HblankCycles > 0 /\ Left + HdrawCycles > 0
  BY LoopAssumption DEF Left, TypeOK, BudgetIsFresh
<1>1. CASE UpdateMidLine
  BY <1>0, <1>1, NextSliceIsFresh DEF UpdateMidLine, Update
<1>2. CASE UpdateHblank
  BY <1>0, <1>2, NextSliceIsFresh, LoopAssumption DEF UpdateHblank, Update
<1>3. CASE UpdateLine
  BY <1>0, <1>3, NextSliceIsFresh, LoopAssumption DEF UpdateLine, Update
<1> QED
  BY <1>1, <1>2, <1>3 DEF UpdateGba

LEMMA TimerWriteFresh ==
  ASSUME TypeOK, BudgetIsFresh, TimerWrite
  PROVE  BudgetIsFresh'
<1>1. PICK i \in Timers :
        \/ \E r \in Reloads : WriteReload(i, r)
        \/ \E s \in Running, p \in Prescales : StartTimer(i, s, p)
        \/ StopTimer(i)
  BY DEF TimerWrite
<1>2. timer \in [Timers -> TimerType]
  BY DEF TypeOK, TimerType, Status
<1>3. ASSUME NEW r \in Reloads, WriteReload(i, r) PROVE BudgetIsFresh'
  BY <1>2, <1>3 DEF WriteReload, BudgetIsFresh, video, TimerType
<1>4. ASSUME NEW s \in Running, NEW p \in Prescales, StartTimer(i, s, p)
      PROVE  BudgetIsFresh'
  <2> DEFINE count == timer[i].reload * p
  <2>1. count \in Nat /\ count > 0
    BY <1>2, Numbers, Product DEF TimerType
  <2>2. /\ execute_cycles' = SliceCut(count) /\ video_count' = video_count
        /\ timer' = [timer EXCEPT ![i] =
             [status |-> s, count |-> count, reload |-> timer[i].reload,
              prescale |-> p, irq |-> i \in IrqTimers]]
    BY <1>4 DEF StartTimer, video
  <2> HIDE DEF count
  <2>3. /\ execute_cycles' \in Int /\ 0 < execute_cycles'
        /\ execute_cycles' <= count /\ execute_cycles' <= execute_cycles
    BY <2>1, <2>2 DEF SliceCut, TypeOK, BudgetIsFresh
  <2>4. execute_cycles' <= video_count'
    BY <2>2, <2>3 DEF TypeOK, BudgetIsFresh
  <2>5. ASSUME NEW j \in Timers
        PROVE  /\ timer'[j].status = "prescale" => execute_cycles' <= timer'[j].count
               /\ timer'[j].status = "cascade" => 0 < timer'[j].count
    <3>1. CASE j = i
      BY <1>2, <2>1, <2>2, <2>3, <3>1
    <3>2. CASE j # i
      <4>1. timer'[j] = timer[j]
        BY <1>2, <2>2, <3>2
      <4>2. timer[j].count \in Int
        BY <1>2 DEF TimerType
      <4> QED
        BY <4>1, <4>2, <2>3 DEF BudgetIsFresh, TypeOK
    <3> QED
      BY <3>1, <3>2
  <2> QED
    BY <2>3, <2>4, <2>5 DEF BudgetIsFresh
<1>5. ASSUME StopTimer(i) PROVE BudgetIsFresh'
  BY <1>2, <1>5 DEF StopTimer, Stopped, BudgetIsFresh, video
<1> QED
  BY <1>1, <1>3, <1>4, <1>5

(* What the game does to the interrupts, the video does not notice. *)
LEMMA InterruptWriteKeeps ==
  ASSUME InterruptWrite
  PROVE  UNCHANGED <<execute_cycles, cpu_ticks, video, timer, loaded>>
<1>1. ASSUME NEW irqs \in DispstatSets, NEW line \in VcountSettings, WriteDispstat(irqs, line)
      PROVE  UNCHANGED <<execute_cycles, cpu_ticks, video, timer, loaded>>
  BY <1>1 DEF WriteDispstat
<1>2. ASSUME NEW mask \in Masks, WriteIE(mask) \/ AckIF(mask)
      PROVE  UNCHANGED <<execute_cycles, cpu_ticks, video, timer, loaded>>
  BY <1>2 DEF WriteIE, AckIF
<1>3. ASSUME NEW b \in BOOLEAN, WriteIME(b) \/ StoreCpsr(b)
      PROVE  UNCHANGED <<execute_cycles, cpu_ticks, video, timer, loaded>>
  BY <1>3 DEF WriteIME, StoreCpsr
<1>4. ASSUME Halt PROVE UNCHANGED <<execute_cycles, cpu_ticks, video, timer, loaded>>
  BY <1>4 DEF Halt
<1> QED
  BY <1>1, <1>2, <1>3, <1>4 DEF InterruptWrite

LEMMA InitFresh ==
  ASSUME execute_cycles = HdrawCycles, video_count = HdrawCycles,
         timer = [i \in Timers |-> Stopped(FullReload)]
  PROVE  BudgetIsFresh
  BY LoopAssumption DEF BudgetIsFresh, Stopped

LEMMA FreshStep == TypeOK /\ EventsAhead /\ [Next]_vars => EventsAhead'
<1> SUFFICES ASSUME TypeOK, EventsAhead, [Next]_vars PROVE EventsAhead'
  OBVIOUS
<1>1. CASE UpdateGba
  <2>1. loaded' = loaded
    BY <1>1 DEF UpdateGba, UpdateMidLine, UpdateHblank, UpdateLine, Update
  <2> QED
    BY <1>1, <2>1, UpdateGbaFresh DEF EventsAhead
<1>2. CASE LoadState
  BY <1>2 DEF LoadState, EventsAhead
<1>3. CASE Reset
  BY <1>3, LoopAssumption DEF Reset, EventsAhead, BudgetIsFresh, Stopped
<1>4. CASE TimerWrite
  <2>1. loaded' = loaded
    BY <1>4 DEF TimerWrite, WriteReload, StartTimer, StopTimer
  <2> QED
    BY <1>4, <2>1, TimerWriteFresh DEF EventsAhead
<1>5. CASE InterruptWrite
  BY <1>5, InterruptWriteKeeps DEF video, EventsAhead, BudgetIsFresh
<1>6. CASE UNCHANGED vars
  BY <1>6 DEF vars, video, EventsAhead, BudgetIsFresh
<1> QED
  BY <1>1, <1>2, <1>3, <1>4, <1>5, <1>6 DEF Next

(* However many timers the game starts, stops and reloads, with whatever    *)
(* periods, no slice passes an event (update_gba, trigger_timer), until a   *)
(* savestate is loaded.                                                     *)
THEOREM NoEventMissed == Spec => []EventsAhead
<1>1. Init => EventsAhead
  BY InitFresh DEF Init, EventsAhead
<1> QED
  BY <1>1, InitType, TypeStep, FreshStep, PTL DEF Spec

-------------------------------------------------------------------------------
(* The video keeps time. *)

LEMMA LessThanModulus ==
  ASSUME NEW n \in Nat, n > 0, NEW x \in 0 .. n - 1
  PROVE  x % n = x
  OBVIOUS

LEMMA ModulusItself ==
  ASSUME NEW n \in Nat, n > 0
  PROVE  n % n = 0
  OBVIOUS

LEMMA NextMultiple ==
  ASSUME NEW a \in Nat, NEW b \in Nat
  PROVE  (a + 1) * b = a * b + b
  OBVIOUS

LEMMA Monotone ==
  ASSUME NEW a \in Nat, NEW b \in Nat, NEW c \in Nat, a <= c
  PROVE  a * b <= c * b
  OBVIOUS

LEMMA PositionsInFrame ==
  ASSUME NEW line \in 0 .. Lines - 1
  PROVE  /\ line * LineCycles \in Nat
         /\ (line + 1) * LineCycles = line * LineCycles + LineCycles
         /\ line + 1 < Lines => line * LineCycles + LineCycles + LineCycles <= FrameCycles
         /\ line + 1 = Lines => line * LineCycles + LineCycles = FrameCycles
<1>1. line \in Nat /\ Lines \in Nat /\ line + 1 \in Nat /\ line + 2 \in Nat
  BY LoopAssumption
<1>2. line * LineCycles \in Nat
  BY <1>1, Sizes
<1>3. (line + 1) * LineCycles = line * LineCycles + LineCycles
  BY <1>1, Sizes, NextMultiple
<1>4. ASSUME line + 1 < Lines
      PROVE  line * LineCycles + LineCycles + LineCycles <= FrameCycles
  <2>1. ((line + 1) + 1) * LineCycles = (line + 1) * LineCycles + LineCycles
    BY <1>1, Sizes, NextMultiple
  <2>2. ((line + 1) + 1) * LineCycles <= Lines * LineCycles
    BY <1>1, <1>4, Sizes, Monotone
  <2> QED
    BY <1>3, <2>1, <2>2 DEF FrameCycles
<1>5. ASSUME line + 1 = Lines
      PROVE  line * LineCycles + LineCycles = FrameCycles
  BY <1>3, <1>5 DEF FrameCycles
<1> QED
  BY <1>2, <1>3, <1>4, <1>5

(* The line after a line, and where vblank is. *)
LEMMA NextLine ==
  ASSUME TypeOK
  PROVE  /\ vcount + 1 < Lines => LineAfter = vcount + 1
         /\ vcount + 1 = Lines => LineAfter = 0
<1>1. Lines \in Nat /\ Lines > 0 /\ vcount \in 0 .. Lines - 1
  BY LoopAssumption DEF TypeOK
<1>2. ASSUME vcount + 1 < Lines PROVE LineAfter = vcount + 1
  BY <1>1, <1>2, LessThanModulus DEF LineAfter
<1>3. ASSUME vcount + 1 = Lines PROVE LineAfter = 0
  BY <1>1, <1>3, ModulusItself DEF LineAfter
<1> QED
  BY <1>2, <1>3

LEMMA UpdateOnTime ==
  ASSUME TypeOK, EventsAhead, VideoOnTime, UpdateGba
  PROVE  VideoOnTime'
<1> DEFINE L == vcount * LineCycles
<1>1. /\ L \in Nat /\ (vcount + 1) * LineCycles = L + LineCycles
      /\ vcount + 1 < Lines => L + LineCycles + LineCycles <= FrameCycles
      /\ vcount + 1 = Lines => L + LineCycles = FrameCycles
      /\ vcount \in Nat /\ vcount < Lines /\ Lines \in Nat
  BY PositionsInFrame, LoopAssumption DEF TypeOK
<1>2. L + LineCycles <= FrameCycles
  BY <1>1, Sizes
<1>3. LineCycles = HdrawCycles + HblankCycles /\ HdrawCycles \in Nat /\ HblankCycles \in Nat
      /\ HdrawCycles > 0 /\ HblankCycles > 0
  BY LoopAssumption DEF LineCycles
<1>4. execute_cycles \in Int /\ video_count \in Int /\ cpu_ticks \in Int
      /\ hblank \in BOOLEAN /\ vblank \in BOOLEAN /\ loaded \in BOOLEAN /\ FrameCycles \in Nat
      /\ FrameCycles > 0
  BY Sizes DEF TypeOK
<1>5. cpu_ticks' = (cpu_ticks + execute_cycles) % FrameCycles /\ loaded' = loaded
  BY DEF UpdateGba, UpdateMidLine, UpdateHblank, UpdateLine, Update, Charge
<1>6. ASSUME ~loaded
      PROVE  /\ cpu_ticks = L + (IF hblank THEN LineCycles ELSE HdrawCycles) - video_count
             /\ video_count <= (IF hblank THEN HblankCycles ELSE HdrawCycles)
             /\ 0 < execute_cycles /\ execute_cycles <= video_count
  BY <1>6 DEF VideoOnTime, EventsAhead, BudgetIsFresh
<1> HIDE DEF L
<1>7. CASE UpdateMidLine
  <2>1. /\ video_count' = video_count - execute_cycles /\ video_count' > 0
        /\ vcount' = vcount /\ hblank' = hblank /\ vblank' = vblank
    BY <1>7 DEF UpdateMidLine, Update, Left
  <2>2. ASSUME ~loaded
        PROVE  /\ cpu_ticks' = L + (IF hblank THEN LineCycles ELSE HdrawCycles) - video_count'
               /\ video_count' <= (IF hblank THEN HblankCycles ELSE HdrawCycles)
    <3>1. cpu_ticks + execute_cycles
            = L + (IF hblank THEN LineCycles ELSE HdrawCycles) - video_count'
      BY <1>1, <1>3, <1>4, <1>6, <2>1, <2>2
    <3>2. cpu_ticks + execute_cycles \in 0 .. FrameCycles - 1
      BY <1>1, <1>2, <1>3, <1>4, <1>6, <2>1, <2>2, <3>1
    <3> QED
      BY <1>3, <1>4, <1>5, <1>6, <2>1, <2>2, <3>1, <3>2, LessThanModulus
  <2> QED
    BY <1>4, <1>5, <2>1, <2>2 DEF VideoOnTime, L
<1>8. CASE UpdateHblank
  <2>1. /\ video_count' = video_count - execute_cycles + HblankCycles
        /\ video_count - execute_cycles <= 0 /\ ~hblank /\ hblank'
        /\ vcount' = vcount /\ vblank' = vblank
    BY <1>8 DEF UpdateHblank, Update, Left
  <2>2. ASSUME ~loaded
        PROVE  cpu_ticks' = L + LineCycles - video_count' /\ video_count' <= HblankCycles
    <3>1. cpu_ticks + execute_cycles = L + HdrawCycles /\ video_count' = HblankCycles
      BY <1>1, <1>3, <1>4, <1>6, <2>1, <2>2
    <3>2. cpu_ticks + execute_cycles \in 0 .. FrameCycles - 1
      BY <1>1, <1>2, <1>3, <1>4, <3>1
    <3>3. cpu_ticks' = L + HdrawCycles
      BY <1>4, <1>5, <3>1, <3>2, LessThanModulus
    <3> QED
      BY <1>1, <1>3, <3>1, <3>3
  <2> QED
    BY <1>4, <1>5, <2>1, <2>2 DEF VideoOnTime, L
<1>9. CASE UpdateLine
  <2>1. /\ video_count' = video_count - execute_cycles + HdrawCycles
        /\ video_count - execute_cycles <= 0 /\ hblank /\ ~hblank'
        /\ vcount' = LineAfter /\ vblank' = VblankAfter(LineAfter)
    BY <1>9 DEF UpdateLine, Update, Left, HblankAfterLine
  <2>2. vblank' <=> vcount' >= Visible
    <3>1. Visible \in Nat /\ Visible > 0 /\ Visible < Lines
      BY LoopAssumption
    <3>2. vblank <=> vcount >= Visible
      BY DEF VideoOnTime
    <3>3. CASE vcount + 1 < Lines
      <4>1. vcount' = vcount + 1 /\ vcount' # 0
        BY <1>1, <2>1, <3>3, NextLine
      <4>2. vblank' <=> (vblank \/ vcount' = Visible)
        BY <2>1, <4>1, Zenon DEF VblankAfter
      <4>3. vcount' >= Visible <=> (vcount >= Visible \/ vcount' = Visible)
        BY <1>1, <3>1, <4>1
      <4> QED
        BY <3>2, <4>2, <4>3, Zenon
    <3>4. CASE vcount + 1 = Lines
      <4>1. vcount' = 0
        BY <2>1, <3>4, NextLine
      <4>2. ~vblank'
        BY <2>1, <4>1, Zenon DEF VblankAfter
      <4> QED
        BY <3>1, <4>1, <4>2
    <3> QED
      BY <1>1, <3>3, <3>4
  <2>3. ASSUME ~loaded
        PROVE  cpu_ticks' = LineAfter * LineCycles /\ video_count' = HdrawCycles
    <3>1. cpu_ticks + execute_cycles = L + LineCycles /\ video_count' = HdrawCycles
      BY <1>1, <1>3, <1>4, <1>6, <2>1, <2>3
    <3>2. CASE vcount + 1 < Lines
      <4>1. L + LineCycles \in 0 .. FrameCycles - 1
        BY <1>1, <1>3, <1>4, <3>2
      <4>2. cpu_ticks' = L + LineCycles
        BY <1>4, <1>5, <3>1, <4>1, LessThanModulus
      <4> QED
        BY <1>1, <3>1, <3>2, <4>2, NextLine
    <3>3. CASE vcount + 1 = Lines
      <4>1. cpu_ticks' = 0
        BY <1>1, <1>4, <1>5, <3>1, <3>3, ModulusItself
      <4>2. LineAfter = 0 /\ 0 * LineCycles = 0
        BY <3>3, NextLine, Sizes
      <4> QED
        BY <3>1, <4>1, <4>2
    <3> QED
      BY <1>1, <3>2, <3>3
  <2>4. LineAfter \in Nat /\ LineAfter * LineCycles \in Nat
    BY LineType, PositionsInFrame
  <2>5. ASSUME ~loaded
        PROVE  cpu_ticks' = vcount' * LineCycles + HdrawCycles - video_count'
    BY <1>3, <2>1, <2>3, <2>4, <2>5
  <2> QED
    BY <1>3, <1>4, <1>5, <2>1, <2>2, <2>3, <2>5 DEF VideoOnTime
<1> QED
  BY <1>7, <1>8, <1>9 DEF UpdateGba

LEMMA InitOnTime ==
  /\ HdrawCycles <= HdrawCycles
  /\ 0 = 0 * LineCycles + HdrawCycles - HdrawCycles
  /\ ~ (0 >= Visible)
<1>1. 0 * LineCycles = 0
  BY Sizes
<1> QED
  BY <1>1, LoopAssumption

LEMMA OnTimeStep == TypeOK /\ EventsAhead /\ VideoOnTime /\ [Next]_vars => VideoOnTime'
<1> SUFFICES ASSUME TypeOK, EventsAhead, VideoOnTime, [Next]_vars PROVE VideoOnTime'
  OBVIOUS
<1>1. CASE UpdateGba
  BY <1>1, UpdateOnTime
<1>2. CASE LoadState
  BY <1>2 DEF LoadState, VideoOnTime
<1>3. CASE Reset
  BY <1>3, InitOnTime DEF Reset, VideoOnTime
<1>4. CASE TimerWrite
  <2>1. UNCHANGED <<cpu_ticks, video, loaded>>
    BY <1>4 DEF TimerWrite, WriteReload, StartTimer, StopTimer
  <2> QED
    BY <2>1 DEF video, VideoOnTime
<1>5. CASE InterruptWrite
  BY <1>5, InterruptWriteKeeps DEF video, VideoOnTime
<1>6. CASE UNCHANGED vars
  BY <1>6 DEF vars, video, VideoOnTime
<1> QED
  BY <1>1, <1>2, <1>3, <1>4, <1>5, <1>6 DEF Next

(* For every division of the frame into slices, the line that is drawn, and *)
(* how much of it, is what the cycles charged since power-on say, until a   *)
(* savestate is loaded (update_gba).                                        *)
THEOREM PictureKeepsTime == Spec => []VideoOnTime
<1>1. Init => VideoOnTime
  BY InitOnTime DEF Init, VideoOnTime
<1>2. Init => EventsAhead
  BY InitFresh DEF Init, EventsAhead
<1> QED
  BY <1>1, <1>2, InitType, TypeStep, FreshStep, OnTimeStep, PTL DEF Spec

-------------------------------------------------------------------------------
(* Interrupts. *)

(* Whatever raised it, an interrupt that is pending and wanted when         *)
(* interrupts are enabled in CPSR is taken at once (check_for_interrupts).  *)
THEOREM PendingIsTaken == Spec => PendingTakenAtReturn
<1>1. ASSUME [Next]_vars, irq_disabled, Wanted, Wanted' PROVE irq_disabled'
  <2>1. CASE UpdateGba
    BY <1>1, <2>1, Zenon DEF UpdateGba, UpdateMidLine, UpdateHblank, UpdateLine, Update, RaiseInterrupt
  <2>2. CASE LoadState
    BY <1>1, <2>2 DEF LoadState, irq
  <2>3. CASE Reset
    BY <1>1, <2>3 DEF Reset, Wanted
  <2>4. CASE TimerWrite
    BY <1>1, <2>4 DEF TimerWrite, WriteReload, StartTimer, StopTimer, irq
  <2>5. CASE InterruptWrite
    <3>1. ASSUME NEW irqs \in DispstatSets, NEW line \in VcountSettings, WriteDispstat(irqs, line)
          PROVE  irq_disabled'
      BY <1>1, <3>1 DEF WriteDispstat, irq
    <3>2. ASSUME NEW mask \in Masks, WriteIE(mask) \/ AckIF(mask) PROVE irq_disabled'
      BY <1>1, <3>2 DEF WriteIE, AckIF
    <3>3. ASSUME NEW b \in BOOLEAN, WriteIME(b) PROVE irq_disabled'
      BY <1>1, <3>3 DEF WriteIME
    <3>4. ASSUME NEW b \in BOOLEAN, StoreCpsr(b) PROVE irq_disabled'
      BY <1>1, <3>4, Zenon DEF StoreCpsr, Pending, Wanted
    <3>5. ASSUME Halt PROVE irq_disabled'
      BY <1>1, <3>5 DEF Halt
    <3> QED
      BY <2>5, <3>1, <3>2, <3>3, <3>4, <3>5 DEF InterruptWrite
  <2>6. CASE UNCHANGED vars
    BY <1>1, <2>6 DEF vars, irq
  <2> QED
    BY <1>1, <2>1, <2>2, <2>3, <2>4, <2>5, <2>6 DEF Next
<1>2. [Next]_vars => [irq_disabled /\ Wanted /\ Wanted' => irq_disabled']_vars
  BY <1>1
<1> QED
  BY <1>2, PTL DEF Spec, PendingTakenAtReturn

===============================================================================
