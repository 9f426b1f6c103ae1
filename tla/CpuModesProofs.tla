--------------------------- MODULE CpuModesProofs ---------------------------
(***************************************************************************)
(* Proofs about CpuModes: the banks in use are those of the mode CPSR      *)
(* names, and moving registers between the banks changes none of them.     *)
(***************************************************************************)
EXTENDS CpuModes, TLAPS

Registers == [r8 : Int, sp : Int, lr : Int]
Status == [mode : Modes, i : {0, 1}, t : {0, 1}, f : {0, 1}]
CpuState == [reg : Registers, bank : [Modes -> Registers], mode : Modes, cpsr : Status,
             f : {0, 1}, spsr : [Modes -> Status], pc : Int]
Kept == [mode : Modes, lr : Int, spsr : Status]
Frame == [pc : Int, reg : Registers, status : Status, kept : Seq(Kept)]
Frames == Seq(Frame)

\* cpu_switch_mode changes the mode in use and not CPSR.
LEMMA SwitchType ==
  ASSUME NEW c \in CpuState, NEW new \in Modes
  PROVE  /\ cpu_switch_mode(c, new) \in CpuState
         /\ cpu_switch_mode(c, new).mode = new
         /\ cpu_switch_mode(c, new).cpsr = c.cpsr
PROOF
<1>1. CASE c.mode = new
  BY <1>1 DEF cpu_switch_mode, CpuState
<1>2. CASE c.mode # new
  <2> DEFINE retired == [c.bank EXCEPT ![c.mode] = [@ EXCEPT !.sp = c.reg.sp, !.lr = c.reg.lr]]
             fiq == Fiq \in {c.mode, new}
             Shared(m) == IF m = Fiq THEN Fiq ELSE User
             bank == IF fiq THEN [retired EXCEPT ![Shared(c.mode)].r8 = c.reg.r8] ELSE retired
             r8 == IF fiq THEN bank[Shared(new)].r8 ELSE c.reg.r8
  <2>1. retired \in [Modes -> Registers]
    BY DEF CpuState, Registers
  <2>2. /\ Shared(c.mode) \in Modes /\ Shared(new) \in Modes
        /\ c.reg.r8 \in Int
    BY DEF Modes, CpuState, Registers
  <2>3. bank \in [Modes -> Registers]
    <3> HIDE DEF retired, Shared, fiq
    <3> QED BY <2>1, <2>2 DEF Registers
  <2>4. r8 \in Int
    <3> HIDE DEF bank, Shared
    <3> QED BY <2>2, <2>3 DEF Registers
  <2>5. cpu_switch_mode(c, new)
          = [c EXCEPT !.bank = bank, !.mode = new,
                      !.reg = [r8 |-> r8, sp |-> bank[new].sp, lr |-> bank[new].lr]]
    BY <1>2 DEF cpu_switch_mode
  <2> HIDE DEF bank, r8
  <2>6. [r8 |-> r8, sp |-> bank[new].sp, lr |-> bank[new].lr] \in Registers
    BY <2>3, <2>4 DEF Registers
  <2> QED BY <2>3, <2>5, <2>6 DEF CpuState
<1> QED BY <1>1, <1>2

\* Whatever the mode in use becomes, no register of any mode changes: for every mode
\* m and register r, the place that holds it afterwards holds what it held (cpu_mode.h).
THEOREM SwitchKeepsFile ==
  ASSUME NEW c \in CpuState, NEW new \in Modes, NEW m \in Modes, NEW r \in Names,
         r = "r8" => m \in {User, Fiq}
  PROVE  Value(cpu_switch_mode(c, new), m, r) = Value(c, m, r)
PROOF
<1>1. CASE c.mode = new
  BY <1>1 DEF cpu_switch_mode
<1>2. CASE c.mode # new
  <2> DEFINE retired == [c.bank EXCEPT ![c.mode] = [@ EXCEPT !.sp = c.reg.sp, !.lr = c.reg.lr]]
             fiq == Fiq \in {c.mode, new}
             Shared(n) == IF n = Fiq THEN Fiq ELSE User
             bank == IF fiq THEN [retired EXCEPT ![Shared(c.mode)].r8 = c.reg.r8] ELSE retired
             r8 == IF fiq THEN bank[Shared(new)].r8 ELSE c.reg.r8
             d == cpu_switch_mode(c, new)
  <2>0. /\ c.mode \in Modes /\ c.bank \in [Modes -> Registers] /\ c.reg \in Registers
        /\ DOMAIN c = {"reg", "bank", "mode", "cpsr", "f", "spsr", "pc"}
        /\ User \in Modes /\ Fiq \in Modes
    BY DEF CpuState, Modes
  <2>1. /\ retired \in [Modes -> Registers]
        /\ \A n \in Modes : /\ retired[n].r8 = c.bank[n].r8
                            /\ n # c.mode => retired[n] = c.bank[n]
        /\ retired[c.mode].sp = c.reg.sp
        /\ retired[c.mode].lr = c.reg.lr
    BY <2>0 DEF Registers
  <2>2. /\ bank \in [Modes -> Registers]
        /\ \A n \in Modes : bank[n].sp = retired[n].sp /\ bank[n].lr = retired[n].lr
        /\ \A n \in Modes : bank[n].r8 = IF fiq /\ n = Shared(c.mode) THEN c.reg.r8
                                         ELSE c.bank[n].r8
    <3> HIDE DEF retired
    <3> QED BY <2>0, <2>1 DEF Registers
  <2>3. d = [c EXCEPT !.bank = bank, !.mode = new,
                      !.reg = [r8 |-> r8, sp |-> bank[new].sp, lr |-> bank[new].lr]]
    BY <1>2 DEF cpu_switch_mode
  <2> HIDE DEF retired, bank, d
  <2>4. d.mode = new /\ d.bank = bank /\ d.reg = [r8 |-> r8, sp |-> bank[new].sp, lr |-> bank[new].lr]
    BY <2>0, <2>3
  <2>5. CASE r # "r8"
    <3>1. r \in {"sp", "lr"}
      BY <2>5 DEF Names
    <3>2. Value(d, m, r) = bank[m][r]
      BY <2>4, <2>5, <3>1 DEF Value
    <3>3. Value(c, m, r) = bank[m][r]
      BY <2>0, <2>1, <2>2, <2>5, <3>1 DEF Value
    <3> QED BY <3>2, <3>3 DEF d
  <2>6. CASE r = "r8"
    <3>1. m \in {User, Fiq}
      BY <2>6
    <3>2. Value(d, m, "r8") = IF (m = Fiq) = (new = Fiq) THEN r8 ELSE bank[m].r8
      BY <2>4 DEF Value
    <3>3. Value(c, m, "r8") = IF (m = Fiq) = (c.mode = Fiq) THEN c.reg.r8 ELSE c.bank[m].r8
      BY DEF Value
    <3>4. r8 = IF fiq THEN bank[Shared(new)].r8 ELSE c.reg.r8
      OBVIOUS
    <3> HIDE DEF r8
    <3>5. Value(d, m, "r8") = Value(c, m, "r8")
      BY <1>2, <2>0, <2>2, <3>1, <3>2, <3>3, <3>4, ModesAssumption
    <3> QED BY <2>6, <3>5 DEF d
  <2> QED BY <2>5, <2>6
<1> QED BY <1>1, <1>2

-----------------------------------------------------------------------------
(* Each instruction leaves a well-typed processor whose banks are those of   *)
(* the mode in CPSR.                                                         *)

Good(c) == c \in CpuState /\ c.mode = c.cpsr.mode

LEMMA FollowingType ==
  ASSUME NEW pc \in Int
  PROVE  Following(pc) \in Int
BY ModesAssumption DEF Following

LEMMA InterruptIsGood ==
  ASSUME NEW c \in CpuState, NEW return \in Int
  PROVE  Good(take_irq(c, return))
PROOF
<1> DEFINE d == [c EXCEPT !.bank[Irq].lr = return + 1, !.spsr[Irq] = c.cpsr,
                          !.cpsr = [mode |-> Irq, i |-> 1, t |-> 0, f |-> 0],
                          !.pc = IrqVector]
<1>1. IrqVector \in Int /\ Irq \in Modes
  BY ModesAssumption DEF IrqVector, Modes
<1>2. d \in CpuState
  <2>1. [c.bank[Irq] EXCEPT !.lr = return + 1] \in Registers
    BY <1>1 DEF CpuState, Registers
  <2>2. [c.bank EXCEPT ![Irq].lr = return + 1] \in [Modes -> Registers]
    BY <1>1, <2>1 DEF CpuState
  <2>3. /\ [c.spsr EXCEPT ![Irq] = c.cpsr] \in [Modes -> Status]
        /\ [mode |-> Irq, i |-> 1, t |-> 0, f |-> 0] \in Status
    BY <1>1 DEF CpuState, Status
  <2> QED BY <1>1, <2>2, <2>3 DEF CpuState
<1>3. d.cpsr.mode = Irq
  BY DEF CpuState
<1>4. take_irq(c, return) = cpu_switch_mode(d, Irq)
  BY DEF take_irq
<1> HIDE DEF d
<1> QED BY <1>1, <1>2, <1>3, <1>4, SwitchType DEF Good

LEMMA CollapseType ==
  ASSUME NEW c \in CpuState
  PROVE  collapse_flags(c) \in CpuState
BY DEF collapse_flags, CpuState, Status

LEMMA SwiIsGood ==
  ASSUME NEW c \in CpuState
  PROVE  Good(execute_swi(c))
PROOF
<1> DEFINE d == collapse_flags(c)
           e == [d EXCEPT !.bank[Svc].lr = Following(c.pc), !.spsr[Svc] = d.cpsr,
                          !.cpsr = [@ EXCEPT !.mode = Svc, !.t = 0],
                          !.pc = SwiVector]
<1>1. SwiVector \in Int /\ Svc \in Modes /\ Following(c.pc) \in Int
  BY ModesAssumption, FollowingType DEF SwiVector, Modes, CpuState
<1>2. d \in CpuState
  BY CollapseType
<1>3. execute_swi(c) = cpu_switch_mode(e, Svc)
  BY DEF execute_swi
<1> HIDE DEF d
<1>4. e \in CpuState
  <2>1. [d.bank EXCEPT ![Svc].lr = Following(c.pc)] \in [Modes -> Registers]
    BY <1>1, <1>2 DEF CpuState, Registers
  <2>2. /\ [d.spsr EXCEPT ![Svc] = d.cpsr] \in [Modes -> Status]
        /\ [d.cpsr EXCEPT !.mode = Svc, !.t = 0] \in Status
    BY <1>1, <1>2 DEF CpuState, Status
  <2> QED BY <1>1, <1>2, <2>1, <2>2 DEF CpuState
<1>5. e.cpsr.mode = Svc
  BY <1>2 DEF CpuState, Status
<1> HIDE DEF e
<1> QED BY <1>1, <1>3, <1>4, <1>5, SwitchType DEF Good

LEMMA StoreCpsrIsGood ==
  ASSUME NEW c, Good(c), NEW new, new.mode \in Modes, new.i \in {0, 1}, new.f \in {0, 1},
         NEW mask
  PROVE  Good(store_cpsr(c, new, mask))
PROOF
<1> DEFINE old == IF engine = "x86" THEN c.cpsr ELSE [c.cpsr EXCEPT !.f = c.f]
           merged == [old EXCEPT !.mode = IF "c" \in mask THEN new.mode ELSE @,
                                 !.i = IF "c" \in mask THEN new.i ELSE @,
                                 !.f = IF "f" \in mask THEN new.f ELSE @]
           stored == extract_flags([c EXCEPT !.cpsr = merged, !.pc = Following(@)])
<1>1. c \in CpuState /\ c.mode = c.cpsr.mode /\ Following(c.pc) \in Int
  BY FollowingType DEF Good, CpuState
<1>2. old \in Status /\ old.mode = c.mode
  BY <1>1 DEF CpuState, Status
<1> HIDE DEF old
<1>3. /\ merged \in Status
      /\ "c" \notin mask => merged.mode = c.mode
  BY <1>2 DEF Status
<1> HIDE DEF merged
<1>4. stored \in CpuState /\ stored.cpsr = merged /\ stored.mode = c.mode
  BY <1>1, <1>3 DEF extract_flags, CpuState, Status
<1>5. store_cpsr(c, new, mask)
        = IF "c" \in mask THEN cpu_switch_mode(stored, merged.mode) ELSE stored
  BY DEF store_cpsr, merged, old
<1> HIDE DEF stored
<1>6. merged.mode \in Modes
  BY <1>3 DEF Status
<1> QED BY <1>3, <1>4, <1>5, <1>6, SwitchType DEF Good

LEMMA RestoreIsGood ==
  ASSUME NEW c, Good(c), NEW address \in Int
  PROVE  Good(spsr_restore(c, address))
PROOF
<1> DEFINE restored == extract_flags([c EXCEPT !.cpsr = c.spsr[c.mode], !.pc = address])
           plain == [c EXCEPT !.pc = address]
<1>1. c \in CpuState /\ c.mode = c.cpsr.mode /\ c.spsr[c.mode] \in Status
  BY DEF Good, CpuState
<1>2. restored \in CpuState /\ restored.cpsr.mode \in Modes
  BY <1>1 DEF extract_flags, CpuState, Status
<1>3. Good(plain)
  BY <1>1 DEF Good, CpuState
<1>4. spsr_restore(c, address)
        = IF engine = "interpreter" /\ c.mode = User THEN plain
          ELSE cpu_switch_mode(restored, restored.cpsr.mode)
  BY DEF spsr_restore
<1> HIDE DEF restored, plain
<1> QED BY <1>2, <1>3, <1>4, SwitchType DEF Good

-----------------------------------------------------------------------------
(* The invariant, and its steps. *)

ModesInv == Good(cpu) /\ frames \in Frames

LEMMA ContextType ==
  ASSUME NEW c \in CpuState, NEW pc \in Int
  PROVE  Context(c, pc) \in Frame
BY DEF Context, Frame, CpuState, Status

LEMMA PushedType ==
  ASSUME ModesInv, NEW m, NEW context \in Frame
  PROVE  Pushed(m, context) \in Frames
PROOF
<1>1. frames \in Seq(Frame) /\ <<context>> \in Seq(Frame)
  BY DEF ModesInv, Frames
<1>2. <<context>> \o frames \in Seq(Frame)
  BY <1>1
<1> QED BY <1>2 DEF Pushed, Frames

\* The outcome of an instruction that looks for interrupts.
LEMMA CheckIrqKeeps ==
  ASSUME NEW c, Good(c), NEW return \in Int, NEW context \in Frame,
         NEW frames1 \in Frames, CheckIrq(c, return, context, frames1)
  PROVE  ModesInv'
PROOF
<1>1. CASE pending /\ c.cpsr.i = 0
  <2>1. Good(cpu')
    BY <1>1, InterruptIsGood DEF CheckIrq, Good
  <2>2. <<context>> \o frames1 \in Seq(Frame) /\ <<>> \in Seq(Frame)
    BY DEF Frames
  <2>3. frames' \in Frames
    BY <1>1, <2>2 DEF CheckIrq, Frames
  <2> QED BY <2>1, <2>3 DEF ModesInv, Good
<1>2. CASE ~(pending /\ c.cpsr.i = 0)
  BY <1>2 DEF CheckIrq, ModesInv, Good
<1> QED BY <1>1, <1>2

LEMMA InitModes == Init => ModesInv
PROOF
<1> SUFFICES ASSUME Init PROVE ModesInv
  OBVIOUS
<1>1. PICK m \in Modes : cpu = cpu_switch_mode([init_cpu EXCEPT !.cpsr.mode = m], m)
  BY DEF Init
<1> DEFINE c == [init_cpu EXCEPT !.cpsr.mode = m]
<1>2. c \in CpuState /\ c.cpsr.mode = m
  <2>1. init_cpu \in CpuState
    BY DEF init_cpu, CpuState, Registers, Status, Modes
  <2> QED BY <2>1 DEF CpuState, Status
<1>3. frames \in Frames
  BY DEF Init, Frames
<1> HIDE DEF c
<1> QED BY <1>1, <1>2, <1>3, SwitchType DEF c, ModesInv, Good

\* Instructions that neither switch modes nor look for interrupts.
LEMMA PlainKeeps ==
  ASSUME ModesInv, Write \/ Exchange \/ StoreSpsr \/ LoadUserBank
  PROVE  ModesInv'
PROOF
<1>0. cpu \in CpuState /\ Following(cpu.pc) \in Int /\ User \in Modes /\ Values \subseteq Int
  BY ModesAssumption, FollowingType DEF ModesInv, Good, CpuState, Modes, Values
<1>1. CASE Write
  <2>1. PICK r \in {"r8", "lr"}, v \in Values, f \in {0, 1} :
          cpu' = [cpu EXCEPT !.reg[r] = v, !.f = f, !.pc = Following(@)]
    BY <1>1 DEF Write
  <2>2. [cpu.reg EXCEPT ![r] = v] \in Registers
    BY <1>0 DEF CpuState, Registers
  <2>3. Good(cpu')
    BY <1>0, <2>1, <2>2 DEF ModesInv, Good, CpuState
  <2> QED BY <1>1, <2>3 DEF Write, ModesInv, Good
<1>2. CASE Exchange
  <2>1. PICK v \in Values : cpu' = [cpu EXCEPT !.cpsr.t = 1 - @, !.pc = v]
    BY <1>2 DEF Exchange
  <2>2. /\ [cpu.cpsr EXCEPT !.t = 1 - @] \in Status
        /\ [cpu.cpsr EXCEPT !.t = 1 - @].mode = cpu.cpsr.mode
    BY <1>0 DEF CpuState, Status
  <2>3. Good(cpu')
    BY <1>0, <2>1, <2>2 DEF ModesInv, Good, CpuState
  <2> QED BY <1>2, <2>3 DEF Exchange, ModesInv, Good
<1>3. CASE StoreSpsr
  <2>1. PICK m \in Modes, t \in {0, 1} :
          cpu' = [cpu EXCEPT !.spsr[cpu.mode] = [mode |-> m, i |-> 0, t |-> t, f |-> 1],
                             !.pc = Following(@)]
    BY <1>3 DEF StoreSpsr
  <2>2. [mode |-> m, i |-> 0, t |-> t, f |-> 1] \in Status
    BY DEF Status
  <2>3. Good(cpu')
    BY <1>0, <2>1, <2>2 DEF ModesInv, Good, CpuState
  <2> QED BY <1>3, <2>3 DEF StoreSpsr, ModesInv, Good
<1>4. CASE LoadUserBank
  <2>1. PICK r \in Names, v \in Values :
          cpu' = [(IF user_bank(cpu, r) THEN [cpu EXCEPT !.bank[User][r] = v]
                   ELSE [cpu EXCEPT !.reg[r] = v]) EXCEPT !.pc = Following(@)]
    BY <1>4 DEF LoadUserBank
  <2>2. [cpu.bank EXCEPT ![User][r] = v] \in [Modes -> Registers]
    BY <1>0 DEF CpuState, Registers, Names
  <2>3. [cpu.reg EXCEPT ![r] = v] \in Registers
    BY <1>0 DEF CpuState, Registers, Names
  <2>4. Good(cpu')
    BY <1>0, <2>1, <2>2, <2>3 DEF ModesInv, Good, CpuState
  <2>5. frames' = frames
    BY <1>4 DEF LoadUserBank
  <2> QED BY <2>4, <2>5 DEF ModesInv, Good
<1> QED BY <1>1, <1>2, <1>3, <1>4

LEMMA StoreCpsrKeeps ==
  ASSUME ModesInv, StoreCpsr
  PROVE  ModesInv'
PROOF
<1>0. Good(cpu) /\ frames \in Frames /\ cpu \in CpuState /\ msr_return(cpu) \in Int
  BY FollowingType DEF ModesInv, Good, CpuState, msr_return
<1>1. PICK m \in Modes, i \in {0, 1}, f \in {0, 1}, mask \in {{"c"}, {"f"}, {"c", "f"}} :
        LET new == [mode |-> m, i |-> i, f |-> f]
            c == store_cpsr(cpu, new, mask)
        IN  IF "c" \in mask
            THEN CheckIrq(c, msr_return(cpu), Context(c, msr_return(cpu)), frames)
            ELSE cpu' = c /\ UNCHANGED frames
  BY DEF StoreCpsr
<1> DEFINE new == [mode |-> m, i |-> i, f |-> f]
           c == store_cpsr(cpu, new, mask)
<1>2. Good(c)
  BY <1>0, StoreCpsrIsGood
<1> HIDE DEF c
<1>3. Context(c, msr_return(cpu)) \in Frame
  BY <1>0, <1>2, ContextType DEF Good
<1>4. CASE "c" \in mask
  BY <1>0, <1>1, <1>2, <1>3, <1>4, CheckIrqKeeps DEF c
<1>5. CASE "c" \notin mask
  BY <1>0, <1>1, <1>2, <1>5 DEF c, ModesInv, Good
<1> QED BY <1>4, <1>5

LEMMA ReturnKeeps ==
  ASSUME ModesInv, Return \/ LoadPcUserBank
  PROVE  ModesInv'
PROOF
<1>0. Good(cpu) /\ frames \in Frames /\ cpu \in CpuState
  BY DEF ModesInv, Good
<1>1. CASE Return
  <2> DEFINE ahead == IF cpu.mode = Irq /\ Handling THEN 1 ELSE 0
             address == cpu.reg.lr - ahead
             c == spsr_restore(cpu, address)
             rest == IF Handling THEN Tail(frames) ELSE frames
  <2>1. address \in Int
    BY <1>0 DEF CpuState, Registers
  <2>2. rest \in Frames
    BY <1>0 DEF Handling, Frames
  <2>3. CheckIrq(c, address, Context(c, address), rest)
    BY <1>1 DEF Return
  <2> HIDE DEF address, rest
  <2>4. Good(c)
    BY <1>0, <2>1, RestoreIsGood
  <2> HIDE DEF c
  <2>5. Context(c, address) \in Frame
    BY <2>1, <2>4, ContextType DEF Good
  <2> QED BY <2>1, <2>2, <2>3, <2>4, <2>5, CheckIrqKeeps
<1>2. CASE LoadPcUserBank
  <2>1. PICK v \in Values :
          IF engine = "sh4"
          THEN LET c == spsr_restore(cpu, v) IN CheckIrq(c, v, Context(c, v), frames)
          ELSE cpu' = [cpu EXCEPT !.pc = v] /\ UNCHANGED frames
    BY <1>2 DEF LoadPcUserBank
  <2> DEFINE c == spsr_restore(cpu, v)
  <2>2. v \in Int
    BY ModesAssumption DEF Values
  <2>3. Good(c)
    BY <1>0, <2>2, RestoreIsGood
  <2> HIDE DEF c
  <2>4. Context(c, v) \in Frame
    BY <2>2, <2>3, ContextType DEF Good
  <2>5. CASE engine = "sh4"
    BY <1>0, <2>1, <2>2, <2>3, <2>4, <2>5, CheckIrqKeeps DEF c
  <2>6. CASE engine # "sh4"
    BY <1>0, <2>1, <2>2, <2>6 DEF ModesInv, Good, CpuState
  <2> QED BY <2>5, <2>6
<1> QED BY <1>1, <1>2

LEMMA SoftwareInterruptKeeps ==
  ASSUME ModesInv, SoftwareInterrupt
  PROVE  ModesInv'
PROOF
<1>1. cpu \in CpuState /\ Following(cpu.pc) \in Int
  BY FollowingType DEF ModesInv, Good, CpuState
<1>2. Context(cpu, Following(cpu.pc)) \in Frame
  BY <1>1, ContextType
<1>3. frames' \in Frames
  BY <1>2, PushedType DEF SoftwareInterrupt
<1>4. Good(cpu')
  BY <1>1, SwiIsGood DEF SoftwareInterrupt
<1> QED BY <1>3, <1>4 DEF ModesInv, Good

LEMMA OpenKeeps ==
  ASSUME ModesInv, Open
  PROVE  ModesInv'
PROOF
<1> DEFINE kept == [mode |-> cpu.mode, lr |-> cpu.reg.lr, spsr |-> cpu.spsr[cpu.mode]]
           new == [mode |-> User, i |-> 0, f |-> 0]
           c == store_cpsr(cpu, new, {"c"})
           opened == [frames EXCEPT ![1].kept = <<kept>>]
<1>0. Good(cpu) /\ frames \in Seq(Frame) /\ cpu \in CpuState /\ msr_return(cpu) \in Int
  BY FollowingType DEF ModesInv, Good, CpuState, msr_return, Frames
<1>1. kept \in Kept
  BY <1>0 DEF CpuState, Registers, Kept
<1> HIDE DEF kept
<1>2. opened \in Frames
  <2>1. frames # <<>>
    BY DEF Open, Handling
  <2>2. frames[1] \in Frame /\ <<kept>> \in Seq(Kept)
    BY <1>0, <1>1, <2>1
  <2>3. [frames[1] EXCEPT !.kept = <<kept>>] \in Frame
    BY <2>2 DEF Frame
  <2>4. opened = [frames EXCEPT ![1] = [frames[1] EXCEPT !.kept = <<kept>>]]
    OBVIOUS
  <2> QED BY <1>0, <2>1, <2>3, <2>4 DEF Frames
<1>3. new.mode \in Modes /\ new.i \in {0, 1} /\ new.f \in {0, 1}
  BY DEF Modes
<1>4. Good(c)
  BY <1>0, <1>3, StoreCpsrIsGood
<1>5. CheckIrq(c, msr_return(cpu), Context(c, msr_return(cpu)), opened)
  BY DEF Open, kept
<1> HIDE DEF c, opened
<1>6. Context(c, msr_return(cpu)) \in Frame
  BY <1>0, <1>4, ContextType DEF Good
<1> QED BY <1>0, <1>2, <1>4, <1>5, <1>6, CheckIrqKeeps

LEMMA CloseKeeps ==
  ASSUME ModesInv, Close
  PROVE  ModesInv'
PROOF
<1> DEFINE kept == Head(frames).kept[1]
           c == store_cpsr(cpu, [mode |-> kept.mode, i |-> 1, f |-> 0], {"c"})
<1>0. Good(cpu) /\ frames \in Seq(Frame)
  BY DEF ModesInv, Frames
<1>1. frames # <<>> /\ Head(frames).kept # <<>>
  BY DEF Close, Opened, Handling
<1>2. Head(frames) = frames[1] /\ frames[1] \in Frame
  BY <1>0, <1>1
<1>3. kept \in Kept
  BY <1>1, <1>2 DEF Frame
<1> HIDE DEF kept
<1>4. Good(c)
  BY <1>0, <1>3, StoreCpsrIsGood DEF Kept
<1> HIDE DEF c
<1>5. cpu' = [c EXCEPT !.reg.lr = kept.lr, !.spsr[kept.mode] = kept.spsr]
  BY DEF Close, c, kept
<1>6. Good(cpu')
  BY <1>3, <1>4, <1>5 DEF Good, CpuState, Registers, Kept
<1>7. frames' \in Frames
  <2>0. <<>> \in Seq(Kept)
    OBVIOUS
  <2>1. [frames[1] EXCEPT !.kept = <<>>] \in Frame
    BY <1>2, <2>0 DEF Frame
  <2>2. frames' = [frames EXCEPT ![1] = [frames[1] EXCEPT !.kept = <<>>]]
    BY DEF Close
  <2> QED BY <1>0, <1>1, <2>1, <2>2 DEF Frames
<1> QED BY <1>6, <1>7 DEF ModesInv, Good

LEMMA RaiseKeeps ==
  ASSUME ModesInv, Raise
  PROVE  ModesInv'
PROOF
<1>1. cpu \in CpuState /\ cpu.pc \in Int
  BY DEF ModesInv, Good, CpuState
<1>2. CASE cpu.cpsr.i = 0
  <2>1. Context(cpu, cpu.pc) \in Frame
    BY <1>1, ContextType
  <2>2. frames' \in Frames
    BY <1>2, <2>1, PushedType DEF Raise
  <2>3. Good(cpu')
    BY <1>1, <1>2, CollapseType, InterruptIsGood DEF Raise
  <2> QED BY <2>2, <2>3 DEF ModesInv, Good
<1>3. CASE cpu.cpsr.i # 0
  BY <1>3 DEF Raise, ModesInv, Good
<1> QED BY <1>2, <1>3

LEMMA StepKeepsModes == ModesInv /\ [Next]_vars => ModesInv'
PROOF
<1> SUFFICES ASSUME ModesInv, [Next]_vars PROVE ModesInv'
  OBVIOUS
<1>1. CASE Write \/ Exchange \/ StoreSpsr \/ LoadUserBank
  BY <1>1, PlainKeeps
<1>2. CASE StoreCpsr
  BY <1>2, StoreCpsrKeeps
<1>3. CASE Return \/ LoadPcUserBank
  BY <1>3, ReturnKeeps
<1>4. CASE SoftwareInterrupt
  BY <1>4, SoftwareInterruptKeeps
<1>5. CASE Open
  BY <1>5, OpenKeeps
<1>6. CASE Close
  BY <1>6, CloseKeeps
<1>7. CASE Raise
  BY <1>7, RaiseKeeps
<1>8. CASE Acknowledge
  BY <1>8 DEF Acknowledge, ModesInv, Good
<1>9. CASE UNCHANGED vars
  BY <1>9 DEF vars, ModesInv, Good
<1> QED BY <1>1, <1>2, <1>3, <1>4, <1>5, <1>6, <1>7, <1>8, <1>9 DEF Next

\* In every run of every engine, whatever the program does, the registers in use are
\* those of the mode CPSR names (cpu_switch_mode and its callers).
THEOREM BanksFollowCpsr == Spec => []ModeIsCurrent
PROOF
<1>1. ModesInv => ModeIsCurrent
  BY DEF ModesInv, Good, ModeIsCurrent
<1> QED BY <1>1, InitModes, StepKeepsModes, PTL DEF Spec
-----------------------------------------------------------------------------
(* The register file of the architecture.  Arm(c) is what BankedRegisters    *)
(* keeps of a processor c, whatever mode its registers are banked for.       *)

FileOf(c) == [m \in Modes |-> [r \in Names |->
               IF r = "r8" /\ m \notin {User, Fiq} THEN 0 ELSE Value(c, m, r)]]
Arm(c) == [file |-> FileOf(c), status |-> [c.cpsr EXCEPT !.f = c.f],
           saved |-> c.spsr, pc |-> c.pc]

\* Moving the registers between the banks is not a change of the architecture's state.
LEMMA SwitchKeepsArm ==
  ASSUME NEW c \in CpuState, NEW new \in Modes
  PROVE  /\ Arm(cpu_switch_mode(c, new)) = Arm(c)
         /\ cpu_switch_mode(c, new).spsr = c.spsr
         /\ cpu_switch_mode(c, new).pc = c.pc
         /\ cpu_switch_mode(c, new).f = c.f
PROOF
<1> DEFINE d == cpu_switch_mode(c, new)
<1>1. d.spsr = c.spsr /\ d.pc = c.pc /\ d.f = c.f
  BY DEF cpu_switch_mode, CpuState
<1>2. d.cpsr = c.cpsr
  BY SwitchType
<1>3. \A m \in Modes, r \in Names :
        (r = "r8" => m \in {User, Fiq}) => Value(d, m, r) = Value(c, m, r)
  BY SwitchKeepsFile
<1> HIDE DEF d
<1>4. FileOf(d) = FileOf(c)
  BY <1>3 DEF FileOf
<1>5. Arm(d) = Arm(c)
  BY <1>1, <1>2, <1>4 DEF Arm
<1> QED BY <1>1, <1>5 DEF d

\* What fields a file depends on.
LEMMA FileDepends ==
  ASSUME NEW c, NEW d, d.reg = c.reg, d.bank = c.bank, d.mode = c.mode
  PROVE  FileOf(d) = FileOf(c)
BY DEF FileOf, Value

\* A register in use is that of its owner in the mode the banks are those of.
LEMMA SetInUse ==
  ASSUME NEW c \in CpuState, NEW d \in CpuState, NEW r \in Names, NEW v,
         d.mode = c.mode, d.bank = c.bank, d.reg = [c.reg EXCEPT ![r] = v]
  PROVE  FileOf(d) = [FileOf(c) EXCEPT ![Banked!Owner(c.mode, r)][r] = v]
PROOF
<1> DEFINE o == Banked!Owner(c.mode, r)
           e == [FileOf(c) EXCEPT ![o][r] = v]
<1>0. /\ c.mode \in Modes /\ User \in Modes /\ Fiq \in Modes
      /\ DOMAIN c.reg = Names
      /\ o = IF r = "r8" /\ c.mode # Fiq THEN User ELSE c.mode
  BY DEF CpuState, Registers, Modes, Names, Banked!Owner
<1>1. o \in Modes
  BY <1>0
<1>2. ASSUME NEW m \in Modes, NEW q \in Names
      PROVE  FileOf(d)[m][q] = IF m = o /\ q = r THEN v ELSE FileOf(c)[m][q]
  <2>1. d.reg[q] = IF q = r THEN v ELSE c.reg[q]
    BY <1>0
  <2>2. /\ FileOf(d)[m][q] = IF q = "r8" /\ m \notin {User, Fiq} THEN 0 ELSE Value(d, m, q)
        /\ FileOf(c)[m][q] = IF q = "r8" /\ m \notin {User, Fiq} THEN 0 ELSE Value(c, m, q)
    BY DEF FileOf
  <2>3. CASE q # "r8"
    BY <1>0, <2>1, <2>2, <2>3 DEF Value
  <2>4. CASE q = "r8"
    <3>1. CASE m \notin {User, Fiq}
      BY <1>0, <2>2, <2>4, <3>1
    <3>2. CASE m = User
      BY <1>0, <2>1, <2>2, <2>4, <3>2, ModesAssumption DEF Value
    <3>3. CASE m = Fiq
      BY <1>0, <2>1, <2>2, <2>4, <3>3, ModesAssumption DEF Value
    <3> QED BY <3>1, <3>2, <3>3
  <2> QED BY <2>3, <2>4
<1> HIDE DEF o
<1>3. /\ FileOf(d) = [m \in Modes |-> [q \in Names |-> FileOf(d)[m][q]]]
      /\ FileOf(c) = [m \in Modes |-> [q \in Names |-> FileOf(c)[m][q]]]
  BY DEF FileOf
<1>4. e = [m \in Modes |-> [q \in Names |-> IF m = o /\ q = r THEN v ELSE FileOf(c)[m][q]]]
  BY <1>1, <1>3
<1>5. FileOf(d) = [m \in Modes |-> [q \in Names |-> IF m = o /\ q = r THEN v ELSE FileOf(c)[m][q]]]
  BY <1>2, <1>3
<1> QED BY <1>4, <1>5 DEF o

\* A register not in use is where it is banked.
LEMMA SetBanked ==
  ASSUME NEW c \in CpuState, NEW d \in CpuState, NEW o \in Modes, NEW r \in Names, NEW v,
         IF r = "r8" THEN o \in {User, Fiq} /\ (o = Fiq <=> c.mode # Fiq) ELSE o # c.mode,
         d.mode = c.mode, d.reg = c.reg, d.bank = [c.bank EXCEPT ![o][r] = v]
  PROVE  FileOf(d) = [FileOf(c) EXCEPT ![o][r] = v]
PROOF
<1> DEFINE e == [FileOf(c) EXCEPT ![o][r] = v]
<1>0. /\ c.mode \in Modes /\ User \in Modes /\ Fiq \in Modes
      /\ DOMAIN c.bank = Modes /\ \A m \in Modes : DOMAIN c.bank[m] = Names
  BY DEF CpuState, Registers, Modes, Names
<1>2. ASSUME NEW m \in Modes, NEW q \in Names
      PROVE  FileOf(d)[m][q] = IF m = o /\ q = r THEN v ELSE FileOf(c)[m][q]
  <2>1. d.bank[m][q] = IF m = o /\ q = r THEN v ELSE c.bank[m][q]
    BY <1>0
  <2>2. /\ FileOf(d)[m][q] = IF q = "r8" /\ m \notin {User, Fiq} THEN 0 ELSE Value(d, m, q)
        /\ FileOf(c)[m][q] = IF q = "r8" /\ m \notin {User, Fiq} THEN 0 ELSE Value(c, m, q)
    BY DEF FileOf
  <2>3. CASE q # "r8"
    BY <1>0, <2>1, <2>2, <2>3 DEF Value
  <2>4. CASE q = "r8"
    <3>1. CASE m \notin {User, Fiq}
      BY <1>0, <2>2, <2>4, <3>1
    <3>2. CASE m = User
      BY <1>0, <2>1, <2>2, <2>4, <3>2, ModesAssumption DEF Value
    <3>3. CASE m = Fiq
      BY <1>0, <2>1, <2>2, <2>4, <3>3, ModesAssumption DEF Value
    <3> QED BY <3>1, <3>2, <3>3
  <2> QED BY <2>3, <2>4
<1>3. /\ FileOf(d) = [m \in Modes |-> [q \in Names |-> FileOf(d)[m][q]]]
      /\ FileOf(c) = [m \in Modes |-> [q \in Names |-> FileOf(c)[m][q]]]
  BY DEF FileOf
<1>4. e = [m \in Modes |-> [q \in Names |-> IF m = o /\ q = r THEN v ELSE FileOf(c)[m][q]]]
  BY <1>3
<1>5. FileOf(d) = [m \in Modes |-> [q \in Names |-> IF m = o /\ q = r THEN v ELSE FileOf(c)[m][q]]]
  BY <1>2, <1>3
<1> QED BY <1>4, <1>5
\* The outcomes BankedRegisters allows an instruction.
LEMMA ThenQuietly ==
  ASSUME NEW new, Arm(cpu') = new
  PROVE  Banked!Then(new)
BY DEF Banked!Then, Arm, FileOf, File

LEMMA ThenInterrupted ==
  ASSUME NEW new, new.status.i = 0, NEW f \in {0, 1},
         Arm(cpu') = Banked!Entered(new, Irq, new.pc + 1, 1, IrqVector, f)
  PROVE  Banked!Then(new)
BY DEF Banked!Then, Arm, FileOf, File

\* What take_irq switches to Irq mode.
Interrupted(c, return) ==
  [c EXCEPT !.bank[Irq].lr = return + 1, !.spsr[Irq] = c.cpsr,
            !.cpsr = [mode |-> Irq, i |-> 1, t |-> 0, f |-> 0], !.pc = IrqVector]

\* The fields of that record, one by one.
InterruptedFrom(c, return, d) ==
  /\ d \in CpuState
  /\ d.mode = c.mode /\ d.reg = c.reg /\ d.f = c.f
  /\ d.cpsr = [mode |-> Irq, i |-> 1, t |-> 0, f |-> 0]
  /\ d.bank = [c.bank EXCEPT ![Irq]["lr"] = return + 1]
  /\ d.spsr = [c.spsr EXCEPT ![Irq] = c.cpsr] /\ d.pc = IrqVector
  /\ take_irq(c, return) = cpu_switch_mode(d, Irq)

LEMMA InterruptedFields ==
  ASSUME NEW c \in CpuState, NEW return \in Int, NEW d, d = Interrupted(c, return)
  PROVE  InterruptedFrom(c, return, d)
PROOF
<1>1. IrqVector \in Int /\ Irq \in Modes
  BY ModesAssumption DEF IrqVector, Modes
<1>2. [c.bank EXCEPT ![Irq].lr = return + 1] \in [Modes -> Registers]
  BY <1>1 DEF CpuState, Registers
<1>3. /\ [c.spsr EXCEPT ![Irq] = c.cpsr] \in [Modes -> Status]
      /\ [mode |-> Irq, i |-> 1, t |-> 0, f |-> 0] \in Status
  BY <1>1 DEF CpuState, Status
<1>4. d \in CpuState
  BY <1>1, <1>2, <1>3 DEF CpuState, Interrupted
<1>5. /\ d.mode = c.mode /\ d.reg = c.reg /\ d.f = c.f
      /\ d.cpsr = [mode |-> Irq, i |-> 1, t |-> 0, f |-> 0]
      /\ d.bank = [c.bank EXCEPT ![Irq]["lr"] = return + 1]
      /\ d.spsr = [c.spsr EXCEPT ![Irq] = c.cpsr] /\ d.pc = IrqVector
  BY DEF CpuState, Interrupted
<1>6. take_irq(c, return) = cpu_switch_mode(d, Irq)
  BY DEF take_irq, Interrupted
<1> QED BY <1>4, <1>5, <1>6 DEF InterruptedFrom

LEMMA EnteredFields ==
  ASSUME NEW file, NEW status, NEW saved, NEW pc, NEW m, NEW link, NEW masked, NEW vector,
         NEW f
  PROVE  Banked!Entered([file |-> file, status |-> status, saved |-> saved, pc |-> pc],
                        m, link, masked, vector, f)
           = [file |-> [file EXCEPT ![m].lr = link],
              status |-> [mode |-> m, i |-> masked, t |-> 0, f |-> f],
              saved |-> [saved EXCEPT ![m] = status], pc |-> vector]
PROOF
<1> DEFINE a == [file |-> file, status |-> status, saved |-> saved, pc |-> pc]
           new == [mode |-> m, i |-> masked, t |-> 0, f |-> f]
           b == [a EXCEPT !.file[m].lr = link]
           c == [b EXCEPT !.saved[m] = a.status]
           d == [c EXCEPT !.status = new]
           e == [d EXCEPT !.pc = vector]
           linked == [file EXCEPT ![m].lr = link]
           kept == [saved EXCEPT ![m] = status]
<1>1. Banked!Entered(a, m, link, masked, vector, f) = e
  BY DEF Banked!Entered
<1>2. b = [file |-> linked, status |-> status, saved |-> saved, pc |-> pc]
  OBVIOUS
<1>3. a.status = status
  OBVIOUS
<1> HIDE DEF a, b, linked
<1>4. c = [file |-> linked, status |-> status, saved |-> kept, pc |-> pc]
  BY <1>2, <1>3
<1> HIDE DEF c, kept, new
<1>5. d = [file |-> linked, status |-> new, saved |-> kept, pc |-> pc]
  BY <1>4
<1> HIDE DEF d
<1>6. e = [file |-> linked, status |-> new, saved |-> kept, pc |-> vector]
  BY <1>5
<1> QED BY <1>1, <1>6 DEF a, linked, kept, new

\* Taking an interrupt, the flags collapsed: what the architecture does, but from Irq
\* mode itself.
LEMMA InterruptEnters ==
  ASSUME NEW c \in CpuState, c.mode # Irq, c.cpsr.f = c.f, NEW return \in Int
  PROVE  Arm(take_irq(c, return)) = Banked!Entered(Arm(c), Irq, return + 1, 1, IrqVector, c.f)
PROOF
<1>1. PICK d : d = Interrupted(c, return)
  OBVIOUS
<1>0. InterruptedFrom(c, return, d)
  BY <1>1, InterruptedFields
<1>2. /\ d \in CpuState
      /\ d.mode = c.mode /\ d.reg = c.reg /\ d.f = c.f
      /\ d.cpsr = [mode |-> Irq, i |-> 1, t |-> 0, f |-> 0]
      /\ d.bank = [c.bank EXCEPT ![Irq]["lr"] = return + 1]
      /\ d.spsr = [c.spsr EXCEPT ![Irq] = c.cpsr] /\ d.pc = IrqVector
      /\ take_irq(c, return) = cpu_switch_mode(d, Irq)
  BY <1>0 DEF InterruptedFrom
<1>3. Irq \in Modes /\ "lr" \in Names
  BY DEF Modes, Names
<1>4. FileOf(d) = [FileOf(c) EXCEPT ![Irq]["lr"] = return + 1]
  <2>1. /\ d \in CpuState /\ d.mode = c.mode /\ d.reg = c.reg
        /\ d.bank = [c.bank EXCEPT ![Irq]["lr"] = return + 1]
    BY <1>2
  <2> QED BY <1>3, <2>1, SetBanked
<1>5. [c.cpsr EXCEPT !.f = c.f] = c.cpsr
  BY DEF CpuState, Status
<1>6. Arm(d) = Banked!Entered(Arm(c), Irq, return + 1, 1, IrqVector, c.f)
  <2>1. Banked!Entered(Arm(c), Irq, return + 1, 1, IrqVector, c.f)
          = [file |-> [FileOf(c) EXCEPT ![Irq].lr = return + 1],
             status |-> [mode |-> Irq, i |-> 1, t |-> 0, f |-> c.f],
             saved |-> [c.spsr EXCEPT ![Irq] = c.cpsr], pc |-> IrqVector]
    BY <1>5, EnteredFields DEF Arm
  <2>2. [d.cpsr EXCEPT !.f = d.f] = [mode |-> Irq, i |-> 1, t |-> 0, f |-> c.f]
    BY <1>2
  <2> QED BY <1>2, <1>4, <2>1, <2>2 DEF Arm
<1> QED BY <1>2, <1>3, <1>6, SwitchKeepsArm

\* Where an interrupt goes, and the status it saves.
LEMMA InterruptLeaves ==
  ASSUME NEW c \in CpuState, NEW return \in Int
  PROVE  /\ take_irq(c, return).pc = IrqVector
         /\ take_irq(c, return).spsr[Irq] = c.cpsr
PROOF
<1>1. PICK d : d = Interrupted(c, return)
  OBVIOUS
<1>0. InterruptedFrom(c, return, d)
  BY <1>1, InterruptedFields
<1>2. /\ d \in CpuState /\ d.spsr = [c.spsr EXCEPT ![Irq] = c.cpsr] /\ d.pc = IrqVector
      /\ take_irq(c, return) = cpu_switch_mode(d, Irq)
  BY <1>0 DEF InterruptedFrom
<1>3. Irq \in Modes /\ DOMAIN c.spsr = Modes
  BY DEF Modes, CpuState
<1> QED BY <1>2, <1>3, SwitchKeepsArm

\* An instruction that looks for interrupts when it is done.
LEMMA CheckIrqThen ==
  ASSUME NEW c, Good(c), c.cpsr.f = c.f, NEW return \in Int, return = c.pc,
         NEW context, NEW frames1, CheckIrq(c, return, context, frames1)
  PROVE  Banked!Then(Arm(c)) \/ FromItself
PROOF
<1>0. /\ c \in CpuState /\ c.f \in {0, 1} /\ c.mode = c.cpsr.mode
      /\ Arm(c).status.i = c.cpsr.i /\ Arm(c).pc = c.pc
  BY DEF Good, CpuState, Status, Arm
<1>1. CASE pending /\ c.cpsr.i = 0 /\ c.mode # Irq
  <2>1. cpu' = take_irq(c, return)
    BY <1>1 DEF CheckIrq
  <2>2. Arm(cpu') = Banked!Entered(Arm(c), Irq, Arm(c).pc + 1, 1, IrqVector, c.f)
    BY <1>0, <1>1, <2>1, InterruptEnters
  <2> QED BY <1>0, <1>1, <2>2, ThenInterrupted
<1>2. CASE pending /\ c.cpsr.i = 0 /\ c.mode = Irq
  BY <1>0, <1>2, InterruptLeaves DEF CheckIrq, FromItself
<1>3. CASE ~(pending /\ c.cpsr.i = 0)
  BY <1>3, ThenQuietly DEF CheckIrq
<1> QED BY <1>1, <1>2, <1>3
-----------------------------------------------------------------------------
(* Each instruction does what BankedRegisters says.                          *)

\* A record of BankedRegisters with a field changed.
LEMMA ArmFields ==
  ASSUME NEW file, NEW status, NEW saved, NEW pc,
         NEW a, a = [file |-> file, status |-> status, saved |-> saved, pc |-> pc]
  PROVE  /\ \A x : [a EXCEPT !.pc = x]
                    = [file |-> file, status |-> status, saved |-> saved, pc |-> x]
         /\ \A x : [a EXCEPT !.status = x]
                    = [file |-> file, status |-> x, saved |-> saved, pc |-> pc]
         /\ \A x : [a EXCEPT !.status.f = x]
                    = [file |-> file, status |-> [status EXCEPT !.f = x], saved |-> saved,
                       pc |-> pc]
         /\ \A m, x : [a EXCEPT !.saved[m] = x]
                    = [file |-> file, status |-> status, saved |-> [saved EXCEPT ![m] = x],
                       pc |-> pc]
         /\ \A m, r, x : [a EXCEPT !.file[m][r] = x]
                    = [file |-> [file EXCEPT ![m][r] = x], status |-> status,
                       saved |-> saved, pc |-> pc]
OBVIOUS

LEMMA SteppedIs ==
  Banked!Stepped = [file |-> FileOf(cpu), status |-> [cpu.cpsr EXCEPT !.f = cpu.f],
                    saved |-> cpu.spsr, pc |-> Following(cpu.pc)]
PROOF
<1>1. Banked!Stepped = [Arm(cpu) EXCEPT !.pc = Banked!Following(Arm(cpu).pc)]
  BY DEF Banked!Stepped, Arm, File, FileOf
<1>2. Arm(cpu).pc = cpu.pc
  BY DEF Arm
<1>3. Banked!Following(cpu.pc) = Following(cpu.pc)
  BY DEF Banked!Following, Following
<1>4. Arm(cpu) = [file |-> FileOf(cpu), status |-> [cpu.cpsr EXCEPT !.f = cpu.f],
                  saved |-> cpu.spsr, pc |-> cpu.pc]
  BY DEF Arm
<1> QED BY <1>1, <1>2, <1>3, <1>4, ArmFields

LEMMA WriteFollows ==
  ASSUME ModesInv, Write
  PROVE  Banked!Write
PROOF
<1>0. /\ cpu \in CpuState /\ cpu.mode = cpu.cpsr.mode /\ Good(cpu')
  BY PlainKeeps DEF ModesInv, Good
<1>1. PICK r \in {"r8", "lr"}, v \in Values, f \in {0, 1} :
        /\ op' = [kind |-> "write", r |-> r, v |-> v, f |-> f]
        /\ cpu' = [cpu EXCEPT !.reg[r] = v, !.f = f, !.pc = Following(@)]
  BY DEF Write
<1>2. /\ cpu'.reg = [cpu.reg EXCEPT ![r] = v] /\ cpu'.bank = cpu.bank
      /\ cpu'.mode = cpu.mode /\ cpu'.cpsr = cpu.cpsr /\ cpu'.f = f
      /\ cpu'.spsr = cpu.spsr /\ cpu'.pc = Following(cpu.pc)
  BY <1>0, <1>1 DEF CpuState
<1> DEFINE new == [file |-> [FileOf(cpu) EXCEPT ![Banked!Owner(cpu.mode, r)][r] = v],
                   status |-> [cpu.cpsr EXCEPT !.f = f], saved |-> cpu.spsr,
                   pc |-> Following(cpu.pc)]
<1>3. FileOf(cpu') = [FileOf(cpu) EXCEPT ![Banked!Owner(cpu.mode, r)][r] = v]
  BY <1>0, <1>2, SetInUse DEF Good, Names
<1>4. Arm(cpu') = new
  BY <1>2, <1>3 DEF Arm
<1>5. Banked!Then(new)
  <2> HIDE DEF new
  <2> QED BY <1>4, ThenQuietly
<1>6. new = [Banked!Stepped EXCEPT !.file[Banked!Owner(cpu.mode, r)][r] = v,
                                   !.status.f = f]
  <2> DEFINE a == [Banked!Stepped EXCEPT !.file[Banked!Owner(cpu.mode, r)][r] = v]
             file == [FileOf(cpu) EXCEPT ![Banked!Owner(cpu.mode, r)][r] = v]
             status == [cpu.cpsr EXCEPT !.f = cpu.f]
  <2>1. a = [file |-> file, status |-> status, saved |-> cpu.spsr, pc |-> Following(cpu.pc)]
    BY SteppedIs, ArmFields
  <2>2. [status EXCEPT !.f = f] = [cpu.cpsr EXCEPT !.f = f]
    BY <1>0 DEF CpuState, Status
  <2>3. [a EXCEPT !.status.f = f] = new
    <3> HIDE DEF a, file, status
    <3>1. [a EXCEPT !.status.f = f] = [file |-> file, status |-> [status EXCEPT !.f = f],
                                       saved |-> cpu.spsr, pc |-> Following(cpu.pc)]
      BY <2>1, ArmFields
    <3> QED BY <2>2, <3>1 DEF file
  <2> QED BY <2>3
<1>7. /\ op'.kind = "write" /\ op'.r = r /\ op'.v = v /\ op'.f = f
      /\ [cpu.cpsr EXCEPT !.f = cpu.f].mode = cpu.mode
  BY <1>0, <1>1 DEF CpuState, Status
<1> HIDE DEF new
<1> QED BY <1>5, <1>6, <1>7 DEF Banked!Write
LEMMA ExchangeFollows ==
  ASSUME ModesInv, Exchange
  PROVE  Banked!Exchange
PROOF
<1>0. cpu \in CpuState
  BY DEF ModesInv, Good
<1>1. PICK v \in Values : /\ op' = [kind |-> "bx", v |-> v]
                          /\ cpu' = [cpu EXCEPT !.cpsr.t = 1 - @, !.pc = v]
  BY DEF Exchange
<1> DEFINE status == [cpu.cpsr EXCEPT !.f = cpu.f]
           turned == [status EXCEPT !.t = 1 - cpu.cpsr.t]
           new == [file |-> FileOf(cpu), status |-> turned, saved |-> cpu.spsr, pc |-> v]
<1>2. /\ cpu'.reg = cpu.reg /\ cpu'.bank = cpu.bank /\ cpu'.mode = cpu.mode
      /\ cpu'.cpsr = [cpu.cpsr EXCEPT !.t = 1 - cpu.cpsr.t] /\ cpu'.f = cpu.f
      /\ cpu'.spsr = cpu.spsr /\ cpu'.pc = v
  BY <1>0, <1>1 DEF CpuState
<1>3. FileOf(cpu') = FileOf(cpu)
  BY <1>2, FileDepends
<1>4. [cpu'.cpsr EXCEPT !.f = cpu'.f] = turned
  BY <1>0, <1>2 DEF CpuState, Status
<1>5. Arm(cpu') = new
  BY <1>2, <1>3, <1>4 DEF Arm
<1>6. [[Arm(cpu) EXCEPT !.status.t = 1 - Arm(cpu).status.t] EXCEPT !.pc = v] = new
  <2>1. Arm(cpu) = [file |-> FileOf(cpu), status |-> status, saved |-> cpu.spsr, pc |-> cpu.pc]
    BY DEF Arm
  <2>2. status.t = cpu.cpsr.t
    BY <1>0 DEF CpuState, Status
  <2> HIDE DEF status
  <2>3. [Arm(cpu) EXCEPT !.status.t = 1 - Arm(cpu).status.t]
          = [file |-> FileOf(cpu), status |-> turned, saved |-> cpu.spsr, pc |-> cpu.pc]
    BY <2>1, <2>2
  <2> DEFINE a == [Arm(cpu) EXCEPT !.status.t = 1 - Arm(cpu).status.t]
  <2> HIDE DEF a, turned
  <2>4. a = [file |-> FileOf(cpu), status |-> turned, saved |-> cpu.spsr, pc |-> cpu.pc]
    BY <2>3 DEF a
  <2>5. [a EXCEPT !.pc = v] = new
    BY <2>4
  <2> QED BY <2>5 DEF a
<1>7. Banked!Then(new)
  <2> HIDE DEF new
  <2> QED BY <1>5, ThenQuietly
<1>8. op'.kind = "bx" /\ op'.v = v
  BY <1>1
<1>9. Banked!Then([Arm(cpu) EXCEPT !.status.t = 1 - @, !.pc = op'.v])
  <2> HIDE DEF new
  <2> QED BY <1>6, <1>7, <1>8
<1> QED BY <1>8, <1>9 DEF Banked!Exchange, Arm, File, FileOf

LEMMA StoreSpsrFollows ==
  ASSUME ModesInv, StoreSpsr
  PROVE  Banked!WriteSaved
PROOF
<1>0. cpu \in CpuState /\ cpu.mode = cpu.cpsr.mode
  BY DEF ModesInv, Good
<1>1. PICK m \in Modes, t \in {0, 1} :
        /\ op' = [kind |-> "msr_spsr", new |-> [mode |-> m, i |-> 0, t |-> t, f |-> 1]]
        /\ cpu' = [cpu EXCEPT !.spsr[cpu.mode] = [mode |-> m, i |-> 0, t |-> t, f |-> 1],
                              !.pc = Following(@)]
  BY DEF StoreSpsr
<1> DEFINE written == [mode |-> m, i |-> 0, t |-> t, f |-> 1]
           saved == [cpu.spsr EXCEPT ![cpu.mode] = written]
           new == [file |-> FileOf(cpu), status |-> [cpu.cpsr EXCEPT !.f = cpu.f],
                   saved |-> saved, pc |-> Following(cpu.pc)]
<1>2. /\ cpu'.reg = cpu.reg /\ cpu'.bank = cpu.bank /\ cpu'.mode = cpu.mode
      /\ cpu'.cpsr = cpu.cpsr /\ cpu'.f = cpu.f
      /\ cpu'.spsr = saved /\ cpu'.pc = Following(cpu.pc)
  BY <1>0, <1>1 DEF CpuState
<1>3. FileOf(cpu') = FileOf(cpu)
  BY <1>2, FileDepends
<1>4. Arm(cpu') = new
  BY <1>2, <1>3 DEF Arm
<1>5. Banked!Then(new)
  <2> HIDE DEF new
  <2> QED BY <1>4, ThenQuietly
<1>6. [Banked!Stepped EXCEPT !.saved[cpu.mode] = written] = new
  <2> HIDE DEF written
  <2> QED BY SteppedIs, ArmFields
<1>7. /\ op'.kind = "msr_spsr" /\ op'.new = written
      /\ [cpu.cpsr EXCEPT !.f = cpu.f].mode = cpu.mode
  BY <1>0, <1>1 DEF CpuState, Status
<1> HIDE DEF new, written
<1> QED BY <1>5, <1>6, <1>7 DEF Banked!WriteSaved

\* LDM with ^, where the engine finds the register User mode would see.
LEMMA LoadUserBankFollows ==
  ASSUME ModesInv, LoadUserBank
  PROVE  Banked!WriteUser \/ WrongBank
PROOF
<1>0. cpu \in CpuState /\ cpu.mode = cpu.cpsr.mode /\ Good(cpu') /\ cpu.mode # User
  BY PlainKeeps DEF ModesInv, Good, LoadUserBank
<1>1. PICK r \in Names, v \in Values :
        /\ op' = [kind |-> "ldm_user", r |-> r, v |-> v]
        /\ cpu' = [(IF user_bank(cpu, r) THEN [cpu EXCEPT !.bank[User][r] = v]
                    ELSE [cpu EXCEPT !.reg[r] = v]) EXCEPT !.pc = Following(@)]
  BY DEF LoadUserBank
<1>2. CASE engine # "sh4" /\ cpu.mode # Fiq /\ r = "r8"
  BY <1>1, <1>2 DEF WrongBank
<1>3. CASE ~(engine # "sh4" /\ cpu.mode # Fiq /\ r = "r8")
  <2> DEFINE file == [FileOf(cpu) EXCEPT ![User][r] = v]
             new == [file |-> file, status |-> [cpu.cpsr EXCEPT !.f = cpu.f],
                     saved |-> cpu.spsr, pc |-> Following(cpu.pc)]
  <2>1. User \in Modes /\ User # Fiq
    BY ModesAssumption DEF Modes
  <2>2. FileOf(cpu') = file /\ cpu'.cpsr = cpu.cpsr /\ cpu'.f = cpu.f
          /\ cpu'.spsr = cpu.spsr /\ cpu'.pc = Following(cpu.pc)
    <3>1. CASE user_bank(cpu, r)
      <4>1. cpu' = [[cpu EXCEPT !.bank[User][r] = v] EXCEPT !.pc = Following(@)]
        BY <1>1, <3>1
      <4>2. /\ cpu'.reg = cpu.reg /\ cpu'.bank = [cpu.bank EXCEPT ![User][r] = v]
            /\ cpu'.mode = cpu.mode
            /\ cpu'.cpsr = cpu.cpsr /\ cpu'.f = cpu.f
            /\ cpu'.spsr = cpu.spsr /\ cpu'.pc = Following(cpu.pc)
        BY <1>0, <4>1 DEF CpuState
      <4>3. r = "r8" => cpu.mode = Fiq
        BY <1>3, <3>1 DEF user_bank
      <4>4. FileOf(cpu') = file
        <5>1. cpu' \in CpuState
          BY <1>0 DEF Good
        <5>2. IF r = "r8" THEN User \in {User, Fiq} /\ (User = Fiq <=> cpu.mode # Fiq)
              ELSE User # cpu.mode
          BY <1>0, <2>1, <4>3
        <5> QED BY <1>0, <2>1, <4>2, <5>1, <5>2, SetBanked
      <4> QED BY <4>2, <4>4
    <3>2. CASE ~user_bank(cpu, r)
      <4>1. cpu' = [[cpu EXCEPT !.reg[r] = v] EXCEPT !.pc = Following(@)]
        BY <1>1, <3>2
      <4>2. /\ cpu'.reg = [cpu.reg EXCEPT ![r] = v] /\ cpu'.bank = cpu.bank
            /\ cpu'.mode = cpu.mode
            /\ cpu'.cpsr = cpu.cpsr /\ cpu'.f = cpu.f
            /\ cpu'.spsr = cpu.spsr /\ cpu'.pc = Following(cpu.pc)
        BY <1>0, <4>1 DEF CpuState
      <4>3. Banked!Owner(cpu.mode, r) = User
        BY <1>0, <3>2 DEF user_bank, Banked!Owner
      <4>4. FileOf(cpu') = file
        <5>1. cpu' \in CpuState
          BY <1>0 DEF Good
        <5>2. FileOf(cpu') = [FileOf(cpu) EXCEPT ![Banked!Owner(cpu.mode, r)][r] = v]
          BY <1>0, <4>2, <5>1, SetInUse
        <5> QED BY <4>3, <5>2
      <4> QED BY <4>2, <4>4
    <3> QED BY <3>1, <3>2
  <2> HIDE DEF file
  <2>3. Arm(cpu') = new
    BY <2>2 DEF Arm
  <2>4. [Banked!Stepped EXCEPT !.file[User][r] = v] = new
    BY SteppedIs, ArmFields DEF file
  <2> HIDE DEF new
  <2>5. Banked!Then([Banked!Stepped EXCEPT !.file[User][r] = v])
    BY <2>3, <2>4, ThenQuietly
  <2>6. op'.kind = "ldm_user" /\ op'.r = r /\ op'.v = v
    BY <1>1
  <2>7. Banked!WriteUser
    BY <2>5, <2>6 DEF Banked!WriteUser
  <2> QED BY <2>7
<1> QED BY <1>2, <1>3
\* Where the flags are collapsed, every engine's MSR is that of the architecture.
LEMMA StoreCpsrArm ==
  ASSUME NEW c, Good(c), NEW new, new.mode \in Modes, new.i \in {0, 1}, new.f \in {0, 1},
         NEW mask, NEW d, d = store_cpsr(c, new, mask)
  PROVE  /\ Good(d) /\ d.cpsr.f = d.f /\ d.pc = Following(c.pc)
         /\ "c" \in mask => d.mode = new.mode
         /\ engine # "x86" \/ c.f = c.cpsr.f =>
              d.cpsr = Banked!Merged([c.cpsr EXCEPT !.f = c.f], new, mask)
         /\ d.spsr = c.spsr /\ FileOf(d) = FileOf(c)
PROOF
<1> DEFINE old == IF engine = "x86" THEN c.cpsr ELSE [c.cpsr EXCEPT !.f = c.f]
           live == [c.cpsr EXCEPT !.f = c.f]
           merged == Banked!Merged(old, new, mask)
           stored == extract_flags([c EXCEPT !.cpsr = merged, !.pc = Following(@)])
<1>1. c \in CpuState /\ c.mode = c.cpsr.mode /\ Following(c.pc) \in Int /\ live \in Status
  BY FollowingType DEF Good, CpuState, Status
<1>2. /\ old \in Status /\ old.mode = c.mode
      /\ engine # "x86" \/ c.f = c.cpsr.f => old = live
  BY <1>1 DEF CpuState, Status
<1>3. d = IF "c" \in mask THEN cpu_switch_mode(stored, merged.mode) ELSE stored
  BY DEF store_cpsr, Banked!Merged
<1>4. engine # "x86" \/ c.f = c.cpsr.f => merged = Banked!Merged(live, new, mask)
  BY <1>2
<1> HIDE DEF old, live
<1>5. merged \in Status /\ ("c" \in mask => merged.mode = new.mode)
  BY <1>2 DEF Banked!Merged, Status
<1>6. "c" \notin mask => merged.mode = c.mode
  BY <1>2 DEF Banked!Merged, Status
<1> HIDE DEF merged
<1>7. /\ stored \in CpuState /\ stored.cpsr = merged /\ stored.f = merged.f
      /\ stored.pc = Following(c.pc) /\ stored.spsr = c.spsr
      /\ stored.reg = c.reg /\ stored.bank = c.bank /\ stored.mode = c.mode
  BY <1>1, <1>5 DEF extract_flags, CpuState, Status
<1> HIDE DEF stored
<1>8. FileOf(stored) = FileOf(c)
  BY <1>7, FileDepends
<1>9. merged.mode \in Modes
  BY <1>5 DEF Status
<1>10. CASE "c" \in mask
  <2>1. d = cpu_switch_mode(stored, merged.mode)
    BY <1>3, <1>10
  <2>2. /\ d \in CpuState /\ d.mode = merged.mode /\ d.cpsr = merged
        /\ Arm(d) = Arm(stored) /\ d.spsr = c.spsr /\ d.pc = Following(c.pc)
        /\ d.f = merged.f
    BY <1>7, <1>9, <2>1, SwitchType, SwitchKeepsArm
  <2>3. FileOf(d) = Arm(d).file /\ FileOf(stored) = Arm(stored).file
    BY DEF Arm
  <2>4. FileOf(d) = FileOf(c)
    BY <1>8, <2>2, <2>3
  <2> QED BY <1>4, <1>5, <2>2, <2>4 DEF Good, live
<1>11. CASE "c" \notin mask
  <2>1. d = stored
    BY <1>3, <1>11
  <2>2. merged.mode = c.mode
    BY <1>11, <1>6
  <2> QED BY <1>4, <1>7, <1>8, <1>11, <2>1, <2>2 DEF Good, live
<1> QED BY <1>10, <1>11

\* An instruction that writes CPSR, whichever engine runs it.
LEMMA MsrFollows ==
  ASSUME ModesInv, NEW new, new.mode \in Modes, new.i \in {0, 1}, new.f \in {0, 1},
         NEW mask, Msr(new, mask), NEW c, c = store_cpsr(cpu, new, mask),
         NEW context, NEW frames1,
         \/ cpu' = c
         \/ CheckIrq(c, msr_return(cpu), context, frames1)
  PROVE  Banked!WriteStatus \/ FromItself \/ LostFlags \/ MsrAgain
PROOF
<1>0. Good(cpu) /\ cpu \in CpuState /\ op'.kind = "msr" /\ op'.new = new /\ op'.mask = mask
  BY DEF ModesInv, Good, Msr
<1>1. CASE engine = "x86" /\ cpu.f # cpu.cpsr.f
  BY <1>0, <1>1 DEF LostFlags
<1>2. CASE engine # "x86" \/ cpu.f = cpu.cpsr.f
  <2> DEFINE live == [cpu.cpsr EXCEPT !.f = cpu.f]
  <2>1. /\ Good(c) /\ c.cpsr.f = c.f /\ c.pc = Following(cpu.pc)
        /\ c.cpsr = Banked!Merged(live, new, mask)
        /\ c.spsr = cpu.spsr /\ FileOf(c) = FileOf(cpu)
    BY <1>0, <1>2, StoreCpsrArm
  <2>2. c \in CpuState /\ c.pc \in Int /\ c.f \in {0, 1}
    BY <2>1 DEF Good, CpuState
  <2>3. [c.cpsr EXCEPT !.f = c.f] = Banked!Merged(live, new, mask)
    BY <2>1, <2>2 DEF CpuState, Status
  <2> HIDE DEF live
  <2>4. Arm(c) = [file |-> FileOf(cpu), status |-> Banked!Merged(live, new, mask),
                  saved |-> cpu.spsr, pc |-> Following(cpu.pc)]
    BY <2>1, <2>3 DEF Arm
  <2>5. Arm(c) = [Banked!Stepped EXCEPT !.status = Banked!Merged(live, new, mask)]
    BY <2>4, SteppedIs, ArmFields DEF live
  <2>6. ASSUME Banked!Then(Arm(c))
        PROVE  Banked!WriteStatus
    <3>1. Banked!Stepped.status = live
      BY SteppedIs DEF live
    <3>2. Banked!Then([Banked!Stepped EXCEPT
                         !.status = Banked!Merged(@, op'.new, op'.mask)])
      BY <1>0, <2>5, <2>6, <3>1
    <3> QED BY <1>0, <3>2 DEF Banked!WriteStatus
  <2>7. CASE cpu' = c
    BY <2>6, <2>7, ThenQuietly
  <2>8. CASE CheckIrq(c, msr_return(cpu), context, frames1)
    <3>1. CASE engine = "interpreter"
      <4>1. msr_return(cpu) = c.pc
        BY <2>1, <3>1 DEF msr_return
      <4>2. Banked!Then(Arm(c)) \/ FromItself
        BY <2>1, <2>2, <2>8, <4>1, CheckIrqThen
      <4> QED BY <2>6, <4>2
    <3>2. CASE engine # "interpreter" /\ pending /\ c.cpsr.i = 0
      <4>1. cpu' = take_irq(c, cpu.pc) /\ cpu.pc \in Int
        BY <1>0, <2>8, <3>2 DEF CheckIrq, msr_return, CpuState
      <4>2. cpu'.pc = IrqVector
        BY <2>2, <4>1, InterruptLeaves
      <4> QED BY <1>0, <3>2, <4>2 DEF MsrAgain
    <3>3. CASE ~(pending /\ c.cpsr.i = 0)
      BY <2>6, <2>8, <3>3, ThenQuietly DEF CheckIrq
    <3> QED BY <3>1, <3>2, <3>3
  <2> QED BY <2>7, <2>8
<1> QED BY <1>1, <1>2

\* It changes no register of any mode.
LEMMA MsrKeepsFile ==
  ASSUME ModesInv, NEW new, new.mode \in Modes, new.i \in {0, 1}, new.f \in {0, 1},
         NEW mask, NEW c, c = store_cpsr(cpu, new, mask)
  PROVE  /\ Good(c) /\ c.cpsr.f = c.f /\ c.spsr = cpu.spsr /\ FileOf(c) = FileOf(cpu)
         /\ "c" \in mask => c.mode = new.mode
PROOF
<1>1. Good(cpu)
  BY DEF ModesInv
<1>2. /\ Good(c) /\ c.cpsr.f = c.f /\ c.pc = Following(cpu.pc)
      /\ "c" \in mask => c.mode = new.mode
      /\ engine # "x86" \/ cpu.f = cpu.cpsr.f =>
           c.cpsr = Banked!Merged([cpu.cpsr EXCEPT !.f = cpu.f], new, mask)
      /\ c.spsr = cpu.spsr /\ FileOf(c) = FileOf(cpu)
  BY <1>1, StoreCpsrArm
<1> QED BY <1>2

LEMMA StoreCpsrFollows ==
  ASSUME ModesInv, StoreCpsr
  PROVE  Banked!WriteStatus \/ FromItself \/ LostFlags \/ MsrAgain
PROOF
<1>1. PICK m \in Modes, i \in {0, 1}, f \in {0, 1}, mask \in {{"c"}, {"f"}, {"c", "f"}} :
        LET new == [mode |-> m, i |-> i, f |-> f]
            c == store_cpsr(cpu, new, mask)
        IN  /\ Msr(new, mask)
            /\ IF "c" \in mask
               THEN CheckIrq(c, msr_return(cpu), Context(c, msr_return(cpu)), frames)
               ELSE cpu' = c /\ UNCHANGED frames
  BY ZenonT(60) DEF StoreCpsr
<1>2. PICK new : new = [mode |-> m, i |-> i, f |-> f]
  OBVIOUS
<1>3. PICK c : c = store_cpsr(cpu, new, mask)
  OBVIOUS
<1>4. new.mode \in Modes /\ new.i \in {0, 1} /\ new.f \in {0, 1}
  BY <1>2
<1>5. /\ Msr(new, mask)
      /\ \/ cpu' = c
         \/ CheckIrq(c, msr_return(cpu), Context(c, msr_return(cpu)), frames)
  BY <1>1, <1>2, <1>3
<1> QED BY <1>3, <1>4, <1>5, MsrFollows

LEMMA OpenFollows ==
  ASSUME ModesInv, Open
  PROVE  Banked!WriteStatus \/ FromItself \/ LostFlags \/ MsrAgain
PROOF
<1>1. PICK new : new = [mode |-> User, i |-> 0, f |-> 0]
  OBVIOUS
<1>2. PICK c : c = store_cpsr(cpu, new, {"c"})
  OBVIOUS
<1>3. new.mode \in Modes /\ new.i \in {0, 1} /\ new.f \in {0, 1}
  BY <1>1 DEF Modes
<1>4. /\ Msr(new, {"c"})
      /\ \E frames1 : CheckIrq(c, msr_return(cpu), Context(c, msr_return(cpu)), frames1)
  BY <1>1, <1>2 DEF Open
<1> QED BY <1>2, <1>3, <1>4, MsrFollows

\* A return restores the saved status of the mode it returns from.
LEMMA RestoreArm ==
  ASSUME NEW c, Good(c), c.mode # User, NEW address \in Int,
         NEW d, d = spsr_restore(c, address)
  PROVE  /\ Good(d) /\ d.cpsr.f = d.f /\ d.pc = address
         /\ Arm(d) = [file |-> FileOf(c), status |-> c.spsr[c.mode], saved |-> c.spsr,
                      pc |-> address]
PROOF
<1> DEFINE restored == extract_flags([c EXCEPT !.cpsr = c.spsr[c.mode], !.pc = address])
<1>1. c \in CpuState /\ c.mode = c.cpsr.mode /\ c.spsr[c.mode] \in Status
  BY DEF Good, CpuState
<1>2. /\ restored \in CpuState /\ restored.cpsr.mode \in Modes
      /\ restored.cpsr = c.spsr[c.mode] /\ restored.f = c.spsr[c.mode].f
      /\ restored.spsr = c.spsr /\ restored.pc = address
      /\ restored.reg = c.reg /\ restored.bank = c.bank /\ restored.mode = c.mode
  BY <1>1 DEF extract_flags, CpuState, Status
<1>3. d = cpu_switch_mode(restored, restored.cpsr.mode)
  BY DEF spsr_restore
<1> HIDE DEF restored
<1>4. /\ d \in CpuState /\ d.mode = restored.cpsr.mode /\ d.cpsr = restored.cpsr
      /\ Arm(d) = Arm(restored) /\ d.pc = restored.pc /\ d.f = restored.f
  BY <1>2, <1>3, SwitchType, SwitchKeepsArm
<1>5. FileOf(restored) = FileOf(c)
  BY <1>2, FileDepends
<1>6. [restored.cpsr EXCEPT !.f = restored.f] = c.spsr[c.mode]
  BY <1>1, <1>2 DEF Status
<1>7. Arm(restored) = [file |-> FileOf(c), status |-> c.spsr[c.mode], saved |-> c.spsr,
                       pc |-> address]
  BY <1>2, <1>5, <1>6 DEF Arm
<1> QED BY <1>2, <1>4, <1>7 DEF Good

\* The outcome of a return: to the link register, or to an address v loaded.
LEMMA RestoreFollows ==
  ASSUME ModesInv, cpu.mode # User, NEW address \in Int,
         op'.kind = "return",
         address = IF op'.by = "link" THEN cpu.reg.lr - op'.v ELSE op'.v,
         NEW c, c = spsr_restore(cpu, address), NEW context, NEW frames1,
         CheckIrq(c, address, context, frames1)
  PROVE  Banked!Return \/ FromItself
PROOF
<1>0. Good(cpu) /\ cpu \in CpuState /\ cpu.mode = cpu.cpsr.mode
  BY DEF ModesInv, Good
<1>1. /\ Good(c) /\ c.cpsr.f = c.f /\ c.pc = address
      /\ Arm(c) = [file |-> FileOf(cpu), status |-> cpu.spsr[cpu.mode], saved |-> cpu.spsr,
                   pc |-> address]
  BY <1>0, RestoreArm
<1>2. Banked!Then(Arm(c)) \/ FromItself
  BY <1>1, CheckIrqThen
<1>3. Arm(cpu) = [file |-> FileOf(cpu), status |-> [cpu.cpsr EXCEPT !.f = cpu.f],
                  saved |-> cpu.spsr, pc |-> cpu.pc]
  BY DEF Arm
<1>4. /\ Arm(cpu).saved = cpu.spsr /\ Arm(cpu).status.mode = cpu.mode
      /\ Arm(cpu).file = FileOf(cpu)
  BY <1>0, <1>3 DEF CpuState, Status
<1>5. FileOf(cpu)[cpu.mode].lr = cpu.reg.lr
  BY <1>0 DEF FileOf, Value, CpuState, Names
<1>6. Arm(c) = [[Arm(cpu) EXCEPT !.status = cpu.spsr[cpu.mode]] EXCEPT !.pc = address]
  <2> DEFINE a == [Arm(cpu) EXCEPT !.status = cpu.spsr[cpu.mode]]
  <2>1. a = [file |-> FileOf(cpu), status |-> cpu.spsr[cpu.mode], saved |-> cpu.spsr,
             pc |-> cpu.pc]
    BY <1>3, ArmFields
  <2> HIDE DEF a
  <2>2. [a EXCEPT !.pc = address] = Arm(c)
    BY <1>1, <2>1
  <2> QED BY <2>2 DEF a
<1>7. ASSUME Banked!Then(Arm(c))
      PROVE  Banked!Return
  <2>1. Banked!Then([Arm(cpu) EXCEPT
                       !.status = Arm(cpu).saved[Arm(cpu).status.mode],
                       !.pc = IF op'.by = "link"
                              THEN Arm(cpu).file[Arm(cpu).status.mode].lr - op'.v
                              ELSE op'.v])
    BY <1>4, <1>5, <1>6, <1>7
  <2> QED BY <2>1 DEF Banked!Return, Arm, File, FileOf
<1> QED BY <1>2, <1>7
\* The instructions that return: by the link register, or, on the Dreamcast, by LDM.
LEMMA ReturnFollows ==
  ASSUME ModesInv, Return
  PROVE  Banked!Return \/ FromItself
PROOF
<1>1. PICK ahead : ahead = IF cpu.mode = Irq /\ Handling THEN 1 ELSE 0
  OBVIOUS
<1>2. PICK address : address = cpu.reg.lr - ahead
  OBVIOUS
<1>3. PICK c : c = spsr_restore(cpu, address)
  OBVIOUS
<1>4. /\ cpu.mode # User
      /\ op' = [kind |-> "return", by |-> "link", v |-> ahead]
      /\ \E frames1 : CheckIrq(c, address, Context(c, address), frames1)
  BY <1>1, <1>2, <1>3 DEF Return
<1>5. address \in Int
  BY <1>1, <1>2 DEF ModesInv, Good, CpuState, Registers
<1>6. /\ op'.kind = "return"
      /\ address = IF op'.by = "link" THEN cpu.reg.lr - op'.v ELSE op'.v
  BY <1>2, <1>4
<1> QED BY <1>3, <1>4, <1>5, <1>6, RestoreFollows

LEMMA LoadPcUserBankFollows ==
  ASSUME ModesInv, LoadPcUserBank
  PROVE  Banked!Return \/ FromItself \/ StatusKept
PROOF
<1>1. PICK v \in Values :
        /\ op' = [kind |-> "return", by |-> "load", v |-> v]
        /\ engine = "sh4" => LET c == spsr_restore(cpu, v)
                             IN  CheckIrq(c, v, Context(c, v), frames)
  BY DEF LoadPcUserBank
<1>2. PICK c : c = spsr_restore(cpu, v)
  OBVIOUS
<1>3. /\ cpu.mode # User /\ v \in Int
      /\ op'.kind = "return" /\ op'.by = "load" /\ op'.v = v
  BY <1>1, ModesAssumption DEF LoadPcUserBank, Values
<1>4. CASE engine = "sh4"
  <2>1. CheckIrq(c, v, Context(c, v), frames)
    BY <1>1, <1>2, <1>4
  <2>2. v = IF op'.by = "link" THEN cpu.reg.lr - op'.v ELSE op'.v
    BY <1>3
  <2> QED BY <1>2, <1>3, <2>1, <2>2, RestoreFollows
<1>5. CASE engine # "sh4"
  BY <1>3, <1>5 DEF StatusKept
<1> QED BY <1>4, <1>5

LEMMA SwiFollows ==
  ASSUME ModesInv, SoftwareInterrupt
  PROVE  Banked!Swi \/ FromItself
PROOF
<1>0. /\ Good(cpu) /\ cpu \in CpuState /\ cpu.mode = cpu.cpsr.mode /\ cpu.f \in {0, 1}
      /\ op'.kind = "swi" /\ cpu' = execute_swi(cpu)
      /\ Svc \in Modes /\ "lr" \in Names
      /\ SwiVector \in Int /\ Following(cpu.pc) \in Int
  BY FollowingType, ModesAssumption
     DEF ModesInv, Good, CpuState, SoftwareInterrupt, Modes, Names, SwiVector
<1>1. CASE cpu.mode = Svc
  BY <1>0, <1>1 DEF FromItself
<1>2. CASE cpu.mode # Svc
  <2> DEFINE c == collapse_flags(cpu)
             d == [c EXCEPT !.bank[Svc].lr = Following(cpu.pc), !.spsr[Svc] = c.cpsr,
                            !.cpsr = [@ EXCEPT !.mode = Svc, !.t = 0], !.pc = SwiVector]
             live == [cpu.cpsr EXCEPT !.f = cpu.f]
             status == [mode |-> Svc, i |-> cpu.cpsr.i, t |-> 0, f |-> cpu.f]
  <2>1. cpu' = cpu_switch_mode(d, Svc)
    BY <1>0 DEF execute_swi
  <2>2. /\ c \in CpuState /\ c.cpsr = live /\ c.mode = cpu.mode /\ c.reg = cpu.reg
        /\ c.bank = cpu.bank /\ c.spsr = cpu.spsr /\ c.f = cpu.f
    BY <1>0, CollapseType DEF collapse_flags, CpuState
  <2>3. live \in Status /\ [live EXCEPT !.mode = Svc, !.t = 0] = status /\ status \in Status
    <3>1. live \in Status /\ status \in Status
      BY <1>0 DEF CpuState, Status
    <3>2. /\ DOMAIN live = {"mode", "i", "t", "f"}
          /\ live.i = cpu.cpsr.i /\ live.f = cpu.f
      BY <1>0 DEF CpuState, Status
    <3> HIDE DEF live
    <3>3. [live EXCEPT !.mode = Svc, !.t = 0] = status
      <4> DEFINE s == [live EXCEPT !.mode = Svc, !.t = 0]
      <4>1. s = [x \in {"mode", "i", "t", "f"} |-> s[x]]
        BY <3>2
      <4>2. /\ s["mode"] = Svc /\ s["i"] = cpu.cpsr.i /\ s["t"] = 0 /\ s["f"] = cpu.f
        BY <3>2
      <4> HIDE DEF s
      <4>3. s = status
        BY <4>1, <4>2
      <4> QED BY <4>3 DEF s
    <3> QED BY <3>1, <3>3
  <2> HIDE DEF c, live, status
  <2>4. d \in CpuState
    <3>1. [c.bank EXCEPT ![Svc].lr = Following(cpu.pc)] \in [Modes -> Registers]
      BY <1>0, <2>2 DEF CpuState, Registers
    <3>2. [c.spsr EXCEPT ![Svc] = c.cpsr] \in [Modes -> Status]
      BY <2>2, <2>3 DEF CpuState
    <3> QED BY <1>0, <2>2, <2>3, <3>1, <3>2 DEF CpuState
  <2>5. /\ d.mode = cpu.mode /\ d.reg = cpu.reg /\ d.f = cpu.f /\ d.cpsr = status
        /\ d.bank = [cpu.bank EXCEPT ![Svc]["lr"] = Following(cpu.pc)]
        /\ d.spsr = [cpu.spsr EXCEPT ![Svc] = live] /\ d.pc = SwiVector
    BY <2>2, <2>3 DEF CpuState
  <2> HIDE DEF d
  <2>6. FileOf(d) = [FileOf(cpu) EXCEPT ![Svc]["lr"] = Following(cpu.pc)]
    BY <1>0, <1>2, <2>4, <2>5, SetBanked
  <2>7. [status EXCEPT !.f = cpu.f] = status
    BY DEF status
  <2>8. Arm(cpu') = [file |-> [FileOf(cpu) EXCEPT ![Svc].lr = Following(cpu.pc)],
                     status |-> [mode |-> Svc, i |-> cpu.cpsr.i, t |-> 0, f |-> cpu.f],
                     saved |-> [cpu.spsr EXCEPT ![Svc] = live], pc |-> SwiVector]
    BY <1>0, <2>1, <2>4, <2>5, <2>6, <2>7, SwitchKeepsArm DEF Arm, status
  <2>9. Arm(cpu) = [file |-> FileOf(cpu), status |-> live, saved |-> cpu.spsr, pc |-> cpu.pc]
    BY DEF Arm, live
  <2>10. Arm(cpu') = Banked!Entered(Arm(cpu), Svc, Following(cpu.pc), cpu.cpsr.i, SwiVector,
                                    cpu.f)
    BY <2>8, <2>9, EnteredFields
  <2>11. Banked!Then(Banked!Entered(Arm(cpu), Svc, Following(cpu.pc), cpu.cpsr.i, SwiVector,
                                    cpu.f))
    BY <2>10, ThenQuietly
  <2>12. /\ Arm(cpu).status.i = cpu.cpsr.i /\ Arm(cpu).pc = cpu.pc
         /\ Banked!Following(cpu.pc) = Following(cpu.pc)
    BY <1>0 DEF Arm, CpuState, Status, Banked!Following, Following
  <2>13. \E i \in {Arm(cpu).status.i, 1}, f \in {0, 1} :
           Banked!Then(Banked!Entered(Arm(cpu), Svc, Banked!Following(Arm(cpu).pc), i,
                                      SwiVector, f))
    BY <1>0, <2>11, <2>12
  <2>14. Banked!Swi
    BY <1>0, <2>13 DEF Banked!Swi, Arm, File, FileOf
  <2> QED BY <2>14
<1> QED BY <1>1, <1>2

LEMMA CloseFollows ==
  ASSUME ModesInv, Close
  PROVE  Banked!GiveBack \/ LostFlags
PROOF
<1>0. Good(cpu) /\ cpu \in CpuState /\ frames \in Seq(Frame)
  BY DEF ModesInv, Good, Frames
<1>1. PICK kept : kept = Head(frames).kept[1]
  OBVIOUS
<1>2. kept \in Kept
  <2>1. frames # <<>> /\ Head(frames).kept # <<>>
    BY DEF Close, Opened, Handling
  <2>2. Head(frames) \in Frame
    BY <1>0, <2>1
  <2> QED BY <1>1, <2>1, <2>2 DEF Frame
<1>3. PICK new : new = [mode |-> kept.mode, i |-> 1, f |-> 0]
  OBVIOUS
<1>4. PICK c : c = store_cpsr(cpu, new, {"c"})
  OBVIOUS
<1>5. /\ op' = [kind |-> "give_back", m |-> kept.mode, lr |-> kept.lr, spsr |-> kept.spsr]
      /\ cpu' = [c EXCEPT !.reg.lr = kept.lr, !.spsr[kept.mode] = kept.spsr]
  BY <1>1, <1>3, <1>4 DEF Close
<1>6. CASE engine = "x86" /\ cpu.f # cpu.cpsr.f
  BY <1>5, <1>6 DEF LostFlags
<1>7. CASE engine # "x86" \/ cpu.f = cpu.cpsr.f
  <2> DEFINE live == [cpu.cpsr EXCEPT !.f = cpu.f]
             status == [[live EXCEPT !.mode = kept.mode] EXCEPT !.i = 1]
             file == [FileOf(cpu) EXCEPT ![kept.mode]["lr"] = kept.lr]
             saved == [cpu.spsr EXCEPT ![kept.mode] = kept.spsr]
             new1 == [file |-> file, status |-> status, saved |-> saved,
                      pc |-> Following(cpu.pc)]
  <2>1. new.mode \in Modes /\ new.i \in {0, 1} /\ new.f \in {0, 1} /\ kept.mode \in Modes
        /\ kept.lr \in Int /\ kept.spsr \in Status /\ new.mode = kept.mode
    BY <1>2, <1>3 DEF Kept
  <2>2. /\ Good(c) /\ c.cpsr.f = c.f /\ c.pc = Following(cpu.pc)
        /\ c.mode = kept.mode
        /\ c.cpsr = Banked!Merged(live, new, {"c"})
        /\ c.spsr = cpu.spsr /\ FileOf(c) = FileOf(cpu)
    BY <1>0, <1>4, <1>7, <2>1, StoreCpsrArm
  <2>3. c.cpsr = status
    BY <1>0, <1>3, <2>2 DEF Banked!Merged, CpuState, Status
  <2>4. c \in CpuState /\ [c.cpsr EXCEPT !.f = c.f] = status
    BY <2>2, <2>3 DEF Good, CpuState, Status
  <2> HIDE DEF status
  <2>5. /\ cpu' \in CpuState
        /\ cpu'.mode = c.mode /\ cpu'.bank = c.bank /\ cpu'.cpsr = c.cpsr /\ cpu'.f = c.f
        /\ cpu'.reg = [c.reg EXCEPT !["lr"] = kept.lr] /\ cpu'.pc = c.pc
        /\ cpu'.spsr = saved
    BY <1>5, <2>1, <2>2, <2>4 DEF CpuState, Registers
  <2>6. Banked!Owner(c.mode, "lr") = kept.mode /\ "lr" \in Names
    BY <2>2 DEF Banked!Owner, Names
  <2>7. FileOf(cpu') = [FileOf(c) EXCEPT ![Banked!Owner(c.mode, "lr")]["lr"] = kept.lr]
    BY <2>4, <2>5, <2>6, SetInUse
  <2>8. FileOf(cpu') = file
    BY <2>2, <2>6, <2>7
  <2> HIDE DEF file, saved, live
  <2>9. Arm(cpu') = new1
    BY <2>2, <2>4, <2>5, <2>8 DEF Arm
  <2>10. new1 = [Banked!Stepped EXCEPT !.status.mode = kept.mode, !.status.i = 1,
                                       !.file[kept.mode].lr = kept.lr,
                                       !.saved[kept.mode] = kept.spsr]
    <3> DEFINE a == [Banked!Stepped EXCEPT !.status.mode = kept.mode]
               b == [a EXCEPT !.status.i = 1]
               e == [b EXCEPT !.file[kept.mode].lr = kept.lr]
    <3>1. Banked!Stepped = [file |-> FileOf(cpu), status |-> live, saved |-> cpu.spsr,
                            pc |-> Following(cpu.pc)]
      BY SteppedIs DEF live
    <3>2. a = [file |-> FileOf(cpu), status |-> [live EXCEPT !.mode = kept.mode],
               saved |-> cpu.spsr, pc |-> Following(cpu.pc)]
      BY <3>1
    <3> HIDE DEF a
    <3>3. b = [file |-> FileOf(cpu), status |-> status, saved |-> cpu.spsr,
               pc |-> Following(cpu.pc)]
      BY <3>2 DEF status
    <3> HIDE DEF b
    <3>4. e = [file |-> file, status |-> status, saved |-> cpu.spsr, pc |-> Following(cpu.pc)]
      BY <3>3 DEF file
    <3> HIDE DEF e
    <3>5. [e EXCEPT !.saved[kept.mode] = kept.spsr] = new1
      BY <3>4 DEF saved
    <3> QED BY <3>5 DEF e, b, a
  <2>11. /\ op'.kind = "give_back" /\ op'.m = kept.mode /\ op'.lr = kept.lr
         /\ op'.spsr = kept.spsr
    BY <1>5
  <2>12. Arm(cpu') = [Banked!Stepped EXCEPT !.status.mode = op'.m, !.status.i = 1,
                                           !.file[op'.m].lr = op'.lr,
                                           !.saved[op'.m] = op'.spsr]
    BY <2>9, <2>10, <2>11
  <2>13. Banked!GiveBack
    BY <2>11, <2>12 DEF Banked!GiveBack, Arm, File, FileOf
  <2> QED BY <2>13
<1> QED BY <1>6, <1>7

LEMMA RaiseFollows ==
  ASSUME ModesInv, Raise, cpu.cpsr.i = 0
  PROVE  Banked!Interrupt \/ FromItself
PROOF
<1> DEFINE c == collapse_flags(cpu)
<1>0. /\ cpu \in CpuState /\ cpu.mode = cpu.cpsr.mode /\ cpu.pc \in Int
      /\ cpu' = take_irq(c, cpu.pc) /\ op'.kind = "interrupt"
  BY DEF ModesInv, Good, CpuState, Raise
<1>1. /\ c \in CpuState /\ c.cpsr = [cpu.cpsr EXCEPT !.f = cpu.f] /\ c.f = cpu.f
      /\ c.mode = cpu.mode /\ c.reg = cpu.reg /\ c.bank = cpu.bank /\ c.spsr = cpu.spsr
      /\ c.pc = cpu.pc
  BY <1>0, CollapseType DEF collapse_flags, CpuState
<1> HIDE DEF c
<1>2. c.cpsr.f = c.f /\ c.cpsr.i = 0 /\ c.f \in {0, 1} /\ c.cpsr.mode = cpu.mode
  BY <1>0, <1>1 DEF CpuState, Status
<1>3. CASE cpu.mode = Irq
  BY <1>0, <1>1, <1>2, <1>3, InterruptLeaves DEF FromItself
<1>4. CASE cpu.mode # Irq
  <2>1. FileOf(c) = FileOf(cpu)
    BY <1>1, FileDepends
  <2>2. [c.cpsr EXCEPT !.f = c.f] = [cpu.cpsr EXCEPT !.f = cpu.f]
    BY <1>0, <1>1 DEF CpuState, Status
  <2>3. Arm(c) = Arm(cpu)
    BY <1>1, <2>1, <2>2 DEF Arm
  <2>4. Arm(cpu).pc = cpu.pc /\ Arm(cpu).status.i = 0
    BY <1>0 DEF Arm, CpuState, Status
  <2>5. Arm(cpu') = Banked!Entered(Arm(cpu), Irq, Arm(cpu).pc + 1, 1, IrqVector, c.f)
    BY <1>0, <1>1, <1>2, <1>4, <2>3, <2>4, InterruptEnters
  <2>6. Banked!Then(Arm(cpu))
    BY <1>2, <2>4, <2>5, ThenInterrupted
  <2>7. Banked!Interrupt
    BY <1>0, <2>4, <2>6 DEF Banked!Interrupt, Arm, File, FileOf
  <2> QED BY <2>7
<1> QED BY <1>3, <1>4

\* Whatever the engine, an instruction or interrupt leaves every mode's registers,
\* CPSR, the saved statuses and the program counter as the architecture says, but for
\* the listed cases (cpu.c, x86_emit.h, sh4_helpers.c): CpuModes implements
\* BankedRegisters step by step.
THEOREM EnginesFollowBanks == Spec => FollowsBanks
PROOF
<1> DEFINE Known == FromItself \/ LostFlags \/ MsrAgain \/ WrongBank \/ StatusKept
<1>1. Init => Banked!Init
  <2> SUFFICES ASSUME Init PROVE Banked!Init
    OBVIOUS
  <2>1. PICK m \in Modes : cpu = cpu_switch_mode([init_cpu EXCEPT !.cpsr.mode = m], m)
    BY DEF Init
  <2> DEFINE c == [init_cpu EXCEPT !.cpsr.mode = m]
  <2>2. c \in CpuState /\ c.cpsr.i = 0 /\ c.cpsr.t = 0
    <3>1. init_cpu \in CpuState
      BY DEF init_cpu, CpuState, Registers, Status, Modes
    <3>2. init_cpu.cpsr = [mode |-> User, i |-> 0, t |-> 0, f |-> 0]
      BY DEF init_cpu
    <3> QED BY <3>1, <3>2 DEF CpuState, Status
  <2> HIDE DEF c
  <2>3. cpu.cpsr = c.cpsr
    BY <2>1, <2>2, SwitchType DEF c
  <2>4. cpu.cpsr \in Status
    BY <2>2, <2>3 DEF CpuState
  <2>5. [cpu.cpsr EXCEPT !.f = cpu.f].t = 0 /\ [cpu.cpsr EXCEPT !.f = cpu.f].i = 0
    BY <2>2, <2>3, <2>4 DEF Status
  <2> QED BY <2>5 DEF Banked!Init
<1>2. ModesInv /\ [Next]_vars => [Banked!Next \/ Known]_<<cpu, op>>
  <2> SUFFICES ASSUME ModesInv, [Next]_vars
               PROVE  Banked!Next \/ Known \/ UNCHANGED <<cpu, op>>
    OBVIOUS
  <2>1. CASE Write
    BY <2>1, WriteFollows DEF Banked!Next
  <2>2. CASE Exchange
    BY <2>2, ExchangeFollows DEF Banked!Next
  <2>3. CASE StoreCpsr
    BY <2>3, StoreCpsrFollows DEF Banked!Next
  <2>4. CASE StoreSpsr
    BY <2>4, StoreSpsrFollows DEF Banked!Next
  <2>5. CASE LoadUserBank
    BY <2>5, LoadUserBankFollows DEF Banked!Next
  <2>6. CASE LoadPcUserBank
    BY <2>6, LoadPcUserBankFollows DEF Banked!Next
  <2>7. CASE Return
    BY <2>7, ReturnFollows DEF Banked!Next
  <2>8. CASE SoftwareInterrupt
    BY <2>8, SwiFollows DEF Banked!Next
  <2>9. CASE Open
    BY <2>9, OpenFollows DEF Banked!Next
  <2>10. CASE Close
    BY <2>10, CloseFollows DEF Banked!Next
  <2>11. CASE Raise
    <3>1. CASE cpu.cpsr.i = 0
      BY <2>11, <3>1, RaiseFollows DEF Banked!Next
    <3>2. CASE cpu.cpsr.i # 0
      BY <2>11, <3>2 DEF Raise
    <3> QED BY <3>1, <3>2
  <2>12. CASE Acknowledge
    BY <2>12 DEF Acknowledge
  <2>13. CASE UNCHANGED vars
    BY <2>13 DEF vars
  <2> QED BY <2>1, <2>2, <2>3, <2>4, <2>5, <2>6, <2>7, <2>8, <2>9, <2>10, <2>11, <2>12,
             <2>13 DEF Next
<1> QED BY <1>1, <1>2, InitModes, StepKeepsModes, PTL DEF Spec, FollowsBanks
-----------------------------------------------------------------------------
(* What the exceptions being handled still owe: Owed(c, fs) says, of every   *)
(* frame of fs, that processor c still holds, or its handler has kept, what  *)
(* the return to it needs.                                                   *)

\* The mode handler n goes on in, and the one it was entered in.
Resumed(c, fs, n) == IF n = 1 THEN c.mode ELSE fs[n - 1].status.mode
Let(fs, n) == fs[n].kept # <<>>
Entry(c, fs, n) == IF Let(fs, n) THEN fs[n].kept[1].mode ELSE Resumed(c, fs, n)
Link(c, fs, n) == IF Let(fs, n) THEN fs[n].kept[1].lr ELSE FileOf(c)[Resumed(c, fs, n)].lr
Saved(c, fs, n) == IF Let(fs, n) THEN fs[n].kept[1].spsr ELSE c.spsr[Resumed(c, fs, n)]

\* Its way back: the link register and saved status of the mode it was entered in.
\* One that was interrupted without letting others in is a software interrupt's.
WayBack(c, fs, n) ==
  /\ Entry(c, fs, n) \in {Irq, Svc}
  /\ n > 1 /\ ~Let(fs, n) => Resumed(c, fs, n) = Svc
  /\ Link(c, fs, n) = fs[n].pc + (IF Entry(c, fs, n) = Irq THEN 1 ELSE 0)
  /\ Saved(c, fs, n) = fs[n].status

\* The registers of what it interrupted, but the link register of Irq mode.
Untouched(c, frame) ==
  LET m == frame.status.mode
  IN  /\ frame.reg.r8 = FileOf(c)[Banked!Owner(m, "r8")].r8
      /\ frame.reg.sp = FileOf(c)[m].sp
      /\ m # Irq => frame.reg.lr = FileOf(c)[m].lr

\* No software interrupt is taken while one is interrupted, or the program in its mode.
NoSwiInside(c, fs, n) ==
  fs[n].status.mode = Svc => \A k \in 1 .. n : Entry(c, fs, k) = Irq

Owed(c, fs) ==
  \A n \in 1 .. Len(fs) : WayBack(c, fs, n) /\ Untouched(c, fs[n]) /\ NoSwiInside(c, fs, n)

ResumeInv == Owed(cpu, frames)
\* Entering mode o changes its link register and saved status, and no other place.
Enters(c, d, o, link) ==
  \A m \in Modes : /\ FileOf(d)[m].lr = IF m = o THEN link ELSE FileOf(c)[m].lr
                   /\ FileOf(d)[m].sp = FileOf(c)[m].sp
                   /\ FileOf(d)[m].r8 = FileOf(c)[m].r8
                   /\ d.spsr[m] = IF m = o THEN [c.cpsr EXCEPT !.f = c.f] ELSE c.spsr[m]

LEMMA FileDomain ==
  ASSUME NEW c
  PROVE  /\ DOMAIN FileOf(c) = Modes
         /\ \A m \in Modes : DOMAIN FileOf(c)[m] = {"r8", "sp", "lr"}
BY DEF FileOf, Names

\* The registers in use are those the file has for the mode.
LEMMA InUse ==
  ASSUME NEW c \in CpuState
  PROVE  /\ c.reg.r8 = FileOf(c)[Banked!Owner(c.mode, "r8")].r8
         /\ c.reg.sp = FileOf(c)[c.mode].sp
         /\ c.reg.lr = FileOf(c)[c.mode].lr
PROOF
<1>1. c.mode \in Modes /\ User \in Modes /\ Fiq \in Modes
  BY DEF CpuState, Modes
<1>2. FileOf(c)[c.mode].sp = c.reg.sp /\ FileOf(c)[c.mode].lr = c.reg.lr
  BY <1>1 DEF FileOf, Value, Names
<1>3. FileOf(c)[Banked!Owner(c.mode, "r8")].r8 = c.reg.r8
  BY <1>1, ModesAssumption DEF FileOf, Value, Names, Banked!Owner
<1> QED BY <1>2, <1>3

LEMMA OwnerType ==
  ASSUME NEW m \in Modes
  PROVE  Banked!Owner(m, "r8") \in Modes
BY DEF Banked!Owner, Modes

\* A frame on top of others.
LEMMA PushedAt ==
  ASSUME NEW frame \in Frame, NEW fs \in Frames, NEW s, s = <<frame>> \o fs
  PROVE  /\ s \in Frames /\ Len(s) = Len(fs) + 1 /\ s[1] = frame
         /\ \A n \in 2 .. Len(s) : s[n] = fs[n - 1] /\ n - 1 \in 1 .. Len(fs)
PROOF
<1>1. <<frame>> \in Seq(Frame) /\ fs \in Seq(Frame) /\ Len(fs) \in Nat
  BY DEF Frames
<1> QED BY <1>1 DEF Frames

LEMMA FrameType ==
  ASSUME NEW fs \in Frames, NEW n \in 1 .. Len(fs)
  PROVE  /\ fs[n] \in Frame /\ fs[n].status \in Status /\ fs[n].status.mode \in Modes
         /\ Let(fs, n) => fs[n].kept[1] \in Kept
PROOF
<1>1. fs[n] \in Frame
  BY DEF Frames
<1>2. fs[n].status \in Status /\ fs[n].status.mode \in Modes
  BY <1>1 DEF Frame, Status
<1>3. fs[n].kept \in Seq(Kept)
  BY <1>1 DEF Frame
<1>4. Let(fs, n) => fs[n].kept[1] \in Kept
  BY <1>3 DEF Let
<1> QED BY <1>1, <1>2, <1>4

LEMMA ResumedType ==
  ASSUME NEW c \in CpuState, NEW fs \in Frames, NEW n \in 1 .. Len(fs)
  PROVE  Resumed(c, fs, n) \in Modes
PROOF
<1>1. CASE n = 1
  BY <1>1 DEF Resumed, CpuState
<1>2. CASE n # 1
  <2>1. n - 1 \in 1 .. Len(fs)
    BY <1>2 DEF Frames
  <2> QED BY <1>2, <2>1, FrameType DEF Resumed
<1> QED BY <1>1, <1>2

\* An exception, entered from another mode, keeps its own way back and no other's.
LEMMA PushOwes ==
  ASSUME NEW c, Good(c), NEW fs \in Frames, Owed(c, fs),
         NEW o \in {Irq, Svc}, c.mode # o,
         o = Svc => /\ \A n \in 1 .. Len(fs) : fs[n].status.mode # Svc
                    /\ fs # <<>> => Let(fs, 1),
         NEW pc \in Int, NEW link, link = pc + (IF o = Irq THEN 1 ELSE 0),
         NEW d, d.mode = o, Enters(c, d, o, link),
         NEW s, s = <<Context(c, pc)>> \o fs
  PROVE  Owed(d, s)
PROOF
<1> DEFINE frame == Context(c, pc)
<1>0. /\ c \in CpuState /\ c.mode = c.cpsr.mode /\ c.mode \in Modes /\ o \in Modes
      /\ Irq # Svc /\ User # Irq /\ User # Svc
  BY ModesAssumption DEF Good, CpuState, Modes
<1>1. /\ frame \in Frame /\ frame.pc = pc /\ frame.reg = c.reg /\ frame.kept = <<>>
      /\ frame.status = [c.cpsr EXCEPT !.f = c.f] /\ frame.status.mode = c.mode
  BY <1>0, ContextType DEF Context, CpuState, Status
<1>2. s = <<frame>> \o fs
  OBVIOUS
<1> HIDE DEF frame
<1>3. /\ s \in Frames /\ Len(s) = Len(fs) + 1 /\ s[1] = frame
      /\ \A n \in 2 .. Len(s) : s[n] = fs[n - 1] /\ n - 1 \in 1 .. Len(fs)
  BY <1>1, <1>2, PushedAt
<1>4. Len(fs) \in Nat /\ 1 \in 1 .. Len(s)
  BY <1>3 DEF Frames
<1>5. \A m \in Modes : /\ FileOf(d)[m].lr = IF m = o THEN link ELSE FileOf(c)[m].lr
                       /\ FileOf(d)[m].sp = FileOf(c)[m].sp
                       /\ FileOf(d)[m].r8 = FileOf(c)[m].r8
                       /\ d.spsr[m] = IF m = o THEN frame.status ELSE c.spsr[m]
  BY <1>1 DEF Enters
<1>6. \A n \in 2 .. Len(s) : Resumed(d, s, n) = Resumed(c, fs, n - 1)
  <2> SUFFICES ASSUME NEW n \in 2 .. Len(s)
               PROVE  Resumed(d, s, n) = Resumed(c, fs, n - 1)
    OBVIOUS
  <2>1. CASE n = 2
    <3>1. n # 1 /\ n - 1 = 1
      BY <2>1
    <3>2. Resumed(d, s, n) = s[1].status.mode /\ Resumed(c, fs, n - 1) = c.mode
      BY <3>1 DEF Resumed
    <3> QED BY <1>1, <1>3, <3>2
  <2>2. CASE n # 2
    <3>1. n - 1 \in 2 .. Len(s) /\ n # 1 /\ n - 1 # 1
      BY <1>4, <2>2
    <3>2. s[n - 1] = fs[n - 1 - 1]
      BY <1>3, <3>1
    <3> QED BY <3>1, <3>2 DEF Resumed
  <2> QED BY <2>1, <2>2
<1>7. \A n \in 2 .. Len(s) : (Let(s, n) <=> Let(fs, n - 1))
  BY <1>3 DEF Let
<1>8. ~Let(s, 1) /\ Resumed(d, s, 1) = o
  BY <1>1, <1>3 DEF Let, Resumed
<1>9. \A n \in 2 .. Len(s) : ~Let(s, n) => Resumed(d, s, n) = Svc /\ o = Irq
  <2> SUFFICES ASSUME NEW n \in 2 .. Len(s), ~Let(s, n)
               PROVE  Resumed(d, s, n) = Svc /\ o = Irq
    OBVIOUS
  <2>1. n - 1 \in 1 .. Len(fs) /\ ~Let(fs, n - 1) /\ WayBack(c, fs, n - 1)
    BY <1>3, <1>7 DEF Owed
  <2>2. CASE n = 2
    <3>1. Resumed(c, fs, 1) = c.mode /\ Entry(c, fs, 1) = c.mode
      BY <2>1, <2>2 DEF Resumed, Entry
    <3>2. fs # <<>>
      BY <2>1, <1>4
    <3> QED BY <1>0, <1>6, <2>1, <2>2, <3>1, <3>2 DEF WayBack
  <2>3. CASE n # 2
    <3>1. n - 2 \in 1 .. Len(fs) /\ n - 1 > 1 /\ n - 1 # 1 /\ (n - 1) - 1 = n - 2
      BY <2>1, <2>3, <1>4
    <3>2. Resumed(c, fs, n - 1) = Svc
      BY <2>1, <3>1 DEF WayBack
    <3>3. fs[n - 2].status.mode = Svc
      BY <3>1, <3>2 DEF Resumed
    <3> QED BY <1>6, <3>1, <3>2, <3>3
  <2> QED BY <2>2, <2>3
<1>10. \A n \in 2 .. Len(s) :
         /\ Entry(d, s, n) = Entry(c, fs, n - 1)
         /\ Link(d, s, n) = Link(c, fs, n - 1)
         /\ Saved(d, s, n) = Saved(c, fs, n - 1)
  <2> SUFFICES ASSUME NEW n \in 2 .. Len(s)
               PROVE  /\ Entry(d, s, n) = Entry(c, fs, n - 1)
                      /\ Link(d, s, n) = Link(c, fs, n - 1)
                      /\ Saved(d, s, n) = Saved(c, fs, n - 1)
    OBVIOUS
  <2>1. s[n] = fs[n - 1]
    BY <1>3
  <2>2. CASE Let(s, n)
    BY <1>7, <2>1, <2>2 DEF Entry, Link, Saved
  <2>3. CASE ~Let(s, n)
    <3>1. Resumed(d, s, n) = Svc /\ o # Svc /\ Svc \in Modes
      BY <1>0, <1>9, <2>3 DEF Modes
    <3>2. Resumed(c, fs, n - 1) = Svc /\ ~Let(fs, n - 1)
      BY <1>6, <1>7, <2>3, <3>1
    <3> QED BY <1>5, <2>3, <3>1, <3>2 DEF Entry, Link, Saved
  <2> QED BY <2>2, <2>3
<1>11. /\ Entry(d, s, 1) = o /\ Link(d, s, 1) = link /\ Saved(d, s, 1) = frame.status
  BY <1>0, <1>5, <1>8 DEF Entry, Link, Saved
<1>12. \A n \in 1 .. Len(s) : WayBack(d, s, n)
  <2> SUFFICES ASSUME NEW n \in 1 .. Len(s) PROVE WayBack(d, s, n)
    OBVIOUS
  <2>1. CASE n = 1
    BY <1>1, <1>3, <1>11, <2>1 DEF WayBack
  <2>2. CASE n # 1
    <3>1. n \in 2 .. Len(s) /\ n - 1 \in 1 .. Len(fs) /\ s[n] = fs[n - 1]
      BY <1>3, <1>4, <2>2
    <3>2. WayBack(c, fs, n - 1)
      BY <3>1 DEF Owed
    <3> QED BY <1>9, <1>10, <3>1, <3>2 DEF WayBack
  <2> QED BY <2>1, <2>2
<1>13. \A n \in 1 .. Len(s) : Untouched(d, s[n])
  <2> SUFFICES ASSUME NEW n \in 1 .. Len(s) PROVE Untouched(d, s[n])
    OBVIOUS
  <2>0. s[n].status.mode \in Modes /\ Banked!Owner(s[n].status.mode, "r8") \in Modes
    BY <1>3, FrameType, OwnerType
  <2>1. CASE n = 1
    <3>1. s[n].status.mode = c.mode /\ s[n].reg = c.reg
      BY <1>1, <1>3, <2>1
    <3>2. Banked!Owner(c.mode, "r8") \in Modes
      BY <1>0, OwnerType
    <3>3. /\ c.reg.r8 = FileOf(d)[Banked!Owner(c.mode, "r8")].r8
          /\ c.reg.sp = FileOf(d)[c.mode].sp /\ c.reg.lr = FileOf(d)[c.mode].lr
      BY <1>0, <1>5, <3>2, InUse
    <3> QED BY <3>1, <3>3 DEF Untouched
  <2>2. CASE n # 1
    <3>1. n \in 2 .. Len(s) /\ n - 1 \in 1 .. Len(fs) /\ s[n] = fs[n - 1]
      BY <1>3, <1>4, <2>2
    <3>2. Untouched(c, s[n])
      BY <3>1 DEF Owed
    <3>3. s[n].status.mode # Irq => s[n].status.mode # o
      BY <3>1
    <3> QED BY <1>5, <2>0, <3>2, <3>3 DEF Untouched
  <2> QED BY <2>1, <2>2
<1>14. \A n \in 1 .. Len(s) : NoSwiInside(d, s, n)
  <2> SUFFICES ASSUME NEW n \in 1 .. Len(s), s[n].status.mode = Svc, NEW k \in 1 .. n
               PROVE  Entry(d, s, k) = Irq
    BY DEF NoSwiInside
  <2>1. CASE n = 1
    <3>1. k = 1
      BY <2>1
    <3>2. s[n] = frame
      BY <1>3, <2>1
    <3>3. c.mode = Svc
      BY <1>1, <3>2
    <3> QED BY <1>11, <3>1, <3>3
  <2>2. CASE n # 1
    <3>1. n \in 2 .. Len(s) /\ n - 1 \in 1 .. Len(fs) /\ s[n] = fs[n - 1]
      BY <1>3, <1>4, <2>2
    <3>2. o = Irq
      BY <3>1
    <3>3. CASE k = 1
      BY <1>11, <3>2, <3>3
    <3>4. CASE k # 1
      <4>1. k \in 2 .. Len(s) /\ k - 1 \in 1 .. n - 1
        BY <1>4, <3>1, <3>4
      <4>2. Entry(c, fs, k - 1) = Irq
        BY <3>1, <4>1 DEF Owed, NoSwiInside
      <4> QED BY <1>10, <4>1, <4>2
    <3> QED BY <3>3, <3>4
  <2> QED BY <2>1, <2>2
<1> QED BY <1>12, <1>13, <1>14 DEF Owed
LEMMA OwedDepends ==
  ASSUME NEW c, NEW d, FileOf(d) = FileOf(c), d.spsr = c.spsr, d.mode = c.mode,
         NEW fs, Owed(c, fs)
  PROVE  Owed(d, fs)
PROOF
<1>1. \A n : Resumed(d, fs, n) = Resumed(c, fs, n)
  BY DEF Resumed
<1>2. \A n : /\ Entry(d, fs, n) = Entry(c, fs, n)
             /\ Link(d, fs, n) = Link(c, fs, n)
             /\ Saved(d, fs, n) = Saved(c, fs, n)
  BY <1>1 DEF Entry, Link, Saved
<1>3. \A n : WayBack(c, fs, n) => WayBack(d, fs, n)
  BY <1>1, <1>2 DEF WayBack
<1>4. \A n : Untouched(c, fs[n]) => Untouched(d, fs[n])
  BY DEF Untouched
<1>5. \A n : NoSwiInside(c, fs, n) => NoSwiInside(d, fs, n)
  BY <1>2 DEF NoSwiInside
<1> QED BY <1>3, <1>4, <1>5 DEF Owed

LEMMA NothingOwed == \A c : Owed(c, <<>>)
BY DEF Owed

\* An interrupt taken from a mode other than Irq.
LEMMA InterruptOwes ==
  ASSUME NEW c, Good(c), c.cpsr.f = c.f, c.mode # Irq, NEW fs \in Frames, Owed(c, fs),
         NEW return \in Int
  PROVE  Owed(take_irq(c, return), <<Context(c, return)>> \o fs)
PROOF
<1>1. PICK d : d = Interrupted(c, return)
  OBVIOUS
<1>2. PICK e : e = take_irq(c, return)
  OBVIOUS
<1>3. PICK s : s = <<Context(c, return)>> \o fs
  OBVIOUS
<1>4. c \in CpuState /\ Irq \in Modes /\ "lr" \in Names
  BY DEF Good, Modes, Names
<1>5. /\ d \in CpuState /\ d.mode = c.mode /\ d.reg = c.reg
      /\ d.bank = [c.bank EXCEPT ![Irq]["lr"] = return + 1]
      /\ d.spsr = [c.spsr EXCEPT ![Irq] = c.cpsr]
      /\ e = cpu_switch_mode(d, Irq)
  <2>1. InterruptedFrom(c, return, d)
    BY <1>1, <1>4, InterruptedFields
  <2> QED BY <1>2, <2>1 DEF InterruptedFrom
<1>6. FileOf(d) = [FileOf(c) EXCEPT ![Irq]["lr"] = return + 1]
  BY <1>4, <1>5, SetBanked
<1>7. e \in CpuState /\ e.mode = Irq /\ e.spsr = d.spsr /\ Arm(e) = Arm(d)
  BY <1>4, <1>5, SwitchType, SwitchKeepsArm
<1>8. FileOf(e) = [FileOf(c) EXCEPT ![Irq]["lr"] = return + 1]
  <2>1. Arm(e).file = FileOf(e) /\ Arm(d).file = FileOf(d)
    BY DEF Arm
  <2> QED BY <1>6, <1>7, <2>1
<1>9. PICK link : link = return + 1
  OBVIOUS
<1>10. Enters(c, e, Irq, link)
  <2> DEFINE file == FileOf(c)
             live == [c.cpsr EXCEPT !.f = c.f]
  <2>1. live = c.cpsr /\ DOMAIN c.spsr = Modes
    BY <1>4 DEF CpuState, Status
  <2>2. /\ e.spsr = [c.spsr EXCEPT ![Irq] = live]
        /\ FileOf(e) = [file EXCEPT ![Irq]["lr"] = link]
    BY <1>5, <1>7, <1>8, <1>9, <2>1
  <2>3. DOMAIN file = Modes /\ \A m \in Modes : DOMAIN file[m] = {"r8", "sp", "lr"}
    BY FileDomain
  <2> HIDE DEF file, live
  <2>4. \A m \in Modes : /\ FileOf(e)[m].lr = IF m = Irq THEN link ELSE file[m].lr
                         /\ FileOf(e)[m].sp = file[m].sp
                         /\ FileOf(e)[m].r8 = file[m].r8
                         /\ e.spsr[m] = IF m = Irq THEN live ELSE c.spsr[m]
    BY <1>4, <2>1, <2>2, <2>3
  <2> QED BY <2>4 DEF Enters, file, live
<1>11. Irq \in {Irq, Svc} /\ ~(Irq = Svc) /\ link = return + (IF Irq = Irq THEN 1 ELSE 0)
  BY <1>9, ModesAssumption
<1>12. Owed(e, s)
  BY <1>3, <1>7, <1>10, <1>11, PushOwes
<1> QED BY <1>2, <1>3, <1>12

LEMMA CheckIrqOwes ==
  ASSUME NEW c, Good(c), c.cpsr.f = c.f, NEW return \in Int, NEW frames1 \in Frames,
         Owed(c, frames1), CheckIrq(c, return, Context(c, return), frames1)
  PROVE  ResumeInv'
PROOF
<1>1. CASE pending /\ c.cpsr.i = 0
  <2>1. CASE c.mode = Irq
    BY <1>1, <2>1, NothingOwed DEF CheckIrq, ResumeInv
  <2>2. CASE c.mode # Irq
    <3>1. cpu' = take_irq(c, return) /\ frames' = <<Context(c, return)>> \o frames1
      BY <1>1, <2>2 DEF CheckIrq
    <3>2. Owed(cpu', frames')
      BY <2>2, <3>1, InterruptOwes
    <3> QED BY <3>2 DEF ResumeInv
  <2> QED BY <2>1, <2>2
<1>2. CASE ~(pending /\ c.cpsr.i = 0)
  <2>1. cpu' = c /\ frames' = frames1
    BY <1>2 DEF CheckIrq
  <2> QED BY <2>1 DEF ResumeInv
<1> QED BY <1>1, <1>2

\* The instructions of the program itself.
LEMMA SoftwareOwes ==
  ASSUME ModesInv, ~Handling,
         Write \/ Exchange \/ StoreCpsr \/ StoreSpsr \/ LoadUserBank \/ LoadPcUserBank
  PROVE  ResumeInv'
PROOF
<1>0. Good(cpu) /\ frames = <<>> /\ frames \in Frames /\ \A c : Owed(c, frames)
  BY NothingOwed DEF ModesInv, Handling
<1>1. CASE Write \/ Exchange \/ StoreSpsr \/ LoadUserBank
  <2>1. frames' = frames
    BY <1>1 DEF Write, Exchange, StoreSpsr, LoadUserBank
  <2> QED BY <1>0, <2>1, NothingOwed DEF ResumeInv
<1>2. CASE StoreCpsr
  <2>1. PICK m \in Modes, i \in {0, 1}, f \in {0, 1}, mask \in {{"c"}, {"f"}, {"c", "f"}} :
          LET new == [mode |-> m, i |-> i, f |-> f]
              c == store_cpsr(cpu, new, mask)
          IN  IF "c" \in mask
              THEN CheckIrq(c, msr_return(cpu), Context(c, msr_return(cpu)), frames)
              ELSE cpu' = c /\ UNCHANGED frames
    BY <1>2, ZenonT(60) DEF StoreCpsr
  <2>2. PICK new : new = [mode |-> m, i |-> i, f |-> f]
    OBVIOUS
  <2>3. PICK c : c = store_cpsr(cpu, new, mask)
    OBVIOUS
  <2>4. new.mode \in Modes /\ new.i \in {0, 1} /\ new.f \in {0, 1}
    BY <2>2
  <2>5. Good(c) /\ c.cpsr.f = c.f
    BY <2>3, <2>4, MsrKeepsFile
  <2>6. msr_return(cpu) \in Int
    BY <1>0, FollowingType DEF Good, CpuState, msr_return
  <2>7. CASE "c" \in mask
    <3>1. CheckIrq(c, msr_return(cpu), Context(c, msr_return(cpu)), frames)
      BY <2>1, <2>2, <2>3, <2>7
    <3> QED BY <1>0, <2>5, <2>6, <3>1, CheckIrqOwes
  <2>8. CASE "c" \notin mask
    <3>1. frames' = frames
      BY <2>1, <2>8
    <3> QED BY <1>0, <3>1, NothingOwed DEF ResumeInv
  <2> QED BY <2>7, <2>8
<1>3. CASE LoadPcUserBank
  <2>1. PICK v \in Values :
          IF engine = "sh4"
          THEN LET c == spsr_restore(cpu, v) IN CheckIrq(c, v, Context(c, v), frames)
          ELSE cpu' = [cpu EXCEPT !.pc = v] /\ UNCHANGED frames
    BY <1>3 DEF LoadPcUserBank
  <2>2. PICK c : c = spsr_restore(cpu, v)
    OBVIOUS
  <2>3. v \in Int /\ cpu.mode # User
    BY <1>3, ModesAssumption DEF Values, LoadPcUserBank
  <2>4. Good(c) /\ c.cpsr.f = c.f
    BY <1>0, <2>2, <2>3, RestoreArm
  <2>5. CASE engine = "sh4"
    <3>1. CheckIrq(c, v, Context(c, v), frames)
      BY <2>1, <2>2, <2>5
    <3> QED BY <1>0, <2>3, <2>4, <3>1, CheckIrqOwes
  <2>6. CASE engine # "sh4"
    <3>1. frames' = frames
      BY <2>1, <2>6
    <3> QED BY <1>0, <3>1, NothingOwed DEF ResumeInv
  <2> QED BY <2>5, <2>6
<1> QED BY <1>1, <1>2, <1>3

\* A handler returns to the processor its frame remembers, and to what that one owed.
LEMMA PopOwes ==
  ASSUME ModesInv, ResumeInv, frames # <<>>, ~Let(frames, 1), cpu.mode # User,
         NEW address, address = cpu.reg.lr - (IF cpu.mode = Irq THEN 1 ELSE 0),
         NEW c, c = spsr_restore(cpu, address)
  PROVE  /\ address \in Int /\ Good(c) /\ c.cpsr.f = c.f /\ c.pc = address
         /\ c.mode = Head(frames).status.mode
         /\ c.mode # Irq => Context(c, address) = Head(frames)
         /\ Owed(c, Tail(frames)) /\ Tail(frames) \in Frames
PROOF
<1> DEFINE rest == Tail(frames)
<1>0. /\ Good(cpu) /\ cpu \in CpuState /\ cpu.mode \in Modes /\ cpu.reg.lr \in Int
      /\ frames \in Seq(Frame) /\ frames \in Frames
  BY DEF ModesInv, Good, CpuState, Registers, Frames
<1>1. /\ 1 \in 1 .. Len(frames) /\ Len(frames) \in Nat /\ Head(frames) = frames[1]
      /\ rest \in Frames /\ Len(rest) = Len(frames) - 1
      /\ \A n \in 1 .. Len(rest) : rest[n] = frames[n + 1] /\ n + 1 \in 1 .. Len(frames)
  BY <1>0 DEF Frames
<1> HIDE DEF rest
<1>2. PICK frame : frame = frames[1]
  OBVIOUS
<1>3. /\ frame \in Frame /\ frame.kept = <<>> /\ frame.status \in Status
      /\ frame.status.mode \in Modes
  BY <1>0, <1>1, <1>2, FrameType DEF Let
<1>4. /\ WayBack(cpu, frames, 1) /\ Untouched(cpu, frame)
      /\ Resumed(cpu, frames, 1) = cpu.mode /\ Entry(cpu, frames, 1) = cpu.mode
      /\ Link(cpu, frames, 1) = FileOf(cpu)[cpu.mode].lr
      /\ Saved(cpu, frames, 1) = cpu.spsr[cpu.mode]
  BY <1>1, <1>2 DEF ResumeInv, Owed, Resumed, Entry, Link, Saved
<1>5. FileOf(cpu)[cpu.mode].lr = cpu.reg.lr
  BY <1>0, InUse
<1>6. cpu.spsr[cpu.mode] = frame.status /\ address = frame.pc /\ address \in Int
  <2>1. cpu.reg.lr = frame.pc + (IF cpu.mode = Irq THEN 1 ELSE 0)
    BY <1>2, <1>4, <1>5 DEF WayBack
  <2>2. frame.pc \in Int
    BY <1>3 DEF Frame
  <2>3. address = frame.pc /\ address \in Int
    BY <2>1, <2>2
  <2> QED BY <1>2, <1>4, <2>3 DEF WayBack
<1>7. /\ Good(c) /\ c.cpsr.f = c.f /\ c.pc = address
      /\ Arm(c) = [file |-> FileOf(cpu), status |-> frame.status, saved |-> cpu.spsr,
                   pc |-> address]
  BY <1>0, <1>6, RestoreArm
<1>8. /\ FileOf(c) = FileOf(cpu) /\ c.spsr = cpu.spsr
      /\ [c.cpsr EXCEPT !.f = c.f] = frame.status
  BY <1>7 DEF Arm
<1>9. c \in CpuState /\ c.mode = frame.status.mode
  <2>1. c \in CpuState /\ c.mode = c.cpsr.mode
    BY <1>7 DEF Good
  <2>2. [c.cpsr EXCEPT !.f = c.f].mode = c.cpsr.mode
    BY <2>1 DEF CpuState, Status
  <2> QED BY <1>8, <2>1, <2>2
<1>10. c.mode # Irq => Context(c, address) = frame
  <2> SUFFICES ASSUME c.mode # Irq PROVE Context(c, address) = frame
    OBVIOUS
  <2>1. /\ frame.reg.r8 = FileOf(c)[Banked!Owner(c.mode, "r8")].r8
        /\ frame.reg.sp = FileOf(c)[c.mode].sp /\ frame.reg.lr = FileOf(c)[c.mode].lr
    BY <1>4, <1>8, <1>9 DEF Untouched
  <2>2. frame.reg.r8 = c.reg.r8 /\ frame.reg.sp = c.reg.sp /\ frame.reg.lr = c.reg.lr
    BY <1>9, <2>1, InUse
  <2>3. frame.reg \in Registers /\ c.reg \in Registers
    BY <1>3, <1>9 DEF Frame, CpuState
  <2>4. frame.reg = c.reg
    BY <2>2, <2>3 DEF Registers
  <2> QED BY <1>3, <1>6, <1>8, <2>4 DEF Context, Frame
<1>11. \A n \in 1 .. Len(rest) :
         /\ Resumed(c, rest, n) = Resumed(cpu, frames, n + 1)
         /\ Let(rest, n) <=> Let(frames, n + 1)
  <2> SUFFICES ASSUME NEW n \in 1 .. Len(rest)
               PROVE  /\ Resumed(c, rest, n) = Resumed(cpu, frames, n + 1)
                      /\ Let(rest, n) <=> Let(frames, n + 1)
    OBVIOUS
  <2>1. rest[n] = frames[n + 1] /\ n + 1 # 1 /\ (n + 1) - 1 = n
    BY <1>1
  <2>2. Let(rest, n) <=> Let(frames, n + 1)
    BY <2>1 DEF Let
  <2>3. CASE n = 1
    <3>1. Resumed(c, rest, n) = c.mode
      BY <2>3 DEF Resumed
    <3>2. Resumed(cpu, frames, n + 1) = frames[n].status.mode
      BY <2>1 DEF Resumed
    <3>3. frames[n] = frame
      BY <1>2, <2>3
    <3> QED BY <1>9, <2>2, <3>1, <3>2, <3>3
  <2>4. CASE n # 1
    <3>1. n - 1 \in 1 .. Len(rest) /\ (n - 1) + 1 = n
      BY <1>1, <2>4
    <3>2. rest[n - 1] = frames[n]
      BY <1>1, <3>1
    <3>3. Resumed(cpu, frames, n + 1) = frames[n].status.mode
      BY <2>1 DEF Resumed
    <3> QED BY <2>2, <2>4, <3>2, <3>3 DEF Resumed
  <2> QED BY <2>2, <2>3, <2>4
<1>12. \A n \in 1 .. Len(rest) :
         /\ Entry(c, rest, n) = Entry(cpu, frames, n + 1)
         /\ Link(c, rest, n) = Link(cpu, frames, n + 1)
         /\ Saved(c, rest, n) = Saved(cpu, frames, n + 1)
  BY <1>1, <1>8, <1>11 DEF Entry, Link, Saved
<1>13. ASSUME NEW n \in 1 .. Len(rest)
       PROVE  WayBack(c, rest, n) /\ Untouched(c, rest[n]) /\ NoSwiInside(c, rest, n)
  <2>1. /\ rest[n] = frames[n + 1] /\ n + 1 \in 1 .. Len(frames) /\ n + 1 > 1
        /\ WayBack(cpu, frames, n + 1) /\ Untouched(cpu, frames[n + 1])
        /\ NoSwiInside(cpu, frames, n + 1)
    BY <1>1 DEF ResumeInv, Owed
  <2>2. WayBack(c, rest, n)
    BY <1>11, <1>12, <2>1 DEF WayBack
  <2>3. Untouched(c, rest[n])
    BY <1>8, <2>1 DEF Untouched
  <2>4. NoSwiInside(c, rest, n)
    <3> SUFFICES ASSUME rest[n].status.mode = Svc, NEW k \in 1 .. n
                 PROVE  Entry(c, rest, k) = Irq
      BY DEF NoSwiInside
    <3>1. k \in 1 .. Len(rest) /\ k + 1 \in 1 .. n + 1
      BY <1>1
    <3>2. Entry(cpu, frames, k + 1) = Irq
      BY <2>1, <3>1 DEF NoSwiInside
    <3> QED BY <1>12, <3>1, <3>2
  <2> QED BY <2>2, <2>3, <2>4
<1>14. Owed(c, rest)
  BY <1>13 DEF Owed
<1> QED BY <1>1, <1>2, <1>6, <1>7, <1>9, <1>10, <1>14 DEF rest
LEMMA ReturnOwes ==
  ASSUME ModesInv, ResumeInv, Return
  PROVE  ResumeInv'
PROOF
<1>1. PICK ahead : ahead = IF cpu.mode = Irq /\ Handling THEN 1 ELSE 0
  OBVIOUS
<1>2. PICK address : address = cpu.reg.lr - ahead
  OBVIOUS
<1>3. PICK c : c = spsr_restore(cpu, address)
  OBVIOUS
<1>4. PICK rest : rest = IF Handling THEN Tail(frames) ELSE frames
  OBVIOUS
<1>5. cpu.mode # User /\ CheckIrq(c, address, Context(c, address), rest)
  BY <1>1, <1>2, <1>3, <1>4 DEF Return
<1>6. CASE Handling
  <2>1. frames # <<>> /\ ~Let(frames, 1)
    BY <1>6 DEF Return, Software, Opened, Handling, Let
  <2>2. address = cpu.reg.lr - (IF cpu.mode = Irq THEN 1 ELSE 0) /\ rest = Tail(frames)
    BY <1>1, <1>2, <1>4, <1>6
  <2>3. /\ address \in Int /\ Good(c) /\ c.cpsr.f = c.f
        /\ Owed(c, rest) /\ rest \in Frames
    BY <1>3, <1>5, <2>1, <2>2, PopOwes
  <2> QED BY <1>5, <2>3, CheckIrqOwes
<1>7. CASE ~Handling
  <2>1. rest = <<>> /\ rest \in Frames /\ Owed(c, rest)
    BY <1>4, <1>7, NothingOwed DEF Handling, ModesInv
  <2>2. address \in Int /\ Good(cpu)
    BY <1>1, <1>2 DEF ModesInv, Good, CpuState, Registers
  <2>3. Good(c) /\ c.cpsr.f = c.f
    BY <1>3, <1>5, <2>2, RestoreArm
  <2> QED BY <1>5, <2>1, <2>2, <2>3, CheckIrqOwes
<1> QED BY <1>6, <1>7

\* The processor after a software interrupt from a mode other than Svc.
LEMMA SwiArm ==
  ASSUME NEW c \in CpuState, c.mode # Svc, NEW d, d = execute_swi(c)
  PROVE  d.mode = Svc /\ Enters(c, d, Svc, Following(c.pc))
PROOF
<1> DEFINE live == [c.cpsr EXCEPT !.f = c.f]
           b == collapse_flags(c)
           status == [b.cpsr EXCEPT !.mode = Svc, !.t = 0]
           e == [b EXCEPT !.bank[Svc].lr = Following(c.pc), !.spsr[Svc] = b.cpsr,
                          !.cpsr = [@ EXCEPT !.mode = Svc, !.t = 0], !.pc = SwiVector]
<1>0. /\ Svc \in Modes /\ "lr" \in Names /\ SwiVector \in Int /\ Following(c.pc) \in Int
  BY FollowingType, ModesAssumption DEF CpuState, Modes, Names, SwiVector
<1>1. /\ b \in CpuState /\ b.cpsr = live /\ b.mode = c.mode /\ b.reg = c.reg
      /\ b.bank = c.bank /\ b.spsr = c.spsr
  BY CollapseType DEF collapse_flags, CpuState
<1>2. d = cpu_switch_mode(e, Svc)
  BY DEF execute_swi
<1> HIDE DEF b, live
<1>3. status \in Status
  BY <1>0, <1>1 DEF CpuState, Status
<1>4. e \in CpuState
  <2>1. [b.bank EXCEPT ![Svc].lr = Following(c.pc)] \in [Modes -> Registers]
    BY <1>0, <1>1 DEF CpuState, Registers
  <2>2. [b.spsr EXCEPT ![Svc] = b.cpsr] \in [Modes -> Status]
    BY <1>0, <1>1 DEF CpuState
  <2> QED BY <1>0, <1>1, <1>3, <2>1, <2>2 DEF CpuState
<1>5. /\ e.mode = c.mode /\ e.reg = c.reg
      /\ e.bank = [c.bank EXCEPT ![Svc]["lr"] = Following(c.pc)]
      /\ e.spsr = [c.spsr EXCEPT ![Svc] = live]
  BY <1>1 DEF CpuState
<1> HIDE DEF e, status
<1>6. FileOf(e) = [FileOf(c) EXCEPT ![Svc]["lr"] = Following(c.pc)]
  <2>1. /\ e.mode = c.mode /\ e.reg = c.reg
        /\ e.bank = [c.bank EXCEPT ![Svc]["lr"] = Following(c.pc)]
    BY <1>5
  <2> QED BY <1>0, <1>4, <2>1, SetBanked
<1>7. d \in CpuState /\ d.mode = Svc /\ d.spsr = e.spsr /\ Arm(d) = Arm(e)
  BY <1>0, <1>2, <1>4, SwitchType, SwitchKeepsArm
<1>8. FileOf(d) = Arm(d).file /\ FileOf(e) = Arm(e).file
  BY DEF Arm
<1> DEFINE file == FileOf(c)
<1>9. /\ d.spsr = [c.spsr EXCEPT ![Svc] = live] /\ DOMAIN c.spsr = Modes
      /\ FileOf(d) = [file EXCEPT ![Svc]["lr"] = Following(c.pc)]
  BY <1>5, <1>6, <1>7, <1>8 DEF CpuState
<1>10. DOMAIN file = Modes /\ \A m \in Modes : DOMAIN file[m] = {"r8", "sp", "lr"}
  BY FileDomain
<1> HIDE DEF file
<1>11. \A m \in Modes : /\ FileOf(d)[m].lr = IF m = Svc THEN Following(c.pc) ELSE file[m].lr
                        /\ FileOf(d)[m].sp = file[m].sp
                        /\ FileOf(d)[m].r8 = file[m].r8
                        /\ d.spsr[m] = IF m = Svc THEN live ELSE c.spsr[m]
  BY <1>0, <1>9, <1>10
<1> QED BY <1>7, <1>11 DEF Enters, file, live

LEMMA SwiOwes ==
  ASSUME ModesInv, ResumeInv, SoftwareInterrupt
  PROVE  ResumeInv'
PROOF
<1>0. /\ Good(cpu) /\ cpu \in CpuState /\ frames \in Frames /\ Owed(cpu, frames)
      /\ cpu' = execute_swi(cpu)
      /\ frames' = Pushed(Svc, Context(cpu, Following(cpu.pc)))
  BY DEF ModesInv, Good, ResumeInv, SoftwareInterrupt
<1>1. CASE cpu.mode = Svc
  BY <1>0, <1>1, NothingOwed DEF Pushed, ResumeInv
<1>2. CASE cpu.mode # Svc
  <2>1. PICK pc : pc = Following(cpu.pc)
    OBVIOUS
  <2>2. pc \in Int
    BY <1>0, <2>1, FollowingType DEF CpuState
  <2>3. cpu'.mode = Svc /\ Enters(cpu, cpu', Svc, pc)
    BY <1>0, <1>2, <2>1, SwiArm
  <2>4. frames' = <<Context(cpu, pc)>> \o frames
    BY <1>0, <1>2, <2>1 DEF Pushed
  <2>5. /\ \A n \in 1 .. Len(frames) : frames[n].status.mode # Svc
        /\ frames # <<>> => Let(frames, 1)
    <3>1. CASE Software
      <4>1. frames = <<>>
        BY <3>1 DEF Software, Handling
      <4> QED BY <4>1
    <3>2. CASE Opened /\ \A n \in DOMAIN frames : frames[n].status.mode # Svc
      <4>1. DOMAIN frames = 1 .. Len(frames)
        BY <1>0 DEF Frames
      <4>2. Let(frames, 1)
        BY <3>2 DEF Opened, Handling, Let
      <4> QED BY <3>2, <4>1, <4>2
    <3> QED BY <3>1, <3>2 DEF SoftwareInterrupt
  <2>6. Svc \in {Irq, Svc} /\ pc = pc + (IF Svc = Irq THEN 1 ELSE 0)
    BY <2>2, ModesAssumption
  <2>7. Owed(cpu', frames')
    BY <1>0, <1>2, <2>2, <2>3, <2>4, <2>5, <2>6, PushOwes
  <2> QED BY <2>7 DEF ResumeInv
<1> QED BY <1>1, <1>2

LEMMA RaiseOwes ==
  ASSUME ModesInv, ResumeInv, Raise
  PROVE  ResumeInv'
PROOF
<1>0. /\ Good(cpu) /\ cpu \in CpuState /\ frames \in Frames /\ Owed(cpu, frames)
      /\ cpu.pc \in Int
  BY DEF ModesInv, Good, ResumeInv, CpuState
<1>1. CASE cpu.cpsr.i # 0
  BY <1>1 DEF Raise, ResumeInv
<1>2. CASE cpu.cpsr.i = 0 /\ cpu.mode = Irq
  BY <1>2, NothingOwed DEF Raise, Pushed, ResumeInv
<1>3. CASE cpu.cpsr.i = 0 /\ cpu.mode # Irq
  <2>1. PICK c : c = collapse_flags(cpu)
    OBVIOUS
  <2>2. /\ cpu' = take_irq(c, cpu.pc)
        /\ frames' = <<Context(cpu, cpu.pc)>> \o frames
    BY <1>3, <2>1 DEF Raise, Pushed
  <2>3. /\ c \in CpuState /\ c.cpsr = [cpu.cpsr EXCEPT !.f = cpu.f] /\ c.f = cpu.f
        /\ c.mode = cpu.mode /\ c.reg = cpu.reg /\ c.bank = cpu.bank /\ c.spsr = cpu.spsr
    BY <1>0, <2>1, CollapseType DEF collapse_flags, CpuState
  <2>4. Good(c) /\ c.cpsr.f = c.f /\ [c.cpsr EXCEPT !.f = c.f] = [cpu.cpsr EXCEPT !.f = cpu.f]
    BY <1>0, <2>3 DEF Good, CpuState, Status
  <2>5. FileOf(c) = FileOf(cpu)
    BY <2>3, FileDepends
  <2>6. Owed(c, frames)
    BY <1>0, <2>3, <2>5, OwedDepends
  <2>7. Context(c, cpu.pc) = Context(cpu, cpu.pc)
    BY <2>3, <2>4 DEF Context
  <2>8. c.mode # Irq
    BY <1>3, <2>3
  <2>9. Owed(take_irq(c, cpu.pc), <<Context(c, cpu.pc)>> \o frames)
    BY <1>0, <2>4, <2>6, <2>8, InterruptOwes
  <2> QED BY <2>2, <2>7, <2>9 DEF ResumeInv
<1> QED BY <1>1, <1>2, <1>3

\* Letting others in: the handler's way back moves from the processor to its frame.
LEMMA OpenOwes ==
  ASSUME ModesInv, ResumeInv, Open
  PROVE  ResumeInv'
PROOF
<1>1. PICK kept : kept = [mode |-> cpu.mode, lr |-> cpu.reg.lr, spsr |-> cpu.spsr[cpu.mode]]
  OBVIOUS
<1>2. PICK new : new = [mode |-> User, i |-> 0, f |-> 0]
  OBVIOUS
<1>3. PICK c : c = store_cpsr(cpu, new, {"c"})
  OBVIOUS
<1>4. PICK opened : opened = [frames EXCEPT ![1].kept = <<kept>>]
  OBVIOUS
<1>5. /\ frames # <<>> /\ ~Let(frames, 1)
      /\ CheckIrq(c, msr_return(cpu), Context(c, msr_return(cpu)), opened)
  BY <1>1, <1>2, <1>3, <1>4 DEF Open, Opened, Handling, Let
<1>6. /\ Good(cpu) /\ cpu \in CpuState /\ cpu.mode \in Modes /\ frames \in Seq(Frame)
      /\ frames \in Frames /\ msr_return(cpu) \in Int /\ Owed(cpu, frames)
      /\ new.mode \in Modes /\ new.i \in {0, 1} /\ new.f \in {0, 1}
  BY <1>2, FollowingType
     DEF ModesInv, Good, CpuState, msr_return, Frames, Modes, ResumeInv
<1>7. /\ Good(c) /\ c.cpsr.f = c.f /\ c.spsr = cpu.spsr /\ FileOf(c) = FileOf(cpu)
  BY <1>3, <1>6, MsrKeepsFile
<1>8. kept \in Kept /\ kept.mode = cpu.mode /\ kept.lr = cpu.reg.lr
      /\ kept.spsr = cpu.spsr[cpu.mode]
  BY <1>1, <1>6 DEF CpuState, Registers, Kept
<1>9. 1 \in 1 .. Len(frames) /\ frames[1] \in Frame /\ Len(frames) \in Nat
  BY <1>5, <1>6
<1>10. PICK top : top = [frames[1] EXCEPT !.kept = <<kept>>]
  OBVIOUS
<1>11. /\ top \in Frame /\ top.kept = <<kept>> /\ top.pc = frames[1].pc
       /\ top.status = frames[1].status /\ top.reg = frames[1].reg
  <2>1. <<kept>> \in Seq(Kept)
    BY <1>8
  <2> QED BY <1>9, <1>10, <2>1 DEF Frame
<1>12. /\ opened \in Frames /\ Len(opened) = Len(frames) /\ opened[1] = top
       /\ \A n \in 2 .. Len(frames) : opened[n] = frames[n]
  <2>1. opened = [frames EXCEPT ![1] = top]
    BY <1>4, <1>10
  <2> QED BY <1>6, <1>9, <1>11, <2>1 DEF Frames
<1>13. \A n \in 1 .. Len(frames) : /\ opened[n].status = frames[n].status
                                   /\ opened[n].pc = frames[n].pc
                                   /\ opened[n].reg = frames[n].reg
  BY <1>9, <1>11, <1>12
<1>14. \A n \in 2 .. Len(frames) : /\ Resumed(c, opened, n) = Resumed(cpu, frames, n)
                                   /\ Let(opened, n) <=> Let(frames, n)
  <2> SUFFICES ASSUME NEW n \in 2 .. Len(frames)
               PROVE  /\ Resumed(c, opened, n) = Resumed(cpu, frames, n)
                      /\ Let(opened, n) <=> Let(frames, n)
    OBVIOUS
  <2>1. n # 1 /\ n - 1 \in 1 .. Len(frames)
    BY <1>9
  <2> QED BY <1>12, <1>13, <2>1 DEF Resumed, Let
<1>15. \A n \in 2 .. Len(frames) : /\ Entry(c, opened, n) = Entry(cpu, frames, n)
                                   /\ Link(c, opened, n) = Link(cpu, frames, n)
                                   /\ Saved(c, opened, n) = Saved(cpu, frames, n)
  BY <1>7, <1>12, <1>14 DEF Entry, Link, Saved
<1>16. /\ Let(opened, 1) /\ Entry(c, opened, 1) = Entry(cpu, frames, 1)
       /\ Link(c, opened, 1) = Link(cpu, frames, 1)
       /\ Saved(c, opened, 1) = Saved(cpu, frames, 1)
  <2>1. Let(opened, 1) /\ opened[1].kept[1] = kept
    BY <1>11, <1>12 DEF Let
  <2>2. Resumed(cpu, frames, 1) = cpu.mode
    BY DEF Resumed
  <2>3. FileOf(cpu)[cpu.mode].lr = cpu.reg.lr
    BY <1>6, InUse
  <2> QED BY <1>5, <1>8, <2>1, <2>2, <2>3 DEF Entry, Link, Saved
<1>17. ASSUME NEW n \in 1 .. Len(frames)
       PROVE  /\ WayBack(c, opened, n) /\ Untouched(c, opened[n])
              /\ NoSwiInside(c, opened, n)
  <2>1. WayBack(cpu, frames, n) /\ Untouched(cpu, frames[n]) /\ NoSwiInside(cpu, frames, n)
    BY <1>6 DEF Owed
  <2>2. \A k \in 1 .. n : Entry(c, opened, k) = Entry(cpu, frames, k)
    BY <1>9, <1>15, <1>16
  <2>3. WayBack(c, opened, n)
    <3>1. CASE n = 1
      BY <1>13, <1>16, <2>1, <3>1 DEF WayBack
    <3>2. CASE n # 1
      <4>1. n \in 2 .. Len(frames)
        BY <1>9, <3>2
      <4> QED BY <1>13, <1>14, <1>15, <2>1, <4>1 DEF WayBack
    <3> QED BY <3>1, <3>2
  <2>4. Untouched(c, opened[n])
    BY <1>7, <1>13, <2>1 DEF Untouched
  <2>5. NoSwiInside(c, opened, n)
    BY <1>13, <2>1, <2>2 DEF NoSwiInside
  <2> QED BY <2>3, <2>4, <2>5
<1>18. Owed(c, opened)
  BY <1>12, <1>17 DEF Owed
<1> QED BY <1>5, <1>6, <1>7, <1>12, <1>18, CheckIrqOwes
\* Back in its mode, a handler holds its way back again, and no other handler entered
\* from that mode loses its own.
LEMMA CloseOwes ==
  ASSUME ModesInv, ResumeInv, Close
  PROVE  ResumeInv'
PROOF
<1>1. PICK kept : kept = Head(frames).kept[1]
  OBVIOUS
<1>2. PICK new : new = [mode |-> kept.mode, i |-> 1, f |-> 0]
  OBVIOUS
<1>3. PICK c : c = store_cpsr(cpu, new, {"c"})
  OBVIOUS
<1>4. /\ frames # <<>> /\ Let(frames, 1)
      /\ cpu' = [c EXCEPT !.reg.lr = kept.lr, !.spsr[kept.mode] = kept.spsr]
      /\ frames' = [frames EXCEPT ![1].kept = <<>>]
  BY <1>1, <1>2, <1>3 DEF Close, Opened, Handling, Let
<1>5. /\ Good(cpu) /\ cpu \in CpuState /\ frames \in Seq(Frame) /\ frames \in Frames
      /\ Owed(cpu, frames) /\ Irq # Svc
  BY ModesAssumption DEF ModesInv, Good, Frames, ResumeInv
<1>6. 1 \in 1 .. Len(frames) /\ frames[1] \in Frame /\ Len(frames) \in Nat
  BY <1>4, <1>5
<1>7. kept \in Kept /\ kept = frames[1].kept[1]
  BY <1>1, <1>4, <1>5, <1>6, FrameType
<1>8. /\ kept.mode \in Modes /\ kept.lr \in Int /\ kept.spsr \in Status
      /\ new.mode = kept.mode /\ new.mode \in Modes /\ new.i \in {0, 1} /\ new.f \in {0, 1}
  BY <1>2, <1>7 DEF Kept
<1>9. Good(c) /\ c.cpsr.f = c.f /\ c.spsr = cpu.spsr /\ FileOf(c) = FileOf(cpu)
  BY <1>3, <1>8, MsrKeepsFile
<1>10. c \in CpuState /\ c.mode = kept.mode
  <2>1. "c" \in {"c"} => c.mode = new.mode
    BY <1>3, <1>8, MsrKeepsFile
  <2> QED BY <1>8, <1>9, <2>1 DEF Good
<1>11. /\ cpu' \in CpuState /\ cpu'.mode = kept.mode /\ cpu'.bank = c.bank
       /\ cpu'.reg = [c.reg EXCEPT !["lr"] = kept.lr]
       /\ cpu'.spsr = [cpu.spsr EXCEPT ![kept.mode] = kept.spsr]
  BY <1>4, <1>8, <1>9, <1>10 DEF CpuState, Registers
<1>12. \A m \in Modes : /\ FileOf(cpu')[m].lr = IF m = kept.mode THEN kept.lr
                                                ELSE FileOf(cpu)[m].lr
                        /\ FileOf(cpu')[m].sp = FileOf(cpu)[m].sp
                        /\ FileOf(cpu')[m].r8 = FileOf(cpu)[m].r8
                        /\ cpu'.spsr[m] = IF m = kept.mode THEN kept.spsr ELSE cpu.spsr[m]
  <2> DEFINE file == FileOf(cpu)
  <2>1. "lr" \in Names /\ Banked!Owner(c.mode, "lr") = kept.mode
    BY <1>10 DEF Names, Banked!Owner
  <2>2. FileOf(cpu') = [FileOf(c) EXCEPT ![Banked!Owner(c.mode, "lr")]["lr"] = kept.lr]
    BY <1>10, <1>11, <2>1, SetInUse
  <2>3. FileOf(cpu') = [file EXCEPT ![kept.mode]["lr"] = kept.lr]
    BY <1>9, <2>1, <2>2
  <2>4. /\ DOMAIN file = Modes /\ \A m \in Modes : DOMAIN file[m] = {"r8", "sp", "lr"}
        /\ DOMAIN cpu.spsr = Modes
    BY <1>5, FileDomain DEF CpuState
  <2> HIDE DEF file
  <2>5. \A m \in Modes : /\ FileOf(cpu')[m].lr = IF m = kept.mode THEN kept.lr ELSE file[m].lr
                         /\ FileOf(cpu')[m].sp = file[m].sp
                         /\ FileOf(cpu')[m].r8 = file[m].r8
                         /\ cpu'.spsr[m] = IF m = kept.mode THEN kept.spsr ELSE cpu.spsr[m]
    BY <1>8, <1>11, <2>3, <2>4
  <2> QED BY <2>5 DEF file
<1>13. PICK top : top = [frames[1] EXCEPT !.kept = <<>>]
  OBVIOUS
<1>14. /\ top.kept = <<>> /\ top.pc = frames[1].pc
       /\ top.status = frames[1].status /\ top.reg = frames[1].reg
  BY <1>6, <1>13 DEF Frame
<1>15. PICK fs : fs = frames'
  OBVIOUS
<1>16. /\ Len(fs) = Len(frames) /\ fs[1] = top
       /\ \A n \in 2 .. Len(frames) : fs[n] = frames[n]
  <2>1. fs = [frames EXCEPT ![1] = top]
    BY <1>4, <1>13, <1>15
  <2> QED BY <1>5, <1>6, <2>1
<1>17. \A n \in 1 .. Len(frames) : /\ fs[n].status = frames[n].status
                                   /\ fs[n].pc = frames[n].pc
                                   /\ fs[n].reg = frames[n].reg
  BY <1>6, <1>14, <1>16
<1>18. PICK d : d = cpu'
  OBVIOUS
<1>19. /\ Entry(cpu, frames, 1) = kept.mode /\ Link(cpu, frames, 1) = kept.lr
       /\ Saved(cpu, frames, 1) = kept.spsr
  BY <1>4, <1>7 DEF Entry, Link, Saved
<1>20. /\ ~Let(fs, 1) /\ Entry(d, fs, 1) = kept.mode /\ Link(d, fs, 1) = kept.lr
       /\ Saved(d, fs, 1) = kept.spsr
  <2>1. ~Let(fs, 1) /\ Resumed(d, fs, 1) = kept.mode
    BY <1>11, <1>14, <1>16, <1>18 DEF Let, Resumed
  <2> QED BY <1>8, <1>12, <1>18, <2>1 DEF Entry, Link, Saved
<1>21. \A n \in 2 .. Len(frames) : /\ Resumed(d, fs, n) = Resumed(cpu, frames, n)
                                   /\ Let(fs, n) <=> Let(frames, n)
  <2> SUFFICES ASSUME NEW n \in 2 .. Len(frames)
               PROVE  /\ Resumed(d, fs, n) = Resumed(cpu, frames, n)
                      /\ Let(fs, n) <=> Let(frames, n)
    OBVIOUS
  <2>1. n # 1 /\ n - 1 \in 1 .. Len(frames)
    BY <1>6
  <2> QED BY <1>16, <1>17, <2>1 DEF Resumed, Let
\* Where Svc mode was interrupted, the handler that comes back is an interrupt's.
<1>22. ASSUME NEW n \in 1 .. Len(frames), frames[n].status.mode = Svc
       PROVE  kept.mode = Irq
  BY <1>5, <1>6, <1>19, <1>22 DEF Owed, NoSwiInside
<1>23. \A n \in 2 .. Len(frames) : /\ Entry(d, fs, n) = Entry(cpu, frames, n)
                                   /\ Link(d, fs, n) = Link(cpu, frames, n)
                                   /\ Saved(d, fs, n) = Saved(cpu, frames, n)
  <2> SUFFICES ASSUME NEW n \in 2 .. Len(frames)
               PROVE  /\ Entry(d, fs, n) = Entry(cpu, frames, n)
                      /\ Link(d, fs, n) = Link(cpu, frames, n)
                      /\ Saved(d, fs, n) = Saved(cpu, frames, n)
    OBVIOUS
  <2>1. CASE Let(frames, n)
    BY <1>16, <1>21, <2>1 DEF Entry, Link, Saved
  <2>2. CASE ~Let(frames, n)
    <3>1. n \in 1 .. Len(frames) /\ n > 1 /\ n # 1 /\ n - 1 \in 1 .. Len(frames)
      BY <1>6
    <3>2. Resumed(cpu, frames, n) = Svc
      BY <1>5, <2>2, <3>1 DEF Owed, WayBack
    <3>3. frames[n - 1].status.mode = Svc
      BY <3>1, <3>2 DEF Resumed
    <3>4. kept.mode = Irq
      BY <1>22, <3>1, <3>3
    <3>5. Svc \in Modes /\ Svc # kept.mode
      BY <1>5, <3>4 DEF Modes
    <3> QED BY <1>12, <1>18, <1>21, <2>2, <3>2, <3>5 DEF Entry, Link, Saved
  <2> QED BY <2>1, <2>2
<1>24. ASSUME NEW n \in 1 .. Len(frames)
       PROVE  WayBack(d, fs, n) /\ Untouched(d, fs[n]) /\ NoSwiInside(d, fs, n)
  <2>1. WayBack(cpu, frames, n) /\ Untouched(cpu, frames[n]) /\ NoSwiInside(cpu, frames, n)
    BY <1>5 DEF Owed
  <2>2. \A k \in 1 .. n : Entry(d, fs, k) = Entry(cpu, frames, k)
    BY <1>6, <1>19, <1>20, <1>23
  <2>3. WayBack(d, fs, n)
    <3>1. CASE n = 1
      BY <1>17, <1>19, <1>20, <2>1, <3>1 DEF WayBack
    <3>2. CASE n # 1
      <4>1. n \in 2 .. Len(frames)
        BY <1>6, <3>2
      <4> QED BY <1>17, <1>21, <1>23, <2>1, <4>1 DEF WayBack
    <3> QED BY <3>1, <3>2
  <2>4. Untouched(d, fs[n])
    <3>1. frames[n].status.mode \in Modes /\ Banked!Owner(frames[n].status.mode, "r8") \in Modes
      BY <1>5, FrameType, OwnerType
    <3>2. frames[n].status.mode # Irq => frames[n].status.mode # kept.mode
      <4>1. kept.mode \in {Irq, Svc}
        BY <1>5, <1>6, <1>19 DEF Owed, WayBack
      <4> QED BY <1>22, <4>1
    <3>3. fs[n].status = frames[n].status /\ fs[n].reg = frames[n].reg
      BY <1>17
    <3> QED BY <1>12, <1>18, <2>1, <3>1, <3>2, <3>3 DEF Untouched
  <2>5. NoSwiInside(d, fs, n)
    BY <1>17, <2>1, <2>2 DEF NoSwiInside
  <2> QED BY <2>3, <2>4, <2>5
<1>25. Owed(d, fs)
  BY <1>16, <1>24 DEF Owed
<1> QED BY <1>15, <1>18, <1>25 DEF ResumeInv

LEMMA StepOwes == ModesInv /\ ResumeInv /\ [Next]_vars => ResumeInv'
PROOF
<1> SUFFICES ASSUME ModesInv, ResumeInv, [Next]_vars PROVE ResumeInv'
  OBVIOUS
<1>1. CASE Write \/ Exchange \/ StoreCpsr \/ StoreSpsr \/ LoadUserBank \/ LoadPcUserBank
  <2>1. ~Handling
    BY <1>1 DEF Write, Exchange, StoreCpsr, StoreSpsr, LoadUserBank, LoadPcUserBank, Software
  <2> QED BY <1>1, <2>1, SoftwareOwes
<1>2. CASE Return
  BY <1>2, ReturnOwes
<1>3. CASE SoftwareInterrupt
  BY <1>3, SwiOwes
<1>4. CASE Open
  BY <1>4, OpenOwes
<1>5. CASE Close
  BY <1>5, CloseOwes
<1>6. CASE Raise
  BY <1>6, RaiseOwes
<1>7. CASE Acknowledge
  BY <1>7 DEF Acknowledge, ResumeInv
<1>8. CASE UNCHANGED vars
  BY <1>8 DEF vars, ResumeInv
<1> QED BY <1>1, <1>2, <1>3, <1>4, <1>5, <1>6, <1>7, <1>8 DEF Next

\* Every handler that returns goes back to the program counter, registers, flags, mode
\* and masks of what it interrupted, however it was itself interrupted (the exception
\* returns of cpu.c, x86_emit.h and sh4_helpers.c), or the next interrupt keeps them.
THEOREM HandlersResume == Spec => ResumesWhereInterrupted
PROOF
<1>1. Init => ResumeInv
  BY NothingOwed DEF Init, ResumeInv
<1>2. ModesInv /\ ResumeInv /\ [Next]_vars =>
        [Return /\ Handling =>
           \/ Context(cpu', cpu'.pc) = Head(frames)
           \/ frames' # <<>> /\ Head(frames') = Head(frames)
           \/ Head(frames).status.mode = Irq]_vars
  <2> SUFFICES ASSUME ModesInv, ResumeInv, Return, Handling,
                      Head(frames).status.mode # Irq
               PROVE  \/ Context(cpu', cpu'.pc) = Head(frames)
                      \/ frames' # <<>> /\ Head(frames') = Head(frames)
    OBVIOUS
  <2>1. PICK address : address = cpu.reg.lr - (IF cpu.mode = Irq THEN 1 ELSE 0)
    OBVIOUS
  <2>2. PICK c : c = spsr_restore(cpu, address)
    OBVIOUS
  <2>3. frames # <<>> /\ ~Let(frames, 1) /\ cpu.mode # User
    BY DEF Return, Software, Opened, Handling, Let
  <2>4. CheckIrq(c, address, Context(c, address), Tail(frames))
    BY <2>1, <2>2 DEF Return
  <2>5. /\ c.pc = address /\ c.mode # Irq /\ Context(c, address) = Head(frames)
        /\ Tail(frames) \in Frames /\ Context(c, address) \in Frame
    <3>1. /\ address \in Int /\ Good(c) /\ c.pc = address
          /\ c.mode = Head(frames).status.mode
          /\ c.mode # Irq => Context(c, address) = Head(frames)
          /\ Tail(frames) \in Frames
      BY <2>1, <2>2, <2>3, PopOwes
    <3> QED BY <3>1, ContextType DEF Good
  <2>6. CASE pending /\ c.cpsr.i = 0
    <3>1. frames' = <<Context(c, address)>> \o Tail(frames)
      BY <2>4, <2>5, <2>6 DEF CheckIrq
    <3>2. frames' # <<>> /\ Head(frames') = Context(c, address)
      <4>1. PICK frame : frame = Context(c, address)
        OBVIOUS
      <4>2. /\ frames' \in Frames /\ Len(frames') = Len(Tail(frames)) + 1
            /\ frames'[1] = frame
        BY <2>5, <3>1, <4>1, PushedAt, ZenonT(60)
      <4>3. Len(Tail(frames)) \in Nat
        BY <2>5 DEF Frames
      <4> QED BY <4>1, <4>2, <4>3 DEF Frames
    <3> QED BY <2>5, <3>2
  <2>7. CASE ~(pending /\ c.cpsr.i = 0)
    BY <2>4, <2>5, <2>7 DEF CheckIrq
  <2> QED BY <2>6, <2>7
<1> QED BY <1>1, <1>2, InitModes, StepKeepsModes, StepOwes, PTL
        DEF Spec, ResumesWhereInterrupted
=============================================================================
