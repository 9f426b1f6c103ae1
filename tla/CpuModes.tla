------------------------------ MODULE CpuModes ------------------------------
(***************************************************************************)
(* Processor modes: cpu_switch_mode moves the banked registers between     *)
(* reg and reg_mode (cpu_mode.h); MSR, exception returns, software         *)
(* interrupts and interrupts change the mode, each engine in code of its   *)
(* own: the interpreter (cpu.c), the code x86_emit.h emits, and the        *)
(* Dreamcast's (sh4_helpers.c).  The flags have slots apart from CPSR; an  *)
(* engine collapses them into it when it remembers to.                     *)
(* Abort and Undefined, which nothing enters, are left out; addresses      *)
(* count instructions, and those of handlers are their vectors.            *)
(***************************************************************************)
EXTENDS Integers, Sequences

CONSTANTS User, Fiq, Irq, Svc,    \* MODE_USER, _FIQ, _IRQ and _SUPERVISOR
          Engines,                \* a subset of {"interpreter", "x86", "sh4"}
          Code,                   \* the program is at 0 .. Code - 1
          MaxWork,                \* bound: instructions of the program itself
          MaxFrames               \* bound: exceptions inside one another

ASSUME ModesAssumption ==
  /\ User # Fiq /\ User # Irq /\ User # Svc /\ Fiq # Irq /\ Fiq # Svc /\ Irq # Svc
  /\ Code \in Nat \ {0}

VARIABLES engine,
          cpu,       \* reg, bank (reg_mode), mode (CPU_MODE), cpsr, f, spsr, pc
          pending,   \* an interrupt enabled in IE and by IME waits in IF
          frames,    \* what the exceptions being handled interrupted, latest first
          work,      \* instructions of the program so far
          op         \* the latest instruction

vars == <<engine, cpu, pending, frames, work, op>>

Modes == {User, Fiq, Irq, Svc}
Names == {"r8", "sp", "lr"}
IrqVector == Code + 10
SwiVector == Code + 20
Following(pc) == IF pc < Code THEN (pc + 1) % Code ELSE pc
Values == 0 .. Code - 1

-----------------------------------------------------------------------------
(* What the engines do. *)

\* A mutant: every mode keeps an R8 of its own.
cpu_switch_mode_apart(c, new) ==
  LET retired == [c.bank EXCEPT ![c.mode] = c.reg]
  IN  IF c.mode = new THEN c
      ELSE [c EXCEPT !.bank = retired, !.mode = new, !.reg = retired[new]]

cpu_switch_mode(c, new) ==
  LET retired == [c.bank EXCEPT ![c.mode] = [@ EXCEPT !.sp = c.reg.sp, !.lr = c.reg.lr]]
      fiq == Fiq \in {c.mode, new}
      Shared(m) == IF m = Fiq THEN Fiq ELSE User
      bank == IF fiq THEN [retired EXCEPT ![Shared(c.mode)].r8 = c.reg.r8] ELSE retired
      r8 == IF fiq THEN bank[Shared(new)].r8 ELSE c.reg.r8
  IN  IF c.mode = new THEN c
      ELSE [c EXCEPT !.bank = bank, !.mode = new,
                     !.reg = [r8 |-> r8, sp |-> bank[new].sp, lr |-> bank[new].lr]]

collapse_flags(c) == [c EXCEPT !.cpsr.f = c.f]
extract_flags(c) == [c EXCEPT !.f = c.cpsr.f]

\* raise_interrupt, check_for_interrupts and the back ends' take_pending_irq.
take_irq(c, return) ==
  cpu_switch_mode([c EXCEPT !.bank[Irq].lr = return + 1, !.spsr[Irq] = c.cpsr,
                            !.cpsr = [mode |-> Irq, i |-> 1, t |-> 0, f |-> 0],
                            !.pc = IrqVector], Irq)

\* A mutant: the flags are not collapsed before CPSR is saved.
execute_swi_uncollapsed(c) ==
  cpu_switch_mode([c EXCEPT !.bank[Svc].lr = Following(c.pc), !.spsr[Svc] = c.cpsr,
                            !.cpsr = [@ EXCEPT !.mode = Svc, !.t = 0],
                            !.pc = SwiVector], Svc)

execute_swi(c) ==
  LET d == collapse_flags(c)
  IN  cpu_switch_mode([d EXCEPT !.bank[Svc].lr = Following(c.pc), !.spsr[Svc] = d.cpsr,
                                !.cpsr = [@ EXCEPT !.mode = Svc, !.t = 0],
                                !.pc = SwiVector], Svc)

\* MSR to CPSR, its mask naming the control bits ("c"), the flags ("f") or both; x86
\* leaves the live flags uncollapsed.
store_cpsr(c, new, mask) ==
  LET old == IF engine = "x86" THEN c.cpsr ELSE [c.cpsr EXCEPT !.f = c.f]
      merged == [old EXCEPT !.mode = IF "c" \in mask THEN new.mode ELSE @,
                            !.i = IF "c" \in mask THEN new.i ELSE @,
                            !.f = IF "f" \in mask THEN new.f ELSE @]
      stored == extract_flags([c EXCEPT !.cpsr = merged, !.pc = Following(@)])
  IN  IF "c" \in mask THEN cpu_switch_mode(stored, merged.mode) ELSE stored

\* The return address of an interrupt MSR lets in: emitted code passes that of the
\* MSR itself.
msr_return(c) == IF engine = "interpreter" THEN Following(c.pc) ELSE c.pc

\* The interpreter restores nothing in User mode, which has no saved status.
spsr_restore(c, address) ==
  LET restored == extract_flags([c EXCEPT !.cpsr = c.spsr[c.mode], !.pc = address])
  IN  IF engine = "interpreter" /\ c.mode = User THEN [c EXCEPT !.pc = address]
      ELSE cpu_switch_mode(restored, restored.cpsr.mode)

\* Which registers LDM and STM with ^ look for in reg_mode[MODE_USER].
user_bank(c, r) ==
  /\ c.mode # User
  /\ engine = "sh4" => r # "r8" \/ c.mode = Fiq

-----------------------------------------------------------------------------
(* Handlers.  A frame is what an exception interrupted; a handler that lets  *)
(* others in keeps its link register and saved status first.                 *)

Context(c, pc) == [pc |-> pc, reg |-> c.reg, status |-> [c.cpsr EXCEPT !.f = c.f],
                   kept |-> <<>>]

\* Entering a mode from itself loses its link register: nothing can return from it.
Pushed(m, context) == IF cpu.mode = m THEN <<>> ELSE <<context>> \o frames

Handling == frames # <<>>
Opened == Handling /\ Head(frames).kept # <<>>
Software == ~Handling /\ work < MaxWork /\ work' = work + 1

\* The outcome c of an instruction, or an interrupt it lets in at once.
CheckIrq(c, return, context, frames1) ==
  IF pending /\ c.cpsr.i = 0
  THEN /\ cpu' = take_irq(c, return)
       /\ frames' = IF c.mode = Irq THEN <<>> ELSE <<context>> \o frames1
  ELSE cpu' = c /\ frames' = frames1

-----------------------------------------------------------------------------
(* Actions. *)

\* init_cpu, with the stack pointers of all modes told apart.
init_cpu ==
  LET sp == [m \in Modes |-> CASE m = User -> 0 [] m = Irq -> 1 [] m = Fiq -> 2 [] OTHER -> 3]
      status == [mode |-> User, i |-> 0, t |-> 0, f |-> 0]
  IN  [reg |-> [r8 |-> 0, sp |-> 0, lr |-> 0],
       bank |-> [m \in Modes |-> [r8 |-> 0, sp |-> sp[m], lr |-> 0]],
       mode |-> User, cpsr |-> status, f |-> 0,
       spsr |-> [m \in Modes |-> status], pc |-> 0]

\* The program's start-up may have changed the mode already.
Init ==
  /\ engine \in Engines
  /\ \E m \in Modes : cpu = cpu_switch_mode([init_cpu EXCEPT !.cpsr.mode = m], m)
  /\ pending = FALSE
  /\ frames = <<>>
  /\ work = 0
  /\ op = [kind |-> "none"]

\* An instruction that writes a register and the flags.
Write ==
  \E r \in {"r8", "lr"}, v \in Values, f \in {0, 1} :
    /\ Software /\ UNCHANGED frames
    /\ op' = [kind |-> "write", r |-> r, v |-> v, f |-> f]
    /\ cpu' = [cpu EXCEPT !.reg[r] = v, !.f = f, !.pc = Following(@)]
    /\ UNCHANGED <<engine, pending>>

\* BX to the other state.
Exchange ==
  \E v \in Values :
    /\ Software /\ UNCHANGED frames
    /\ op' = [kind |-> "bx", v |-> v]
    /\ cpu' = [cpu EXCEPT !.cpsr.t = 1 - @, !.pc = v]
    /\ UNCHANGED <<engine, pending>>

Msr(new, mask) == op' = [kind |-> "msr", new |-> new, mask |-> mask]

StoreCpsr ==
  \E m \in Modes, i, f \in {0, 1}, mask \in {{"c"}, {"f"}, {"c", "f"}} :
    LET new == [mode |-> m, i |-> i, f |-> f]
        c == store_cpsr(cpu, new, mask)
    IN  /\ cpu.cpsr.t = 0
        /\ Software /\ Msr(new, mask)
        /\ IF "c" \in mask
           THEN CheckIrq(c, msr_return(cpu), Context(c, msr_return(cpu)), frames)
           ELSE cpu' = c /\ UNCHANGED frames
        /\ UNCHANGED <<engine, pending>>

StoreSpsr ==
  \E m \in Modes, t \in {0, 1} :
    LET new == [mode |-> m, i |-> 0, t |-> t, f |-> 1]
    IN  /\ cpu.cpsr.t = 0 /\ cpu.mode # User
        /\ Software /\ UNCHANGED frames
        /\ op' = [kind |-> "msr_spsr", new |-> new]
        /\ cpu' = [cpu EXCEPT !.spsr[cpu.mode] = new, !.pc = Following(@)]
        /\ UNCHANGED <<engine, pending>>

LoadUserBank ==
  \E r \in Names, v \in Values :
    /\ cpu.cpsr.t = 0 /\ cpu.mode # User
    /\ Software /\ UNCHANGED frames
    /\ op' = [kind |-> "ldm_user", r |-> r, v |-> v]
    /\ cpu' = [(IF user_bank(cpu, r) THEN [cpu EXCEPT !.bank[User][r] = v]
                ELSE [cpu EXCEPT !.reg[r] = v]) EXCEPT !.pc = Following(@)]
    /\ UNCHANGED <<engine, pending>>

\* LDM of the program counter with ^: only the Dreamcast restores the status.
LoadPcUserBank ==
  \E v \in Values :
    /\ cpu.cpsr.t = 0 /\ cpu.mode # User
    /\ Software
    /\ op' = [kind |-> "return", by |-> "load", v |-> v]
    /\ IF engine = "sh4"
       THEN LET c == spsr_restore(cpu, v) IN CheckIrq(c, v, Context(c, v), frames)
       ELSE cpu' = [cpu EXCEPT !.pc = v] /\ UNCHANGED frames
    /\ UNCHANGED <<engine, pending>>

\* MOVS PC, LR, or SUBS PC, LR, #4 after an interrupt.  The program returns as a
\* handler would, to addresses of its own.
Return ==
  LET ahead == IF cpu.mode = Irq /\ Handling THEN 1 ELSE 0
      address == cpu.reg.lr - ahead
      c == spsr_restore(cpu, address)
      rest == IF Handling THEN Tail(frames) ELSE frames
  IN  /\ cpu.mode # User /\ cpu.cpsr.t = 0
      /\ \/ Handling /\ ~Opened /\ UNCHANGED work
         \/ Software /\ address \in Values
      /\ op' = [kind |-> "return", by |-> "link", v |-> ahead]
      /\ CheckIrq(c, address, Context(c, address), rest)
      /\ UNCHANGED <<engine, pending>>

\* The program's, or that of a handler which has let others in, unless it interrupted
\* the handler of another and would overwrite its link register.
SoftwareInterrupt ==
  /\ Len(frames) < MaxFrames
  /\ \/ Software
     \/ /\ Opened /\ UNCHANGED work
        /\ \A n \in DOMAIN frames : frames[n].status.mode # Svc
  /\ op' = [kind |-> "swi"]
  /\ cpu' = execute_swi(cpu)
  /\ frames' = Pushed(Svc, Context(cpu, Following(cpu.pc)))
  /\ UNCHANGED <<engine, pending>>

\* A handler keeps its way back and goes on as System, with interrupts let in...
Open ==
  LET kept == [mode |-> cpu.mode, lr |-> cpu.reg.lr, spsr |-> cpu.spsr[cpu.mode]]
      new == [mode |-> User, i |-> 0, f |-> 0]
      c == store_cpsr(cpu, new, {"c"})
      opened == [frames EXCEPT ![1].kept = <<kept>>]
  IN  /\ Handling /\ ~Opened /\ Len(frames) < MaxFrames
      /\ Msr(new, {"c"})
      /\ CheckIrq(c, msr_return(cpu), Context(c, msr_return(cpu)), opened)
      /\ UNCHANGED <<engine, pending, work>>

\* ... and comes back to its mode to return.
Close ==
  LET kept == Head(frames).kept[1]
      c == store_cpsr(cpu, [mode |-> kept.mode, i |-> 1, f |-> 0], {"c"})
  IN  /\ Opened
      /\ op' = [kind |-> "give_back", m |-> kept.mode, lr |-> kept.lr, spsr |-> kept.spsr]
      /\ cpu' = [c EXCEPT !.reg.lr = kept.lr, !.spsr[kept.mode] = kept.spsr]
      /\ frames' = [frames EXCEPT ![1].kept = <<>>]
      /\ UNCHANGED <<engine, pending, work>>

\* raise_interrupt, between two instructions; masked, it stays in IF.
Raise ==
  /\ Len(frames) < MaxFrames
  /\ pending' = TRUE
  /\ IF cpu.cpsr.i = 0
     THEN /\ cpu' = take_irq(collapse_flags(cpu), cpu.pc)
          /\ frames' = Pushed(Irq, Context(cpu, cpu.pc))
          /\ op' = [kind |-> "interrupt"]
     ELSE UNCHANGED <<cpu, frames, op>>
  /\ UNCHANGED <<engine, work>>

\* The program, or a handler, stores to IF.
Acknowledge == pending /\ pending' = FALSE /\ UNCHANGED <<engine, cpu, frames, work, op>>

Next ==
  \/ Write \/ Exchange \/ StoreCpsr \/ StoreSpsr \/ LoadUserBank
  \/ LoadPcUserBank \/ Return \/ SoftwareInterrupt \/ Open \/ Close \/ Raise \/ Acknowledge

Spec == Init /\ [][Next]_vars

-----------------------------------------------------------------------------
(* Properties. *)

\* The mode the registers are banked for is that of CPSR.
ModeIsCurrent == cpu.mode = cpu.cpsr.mode

\* Where a place of the register file is.
Value(c, m, r) ==
  IF (r # "r8" /\ m = c.mode) \/ (r = "r8" /\ (m = Fiq) = (c.mode = Fiq))
  THEN c.reg[r] ELSE c.bank[m][r]

File == [m \in Modes |-> [r \in Names |->
           IF r = "r8" /\ m \notin {User, Fiq} THEN 0 ELSE Value(cpu, m, r)]]

Banked == INSTANCE BankedRegisters WITH
            arm <- [file |-> File, status |-> [cpu.cpsr EXCEPT !.f = cpu.f],
                    saved |-> cpu.spsr, pc |-> cpu.pc]

\* Where an engine is known to do something else: it enters a mode from itself and
\* leaves its link register alone; ...
FromItself == \/ op'.kind = "swi" /\ cpu.mode = Svc
              \/ cpu'.pc = IrqVector /\ cpu'.spsr[Irq].mode = Irq
\* ... x86 puts the flags back to those CPSR last held; ...
LostFlags == engine = "x86" /\ cpu.f # cpu.cpsr.f /\ op'.kind \in {"msr", "give_back"}
\* ... an interrupt MSR lets in returns to the MSR in emitted code; ...
MsrAgain == engine # "interpreter" /\ op'.kind = "msr" /\ cpu'.pc = IrqVector
\* ... and where LDM with ^ looks for R8 among the registers of User mode, which are
\* those in use, or loads the program counter without restoring the status.
WrongBank == engine # "sh4" /\ cpu.mode # Fiq /\ op'.kind = "ldm_user" /\ op'.r = "r8"
StatusKept == engine # "sh4" /\ op'.kind = "return" /\ op'.by = "load"

\* Every instruction and interrupt leaves every mode's registers, CPSR, the saved
\* statuses and the program counter as the architecture says, but for those cases.
FollowsBanks ==
  /\ Banked!Init
  /\ [][Banked!Next \/ FromItself \/ LostFlags \/ MsrAgain \/ WrongBank \/ StatusKept]_<<cpu, op>>

\* What was interrupted goes on with the registers, the flags, the mode and the
\* masks it had, however the handlers were themselves interrupted, unless the next
\* interrupt comes first and keeps the same for later.  Nothing is asked for what was
\* interrupted in IRQ mode itself: the interrupt overwrites that mode's LR, which on the
\* ARM, too, is the handler's to save before it lets interrupts in.
ResumesWhereInterrupted ==
  [][Return /\ Handling =>
       \/ Context(cpu', cpu'.pc) = Head(frames)
       \/ frames' # <<>> /\ Head(frames') = Head(frames)
       \/ Head(frames).status.mode = Irq]_vars
=============================================================================
