-------------------------- MODULE BankedRegisters --------------------------
(***************************************************************************)
(* The registers the architecture keeps per processor mode, as one file of *)
(* places, and what changes them: the specification CpuModes implements.   *)
(* R8 stands for R8 to R12, which FIQ has of its own and the other modes   *)
(* share; every mode has its own stack pointer and link register.          *)
(***************************************************************************)
EXTENDS Integers

CONSTANTS Modes, User, Fiq, Irq, Svc,   \* processor modes; System is User here
          Code,                         \* the program is at 0 .. Code - 1
          IrqVector, SwiVector

VARIABLES arm,    \* [file, status, saved, pc]
          op      \* the instruction executed last, or "interrupt"

Following(pc) == IF pc < Code THEN (pc + 1) % Code ELSE pc

\* Whose r a mode uses.
Owner(m, r) == IF r = "r8" /\ m # Fiq THEN User ELSE m

\* An exception: its mode's link register and saved status keep what its handler
\* needs to return.  The flags a handler starts with do not matter.
Entered(a, m, link, masked, vector, f) ==
  [a EXCEPT !.file[m].lr = link, !.saved[m] = a.status,
            !.status = [mode |-> m, i |-> masked, t |-> 0, f |-> f], !.pc = vector]

\* After every instruction an interrupt may be taken, if the status lets it.
Then(new) ==
  \/ arm' = new
  \/ /\ new.status.i = 0
     /\ \E f \in {0, 1} : arm' = Entered(new, Irq, new.pc + 1, 1, IrqVector, f)

Interrupt == op'.kind = "interrupt" /\ arm.status.i = 0 /\ Then(arm)

Stepped == [arm EXCEPT !.pc = Following(@)]

\* A status that takes from another what a mask names.
Merged(a, new, mask) ==
  [a EXCEPT !.mode = IF "c" \in mask THEN new.mode ELSE @,
            !.i = IF "c" \in mask THEN new.i ELSE @,
            !.f = IF "f" \in mask THEN new.f ELSE @]

Write ==
  /\ op'.kind = "write"
  /\ Then([Stepped EXCEPT !.file[Owner(arm.status.mode, op'.r)][op'.r] = op'.v,
                          !.status.f = op'.f])
Exchange ==
  /\ op'.kind = "bx"
  /\ Then([arm EXCEPT !.status.t = 1 - @, !.pc = op'.v])
WriteStatus ==
  /\ op'.kind = "msr"
  /\ Then([Stepped EXCEPT !.status = Merged(@, op'.new, op'.mask)])
WriteSaved ==
  /\ op'.kind = "msr_spsr"
  /\ Then([Stepped EXCEPT !.saved[arm.status.mode] = op'.new])
\* LDM with ^: to the registers User mode would see.
WriteUser ==
  /\ op'.kind = "ldm_user"
  /\ Then([Stepped EXCEPT !.file[User][op'.r] = op'.v])

\* From the saved status, to a loaded address or by the link register, which for an
\* interrupt is one instruction ahead.
Return ==
  /\ op'.kind = "return"
  /\ Then([arm EXCEPT !.status = arm.saved[arm.status.mode],
                      !.pc = IF op'.by = "link" THEN arm.file[arm.status.mode].lr - op'.v
                             ELSE op'.v])

\* The architecture masks interrupts here; the program leaves them as they are.
Swi ==
  /\ op'.kind = "swi"
  /\ \E i \in {arm.status.i, 1}, f \in {0, 1} :
       Then(Entered(arm, Svc, Following(arm.pc), i, SwiVector, f))

\* A handler masks interrupts and gives its way back what it kept of it.
GiveBack ==
  /\ op'.kind = "give_back"
  /\ arm' = [Stepped EXCEPT !.status.mode = op'.m, !.status.i = 1,
                            !.file[op'.m].lr = op'.lr, !.saved[op'.m] = op'.spsr]

Init == arm.status.t = 0 /\ arm.status.i = 0
Next == \/ Interrupt \/ Write \/ Exchange \/ WriteStatus \/ WriteSaved \/ WriteUser
        \/ Return \/ Swi \/ GiveBack
Spec == Init /\ [][Next]_<<arm, op>>
=============================================================================
