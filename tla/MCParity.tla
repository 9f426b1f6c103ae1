------------------------------ MODULE MCParity ------------------------------
(***************************************************************************)
(* Instruction by instruction: the interpreter, the code the x86 back end  *)
(* emits and the code the Dreamcast's emits do what the architecture says, *)
(* outside the cases named below.                                          *)
(***************************************************************************)
EXTENDS Words

CONSTANTS Values,     \* register contents tried as operands
          Amounts,    \* register contents tried as shift amounts
          Bases       \* register contents tried as addresses

VARIABLES set, i, m

vars == <<set, i, m>>

Rule   == INSTANCE ArmRule
Interp == INSTANCE ThumbInterpreter
X86H   == INSTANCE X86Helpers
Sh4H   == INSTANCE Sh4Helpers

X86Execute(op, s, rm, rn, mm) == X86H!execute(op, s, rm, rn, mm)
X86ShiftByRegister(k, f, x, s, mm) == X86H!shift_by_register(k, f, x, s, mm)
X86RegOp(k, x, s, mm) == X86H!shift_reg_op(k, x, s, mm)
X86ImmOp(k, x, s, mm) == X86H!shift_imm_op(k, x, s, mm)
X86Rrx(x, mm) == X86H!execute_rrx(x, mm)
X86RrxFlags(x, mm) == X86H!execute_rrx_flags(x, mm)
X86MulFlags(mm, val) == X86H!execute_mul_flags(mm, val)
X86MulLongFlags(mm, lo, hi) == X86H!execute_mul_long_flags(mm, lo, hi)
X86LongProduct(n, rm, rs, lo, hi) == X86H!multiply_long(n, rm, rs, lo, hi)
X86BlockMemory(x, mm) == X86H!execute_arm_block_memory(x, mm)

Sh4Execute(op, s, rm, rn, mm) == Sh4H!execute(op, s, rm, rn, mm)
Sh4ShiftByRegister(k, f, x, s, mm) == Sh4H!shift_by_register(k, f, x, s, mm)
Sh4RegOp(k, x, s, mm) == Sh4H!shift_reg_op(k, x, s, mm)
Sh4ImmOp(k, x, s, mm) == Sh4H!shift_imm_op(k, x, s, mm)
Sh4Rrx(x, mm) == Sh4H!execute_rrx(x, mm)
Sh4RrxFlags(x, mm) == Sh4H!execute_rrx_flags(x, mm)
Sh4MulFlags(mm, val) == Sh4H!execute_mul_flags(mm, val)
Sh4MulLongFlags(mm, lo, hi) == Sh4H!execute_mul_long_flags(mm, lo, hi)
Sh4LongProduct(n, rm, rs, lo, hi) == Sh4H!multiply_long(n, rm, rs, lo, hi)
Sh4BlockMemory(x, mm) == Sh4H!execute_arm_block_memory(x, mm)

X86 == INSTANCE EmittedCode WITH
         Execute <- X86Execute, ShiftByRegister <- X86ShiftByRegister, RegOp <- X86RegOp,
         ImmOp <- X86ImmOp, ExecuteRrx <- X86Rrx, RrxFlags <- X86RrxFlags,
         MulFlags <- X86MulFlags, MulLongFlags <- X86MulLongFlags,
         LongProduct <- X86LongProduct, BlockMemory <- X86BlockMemory
Sh4 == INSTANCE EmittedCode WITH
         Execute <- Sh4Execute, ShiftByRegister <- Sh4ShiftByRegister, RegOp <- Sh4RegOp,
         ImmOp <- Sh4ImmOp, ExecuteRrx <- Sh4Rrx, RrxFlags <- Sh4RrxFlags,
         MulFlags <- Sh4MulFlags, MulLongFlags <- Sh4MulLongFlags,
         LongProduct <- Sh4LongProduct, BlockMemory <- Sh4BlockMemory

-----------------------------------------------------------------------------
(* The cases.  Register 0 is rn, 1 rm, 2 rd and 3 rs unless a case says so. *)

Machine(a, b, s, f, pc, t) ==
  [r |-> [x \in Regs |-> CASE x = 0 -> a [] x = 1 -> b [] x = 3 -> s [] x = SP -> 16
                           [] OTHER -> Trunc(5 * x + 3)],
   n |-> f[1], z |-> f[2], c |-> f[3], v |-> f[4], pc |-> pc, next |-> pc, t |-> t,
   bus |-> <<>>]
Blank == [hi |-> 0, ext |-> 0, cond |-> 14, rd |-> 2, rn |-> 0, rm |-> 1, rs |-> 3, amt |-> 0,
          imm |-> 0, list |-> {}, sub |-> 0, after |-> FALSE, first |-> 0]
Flags == {<<0, 0, 0, 1>>, <<1, 1, 1, 0>>}

Run(which, insn, machine) == set' = which /\ i' = insn /\ m' = machine

ArmFlags == [1 .. 4 -> Flag]
AluRows == {hi \in 0 .. 63 : hi % 32 \notin {16, 18, 20, 22}}

Init == set = "none" /\ i = Blank /\ m = Machine(0, 0, 0, <<0, 0, 0, 0>>, 8, 0)

DataProcessing ==
  \E hi \in AluRows, a, b \in Values, f \in Flags :
    Run("arm", [Blank EXCEPT !.hi = hi, !.imm = b], Machine(a, b, 1, f, 8, 0))

WithThePC ==
  \E hi \in AluRows, rn, rm, rd \in {2, PC}, ext \in {0, 1} :
    /\ rd = PC => hi % 2 = 0
    /\ Run("arm", [Blank EXCEPT !.hi = hi, !.rn = rn, !.rm = rm, !.rd = rd, !.ext = ext,
                                !.imm = 7], Machine(9, 6, 1, <<0, 0, 1, 0>>, 8, 0))

Shifts ==
  \E hi \in {4, 9, 17, 26, 27}, ext \in 0 .. 7, n \in Amounts, b \in Values, f \in Flags :
    /\ ext % 2 = 0 => n < W
    /\ Run("arm", [Blank EXCEPT !.hi = hi, !.ext = ext, !.amt = n % W],
           Machine(11, b, n, f, 8, 0))

Multiplies ==
  \E hi \in 0 .. 3 \cup 8 .. 15, a \in {0, 3, 31}, b, s \in Values :
    Run("arm", [Blank EXCEPT !.hi = hi, !.ext = 9], Machine(a, b, s, <<1, 1, 0, 1>>, 8, 0))

Transfers ==
  \E hi \in 64 .. 127, a \in Bases, ext \in {0, 2, 4, 6}, n \in {0, 1, 3},
     rd \in {2, PC}, rn \in {0, PC} :
    /\ rn = PC => (hi \div 16) % 2 = 1 /\ (hi \div 2) % 2 = 0
    /\ Run("arm", [Blank EXCEPT !.hi = hi, !.ext = ext, !.amt = n, !.imm = 3 * n, !.rd = rd,
                                !.rn = rn], Machine(a, 9, 1, <<1, 0, 1, 0>>, 8, 0))

HalfTransfers ==
  \E hi \in 0 .. 31, ext \in {11, 13, 15}, a \in Bases, n \in {0, 2, 6} :
    /\ ext > 11 => hi % 2 = 1
    /\ Run("arm", [Blank EXCEPT !.hi = hi, !.ext = ext, !.imm = n],
           Machine(a, n, 1, <<1, 0, 1, 0>>, 8, 0))

\* S is clear; a base in the list with write-back is UNPREDICTABLE unless lowest.
BlockTransfers ==
  \E hi \in 128 .. 159, rn \in {0, 3, SP}, list \in SUBSET {0, 1, 3, LR, PC} \ {{}}, a \in Bases :
    /\ (hi \div 4) % 2 = 0
    /\ rn \in list /\ (hi \div 2) % 2 = 1 => Rank(list, rn) = 0
    /\ Run("arm", [Blank EXCEPT !.hi = hi, !.rn = rn, !.list = list],
           Machine(a, 5, a, <<0, 1, 0, 0>>, 8, 0))

Swaps ==
  \E hi \in {16, 20}, rd, rm \in {0, 1, 2}, a \in Bases :
    Run("arm", [Blank EXCEPT !.hi = hi, !.ext = 9, !.rd = rd, !.rm = rm],
        Machine(a, 21, 1, <<0, 0, 0, 0>>, 8, 0))

\* A branch target in ARM state is a word address.
Branches ==
  \/ \E hi \in {160, 176}, cond \in 0 .. 14, f \in ArmFlags, d \in {0, -12} :
       Run("arm", [Blank EXCEPT !.hi = hi, !.cond = cond, !.imm = d], Machine(0, 0, 0, f, 8, 0))
  \/ \E a \in Word :
       /\ a % 4 # 2
       /\ Run("arm", [Blank EXCEPT !.hi = 18, !.ext = 1], Machine(a, 0, 0, <<0, 0, 0, 0>>, 8, 0))

ThumbData ==
  \/ \E hi \in 0 .. 63, b \in Values, n \in {0, 1, W - 1}, f \in Flags :
       Run("thumb", [Blank EXCEPT !.hi = hi, !.rs = 1, !.rn = 3, !.amt = n, !.imm = n],
           Machine(b, b, 9, f, 10, 1))
  \/ \E hi \in 64 .. 67, sub \in 0 .. 3, a, b \in Values, f \in Flags :
       Run("thumb", [Blank EXCEPT !.hi = hi, !.sub = sub, !.rd = 0, !.rs = 1],
           Machine(a, b, 0, f, 10, 1))

ShiftsByRegister == {<<64, 2>>, <<64, 3>>, <<65, 0>>, <<65, 3>>}
ThumbShifts ==
  \E op \in ShiftsByRegister, a \in Values, n \in Amounts, f \in Flags :
    Run("thumb", [Blank EXCEPT !.hi = op[1], !.sub = op[2], !.rd = 0, !.rs = 1],
        Machine(a, n, 0, f, 10, 1))

ThumbHigh ==
  \E hi \in 68 .. 71, rd \in {0, SP, PC}, rs \in {1, LR, PC}, b \in Values, pc \in {8, 10} :
    /\ hi = 71 => rd = 0 /\ (rs = 1 => b % 4 # 2) /\ (rs = PC => pc = 8)
    /\ hi = 69 => rd # PC
    /\ Run("thumb", [Blank EXCEPT !.hi = hi, !.rd = rd, !.rs = rs],
           Machine(7, b, 0, <<0, 0, 0, 1>>, pc, 1))

ThumbTransfers ==
  \E hi \in 72 .. 177, a \in Bases, pc \in {8, 10}, n \in {0, 1, 3}, sub \in {0, 2} :
    /\ hi \notin 178 .. 191
    /\ sub = 2 => hi = 176
    /\ hi # 177
    /\ Run("thumb", [Blank EXCEPT !.hi = hi, !.rs = 0, !.rn = 1, !.imm = n, !.sub = sub],
           Machine(a, 6, 4, <<0, 1, 1, 0>>, pc, 1))

ThumbBlocks ==
  \E hi \in {180, 181, 188, 189, 192, 195, 200, 203}, list \in SUBSET {0, 1, 3}, a \in Bases :
    /\ hi >= 192 => list # {} /\ (hi < 200 /\ hi % 8 \in list => Rank(list, hi % 8) = 0)
    /\ hi \in {180, 188} => list # {}
    /\ Run("thumb", [Blank EXCEPT !.hi = hi, !.list = list],
           Machine(a, 5, a, <<0, 1, 0, 0>>, 10, 1))

\* BL runs as the pair it is, or as a second half whose first half is elsewhere.
ThumbBranches ==
  \E hi \in 208 .. 221 \cup {224, 240, 248}, f \in ArmFlags, d \in {0, 2, -3}, after \in BOOLEAN :
    /\ after => hi = 248
    /\ hi >= 224 => f = <<0, 0, 0, 0>>
    /\ hi = 248 => d >= 0
    /\ Run("thumb", [Blank EXCEPT !.hi = hi, !.imm = d, !.after = after, !.first = 1],
           Machine(4, 4, 4, f, 10, 1))

Next ==
  /\ set = "none"
  /\ \/ DataProcessing \/ WithThePC \/ Shifts \/ Multiplies
     \/ Transfers \/ HalfTransfers \/ BlockTransfers \/ Swaps \/ Branches
     \/ ThumbData \/ ThumbShifts \/ ThumbHigh \/ ThumbTransfers \/ ThumbBlocks
     \/ ThumbBranches

Spec == Init /\ [][Next]_vars

-----------------------------------------------------------------------------
(* Outcomes. *)

\* The interpreter and the rule run the first half of a BL before the second.
FirstHalf(run(_, _)) ==
  [run([Blank EXCEPT !.hi = 240, !.imm = i.first], [m EXCEPT !.pc = @ - 2]) EXCEPT !.pc = m.pc]
Interpreted ==
  CASE set = "arm" -> Interp!execute_arm_instruction(i, m)
    [] set = "thumb" /\ ~i.after -> Interp!execute_thumb_instruction(i, m)
    [] OTHER -> Interp!execute_thumb_instruction(i, FirstHalf(Interp!execute_thumb_instruction))
Ruled ==
  CASE set = "arm" -> Rule!Arm(i, m)
    [] set = "thumb" /\ ~i.after -> Rule!Thumb(i, m)
    [] OTHER -> Rule!Thumb(i, FirstHalf(Rule!Thumb))
X86Emitted == IF set = "arm" THEN X86!emit_arm(i, m) ELSE X86!emit_thumb(i, m)
Sh4Emitted == IF set = "arm" THEN Sh4!emit_arm(i, m) ELSE Sh4!emit_thumb(i, m)

Where(x) == <<x.t, Aligned(x.next, IF x.t = 1 THEN 2 ELSE 4)>>
Same(x, y) == /\ x.r = y.r
              /\ <<x.n, x.z, x.c, x.v>> = <<y.n, y.z, y.c, y.v>>
              /\ x.bus = y.bus
              /\ Where(x) = Where(y)

-----------------------------------------------------------------------------
(* The cases in which an engine is known not to follow the manual.         *)

\* Carry-in forms that set flags: rows 5 to 7 of the ALU, and Thumb ADC and SBC.
CarryForm == \/ set = "arm" /\ i.hi < 64 /\ i.hi % 2 = 1 /\ (i.hi \div 2) % 16 \in 5 .. 7
                /\ (i.hi < 32 => i.ext < 8)
             \/ set = "thumb" /\ i.hi = 65 /\ i.sub \in {1, 2}
\* A shift by a register whose upper bits are not clear: ARM looks at the low byte.
LongAmount == \/ set = "arm" /\ i.hi < 32 /\ i.ext \in {1, 3, 5, 7} /\ m.r[i.rs] >= 2^A
              \/ /\ set = "thumb" /\ <<i.hi, i.sub>> \in ShiftsByRegister
                 /\ m.r[i.rs] >= 2^A
\* With such a shift the program counter reads 12 ahead as rn too; here it reads 8.
PcBesideLongShift == set = "arm" /\ i.hi < 32 /\ i.ext \in {1, 3, 5, 7} /\ i.rn = PC
\* Thumb block transfers clear the low bits of the base they write back.
UnalignedBase == set = "thumb" /\ i.hi \in 192 .. 207 /\ m.r[i.hi % 8] % 4 # 0
\* Emitted Thumb STMIA writes the base back before it stores it.
MovedBaseStored == set = "thumb" /\ i.hi \in 192 .. 199 /\ i.hi % 8 \in i.list
\* Nothing is emitted for the first half of a BL.
LoneFirstHalf == set = "thumb" /\ i.hi \in 240 .. 247
\* x86 enters a program counter an LDM loads in the state its low bit says.
LoadedPc == set = "arm" /\ i.hi \in 128 .. 159 /\ i.hi % 2 = 1 /\ PC \in i.list

SameButFlags(x, y) == x.r = y.r /\ x.bus = y.bus /\ Where(x) = Where(y)

-----------------------------------------------------------------------------
(* Properties. *)

\* The interpreter of cpu.c leaves the registers, the flags, the bus and the next
\* instruction as the manual says, but for the flags of the carry-in forms (RSCS of
\* an immediate and Thumb SBC get the result wrong too), amounts and the program
\* counter in shifts by a register, and unaligned Thumb block bases.
InterpreterFollowsArm ==
  \/ set = "none" \/ LongAmount \/ PcBesideLongShift \/ UnalignedBase
  \/ Same(Interpreted, Ruled)
  \/ /\ CarryForm
     /\ SameButFlags(Interpreted, Ruled) \/ i.hi = 47 \/ (set = "thumb" /\ i.sub = 2)

\* Code x86_emit.h emits does the same, but for those cases (the result is right in
\* every carry-in form), a Thumb STMIA of its own base, a first half of BL without
\* its second, and an LDM that loads the program counter.
X86FollowsArm ==
  \/ set = "none" \/ LongAmount \/ PcBesideLongShift \/ UnalignedBase
  \/ MovedBaseStored \/ LoneFirstHalf
  \/ Same(X86Emitted, Ruled)
  \/ CarryForm /\ SameButFlags(X86Emitted, Ruled)
  \/ LoadedPc /\ [X86Emitted EXCEPT !.t = 0, !.next = 0] = [Ruled EXCEPT !.next = 0]

\* The Dreamcast's code gets amounts, carries and the loaded program counter right.
Sh4FollowsArm ==
  \/ set = "none" \/ PcBesideLongShift \/ UnalignedBase \/ MovedBaseStored \/ LoneFirstHalf
  \/ Same(Sh4Emitted, Ruled)
=============================================================================
