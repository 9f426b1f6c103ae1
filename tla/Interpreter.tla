---------------------------- MODULE Interpreter ----------------------------
(***************************************************************************)
(* The ARM and Thumb interpreter of cpu.c: what its two switches dispatch  *)
(* an opcode to, and what the macros they use do to the registers, the     *)
(* flags and the bus.  A machine m is described in Words; an instruction i *)
(* is the record of its fields:                                            *)
(*   hi    bits 27-20 (ARM) or 15-8 (Thumb)                                *)
(*   ext   bits 7-4 (ARM); sub is bits 7-6 (Thumb)                         *)
(*   rd, rn, rm, rs   register fields; amt the immediate shift amount      *)
(*   imm   the immediate operand, offset or branch displacement            *)
(*   list  the registers of a block transfer                               *)
(* Transfers to and from the status registers, and writes to them by an    *)
(* exception return, are in CpuModes.                                      *)
(***************************************************************************)
EXTENDS Words

-----------------------------------------------------------------------------
(* The shifter: k is bits 6-4, x the shifted register, amt the immediate   *)
(* and s the register that holds the amount.                               *)

\* A mutant: an immediate ASR of zero shifts by nothing.
calculate_reg_sh_asr(k, amt, x, s, c) ==
  CASE k = 0 -> Lsl(x, amt)
    [] k = 1 -> IF s < W THEN Lsl(x, s) ELSE 0
    [] k = 2 -> IF amt = 0 THEN 0 ELSE Lsr(x, amt)
    [] k = 3 -> IF s < W THEN Lsr(x, s) ELSE 0
    [] k = 4 -> Asr(x, amt)
    [] k = 5 -> Asr(x, IF s < W THEN s ELSE W - 1)
    [] k = 6 -> IF amt = 0 THEN Rrx(x, c) ELSE Ror(x, amt)
    [] k = 7 -> Ror(x, s)

calculate_reg_sh(k, amt, x, s, c) ==
  CASE k = 0 -> Lsl(x, amt)
    [] k = 1 -> IF s < W THEN Lsl(x, s) ELSE 0
    [] k = 2 -> IF amt = 0 THEN 0 ELSE Lsr(x, amt)
    [] k = 3 -> IF s < W THEN Lsr(x, s) ELSE 0
    [] k = 4 -> Asr(x, IF amt = 0 THEN W - 1 ELSE amt)
    [] k = 5 -> Asr(x, IF s < W THEN s ELSE W - 1)
    [] k = 6 -> IF amt = 0 THEN Rrx(x, c) ELSE Ror(x, amt)
    [] k = 7 -> Ror(x, s)

\* The carry calculate_reg_sh_flags leaves: an amount of zero in a register
\* keeps it, an immediate of zero means the width (LSR, ASR) or RRX.
calculate_reg_sh_flags(k, amt, x, s, c) ==
  CASE k = 0 -> IF amt = 0 THEN c ELSE BitOf(x, W - amt)
    [] k = 2 -> IF amt = 0 THEN Sign(x) ELSE BitOf(x, amt - 1)
    [] k = 4 -> IF amt = 0 THEN Sign(x) ELSE BitOf(x, amt - 1)
    [] k = 6 -> IF amt = 0 THEN BitOf(x, 0) ELSE BitOf(x, amt - 1)
    [] s = 0 -> c
    [] k = 1 -> IF s <= W THEN BitOf(x, W - s) ELSE 0
    [] k = 3 -> IF s <= W THEN BitOf(x, s - 1) ELSE 0
    [] k = 5 -> IF s < W THEN BitOf(x, s - 1) ELSE Sign(x)
    [] k = 7 -> BitOf(x, (s - 1) % W)

\* The offset of a single transfer: immediate amounts only.
calculate_reg_offset(k, amt, x, c) ==
  CASE k = 0 -> Lsl(x, amt)
    [] k = 2 -> IF amt = 0 THEN 0 ELSE Lsr(x, amt)
    [] k = 4 -> Asr(x, IF amt = 0 THEN W - 1 ELSE amt)
    [] k = 6 -> IF amt = 0 THEN Rrx(x, c) ELSE Ror(x, amt)

-----------------------------------------------------------------------------
(* Flags. *)

calculate_flags_add(m, sa, sb) ==
  LET d == Trunc(sa + sb)
  IN  [SetNZ(m, d) EXCEPT !.c = Truth(d < sa),
                          !.v = Truth((Signed(d) < Signed(sa)) # (Signed(sb) < 0))]

calculate_flags_sub(m, sa, sb) ==
  LET d == Trunc(sa - sb)
  IN  [SetNZ(m, d) EXCEPT !.c = Truth(sb <= sa),
                          !.v = Truth((Signed(sb) > Signed(sa)) # (Signed(d) < 0))]

calculate_flags_logic(m, d) == SetNZ(m, d)

-----------------------------------------------------------------------------
(* Data processing. *)

Logical == {"and", "eor", "orr", "mov", "bic", "mvn", "tst", "teq"}
Adding  == {"add", "adc", "cmn"}
Tests   == {"tst", "teq", "cmp", "cmn"}

\* The expression each case passes to arm_data_proc or its logic forms.
Expression(op, a, b, c) ==
  CASE op \in {"and", "tst"} -> a & b
    [] op \in {"eor", "teq"} -> a ^^ b
    [] op = "orr" -> a | b
    [] op = "bic" -> a & NotW(b)
    [] op = "mov" -> b
    [] op = "mvn" -> NotW(b)
    [] op = "sub" -> Trunc(a - b)
    [] op = "rsb" -> Trunc(b - a)
    [] op = "add" -> Trunc(a + b)
    [] op = "adc" -> Trunc(a + b + c)
    [] op = "sbc" -> Trunc(a - b - (1 - c))
    [] op = "rsc" -> Trunc(b - a + c - 1)

\* src_a and src_b of the arithmetic forms: a carry or borrow is folded into
\* one of them, not into the same one for a register and for an immediate.
FlagOperands(op, src, a, b, c) ==
  CASE op \in {"add", "cmn", "sub", "cmp"} -> <<a, b>>
    [] op = "rsb" -> <<b, a>>
    [] op = "adc" -> IF src = "reg" THEN <<a, Trunc(b + c)>> ELSE <<Trunc(a + b), c>>
    [] op = "sbc" -> <<Trunc(a - b), 1 - c>>
    [] op = "rsc" -> IF src = "reg" THEN <<Trunc(b + c - 1), a>>
                                    ELSE <<b, Trunc(a + c - 1)>>

\* reg_sh or imm; the register forms read the program counter 8 ahead, 12 when
\* the amount comes from a register.
ShiftedOperand(i, m) ==
  calculate_reg_sh(i.ext, i.amt, Operand(m, i.rm, IF i.ext % 2 = 1 THEN 12 ELSE 8),
                   m.r[i.rs], m.c)
ShiftedCarry(i, m) ==
  calculate_reg_sh_flags(i.ext, i.amt, Operand(m, i.rm, IF i.ext % 2 = 1 THEN 12 ELSE 8),
                         m.r[i.rs], m.c)

arm_result(m, rd, val) == IF rd = PC THEN GoTo(m, val) ELSE SetReg(m, rd, val)

arm_data_proc(d, i, m) ==
  LET a == Operand(m, i.rn, 8)
      b == IF d.src = "reg" THEN ShiftedOperand(i, m) ELSE i.imm
  IN  arm_result(m, i.rd, Expression(d.op, a, b, m.c))

arm_data_proc_logic_flags(d, i, m) ==
  LET a == Operand(m, i.rn, 8)
      b == IF d.src = "reg" THEN ShiftedOperand(i, m) ELSE i.imm
      c == IF d.src = "reg" THEN ShiftedCarry(i, m) ELSE m.c
      val == Expression(d.op, a, b, c)
      f == [calculate_flags_logic(m, val) EXCEPT !.c = c]
  IN  IF d.op \in Tests THEN f ELSE arm_result(f, i.rd, val)

arm_data_proc_arith_flags(d, i, m) ==
  LET a  == Operand(m, i.rn, 8)
      b  == IF d.src = "reg" THEN ShiftedOperand(i, m) ELSE i.imm
      s  == FlagOperands(d.op, d.src, a, b, m.c)
      add == d.op \in Adding
      f  == IF add THEN calculate_flags_add(m, s[1], s[2])
                   ELSE calculate_flags_sub(m, s[1], s[2])
  IN  IF d.op \in Tests THEN f
      ELSE arm_result(f, i.rd, Trunc(IF add THEN s[1] + s[2] ELSE s[1] - s[2]))

-----------------------------------------------------------------------------
(* Multiplies: a long product is the pair of its words. *)

arm_multiply(d, i, m) ==
  LET val == Trunc(m.r[i.rm] * m.r[i.rs] + (IF d.add THEN m.r[i.rn] ELSE 0))
  IN  SetReg(IF d.s THEN SetNZ(m, val) ELSE m, i.rd, val)

\* rdhi is the field other forms call rn, rdlo the field they call rd.
arm_multiply_long(d, i, m) ==
  LET x == IF d.sign THEN Signed(m.r[i.rm]) ELSE m.r[i.rm]
      y == IF d.sign THEN Signed(m.r[i.rs]) ELSE m.r[i.rs]
      acc == IF d.add THEN m.r[i.rn] * 2^W + m.r[i.rd] ELSE 0
      val == (x * y + acc) % 2^(2 * W)
      lo == Trunc(val)
      hi == val \div 2^W
      f == IF d.s THEN [m EXCEPT !.z = Truth(lo = 0 /\ hi = 0), !.n = Sign(hi)] ELSE m
  IN  SetReg(SetReg(f, i.rd, lo), i.rn, hi)

-----------------------------------------------------------------------------
(* Single and block transfers, swaps and branches. *)

Offset(d, i, m) ==
  CASE d.type \in {"imm", "half_imm"} -> i.imm
    [] d.type = "half_reg" -> m.r[i.rm]
    [] d.type = "reg" -> calculate_reg_offset(i.ext, i.amt, Operand(m, i.rm, 8), m.c)

\* The address takes the offset first (off) or the write-back alone does (wboff);
\* a store reads its register before the write-back, a load writes it after.
arm_access_memory(d, i, m) ==
  LET off == Offset(d, i, m)
      address == Trunc(Operand(m, i.rn, 8) + d.off * off)
      source == Operand(m, i.rd, 12)
      m1 == IF d.wb THEN SetReg(m, i.rn, Trunc(address + d.wboff * off)) ELSE m
  IN  IF d.acc = "store" THEN Store(m1, d.mem, address, source)
      ELSE arm_result(Load(m1, d.mem, address), i.rd, Loaded(d.mem, address))

\* Transfers first, then the write-back, then the program counter.
arm_block_memory(d, i, m) ==
  LET base == m.r[i.rn]
      size == 4 * Cardinality(i.list)
      start == CASE d.off = "down_a" -> base - size + 4
                 [] d.off = "down_b" -> base - size
                 [] d.off = "no"     -> base
                 [] d.off = "up"     -> base + 4
      address == Aligned(Trunc(start), 4)
      regs == i.list \ {PC}
      moved == Trunc(IF d.wb = "down" THEN base - size ELSE base + size)
      m1 == IF d.acc = "load" THEN LoadBlock(m, address, regs)
                              ELSE StoreBlock(m, address, regs, m.r)
      m2 == IF d.wb = "no" \/ (d.acc = "load" /\ i.rn \in i.list) THEN m1
            ELSE SetReg(m1, i.rn, moved)
      last == Slot(address, i.list, PC)
  IN  CASE PC \notin i.list -> m2
        [] d.acc = "load"   -> GoTo(Load(m2, "u32", last), Loaded("u32", last))
        [] OTHER            -> Store(m2, "u32", last, Trunc(m.pc + 8))

arm_swap(d, i, m) ==
  LET address == m.r[i.rn]
  IN  SetReg(Store(Load(m, d.mem, address), d.mem, address, m.r[i.rm]),
             i.rd, Loaded(d.mem, address))

arm_branch(d, i, m) ==
  GoTo(IF d.link THEN SetReg(m, LR, Trunc(m.pc + 4)) ELSE m, Trunc(m.pc + 8 + i.imm))

arm_bx(i, m) ==
  LET src == m.r[i.rn]
  IN  [m EXCEPT !.next = src - BitOf(src, 0), !.t = BitOf(src, 0)]

-----------------------------------------------------------------------------
(* What the switch of execute_arm_instruction dispatches bits 27-20 to.    *)
(* The register group also looks at bits 7-4: 1xx1 is not a shift.         *)

Alu(op, s, src) == [do |-> "alu", op |-> op, s |-> s, src |-> src]
Access(acc, off, type, mem, wb, wboff) ==
  [do |-> "access", acc |-> acc, off |-> off, type |-> type, mem |-> mem,
   wb |-> wb, wboff |-> wboff]

Odd(i) == i.hi % 2 = 1
Extended(i) == i.ext \in {9, 11, 13, 15}
HalfType(i) == IF Odd(i) THEN <<"u16", "s8", "s16">>[(i.ext - 9) \div 2] ELSE "u16"
HalfAccess(i, off, type, wb, wboff) ==
  Access(IF Odd(i) THEN "load" ELSE "store", off, type, HalfType(i), wb, wboff)
Multiply(i, add) == [do |-> "mul", add |-> add, s |-> Odd(i)]
MultiplyLong(i, sign, add) == [do |-> "mull", sign |-> sign, add |-> add, s |-> Odd(i)]
Psr(src, dir, psr) == [do |-> "psr", src |-> src, dir |-> dir, psr |-> psr]
Pair(i, lower, upper) == IF i.hi % 4 < 2 THEN lower ELSE upper

arm_00_03(i) ==
  CASE ~Extended(i) -> Alu(Pair(i, "and", "eor"), Odd(i), "reg")
    [] i.ext = 9    -> Multiply(i, Pair(i, FALSE, TRUE))
    [] OTHER        -> HalfAccess(i, 0, "half_reg", TRUE, -1)
arm_04_07(i) ==
  IF ~Extended(i) THEN Alu(Pair(i, "sub", "rsb"), Odd(i), "reg")
  ELSE HalfAccess(i, 0, "half_imm", TRUE, -1)
arm_08_0B(i) ==
  CASE ~Extended(i) -> Alu(Pair(i, "add", "adc"), Odd(i), "reg")
    [] i.ext = 9    -> MultiplyLong(i, FALSE, Pair(i, FALSE, TRUE))
    [] OTHER        -> HalfAccess(i, 0, "half_reg", TRUE, 1)
arm_0C_0F(i) ==
  CASE ~Extended(i) -> Alu(Pair(i, "sbc", "rsc"), Odd(i), "reg")
    [] i.ext = 9    -> MultiplyLong(i, TRUE, Pair(i, FALSE, TRUE))
    [] OTHER        -> HalfAccess(i, 0, "half_imm", TRUE, 1)
arm_10_13(i) ==
  CASE ~Extended(i) /\ Odd(i)      -> Alu(Pair(i, "tst", "teq"), TRUE, "reg")
    [] ~Extended(i) /\ i.hi = 16   -> Psr("reg", "read", "cpsr")
    [] ~Extended(i) /\ i.ext % 2 = 1 -> [do |-> "bx"]
    [] ~Extended(i)                -> Psr("reg", "store", "cpsr")
    [] i.hi = 16 /\ i.ext = 9      -> [do |-> "swap", mem |-> "u32"]
    [] OTHER -> HalfAccess(i, -1, "half_reg", Pair(i, FALSE, TRUE), 0)
arm_14_17(i) ==
  CASE ~Extended(i) /\ Odd(i)    -> Alu(Pair(i, "cmp", "cmn"), TRUE, "reg")
    [] ~Extended(i)              -> Psr("reg", Pair(i, "read", "store"), "spsr")
    [] i.hi = 20 /\ i.ext = 9    -> [do |-> "swap", mem |-> "u8"]
    [] OTHER -> HalfAccess(i, -1, "half_imm", Pair(i, FALSE, TRUE), 0)
arm_18_1B(i) ==
  IF ~Extended(i) THEN Alu(Pair(i, "orr", "mov"), Odd(i), "reg")
  ELSE HalfAccess(i, 1, "half_reg", Pair(i, FALSE, TRUE), 0)
arm_1C_1F(i) ==
  IF ~Extended(i) THEN Alu(Pair(i, "bic", "mvn"), Odd(i), "reg")
  ELSE HalfAccess(i, 1, "half_imm", Pair(i, FALSE, TRUE), 0)

AluNames == <<"and", "eor", "sub", "rsb", "add", "adc", "sbc", "rsc",
              "tst", "teq", "cmp", "cmn", "orr", "mov", "bic", "mvn">>

arm_20_3F(i) ==
  IF i.hi \in {50, 54}
  THEN Psr("imm", "store", IF i.hi = 50 THEN "cpsr" ELSE "spsr")
  ELSE LET op == AluNames[((i.hi - 32) \div 2) + 1]
       IN  Alu(op, Odd(i) \/ op \in Tests, "imm")

ByteOrWord(i) == IF (i.hi \div 4) % 2 = 1 THEN "u8" ELSE "u32"
LoadOrStore(i) == IF Odd(i) THEN "load" ELSE "store"
Direction(i) == IF (i.hi \div 8) % 2 = 1 THEN 1 ELSE -1

\* Post-indexed: the write-back alone takes the offset.
arm_40_4F(i) == Access(LoadOrStore(i), 0, "imm", ByteOrWord(i), TRUE, Direction(i))
arm_60_6F(i) == Access(LoadOrStore(i), 0, "reg", ByteOrWord(i), TRUE, Direction(i))
\* Pre-indexed, written back when bit 21 is set.
arm_50_5F(i) ==
  Access(LoadOrStore(i), Direction(i), "imm", ByteOrWord(i), i.hi % 4 \in {2, 3}, 0)
arm_70_7F(i) ==
  Access(LoadOrStore(i), Direction(i), "reg", ByteOrWord(i), i.hi % 4 \in {2, 3}, 0)

Block(i, down, up) ==
  [do |-> "block", acc |-> LoadOrStore(i), s |-> (i.hi \div 4) % 2 = 1,
   off |-> IF Direction(i) = 1 THEN up ELSE down,
   wb  |-> CASE i.hi % 4 < 2 -> "no" [] Direction(i) = 1 -> "up" [] OTHER -> "down"]
arm_80_8F(i) == Block(i, "down_a", "no")
arm_90_9F(i) == Block(i, "down_b", "up")

decode_arm(i) ==
  CASE i.hi < 4   -> arm_00_03(i)
    [] i.hi < 8   -> arm_04_07(i)
    [] i.hi < 12  -> arm_08_0B(i)
    [] i.hi < 16  -> arm_0C_0F(i)
    [] i.hi < 20  -> arm_10_13(i)
    [] i.hi < 24  -> arm_14_17(i)
    [] i.hi < 28  -> arm_18_1B(i)
    [] i.hi < 32  -> arm_1C_1F(i)
    [] i.hi < 64  -> arm_20_3F(i)
    [] i.hi < 80  -> arm_40_4F(i)
    [] i.hi < 96  -> arm_50_5F(i)
    [] i.hi < 112 -> arm_60_6F(i)
    [] i.hi < 128 -> arm_70_7F(i)
    [] i.hi < 144 -> arm_80_8F(i)
    [] i.hi < 160 -> arm_90_9F(i)
    [] i.hi < 192 -> [do |-> "branch", link |-> i.hi >= 176]
    [] i.hi < 240 -> [do |-> "coprocessor"]
    [] OTHER      -> [do |-> "swi"]

\* The condition field, tested by skipping when it does not hold.
ConditionPasses(cond, m) ==
  CASE cond = 0  -> m.z = 1
    [] cond = 1  -> m.z = 0
    [] cond = 2  -> m.c = 1
    [] cond = 3  -> m.c = 0
    [] cond = 4  -> m.n = 1
    [] cond = 5  -> m.n = 0
    [] cond = 6  -> m.v = 1
    [] cond = 7  -> m.v = 0
    [] cond = 8  -> ~(m.c = 0 \/ m.z = 1)
    [] cond = 9  -> ~(m.c = 1 /\ m.z = 0)
    [] cond = 10 -> m.n = m.v
    [] cond = 11 -> m.n # m.v
    [] cond = 12 -> ~(m.z = 1 \/ m.n # m.v)
    [] cond = 13 -> ~(m.z = 0 /\ m.n = m.v)
    [] cond = 14 -> TRUE

Arithmetic(d) == d.op \notin Logical

execute_arm_instruction(i, m0) ==
  LET d == decode_arm(i)
      m == GoTo(m0, Trunc(m0.pc + 4))
  IN  CASE ~ConditionPasses(i.cond, m0) -> m
        [] d.do = "alu" /\ ~d.s -> arm_data_proc(d, i, m)
        [] d.do = "alu" /\ d.s /\ ~Arithmetic(d) -> arm_data_proc_logic_flags(d, i, m)
        [] d.do = "alu" /\ d.s /\ Arithmetic(d) -> arm_data_proc_arith_flags(d, i, m)
        [] d.do = "mul"    -> arm_multiply(d, i, m)
        [] d.do = "mull"   -> arm_multiply_long(d, i, m)
        [] d.do = "access" -> arm_access_memory(d, i, m)
        [] d.do = "block"  -> arm_block_memory(d, i, m)
        [] d.do = "swap"   -> arm_swap(d, i, m)
        [] d.do = "branch" -> arm_branch(d, i, m)
        [] d.do = "bx"     -> arm_bx(i, m)
=============================================================================
