---------------------------- MODULE EmittedCode ----------------------------
(***************************************************************************)
(* What the native code for one instruction does: the emitter macros of    *)
(* x86/x86_emit.h, with the C helpers they call left as parameters.  The   *)
(* Dreamcast's dc/sh4_instr.inc holds the same macros over its own         *)
(* instruction emitters, so one module serves both back ends, with the     *)
(* helpers of each.  In the comments and names a0, a1, a2 and s0 are the   *)
(* host registers the macros name.                                         *)
(***************************************************************************)
EXTENDS Translator

CONSTANTS Execute(_, _, _, _, _), ShiftByRegister(_, _, _, _, _), RegOp(_, _, _, _),
          ImmOp(_, _, _, _), ExecuteRrx(_, _), RrxFlags(_, _), MulFlags(_, _),
          MulLongFlags(_, _, _), LongProduct(_, _, _, _, _), BlockMemory(_, _)

\* Where a translated block ends: the dispatchers look a target up as ARM, as
\* Thumb, or as whichever its lowest bit says.
indirect_branch_arm(m, a)   == GoTo(m, Aligned(a, 4))
indirect_branch_thumb(m, a) == GoTo(m, Aligned(a, 2))
indirect_branch_dual(m, a)  ==
  IF BitOf(a, 0) = 1 THEN [m EXCEPT !.next = a - 1, !.t = 1]
                     ELSE [m EXCEPT !.next = Aligned(Trunc(a + 2), 4), !.t = 0]

store_reg_pc_no_flags(m, val, rd) ==
  IF rd = PC THEN indirect_branch_arm(m, val) ELSE SetReg(m, rd, val)

-----------------------------------------------------------------------------
(* Conditions: the emitted test either looks at the low bit of a0 or        *)
(* compares a0 with a1, and the code runs on when the test says so.         *)

Check(type, a, b) == [type |-> type, a |-> a, b |-> b]
generate_condition(condition, m) ==
  CASE condition = "eq" -> Check("true", m.z, 0)
    [] condition = "ne" -> Check("false", m.z, 0)
    [] condition = "cs" -> Check("true", m.c, 0)
    [] condition = "cc" -> Check("false", m.c, 0)
    [] condition = "mi" -> Check("true", m.n, 0)
    [] condition = "pl" -> Check("false", m.n, 0)
    [] condition = "vs" -> Check("true", m.v, 0)
    [] condition = "vc" -> Check("false", m.v, 0)
    [] condition = "hi" -> Check("false", (m.c ^^ 1) | m.z, 0)
    [] condition = "ls" -> Check("true", (m.c ^^ 1) | m.z, 0)
    [] condition = "ge" -> Check("equal", m.n, m.v)
    [] condition = "lt" -> Check("not_equal", m.n, m.v)
    [] condition = "gt" -> Check("false", m.z | (m.n ^^ m.v), 0)
    [] condition = "le" -> Check("true", m.z | (m.n ^^ m.v), 0)

generate_conditional_branch_type(check) ==
  CASE check.type = "true"      -> check.a = 1
    [] check.type = "false"     -> check.a = 0
    [] check.type = "equal"     -> check.a = check.b
    [] check.type = "not_equal" -> check.a # check.b

Conditions == <<"eq", "ne", "cs", "cc", "mi", "pl", "vs", "vc",
                "hi", "ls", "ge", "lt", "gt", "le">>

-----------------------------------------------------------------------------
(* The shifter: immediate shifts are emitted inline, shifts by a register   *)
(* call a helper with the amount in a1.                                     *)

shift_imm_no_flags(kind, shift, x, m) ==
  CASE kind = "lsl" -> Lsl(x, shift)
    [] kind = "lsr" -> IF shift = 0 THEN 0 ELSE Lsr(x, shift)
    [] kind = "asr" -> Asr(x, IF shift = 0 THEN W - 1 ELSE shift)
    [] kind = "ror" -> IF shift = 0 THEN ExecuteRrx(x, m) ELSE Ror(x, shift)

shift_imm_flags(kind, shift, x, m) ==
  LET carry(b) == [m EXCEPT !.c = b]
      last == (IF kind \in {"asr", "ror"} THEN Asr(x, shift - 1) ELSE Lsr(x, shift - 1)) & 1
      val == shift_imm_no_flags(kind, shift, x, m)
      to(f) == [val |-> val, m |-> f]
  IN  CASE shift = 0 /\ kind = "lsl" -> to(m)
        [] shift = 0 /\ kind = "lsr" -> to(carry(Lsr(x, W - 1)))
        [] shift = 0 /\ kind = "asr" -> to(carry(Asr(x, W - 1) & 1))
        [] shift = 0 /\ kind = "ror" -> RrxFlags(x, m)
        [] kind = "lsl" -> to(carry(Lsr(x, W - shift) & 1))
        [] OTHER        -> to(carry(last))

KindNames == <<"lsl", "lsr", "asr", "ror">>

\* generate_load_rm_sh: bit 4 of the opcode says the amount is in a register.
load_rm_sh(i, flags, m) ==
  LET kind == KindNames[((i.ext % 8) \div 2) + 1]
      x(ahead) == Operand(m, i.rm, ahead)
  IN  CASE i.ext % 2 = 1 -> ShiftByRegister(kind, flags, x(12), Operand(m, i.rs, 8), m)
        [] i.ext % 2 = 0 /\ flags -> shift_imm_flags(kind, i.amt, x(8), m)
        [] OTHER -> [val |-> shift_imm_no_flags(kind, i.amt, x(8), m), m |-> m]

load_offset_sh(i, m) ==
  shift_imm_no_flags(KindNames[((i.ext % 8) \div 2) + 1], i.amt, Operand(m, i.rm, 8), m)

-----------------------------------------------------------------------------
(* ARM data processing and multiplies. *)

\* A write to the program counter with S also restores the status: CpuModes.
arm_data_proc(d, i, m) ==
  LET operand == IF d.type = "imm" THEN [val |-> i.imm, m |-> m]
                 ELSE load_rm_sh(i, d.type = "reg_flags", m)
      a1 == Operand(operand.m, i.rn, 8)
      done == Execute(d.name, d.s, operand.val, a1, operand.m)
  IN  CASE d.name \in {"tst", "teq", "cmp", "cmn"} -> done.m
        [] d.name = "mov" /\ ~d.s -> store_reg_pc_no_flags(operand.m, operand.val, i.rd)
        [] OTHER -> store_reg_pc_no_flags(done.m, done.val, i.rd)

arm_multiply(d, i, m) ==
  LET a0 == Trunc(m.r[i.rm] * m.r[i.rs] + (IF d.add THEN m.r[i.rn] ELSE 0))
      stored == SetReg(m, i.rd, a0)
  IN  IF d.s THEN MulFlags(stored, a0) ELSE stored

arm_multiply_long(d, i, m) ==
  LET product == LongProduct(d.name, m.r[i.rm], m.r[i.rs], m.r[i.rd], m.r[i.rn])
      stored == SetReg(SetReg(m, i.rd, product.lo), i.rn, product.hi)
  IN  IF d.s THEN MulLongFlags(stored, product.lo, product.hi) ELSE stored

-----------------------------------------------------------------------------
(* ARM memory: the base is written back before a store loads its value, and  *)
(* before a load overwrites it.                                             *)

arm_access_memory(d, i, m) ==
  LET a1 == CASE d.type = "reg" -> load_offset_sh(i, m)
              [] d.type = "half_reg" -> m.r[i.rm]
              [] OTHER -> i.imm
      base == Operand(m, i.rn, 8)
      adjusted == Trunc(IF d.dir = "up" THEN base + a1 ELSE base - a1)
      address == CASE d.adjust = "post" /\ d.dir = "up"   -> Trunc(adjusted - a1)
                   [] d.adjust = "post" /\ d.dir = "down" -> Trunc(adjusted + a1)
                   [] OTHER -> adjusted
      moved == IF d.adjust = "pre" THEN m ELSE SetReg(m, i.rn, adjusted)
  IN  IF d.acc = "load"
      THEN store_reg_pc_no_flags(Load(moved, d.mem, address), Loaded(d.mem, address), i.rd)
      ELSE Store(moved, d.mem, address, Operand(moved, i.rd, 12))

arm_block_memory(i, m) ==
  LET done == BlockMemory(i, m)
  IN  IF i.hi % 2 = 1 /\ PC \in i.list THEN indirect_branch_dual(done.m, done.val)
      ELSE done.m

arm_swap(d, i, m) ==
  LET a0 == m.r[i.rn]
      s0 == Loaded(d.mem, a0)
  IN  SetReg(Store(Load(m, d.mem, a0), d.mem, a0, m.r[i.rm]), i.rd, s0)

arm_bx(i, m) == indirect_branch_dual(m, m.r[i.rn])

\* Direct branches are patched to the block of the target the scan recorded.
arm_b(i, m)  == GoTo(m, Trunc(m.pc + 8 + i.imm))
arm_bl(i, m) == arm_b(i, SetReg(m, LR, Trunc(m.pc + 4)))

emit_arm(i, m0) ==
  LET d == translate_arm_instruction(i)
      m == GoTo(m0, Trunc(m0.pc + 4))
      runs == i.cond = 14
              \/ generate_conditional_branch_type(
                   generate_condition(Conditions[i.cond + 1], m))
  IN  CASE ~runs -> m
        [] runs /\ d.do = "data_proc"     -> arm_data_proc(d, i, m)
        [] runs /\ d.do = "multiply"      -> arm_multiply(d, i, m)
        [] runs /\ d.do = "multiply_long" -> arm_multiply_long(d, i, m)
        [] runs /\ d.do = "access"        -> arm_access_memory(d, i, m)
        [] runs /\ d.do = "block"         -> arm_block_memory(i, m)
        [] runs /\ d.do = "swap"          -> arm_swap(d, i, m)
        [] runs /\ d.do = "bx"            -> arm_bx(i, m)
        [] runs /\ d.do = "b"             -> arm_b(i, m)
        [] runs /\ d.do = "bl"            -> arm_bl(i, m)

-----------------------------------------------------------------------------
(* Thumb. *)

\* rn is the operand in a0, rs the one in a1.
thumb_data_proc(d, i, m) ==
  LET a0 == IF d.src = "imm" THEN i.imm ELSE m.r[d.rn]
      done == Execute(d.name, TRUE, a0, m.r[d.rs], m)
  IN  IF d.do = "test" THEN done.m ELSE SetReg(done.m, d.rd, done.val)

thumb_shift(d, i, m) ==
  LET done == IF d.src = "imm" THEN ImmOp(d.name, m.r[i.rs], i.amt, m)
              ELSE RegOp(d.name, m.r[i.rd], m.r[i.rs], m)
  IN  SetReg(done.m, i.rd, done.val)

store_reg_pc_thumb(m, val, rd) ==
  IF rd = PC THEN indirect_branch_thumb(m, val) ELSE SetReg(m, rd, val)

thumb_data_proc_hi(d, i, m) ==
  LET a0 == Operand(m, i.rs, 4)
      a1 == Operand(m, i.rd, 4)
  IN  CASE d.name = "add" -> store_reg_pc_thumb(m, Execute("add", FALSE, a0, a1, m).val, i.rd)
        [] d.name = "cmp" -> Execute("cmp", TRUE, a0, a1, m).m
        [] d.name = "mov" -> store_reg_pc_thumb(m, a0, i.rd)

thumb_access_memory(d, m) ==
  LET a0 == CASE d.address = "pc_relative" -> Trunc(Aligned(m.pc, 4) + d.offset)
              [] d.address = "reg_imm"     -> Trunc(m.r[d.rb] + d.offset)
              [] d.address = "reg_reg"     -> Trunc(m.r[d.rb] + m.r[d.ro])
  IN  IF d.acc = "load" THEN SetReg(Load(m, d.mem, a0), d.rd, Loaded(d.mem, a0))
      ELSE Store(m, d.mem, a0, m.r[d.rd])

thumb_load_pc(d, i, m) == SetReg(m, d.rd, Trunc(Aligned(m.pc, 4) + 4 + 4 * i.imm))
thumb_load_sp(d, i, m) == SetReg(m, d.rd, Trunc(m.r[SP] + 4 * i.imm))
thumb_adjust_sp(d, m)  == SetReg(m, SP, Trunc(m.r[SP] + d.by))

\* The base is written back first, so a store may read it moved.
thumb_block_memory(d, i, m) ==
  LET size == 4 * Cardinality(i.list)
      from == Aligned(m.r[d.base], 4)
      s0 == Trunc(CASE d.pre = "down"    -> from - size
                    [] d.pre = "push_lr" -> from - size - 4
                    [] d.pre = "no"      -> from)
      end == Trunc(s0 + size)
      base == CASE d.post = "up" -> end
                [] d.post = "pop_pc" -> Trunc(end + 4)
                [] d.post \in {"no", "push_lr"} -> s0
      m1 == SetReg(m, d.base, base)
      m2 == IF d.acc = "load" THEN LoadBlock(m1, s0, i.list)
                              ELSE StoreBlock(m1, s0, i.list, m1.r)
  IN  CASE d.post = "pop_pc" -> indirect_branch_thumb(Load(m2, "u32", end), Loaded("u32", end))
        [] d.post = "push_lr" -> Store(m2, "u32", end, m2.r[LR])
        [] OTHER -> m2

thumb_conditional_branch(d, i, m) ==
  IF generate_conditional_branch_type(generate_condition(d.condition, m))
  THEN GoTo(m, Trunc(m.pc + 4 + 2 * i.imm)) ELSE m

thumb_bx(i, m) == indirect_branch_dual(m, Operand(m, i.rs, 4))
thumb_b(i, m)  == GoTo(m, Trunc(m.pc + 4 + 2 * i.imm))
\* Nothing is emitted for the first half of BL.  When the second half follows it in
\* the block the scan has put both displacements together.
thumb_bl_first(m) == m
thumb_bl(i, m) ==
  GoTo(SetReg(m, LR, Trunc(m.pc + 2) | 1),
       Trunc(m.pc + 2 + 2^(W - 1) * i.first + 2 * i.imm))
thumb_blh(i, m) ==
  indirect_branch_thumb(SetReg(m, LR, Trunc(m.pc + 2) | 1), Trunc(m.r[LR] + 2 * i.imm))

emit_thumb(i, m0) ==
  LET d == translate_thumb_instruction(i)
      m == GoTo(m0, Trunc(m0.pc + 2))
  IN  CASE d.do \in {"proc", "test", "unary"} -> thumb_data_proc(d, i, m)
        [] d.do = "shift"     -> thumb_shift(d, i, m)
        [] d.do = "hi"        -> thumb_data_proc_hi(d, i, m)
        [] d.do = "memory"    -> thumb_access_memory(d, m)
        [] d.do = "load_pc"   -> thumb_load_pc(d, i, m)
        [] d.do = "load_sp"   -> thumb_load_sp(d, i, m)
        [] d.do = "adjust_sp" -> thumb_adjust_sp(d, m)
        [] d.do = "block"     -> thumb_block_memory(d, i, m)
        [] d.do = "branch_if" -> thumb_conditional_branch(d, i, m)
        [] d.do = "bx"        -> thumb_bx(i, m)
        [] d.do = "b"         -> thumb_b(i, m)
        [] d.do = "bl_first"  -> thumb_bl_first(m)
        [] d.do = "bl"        -> thumb_bl(i, m)
        [] d.do = "blh"       -> thumb_blh(i, m)
=============================================================================
