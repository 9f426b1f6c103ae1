------------------------- MODULE ThumbInterpreter -------------------------
(***************************************************************************)
(* The Thumb half of the interpreter of cpu.c.  A three-register memory    *)
(* form calls its base rs and its offset register rn here; where an opcode *)
(* names a register in bits 10-8 it is the low part of hi.                 *)
(***************************************************************************)
EXTENDS Interpreter

thumb_add(m, rd, sa, sb) ==
  SetReg(calculate_flags_add(m, sa, sb), rd, Trunc(sa + sb))
\* The flag macros cast their arguments without parentheses.  When src_a is a sum
\* the cast takes its first term only and the test for V compares unsigned words:
\* V comes out as C.
thumb_add_of_sum(m, rd, sa, sb) ==
  LET f == calculate_flags_add(m, sa, sb)
  IN  SetReg([f EXCEPT !.v = f.c], rd, Trunc(sa + sb))
thumb_sub(m, rd, sa, sb) ==
  SetReg(calculate_flags_sub(m, sa, sb), rd, Trunc(sa - sb))
thumb_logic(m, rd, val) == SetReg(calculate_flags_logic(m, val), rd, val)
thumb_add_noflags(m, rd, sa, sb) == SetReg(m, rd, Trunc(sa + sb))

\* The immediate forms move rs, the register forms rd by the value of rs.
thumb_shift_imm(kind, i, m) ==
  LET k == CASE kind = "lsl" -> 0 [] kind = "lsr" -> 2 [] kind = "asr" -> 4
      x == m.r[i.rs]
      val == CASE kind = "lsl" -> Lsl(x, i.amt)
               [] kind = "lsr" -> IF i.amt = 0 THEN 0 ELSE Lsr(x, i.amt)
               [] kind = "asr" -> Asr(x, IF i.amt = 0 THEN W - 1 ELSE i.amt)
      c == IF i.amt = 0
           THEN IF kind = "lsl" THEN m.c ELSE Sign(x)
           ELSE BitOf(x, IF kind = "lsl" THEN W - i.amt ELSE i.amt - 1)
  IN  thumb_logic([m EXCEPT !.c = c], i.rd, val)

thumb_shift_reg(kind, i, m) ==
  LET x == m.r[i.rd]
      s == m.r[i.rs]
      val == CASE kind = "lsl" -> IF s < W THEN Lsl(x, s) ELSE 0
               [] kind = "lsr" -> IF s < W THEN Lsr(x, s) ELSE 0
               [] kind = "asr" -> Asr(x, IF s < W THEN s ELSE W - 1)
               [] kind = "ror" -> Ror(x, s)
      c == CASE s = 0 -> m.c
             [] kind = "lsl" -> IF s <= W THEN BitOf(x, W - s) ELSE 0
             [] kind = "lsr" -> IF s <= W THEN BitOf(x, s - 1) ELSE 0
             [] kind = "asr" -> IF s < W THEN BitOf(x, s - 1) ELSE Sign(x)
             [] kind = "ror" -> BitOf(x, (s - 1) % W)
  IN  thumb_logic([m EXCEPT !.c = c], i.rd, val)

-----------------------------------------------------------------------------
(* The cases of execute_thumb_instruction, by opcode group. *)

thumb_00_1F(i, m) ==
  LET a == m.r[i.rs]
      b == IF i.hi < 28 THEN m.r[i.rn] ELSE i.imm
  IN  CASE i.hi < 8  -> thumb_shift_imm("lsl", i, m)
        [] i.hi < 16 -> thumb_shift_imm("lsr", i, m)
        [] i.hi < 24 -> thumb_shift_imm("asr", i, m)
        [] i.hi % 4 < 2 -> thumb_add(m, i.rd, a, b)
        [] OTHER        -> thumb_sub(m, i.rd, a, b)

thumb_20_3F(i, m) ==
  LET rd == i.hi % 8
  IN  CASE i.hi < 40 -> thumb_logic(m, rd, i.imm)
        [] i.hi < 48 -> calculate_flags_sub(m, m.r[rd], i.imm)
        [] i.hi < 56 -> thumb_add(m, rd, m.r[rd], i.imm)
        [] OTHER     -> thumb_sub(m, rd, m.r[rd], i.imm)

ThumbAlu == << <<"and", "eor", "lsl", "lsr">>, <<"asr", "adc", "sbc", "ror">>,
               <<"tst", "neg", "cmp", "cmn">>, <<"orr", "mul", "bic", "mvn">> >>

\* The case commented SBC is built on thumb_add: the borrow is added.
thumb_40_43(i, m) ==
  LET op == ThumbAlu[i.hi - 63][i.sub + 1]
      a == m.r[i.rd]
      b == m.r[i.rs]
  IN  CASE op \in Kinds -> thumb_shift_reg(op, i, m)
        [] op \in {"and", "eor", "orr", "bic", "mvn"} ->
             thumb_logic(m, i.rd, Expression(op, a, b, m.c))
        [] op = "mul" -> thumb_logic(m, i.rd, Trunc(a * b))
        [] op = "tst" -> calculate_flags_logic(m, a & b)
        [] op = "cmp" -> calculate_flags_sub(m, a, b)
        [] op = "cmn" -> calculate_flags_add(m, a, b)
        [] op = "neg" -> thumb_sub(m, i.rd, 0, b)
        [] op = "adc" -> thumb_add_of_sum(m, i.rd, Trunc(a + b), m.c)
        [] op = "sbc" -> thumb_add_of_sum(m, i.rd, Trunc(a - b), 1 - m.c)

\* ADD, CMP and MOV on any register, and BX; the program counter reads 4 ahead.
thumb_hireg_op(m, rd, val) ==
  IF rd = PC THEN GoTo(m, Aligned(val, 2)) ELSE SetReg(m, rd, val)

thumb_44_47(i, m) ==
  LET a == Operand(m, i.rd, 4)
      b == Operand(m, i.rs, 4)
  IN  CASE i.hi = 68 -> thumb_hireg_op(m, i.rd, Trunc(a + b))
        [] i.hi = 69 -> calculate_flags_sub(m, a, b)
        [] i.hi = 70 -> thumb_hireg_op(m, i.rd, b)
        [] i.hi = 71 -> [m EXCEPT !.next = b - BitOf(b, 0), !.t = BitOf(b, 0)]

thumb_access_memory(acc, m, address, rd, mem) ==
  IF acc = "store" THEN Store(m, mem, address, m.r[rd])
  ELSE SetReg(Load(m, mem, address), rd, Loaded(mem, address))

ThumbRegForms == << <<"store", "u32">>, <<"store", "u16">>, <<"store", "u8">>,
                    <<"load", "s8">>, <<"load", "u32">>, <<"load", "u16">>,
                    <<"load", "u8">>, <<"load", "s16">> >>

thumb_48_5F(i, m) ==
  IF i.hi < 80
  THEN thumb_access_memory("load", m, Trunc(Aligned(m.pc, 4) + 4 * i.imm + 4),
                           i.hi % 8, "u32")
  ELSE LET form == ThumbRegForms[((i.hi - 80) \div 2) + 1]
       IN  thumb_access_memory(form[1], m, Trunc(m.r[i.rs] + m.r[i.rn]), i.rd, form[2])

ThumbLoadOrStore(i) == IF (i.hi \div 8) % 2 = 1 THEN "load" ELSE "store"

thumb_60_9F(i, m) ==
  LET mem == CASE i.hi < 112 -> "u32" [] i.hi < 128 -> "u8" [] i.hi < 144 -> "u16"
               [] OTHER -> "u32"
      size == CASE mem = "u32" -> 4 [] mem = "u16" -> 2 [] mem = "u8" -> 1
      sp == i.hi >= 144
  IN  thumb_access_memory(ThumbLoadOrStore(i), m,
                          Trunc((IF sp THEN m.r[SP] ELSE m.r[i.rs]) + size * i.imm),
                          IF sp THEN i.hi % 8 ELSE i.rd, mem)

thumb_A0_B3(i, m) ==
  CASE i.hi < 168 -> thumb_add_noflags(m, i.hi % 8, Aligned(m.pc, 4) + 4, 4 * i.imm)
    [] i.hi < 176 -> thumb_add_noflags(m, i.hi % 8, m.r[SP], 4 * i.imm)
    [] OTHER      -> thumb_add_noflags(m, SP, m.r[SP],
                                       IF i.sub >= 2 THEN -(4 * i.imm) ELSE 4 * i.imm)

\* Registers first, then LR or the program counter, then the base.
thumb_block_memory(acc, pre, post, base, i, m) ==
  LET size == 4 * Cardinality(i.list)
      from == Aligned(m.r[base], 4)
      start == Trunc(CASE pre = "down" -> from - size
                       [] pre = "push_lr" -> from - size - 4
                       [] OTHER -> from)
      end == Trunc(start + size)
      m1 == IF acc = "load" THEN LoadBlock(m, start, i.list)
                            ELSE StoreBlock(m, start, i.list, m.r)
      m2 == CASE post = "pop_pc"  -> GoTo(Load(m1, "u32", end),
                                          Aligned(Loaded("u32", end), 2))
              [] post = "push_lr" -> Store(m1, "u32", end, m.r[LR])
              [] OTHER -> m1
      address == CASE post = "up" -> end [] post = "pop_pc" -> Trunc(end + 4)
                   [] OTHER -> start
  IN  IF acc = "load" /\ base \in i.list THEN m2 ELSE SetReg(m2, base, address)

thumb_B4_CF(i, m) ==
  CASE i.hi = 180 -> thumb_block_memory("store", "down", "no_op", SP, i, m)
    [] i.hi = 181 -> thumb_block_memory("store", "push_lr", "push_lr", SP, i, m)
    [] i.hi = 188 -> thumb_block_memory("load", "no_op", "up", SP, i, m)
    [] i.hi = 189 -> thumb_block_memory("load", "no_op", "pop_pc", SP, i, m)
    [] i.hi < 200 -> thumb_block_memory("store", "no_op", "up", i.hi % 8, i, m)
    [] OTHER      -> thumb_block_memory("load", "no_op", "up", i.hi % 8, i, m)

\* The conditional branches test HI and LS as the condition holds, not as it fails.
thumb_D0_DD(i, m) ==
  IF ConditionPasses(i.hi - 208, m) THEN GoTo(m, Trunc(m.pc + 2 * i.imm + 4)) ELSE m

\* B, and BL in its two halves: the first leaves the target's page in LR.
thumb_E0_FF(i, m) ==
  CASE i.hi < 232 -> GoTo(m, Trunc(m.pc + 2 * i.imm + 4))
    [] i.hi < 248 -> SetReg(m, LR, Trunc(m.pc + 4 + 2^(W - 1) * i.imm))
    [] OTHER -> GoTo(SetReg(m, LR, Trunc(m.pc + 2) | 1),
                     Aligned(Trunc(m.r[LR] + 2 * i.imm), 2))

execute_thumb_instruction(i, m0) ==
  LET m == GoTo(m0, Trunc(m0.pc + 2))
  IN  CASE i.hi < 32  -> thumb_00_1F(i, m)
        [] i.hi < 64  -> thumb_20_3F(i, m)
        [] i.hi < 68  -> thumb_40_43(i, m)
        [] i.hi < 72  -> thumb_44_47(i, m)
        [] i.hi < 96  -> thumb_48_5F(i, m)
        [] i.hi < 160 -> thumb_60_9F(i, m)
        [] i.hi < 180 -> thumb_A0_B3(i, m)
        [] i.hi < 208 -> thumb_B4_CF(i, m)
        [] i.hi < 222 -> thumb_D0_DD(i, m)
        [] OTHER      -> thumb_E0_FF(i, m)
=============================================================================
