----------------------------- MODULE Sh4Helpers -----------------------------
(***************************************************************************)
(* The C functions of dc/sh4_helpers.c that code emitted for the Dreamcast *)
(* calls: the counterparts of X86Helpers, with shift amounts masked to the *)
(* low byte, overflow from signs and carries that count the carry in.      *)
(***************************************************************************)
EXTENDS Words

Result(val, m) == [val |-> val, m |-> m]

calculate_flags_add(m, sa, sb, d) ==
  [SetNZ(m, d) EXCEPT !.c = Truth(d < sa),
                      !.v = Truth(Sign(sa) = Sign(sb) /\ Sign(sa) # Sign(d))]
calculate_flags_sub(m, sa, sb, d) ==
  [SetNZ(m, d) EXCEPT !.c = Truth(sb <= sa),
                      !.v = Truth(Sign(sa) # Sign(sb) /\ Sign(sa) # Sign(d))]

Masked(s) == s % 2^A

shift_reg(kind, x, amount) ==
  LET s == Masked(amount)
  IN  CASE s = 0        -> x
        [] kind = "lsl" -> IF s > W - 1 THEN 0 ELSE Lsl(x, s)
        [] kind = "lsr" -> IF s > W - 1 THEN 0 ELSE Lsr(x, s)
        [] kind = "asr" -> IF s > W - 1 THEN Asr(x, W - 1) ELSE Asr(x, s)
        [] kind = "ror" -> IF s % W = 0 THEN x ELSE Lsr(x, s % W) + Lsl(x, W - (s % W))

shift_reg_carry(kind, x, amount, c) ==
  LET s == Masked(amount)
  IN  CASE s = 0        -> c
        [] kind = "lsl" -> IF s > W THEN 0 ELSE BitOf(x, W - s)
        [] kind = "lsr" -> IF s > W THEN 0 ELSE BitOf(x, s - 1)
        [] kind = "asr" -> IF s > W - 1 THEN Sign(x) ELSE BitOf(x, s - 1)
        [] kind = "ror" -> Sign(shift_reg(kind, x, amount))

shift_by_register(kind, flags, x, s, m) ==
  Result(shift_reg(kind, x, s),
         IF flags THEN [m EXCEPT !.c = shift_reg_carry(kind, x, s, m.c)] ELSE m)

shift_reg_op(kind, x, s, m) ==
  LET shifted == shift_by_register(kind, TRUE, x, s, m)
  IN  Result(shifted.val, SetNZ(shifted.m, shifted.val))

shift_imm_op(kind, x, s, m) ==
  LET val == CASE kind = "lsl" -> Lsl(x, s)
               [] kind = "lsr" -> IF s = 0 THEN 0 ELSE Lsr(x, s)
               [] kind = "asr" -> Asr(x, IF s = 0 THEN W - 1 ELSE s)
      c == CASE s = 0 /\ kind = "lsl" -> m.c
             [] s = 0        -> Sign(x)
             [] kind = "lsl" -> BitOf(x, W - s)
             [] OTHER        -> BitOf(x, s - 1)
  IN  Result(val, SetNZ([m EXCEPT !.c = c], val))

execute_rrx(x, m) == Rrx(x, m.c)
execute_rrx_flags(x, m) == Result(Rrx(x, m.c), [m EXCEPT !.c = BitOf(x, 0)])

\* The flags of rn - rm - (carry ^ 1) are those of rn - rm, but for the carry,
\* and N and Z which come from the result.
execute_sbcs(rm, rn, m) ==
  LET d == Trunc(rn - rm - (1 - m.c))
      f == calculate_flags_sub(m, rn, rm, d)
  IN  Result(d, [f EXCEPT !.c = Truth(rn > rm \/ (rn = rm /\ m.c = 1))])
\* A mutant: the carry in is left out of the carry out.
execute_adcs_unsigned(rm, rn, m) ==
  LET d == Trunc(rn + rm + m.c)
  IN  Result(d, calculate_flags_add(m, rn, rm, d))
execute_adcs(rm, rn, m) ==
  LET d == Trunc(rn + rm + m.c)
      f == calculate_flags_add(m, rn, rm, d)
  IN  Result(d, [f EXCEPT !.c = Truth(d < rn \/ (d = rn /\ m.c = 1))])

execute(op, s, rm, rn, m) ==
  LET logic(val) == Result(val, IF s THEN SetNZ(m, val) ELSE m)
      sub(a, b) == Result(Trunc(a - b),
                          IF s THEN calculate_flags_sub(m, a, b, Trunc(a - b)) ELSE m)
  IN  CASE op \in {"and", "tst"} -> logic(rn & rm)
        [] op \in {"eor", "teq"} -> logic(rn ^^ rm)
        [] op = "orr" -> logic(rn | rm)
        [] op = "bic" -> logic(rn & NotW(rm))
        [] op = "mul" -> logic(Trunc(rn * rm))
        [] op = "mov" -> logic(rm)
        [] op = "mvn" -> logic(NotW(rm))
        [] op \in {"sub", "cmp"} -> sub(rn, rm)
        [] op = "rsb" -> sub(rm, rn)
        [] op = "neg" -> sub(0, rm)
        [] op = "sbc" -> IF s THEN execute_sbcs(rm, rn, m)
                         ELSE Result(Trunc(rn - rm - (1 - m.c)), m)
        [] op = "rsc" -> IF s THEN execute_sbcs(rn, rm, m)
                         ELSE Result(Trunc(rm + m.c - 1 - rn), m)
        [] op \in {"add", "cmn"} ->
             Result(Trunc(rn + rm),
                    IF s THEN calculate_flags_add(m, rn, rm, Trunc(rn + rm)) ELSE m)
        [] op = "adc" -> IF s THEN execute_adcs(rm, rn, m)
                         ELSE Result(Trunc(rn + rm + m.c), m)

execute_mul_flags(m, val) == SetNZ(m, val)
execute_mul_long_flags(m, lo, hi) ==
  [m EXCEPT !.z = Truth(lo = 0 /\ hi = 0), !.n = Sign(hi)]

\* One 64-bit result, returned through REG_SAVE and REG_SAVE2.
multiply_long(name, rm, rs, lo, hi) ==
  LET signed == name \in {"s64", "s64_add"}
      accumulate == name \in {"u64_add", "s64_add"}
      product == IF signed THEN Signed(rm) * Signed(rs) ELSE rm * rs
      sum == (product + (IF accumulate THEN hi * 2^W + lo ELSE 0)) % 2^(2 * W)
  IN  [lo |-> Trunc(sum), hi |-> sum \div 2^W]

\* As in X86Helpers, but a loaded program counter is aligned to an ARM address.
execute_arm_block_memory(i, m) ==
  LET load == i.hi % 2 = 1
      writeback == (i.hi \div 2) % 2 = 1
      up == (i.hi \div 8) % 2 = 1
      pre == (i.hi \div 16) % 2 = 1
      base == m.r[i.rn]
      size == 4 * Cardinality(i.list)
      address == Aligned(Trunc(CASE pre /\ up   -> base + 4
                                 [] pre /\ ~up  -> base - size
                                 [] ~pre /\ up  -> base
                                 [] ~pre /\ ~up -> base - size + 4), 4)
      regs == i.list \ {PC}
      m1 == IF load THEN LoadBlock(m, address, regs) ELSE StoreBlock(m, address, regs, m.r)
      m2 == IF ~writeback \/ (load /\ i.rn \in i.list) THEN m1
            ELSE SetReg(m1, i.rn, Trunc(IF up THEN base + size ELSE base - size))
      last == Slot(address, i.list, PC)
  IN  CASE PC \notin i.list -> Result(0, m2)
        [] load -> Result(Aligned(Loaded("u32", last), 4), Load(m2, "u32", last))
        [] OTHER -> Result(0, Store(m2, "u32", last, Trunc(m.pc + 8)))
=============================================================================
