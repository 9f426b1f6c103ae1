----------------------------- MODULE X86Helpers -----------------------------
(***************************************************************************)
(* The C functions code emitted by x86/x86_emit.h calls for data           *)
(* processing, shifts, multiplies and block transfers.  A helper that       *)
(* returns a value and sets flags yields [val, m].  The one argument order  *)
(* to remember: an execute_ function takes the shifted operand first.       *)
(***************************************************************************)
EXTENDS Words

Result(val, m) == [val |-> val, m |-> m]

calculate_flags_add(m, sa, sb) ==
  LET d == Trunc(sa + sb)
  IN  [SetNZ(m, d) EXCEPT !.c = Truth(d < sa),
                          !.v = Truth((Signed(d) < Signed(sa)) # (Signed(sb) < 0))]
calculate_flags_sub(m, sa, sb) ==
  LET d == Trunc(sa - sb)
  IN  [SetNZ(m, d) EXCEPT !.c = Truth(sb <= sa),
                          !.v = Truth((Signed(sb) > Signed(sa)) # (Signed(d) < 0))]

\* execute_lsl_no_flags_reg and its kin: the whole register is the amount.
shift_reg(kind, x, s) ==
  CASE s = 0         -> x
    [] kind = "lsl"  -> IF s > W - 1 THEN 0 ELSE Lsl(x, s)
    [] kind = "lsr"  -> IF s > W - 1 THEN 0 ELSE Lsr(x, s)
    [] kind = "asr"  -> IF s > W - 1 THEN Asr(x, W - 1) ELSE Asr(x, s)
    [] kind = "ror"  -> Ror(x, s)

\* A mutant: a left shift by the width itself leaves no carry.
shift_reg_carry_short(kind, x, s, c) ==
  CASE s = 0        -> c
    [] kind = "lsl" -> IF s > W - 1 THEN 0 ELSE BitOf(x, W - s)
    [] kind = "lsr" -> IF s > W THEN 0 ELSE BitOf(x, s - 1)
    [] kind = "asr" -> IF s > W - 1 THEN Sign(x) ELSE BitOf(x, s - 1)
    [] kind = "ror" -> BitOf(x, (s - 1) % W)

\* The carry execute_lsl_flags_reg and its kin store.
shift_reg_carry(kind, x, s, c) ==
  CASE s = 0        -> c
    [] kind = "lsl" -> IF s > W THEN 0 ELSE BitOf(x, W - s)
    [] kind = "lsr" -> IF s > W THEN 0 ELSE BitOf(x, s - 1)
    [] kind = "asr" -> IF s > W - 1 THEN Sign(x) ELSE BitOf(x, s - 1)
    [] kind = "ror" -> BitOf(x, (s - 1) % W)

shift_by_register(kind, flags, x, s, m) ==
  Result(shift_reg(kind, x, s),
         IF flags THEN [m EXCEPT !.c = shift_reg_carry(kind, x, s, m.c)] ELSE m)

\* execute_lsl_reg_op and its kin, which a Thumb shift by a register calls.
shift_reg_op(kind, x, s, m) ==
  LET val == shift_reg(kind, x, s)
  IN  Result(val, SetNZ([m EXCEPT !.c = shift_reg_carry(kind, x, s, m.c)], val))

\* execute_lsl_imm_op and its kin: an amount of zero is the width, but for LSL.
shift_imm_op(kind, x, s, m) ==
  LET val == CASE kind = "lsl" -> Lsl(x, s)
               [] kind = "lsr" -> IF s = 0 THEN 0 ELSE Lsr(x, s)
               [] kind = "asr" -> Asr(x, IF s = 0 THEN W - 1 ELSE s)
      c == CASE s = 0 /\ kind = "lsl" -> m.c
             [] s = 0        -> Sign(x)
             [] kind = "lsl" -> BitOf(x, W - s)
             [] OTHER        -> BitOf(x, s - 1)
  IN  Result(val, SetNZ([m EXCEPT !.c = c], val))

execute_rrx(x, m) == Rrx(x, m.c)
execute_rrx_flags(x, m) == Result(Rrx(x, m.c), [m EXCEPT !.c = BitOf(x, 0)])

\* execute_and to execute_cmn and, with s, their flag-setting forms.
execute(op, s, rm, rn, m) ==
  LET logic(val) == Result(val, IF s THEN SetNZ(m, val) ELSE m)
      sub(a, b) == Result(Trunc(Trunc(a) - b),
                          IF s THEN calculate_flags_sub(m, Trunc(a), b) ELSE m)
      add(a, b) == Result(Trunc(a + Trunc(b)),
                          IF s THEN calculate_flags_add(m, a, Trunc(b)) ELSE m)
  IN  CASE op \in {"and", "tst"} -> logic(rn & rm)
        [] op \in {"eor", "teq"} -> logic(rn ^^ rm)
        [] op = "orr" -> logic(rn | rm)
        [] op = "bic" -> logic(rn & NotW(rm))
        [] op = "mul" -> logic(Trunc(rn * rm))
        [] op = "mov" -> logic(rm)
        [] op = "mvn" -> logic(NotW(rm))
        [] op \in {"sub", "cmp"} -> sub(rn, rm)
        [] op = "rsb" -> sub(rm, rn)
        [] op = "sbc" -> sub(rn - rm, 1 - m.c)
        [] op = "rsc" -> sub(rm + m.c - 1, rn)
        [] op \in {"add", "cmn"} -> add(rn, rm)
        [] op = "adc" -> add(rn, rm + m.c)
        [] op = "neg" -> sub(0, rm)

execute_mul_flags(m, val) == SetNZ(m, val)
execute_mul_long_flags(m, lo, hi) ==
  [m EXCEPT !.z = Truth(lo = 0 /\ hi = 0), !.n = Sign(hi)]

\* mul and imul leave the product in edx:eax; add and adc accumulate on it.
multiply_long(name, rm, rs, lo, hi) ==
  LET signed == name \in {"s64", "s64_add"}
      product == (IF signed THEN Signed(rm) * Signed(rs) ELSE rm * rs) % 2^(2 * W)
      accumulate == name \in {"u64_add", "s64_add"}
      low == Trunc(product) + (IF accumulate THEN lo ELSE 0)
      high == product \div 2^W + (IF accumulate THEN hi ELSE 0) + low \div 2^W
  IN  [lo |-> Trunc(low), hi |-> Trunc(high)]

\* Transfers of the current bank; what S does to them is in CpuModes.  The
\* loaded program counter goes to the dispatcher for either state as it is.
execute_arm_block_memory(i, m) ==
  LET load == i.hi % 2 = 1
      writeback == (i.hi \div 2) % 2 = 1
      up == (i.hi \div 8) % 2 = 1
      pre == (i.hi \div 16) % 2 = 1
      base == m.r[i.rn]
      size == 4 * Cardinality(i.list)
      address == Aligned(Trunc(CASE pre /\ up   -> base + 4
                                 [] pre /\ ~up  -> base - size
                                 [] ~pre /\ up  -> base
                                 [] ~pre /\ ~up -> base - size + 4), 4)
      regs == i.list \ {PC}
      m1 == IF load THEN LoadBlock(m, address, regs) ELSE StoreBlock(m, address, regs, m.r)
      m2 == IF ~writeback \/ (load /\ i.rn \in i.list) THEN m1
            ELSE SetReg(m1, i.rn, Trunc(IF up THEN base + size ELSE base - size))
      last == Slot(address, i.list, PC)
  IN  CASE PC \notin i.list -> Result(0, m2)
        [] load -> Result(Loaded("u32", last), Load(m2, "u32", last))
        [] OTHER -> Result(0, Store(m2, "u32", last, Trunc(m.pc + 8)))
=============================================================================
