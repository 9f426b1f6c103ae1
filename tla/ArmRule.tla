------------------------------ MODULE ArmRule ------------------------------
(***************************************************************************)
(* What the architecture (ARMv4T) says an instruction does, decoded bit by *)
(* bit: the reference the interpreter and the native back ends are checked *)
(* against.  It shares with them only the words, the machine and the bus;  *)
(* the carry of a rotated immediate is left out, as no engine computes it. *)
(* Where the manual says UNPREDICTABLE no case is run, and where it leaves *)
(* a choice to the implementation (how far ahead a stored program counter  *)
(* reads) the project's choice is taken.                                   *)
(***************************************************************************)
EXTENDS Words

Bit(i, k) == BitOf(i.hi, k)

\* A shift of x by n: the value and the carry, each read off a wider word.
Shifted(kind, n, x, c) ==
  CASE n = 0 -> <<x, c>>
    [] n > 0 /\ kind = "lsl" -> <<Trunc(x * 2^n), BitOf(x * 2^n, W)>>
    [] n > 0 /\ kind = "lsr" -> <<x \div 2^n, BitOf(2 * x, n)>>
    [] n > 0 /\ kind = "asr" -> <<Trunc(Signed(x) \div 2^n), BitOf(2 * Signed(x), n)>>
    [] n > 0 /\ kind = "ror" ->
         LET y == (x \div 2^(n % W)) + Trunc(x * 2^(W - (n % W))) IN <<y % 2^W, Sign(y % 2^W)>>

\* An immediate amount of zero stands for the width, or for RRX.
ByImmediate(kind, n, x, c) ==
  CASE n = 0 /\ kind \in {"lsr", "asr"} -> Shifted(kind, W, x, c)
    [] n = 0 /\ kind = "ror" -> <<(x + c * 2^W) \div 2, x % 2>>
    [] OTHER -> Shifted(kind, n, x, c)

KindOf(i) == <<"lsl", "lsr", "asr", "ror">>[((i.ext % 8) \div 2) + 1]

\* x + y + carry, read as unsigned and as signed numbers.
AddWithCarry(x, y, carry) ==
  LET d == Trunc(x + y + carry)
  IN  [d |-> d, c |-> (x + y + carry) \div 2^W,
       v |-> Truth(Signed(x) + Signed(y) + carry # Signed(d))]

Opcodes == <<"and", "eor", "sub", "rsb", "add", "adc", "sbc", "rsc",
             "tst", "teq", "cmp", "cmn", "orr", "mov", "bic", "mvn">>

Sum(op, a, b, c) ==
  CASE op \in {"add", "cmn"} -> AddWithCarry(a, b, 0)
    [] op = "adc" -> AddWithCarry(a, b, c)
    [] op \in {"sub", "cmp"} -> AddWithCarry(a, NotW(b), 1)
    [] op = "sbc" -> AddWithCarry(a, NotW(b), c)
    [] op = "rsb" -> AddWithCarry(b, NotW(a), 1)
    [] op = "rsc" -> AddWithCarry(b, NotW(a), c)
Bitwise(op, a, b) ==
  CASE op \in {"and", "tst"} -> a & b
    [] op \in {"eor", "teq"} -> a ^^ b
    [] op = "orr" -> a | b
    [] op = "bic" -> a - (a & b)
    [] op = "mov" -> b
    [] op = "mvn" -> NotW(b)
IsLogical(op) == op \in {"and", "tst", "eor", "teq", "orr", "bic", "mov", "mvn"}

\* operand is the shifter's value and carry.
DataProcessing(op, s, a, operand, rd, m) ==
  LET r == IF IsLogical(op)
           THEN [d |-> Bitwise(op, a, operand[1]), c |-> operand[2], v |-> m.v]
           ELSE Sum(op, a, operand[1], m.c)
      f == IF s THEN [SetNZ(m, r.d) EXCEPT !.c = r.c, !.v = r.v] ELSE m
  IN  CASE op \in {"tst", "teq", "cmp", "cmn"} -> f
        [] rd = PC -> GoTo(f, r.d)
        [] OTHER -> SetReg(f, rd, r.d)

RuleDataProcessing(i, m) ==
  LET byReg == i.ext % 2 = 1
      operand == CASE Bit(i, 5) = 1 -> <<i.imm, m.c>>
                   [] byReg -> Shifted(KindOf(i), m.r[i.rs] % 2^A, Operand(m, i.rm, 12), m.c)
                   [] OTHER -> ByImmediate(KindOf(i), i.amt, Operand(m, i.rm, 8), m.c)
      ahead == IF Bit(i, 5) = 0 /\ byReg THEN 12 ELSE 8
  IN  DataProcessing(Opcodes[((i.hi \div 2) % 16) + 1], Bit(i, 0) = 1,
                     Operand(m, i.rn, ahead), operand, i.rd, m)

RuleMultiply(i, m) ==
  LET d == Trunc((m.r[i.rm] * m.r[i.rs]) + (Bit(i, 1) * m.r[i.rn]))
  IN  SetReg(IF Bit(i, 0) = 1 THEN SetNZ(m, d) ELSE m, i.rd, d)

RuleMultiplyLong(i, m) ==
  LET num(x) == IF Bit(i, 2) = 1 THEN Signed(x) ELSE x
      old == Bit(i, 1) * (m.r[i.rd] + (2^W * m.r[i.rn]))
      d == ((num(m.r[i.rm]) * num(m.r[i.rs])) + old) % 2^(2 * W)
      f == [m EXCEPT !.n = BitOf(d, 2 * W - 1), !.z = Truth(d = 0)]
  IN  SetReg(SetReg(IF Bit(i, 0) = 1 THEN f ELSE m, i.rd, d % 2^W), i.rn, d \div 2^W)

\* Single transfers: bit 4 is P, bit 3 U, bit 1 W, bit 0 L.
Transfer(i, mem, offset, m) ==
  LET base == Operand(m, i.rn, 8)
      indexed == Trunc(IF Bit(i, 3) = 1 THEN base + offset ELSE base - offset)
      address == IF Bit(i, 4) = 1 THEN indexed ELSE base
      keep == Bit(i, 4) = 1 /\ Bit(i, 1) = 0
      done == IF keep THEN m ELSE SetReg(m, i.rn, indexed)
  IN  CASE Bit(i, 0) = 0 -> Store(done, mem, address, Operand(m, i.rd, 12))
        [] i.rd = PC     -> GoTo(Load(done, mem, address), Aligned(Loaded(mem, address), 4))
        [] OTHER         -> SetReg(Load(done, mem, address), i.rd, Loaded(mem, address))

RuleTransfer(i, m) ==
  Transfer(i, IF Bit(i, 2) = 1 THEN "u8" ELSE "u32",
           IF Bit(i, 5) = 1 THEN ByImmediate(KindOf(i), i.amt, m.r[i.rm], m.c)[1] ELSE i.imm, m)
RuleHalfTransfer(i, m) ==
  Transfer(i, CASE Bit(i, 0) = 0 \/ i.ext = 11 -> "u16" [] i.ext = 13 -> "s8" [] OTHER -> "s16",
           IF Bit(i, 2) = 1 THEN i.imm ELSE m.r[i.rm], m)

\* Block transfers: a store of the base stores its old value when it is the lowest
\* register of the list.
Block(load, before, up, writeback, rn, list, m) ==
  LET size == 4 * Cardinality(list)
      low == CASE up /\ ~before  -> m.r[rn]       [] up /\ before   -> m.r[rn] + 4
               [] ~up /\ ~before -> m.r[rn] - size + 4 [] ~up /\ before -> m.r[rn] - size
      address == Aligned(Trunc(low), 4)
      moved == IF writeback /\ ~(load /\ rn \in list)
               THEN SetReg(m, rn, Trunc(IF up THEN m.r[rn] + size ELSE m.r[rn] - size)) ELSE m
      last == Slot(address, list, PC)
      plain == list \ {PC}
  IN  IF load
      THEN LET l == LoadBlock(moved, address, plain)
           IN  IF PC \in list THEN GoTo(Load(l, "u32", last), Loaded("u32", last)) ELSE l
      ELSE LET st == StoreBlock(moved, address, plain, m.r)
           IN  IF PC \in list THEN Store(st, "u32", last, Trunc(m.pc + 8)) ELSE st

RuleBlock(i, m) ==
  LET d == Block(Bit(i, 0) = 1, Bit(i, 4) = 1, Bit(i, 3) = 1, Bit(i, 1) = 1, i.rn, i.list, m)
  IN  [d EXCEPT !.next = Aligned(@, 4)]

RuleSwap(i, m) ==
  LET mem == IF Bit(i, 2) = 1 THEN "u8" ELSE "u32"
      a == m.r[i.rn]
  IN  SetReg(Store(Load(m, mem, a), mem, a, m.r[i.rm]), i.rd, Loaded(mem, a))

BranchExchange(m, a) == [m EXCEPT !.t = a % 2, !.next = Aligned(a, IF a % 2 = 1 THEN 2 ELSE 4)]

RuleBranch(i, m) ==
  GoTo(IF Bit(i, 4) = 1 THEN SetReg(m, LR, Trunc(m.pc + 4)) ELSE m, Trunc(m.pc + 8 + i.imm))

\* Even conditions test something, odd ones its negation.
Passes(cond, m) ==
  LET base == CASE cond \div 2 = 0 -> m.z = 1
                [] cond \div 2 = 1 -> m.c = 1
                [] cond \div 2 = 2 -> m.n = 1
                [] cond \div 2 = 3 -> m.v = 1
                [] cond \div 2 = 4 -> m.c = 1 /\ m.z = 0
                [] cond \div 2 = 5 -> m.n = m.v
                [] cond \div 2 = 6 -> m.n = m.v /\ m.z = 0
                [] cond \div 2 = 7 -> TRUE
  IN  base # (cond % 2 = 1)

Arm(i, m0) ==
  LET m == GoTo(m0, Trunc(m0.pc + 4))
      class == i.hi \div 32
      extra == class = 0 /\ i.ext \in {9, 11, 13, 15}
  IN  CASE ~Passes(i.cond, m0) -> m
        [] extra /\ i.ext = 9 /\ i.hi < 8 -> RuleMultiply(i, m)
        [] extra /\ i.ext = 9 /\ i.hi \in 8 .. 15 -> RuleMultiplyLong(i, m)
        [] extra /\ i.ext = 9 /\ i.hi > 15 -> RuleSwap(i, m)
        [] extra /\ i.ext > 9 -> RuleHalfTransfer(i, m)
        [] class = 0 /\ i.hi = 18 /\ i.ext = 1 -> BranchExchange(m, m.r[i.rn])
        [] class \in {0, 1} /\ ~extra /\ ~(i.hi = 18) -> RuleDataProcessing(i, m)
        [] class \in {2, 3} -> RuleTransfer(i, m)
        [] class = 4 -> RuleBlock(i, m)
        [] class = 5 -> RuleBranch(i, m)

-----------------------------------------------------------------------------
(* Thumb, each instruction as the ARM one it abbreviates. *)

Flagged(op, a, b, rd, m) == DataProcessing(op, TRUE, a, <<b, m.c>>, rd, m)
ShiftThen(operand, rd, m) == DataProcessing("mov", TRUE, 0, operand, rd, m)
ThumbLoad(mem, a, rd, m)  == SetReg(Load(m, mem, a), rd, Loaded(mem, a))
ThumbStore(mem, a, rd, m) == Store(m, mem, a, m.r[rd])
ThumbTransfer(load, mem, a, rd, m) ==
  IF load THEN ThumbLoad(mem, Trunc(a), rd, m) ELSE ThumbStore(mem, Trunc(a), rd, m)

RuleThumbAlu(i, m) ==
  LET op == 4 * (i.hi - 64) + i.sub
      a == m.r[i.rd]
      b == m.r[i.rs]
      name == <<"and", "eor", "lsl", "lsr", "asr", "adc", "sbc", "ror",
                "tst", "neg", "cmp", "cmn", "orr", "mul", "bic", "mvn">>[op + 1]
  IN  CASE name \in Kinds -> ShiftThen(Shifted(name, b % 2^A, a, m.c), i.rd, m)
        [] name = "neg" -> Flagged("rsb", b, 0, i.rd, m)
        [] name = "mul" -> Flagged("mov", 0, Trunc(a * b), i.rd, m)
        [] OTHER -> Flagged(name, a, b, i.rd, m)

RuleThumbHigh(i, m) ==
  LET b == Operand(m, i.rs, 4)
      a == Operand(m, i.rd, 4)
      to(val) == IF i.rd = PC THEN GoTo(m, Aligned(val, 2)) ELSE SetReg(m, i.rd, val)
  IN  CASE i.hi = 68 -> to(Trunc(a + b))
        [] i.hi = 69 -> Flagged("cmp", a, b, 0, m)
        [] i.hi = 70 -> to(b)
        [] i.hi = 71 -> BranchExchange(m, b)

\* PUSH is STMDB sp!, POP is LDMIA sp!, with LR or the program counter on top.
RulePushPop(i, m) ==
  LET extra == Bit(i, 0) = 1
  IN  IF Bit(i, 3) = 0
      THEN Block(FALSE, TRUE, FALSE, TRUE, SP, i.list \cup (IF extra THEN {LR} ELSE {}), m)
      ELSE LET p == Block(TRUE, FALSE, TRUE, TRUE, SP,
                          i.list \cup (IF extra THEN {PC} ELSE {}), m)
           IN  IF extra THEN [p EXCEPT !.next = Aligned(@, 2)] ELSE p

Thumb(i, m0) ==
  LET m == GoTo(m0, Trunc(m0.pc + 2))
      r == i.hi % 8
      page == Aligned(m.pc, 4) + 4
      kind == <<"lsl", "lsr", "asr">>[(i.hi \div 8) + 1]
      bit3 == Bit(i, 3) = 1
      forms == <<"u32", "u16", "u8", "s8", "u32", "u16", "u8", "s16">>
      which == (i.hi \div 2) % 8
  IN  CASE i.hi < 24 -> ShiftThen(ByImmediate(kind, i.amt, m.r[i.rs], m.c), i.rd, m)
        [] i.hi \in 24 .. 31 -> Flagged(IF Bit(i, 1) = 1 THEN "sub" ELSE "add", m.r[i.rs],
                                        IF Bit(i, 2) = 1 THEN i.imm ELSE m.r[i.rn], i.rd, m)
        [] i.hi \in 32 .. 63 -> Flagged(<<"mov", "cmp", "add", "sub">>[((i.hi - 32) \div 8) + 1],
                                        m.r[r], i.imm, r, m)
        [] i.hi \in 64 .. 67 -> RuleThumbAlu(i, m)
        [] i.hi \in 68 .. 71 -> RuleThumbHigh(i, m)
        [] i.hi \in 72 .. 79 -> ThumbLoad("u32", Trunc(page + 4 * i.imm), r, m)
        [] i.hi \in 80 .. 95 -> ThumbTransfer(which > 2, forms[which + 1],
                                              m.r[i.rs] + m.r[i.rn], i.rd, m)
        [] i.hi \in 96 .. 111  -> ThumbTransfer(bit3, "u32", m.r[i.rs] + 4 * i.imm, i.rd, m)
        [] i.hi \in 112 .. 127 -> ThumbTransfer(bit3, "u8", m.r[i.rs] + i.imm, i.rd, m)
        [] i.hi \in 128 .. 143 -> ThumbTransfer(bit3, "u16", m.r[i.rs] + 2 * i.imm, i.rd, m)
        [] i.hi \in 144 .. 159 -> ThumbTransfer(bit3, "u32", m.r[SP] + 4 * i.imm, r, m)
        [] i.hi \in 160 .. 167 -> SetReg(m, r, Trunc(page + 4 * i.imm))
        [] i.hi \in 168 .. 175 -> SetReg(m, r, Trunc(m.r[SP] + 4 * i.imm))
        [] i.hi = 176 -> SetReg(m, SP, Trunc(m.r[SP] + (IF i.sub \div 2 = 1 THEN -4 ELSE 4) * i.imm))
        [] i.hi \in {180, 181, 188, 189} -> RulePushPop(i, m)
        [] i.hi \in 192 .. 207 -> Block(bit3, FALSE, TRUE, TRUE, r, i.list, m)
        [] i.hi \in 208 .. 221 -> IF Passes(i.hi - 208, m)
                                  THEN GoTo(m, Trunc(m.pc + 4 + 2 * i.imm)) ELSE m
        [] i.hi \in 224 .. 231 -> GoTo(m, Trunc(m.pc + 4 + 2 * i.imm))
        [] i.hi \in 240 .. 247 -> SetReg(m, LR, Trunc(m.pc + 4 + 2^(W - 1) * i.imm))
        [] i.hi >= 248 -> GoTo(SetReg(m, LR, Trunc(m.pc + 2) | 1),
                               Aligned(Trunc(m.r[LR] + 2 * i.imm), 2))
=============================================================================
