------------------------------- MODULE Words -------------------------------
(***************************************************************************)
(* The words, registers and bus of the models of the ARM core.  The code   *)
(* works on 32-bit words, and ARM takes a register-specified shift amount  *)
(* from the low 8 bits of a register; the models keep both widths as       *)
(* parameters (A is the width of an amount), so that amounts below, at and *)
(* above the width of a word all exist, and so do registers whose value    *)
(* does not fit an amount.                                                 *)
(*                                                                         *)
(* A machine m is what one instruction reads and changes:                  *)
(*   r           the registers 0 to 14                                     *)
(*   n, z, c, v  the flags, kept apart from CPSR as the code keeps them    *)
(*   pc          the address of the instruction                            *)
(*   next, t     where execution goes on, and whether in Thumb state       *)
(*   bus         the accesses made, in order                               *)
(***************************************************************************)
EXTENDS Integers, Sequences, FiniteSets, Bitwise

CONSTANTS W, A

ASSUME WidthAssumption == /\ W \in Nat \ {0} /\ A \in Nat \ {0}
                          /\ A < W /\ W < 2^A

Word == 0 .. 2^W - 1
Flag == {0, 1}

Trunc(x)    == x % 2^W
BitOf(x, k) == (x \div 2^k) % 2
Sign(x)     == x \div 2^(W - 1)
Signed(x)   == IF Sign(x) = 1 THEN x - 2^W ELSE x
NotW(x)     == 2^W - 1 - x
Truth(p)    == IF p THEN 1 ELSE 0
Aligned(x, size) == x - (x % size)

\* C's <<, >> and signed >>, for amounts below the width.
Lsl(x, k) == Trunc(x * 2^k)
Lsr(x, k) == x \div 2^k
Asr(x, k) == Trunc(Signed(x) \div 2^k)

\* The ror of common.h.  It shifts by the width and above, which C leaves
\* undefined; the hosts the project builds for take a shift modulo the width.
Ror(x, k) == Lsr(x, k % W) + Trunc(x * 2^(W - (k % W)))
Rrx(x, c) == Lsr(x, 1) + c * 2^(W - 1)

Kinds == {"lsl", "lsr", "asr", "ror"}

Regs == 0 .. 14
PC   == 15
SP   == 13
LR   == 14

\* A register operand; the program counter reads `ahead` bytes ahead.
Operand(m, x, ahead) == IF x = PC THEN Trunc(m.pc + ahead) ELSE m.r[x]

SetReg(m, x, val) == [m EXCEPT !.r[x] = val]
SetNZ(m, d) == [m EXCEPT !.n = Sign(d), !.z = Truth(d = 0)]
GoTo(m, target) == [m EXCEPT !.next = target]

\* The bus.  What a load returns is data the core only passes on: it depends on
\* the access alone.
MemTypes == {"u32", "u16", "u8", "s16", "s8"}

\* A block of registers, in ascending order from address a.
Rank(list, x)   == Cardinality({y \in list : y < x})
Nth(list, k)    == CHOOSE x \in list : Rank(list, x) = k - 1
Slot(a, list, x) == Trunc(a + 4 * Rank(list, x))

Loaded(mem, address) ==
  Trunc(3 * address + address \div 4 + (CASE mem = "u32" -> 1 [] mem = "u16" -> 2 [] mem = "u8" -> 4
                         [] mem = "s16" -> 7 [] OTHER -> 8))
Load(m, mem, address) == [m EXCEPT !.bus = Append(@, <<"load", mem, address>>)]
Store(m, mem, address, val) ==
  [m EXCEPT !.bus = Append(@, <<"store", mem, address, val>>)]
LoadBlock(m, a, list) ==
  [m EXCEPT !.bus = @ \o [k \in 1 .. Cardinality(list) |->
                            <<"load", "u32", Slot(a, list, Nth(list, k))>>],
            !.r   = [x \in Regs |-> IF x \in list THEN Loaded("u32", Slot(a, list, x))
                                                   ELSE @[x]]]
StoreBlock(m, a, list, val) ==
  [m EXCEPT !.bus = @ \o [k \in 1 .. Cardinality(list) |->
                            <<"store", "u32", Slot(a, list, Nth(list, k)),
                              val[Nth(list, k)]>>]]
=============================================================================
