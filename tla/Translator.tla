----------------------------- MODULE Translator -----------------------------
(***************************************************************************)
(* What translate_arm_instruction and translate_thumb_instruction of       *)
(* cpu_threaded.c hand to a native emitter: the emitter macro a case       *)
(* invokes, with its arguments.  The translator says how an address is     *)
(* adjusted (direction and pre, pre_wb or post) where the interpreter says *)
(* which expression takes the offset, so the two tables share no row.      *)
(* Instructions are the records that Interpreter describes.                *)
(***************************************************************************)
EXTENDS Words

TAlu(name, s, type) ==
  [do |-> "data_proc", name |-> name, s |-> s,
   type |-> IF s /\ type = "reg" /\ name \in {"and", "eor", "orr", "mov", "bic", "mvn", "tst", "teq"}
            THEN "reg_flags" ELSE type]
TAccess(acc, dir, adjust, mem, type) ==
  [do |-> "access", acc |-> acc, dir |-> dir, adjust |-> adjust, mem |-> mem, type |-> type]

SBit(i) == i.hi % 2 = 1
FlagForm(i) == i.ext \in {9, 11, 13, 15}
TLoadOrStore(i) == IF SBit(i) THEN "load" ELSE "store"
THalf(i, dir, adjust, type) ==
  TAccess(TLoadOrStore(i), dir, adjust,
          IF SBit(i) THEN <<"u16", "s8", "s16">>[(i.ext - 9) \div 2] ELSE "u16", type)
Either(i, even, odd) == IF (i.hi \div 2) % 2 = 0 THEN even ELSE odd

translate_00_03(i) ==
  CASE ~FlagForm(i) -> TAlu(Either(i, "and", "eor"), SBit(i), "reg")
    [] i.ext = 9    -> [do |-> "multiply", add |-> Either(i, FALSE, TRUE), s |-> SBit(i)]
    [] OTHER        -> THalf(i, "down", "post", "half_reg")
translate_04_07(i) ==
  IF FlagForm(i) THEN THalf(i, "down", "post", "half_imm")
  ELSE TAlu(Either(i, "sub", "rsb"), SBit(i), "reg")
translate_08_0B(i) ==
  CASE ~FlagForm(i) -> TAlu(Either(i, "add", "adc"), SBit(i), "reg")
    [] i.ext = 9    -> [do |-> "multiply_long", name |-> Either(i, "u64", "u64_add"), s |-> SBit(i)]
    [] OTHER        -> THalf(i, "up", "post", "half_reg")
translate_0C_0F(i) ==
  CASE ~FlagForm(i) -> TAlu(Either(i, "sbc", "rsc"), SBit(i), "reg")
    [] i.ext = 9    -> [do |-> "multiply_long", name |-> Either(i, "s64", "s64_add"), s |-> SBit(i)]
    [] OTHER        -> THalf(i, "up", "post", "half_imm")
translate_10_13(i) ==
  CASE FlagForm(i) /\ i.hi = 16 /\ i.ext = 9 -> [do |-> "swap", mem |-> "u32"]
    [] FlagForm(i) -> THalf(i, "down", Either(i, "pre", "pre_wb"), "half_reg")
    [] SBit(i)     -> TAlu(Either(i, "tst", "teq"), TRUE, "reg")
    [] i.hi = 16   -> [do |-> "psr", src |-> "reg", dir |-> "read", psr |-> "cpsr"]
    [] i.ext % 2 = 1 -> [do |-> "bx"]
    [] OTHER       -> [do |-> "psr", src |-> "reg", dir |-> "store", psr |-> "cpsr"]
translate_14_17(i) ==
  CASE FlagForm(i) /\ i.hi = 20 /\ i.ext = 9 -> [do |-> "swap", mem |-> "u8"]
    [] FlagForm(i) -> THalf(i, "down", Either(i, "pre", "pre_wb"), "half_imm")
    [] SBit(i)     -> TAlu(Either(i, "cmp", "cmn"), TRUE, "reg")
    [] OTHER       -> [do |-> "psr", src |-> "reg", dir |-> Either(i, "read", "store"),
                       psr |-> "spsr"]
translate_18_1B(i) ==
  IF FlagForm(i) THEN THalf(i, "up", Either(i, "pre", "pre_wb"), "half_reg")
  ELSE TAlu(Either(i, "orr", "mov"), SBit(i), "reg")
translate_1C_1F(i) ==
  IF FlagForm(i) THEN THalf(i, "up", Either(i, "pre", "pre_wb"), "half_imm")
  ELSE TAlu(Either(i, "bic", "mvn"), SBit(i), "reg")

ImmediateRow == <<"and", "eor", "sub", "rsb", "add", "adc", "sbc", "rsc",
                  "tst", "teq", "cmp", "cmn", "orr", "mov", "bic", "mvn">>

translate_20_3F(i) ==
  CASE i.hi = 50 -> [do |-> "psr", src |-> "imm", dir |-> "store", psr |-> "cpsr"]
    [] i.hi = 54 -> [do |-> "psr", src |-> "imm", dir |-> "store", psr |-> "spsr"]
    [] i.hi \in 48 .. 55 \ {50, 54} -> TAlu(ImmediateRow[(i.hi \div 2) - 15], TRUE, "imm")
    [] OTHER -> TAlu(ImmediateRow[(i.hi \div 2) - 15], SBit(i), "imm")

TSize(i) == IF (i.hi \div 4) % 2 = 0 THEN "u32" ELSE "u8"
TDir(i)  == IF (i.hi \div 8) % 2 = 0 THEN "down" ELSE "up"

translate_40_4F(i) == TAccess(TLoadOrStore(i), TDir(i), "post", TSize(i), "imm")
translate_50_5F(i) ==
  TAccess(TLoadOrStore(i), TDir(i), Either(i, "pre", "pre_wb"), TSize(i), "imm")
translate_60_6F(i) == TAccess(TLoadOrStore(i), TDir(i), "post", TSize(i), "reg")
translate_70_7F(i) ==
  TAccess(TLoadOrStore(i), TDir(i), Either(i, "pre", "pre_wb"), TSize(i), "reg")

\* The emitters pass the opcode to a helper that looks at its bits itself.
translate_80_9F(i) == [do |-> "block"]

translate_A0_FF(i) ==
  CASE i.hi < 176 -> [do |-> "b"]
    [] i.hi < 192 -> [do |-> "bl"]
    [] i.hi < 240 -> [do |-> "coprocessor"]
    [] OTHER      -> [do |-> "swi"]

translate_arm_instruction(i) ==
  CASE i.hi < 4   -> translate_00_03(i)
    [] i.hi < 8   -> translate_04_07(i)
    [] i.hi < 12  -> translate_08_0B(i)
    [] i.hi < 16  -> translate_0C_0F(i)
    [] i.hi < 20  -> translate_10_13(i)
    [] i.hi < 24  -> translate_14_17(i)
    [] i.hi < 28  -> translate_18_1B(i)
    [] i.hi < 32  -> translate_1C_1F(i)
    [] i.hi < 64  -> translate_20_3F(i)
    [] i.hi < 80  -> translate_40_4F(i)
    [] i.hi < 96  -> translate_50_5F(i)
    [] i.hi < 112 -> translate_60_6F(i)
    [] i.hi < 128 -> translate_70_7F(i)
    [] i.hi < 160 -> translate_80_9F(i)
    [] OTHER      -> translate_A0_FF(i)

-----------------------------------------------------------------------------
(* Thumb: `proc` writes rd from an operation on rs and the operand rn (a    *)
(* register or the immediate), `test` sets flags only, `unary` has no rs.  *)
(* All of them set the flags: the names stand for adds, subs, ands and so   *)
(* on, the s forms of the helpers.                                         *)

Proc(do, name, src, rd, rs, rn) ==
  [do |-> do, name |-> name, src |-> src, rd |-> rd, rs |-> rs, rn |-> rn]
TMem(acc, mem, rd, rb, ro, address, offset) ==
  [do |-> "memory", acc |-> acc, mem |-> mem, rd |-> rd, rb |-> rb, ro |-> ro,
   address |-> address, offset |-> offset]

thumb_shift_add_sub(i) ==
  CASE i.hi < 8  -> [do |-> "shift", name |-> "lsl", src |-> "imm"]
    [] i.hi < 16 -> [do |-> "shift", name |-> "lsr", src |-> "imm"]
    [] i.hi < 24 -> [do |-> "shift", name |-> "asr", src |-> "imm"]
    [] OTHER -> Proc("proc", IF i.hi % 4 \in {0, 1} THEN "add" ELSE "sub",
                     IF i.hi < 28 THEN "reg" ELSE "imm", i.rd, i.rs, i.rn)
thumb_immediate(i) ==
  LET r == i.hi % 8
  IN  CASE i.hi \in 32 .. 39 -> Proc("unary", "mov", "imm", r, 0, 0)
        [] i.hi \in 40 .. 47 -> Proc("test", "cmp", "imm", 0, r, 0)
        [] i.hi \in 48 .. 55 -> Proc("proc", "add", "imm", r, r, 0)
        [] i.hi \in 56 .. 63 -> Proc("proc", "sub", "imm", r, r, 0)
thumb_alu(i) ==
  LET p(do, name) == Proc(do, name, "reg", i.rd, i.rd, i.rs)
      shift(name) == [do |-> "shift", name |-> name, src |-> "reg"]
  IN  << <<p("proc", "and"), p("proc", "eor"), shift("lsl"), shift("lsr")>>,
         <<shift("asr"), p("proc", "adc"), p("proc", "sbc"), shift("ror")>>,
         <<p("test", "tst"), p("unary", "neg"), p("test", "cmp"), p("test", "cmn")>>,
         <<p("proc", "orr"), p("proc", "mul"), p("proc", "bic"), p("unary", "mvn")>>
      >>[i.hi - 63][i.sub + 1]
thumb_high(i) ==
  CASE i.hi = 68 -> [do |-> "hi", name |-> "add"]
    [] i.hi = 69 -> [do |-> "hi", name |-> "cmp"]
    [] i.hi = 70 -> [do |-> "hi", name |-> "mov"]
    [] i.hi = 71 -> [do |-> "bx"]
thumb_pc_relative(i) == TMem("load", "u32", i.hi % 8, 0, 0, "pc_relative", 4 * i.imm + 4)
thumb_register_offset(i) ==
  LET form == << <<"store", "u32">>, <<"store", "u16">>, <<"store", "u8">>,
                 <<"load", "s8">>, <<"load", "u32">>, <<"load", "u16">>,
                 <<"load", "u8">>, <<"load", "s16">> >>[((i.hi - 80) \div 2) + 1]
  IN  TMem(form[1], form[2], i.rd, i.rs, i.rn, "reg_reg", 0)
thumb_immediate_offset(i) ==
  LET acc == IF (i.hi \div 8) % 2 = 0 THEN "store" ELSE "load"
  IN  CASE i.hi < 112 -> TMem(acc, "u32", i.rd, i.rs, 0, "reg_imm", 4 * i.imm)
        [] i.hi < 128 -> TMem(acc, "u8", i.rd, i.rs, 0, "reg_imm", i.imm)
        [] OTHER      -> TMem(acc, "u16", i.rd, i.rs, 0, "reg_imm", 2 * i.imm)
thumb_sp_relative(i) ==
  TMem(IF i.hi < 152 THEN "store" ELSE "load", "u32", i.hi % 8, SP, 0, "reg_imm", 4 * i.imm)
thumb_addresses(i) ==
  CASE i.hi < 168 -> [do |-> "load_pc", rd |-> i.hi % 8]
    [] i.hi < 176 -> [do |-> "load_sp", rd |-> i.hi % 8]
    [] OTHER -> [do |-> "adjust_sp", by |-> IF i.sub \div 2 = 1 THEN -(4 * i.imm) ELSE 4 * i.imm]
TBlock(acc, pre, post, base) ==
  [do |-> "block", acc |-> acc, pre |-> pre, post |-> post, base |-> base]
thumb_blocks(i) ==
  CASE i.hi = 180 -> TBlock("store", "down", "no", SP)
    [] i.hi = 181 -> TBlock("store", "push_lr", "push_lr", SP)
    [] i.hi = 188 -> TBlock("load", "no", "up", SP)
    [] i.hi = 189 -> TBlock("load", "no", "pop_pc", SP)
    [] i.hi \in 192 .. 199 -> TBlock("store", "no", "up", i.hi % 8)
    [] i.hi \in 200 .. 207 -> TBlock("load", "no", "up", i.hi % 8)
thumb_conditions(i) ==
  [do |-> "branch_if",
   condition |-> <<"eq", "ne", "cs", "cc", "mi", "pl", "vs", "vc",
                   "hi", "ls", "ge", "lt", "gt", "le">>[i.hi - 207]]
\* The second half of BL is thumb_bl, a branch the translator resolved, when the
\* opcode before it in the block is a first half, and thumb_blh otherwise.
thumb_branches(i) ==
  CASE i.hi < 232 -> [do |-> "b"]
    [] i.hi < 248 -> [do |-> "bl_first"]
    [] i.after    -> [do |-> "bl"]
    [] OTHER      -> [do |-> "blh"]

translate_thumb_instruction(i) ==
  CASE i.hi < 32  -> thumb_shift_add_sub(i)
    [] i.hi < 64  -> thumb_immediate(i)
    [] i.hi < 68  -> thumb_alu(i)
    [] i.hi < 72  -> thumb_high(i)
    [] i.hi < 80  -> thumb_pc_relative(i)
    [] i.hi < 96  -> thumb_register_offset(i)
    [] i.hi < 144 -> thumb_immediate_offset(i)
    [] i.hi < 160 -> thumb_sp_relative(i)
    [] i.hi < 180 -> thumb_addresses(i)
    [] i.hi < 208 -> thumb_blocks(i)
    [] i.hi < 222 -> thumb_conditions(i)
    [] OTHER      -> thumb_branches(i)
=============================================================================
