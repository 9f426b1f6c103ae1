---------------------------- MODULE BlockProofs -----------------------------
(***************************************************************************)
(* Theorems about BlockTranslation for programs of every length.           *)
(*                                                                         *)
(* CodeInv holds of every program: it says what the emitted code looks     *)
(* like, instruction by instruction and as far as translation has got.     *)
(* RunInv adds, for the programs a block gets right, where the host is in  *)
(* that code and which condition it has tested.                            *)
(***************************************************************************)
EXTENDS BlockTranslation, TLAPS

-----------------------------------------------------------------------------
(* The shape of emitted code. *)

Conditions == {"al", "eq", "ne"}
Works == {"execute", "jump", "indirect"}
Operation == [do : Works \cup {"skip_unless", "cycle_update", "gate"}, pc : Nat,
              cond : Conditions, to : Nat, n : Nat]
Entry == [condition : [cond : Conditions, exit : BOOLEAN, marked : BOOLEAN],
          update_cycles : {0, 1}, block_offset : Nat]
Exit == [target : Nat, source : Nat]

Made == phase \in {"emit", "run"}
InBlock == phase # "gone"

\* The operation an instruction becomes.
Work(i) == CASE i.op = "branch" -> "jump" [] i.op = "bx" -> "indirect" [] OTHER -> "execute"

\* Behind the instruction before it, instruction b needs no test of its own.
Untested(b) == program[b].cond = "al" \/ MidRun(program, b)

Types ==
  /\ \E p \in Programs : program = p.program /\ gates = p.gates
  /\ phase \in {"scan", "emit", "run", "gone"}
  /\ pc \in Nat /\ start \in Nat /\ block_end_pc \in Nat
  /\ code \in Seq(Operation) /\ block_data \in Seq(Entry) /\ block_exits \in Seq(Exit)
  /\ exits_emitted \in Nat /\ backpatch_address \in Nat /\ cycle_count \in Nat
  /\ at \in Nat /\ z \in {0, 1} /\ cycles \in Int

\* A block is a stretch of the program, with an entry for each instruction.
Span ==
  /\ phase = "gone" => pc > Last
  /\ InBlock =>
       /\ start <= Last /\ start <= block_end_pc /\ block_end_pc <= Last + 1
       /\ Len(block_data) = block_end_pc - start
       /\ Len(block_exits) <= Len(block_data)
       /\ \A k \in 1 .. Len(block_data) :
            block_data[k].condition = arm_set_condition(program[start + k - 1])
  /\ phase = "scan" =>
       /\ pc = start /\ block_end_pc <= Last /\ code = <<>> /\ exits_emitted = 0
       /\ last_condition = Always
  /\ phase = "emit" => start <= pc /\ pc <= block_end_pc
  /\ phase = "run" => pc = block_end_pc
  /\ Made => start < block_end_pc

\* The direct branches of the block in order: f[e] is where exit e comes from.
Numbered(f) ==
  /\ \A d, e \in DOMAIN f : d < e => f[d] < f[e]
  /\ \A e \in DOMAIN f :
       /\ f[e] >= start /\ f[e] < block_end_pc /\ program[f[e]].op = "branch"
       /\ block_exits[e].target = program[f[e]].target
  /\ \A k \in start .. block_end_pc - 1 :
       program[k].op = "branch" => \E e \in DOMAIN f : f[e] = k

\* Exit e has been emitted: its source is the jump of its own branch.
Placed(f, e) ==
  /\ block_exits[e].source \in 1 .. Len(code)
  /\ code[block_exits[e].source].do = "jump"
  /\ code[block_exits[e].source].pc = f[e]

Exits ==
  InBlock =>
    /\ exits_emitted <= Len(block_exits)
    /\ \E f \in [1 .. Len(block_exits) -> 0 .. Last] :
         /\ Numbered(f)
         /\ \A e \in DOMAIN f : (e <= exits_emitted) <=> (f[e] < pc)
         /\ \A e \in DOMAIN f : e <= exits_emitted => Placed(f, e)

\* Where the code of instruction b begins: with a test, unless none is needed.
Begins(b, k) ==
  /\ k \in 1 .. Len(code)
  /\ code[k].pc = b
  /\ \/ code[k].do = "skip_unless"
     \/ program[b].cond = "al"
     \/ b > start /\ MidRun(program, b)

Offsets ==
  Made => /\ \A b \in start .. pc - 1 : Begins(b, block_data[b - start + 1].block_offset)
          /\ start < pc => block_data[1].block_offset = 1

\* A patched jump goes to where its branch's target begins.
JumpsPatched ==
  Made =>
    \A k \in 1 .. Len(code) :
      code[k].do = "jump" /\ code[k].to # NoAddress =>
        /\ phase = "run"
        /\ Begins(program[code[k].pc].target, code[k].to)

OpOK(o) ==
  /\ o.pc >= start /\ o.pc <= block_end_pc
  /\ o.pc = block_end_pc => o.do = "gate"
  /\ o.do = "gate" => phase = "run" /\ o.pc = block_end_pc
  /\ o.do = "skip_unless" => o.cond = program[o.pc].cond
  /\ o.do \in Works => o.do = Work(program[o.pc])

\* What may follow an operation the host falls through.
Follows(o, r) ==
  /\ o.do = "skip_unless" => r.pc = o.pc /\ r.do \in Works \cup {"cycle_update"}
  /\ o.do = "cycle_update" => r.pc = o.pc
  /\ o.do = "execute" => /\ r.pc = o.pc + 1
                         /\ r.do \in Works => Untested(r.pc)

\* The cycles of a run may be counted before a test or within the run.
Counted(o, r, s) ==
  o.do = "execute" /\ r.do = "cycle_update" => s.do = "skip_unless" \/ Untested(r.pc)

Flow ==
  Made =>
    /\ \A k \in 1 .. Len(code) : OpOK(code[k])
    /\ \A k \in 1 .. Len(code) - 1 : Follows(code[k], code[k + 1])
    /\ \A k \in 1 .. Len(code) - 2 : Counted(code[k], code[k + 1], code[k + 2])

\* How the code ends before the next instruction is emitted.
CodeTail ==
  phase = "emit" =>
    IF pc = start THEN code = <<>>
    ELSE LET n == Len(code)
         IN  /\ n > 0
             /\ \/ code[n].do \in Works /\ code[n].pc = pc - 1
                \/ /\ n > 1 /\ code[n].do = "cycle_update" /\ code[n].pc = pc
                   /\ code[n - 1].do \in Works
                   /\ pc < block_end_pc

LastCondition ==
  Made => last_condition = IF pc = start THEN Always ELSE arm_set_condition(program[pc - 1])

\* The instructions from a up to b have condition c.
Same(a, b, c) == \A k \in a .. b - 1 : program[k].cond = c

\* A skip ends where a run of its condition does, at a test or at none needed.
Lands(o) ==
  /\ o.to \in 1 .. Len(code)
  /\ code[o.to].pc > o.pc
  /\ Same(o.pc, code[o.to].pc, o.cond)
  /\ code[o.to].do = "skip_unless" \/ program[code[o.to].pc].cond = "al"

Open(k) == last_condition.cond # "al" /\ k = backpatch_address

Skips ==
  Made =>
    /\ last_condition.cond # "al" =>
         /\ backpatch_address \in 1 .. Len(code)
         /\ code[backpatch_address].do = "skip_unless"
         /\ code[backpatch_address].cond = last_condition.cond
         /\ code[backpatch_address].pc < pc
         /\ Same(code[backpatch_address].pc, pc, last_condition.cond)
    /\ \A k \in 1 .. Len(code) :
         code[k].do = "skip_unless" /\ ~Open(k) => Lands(code[k])

CodeInv ==
  /\ Types /\ Span /\ Exits /\ Offsets /\ JumpsPatched /\ Flow /\ CodeTail /\ LastCondition
  /\ Skips

-----------------------------------------------------------------------------
(* The run of the code. *)

\* A block ends where it cannot be fallen out of.
BlockEnd ==
  Made => /\ program[block_end_pc - 1].cond = "al"
          /\ block_end_pc \in gates \/ arm_exit_point(program[block_end_pc - 1])

\* The operations at the end.
Closed == phase = "run" => code[Len(code)].do \in {"jump", "indirect", "gate"}

\* The host is in the code, and an instruction that is about to run has been tested.
Tested ==
  phase = "run" =>
    /\ at \in 1 .. Len(code)
    /\ code[at].do \in Works => Passes(program[code[at].pc].cond)
    /\ code[at].do = "cycle_update" =>
         \/ Passes(program[code[at].pc].cond)
         \/ at < Len(code) /\ code[at + 1].do = "skip_unless"

RunInv == CodeInv /\ BlockEnd /\ Closed /\ Tested

-----------------------------------------------------------------------------
(* What a program is made of. *)

LEMMA ProgramType ==
  ASSUME Types
  PROVE  /\ Last \in Nat /\ Budget \in Int
         /\ program \in [0 .. Last -> Instruction]
         /\ gates \subseteq 1 .. Last + 1
BY BlockAssumption DEF Types

LEMMA InstructionType ==
  ASSUME Types, NEW k \in 0 .. Last
  PROVE  /\ program[k].cond \in Conditions
         /\ program[k].op \in {"plain", "flags", "branch", "bx"}
         /\ program[k].target \in 0 .. Last + 1
         /\ program[k].target \in Nat
         /\ arm_set_condition(program[k]) \in [cond : Conditions, exit : BOOLEAN, marked : BOOLEAN]
         /\ arm_set_condition(program[k]).cond = program[k].cond
         /\ Work(program[k]) \in Works
<1>1. program[k] \in Instruction
  BY ProgramType
<1>2. program[k].target \in 0 .. Last + 1 /\ Last \in Nat
  BY <1>1, ProgramType DEF Instruction
<1> QED
  BY <1>1, <1>2 DEF Instruction, Conditions, arm_set_condition, Condition, arm_exit_point, Work, Works

-----------------------------------------------------------------------------
(* The code as it is first, and of a block that is left. *)

LEMMA InitCode == Init => CodeInv
<1> SUFFICES ASSUME Init PROVE CodeInv
  OBVIOUS
<1>0. Last \in Nat /\ Budget \in Int
  BY BlockAssumption
<1>1. Types
  <2>1. z \in {0, 1} /\ cycles \in Int
    BY <1>0 DEF Init
  <2>2. \E p \in Programs : program = p.program /\ gates = p.gates
    BY DEF Init
  <2> QED
    BY <2>1, <2>2 DEF Init, Types, NoAddress
<1>2. Span
  BY <1>0 DEF Init, Span, InBlock, Made
<1>3. Exits
  <2> DEFINE f == [e \in 1 .. 0 |-> 0]
  <2>1. Len(block_exits) = 0 /\ DOMAIN f = {} /\ \A e \in DOMAIN f : FALSE
    BY SMT DEF Init
  <2>2. f \in [1 .. Len(block_exits) -> 0 .. Last]
    BY <2>1
  <2>3. Numbered(f)
    BY <2>1 DEF Init, Numbered
  <2>4. exits_emitted <= Len(block_exits)
    BY <2>1 DEF Init
  <2> HIDE DEF f
  <2> QED
    BY <2>1, <2>2, <2>3, <2>4 DEF Exits
<1> QED
  BY <1>1, <1>2, <1>3
     DEF Init, CodeInv, Offsets, JumpsPatched, Flow, CodeTail, LastCondition, Skips, Made

(* Start leaves nothing of the block before. *)
LEMMA StartCode ==
  ASSUME Types, NEW a \in 0 .. Last, Start(a), UNCHANGED <<program, gates>>,
         z' \in {0, 1}, cycles' \in Int
  PROVE  CodeInv'
<1>0. Last \in Nat /\ a \in Nat /\ a <= Last
  BY ProgramType
<1>1. Types'
  BY <1>0, SMT DEF Start, Types, NoAddress
<1>2. Span'
  BY <1>0 DEF Start, Span, InBlock, Made
<1>3. Exits'
  <2> DEFINE f == [e \in 1 .. 0 |-> 0]
  <2>1. Len(block_exits') = 0 /\ DOMAIN f = {} /\ \A e \in DOMAIN f : FALSE
    BY SMT DEF Start
  <2>2. f \in [1 .. Len(block_exits') -> 0 .. Last]
    BY <2>1
  <2>3. Numbered(f)'
    BY <2>1, <1>0 DEF Start, Numbered
  <2>4. exits_emitted' <= Len(block_exits')
    BY <2>1 DEF Start
  <2> HIDE DEF f
  <2> QED
    BY <2>1, <2>2, <2>3, <2>4 DEF Exits
<1> QED
  BY <1>1, <1>2, <1>3
     DEF Start, CodeInv, Offsets, JumpsPatched, Flow, CodeTail, LastCondition, Skips, Made

LEMMA LeaveCode ==
  ASSUME Types, NEW a \in Nat, Leave(a), UNCHANGED <<program, gates>>,
         z' \in {0, 1}, cycles' \in Int
  PROVE  CodeInv'
<1>1. CASE a > Last
  <2>0. Last \in Nat
    BY ProgramType
  <2>1. Types'
    BY <1>1, SMT DEF Leave, Types
  <2>2. phase' = "gone" /\ pc' > Last
    BY <1>1 DEF Leave
  <2> QED
    BY <2>1, <2>2 DEF CodeInv, Span, Exits, Offsets, JumpsPatched, Flow, CodeTail,
                      LastCondition, Skips, Made, InBlock
<1>2. CASE ~(a > Last)
  <2>1. a \in 0 .. Last
    BY <1>2, ProgramType
  <2> QED
    BY <1>2, <2>1, StartCode DEF Leave
<1> QED
  BY <1>1, <1>2

(* A step of the host within the code. *)
LEMMA StayCode ==
  ASSUME CodeInv, UNCHANGED <<program, gates, phase, translation>>,
         at' \in Nat, z' \in {0, 1}, cycles' \in Int
  PROVE  CodeInv'
<1> USE DEF translation
<1>1. Types'
  BY SMT DEF CodeInv, Types
<1>2. Span'
  BY DEF CodeInv, Span, InBlock, Made
<1>3. Exits'
  BY DEF CodeInv, Exits, InBlock, Numbered, Placed
<1>4. Offsets' /\ JumpsPatched'
  BY DEF CodeInv, Offsets, JumpsPatched, Made, Begins
<1>5. Flow' /\ CodeTail' /\ LastCondition'
  BY DEF CodeInv, Flow, CodeTail, LastCondition, Made, OpOK, Follows, Counted, Untested
<1>6. Skips'
  BY DEF CodeInv, Skips, Made, Lands, Open, Same
<1> QED
  BY <1>1, <1>2, <1>3, <1>4, <1>5, <1>6 DEF CodeInv
-----------------------------------------------------------------------------
(* The scan. *)

(* The entries of the scan are those of the instructions looked at; the end *)
(* of the scan only fills in update_cycles.                                 *)
LEMMA ScanEntries ==
  ASSUME CodeInv, scan_block
  PROVE  /\ block_data' \in Seq(Entry)
         /\ Len(block_data') = Len(block_data) + 1
         /\ \A k \in 1 .. Len(block_data) + 1 :
              block_data'[k].condition = arm_set_condition(program[start + k - 1])
<1> DEFINE i == program[block_end_pc]
           entry == [condition |-> arm_set_condition(i), update_cycles |-> 0,
                     block_offset |-> NoAddress]
           data == Append(block_data, entry)
<1>0. /\ Types /\ Last \in Nat /\ start \in Nat /\ block_end_pc \in 0 .. Last
      /\ Len(block_data) = block_end_pc - start
      /\ block_data \in Seq(Entry)
      /\ \A k \in 1 .. Len(block_data) :
           block_data[k].condition = arm_set_condition(program[start + k - 1])
  <2>1. Types /\ Span /\ phase = "scan"
    BY DEF CodeInv, scan_block
  <2>2. Last \in Nat
    BY <2>1, ProgramType
  <2> QED
    BY <2>1, <2>2 DEF Types, Span, InBlock
<1>1. entry \in Entry
  BY <1>0, InstructionType DEF Entry, NoAddress
<1>2. /\ data \in Seq(Entry)
      /\ Len(data) = Len(block_data) + 1
      /\ data[Len(block_data) + 1] = entry
      /\ \A k \in 1 .. Len(block_data) : data[k] = block_data[k]
  BY <1>0, <1>1
<1>3. entry.condition = arm_set_condition(program[start + (Len(block_data) + 1) - 1])
  BY <1>0
<1>4. \A k \in 1 .. Len(data) : data[k].condition = arm_set_condition(program[start + k - 1])
  BY <1>0, <1>2, <1>3
<1>5. \/ block_data' = data
      \/ \E exits : EndScan(data, exits)
  BY Zenon DEF scan_block
<1> HIDE DEF data, entry
<1>6. CASE block_data' = data
  BY <1>0, <1>2, <1>4, <1>6
<1>7. CASE \E exits : EndScan(data, exits)
  <2>1. PICK exits : EndScan(data, exits)
    BY <1>7
  <2>2. PICK u \in [1 .. Len(data) -> {0, 1}] :
          block_data' = [k \in 1 .. Len(data) |-> [data[k] EXCEPT !.update_cycles = u[k]]]
    <3>1. PICK stale \in {0, 1} :
            block_data' =
              [k \in 1 .. Len(data) |->
                [data[k] EXCEPT !.update_cycles =
                  IF \E e \in 1 .. Len(exits) :
                       /\ exits[e].target > start /\ exits[e].target < block_end_pc'
                       /\ exits[e].target - start + 1 = k
                  THEN 1 ELSE IF k = Len(data) THEN stale ELSE 0]]
      BY <2>1 DEF EndScan
    <3> DEFINE v == [k \in 1 .. Len(data) |->
                      IF \E e \in 1 .. Len(exits) :
                           /\ exits[e].target > start /\ exits[e].target < block_end_pc'
                           /\ exits[e].target - start + 1 = k
                      THEN 1 ELSE IF k = Len(data) THEN stale ELSE 0]
    <3>2. v \in [1 .. Len(data) -> {0, 1}]
      OBVIOUS
    <3>3. block_data' = [k \in 1 .. Len(data) |-> [data[k] EXCEPT !.update_cycles = v[k]]]
      BY <3>1
    <3> QED
      BY <3>2, <3>3
  <2>3. ASSUME NEW k \in 1 .. Len(data)
        PROVE  /\ [data[k] EXCEPT !.update_cycles = u[k]] \in Entry
               /\ [data[k] EXCEPT !.update_cycles = u[k]].condition = data[k].condition
    <3>1. data[k] \in Entry /\ u[k] \in {0, 1}
      BY <1>2
    <3> QED
      BY <3>1 DEF Entry
  <2>4. Len(data) \in Nat
    BY <1>2
  <2>5. block_data' \in [1 .. Len(data) -> Entry]
    BY <2>2, <2>3
  <2>6. block_data' \in Seq(Entry) /\ Len(block_data') = Len(data)
    BY <2>4, <2>5
  <2>7. \A k \in 1 .. Len(data) : block_data'[k].condition = data[k].condition
    BY <2>2, <2>3
  <2> QED
    BY <1>2, <1>4, <2>6, <2>7
<1> QED
  BY <1>5, <1>6, <1>7

LEMMA ScanCode ==
  ASSUME CodeInv, scan_block
  PROVE  CodeInv'
<1> DEFINE b == block_end_pc
           i == program[b]
           n == Len(block_exits)
           new == [target |-> i.target, source |-> NoAddress]
<1>0. /\ Types /\ Last \in Nat /\ start \in Nat /\ b \in 0 .. Last /\ start <= b
      /\ Len(block_data) = b - start /\ n <= Len(block_data) /\ n \in Nat
      /\ block_exits \in Seq(Exit)
      /\ phase = "scan" /\ pc = start /\ code = <<>> /\ exits_emitted = 0
      /\ last_condition = Always
  <2>1. Types /\ Span /\ phase = "scan"
    BY DEF CodeInv, scan_block
  <2>2. Last \in Nat
    BY <2>1, ProgramType
  <2> QED
    BY <2>1, <2>2 DEF Types, Span, InBlock
<1>1. /\ UNCHANGED <<program, gates, pc, start, exits_emitted, code, last_condition,
                     backpatch_address, cycle_count, at, z, x, cycles>>
      /\ block_end_pc' = b + 1
      /\ block_exits' = IF i.op = "branch" THEN Append(block_exits, new) ELSE block_exits
  BY DEF scan_block, machine, arm_opcode_branch
<1>2. (phase' = "scan" /\ b + 1 <= Last) \/ phase' = "emit"
  BY <1>0 DEF scan_block, EndScan
<1>3. i.target \in Nat
  BY <1>0, InstructionType
<1>4. /\ block_data' \in Seq(Entry)
      /\ Len(block_data') = Len(block_data) + 1
      /\ \A k \in 1 .. Len(block_data) + 1 :
           block_data'[k].condition = arm_set_condition(program[start + k - 1])
  BY ScanEntries
<1>5. block_exits' \in Seq(Exit)
  <2>1. new \in Exit
    BY <1>3 DEF Exit, NoAddress
  <2> QED
    BY <1>0, <1>1, <2>1
<1>6. Types'
  <2>1. (\E p \in Programs : program = p.program /\ gates = p.gates)'
    BY <1>0, <1>1 DEF Types
  <2> QED
    BY <1>0, <1>1, <1>2, <1>4, <1>5, <2>1 DEF Types
<1>7. Span'
  <2>1. Len(block_exits') <= n + 1
    BY <1>0, <1>1
  <2> QED
    BY <1>0, <1>1, <1>2, <1>4, <2>1 DEF Span, InBlock, Made
<1>8. Exits'
  <2>1. PICK f \in [1 .. n -> 0 .. Last] : Numbered(f)
    BY <1>0 DEF CodeInv, Exits, InBlock
  <2>2. CASE i.op = "branch"
    <3>g. PICK g : g = [e \in 1 .. n + 1 |-> IF e = n + 1 THEN b ELSE f[e]]
      OBVIOUS
    <3>1. /\ Len(block_exits') = n + 1 /\ block_exits'[n + 1] = new
          /\ \A e \in 1 .. n : block_exits'[e] = block_exits[e]
      BY <1>0, <1>1, <2>2
    <3>2. g \in [1 .. n + 1 -> 0 .. Last]
      BY <1>0, <3>g
    <3>3. DOMAIN g = 1 .. n + 1 /\ g[n + 1] = b /\ \A e \in 1 .. n : g[e] = f[e]
      BY <1>0, <3>g
    <3>4. \A e \in 1 .. n : f[e] >= start /\ f[e] < b /\ f[e] \in Nat
      BY <1>0, <2>1 DEF Numbered
    <3>5. \A d, e \in 1 .. n + 1 : d < e => g[d] < g[e]
      <4> SUFFICES ASSUME NEW d \in 1 .. n + 1, NEW e \in 1 .. n + 1, d < e
                   PROVE  g[d] < g[e]
        OBVIOUS
      <4>1. d \in 1 .. n /\ g[d] = f[d] /\ f[d] < b
        BY <1>0, <3>3, <3>4
      <4>2. CASE e = n + 1
        BY <3>3, <4>1, <4>2
      <4>3. CASE e # n + 1
        <5>1. e \in 1 .. n /\ g[e] = f[e]
          BY <1>0, <3>3, <4>3
        <5>2. d \in DOMAIN f /\ e \in DOMAIN f
          BY <2>1, <4>1, <5>1
        <5>3. f[d] < f[e]
          BY <2>1, <5>2 DEF Numbered
        <5> QED
          BY <4>1, <5>1, <5>3
      <4> QED
        BY <4>2, <4>3
    <3>6. \A e \in 1 .. n + 1 :
            /\ g[e] >= start /\ g[e] < b + 1 /\ program[g[e]].op = "branch"
            /\ block_exits'[e].target = program[g[e]].target
      <4> SUFFICES ASSUME NEW e \in 1 .. n + 1
                   PROVE  /\ g[e] >= start /\ g[e] < b + 1 /\ program[g[e]].op = "branch"
                          /\ block_exits'[e].target = program[g[e]].target
        OBVIOUS
      <4>1. CASE e = n + 1
        BY <1>0, <2>2, <3>1, <3>3, <4>1
      <4>2. CASE e # n + 1
        <5>1. e \in 1 .. n
          BY <1>0, <4>2
        <5> QED
          BY <1>0, <2>1, <3>1, <3>3, <3>4, <5>1 DEF Numbered
      <4> QED
        BY <4>1, <4>2
    <3>7. \A k \in start .. b : program[k].op = "branch" => \E e \in 1 .. n + 1 : g[e] = k
      <4> SUFFICES ASSUME NEW k \in start .. b, program[k].op = "branch"
                   PROVE  \E e \in 1 .. n + 1 : g[e] = k
        OBVIOUS
      <4>1. CASE k = b
        BY <1>0, <3>3, <4>1
      <4>2. CASE k # b
        <5>1. k \in start .. b - 1
          BY <1>0, <4>2
        <5>2. PICK e \in 1 .. n : f[e] = k
          BY <2>1, <5>1 DEF Numbered
        <5> QED
          BY <1>0, <3>3, <5>2
      <4> QED
        BY <4>1, <4>2
    <3>8. Numbered(g)'
      <4>1. block_end_pc' - 1 = b /\ block_end_pc' = b + 1 /\ start' = start /\ program' = program
        BY <1>0, <1>1
      <4>2. \A d, e \in DOMAIN g : d < e => g[d] < g[e]
        BY <3>3, <3>5
      <4>3. \A e \in DOMAIN g :
              /\ g[e] >= start' /\ g[e] < block_end_pc' /\ program'[g[e]].op = "branch"
              /\ block_exits'[e].target = program'[g[e]].target
        BY <3>3, <3>6, <4>1
      <4>4. \A k \in start' .. block_end_pc' - 1 :
              program'[k].op = "branch" => \E e \in DOMAIN g : g[e] = k
        BY <3>3, <3>7, <4>1
      <4> QED
        BY <4>2, <4>3, <4>4, Zenon DEF Numbered
    <3>9. \A e \in DOMAIN g : ~(e <= exits_emitted') /\ ~(g[e] < pc')
      BY <1>0, <1>1, <3>2, <3>3, <3>6, SMTT(30)
    <3>10. g \in [1 .. Len(block_exits') -> 0 .. Last]
      BY <3>1, <3>2
    <3>11. exits_emitted' <= Len(block_exits')
      BY <1>0, <1>1, <3>1
    <3> QED
      BY <3>8, <3>9, <3>10, <3>11, Zenon DEF Exits
  <2>3. CASE i.op # "branch"
    <3>1. block_exits' = block_exits
      BY <1>1, <2>3
    <3>2. \A k \in start .. b : program[k].op = "branch" => \E e \in DOMAIN f : f[e] = k
      BY <1>0, <2>1, <2>3 DEF Numbered
    <3>3. Numbered(f)'
      <4>1. block_end_pc' - 1 = b /\ block_end_pc' = b + 1 /\ start' = start /\ program' = program
        BY <1>0, <1>1
      <4>2. \A e \in DOMAIN f : f[e] < b + 1
        BY <1>0, <2>1 DEF Numbered
      <4> QED
        BY <2>1, <3>1, <3>2, <4>1, <4>2 DEF Numbered
    <3>4. \A e \in DOMAIN f : ~(e <= exits_emitted') /\ ~(f[e] < pc')
      BY <1>0, <1>1, <2>1 DEF Numbered
    <3>5. exits_emitted' <= Len(block_exits')
      BY <1>0, <1>1, <3>1
    <3> QED
      BY <2>1, <3>1, <3>3, <3>4, <3>5 DEF Exits
  <2> QED
    BY <2>2, <2>3
<1>9. Offsets' /\ JumpsPatched' /\ Flow' /\ CodeTail' /\ LastCondition' /\ Skips'
  <2>1. Len(code') = 0 /\ pc' = start' /\ phase' \in {"scan", "emit"} /\ code' = <<>>
        /\ last_condition' = Always /\ start' \in Nat /\ Always.cond = "al"
    BY <1>0, <1>1, <1>2 DEF Always, Condition
  <2>2. /\ ~(start' < pc')
        /\ \A k \in start' .. pc' - 1 : FALSE
        /\ \A k \in 1 .. Len(code') : FALSE
        /\ \A k \in 1 .. Len(code') - 1 : FALSE
        /\ \A k \in 1 .. Len(code') - 2 : FALSE
    <3>1. /\ \A k \in 1 .. 0 : FALSE
          /\ \A k \in 1 .. 0 - 1 : FALSE
          /\ \A k \in 1 .. 0 - 2 : FALSE
      OBVIOUS
    <3>2. Len(code') = 0
      BY <2>1
    <3>3. ~(start' < pc') /\ \A k \in start' .. pc' - 1 : FALSE
      <4>1. start' \in Nat /\ pc' = start'
        BY <2>1
      <4>2. \A s \in Nat : ~(s < s) /\ \A k \in s .. s - 1 : FALSE
        OBVIOUS
      <4> QED
        BY <4>1, <4>2, Zenon
    <3> QED
      BY <3>1, <3>2, <3>3, Zenon
  <2> QED
    BY <2>1, <2>2 DEF Offsets, JumpsPatched, Flow, CodeTail, LastCondition, Skips, Made
<1> QED
  BY <1>6, <1>7, <1>8, <1>9 DEF CodeInv
-----------------------------------------------------------------------------
(* What one instruction emits. *)

\* new goes on from old.
Extends(new, old) ==
  /\ new \in Seq(Operation)
  /\ Len(old) <= Len(new)
  /\ \A k \in 1 .. Len(old) : new[k] = old[k]

\* From n on, ops are the code of the instruction at p: a test if h is 1, the cycles
\* before a branch, its own operation, and the cycles of a run cut off by a target if
\* u is 1.
Own(p, n, h) == n + h + (IF program[p].op = "branch" THEN 1 ELSE 0) + 1
Section(ops, p, n, h, u) ==
  LET m == Own(p, n, h)
  IN  /\ Len(ops) = m + u
      /\ h = 1 => /\ ops[n + 1].do = "skip_unless" /\ ops[n + 1].pc = p
                  /\ ops[n + 1].cond = program[p].cond
      /\ program[p].op = "branch" => ops[m - 1].do = "cycle_update" /\ ops[m - 1].pc = p
      /\ ops[m].do = Work(program[p]) /\ ops[m].pc = p /\ ops[m].to = NoAddress
      /\ u = 1 => ops[m + 1].do = "cycle_update" /\ ops[m + 1].pc = p + 1

LEMMA OpType ==
  ASSUME NEW do \in Works \cup {"gate"}, NEW p \in Nat
  PROVE  /\ Op(do, p) \in Operation
         /\ Op(do, p).do = do /\ Op(do, p).pc = p /\ Op(do, p).to = NoAddress
BY DEF Op, Operation, Conditions, Works, NoAddress

LEMMA UpdateEmits ==
  ASSUME NEW ops \in Seq(Operation), NEW p \in Nat, NEW c \in Nat
  PROVE  /\ Extends(generate_cycle_update(ops, p, c), ops)
         /\ Len(generate_cycle_update(ops, p, c)) = Len(ops) + (IF c = 0 THEN 0 ELSE 1)
         /\ c # 0 => /\ generate_cycle_update(ops, p, c)[Len(ops) + 1].do = "cycle_update"
                     /\ generate_cycle_update(ops, p, c)[Len(ops) + 1].pc = p
<1>1. PICK o : o = [Op("cycle_update", p) EXCEPT !.n = c]
  OBVIOUS
<1>2. o \in Operation /\ o.do = "cycle_update" /\ o.pc = p
  BY <1>1 DEF Op, Operation, Conditions, Works, NoAddress
<1>3. generate_cycle_update(ops, p, c) = IF c = 0 THEN ops ELSE Append(ops, o)
  BY <1>1 DEF generate_cycle_update
<1> QED
  BY <1>2, <1>3 DEF Extends

LEMMA HeaderEmits ==
  ASSUME NEW ops \in Seq(Operation), NEW c \in Conditions, pc \in Nat
  PROVE  /\ Extends(arm_conditional_block_header(ops, c), ops)
         /\ Len(arm_conditional_block_header(ops, c)) = Len(ops) + (IF c = "al" THEN 0 ELSE 1)
         /\ c # "al" =>
              /\ arm_conditional_block_header(ops, c)[Len(ops) + 1].do = "skip_unless"
              /\ arm_conditional_block_header(ops, c)[Len(ops) + 1].pc = pc
              /\ arm_conditional_block_header(ops, c)[Len(ops) + 1].cond = c
<1>1. PICK o : o = [Op("skip_unless", pc) EXCEPT !.cond = c]
  OBVIOUS
<1>2. o \in Operation /\ o.do = "skip_unless" /\ o.pc = pc /\ o.cond = c
  BY <1>1 DEF Op, Operation, Conditions, Works, NoAddress
<1>3. arm_conditional_block_header(ops, c) = IF c = "al" THEN ops ELSE Append(ops, o)
  BY <1>1 DEF arm_conditional_block_header
<1> QED
  BY <1>2, <1>3 DEF Extends

LEMMA WorkEmits ==
  ASSUME NEW ops \in Seq(Operation), NEW do \in Works, NEW p \in Nat
  PROVE  /\ Extends(Append(ops, Op(do, p)), ops)
         /\ Len(Append(ops, Op(do, p))) = Len(ops) + 1
         /\ Append(ops, Op(do, p))[Len(ops) + 1].do = do
         /\ Append(ops, Op(do, p))[Len(ops) + 1].pc = p
         /\ Append(ops, Op(do, p))[Len(ops) + 1].to = NoAddress
<1>1. PICK o : o = Op(do, p)
  OBVIOUS
<1>2. o \in Operation /\ o.do = do /\ o.pc = p /\ o.to = NoAddress
  BY <1>1, OpType
<1>3. /\ Extends(Append(ops, o), ops)
      /\ Len(Append(ops, o)) = Len(ops) + 1
      /\ Append(ops, o)[Len(ops) + 1] = o
  BY <1>2 DEF Extends
<1> QED
  BY <1>1, <1>2, <1>3

LEMMA BranchEmits ==
  ASSUME NEW ops \in Seq(Operation), NEW p \in Nat, NEW c \in Nat, c # 0
  PROVE  /\ Extends(generate_branch(ops, p, c), ops)
         /\ Len(generate_branch(ops, p, c)) = Len(ops) + 2
         /\ generate_branch(ops, p, c)[Len(ops) + 1].do = "cycle_update"
         /\ generate_branch(ops, p, c)[Len(ops) + 1].pc = p
         /\ generate_branch(ops, p, c)[Len(ops) + 2].do = "jump"
         /\ generate_branch(ops, p, c)[Len(ops) + 2].pc = p
         /\ generate_branch(ops, p, c)[Len(ops) + 2].to = NoAddress
<1>1. PICK r : r = generate_cycle_update(ops, p, c)
  OBVIOUS
<1>2. /\ Extends(r, ops) /\ Len(r) = Len(ops) + 1
      /\ r[Len(ops) + 1].do = "cycle_update" /\ r[Len(ops) + 1].pc = p
  BY <1>1, UpdateEmits
<1>3. r \in Seq(Operation) /\ "jump" \in Works
  BY <1>2 DEF Extends, Works
<1>4. PICK s : s = Append(r, Op("jump", p))
  OBVIOUS
<1>5. /\ Extends(s, r) /\ Len(s) = Len(r) + 1
      /\ s[Len(r) + 1].do = "jump" /\ s[Len(r) + 1].pc = p /\ s[Len(r) + 1].to = NoAddress
  BY <1>3, <1>4, WorkEmits
<1>6. s = generate_branch(ops, p, c)
  BY <1>1, <1>4 DEF generate_branch
<1>7. Len(ops) + 1 \in 1 .. Len(r) /\ \A k \in 1 .. Len(ops) : k \in 1 .. Len(r)
  BY <1>2, <1>3
<1>8. Len(s) = Len(ops) + 2 /\ Len(r) + 1 = Len(ops) + 2 /\ Len(ops) <= Len(s)
  BY <1>2, <1>5
<1>9. Extends(s, ops) /\ s[Len(ops) + 1] = r[Len(ops) + 1]
  BY <1>2, <1>5, <1>7, <1>8 DEF Extends
<1> QED
  BY <1>2, <1>5, <1>6, <1>8, <1>9

\* What is emitted before the section of an instruction with this entry.
Settled(entry) == IF NewRun(entry) THEN PatchSkip(code) ELSE code
\* Whether the section begins with a test.
Test(entry) == IF NewRun(entry) /\ entry.condition.cond # "al" THEN 1 ELSE 0
LEMMA PatchedSkips ==
  ASSUME Types
  PROVE  /\ PatchSkip(code) \in Seq(Operation)
         /\ Len(PatchSkip(code)) = Len(code)
         /\ \A k \in 1 .. Len(code) :
              /\ PatchSkip(code)[k] =
                   IF last_condition.cond # "al" /\ k = backpatch_address
                   THEN [code[k] EXCEPT !.to = Len(code) + 1] ELSE code[k]
              /\ PatchSkip(code)[k].do = code[k].do
              /\ PatchSkip(code)[k].pc = code[k].pc
              /\ PatchSkip(code)[k].cond = code[k].cond
              /\ Open(k) => PatchSkip(code)[k].to = Len(code) + 1
              /\ ~Open(k) => PatchSkip(code)[k].to = code[k].to
<1>0. code \in Seq(Operation) /\ Len(code) \in Nat /\ Len(code) + 1 \in Nat
  BY DEF Types
<1>1. CASE last_condition.cond = "al"
  BY <1>0, <1>1 DEF PatchSkip, Open
<1>2. CASE last_condition.cond # "al"
  <2> DEFINE P(k) == IF k = backpatch_address
                     THEN [code[k] EXCEPT !.to = Len(code) + 1] ELSE code[k]
  <2>1. PatchSkip(code) = [k \in 1 .. Len(code) |-> P(k)]
    BY <1>0, <1>2 DEF PatchSkip
  <2>2. ASSUME NEW k \in 1 .. Len(code)
        PROVE  /\ P(k) \in Operation
               /\ P(k).do = code[k].do /\ P(k).pc = code[k].pc /\ P(k).cond = code[k].cond
               /\ k = backpatch_address => P(k).to = Len(code) + 1
               /\ k # backpatch_address => P(k).to = code[k].to
    <3>1. code[k] \in Operation
      BY <1>0
    <3> QED
      BY <1>0, <3>1 DEF Operation
  <2>3. \A k \in 1 .. Len(code) : PatchSkip(code)[k] = P(k)
    BY <2>1
  <2>4. PatchSkip(code) \in Seq(Operation) /\ Len(PatchSkip(code)) = Len(code)
    <3> HIDE DEF P
    <3>1. PatchSkip(code) \in [1 .. Len(code) -> Operation]
      BY <2>1, <2>2
    <3> QED
      BY <1>0, <3>1
  <2> QED
    BY <1>2, <2>2, <2>3, <2>4 DEF Open
<1> QED
  BY <1>1, <1>2

LEMMA EmitShape ==
  ASSUME CodeInv, translate_arm_instruction,
         NEW entry, entry = block_data[pc - start + 1]
  PROVE  \E u \in {0, 1} :
           /\ Extends(code', Settled(entry))
           /\ Section(code', pc, Len(code), Test(entry), u)
           /\ u = 1 => pc + 1 < block_end_pc
           /\ block_exits' = IF program[pc].op = "branch"
                             THEN [block_exits EXCEPT ![block_exit].source =
                                     Own(pc, Len(code), Test(entry))]
                             ELSE block_exits
<1> DEFINE i == program[pc]
           k == pc - start + 1
           c == entry.condition.cond
           count == cycle_count + 1
           n == Len(code)
           h == Test(entry)
           b == IF i.op = "branch" THEN 1 ELSE 0
           m == Own(pc, n, h)
           left == IF i.op = "branch" THEN 0 ELSE count
           update == k < Len(block_data) /\ block_data[k + 1].update_cycles = 1
<1>0. /\ Types /\ Last \in Nat /\ pc \in Nat /\ start \in Nat /\ block_end_pc \in Nat
      /\ pc \in 0 .. Last /\ start <= pc /\ pc < block_end_pc
      /\ Len(block_data) = block_end_pc - start
      /\ k \in 1 .. Len(block_data)
      /\ entry.condition = arm_set_condition(i)
      /\ n \in Nat /\ code \in Seq(Operation) /\ count \in Nat /\ count # 0
      /\ block_exits \in Seq(Exit) /\ pc + 1 \in Nat
  <2>1. Types /\ Span /\ phase = "emit" /\ pc # block_end_pc
    BY DEF CodeInv, translate_arm_instruction
  <2>2. Last \in Nat
    BY <2>1, ProgramType
  <2>3. /\ pc \in Nat /\ start \in Nat /\ block_end_pc \in Nat /\ cycle_count \in Nat
        /\ start <= pc /\ pc < block_end_pc /\ block_end_pc <= Last + 1
        /\ Len(block_data) = block_end_pc - start
        /\ \A j \in 1 .. Len(block_data) :
             block_data[j].condition = arm_set_condition(program[start + j - 1])
    BY <2>1, <2>2 DEF Types, Span, InBlock
  <2>4. k \in 1 .. Len(block_data) /\ start + k - 1 = pc
    BY <2>3
  <2>5. entry.condition = arm_set_condition(i)
    BY <2>3, <2>4
  <2> QED
    BY <2>1, <2>2, <2>3, <2>4, <2>5 DEF Types
<1>1. c = i.cond /\ c \in Conditions /\ Work(i) \in Works
      /\ i.op \in {"plain", "flags", "branch", "bx"}
  BY <1>0, InstructionType
<1>2. PICK ops0 : ops0 = Settled(entry)
  OBVIOUS
<1>3. ops0 \in Seq(Operation) /\ Len(ops0) = n
  BY <1>0, <1>2, PatchedSkips DEF Settled
<1>4. PICK ops1 : ops1 = IF NewRun(entry) THEN arm_conditional_block_header(ops0, c) ELSE ops0
  OBVIOUS
<1>5. /\ Extends(ops1, ops0) /\ Len(ops1) = n + h
      /\ h = 1 => ops1[n + 1].do = "skip_unless" /\ ops1[n + 1].pc = pc /\ ops1[n + 1].cond = c
  <2>1. CASE NewRun(entry)
    <3>1. ops1 = arm_conditional_block_header(ops0, c)
      BY <1>4, <2>1
    <3>2. /\ Extends(ops1, ops0)
          /\ Len(ops1) = Len(ops0) + (IF c = "al" THEN 0 ELSE 1)
          /\ c # "al" => /\ ops1[Len(ops0) + 1].do = "skip_unless"
                         /\ ops1[Len(ops0) + 1].pc = pc /\ ops1[Len(ops0) + 1].cond = c
      BY <1>0, <1>1, <1>3, <3>1, HeaderEmits
    <3> QED
      BY <1>3, <2>1, <3>2 DEF Test
  <2>2. CASE ~NewRun(entry)
    BY <1>3, <1>4, <2>2 DEF Test, Extends
  <2> QED
    BY <2>1, <2>2
<1>6. h \in {0, 1} /\ m = n + h + b + 1
  BY DEF Test, Own
<1>7. PICK ops2 : ops2 = CASE i.op = "branch" -> generate_branch(ops1, pc, count)
                           [] i.op = "bx" -> Append(ops1, Op("indirect", pc))
                           [] OTHER -> Append(ops1, Op("execute", pc))
  OBVIOUS
<1>8. /\ Extends(ops2, ops1) /\ Len(ops2) = n + h + b + 1
      /\ b = 1 => ops2[n + h + 1].do = "cycle_update" /\ ops2[n + h + 1].pc = pc
      /\ ops2[n + h + b + 1].do = Work(i) /\ ops2[n + h + b + 1].pc = pc
      /\ ops2[n + h + b + 1].to = NoAddress
  <2>1. ops1 \in Seq(Operation)
    BY <1>5 DEF Extends
  <2>2. CASE i.op = "branch"
    <3>1. ops2 = generate_branch(ops1, pc, count)
      BY <1>7, <2>2
    <3> HIDE DEF count, i
    <3>2. /\ Extends(ops2, ops1) /\ Len(ops2) = Len(ops1) + 2
          /\ ops2[Len(ops1) + 1].do = "cycle_update" /\ ops2[Len(ops1) + 1].pc = pc
          /\ ops2[Len(ops1) + 2].do = "jump" /\ ops2[Len(ops1) + 2].pc = pc
          /\ ops2[Len(ops1) + 2].to = NoAddress
      BY <1>0, <2>1, <3>1, BranchEmits, SMTT(30)
    <3>3. Work(i) = "jump" /\ b = 1
      BY <2>2 DEF Work, i
    <3> QED
      BY <1>0, <1>5, <1>6, <3>2, <3>3
  <2>3. CASE i.op # "branch"
    <3>1. ops2 = Append(ops1, Op(Work(i), pc)) /\ b = 0
      BY <1>7, <2>3 DEF Work
    <3>2. /\ Extends(ops2, ops1) /\ Len(ops2) = Len(ops1) + 1
          /\ ops2[Len(ops1) + 1].do = Work(i) /\ ops2[Len(ops1) + 1].pc = pc
          /\ ops2[Len(ops1) + 1].to = NoAddress
      BY <1>0, <1>1, <2>1, <3>1, WorkEmits
    <3> QED
      BY <1>0, <1>5, <1>6, <3>1, <3>2
  <2> QED
    BY <2>2, <2>3
<1>9. PICK w : w = IF update THEN left ELSE 0
  OBVIOUS
<1>10. w \in Nat /\ (w # 0 => update)
  BY <1>0, <1>9
<1>11. PICK u : u = IF w = 0 THEN 0 ELSE 1
  OBVIOUS
<1>12. code' = generate_cycle_update(ops2, pc + 1, w)
  <2>1. ops1 = IF NewRun(entry)
               THEN arm_conditional_block_header(PatchSkip(code), entry.condition.cond)
               ELSE code
    BY <1>2, <1>4 DEF Settled
  <2>2. code' = IF update THEN generate_cycle_update(ops2, pc + 1, left) ELSE ops2
    BY <1>7, <2>1 DEF translate_arm_instruction
  <2>3. generate_cycle_update(ops2, pc + 1, 0) = ops2
    BY DEF generate_cycle_update
  <2> QED
    BY <1>9, <2>2, <2>3
<1>13. /\ Extends(code', ops2) /\ Len(code') = Len(ops2) + u
       /\ u = 1 => code'[Len(ops2) + 1].do = "cycle_update" /\ code'[Len(ops2) + 1].pc = pc + 1
  <2>1. ops2 \in Seq(Operation)
    BY <1>8 DEF Extends
  <2>2. /\ Extends(code', ops2)
        /\ Len(code') = Len(ops2) + (IF w = 0 THEN 0 ELSE 1)
        /\ w # 0 => /\ code'[Len(ops2) + 1].do = "cycle_update"
                    /\ code'[Len(ops2) + 1].pc = pc + 1
    BY <1>0, <1>10, <1>12, <2>1, UpdateEmits
  <2> QED
    BY <1>11, <2>2
<1>14. u \in {0, 1} /\ (u = 1 => pc + 1 < block_end_pc)
  <2>1. update => pc + 1 < block_end_pc
    BY <1>0
  <2> QED
    BY <1>10, <1>11, <2>1
<1>15. block_exits' = IF i.op = "branch" THEN [block_exits EXCEPT ![block_exit].source = m]
                      ELSE block_exits
  <2>1. ops1 = IF NewRun(entry)
               THEN arm_conditional_block_header(PatchSkip(code), entry.condition.cond)
               ELSE code
    BY <1>2, <1>4 DEF Settled
  <2>2. block_exits' = IF i.op = "branch"
                       THEN [block_exits EXCEPT ![block_exit].source = Len(ops2)]
                       ELSE block_exits
    BY <1>7, <2>1 DEF translate_arm_instruction
  <2>3. Len(ops2) = m
    BY <1>6, <1>8
  <2> QED
    BY <2>2, <2>3
<1> HIDE DEF h
<1>16. Extends(code', ops0)
  <2>1. /\ \A j \in 1 .. Len(ops0) : j \in 1 .. Len(ops1) /\ j \in 1 .. Len(ops2)
        /\ Len(ops0) <= Len(code')
    BY <1>0, <1>3, <1>5, <1>6, <1>8, <1>13, <1>14, SMTT(30)
  <2> QED
    BY <1>5, <1>8, <1>13, <2>1 DEF Extends
<1>17. Section(code', pc, n, h, u)
  <2>1. Len(code') = m + u
    BY <1>6, <1>8, <1>13
  <2>2. ASSUME h = 1
        PROVE  code'[n + 1].do = "skip_unless" /\ code'[n + 1].pc = pc /\ code'[n + 1].cond = i.cond
    <3>1. n + 1 \in 1 .. Len(ops1) /\ n + 1 \in 1 .. Len(ops2)
      BY <1>0, <1>5, <1>6, <1>8, <2>2
    <3>2. code'[n + 1] = ops1[n + 1]
      BY <1>8, <1>13, <3>1 DEF Extends
    <3> QED
      BY <1>1, <1>5, <2>2, <3>2
  <2>3. ASSUME i.op = "branch"
        PROVE  code'[m - 1].do = "cycle_update" /\ code'[m - 1].pc = pc
    <3>1. b = 1 /\ m - 1 = n + h + 1 /\ n + h + 1 \in 1 .. Len(ops2)
      BY <1>0, <1>6, <1>8, <2>3, SMTT(30)
    <3>2. code'[n + h + 1] = ops2[n + h + 1]
      BY <1>13, <3>1 DEF Extends
    <3> QED
      BY <1>8, <3>1, <3>2
  <2>4. code'[m].do = Work(i) /\ code'[m].pc = pc /\ code'[m].to = NoAddress
    <3>1. m \in 1 .. Len(ops2)
      BY <1>0, <1>6, <1>8
    <3>2. code'[m] = ops2[m]
      BY <1>13, <3>1 DEF Extends
    <3> QED
      BY <1>6, <1>8, <3>2
  <2>5. Len(ops2) + 1 = m + 1
    BY <1>6, <1>8
  <2> QED
    BY <1>13, <2>1, <2>2, <2>3, <2>4, <2>5 DEF Section
<1> QED
  BY <1>2, <1>14, <1>15, <1>16, <1>17 DEF h
-----------------------------------------------------------------------------
(* An instruction is translated. *)

\* The instruction at hand begins a run.
Fresh == NewRun(block_data[pc - start + 1])

\* A step of translate_arm_instruction: h and u as in Section.
Emitted(h, u) ==
  LET n == Len(code)
      i == program[pc]
      k == pc - start + 1
  IN  /\ phase = "emit" /\ pc < block_end_pc /\ pc' = pc + 1
      /\ UNCHANGED <<program, gates, phase, start, block_end_pc, at, z, x, cycles>>
      /\ cycle_count' \in Nat
      /\ code' \in Seq(Operation)
      /\ \A j \in 1 .. n :
           /\ code'[j].do = code[j].do /\ code'[j].pc = code[j].pc
           /\ code'[j].cond = code[j].cond
           /\ Fresh /\ Open(j) => code'[j].to = n + 1
           /\ ~(Fresh /\ Open(j)) => code'[j].to = code[j].to
      /\ Section(code', pc, n, h, u)
      /\ u = 1 => pc + 1 < block_end_pc
      /\ h = 1 => Fresh /\ i.cond # "al"
      /\ h = 0 => i.cond = "al" \/ (~Fresh /\ start < pc /\ MidRun(program, pc))
      /\ ~Fresh => last_condition = arm_set_condition(i)
      /\ last_condition' = arm_set_condition(i)
      /\ backpatch_address' = IF h = 1 THEN n + 1 ELSE backpatch_address
      /\ block_data' = [block_data EXCEPT ![k].block_offset = n + 1]
      /\ exits_emitted' = IF i.op = "branch" THEN exits_emitted + 1 ELSE exits_emitted
      /\ block_exits' = IF i.op = "branch"
                        THEN [block_exits EXCEPT ![exits_emitted + 1].source = Own(pc, n, h)]
                        ELSE block_exits

LEMMA EmitPlace ==
  ASSUME CodeInv, phase = "emit", pc # block_end_pc
  PROVE  /\ Types /\ Last \in Nat /\ pc \in Nat /\ start \in Nat /\ block_end_pc \in Nat
         /\ pc \in 0 .. Last /\ start <= pc /\ pc < block_end_pc /\ block_end_pc <= Last + 1
         /\ Len(block_data) = block_end_pc - start
         /\ pc - start + 1 \in 1 .. Len(block_data)
         /\ block_data \in Seq(Entry) /\ code \in Seq(Operation) /\ Len(code) \in Nat
         /\ block_data[pc - start + 1].condition = arm_set_condition(program[pc])
<1>1. Types /\ Span
  BY DEF CodeInv
<1>2. Last \in Nat
  BY <1>1, ProgramType
<1>3. /\ pc \in Nat /\ start \in Nat /\ block_end_pc \in Nat
      /\ start <= pc /\ pc < block_end_pc /\ block_end_pc <= Last + 1
      /\ Len(block_data) = block_end_pc - start
      /\ \A j \in 1 .. Len(block_data) :
           block_data[j].condition = arm_set_condition(program[start + j - 1])
  <2>1. pc \in Nat /\ start \in Nat /\ block_end_pc \in Nat
    BY <1>1 DEF Types
  <2>2. /\ start <= pc /\ pc <= block_end_pc /\ block_end_pc <= Last + 1
        /\ Len(block_data) = block_end_pc - start
        /\ \A j \in 1 .. Len(block_data) :
             block_data[j].condition = arm_set_condition(program[start + j - 1])
    BY <1>1, Zenon DEF Span, InBlock
  <2>3. pc < block_end_pc
    BY <2>1, <2>2
  <2> QED
    BY <2>1, <2>2, <2>3
<1>4. pc - start + 1 \in 1 .. Len(block_data) /\ start + (pc - start + 1) - 1 = pc
  BY <1>3
<1>5. block_data[pc - start + 1].condition = arm_set_condition(program[pc])
  BY <1>3, <1>4
<1> QED
  BY <1>1, <1>2, <1>3, <1>4, <1>5 DEF Types

LEMMA TranslateEmits ==
  ASSUME CodeInv, translate_arm_instruction
  PROVE  \E h, u \in {0, 1} : Emitted(h, u)
<1> DEFINE i == program[pc]
           k == pc - start + 1
           n == Len(code)
           c == arm_set_condition(i)
<1>1. PICK entry : entry = block_data[k]
  OBVIOUS
<1>2. /\ Types /\ pc \in Nat /\ start \in Nat /\ pc \in 0 .. Last
      /\ start <= pc /\ pc < block_end_pc /\ code \in Seq(Operation) /\ n \in Nat
      /\ entry.condition = c /\ phase = "emit"
  BY <1>1, EmitPlace DEF translate_arm_instruction
<1>3. PICK u \in {0, 1} :
        /\ Extends(code', Settled(entry))
        /\ Section(code', pc, n, Test(entry), u)
        /\ u = 1 => pc + 1 < block_end_pc
        /\ block_exits' = IF i.op = "branch"
                          THEN [block_exits EXCEPT ![block_exit].source =
                                  Own(pc, n, Test(entry))]
                          ELSE block_exits
  BY <1>1, EmitShape
<1>4. PICK h : h = Test(entry)
  OBVIOUS
<1>5. h \in {0, 1} /\ (h = 1 <=> Fresh /\ i.cond # "al")
  <2>1. c.cond = i.cond
    BY <1>2, InstructionType
  <2> QED
    BY <1>1, <1>2, <1>4, <2>1 DEF Test, Fresh
<1>6. /\ UNCHANGED <<program, gates, phase, start, block_end_pc, at, z, x, cycles>>
      /\ pc' = pc + 1
      /\ exits_emitted' = IF i.op = "branch" THEN exits_emitted + 1 ELSE exits_emitted
      /\ block_data' = [block_data EXCEPT ![k].block_offset = n + 1]
      /\ last_condition' = IF Fresh THEN c ELSE last_condition
  BY <1>1, <1>2 DEF translate_arm_instruction, machine, Fresh
<1>7. ~Fresh => last_condition = c
  BY <1>1, <1>2 DEF Fresh, NewRun
<1>8. cycle_count' \in Nat
  <2>1. cycle_count \in Nat
    BY <1>2 DEF Types
  <2>2. \/ cycle_count' = 0
        \/ cycle_count' = (IF i.op = "branch" THEN 0 ELSE cycle_count + 1)
    BY DEF translate_arm_instruction
  <2> QED
    BY <2>1, <2>2
<1>9. h = 0 => i.cond = "al" \/ (~Fresh /\ start < pc /\ MidRun(program, pc))
  <2> SUFFICES ASSUME h = 0, i.cond # "al"
               PROVE  ~Fresh /\ start < pc /\ MidRun(program, pc)
    OBVIOUS
  <2>1. ~Fresh /\ last_condition = c
    BY <1>5, <1>7
  <2>2. ~c.marked
    BY <1>1, <1>2, <2>1 DEF Fresh, NewRun
  <2>3. last_condition = IF pc = start THEN Always ELSE arm_set_condition(program[pc - 1])
    BY <1>2 DEF CodeInv, LastCondition, Made
  <2>4. c.cond = i.cond /\ i.op # "flags"
    BY <2>2 DEF arm_set_condition, Condition
  <2>5. pc # start
    BY <2>1, <2>3, <2>4 DEF Always, Condition
  <2>6. arm_set_condition(program[pc - 1]) = arm_set_condition(program[pc])
    BY <2>1, <2>3, <2>5
  <2>7. pc \in DOMAIN program /\ pc > 0 /\ start < pc
    BY <1>2, <2>5, ProgramType
  <2> QED
    BY <2>1, <2>4, <2>6, <2>7 DEF MidRun
<1>10. \A j \in 1 .. n :
           /\ code'[j].do = code[j].do /\ code'[j].pc = code[j].pc
           /\ code'[j].cond = code[j].cond
           /\ Fresh /\ Open(j) => code'[j].to = n + 1
           /\ ~(Fresh /\ Open(j)) => code'[j].to = code[j].to
  <2>1. CASE Fresh
    <3>1. Settled(entry) = PatchSkip(code)
      BY <1>1, <2>1 DEF Settled, Fresh
    <3>2. \A j \in 1 .. n : code'[j] = PatchSkip(code)[j]
      BY <1>2, <1>3, <3>1, PatchedSkips DEF Extends
    <3> QED
      BY <1>2, <2>1, <3>2, PatchedSkips
  <2>2. CASE ~Fresh
    <3>1. Settled(entry) = code
      BY <1>1, <2>2 DEF Settled, Fresh
    <3> QED
      BY <1>3, <2>2, <3>1 DEF Extends
  <2> QED
    BY <2>1, <2>2
<1>11. backpatch_address' = IF h = 1 THEN n + 1 ELSE backpatch_address
  <2>1. PICK ops1 : ops1 = IF NewRun(entry)
                           THEN arm_conditional_block_header(PatchSkip(code), entry.condition.cond)
                           ELSE code
    OBVIOUS
  <2>2. backpatch_address' = IF NewRun(entry) /\ entry.condition.cond # "al"
                             THEN Len(ops1) ELSE backpatch_address
    BY <1>1, <2>1 DEF translate_arm_instruction
  <2>3. ASSUME h = 1 PROVE Len(ops1) = n + 1
    <3>1. NewRun(entry) /\ entry.condition.cond # "al" /\ entry.condition.cond \in Conditions
      BY <1>2, <1>4, <2>3, InstructionType DEF Test
    <3>2. PatchSkip(code) \in Seq(Operation) /\ Len(PatchSkip(code)) = n
      BY <1>2, PatchedSkips
    <3>3. ops1 = arm_conditional_block_header(PatchSkip(code), entry.condition.cond)
      BY <2>1, <3>1
    <3>4. Len(arm_conditional_block_header(PatchSkip(code), entry.condition.cond))
            = Len(PatchSkip(code)) + (IF entry.condition.cond = "al" THEN 0 ELSE 1)
      BY <1>2, <3>1, <3>2, HeaderEmits
    <3> QED
      BY <3>1, <3>2, <3>3, <3>4
  <2> QED
    BY <1>4, <2>2, <2>3 DEF Test
<1>12. Emitted(h, u)
  <2>1. code' \in Seq(Operation)
    BY <1>3 DEF Extends
  <2>2. last_condition' = c
    BY <1>6, <1>7
  <2>3. Section(code', pc, n, h, u) /\ (u = 1 => pc + 1 < block_end_pc)
    BY <1>3, <1>4
  <2>4. block_exits' = IF i.op = "branch"
                       THEN [block_exits EXCEPT ![exits_emitted + 1].source = Own(pc, n, h)]
                       ELSE block_exits
    BY <1>3, <1>4 DEF block_exit
  <2> QED
    BY <1>2, <1>5, <1>6, <1>7, <1>8, <1>9, <1>10, <1>11, <2>1, <2>2, <2>3, <2>4, Zenon
       DEF Emitted
<1> QED
  BY <1>3, <1>5, <1>12
\* The operations of a section, one kind after another.
NewOp(j, h, u) ==
  LET n == Len(code)
      m == Own(pc, n, h)
      o == code'[j]
  IN  \/ /\ j = n + 1 /\ h = 1 /\ j < m
         /\ o.do = "skip_unless" /\ o.pc = pc /\ o.cond = program[pc].cond
      \/ /\ j = n + h + 1 /\ j + 1 = m /\ program[pc].op = "branch"
         /\ o.do = "cycle_update" /\ o.pc = pc
      \/ /\ j = m /\ o.do = Work(program[pc]) /\ o.pc = pc /\ o.to = NoAddress
         /\ m = n + h + 1 \/ program[pc].op = "branch"
      \/ /\ j = m + 1 /\ u = 1 /\ pc + 1 < block_end_pc
         /\ o.do = "cycle_update" /\ o.pc = pc + 1

LEMMA SectionOps ==
  ASSUME CodeInv, NEW h \in {0, 1}, NEW u \in {0, 1}, Emitted(h, u)
  PROVE  /\ Len(code) \in Nat /\ Len(code') \in Nat
         /\ Own(pc, Len(code), h) \in Len(code) + 1 .. Len(code) + 3
         /\ Len(code') = Own(pc, Len(code), h) + u
         /\ \A j \in Len(code) + 1 .. Len(code') : NewOp(j, h, u)
         /\ code'[Len(code) + 1].pc = pc
         /\ h = 1 => code'[Len(code) + 1].do = "skip_unless"
         /\ h = 0 => code'[Len(code) + 1].do \in Works \cup {"cycle_update"}
<1> DEFINE n == Len(code)
           m == Own(pc, n, h)
           b == IF program[pc].op = "branch" THEN 1 ELSE 0
<1>0. n \in Nat /\ Len(code') \in Nat /\ Types /\ pc \in Nat /\ Work(program[pc]) \in Works
  <2>1. phase = "emit" /\ pc # block_end_pc
    <3>1. pc \in Nat /\ block_end_pc \in Nat
      BY DEF CodeInv, Types
    <3> QED
      BY <3>1 DEF Emitted
  <2> QED
    BY <2>1, EmitPlace, InstructionType DEF Emitted
<1>1. m = n + h + b + 1 /\ b \in {0, 1}
  BY DEF Own
<1>2. /\ Len(code') = m + u
      /\ h = 1 => /\ code'[n + 1].do = "skip_unless" /\ code'[n + 1].pc = pc
                  /\ code'[n + 1].cond = program[pc].cond
      /\ b = 1 => code'[m - 1].do = "cycle_update" /\ code'[m - 1].pc = pc
      /\ code'[m].do = Work(program[pc]) /\ code'[m].pc = pc /\ code'[m].to = NoAddress
      /\ u = 1 => code'[m + 1].do = "cycle_update" /\ code'[m + 1].pc = pc + 1
      /\ u = 1 => pc + 1 < block_end_pc
  BY DEF Emitted, Section
<1>3. b = 1 <=> program[pc].op = "branch"
  OBVIOUS
<1> HIDE DEF b, m
<1>4. ASSUME NEW j \in n + 1 .. Len(code')
      PROVE  NewOp(j, h, u)
  <2>1. CASE j = n + 1 /\ h = 1
    BY <1>0, <1>1, <1>2, <2>1 DEF NewOp, m
  <2>2. CASE j = n + h + 1 /\ b = 1
    <3>1. j = m - 1 /\ j + 1 = m
      BY <1>0, <1>1, <2>2
    <3> QED
      BY <1>2, <1>3, <2>2, <3>1 DEF NewOp, m
  <2>3. CASE j = m
    <3>1. m = n + h + 1 \/ b = 1
      BY <1>0, <1>1
    <3> QED
      BY <1>2, <1>3, <2>3, <3>1 DEF NewOp, m
  <2>4. CASE j = m + 1 /\ u = 1
    BY <1>2, <2>4 DEF NewOp, m
  <2>5. \/ j = n + 1 /\ h = 1
        \/ j = n + h + 1 /\ b = 1
        \/ j = m
        \/ j = m + 1 /\ u = 1
    BY <1>0, <1>1, <1>2
  <2> QED
    BY <2>1, <2>2, <2>3, <2>4, <2>5
<1>5. m \in n + 1 .. n + 3 /\ n + 1 \in n + 1 .. Len(code')
  BY <1>0, <1>1, <1>2
<1>6. code'[n + 1].pc = pc /\ (h = 0 => code'[n + 1].do \in Works \cup {"cycle_update"})
  <2>1. CASE h = 1
    BY <1>2, <2>1
  <2>2. CASE h = 0 /\ b = 1
    <3>1. n + 1 = m - 1
      BY <1>0, <1>1, <2>2
    <3> QED
      BY <1>2, <2>2, <3>1
  <2>3. CASE h = 0 /\ b = 0
    <3>1. n + 1 = m
      BY <1>0, <1>1, <2>3
    <3> QED
      BY <1>0, <1>2, <2>3, <3>1
  <2> QED
    BY <1>1, <2>1, <2>2, <2>3
<1> QED
  BY <1>0, <1>2, <1>4, <1>5, <1>6 DEF m

LEMMA SequenceUpdate ==
  ASSUME NEW S, NEW s \in Seq(S), NEW e, NEW d, e \in 1 .. Len(s) => d \in S
  PROVE  [s EXCEPT ![e] = d] \in Seq(S) /\ Len([s EXCEPT ![e] = d]) = Len(s)
<1>1. PICK n \in Nat : n = Len(s)
  OBVIOUS
<1>2. s \in [1 .. n -> S]
  BY <1>1
<1>3. [s EXCEPT ![e] = d] \in [1 .. n -> S]
  BY <1>1, <1>2
<1> QED
  BY <1>1, <1>3

LEMMA EntryUpdate ==
  ASSUME NEW d \in Entry, NEW a \in Nat
  PROVE  /\ [d EXCEPT !.block_offset = a] \in Entry
         /\ [d EXCEPT !.block_offset = a].condition = d.condition
         /\ [d EXCEPT !.block_offset = a].block_offset = a
BY DEF Entry

LEMMA ExitUpdate ==
  ASSUME NEW d \in Exit, NEW a \in Nat
  PROVE  /\ [d EXCEPT !.source = a] \in Exit
         /\ [d EXCEPT !.source = a].target = d.target
         /\ [d EXCEPT !.source = a].source = a
BY DEF Exit

LEMMA EmitTypes ==
  ASSUME CodeInv, NEW h \in {0, 1}, NEW u \in {0, 1}, Emitted(h, u)
  PROVE  Types' /\ Span' /\ LastCondition'
<1> DEFINE n == Len(code)
           k == pc - start + 1
<1>0. /\ Types /\ Last \in Nat /\ pc \in Nat /\ start \in Nat /\ block_end_pc \in Nat
      /\ pc \in 0 .. Last /\ start <= pc /\ pc < block_end_pc /\ block_end_pc <= Last + 1
      /\ Len(block_data) = block_end_pc - start /\ k \in 1 .. Len(block_data)
      /\ block_data \in Seq(Entry) /\ n \in Nat /\ phase = "emit"
  <2>1. pc \in Nat /\ block_end_pc \in Nat /\ phase = "emit" /\ pc # block_end_pc
    BY DEF CodeInv, Types, Emitted
  <2> QED
    BY <2>1, EmitPlace
<1>1. /\ UNCHANGED <<program, gates, phase, start, block_end_pc, at, z, x, cycles>>
      /\ pc' = pc + 1 /\ cycle_count' \in Nat /\ code' \in Seq(Operation)
      /\ last_condition' = arm_set_condition(program[pc])
      /\ backpatch_address' = IF h = 1 THEN n + 1 ELSE backpatch_address
      /\ block_data' = [block_data EXCEPT ![k].block_offset = n + 1]
      /\ exits_emitted' = IF program[pc].op = "branch" THEN exits_emitted + 1 ELSE exits_emitted
      /\ block_exits' = IF program[pc].op = "branch"
                        THEN [block_exits EXCEPT ![exits_emitted + 1].source = Own(pc, n, h)]
                        ELSE block_exits
  BY DEF Emitted
<1>2. block_data' \in Seq(Entry) /\ Len(block_data') = Len(block_data)
      /\ \A j \in 1 .. Len(block_data) : block_data'[j].condition = block_data[j].condition
  <2>1. n + 1 \in Nat
    BY <1>0
  <2>2. block_data' = [block_data EXCEPT ![k] = [block_data[k] EXCEPT !.block_offset = n + 1]]
    BY <1>1
  <2>3. PICK d : d = [block_data[k] EXCEPT !.block_offset = n + 1]
    OBVIOUS
  <2>4. d \in Entry /\ d.condition = block_data[k].condition
    <3>1. block_data[k] \in Entry
      BY <1>0
    <3> QED
      BY <2>1, <2>3, <3>1, EntryUpdate
  <2>5. block_data' = [block_data EXCEPT ![k] = d]
    BY <2>2, <2>3
  <2> QED
    BY <1>0, <2>4, <2>5
<1>3. block_exits' \in Seq(Exit) /\ Len(block_exits') = Len(block_exits)
  <2>0. block_exits \in Seq(Exit) /\ Own(pc, n, h) \in Nat
    BY <1>0, SectionOps DEF Types
  <2>2. PICK e : e = exits_emitted + 1
    OBVIOUS
  <2>3. CASE program[pc].op = "branch"
    <3>1. block_exits' = [block_exits EXCEPT ![e].source = Own(pc, n, h)]
      BY <1>1, <2>2, <2>3
    <3>2. PICK d : d = [block_exits[e] EXCEPT !.source = Own(pc, n, h)]
      OBVIOUS
    <3>3. block_exits' = [block_exits EXCEPT ![e] = d]
      BY <3>1, <3>2
    <3>4. e \in 1 .. Len(block_exits) => d \in Exit
      BY <2>0, <3>2, ExitUpdate
    <3> QED
      BY <2>0, <3>3, <3>4, SequenceUpdate
  <2>4. CASE program[pc].op # "branch"
    BY <1>1, <2>0, <2>4
  <2> QED
    BY <2>3, <2>4
<1>4. Types'
  <2>1. (\E p \in Programs : program = p.program /\ gates = p.gates)'
    BY <1>0, <1>1 DEF Types
  <2>2. exits_emitted' \in Nat
    <3>1. exits_emitted \in Nat
      BY <1>0 DEF Types
    <3> QED
      BY <1>1, <3>1
  <2>3. backpatch_address' \in Nat
    <3>1. backpatch_address \in Nat
      BY <1>0 DEF Types
    <3> QED
      BY <1>0, <1>1, <3>1
  <2>4. pc' \in Nat /\ start' \in Nat /\ block_end_pc' \in Nat
    BY <1>0, <1>1
  <2>5. /\ phase' \in {"scan", "emit", "run", "gone"}
        /\ at' \in Nat /\ z' \in {0, 1} /\ cycles' \in Int
    BY <1>0, <1>1 DEF Types
  <2> QED
    BY <1>1, <1>2, <1>3, <2>1, <2>2, <2>3, <2>4, <2>5 DEF Types
<1>5. Span'
  <2>1. /\ Len(block_exits) <= Len(block_data) /\ start <= Last
        /\ \A j \in 1 .. Len(block_data) :
             block_data[j].condition = arm_set_condition(program[start + j - 1])
    BY <1>0 DEF CodeInv, Span, InBlock
  <2>2. start' <= pc' /\ pc' <= block_end_pc' /\ start' < block_end_pc'
    BY <1>0, <1>1
  <2>3. /\ start' <= Last /\ start' <= block_end_pc' /\ block_end_pc' <= Last + 1
        /\ Len(block_data') = block_end_pc' - start'
        /\ Len(block_exits') <= Len(block_data')
    BY <1>0, <1>1, <1>2, <1>3, <2>1
  <2>4. \A j \in 1 .. Len(block_data') :
          block_data'[j].condition = arm_set_condition(program'[start' + j - 1])
    BY <1>1, <1>2, <2>1
  <2>5. phase' = "emit"
    BY <1>0, <1>1
  <2> QED
    BY <2>2, <2>3, <2>4, <2>5 DEF Span, InBlock, Made
<1>6. LastCondition'
  <2>1. pc + 1 # start /\ pc + 1 - 1 = pc
    <3>1. pc \in Nat /\ start \in Nat /\ start <= pc
      BY <1>0
    <3> QED
      BY <3>1
  <2>2. pc' # start' /\ pc' - 1 = pc
    <3>1. pc' = pc + 1 /\ start' = start /\ pc \in Nat
      BY <1>0, <1>1
    <3> QED
      BY <2>1, <3>1
  <2>3. last_condition' = arm_set_condition(program'[pc' - 1])
    BY <1>1, <2>2
  <2> QED
    BY <2>2, <2>3 DEF LastCondition
<1> QED
  BY <1>4, <1>5, <1>6
LEMMA EmitExits ==
  ASSUME CodeInv, NEW h \in {0, 1}, NEW u \in {0, 1}, Emitted(h, u)
  PROVE  Exits'
<1> DEFINE n == Len(code)
           m == Own(pc, n, h)
           X == Len(block_exits)
           top == exits_emitted
<1>0. /\ Types /\ Last \in Nat /\ pc \in Nat /\ start \in Nat /\ block_end_pc \in Nat
      /\ pc \in 0 .. Last /\ start <= pc /\ pc < block_end_pc
      /\ n \in Nat /\ phase = "emit" /\ X \in Nat /\ top \in Nat
      /\ block_exits \in Seq(Exit)
  <2>1. pc \in Nat /\ block_end_pc \in Nat /\ phase = "emit" /\ pc # block_end_pc
    BY DEF CodeInv, Types, Emitted
  <2>2. Types
    BY DEF CodeInv
  <2> QED
    BY <2>1, <2>2, EmitPlace DEF Types
<1>1. PICK f \in [1 .. X -> 0 .. Last] :
        /\ Numbered(f)
        /\ \A e \in DOMAIN f : (e <= top) <=> (f[e] < pc)
        /\ \A e \in DOMAIN f : e <= top => Placed(f, e)
  BY <1>0 DEF CodeInv, Exits, InBlock
<1>2. /\ UNCHANGED <<program, start, block_end_pc>> /\ pc' = pc + 1
      /\ exits_emitted' = IF program[pc].op = "branch" THEN top + 1 ELSE top
      /\ block_exits' = IF program[pc].op = "branch"
                        THEN [block_exits EXCEPT ![top + 1].source = m]
                        ELSE block_exits
      /\ \A j \in 1 .. n : code'[j].do = code[j].do /\ code'[j].pc = code[j].pc
      /\ Section(code', pc, n, h, u)
  BY DEF Emitted
<1>3. /\ Len(code') \in Nat /\ m \in n + 1 .. n + 3 /\ Len(code') = m + u
  BY SectionOps
<1>4. \A e \in 1 .. X : Placed(f, e) /\ block_exits'[e] = block_exits[e] => Placed(f, e)'
  <2>1. \A j \in 1 .. n : j \in 1 .. Len(code')
    BY <1>0, <1>3
  <2> QED
    BY <1>2, <2>1 DEF Placed
<1>5. CASE program[pc].op = "branch"
  <2>1. PICK e0 \in 1 .. X : f[e0] = pc
    <3>1. pc \in start .. block_end_pc - 1
      BY <1>0
    <3> QED
      BY <1>1, <1>5, <3>1 DEF Numbered
  <2>2. e0 = top + 1
    <3>1. ~(e0 <= top)
      BY <1>0, <1>1, <2>1
    <3>2. ASSUME top + 1 < e0 PROVE FALSE
      <4>1. top + 1 \in 1 .. X
        BY <1>0, <3>2
      <4>2. f[top + 1] < pc
        BY <1>1, <2>1, <3>2, <4>1 DEF Numbered
      <4>3. top + 1 <= top
        BY <1>1, <4>1, <4>2
      <4> QED
        BY <1>0, <4>3
    <3> QED
      BY <1>0, <3>1, <3>2
  <2>3. PICK d : d = [block_exits[e0] EXCEPT !.source = m]
    OBVIOUS
  <2>4. d \in Exit /\ d.target = block_exits[e0].target /\ d.source = m
    <3>1. m \in Nat /\ block_exits[e0] \in Exit
      BY <1>0, <1>3
    <3> QED
      BY <2>3, <3>1, ExitUpdate
  <2>5. block_exits' = [block_exits EXCEPT ![e0] = d]
    BY <1>2, <1>5, <2>2, <2>3
  <2>6. /\ Len(block_exits') = X /\ block_exits'[e0] = d
        /\ \A e \in 1 .. X : e # e0 => block_exits'[e] = block_exits[e]
        /\ \A e \in 1 .. X : block_exits'[e].target = block_exits[e].target
    BY <1>0, <2>4, <2>5
  <2>7. Numbered(f)'
    BY <1>1, <1>2, <2>6 DEF Numbered
  <2>8. \A e \in DOMAIN f : (e <= top + 1) <=> (f[e] < pc + 1)
    <3> SUFFICES ASSUME NEW e \in 1 .. X
                 PROVE  (e <= top + 1) <=> (f[e] < pc + 1)
      BY <1>1
    <3>0. f[e] \in Nat /\ e \in Nat
      BY <1>0, <1>1
    <3>1. CASE e < e0
      <4>1. f[e] < pc
        BY <1>1, <2>1, <3>1 DEF Numbered
      <4> QED
        BY <1>0, <2>2, <3>0, <3>1, <4>1
    <3>2. CASE e = e0
      BY <1>0, <2>1, <2>2, <3>0, <3>2
    <3>3. CASE e0 < e
      <4>1. pc < f[e]
        BY <1>1, <2>1, <3>3 DEF Numbered
      <4> QED
        BY <1>0, <2>2, <3>0, <3>3, <4>1
    <3> QED
      BY <3>0, <3>1, <3>2, <3>3
  <2>9. Placed(f, e0)'
    <3>1. m \in 1 .. Len(code') /\ code'[m].do = Work(program[pc]) /\ code'[m].pc = pc
      BY <1>0, <1>2, <1>3 DEF Section
    <3>2. Work(program[pc]) = "jump"
      BY <1>5 DEF Work
    <3> QED
      BY <2>1, <2>4, <2>6, <3>1, <3>2 DEF Placed
  <2>10. \A e \in DOMAIN f : e <= top + 1 => Placed(f, e)'
    <3> SUFFICES ASSUME NEW e \in 1 .. X, e <= top + 1, e # e0
                 PROVE  Placed(f, e)'
      BY <1>1, <2>9
    <3>1. e <= top
      BY <1>0, <2>2
    <3> QED
      BY <1>1, <1>4, <2>6, <3>1
  <2>11. exits_emitted' = top + 1 /\ pc' = pc + 1 /\ f \in [1 .. Len(block_exits') -> 0 .. Last]
    BY <1>1, <1>2, <1>5, <2>6
  <2>12. exits_emitted' <= Len(block_exits')
    <3>1. top + 1 <= X
      BY <1>0, <2>2
    <3> QED
      BY <2>6, <2>11, <3>1
  <2> QED
    BY <2>7, <2>8, <2>10, <2>11, <2>12, Zenon DEF Exits
<1>6. CASE program[pc].op # "branch"
  <2>1. block_exits' = block_exits /\ exits_emitted' = top
    BY <1>2, <1>6
  <2>2. Numbered(f)'
    BY <1>1, <1>2, <2>1 DEF Numbered
  <2>3. \A e \in DOMAIN f : (e <= top) <=> (f[e] < pc + 1)
    <3> SUFFICES ASSUME NEW e \in 1 .. X
                 PROVE  (f[e] < pc) <=> (f[e] < pc + 1)
      BY <1>1
    <3>1. f[e] \in Nat /\ f[e] # pc
      BY <1>0, <1>1, <1>6 DEF Numbered
    <3> QED
      BY <1>0, <3>1
  <2>4. \A e \in DOMAIN f : e <= top => Placed(f, e)'
    BY <1>1, <1>4, <2>1
  <2>5. f \in [1 .. Len(block_exits') -> 0 .. Last] /\ pc' = pc + 1
    BY <1>1, <1>2, <2>1
  <2>6. exits_emitted' <= Len(block_exits')
    BY <1>0, <2>1 DEF CodeInv, Exits, InBlock
  <2> QED
    BY <2>1, <2>2, <2>3, <2>4, <2>5, <2>6, Zenon DEF Exits
<1> QED
  BY <1>5, <1>6

(* Instruction b began where it began, once more code follows. *)
LEMMA EmitOffsets ==
  ASSUME CodeInv, NEW h \in {0, 1}, NEW u \in {0, 1}, Emitted(h, u)
  PROVE  Offsets' /\ JumpsPatched'
<1> DEFINE n == Len(code)
           k == pc - start + 1
<1>0. /\ pc \in Nat /\ start \in Nat /\ start <= pc /\ n \in Nat /\ phase = "emit"
      /\ k \in 1 .. Len(block_data) /\ block_data \in Seq(Entry)
  <2>1. pc \in Nat /\ block_end_pc \in Nat /\ phase = "emit" /\ pc # block_end_pc
    BY DEF CodeInv, Types, Emitted
  <2> QED
    BY <2>1, EmitPlace
<1>1. /\ UNCHANGED <<program, phase, start>> /\ pc' = pc + 1
      /\ \A j \in 1 .. n : code'[j].do = code[j].do /\ code'[j].pc = code[j].pc
      /\ h = 0 => program[pc].cond = "al" \/ (start < pc /\ MidRun(program, pc))
      /\ block_data' = [block_data EXCEPT ![k].block_offset = n + 1]
  BY DEF Emitted
<1>2. /\ Len(code') \in Nat /\ n < Len(code')
      /\ code'[n + 1].pc = pc
      /\ h = 1 => code'[n + 1].do = "skip_unless"
      /\ \A j \in n + 1 .. Len(code') : NewOp(j, h, u)
  BY SectionOps
<1>3. block_data'[k].block_offset = n + 1
  <2>1. PICK d : d = [block_data[k] EXCEPT !.block_offset = n + 1]
    OBVIOUS
  <2>2. d.block_offset = n + 1
    <3>1. block_data[k] \in Entry /\ n + 1 \in Nat
      BY <1>0
    <3> QED
      BY <2>1, <3>1, EntryUpdate
  <2>3. block_data' = [block_data EXCEPT ![k] = d]
    BY <1>1, <2>1
  <2> QED
    BY <1>0, <2>2, <2>3
<1>4. \A j \in 1 .. Len(block_data) : j # k => block_data'[j] = block_data[j]
  BY <1>0, <1>1
<1>5. \A b, j \in Nat : Begins(b, j) => Begins(b, j)'
  <2>1. \A j \in 1 .. n : j \in 1 .. Len(code')
    BY <1>0, <1>2
  <2> QED
    BY <1>1, <2>1 DEF Begins
<1>6. ASSUME NEW b \in Nat, NEW j \in Nat, b = pc, j = n + 1
      PROVE  Begins(b, j)'
  <2>1. j \in 1 .. Len(code')
    BY <1>0, <1>2, <1>6
  <2>2. (code'[j].pc = b)
    BY <1>2, <1>6
  <2>3. \/ code'[j].do = "skip_unless"
        \/ program[b].cond = "al"
        \/ start < b /\ MidRun(program, b)
    BY <1>1, <1>2, <1>6
  <2>4. start < b => b > start
    BY <1>0, <1>6
  <2> QED
    BY <1>1, <2>1, <2>2, <2>3, <2>4 DEF Begins
<1>7. Offsets'
  <2>0. /\ \A b \in start .. pc - 1 : Begins(b, block_data[b - start + 1].block_offset)
        /\ start < pc => block_data[1].block_offset = 1
        /\ start = pc => n = 0
    BY <1>0 DEF CodeInv, Offsets, Made, CodeTail
  <2>1. ASSUME NEW b \in start .. pc
        PROVE  Begins(b, block_data[b - start + 1].block_offset)'
    <3>0. b \in Nat
      BY <1>0
    <3>1. PICK j : j = block_data'[b - start + 1].block_offset
      OBVIOUS
    <3>2. j \in Nat /\ Begins(b, j)'
      <4>1. CASE b = pc
        <5>1. j = n + 1 /\ n + 1 \in Nat
          BY <1>0, <1>3, <3>1, <4>1
        <5> QED
          BY <1>6, <3>0, <4>1, <5>1
      <4>2. CASE b # pc
        <5>1. b \in start .. pc - 1 /\ b - start + 1 \in 1 .. Len(block_data) /\ b - start + 1 # k
          BY <1>0, <4>2
        <5>2. j = block_data[b - start + 1].block_offset
          BY <1>4, <3>1, <5>1
        <5>3. Begins(b, j) /\ j \in Nat
          <6>1. Begins(b, block_data[b - start + 1].block_offset)
            BY <2>0, <5>1
          <6>2. Begins(b, j)
            BY <5>2, <6>1
          <6> QED
            BY <1>0, <6>2 DEF Begins
        <5> QED
          BY <1>5, <3>0, <5>3
      <4> QED
        BY <4>1, <4>2
    <3>3. j = block_data'[b - start' + 1].block_offset
      BY <1>1, <3>1
    <3> QED
      BY <3>2, <3>3 DEF Begins
  <2>2. block_data'[1].block_offset = 1
    <3>1. CASE pc = start
      BY <1>0, <1>3, <2>0, <3>1
    <3>2. CASE pc # start
      <4>1. 1 \in 1 .. Len(block_data) /\ 1 # k /\ start < pc
        BY <1>0, <3>2
      <4> QED
        BY <1>4, <2>0, <4>1
    <3> QED
      BY <3>1, <3>2
  <2>3. start' = start /\ pc' - 1 = pc
    BY <1>0, <1>1
  <2> QED
    BY <2>1, <2>2, <2>3 DEF Offsets
<1>8. JumpsPatched'
  <2> SUFFICES ASSUME NEW j \in 1 .. Len(code'), code'[j].do = "jump"
               PROVE  code'[j].to = NoAddress
    BY DEF JumpsPatched
  <2>1. CASE j \in 1 .. n
    <3>1. code[j].do = "jump" /\ code[j].to = NoAddress
      BY <1>0, <1>1, <2>1 DEF CodeInv, JumpsPatched, Made
    <3>2. code[j].do # "skip_unless"
      BY <3>1
    <3>3. ~Open(j)
      BY <1>0, <3>2 DEF CodeInv, Skips, Made, Open
    <3> QED
      BY <2>1, <3>1, <3>3 DEF Emitted
  <2>2. CASE j \in n + 1 .. Len(code')
    <3>1. NewOp(j, h, u)
      BY <1>2, <2>2
    <3> QED
      BY <3>1 DEF NewOp
  <2> QED
    BY <1>0, <1>2, <2>1, <2>2
<1> QED
  BY <1>7, <1>8
LEMMA EmitFlow ==
  ASSUME CodeInv, NEW h \in {0, 1}, NEW u \in {0, 1}, Emitted(h, u)
  PROVE  Flow' /\ CodeTail'
<1> DEFINE n == Len(code)
           m == Own(pc, n, h)
           N == Len(code')
<1>0. /\ Types /\ Last \in Nat /\ pc \in 0 .. Last /\ start \in Nat /\ block_end_pc \in Nat
      /\ pc \in Nat /\ start <= pc /\ pc < block_end_pc /\ n \in Nat /\ phase = "emit"
      /\ code \in Seq(Operation)
  <2>1. pc \in Nat /\ block_end_pc \in Nat /\ phase = "emit" /\ pc # block_end_pc
    BY DEF CodeInv, Types, Emitted
  <2> QED
    BY <2>1, EmitPlace
<1>1. /\ UNCHANGED <<program, phase, start, block_end_pc>> /\ pc' = pc + 1
      /\ \A j \in 1 .. n : /\ code'[j].do = code[j].do /\ code'[j].pc = code[j].pc
                           /\ code'[j].cond = code[j].cond
      /\ h = 0 => Untested(pc)
  BY DEF Emitted, Untested
<1>2. /\ N \in Nat /\ m \in n + 1 .. n + 3 /\ N = m + u
      /\ \A j \in n + 1 .. N : NewOp(j, h, u)
      /\ code'[n + 1].pc = pc
      /\ h = 1 => code'[n + 1].do = "skip_unless"
  BY SectionOps
<1>3. /\ \A j \in 1 .. n : OpOK(code[j])
      /\ \A j \in 1 .. n - 1 : Follows(code[j], code[j + 1])
      /\ \A j \in 1 .. n - 2 : Counted(code[j], code[j + 1], code[j + 2])
      /\ IF pc = start THEN n = 0
         ELSE /\ n > 0
              /\ \/ code[n].do \in Works /\ code[n].pc = pc - 1
                 \/ code[n].do = "cycle_update" /\ code[n].pc = pc
  BY <1>0 DEF CodeInv, Flow, CodeTail, Made
<1>4. Work(program[pc]) \in Works
  BY <1>0, InstructionType
<1> HIDE DEF m
<1>5. ASSUME NEW j \in 1 .. N
      PROVE  OpOK(code[j])'
  <2>1. CASE j \in 1 .. n
    BY <1>1, <1>3, <2>1 DEF OpOK
  <2>2. CASE j \in n + 1 .. N
    <3>1. NewOp(j, h, u)
      BY <1>2, <2>2
    <3>2. \/ code'[j].do = "skip_unless" /\ code'[j].pc = pc /\ code'[j].cond = program[pc].cond
          \/ code'[j].do = "cycle_update" /\ code'[j].pc = pc
          \/ code'[j].do = Work(program[pc]) /\ code'[j].pc = pc
          \/ code'[j].do = "cycle_update" /\ code'[j].pc = pc + 1 /\ pc + 1 < block_end_pc
      BY <3>1 DEF NewOp
    <3>3. /\ code'[j].pc >= start /\ code'[j].pc < block_end_pc
          /\ code'[j].do # "gate"
          /\ code'[j].do = "skip_unless" => code'[j].cond = program[code'[j].pc].cond
          /\ code'[j].do \in Works => code'[j].do = Work(program[code'[j].pc])
          /\ code'[j].pc \in Nat
      BY <1>0, <1>4, <3>2 DEF Works
    <3> QED
      BY <1>0, <1>1, <3>3 DEF OpOK
  <2> QED
    BY <1>0, <1>2, <2>1, <2>2
<1>6. ASSUME n > 0
      PROVE  /\ \/ code'[n].do \in Works /\ code'[n].pc = pc - 1
                \/ code'[n].do = "cycle_update" /\ code'[n].pc = pc
             /\ n \in 1 .. n /\ start < pc
  BY <1>0, <1>1, <1>3, <1>6
<1>7. code'[n + 1].do \in Works \cup {"cycle_update"} => Untested(pc)
  BY <1>1, <1>2 DEF Works
<1>8. ASSUME NEW j \in 1 .. N - 1
      PROVE  Follows(code[j], code[j + 1])'
  <2>1. CASE j \in 1 .. n - 1
    <3>1. j \in 1 .. n /\ j + 1 \in 1 .. n
      BY <1>0, <2>1
    <3> QED
      BY <1>1, <1>3, <2>1, <3>1 DEF Follows, Untested
  <2>2. CASE j = n
    <3>1. n > 0
      BY <1>0, <2>2
    <3>2. code'[n].do = "execute" => code'[n + 1].pc = code'[n].pc + 1
      BY <1>0, <1>2, <1>6, <3>1
    <3>3. code'[n].do = "cycle_update" => code'[n + 1].pc = code'[n].pc
      BY <1>2, <1>6, <3>1 DEF Works
    <3>4. code'[n].do # "skip_unless"
      BY <1>6, <3>1 DEF Works
    <3>5. code'[n + 1].do \in Works => Untested(code'[n + 1].pc)
      BY <1>2, <1>7
    <3> QED
      BY <1>1, <2>2, <3>2, <3>3, <3>4, <3>5 DEF Follows, Untested
  <2>3. CASE j \in n + 1 .. N - 1
    <3>1. /\ j \in n + 1 .. N /\ j + 1 \in n + 1 .. N /\ j \in Nat
          /\ N = m + u /\ j + 1 # n + 1
      BY <1>0, <1>2, <2>3
    <3>2. NewOp(j, h, u) /\ NewOp(j + 1, h, u)
      BY <1>2, <3>1
    <3>3. CASE code'[j].do = "skip_unless"
      <4>1. j < m /\ code'[j].pc = pc
        BY <1>4, <3>2, <3>3 DEF NewOp, Works, m
      <4>2. j + 1 # m + 1
        BY <1>0, <1>2, <3>1, <4>1
      <4>3. code'[j + 1].pc = pc /\ code'[j + 1].do \in Works \cup {"cycle_update"}
        BY <1>4, <3>1, <3>2, <4>2 DEF NewOp, m
      <4> QED
        BY <3>3, <4>1, <4>3 DEF Follows
    <3>4. CASE code'[j].do = "cycle_update"
      <4>1. j + 1 = m /\ code'[j].pc = pc
        <5>1. j # m + 1
          BY <1>0, <1>2, <2>3
        <5> QED
          BY <1>4, <3>2, <3>4, <5>1 DEF NewOp, Works, m
      <4>2. code'[j + 1].pc = pc
        <5>1. j + 1 # m + 1
          BY <1>0, <1>2, <4>1
        <5> QED
          BY <3>2, <5>1 DEF NewOp, m
      <4> QED
        BY <3>4, <4>1, <4>2 DEF Follows
    <3>5. CASE code'[j].do = "execute"
      <4>1. j = m /\ code'[j].pc = pc
        BY <3>2, <3>5 DEF NewOp, m
      <4>2. j + 1 # n + 1 /\ j + 1 + 1 # m /\ j + 1 # m
        BY <1>0, <1>2, <3>1, <4>1
      <4>3. code'[j + 1].pc = pc + 1 /\ code'[j + 1].do = "cycle_update"
        BY <3>2, <4>2 DEF NewOp, m
      <4> QED
        BY <3>5, <4>1, <4>3 DEF Follows, Works
    <3> QED
      BY <3>3, <3>4, <3>5 DEF Follows
  <2> QED
    BY <1>0, <1>2, <2>1, <2>2, <2>3
<1>9. ASSUME NEW j \in 1 .. N - 2
      PROVE  Counted(code[j], code[j + 1], code[j + 2])'
  <2> SUFFICES ASSUME code'[j].do = "execute", code'[j + 1].do = "cycle_update"
               PROVE  code'[j + 2].do = "skip_unless" \/ Untested(code[j + 1].pc)'
    BY DEF Counted
  <2>1. CASE j \in 1 .. n - 2
    <3>1. j \in 1 .. n /\ j + 1 \in 1 .. n /\ j + 2 \in 1 .. n
      BY <1>0, <2>1
    <3> QED
      BY <1>1, <1>3, <2>1, <3>1 DEF Counted, Untested
  <2>2. CASE j + 1 = n
    <3>1. n > 0 /\ j + 2 = n + 1
      BY <1>0, <2>2
    <3>2. code'[n].pc = pc
      BY <1>6, <2>2, <3>1 DEF Works
    <3> QED
      BY <1>1, <1>2, <2>2, <3>1, <3>2 DEF Untested
  <2>3. CASE j = n
    <3>1. Untested(pc) /\ code'[n + 1].pc = pc
      BY <1>2, <1>7, <2>3
    <3> QED
      BY <1>1, <2>3, <3>1 DEF Untested
  <2>4. CASE j \in n + 1 .. N - 2
    <3>1. j \in n + 1 .. N /\ j # m /\ j # m + 1
      BY <1>0, <1>2, <2>4
    <3>2. NewOp(j, h, u)
      BY <1>2, <3>1
    <3> QED
      BY <3>1, <3>2 DEF NewOp, m
  <2> QED
    BY <1>0, <1>2, <2>1, <2>2, <2>3, <2>4
<1>10. CodeTail'
  <2>1. /\ code'[m].do = Work(program[pc]) /\ code'[m].pc = pc
        /\ u = 1 => code'[m + 1].do = "cycle_update" /\ code'[m + 1].pc = pc + 1
        /\ u = 1 => pc + 1 < block_end_pc
    BY DEF Emitted, Section, m
  <2>2. pc' # start' /\ pc' - 1 = pc /\ N > 0 /\ (u = 1 => N > 1 /\ N - 1 = m /\ N = m + 1)
        /\ (u = 0 => N = m)
    <3>1. pc' = pc + 1 /\ start' = start
      BY <1>1
    <3> QED
      BY <1>0, <1>2, <3>1
  <2>3. \/ code'[N].do \in Works /\ code'[N].pc = pc' - 1
        \/ /\ N > 1 /\ code'[N].do = "cycle_update" /\ code'[N].pc = pc'
           /\ code'[N - 1].do \in Works
           /\ pc' < block_end_pc'
    BY <1>1, <1>4, <2>1, <2>2
  <2> QED
    BY <2>2, <2>3 DEF CodeTail
<1> QED
  BY <1>5, <1>8, <1>9, <1>10 DEF Flow

LEMMA EmitSkips ==
  ASSUME CodeInv, NEW h \in {0, 1}, NEW u \in {0, 1}, Emitted(h, u)
  PROVE  Skips'
<1> DEFINE n == Len(code)
           N == Len(code')
           i == program[pc]
           bp == backpatch_address
<1>0. /\ Types /\ Last \in Nat /\ pc \in 0 .. Last /\ start \in Nat
      /\ pc \in Nat /\ n \in Nat /\ phase = "emit" /\ code \in Seq(Operation)
  <2>1. pc \in Nat /\ block_end_pc \in Nat /\ phase = "emit" /\ pc # block_end_pc
    BY DEF CodeInv, Types, Emitted
  <2> QED
    BY <2>1, EmitPlace
<1>1. /\ program' = program /\ pc' = pc + 1
      /\ \A j \in 1 .. n : /\ code'[j].do = code[j].do /\ code'[j].pc = code[j].pc
                           /\ code'[j].cond = code[j].cond
                           /\ Fresh /\ Open(j) => code'[j].to = n + 1
                           /\ ~(Fresh /\ Open(j)) => code'[j].to = code[j].to
      /\ h = 1 => Fresh /\ i.cond # "al"
      /\ h = 0 => i.cond = "al" \/ ~Fresh
      /\ ~Fresh => last_condition = arm_set_condition(i)
      /\ last_condition' = arm_set_condition(i)
      /\ backpatch_address' = IF h = 1 THEN n + 1 ELSE bp
  BY DEF Emitted
<1>2. /\ N \in Nat /\ n < N
      /\ \A j \in n + 1 .. N : NewOp(j, h, u)
      /\ code'[n + 1].pc = pc
      /\ h = 1 => code'[n + 1].do = "skip_unless"
  BY SectionOps
<1>3. arm_set_condition(i).cond = i.cond /\ Work(i) \in Works
  BY <1>0, InstructionType
<1>4. h = 1 => code'[n + 1].cond = i.cond
  BY DEF Emitted, Section
<1>5. /\ last_condition.cond # "al" =>
           /\ bp \in 1 .. n
           /\ code[bp].do = "skip_unless"
           /\ code[bp].cond = last_condition.cond
           /\ code[bp].pc < pc
           /\ Same(code[bp].pc, pc, last_condition.cond)
      /\ \A k \in 1 .. n : code[k].do = "skip_unless" /\ ~Open(k) => Lands(code[k])
  BY <1>0 DEF CodeInv, Skips, Made
<1>6. n + 1 \in 1 .. N /\ \A j \in 1 .. n : j \in 1 .. N
  BY <1>0, <1>2
<1>7. ASSUME i.cond # "al"
      PROVE  /\ backpatch_address' \in 1 .. N
             /\ code'[backpatch_address'].do = "skip_unless"
             /\ code'[backpatch_address'].cond = i.cond
             /\ code'[backpatch_address'].pc < pc + 1
             /\ \A k \in code'[backpatch_address'].pc .. pc : program[k].cond = i.cond
  <2>1. CASE h = 1
    <3>1. backpatch_address' = n + 1 /\ pc < pc + 1 /\ \A k \in pc .. pc : k = pc
      BY <1>0, <1>1, <2>1
    <3> QED
      BY <1>2, <1>4, <1>6, <2>1, <3>1
  <2>2. CASE h = 0
    <3>1. last_condition.cond = i.cond /\ backpatch_address' = bp
      BY <1>1, <1>3, <1>7, <2>2
    <3>2. bp \in 1 .. n /\ code[bp] \in Operation
      BY <1>0, <1>5, <1>7, <3>1
    <3>3. code'[bp].pc = code[bp].pc /\ code[bp].pc \in Nat
      BY <1>1, <3>2 DEF Operation
    <3>4. \A k \in code[bp].pc .. pc : program[k].cond = i.cond
      <4>1. \A k \in code[bp].pc .. pc - 1 : program[k].cond = i.cond
        BY <1>5, <1>7, <3>1 DEF Same
      <4> QED
        BY <1>0, <3>3, <4>1
    <3>5. code[bp].pc < pc + 1
      BY <1>0, <1>5, <1>7, <3>1, <3>3
    <3> QED
      BY <1>1, <1>5, <1>6, <1>7, <3>1, <3>2, <3>3, <3>4, <3>5
  <2> QED
    BY <2>1, <2>2
<1>8. ASSUME NEW j \in 1 .. N, code'[j].do = "skip_unless", ~Open(j)'
      PROVE  Lands(code[j])'
  <2>1. CASE j \in 1 .. n /\ Open(j) /\ Fresh
    <3>1. /\ j = bp /\ last_condition.cond # "al" /\ code'[j].to = n + 1
          /\ code'[j].pc = code[bp].pc /\ code'[j].cond = last_condition.cond
      BY <1>1, <1>5, <2>1 DEF Open
    <3>2. code[bp] \in Operation
      BY <1>0, <1>5, <3>1
    <3>3. pc > code'[j].pc
      BY <1>0, <1>5, <3>1, <3>2 DEF Operation
    <3>4. Same(code'[j].pc, pc, code'[j].cond)
      BY <1>5, <3>1
    <3>5. code'[n + 1].do = "skip_unless" \/ i.cond = "al"
      BY <1>1, <1>2, <2>1
    <3> QED
      BY <1>1, <1>2, <1>6, <3>1, <3>3, <3>4, <3>5 DEF Lands, Same
  <2>2. CASE j \in 1 .. n /\ Open(j) /\ ~Fresh
    <3>1. last_condition' = last_condition /\ backpatch_address' = bp
      BY <1>1, <2>2
    <3> QED
      BY <1>8, <2>2, <3>1 DEF Open
  <2>3. CASE j \in 1 .. n /\ ~Open(j)
    <3>1. Lands(code[j]) /\ code'[j].to = code[j].to
      BY <1>1, <1>5, <1>8, <2>3
    <3> QED
      BY <1>1, <1>6, <2>3, <3>1 DEF Lands, Same
  <2>4. CASE j \in n + 1 .. N
    <3>1. NewOp(j, h, u)
      BY <1>2, <2>4
    <3>2. j = n + 1 /\ h = 1
      BY <1>3, <1>8, <3>1 DEF NewOp, Works
    <3>3. Open(j)'
      BY <1>1, <1>3, <3>2 DEF Open
    <3> QED
      BY <1>8, <3>3
  <2> QED
    BY <1>0, <1>2, <2>1, <2>2, <2>3, <2>4
<1>9. pc' - 1 = pc
  <2>1. pc' = pc + 1
    BY <1>1
  <2> QED
    BY <1>0, <2>1
<1> QED
  BY <1>1, <1>3, <1>7, <1>8, <1>9 DEF Skips, Same

LEMMA TranslateCode ==
  ASSUME CodeInv, translate_arm_instruction
  PROVE  CodeInv'
<1>1. PICK h, u \in {0, 1} : Emitted(h, u)
  BY TranslateEmits
<1> QED
  BY <1>1, EmitTypes, EmitExits, EmitOffsets, EmitFlow, EmitSkips DEF CodeInv
-----------------------------------------------------------------------------
(* The block is finished. *)

LEMMA TargetUpdate ==
  ASSUME NEW o \in Operation, NEW a \in Nat
  PROVE  /\ [o EXCEPT !.to = a] \in Operation
         /\ [o EXCEPT !.to = a].do = o.do /\ [o EXCEPT !.to = a].pc = o.pc
         /\ [o EXCEPT !.to = a].cond = o.cond /\ [o EXCEPT !.to = a].to = a
BY DEF Operation

LEMMA FinishPlace ==
  ASSUME CodeInv, FinishBlock
  PROVE  /\ Types /\ Last \in Nat /\ pc \in Nat /\ start \in Nat /\ start < pc
         /\ phase = "emit" /\ pc = block_end_pc /\ pc <= Last + 1
         /\ code \in Seq(Operation) /\ Len(code) \in Nat /\ Len(code) > 0
         /\ code[Len(code)].do \in Works /\ code[Len(code)].pc = pc - 1
         /\ UNCHANGED <<program, gates, pc, start, block_end_pc, block_data, block_exits,
                        exits_emitted, last_condition, backpatch_address, cycle_count,
                        z, x, cycles>>
         /\ phase' = "run" /\ at' = 1
<1>1. /\ phase = "emit" /\ pc = block_end_pc /\ phase' = "run" /\ at' = 1
      /\ UNCHANGED <<program, gates, pc, start, block_end_pc, block_data, block_exits,
                     exits_emitted, last_condition, backpatch_address, cycle_count,
                     z, x, cycles>>
  BY DEF FinishBlock
<1>2. Types /\ Last \in Nat
  BY ProgramType DEF CodeInv
<1>3. pc \in Nat /\ start \in Nat /\ start < pc /\ pc <= Last + 1
  <2>1. Made /\ InBlock /\ Span
    BY <1>1 DEF CodeInv, Made, InBlock
  <2> QED
    BY <1>1, <1>2, <2>1 DEF Types, Span
<1>4. code \in Seq(Operation) /\ Len(code) \in Nat
  BY <1>2 DEF Types
<1>5. Len(code) > 0 /\ code[Len(code)].do \in Works /\ code[Len(code)].pc = pc - 1
  BY <1>1, <1>3 DEF CodeInv, CodeTail
<1> QED
  BY <1>1, <1>2, <1>3, <1>4, <1>5

(* A jump within the block is patched to where its target begins. *)
LEMMA PatchFinds ==
  ASSUME CodeInv, FinishBlock,
         NEW k \in 1 .. Len(code), NEW e1 \in 1 .. exits_emitted, NEW e2 \in 1 .. exits_emitted,
         block_exits[e1].source = k, block_exits[e2].source = k,
         block_exits[e1].target >= start, block_exits[e1].target < block_end_pc
  PROVE  /\ code[k].do = "jump"
         /\ block_data[block_exits[e2].target - start + 1].block_offset \in Nat
         /\ Begins(program[code[k].pc].target,
                   block_data[block_exits[e2].target - start + 1].block_offset)
<1>0. /\ Types /\ pc = block_end_pc /\ start \in Nat /\ pc \in Nat /\ phase = "emit"
      /\ code \in Seq(Operation) /\ block_exits \in Seq(Exit) /\ exits_emitted \in Nat
  BY FinishPlace DEF Types
<1>1. /\ exits_emitted <= Len(block_exits)
      /\ \E f \in [1 .. Len(block_exits) -> 0 .. Last] :
           /\ Numbered(f)
           /\ \A e \in DOMAIN f : e <= exits_emitted => Placed(f, e)
  BY <1>0 DEF CodeInv, Exits, InBlock
<1>2. PICK f \in [1 .. Len(block_exits) -> 0 .. Last] :
        /\ Numbered(f)
        /\ \A e \in DOMAIN f : e <= exits_emitted => Placed(f, e)
  BY <1>1
<1>3. /\ e1 \in 1 .. Len(block_exits) /\ e1 <= exits_emitted
      /\ e2 \in 1 .. Len(block_exits) /\ e2 <= exits_emitted
  BY <1>0, <1>1
<1>4. code[k].do = "jump" /\ code[k].pc = f[e1] /\ code[k].pc = f[e2]
  BY <1>2, <1>3 DEF Placed
<1>5. PICK t : t = program[code[k].pc].target
  OBVIOUS
<1>6. block_exits[e1].target = t /\ block_exits[e2].target = t
  BY <1>2, <1>3, <1>4, <1>5 DEF Numbered
<1>7. t \in start .. pc - 1
  <2>1. t \in Nat
    <3>1. block_exits[e1] \in Exit
      BY <1>0, <1>3
    <3> QED
      BY <1>6, <3>1 DEF Exit
  <2> QED
    BY <1>0, <1>6, <2>1
<1>8. Begins(t, block_data[t - start + 1].block_offset)
  BY <1>0, <1>7 DEF CodeInv, Offsets, Made
<1>9. block_data[t - start + 1].block_offset \in Nat
  BY <1>0, <1>8 DEF Begins
<1> QED
  BY <1>4, <1>5, <1>6, <1>8, <1>9

\* The gate, and jumps patched: gate is 1 if the block ends at one.
Finished(gate) ==
  LET n == Len(code)
  IN  /\ code' \in Seq(Operation)
      /\ Len(code') = n + gate
      /\ \A k \in 1 .. n :
           /\ code'[k].do = code[k].do /\ code'[k].pc = code[k].pc
           /\ code'[k].cond = code[k].cond
           /\ \/ code'[k].to = code[k].to
              \/ code[k].do = "jump" /\ Begins(program[code[k].pc].target, code'[k].to)
      /\ gate = 1 => code'[n + 1] = Op("gate", pc)
      /\ gate = 1 <=> pc \in gates

LEMMA FinishShape ==
  ASSUME CodeInv, FinishBlock
  PROVE  \E gate \in {0, 1} : Finished(gate)
<1> DEFINE n == Len(code)
           gated == IF pc \in gates THEN Append(code, Op("gate", pc)) ELSE code
           N == Len(gated)
           Inside(target) == target >= start /\ target < block_end_pc
           In(k) == \E e \in 1 .. exits_emitted :
                      block_exits[e].source = k /\ Inside(block_exits[e].target)
           Exit2(k) == CHOOSE e \in 1 .. exits_emitted : block_exits[e].source = k
           To(k) == block_data[block_exits[Exit2(k)].target - start + 1].block_offset
           Patched(k) == IF In(k) THEN [gated[k] EXCEPT !.to = To(k)] ELSE gated[k]
<1>0. /\ pc \in Nat /\ code \in Seq(Operation) /\ n \in Nat
  BY FinishPlace
<1>1. code' = [k \in 1 .. N |-> Patched(k)]
  BY DEF FinishBlock
<1>2. PICK gate : gate = IF pc \in gates THEN 1 ELSE 0
  OBVIOUS
<1>3. /\ gated \in Seq(Operation) /\ N = n + gate
      /\ \A k \in 1 .. n : gated[k] = code[k]
      /\ gate = 1 => gated[n + 1] = Op("gate", pc)
  <2>1. Op("gate", pc) \in Operation
    BY <1>0, OpType
  <2>2. CASE pc \in gates
    BY <1>0, <1>2, <2>1, <2>2
  <2>3. CASE pc \notin gates
    BY <1>0, <1>2, <2>3
  <2> QED
    BY <2>2, <2>3
<1> HIDE DEF gated
<1>4. ASSUME NEW k, In(k)
      PROVE  k \in 1 .. n /\ Exit2(k) \in 1 .. exits_emitted
             /\ block_exits[Exit2(k)].source = k
  <2>1. PICK e \in 1 .. exits_emitted :
          block_exits[e].source = k /\ Inside(block_exits[e].target)
    BY <1>4
  <2>2. Exit2(k) \in 1 .. exits_emitted /\ block_exits[Exit2(k)].source = k
    BY <2>1
  <2>3. k \in 1 .. n
    <3>1. phase = "emit" /\ exits_emitted \in Nat
      BY FinishPlace DEF Types
    <3>2. /\ exits_emitted <= Len(block_exits)
          /\ \E f \in [1 .. Len(block_exits) -> 0 .. Last] :
               \A i \in DOMAIN f : i <= exits_emitted => Placed(f, i)
      BY <3>1 DEF CodeInv, Exits, InBlock
    <3>3. e \in 1 .. Len(block_exits) /\ e <= exits_emitted
      BY <3>1, <3>2, FinishPlace DEF Types
    <3>4. PICK f \in [1 .. Len(block_exits) -> 0 .. Last] : Placed(f, e)
      BY <3>2, <3>3
    <3> QED
      BY <2>1, <3>4 DEF Placed
  <2> QED
    BY <2>2, <2>3
<1>5. ASSUME NEW k, In(k)
      PROVE  /\ code[k].do = "jump" /\ To(k) \in Nat
             /\ Begins(program[code[k].pc].target, To(k))
  <2>1. PICK e1 \in 1 .. exits_emitted :
          block_exits[e1].source = k /\ Inside(block_exits[e1].target)
    BY <1>5
  <2>2. PICK e2 : e2 = Exit2(k)
    OBVIOUS
  <2>3. k \in 1 .. n /\ e2 \in 1 .. exits_emitted /\ block_exits[e2].source = k
    BY <1>4, <1>5, <2>2
  <2>4. /\ code[k].do = "jump"
        /\ block_data[block_exits[e2].target - start + 1].block_offset \in Nat
        /\ Begins(program[code[k].pc].target,
                  block_data[block_exits[e2].target - start + 1].block_offset)
    BY <2>1, <2>3, PatchFinds
  <2> QED
    BY <2>2, <2>4
<1> HIDE DEF In, To
<1>6. ASSUME NEW k \in 1 .. n
      PROVE  /\ Patched(k) \in Operation
             /\ Patched(k).do = code[k].do /\ Patched(k).pc = code[k].pc
             /\ Patched(k).cond = code[k].cond
             /\ \/ Patched(k).to = code[k].to
                \/ code[k].do = "jump" /\ Begins(program[code[k].pc].target, Patched(k).to)
  <2>1. code[k] \in Operation /\ gated[k] = code[k]
    BY <1>0, <1>3
  <2>2. CASE In(k)
    <3>1. PICK a : a = To(k)
      OBVIOUS
    <3>2. a \in Nat /\ code[k].do = "jump" /\ Begins(program[code[k].pc].target, a)
      BY <1>5, <2>2, <3>1
    <3>3. Patched(k) = [code[k] EXCEPT !.to = a]
      BY <2>1, <2>2, <3>1
    <3>4. PICK o : o = [code[k] EXCEPT !.to = a]
      OBVIOUS
    <3>5. o \in Operation /\ o.do = code[k].do /\ o.pc = code[k].pc /\ o.cond = code[k].cond
          /\ o.to = a
      BY <2>1, <3>2, <3>4, TargetUpdate
    <3> QED
      BY <3>2, <3>3, <3>4, <3>5
  <2>3. CASE ~In(k)
    BY <2>1, <2>3
  <2> QED
    BY <2>2, <2>3
<1>7. ASSUME gate = 1 PROVE Patched(n + 1) = Op("gate", pc) /\ Op("gate", pc) \in Operation
  <2>1. ~In(n + 1)
    BY <1>0, <1>4
  <2> QED
    BY <1>0, <1>3, <1>7, <2>1, OpType
<1>8. N \in Nat /\ gate \in {0, 1} /\ \A k \in 1 .. N : k \in 1 .. n \/ (gate = 1 /\ k = n + 1)
  BY <1>0, <1>2, <1>3
<1> HIDE DEF Patched, N
<1>9. \A k \in 1 .. N : Patched(k) \in Operation
  BY <1>6, <1>7, <1>8
<1>10. code' \in Seq(Operation) /\ Len(code') = N
  <2>1. code' \in [1 .. N -> Operation]
    BY <1>1, <1>9
  <2> QED
    BY <1>8, <2>1
<1>11. /\ \A k \in 1 .. n : code'[k] = Patched(k)
       /\ gate = 1 => code'[n + 1] = Patched(n + 1)
  <2>1. N = n + gate
    BY <1>3 DEF N
  <2> QED
    BY <1>0, <1>1, <1>8, <2>1
<1>12. Finished(gate)
  <2>1. Len(code') = n + gate
    BY <1>3, <1>10 DEF N
  <2>2. gate = 1 <=> pc \in gates
    BY <1>2
  <2> QED
    BY <1>6, <1>7, <1>10, <1>11, <2>1, <2>2 DEF Finished
<1> QED
  BY <1>8, <1>12
LEMMA FinishCode ==
  ASSUME CodeInv, FinishBlock
  PROVE  CodeInv'
<1> DEFINE n == Len(code)
           N == Len(code')
<1>0. /\ Types /\ Last \in Nat /\ pc \in Nat /\ start \in Nat /\ start < pc
      /\ phase = "emit" /\ pc = block_end_pc /\ pc <= Last + 1
      /\ code \in Seq(Operation) /\ n \in Nat /\ n > 0
      /\ code[n].do \in Works /\ code[n].pc = pc - 1
  BY FinishPlace
<1>1. /\ UNCHANGED <<program, gates, pc, start, block_end_pc, block_data, block_exits,
                     exits_emitted, last_condition, backpatch_address, cycle_count,
                     z, x, cycles>>
      /\ phase' = "run" /\ at' = 1
  BY FinishPlace
<1>2. PICK gate \in {0, 1} : Finished(gate)
  BY FinishShape
<1>3. /\ code' \in Seq(Operation)
      /\ N = n + gate
      /\ \A k \in 1 .. n :
           /\ code'[k].do = code[k].do /\ code'[k].pc = code[k].pc
           /\ code'[k].cond = code[k].cond
           /\ \/ code'[k].to = code[k].to
              \/ code[k].do = "jump" /\ Begins(program[code[k].pc].target, code'[k].to)
      /\ gate = 1 => /\ code'[n + 1].do = "gate" /\ code'[n + 1].pc = pc
                     /\ code'[n + 1].to = NoAddress
      /\ gate = 1 <=> pc \in gates
  <2>1. Op("gate", pc).do = "gate" /\ Op("gate", pc).pc = pc /\ Op("gate", pc).to = NoAddress
    BY <1>0, OpType
  <2> QED
    BY <1>2, <2>1 DEF Finished
<1>4. /\ N \in Nat
      /\ \A k \in 1 .. n : k \in 1 .. N
      /\ \A k \in 1 .. N : k \in 1 .. n \/ (gate = 1 /\ k = n + 1)
  BY <1>0, <1>3
<1>5. \A b, j \in Nat : Begins(b, j) => Begins(b, j)'
  BY <1>1, <1>3, <1>4 DEF Begins
<1>6. Types'
  <2>1. (\E p \in Programs : program = p.program /\ gates = p.gates)'
    BY <1>0, <1>1 DEF Types
  <2> QED
    BY <1>0, <1>1, <1>3, <2>1 DEF Types
<1>7. Span'
  BY <1>0, <1>1 DEF CodeInv, Span, InBlock, Made
<1>8. Exits'
  <2>0. exits_emitted <= Len(block_exits)
    BY <1>0 DEF CodeInv, Exits, InBlock
  <2>1. PICK f \in [1 .. Len(block_exits) -> 0 .. Last] :
          /\ Numbered(f)
          /\ \A e \in DOMAIN f : (e <= exits_emitted) <=> (f[e] < pc)
          /\ \A e \in DOMAIN f : e <= exits_emitted => Placed(f, e)
    BY <1>0 DEF CodeInv, Exits, InBlock
  <2>2. Numbered(f)'
    BY <1>1, <2>1 DEF Numbered
  <2>3. \A e \in DOMAIN f : Placed(f, e) => Placed(f, e)'
    BY <1>1, <1>3, <1>4 DEF Placed
  <2> QED
    BY <1>1, <2>0, <2>1, <2>2, <2>3 DEF Exits
<1>9. Offsets'
  <2>1. /\ \A b \in start .. pc - 1 : Begins(b, block_data[b - start + 1].block_offset)
        /\ block_data[1].block_offset = 1
    BY <1>0 DEF CodeInv, Offsets, Made
  <2>2. ASSUME NEW b \in start .. pc - 1
        PROVE  Begins(b, block_data[b - start + 1].block_offset)'
    <3>1. PICK j : j = block_data[b - start + 1].block_offset
      OBVIOUS
    <3>2. Begins(b, j)
      <4>1. Begins(b, block_data[b - start + 1].block_offset)
        BY <2>1
      <4> QED
        BY <3>1, <4>1
    <3>3. j \in Nat /\ b \in Nat
      BY <1>0, <3>2 DEF Begins
    <3>4. Begins(b, j)' /\ j = block_data'[b - start' + 1].block_offset
      BY <1>1, <1>5, <3>1, <3>2, <3>3
    <3> QED
      BY <3>4 DEF Begins
  <2> QED
    BY <1>1, <2>1, <2>2 DEF Offsets
<1>10. JumpsPatched'
  <2> SUFFICES ASSUME NEW k \in 1 .. N, code'[k].do = "jump", code'[k].to # NoAddress
               PROVE  Begins(program[code[k].pc].target, code[k].to)'
    BY <1>1 DEF JumpsPatched
  <2>1. k \in 1 .. n /\ code[k].do = "jump"
    BY <1>3, <1>4
  <2>2. code[k].to = NoAddress
    BY <1>0, <2>1 DEF CodeInv, JumpsPatched, Made
  <2>3. Begins(program[code[k].pc].target, code'[k].to)
    BY <1>3, <2>1, <2>2
  <2>4. PICK t, j : t = program[code[k].pc].target /\ j = code'[k].to
    OBVIOUS
  <2>5. t \in Nat
    <3>1. OpOK(code[k]) /\ code[k] \in Operation
      BY <1>0, <2>1 DEF CodeInv, Flow, Made
    <3>2. code[k].pc \in 0 .. Last
      BY <1>0, <2>1, <3>1 DEF OpOK, Operation
    <3> QED
      BY <1>0, <2>4, <3>2, InstructionType
  <2>6. Begins(t, j) /\ j \in Nat
    BY <1>0, <2>3, <2>4 DEF Begins
  <2>7. Begins(t, j)' /\ t = program'[code'[k].pc].target
    BY <1>1, <1>3, <1>5, <2>1, <2>4, <2>5, <2>6
  <2> QED
    BY <2>4, <2>7 DEF Begins
<1>11. Flow'
  <2>1. /\ \A j \in 1 .. n : OpOK(code[j])
        /\ \A j \in 1 .. n - 1 : Follows(code[j], code[j + 1])
        /\ \A j \in 1 .. n - 2 : Counted(code[j], code[j + 1], code[j + 2])
    BY <1>0 DEF CodeInv, Flow, Made
  <2>2. ASSUME NEW j \in 1 .. N
        PROVE  OpOK(code[j])'
    <3>1. CASE j \in 1 .. n
      BY <1>0, <1>1, <1>3, <2>1, <3>1 DEF OpOK
    <3>2. CASE gate = 1 /\ j = n + 1
      <4>1. start' <= pc' /\ pc' <= block_end_pc' /\ pc' = pc /\ pc' >= start'
        BY <1>0, <1>1
      <4> QED
        BY <1>0, <1>1, <1>3, <3>2, <4>1 DEF OpOK, Works
    <3> QED
      BY <1>4, <3>1, <3>2
  <2>3. ASSUME NEW j \in 1 .. N - 1
        PROVE  Follows(code[j], code[j + 1])'
    <3>1. CASE j \in 1 .. n - 1
      <4>1. j \in 1 .. n /\ j + 1 \in 1 .. n
        BY <1>0, <3>1
      <4> QED
        BY <1>1, <1>3, <2>1, <3>1, <4>1 DEF Follows, Untested
    <3>2. CASE j = n /\ gate = 1
      <4>1. code'[n].do \in Works /\ code'[n].pc + 1 = pc
        BY <1>0, <1>3
      <4> QED
        BY <1>3, <3>2, <4>1 DEF Follows, Works
    <3> QED
      BY <1>0, <1>3, <3>1, <3>2
  <2>4. ASSUME NEW j \in 1 .. N - 2
        PROVE  Counted(code[j], code[j + 1], code[j + 2])'
    <3>1. CASE j \in 1 .. n - 2
      <4>1. j \in 1 .. n /\ j + 1 \in 1 .. n /\ j + 2 \in 1 .. n
        BY <1>0, <3>1
      <4> QED
        BY <1>1, <1>3, <2>1, <3>1, <4>1 DEF Counted, Untested
    <3>2. CASE j + 1 = n
      <4>1. code'[j + 1].do \in Works
        BY <1>0, <1>3, <3>2
      <4> QED
        BY <4>1 DEF Counted, Works
    <3> QED
      BY <1>0, <1>3, <3>1, <3>2
  <2> QED
    BY <2>2, <2>3, <2>4 DEF Flow
<1>12. LastCondition'
  BY <1>0, <1>1 DEF CodeInv, LastCondition, Made
<1>13. CodeTail'
  BY <1>1 DEF CodeTail
<1>14. Skips'
  <2>1. /\ last_condition.cond # "al" =>
             /\ backpatch_address \in 1 .. n
             /\ code[backpatch_address].do = "skip_unless"
             /\ code[backpatch_address].cond = last_condition.cond
             /\ code[backpatch_address].pc < pc
             /\ Same(code[backpatch_address].pc, pc, last_condition.cond)
        /\ \A k \in 1 .. n : code[k].do = "skip_unless" /\ ~Open(k) => Lands(code[k])
    BY <1>0 DEF CodeInv, Skips, Made
  <2>2. last_condition'.cond # "al" =>
             /\ backpatch_address' \in 1 .. N
             /\ code'[backpatch_address'].do = "skip_unless"
             /\ code'[backpatch_address'].cond = last_condition'.cond
             /\ code'[backpatch_address'].pc < pc'
             /\ Same(code[backpatch_address].pc, pc, last_condition.cond)'
    BY <1>1, <1>3, <1>4, <2>1 DEF Same
  <2>3. ASSUME NEW k \in 1 .. N, code'[k].do = "skip_unless", ~Open(k)'
        PROVE  Lands(code[k])'
    <3>1. k \in 1 .. n /\ code[k].do = "skip_unless"
      BY <1>3, <1>4, <2>3
    <3>2. Lands(code[k]) /\ code'[k].to = code[k].to
      BY <1>1, <1>3, <2>1, <2>3, <3>1 DEF Open
    <3> QED
      BY <1>1, <1>3, <1>4, <3>1, <3>2 DEF Lands, Same
  <2> QED
    BY <2>2, <2>3 DEF Skips
<1> QED
  BY <1>6, <1>7, <1>8, <1>9, <1>10, <1>11, <1>12, <1>13, <1>14 DEF CodeInv
-----------------------------------------------------------------------------
(* The code runs, and stays what it is until the block is left. *)

LEMMA OperationAt ==
  ASSUME CodeInv, NEW do, Running(do)
  PROVE  /\ Types /\ phase = "run" /\ pc = block_end_pc
         /\ Last \in Nat /\ start \in Nat /\ pc \in Nat /\ pc <= Last + 1 /\ start <= pc
         /\ at \in 1 .. Len(code) /\ at \in Nat /\ Len(code) \in Nat
         /\ code \in Seq(Operation) /\ code[at] \in Operation
         /\ code[at].do = do /\ code[at].pc \in Nat /\ code[at].pc <= Last + 1
         /\ OpOK(code[at])
         /\ do # "gate" => code[at].pc \in 0 .. Last
<1>1. Types /\ Span /\ Flow /\ phase = "run" /\ at \in 1 .. Len(code) /\ code[at].do = do
  BY DEF CodeInv, Running
<1>2. Last \in Nat
  BY <1>1, ProgramType
<1>3. /\ code \in Seq(Operation) /\ Len(code) \in Nat /\ start \in Nat /\ pc \in Nat
      /\ block_end_pc \in Nat /\ at \in Nat
  BY <1>1 DEF Types
<1>4. code[at] \in Operation
  BY <1>1, <1>3
<1>5. code[at].pc \in Nat
  BY <1>4 DEF Operation
<1>6. OpOK(code[at])
  BY <1>1 DEF Flow, Made
<1>7. pc = block_end_pc /\ pc <= Last + 1 /\ start <= pc
  BY <1>1 DEF Span, InBlock
<1>8. do # "gate" => code[at].pc \in 0 .. Last
  BY <1>1, <1>2, <1>3, <1>5, <1>6, <1>7 DEF OpOK
<1> QED
  BY <1>1, <1>2, <1>3, <1>4, <1>5, <1>6, <1>7, <1>8 DEF OpOK

LEMMA RunCodeStep ==
  ASSUME CodeInv, RunCode
  PROVE  CodeInv'
<1>0. Types /\ Last \in Nat /\ Budget \in Int /\ z \in {0, 1} /\ cycles \in Int
  BY ProgramType DEF CodeInv, Types
<1>1. CASE RunSkip
  <2>1. code[at] \in Operation /\ at \in Nat
    BY <1>1, OperationAt DEF RunSkip
  <2>2. at' \in Nat
    BY <1>1, <2>1 DEF RunSkip, Operation
  <2> QED
    BY <1>0, <1>1, <2>2, StayCode DEF RunSkip
<1>2. CASE RunExecute
  <2>1. at \in Nat
    BY <1>2, OperationAt DEF RunExecute
  <2>2. z' \in {0, 1}
    BY <1>0, <1>2 DEF RunExecute
  <2> QED
    BY <1>0, <1>2, <2>1, <2>2, StayCode DEF RunExecute
<1>3. CASE RunCycleUpdate
  <2>1. code[at] \in Operation /\ at \in Nat
    BY <1>3, OperationAt DEF RunCycleUpdate
  <2>2. cycles' \in Int
    BY <1>0, <1>3, <2>1 DEF RunCycleUpdate, Operation
  <2> QED
    BY <1>0, <1>3, <2>1, <2>2, StayCode DEF RunCycleUpdate
<1>4. CASE RunJump
  <2>1. code[at] \in Operation /\ at \in Nat /\ code[at].pc \in 0 .. Last
    BY <1>4, OperationAt DEF RunJump
  <2>2. cycles' \in Int /\ UNCHANGED <<program, gates, z, x>>
    BY <1>0, <1>4 DEF RunJump
  <2>3. CASE at' = code[at].to /\ UNCHANGED <<phase, translation>>
    <3>1. at' \in Nat
      BY <2>1, <2>3 DEF Operation
    <3> QED
      BY <1>0, <2>2, <2>3, <3>1, StayCode
  <2>4. CASE Leave(program[code[at].pc].target)
    <3>1. program[code[at].pc].target \in Nat
      BY <1>0, <2>1, InstructionType
    <3> QED
      BY <1>0, <2>2, <2>4, <3>1, LeaveCode
  <2> QED
    BY <1>4, <2>3, <2>4 DEF RunJump
<1>5. CASE RunIndirect
  <2>1. Gone \in Nat
    BY <1>0 DEF Gone
  <2> QED
    BY <1>0, <1>5, <2>1, LeaveCode DEF RunIndirect
<1>6. CASE RunGate
  <2>1. code[at].pc \in Nat
    BY <1>6, OperationAt DEF RunGate
  <2> QED
    BY <1>0, <1>6, <2>1, LeaveCode DEF RunGate
<1> QED
  BY <1>1, <1>2, <1>3, <1>4, <1>5, <1>6 DEF RunCode

LEMMA CodeInvStep == CodeInv /\ [Next]_vars => CodeInv'
<1> SUFFICES ASSUME CodeInv, [Next]_vars PROVE CodeInv'
  OBVIOUS
<1>1. CASE scan_block
  BY <1>1, ScanCode
<1>2. CASE translate_arm_instruction
  BY <1>2, TranslateCode
<1>3. CASE FinishBlock
  BY <1>3, FinishCode
<1>4. CASE RunCode
  BY <1>4, RunCodeStep
<1>5. CASE UNCHANGED vars
  <2>1. UNCHANGED <<program, gates, phase, translation>> /\ UNCHANGED <<at, z, cycles>>
    BY <1>5 DEF vars, machine
  <2>2. at \in Nat /\ z \in {0, 1} /\ cycles \in Int
    BY DEF CodeInv, Types
  <2> QED
    BY <2>1, <2>2, StayCode
<1> QED
  BY <1>1, <1>2, <1>3, <1>4, <1>5 DEF Next, Emit, Elsewhere

(* What translate_block emits has the shape CodeInv gives it, whatever the  *)
(* program, and the host's runs leave it alone.                             *)
THEOREM EmittedCodeHasShape == Spec => []CodeInv
<1>1. Init => CodeInv
  BY InitCode
<1>2. CodeInv /\ [Next]_vars => CodeInv'
  BY CodeInvStep
<1> QED
  BY <1>1, <1>2, PTL DEF Spec

LEMMA CodeInvJumps == CodeInv => JumpsGoToTheirTargets
<1> SUFFICES ASSUME CodeInv, phase = "run", NEW e \in 1 .. Len(block_exits)
             PROVE  LET jump == code[block_exits[e].source]
                    IN  /\ block_exits[e].source \in 1 .. Len(code)
                        /\ jump.do = "jump"
                        /\ program[jump.pc].target = block_exits[e].target
                        /\ jump.to # NoAddress => code[jump.to].pc = block_exits[e].target
  BY DEF JumpsGoToTheirTargets
<1>1. Types /\ pc = block_end_pc /\ pc \in Nat /\ start \in Nat /\ Exits /\ JumpsPatched
  BY DEF CodeInv, Types, Span
<1>2. PICK f \in [1 .. Len(block_exits) -> 0 .. Last] :
        /\ Numbered(f)
        /\ \A i \in DOMAIN f : (i <= exits_emitted) <=> (f[i] < pc)
        /\ \A i \in DOMAIN f : i <= exits_emitted => Placed(f, i)
  BY <1>1 DEF Exits, InBlock
<1>3. f[e] < pc /\ block_exits[e].target = program[f[e]].target
  BY <1>1, <1>2 DEF Numbered
<1>4. Placed(f, e)
  BY <1>2, <1>3
<1>5. PICK k : k = block_exits[e].source
  OBVIOUS
<1>6. k \in 1 .. Len(code) /\ code[k].do = "jump" /\ code[k].pc = f[e]
  BY <1>4, <1>5 DEF Placed
<1>7. code[k].to # NoAddress => code[code[k].to].pc = program[code[k].pc].target
  BY <1>1, <1>6 DEF JumpsPatched, Made, Begins
<1> QED
  BY <1>3, <1>5, <1>6, <1>7

(* The two passes of translate_block agree: every jump emitted is that of   *)
(* its own branch, and where it was patched it leads to the first operation *)
(* of that branch's target.  This holds of every program, the ones whose    *)
(* blocks go wrong included.                                                *)
THEOREM JumpsReachTargets == Spec => []JumpsGoToTheirTargets
<1>1. CodeInv => JumpsGoToTheirTargets
  BY CodeInvJumps
<1> QED
  BY <1>1, EmittedCodeHasShape, PTL
-----------------------------------------------------------------------------
(* The host in the code of a program a block gets right. *)

LEMMA TranslatableProgram ==
  ASSUME Translatable, Types
  PROVE  /\ \A k \in 0 .. Last :
              program[k].op = "branch" => ~MidRun(program, program[k].target)
         /\ \A g \in gates : program[g - 1].cond = "al"
         /\ arm_exit_point(program[Last]) /\ program[Last].cond = "al"
         /\ MAX_BLOCK_SIZE > Last /\ MAX_EXITS > Last
<1>1. PICK p \in Programs : program = p.program /\ gates = p.gates
  BY DEF Types
<1>2. ~EntersARun(program) /\ ~OpenAtGate(program, gates)
  BY <1>1 DEF Translatable
<1>3. DOMAIN program = 0 .. Last
  BY ProgramType
<1> QED
  BY <1>1, <1>2, <1>3
     DEF Translatable, EntersARun, OpenAtGate, arm_opcode_unconditional_branch

(* The scan ends a block at a gate or an exit always taken: the limits lie  *)
(* beyond the program.                                                      *)
LEMMA ScanEnds ==
  ASSUME Translatable, CodeInv, scan_block
  PROVE  BlockEnd'
<1> DEFINE b == block_end_pc
           i == program[b]
           new == [target |-> i.target, source |-> NoAddress]
           exits == IF arm_opcode_branch(i) THEN Append(block_exits, new) ELSE block_exits
           entry == [condition |-> arm_set_condition(i), update_cycles |-> 0,
                     block_offset |-> NoAddress]
           data == Append(block_data, entry)
<1>0. /\ Types /\ Last \in Nat /\ start \in Nat /\ b \in 0 .. Last /\ start <= b
      /\ Len(block_data) = b - start /\ Len(block_exits) <= Len(block_data)
      /\ block_exits \in Seq(Exit) /\ block_data \in Seq(Entry) /\ gates \subseteq 1 .. Last + 1
      /\ MAX_BLOCK_SIZE \in Nat /\ MAX_EXITS \in Nat
  <2>1. Types /\ Span /\ phase = "scan"
    BY DEF CodeInv, scan_block
  <2>2. Last \in Nat
    BY <2>1, ProgramType
  <2> QED
    BY <2>1, <2>2, ProgramType, BlockAssumption DEF Types, Span, InBlock
<1>1. Len(exits) \in Nat /\ Len(exits) <= Len(block_exits) + 1 /\ Len(data) = Len(block_data) + 1
  BY <1>0
<1> HIDE DEF exits, data
<1>2. \/ phase' = phase
      \/ arm_exit_point(i) /\ arm_opcode_unconditional_branch(i)
      \/ Len(exits) = MAX_EXITS
      \/ b + 1 \in gates
      \/ Len(data) = MAX_BLOCK_SIZE
      \/ b + 1 > Last
  BY DEF scan_block, exits, data
<1>3. /\ program' = program /\ gates' = gates /\ block_end_pc' = b + 1
      /\ phase = "scan"
  BY DEF scan_block
<1>4. block_end_pc' - 1 = b
  <2>1. b \in Nat
    BY <1>0
  <2> QED
    BY <1>3, <2>1
<1>5. CASE phase' = phase
  BY <1>3, <1>5 DEF BlockEnd, Made
<1>6. CASE arm_exit_point(i) /\ arm_opcode_unconditional_branch(i)
  BY <1>3, <1>4, <1>6 DEF BlockEnd, arm_opcode_unconditional_branch
<1>7. CASE b + 1 \in gates
  <2>1. program[b + 1 - 1].cond = "al" /\ b + 1 - 1 = b
    BY <1>0, <1>7, TranslatableProgram
  <2> QED
    BY <1>3, <1>4, <1>7, <2>1 DEF BlockEnd
<1>8. CASE b = Last
  BY <1>0, <1>3, <1>4, <1>8, TranslatableProgram DEF BlockEnd
<1>9. Len(exits) = MAX_EXITS \/ Len(data) = MAX_BLOCK_SIZE \/ b + 1 > Last => b = Last
  <2>1. MAX_BLOCK_SIZE > Last /\ MAX_EXITS > Last
    BY <1>0, TranslatableProgram
  <2> QED
    BY <1>0, <1>1, <2>1
<1> QED
  BY <1>2, <1>5, <1>6, <1>7, <1>8, <1>9

LEMMA FinishRuns ==
  ASSUME CodeInv, BlockEnd, FinishBlock
  PROVE  BlockEnd' /\ Closed' /\ Tested'
<1> DEFINE n == Len(code)
<1>0. /\ Types /\ Last \in Nat /\ pc \in Nat /\ start \in Nat /\ start < pc
      /\ phase = "emit" /\ pc = block_end_pc /\ pc <= Last + 1
      /\ code \in Seq(Operation) /\ n \in Nat /\ n > 0
      /\ code[n].do \in Works /\ code[n].pc = pc - 1
      /\ UNCHANGED <<program, gates, start, block_end_pc, z>>
      /\ phase' = "run" /\ at' = 1
  BY FinishPlace
<1>1. PICK gate \in {0, 1} : Finished(gate)
  BY FinishShape
<1>2. /\ Len(code') = n + gate
      /\ \A k \in 1 .. n : code'[k].do = code[k].do /\ code'[k].pc = code[k].pc
      /\ gate = 1 => code'[n + 1] = Op("gate", pc)
      /\ gate = 1 <=> pc \in gates
  BY <1>1 DEF Finished
<1>3. BlockEnd'
  BY <1>0 DEF BlockEnd, Made
<1>4. Closed'
  <2>1. CASE gate = 1
    <3>1. Op("gate", pc).do = "gate"
      BY <1>0, OpType
    <3>2. code'[Len(code')] = Op("gate", pc)
      BY <1>2, <2>1
    <3> QED
      BY <3>1, <3>2 DEF Closed
  <2>2. CASE gate = 0
    <3>1. n \in 1 .. n /\ OpOK(code[n])
      BY <1>0 DEF CodeInv, Flow, Made
    <3>2. code[n].do = Work(program[pc - 1])
      BY <1>0, <3>1 DEF OpOK
    <3>3. arm_exit_point(program[pc - 1])
      BY <1>0, <1>2, <2>2 DEF BlockEnd, Made
    <3>4. Work(program[pc - 1]) \in {"jump", "indirect"}
      BY <3>3 DEF Work, arm_exit_point
    <3>5. Len(code') = n
      BY <1>0, <1>2, <2>2
    <3> QED
      BY <1>2, <3>1, <3>2, <3>4, <3>5 DEF Closed
  <2> QED
    BY <2>1, <2>2
<1>5. Tested'
  <2>1. Begins(start, 1)
    <3>1. start \in start .. pc - 1 /\ start - start + 1 = 1
      BY <1>0
    <3>2. Begins(start, block_data[start - start + 1].block_offset)
      BY <1>0, <3>1 DEF CodeInv, Offsets, Made
    <3>3. block_data[1].block_offset = 1
      BY <1>0 DEF CodeInv, Offsets, Made
    <3> QED
      BY <3>1, <3>2, <3>3
  <2>2. code[1].pc = start /\ (code[1].do = "skip_unless" \/ program[start].cond = "al")
    <3>1. ~(start > start)
      BY <1>0
    <3> QED
      BY <2>1, <3>1 DEF Begins
  <2>3. 1 \in 1 .. n /\ 1 \in 1 .. Len(code')
    BY <1>0, <1>2
  <2>4. code'[1].pc = start /\ code'[1].do = code[1].do
    BY <1>2, <2>2, <2>3
  <2> QED
    BY <1>0, <2>2, <2>3, <2>4 DEF Tested, Passes, Works
<1> QED
  BY <1>3, <1>4, <1>5

\* What Tested asks of the host at operation k of the code with the flag at f.
TestedAt(k, f) ==
  /\ k \in 1 .. Len(code)
  /\ code[k].do \in Works => Order!Passes(program[code[k].pc].cond, f)
  /\ code[k].do = "cycle_update" =>
       \/ Order!Passes(program[code[k].pc].cond, f)
       \/ k < Len(code) /\ code[k + 1].do = "skip_unless"

LEMMA PassesHere == \A c : Passes(c) <=> Order!Passes(c, z)
BY DEF Passes, Order!Passes

LEMMA Falls ==
  ASSUME RunInv, phase = "run", code[at].do \in {"skip_unless", "cycle_update", "execute"}
  PROVE  /\ at \in Nat /\ at < Len(code) /\ at + 1 \in 1 .. Len(code)
         /\ Follows(code[at], code[at + 1])
         /\ code[at + 1].do = "cycle_update" =>
              at + 2 \in 1 .. Len(code) /\ Counted(code[at], code[at + 1], code[at + 2])
<1>1. at \in 1 .. Len(code) /\ code[Len(code)].do \in {"jump", "indirect", "gate"}
  BY DEF RunInv, Closed, Tested
<1>2. Len(code) \in Nat /\ at \in Nat
  BY DEF RunInv, CodeInv, Types
<1>3. at < Len(code)
  <2>1. at # Len(code)
    BY <1>1
  <2> QED
    BY <1>1, <1>2, <2>1
<1>4. Flow /\ Made
  BY DEF RunInv, CodeInv, Made
<1>5. Follows(code[at], code[at + 1])
  <2>1. at \in 1 .. Len(code) - 1
    BY <1>1, <1>2, <1>3
  <2> QED
    BY <1>4, <2>1 DEF Flow
<1>6. ASSUME code[at + 1].do = "cycle_update"
      PROVE  at + 2 \in 1 .. Len(code) /\ Counted(code[at], code[at + 1], code[at + 2])
  <2>1. at + 1 # Len(code)
    BY <1>1, <1>6
  <2>2. at \in 1 .. Len(code) - 2 /\ at + 2 \in 1 .. Len(code)
    BY <1>1, <1>2, <1>3, <2>1
  <2> QED
    BY <1>4, <2>2 DEF Flow
<1>7. at + 1 \in 1 .. Len(code)
  BY <1>1, <1>2, <1>3
<1> QED
  BY <1>2, <1>3, <1>5, <1>6, <1>7

(* A skip goes on to the instruction it stands before, or past all that its *)
(* condition fails for.                                                     *)
LEMMA SkipRuns ==
  ASSUME RunInv, RunSkip
  PROVE  /\ TestedAt(at', z)
         /\ \/ code[at'].pc = code[at].pc
            \/ /\ code[at'].pc > code[at].pc
               /\ \A k \in code[at].pc .. code[at'].pc - 1 : ~Passes(program[k].cond)
<1>0. /\ phase = "run" /\ at \in 1 .. Len(code) /\ code[at].do = "skip_unless"
      /\ code[at] \in Operation /\ OpOK(code[at]) /\ CodeInv
      /\ start \in Nat /\ pc \in Nat /\ start < pc /\ pc = block_end_pc
  <2>1. CodeInv /\ Running("skip_unless")
    BY DEF RunInv, RunSkip
  <2>2. start < block_end_pc
    BY <2>1, OperationAt DEF CodeInv, Span, Made
  <2> QED
    BY <2>1, <2>2, OperationAt
<1>1. code[at].cond = program[code[at].pc].cond
  BY <1>0 DEF OpOK
<1>2. CASE Passes(code[at].cond)
  <2>1. at' = at + 1
    BY <1>2 DEF RunSkip
  <2>2. /\ at + 1 \in 1 .. Len(code)
        /\ code[at + 1].pc = code[at].pc
        /\ code[at + 1].do \in Works \cup {"cycle_update"}
    BY <1>0, Falls DEF Follows
  <2> QED
    BY <1>1, <1>2, <2>1, <2>2, PassesHere DEF TestedAt
<1>3. CASE ~Passes(code[at].cond)
  <2>1. at' = code[at].to
    BY <1>3 DEF RunSkip
  <2>2. ~Open(at)
    <3>1. last_condition = arm_set_condition(program[pc - 1]) /\ program[pc - 1].cond = "al"
      BY <1>0 DEF RunInv, CodeInv, LastCondition, BlockEnd, Made
    <3> QED
      BY <3>1 DEF Open, arm_set_condition, Condition
  <2>3. Lands(code[at])
    BY <1>0, <2>2 DEF CodeInv, Skips, Made
  <2>4. TestedAt(at', z)
    <3>1. code[at'].do = "skip_unless" \/ program[code[at'].pc].cond = "al"
      BY <2>1, <2>3 DEF Lands
    <3> QED
      BY <2>1, <2>3, <3>1 DEF TestedAt, Lands, Works, Order!Passes
  <2>5. \A k \in code[at].pc .. code[at'].pc - 1 : ~Passes(program[k].cond)
    BY <1>3, <2>1, <2>3 DEF Lands, Same
  <2> QED
    BY <2>1, <2>3, <2>4, <2>5 DEF Lands
<1> QED
  BY <1>2, <1>3

(* An instruction runs under its condition, and one that writes the flags   *)
(* is not followed by one that relies on the old test.                      *)
LEMMA ExecuteRuns ==
  ASSUME RunInv, RunExecute
  PROVE  /\ TestedAt(at', z')
         /\ code[at'].pc = code[at].pc + 1
         /\ Passes(program[code[at].pc].cond)
         /\ program[code[at].pc].op \notin {"branch", "bx"}
<1> DEFINE p == code[at].pc
<1>0. /\ phase = "run" /\ at \in 1 .. Len(code) /\ code[at].do = "execute"
      /\ OpOK(code[at]) /\ Tested /\ at' = at + 1 /\ p \in Nat
      /\ z' = IF program[p].op = "flags" THEN 1 - z ELSE z
  <2>1. CodeInv /\ Running("execute") /\ Tested
    BY DEF RunInv, RunExecute
  <2>2. at' = at + 1 /\ z' = IF program[p].op = "flags" THEN 1 - z ELSE z
    BY DEF RunExecute
  <2> QED
    BY <2>1, <2>2, OperationAt
<1>1. Passes(program[p].cond)
  BY <1>0 DEF Tested, Works
<1>2. program[p].op \notin {"branch", "bx"}
  BY <1>0 DEF OpOK, Work, Works
<1>3. /\ at + 1 \in 1 .. Len(code) /\ code[at + 1].pc = p + 1
      /\ code[at + 1].do \in Works => Untested(p + 1)
      /\ code[at + 1].do = "cycle_update" =>
           /\ at + 2 \in 1 .. Len(code)
           /\ code[at + 2].do = "skip_unless" \/ Untested(p + 1)
      /\ at \in Nat
  BY <1>0, Falls DEF Follows, Counted
<1>4. Untested(p + 1) => Order!Passes(program[p + 1].cond, z')
  <2>1. CASE program[p + 1].cond = "al"
    BY <2>1 DEF Order!Passes
  <2>2. CASE MidRun(program, p + 1)
    <3>1. /\ program[p + 1].op # "flags"
          /\ arm_set_condition(program[p]) = arm_set_condition(program[p + 1])
      <4>1. PICK q : q = p + 1
        OBVIOUS
      <4>2. q - 1 = p
        BY <1>0, <4>1
      <4>3. MidRun(program, q)
        BY <2>2, <4>1
      <4> QED
        BY <4>1, <4>2, <4>3 DEF MidRun
    <3>2. program[p].cond = program[p + 1].cond /\ program[p].op # "flags"
      BY <3>1 DEF arm_set_condition, Condition
    <3> QED
      BY <1>0, <1>1, <3>2, PassesHere
  <2> QED
    BY <2>1, <2>2 DEF Untested
<1>5. code[at + 1].do = "cycle_update" => at + 1 < Len(code) /\ at + 1 + 1 = at + 2
  <2>1. Len(code) \in Nat
    BY DEF RunInv, CodeInv, Types
  <2> QED
    BY <1>3, <2>1
<1> QED
  BY <1>0, <1>1, <1>2, <1>3, <1>4, <1>5 DEF TestedAt

LEMMA CycleUpdateRuns ==
  ASSUME RunInv, RunCycleUpdate
  PROVE  TestedAt(at', z) /\ code[at'].pc = code[at].pc
<1>0. /\ phase = "run" /\ at \in 1 .. Len(code) /\ code[at].do = "cycle_update"
      /\ Tested /\ at' = at + 1
  <2>1. CodeInv /\ Running("cycle_update") /\ Tested
    BY DEF RunInv, RunCycleUpdate
  <2>2. at' = at + 1
    BY DEF RunCycleUpdate
  <2> QED
    BY <2>1, <2>2, OperationAt
<1>1. at + 1 \in 1 .. Len(code) /\ code[at + 1].pc = code[at].pc
  BY <1>0, Falls DEF Follows
<1>2. Passes(program[code[at].pc].cond) \/ code[at + 1].do = "skip_unless"
  BY <1>0 DEF Tested
<1> QED
  BY <1>0, <1>1, <1>2, PassesHere DEF TestedAt, Works

(* A branch that runs is taken, and one patched lands where its target is   *)
(* tested, or needs no test.                                                *)
LEMMA JumpRuns ==
  ASSUME Translatable, RunInv, RunJump
  PROVE  /\ program[code[at].pc].op = "branch"
         /\ Passes(program[code[at].pc].cond)
         /\ code[at].to # NoAddress =>
              /\ TestedAt(code[at].to, z)
              /\ code[code[at].to].pc = program[code[at].pc].target
<1>0. /\ phase = "run" /\ at \in 1 .. Len(code) /\ code[at].do = "jump" /\ Types
      /\ code[at].pc \in 0 .. Last /\ OpOK(code[at]) /\ Tested /\ JumpsPatched
  <2>1. CodeInv /\ Running("jump") /\ Tested /\ JumpsPatched
    BY DEF RunInv, CodeInv, RunJump
  <2> QED
    BY <2>1, OperationAt
<1>1. program[code[at].pc].op = "branch"
  <2>1. Work(program[code[at].pc]) = "jump"
    BY <1>0 DEF OpOK, Works
  <2> QED
    BY <2>1 DEF Work
<1>2. Passes(program[code[at].pc].cond)
  BY <1>0 DEF Tested, Works
<1>3. ASSUME code[at].to # NoAddress
      PROVE  /\ TestedAt(code[at].to, z)
             /\ code[code[at].to].pc = program[code[at].pc].target
  <2>1. PICK t : t = program[code[at].pc].target
    OBVIOUS
  <2>2. Begins(t, code[at].to)
    BY <1>0, <1>3, <2>1 DEF JumpsPatched, Made
  <2>3. ~MidRun(program, t)
    BY <1>0, <1>1, <2>1, TranslatableProgram
  <2> QED
    BY <2>1, <2>2, <2>3 DEF Begins, TestedAt, Works, Order!Passes
<1> QED
  BY <1>1, <1>2, <1>3
\* A step that leaves the code alone takes the host to an operation tested for.
LEMMA TestedStays ==
  ASSUME RunInv, UNCHANGED <<program, gates, phase, translation>>,
         phase = "run" => TestedAt(at', z')
  PROVE  BlockEnd' /\ Closed' /\ Tested'
<1> USE DEF translation
<1>1. BlockEnd'
  BY DEF RunInv, BlockEnd, Made
<1>2. Closed'
  BY DEF RunInv, Closed
<1>3. Tested'
  BY DEF Tested, TestedAt, Passes, Order!Passes
<1> QED
  BY <1>1, <1>2, <1>3

LEMMA LeftRuns ==
  ASSUME NEW a, Leave(a)
  PROVE  BlockEnd' /\ Closed' /\ Tested'
BY DEF Leave, Start, BlockEnd, Closed, Tested, Made

LEMMA RunInvStep == ASSUME Translatable PROVE RunInv /\ [Next]_vars => RunInv'
<1> SUFFICES ASSUME RunInv, [Next]_vars PROVE RunInv'
  OBVIOUS
<1>0. CodeInv'
  BY CodeInvStep DEF RunInv
<1> SUFFICES BlockEnd' /\ Closed' /\ Tested'
  BY <1>0 DEF RunInv
<1>1. CASE scan_block
  <2>1. BlockEnd'
    BY <1>1, ScanEnds DEF RunInv
  <2>2. phase' # "run"
    BY <1>1 DEF scan_block, EndScan
  <2> QED
    BY <2>1, <2>2 DEF Closed, Tested
<1>2. CASE translate_arm_instruction
  <2>1. UNCHANGED <<phase, program, gates, block_end_pc>> /\ phase = "emit"
    BY <1>2 DEF translate_arm_instruction
  <2> QED
    BY <2>1 DEF RunInv, BlockEnd, Closed, Tested, Made
<1>3. CASE FinishBlock
  BY <1>3, FinishRuns DEF RunInv
<1>4. CASE RunSkip
  <2>1. UNCHANGED <<program, gates, phase, translation, z>>
    BY <1>4 DEF RunSkip
  <2> QED
    BY <1>4, <2>1, SkipRuns, TestedStays
<1>5. CASE RunExecute
  BY <1>5, ExecuteRuns, TestedStays DEF RunExecute
<1>6. CASE RunCycleUpdate
  <2>1. UNCHANGED <<program, gates, phase, translation, z>>
    BY <1>6 DEF RunCycleUpdate
  <2> QED
    BY <1>6, <2>1, CycleUpdateRuns, TestedStays
<1>7. CASE RunJump
  <2>1. CASE code[at].to # NoAddress /\ at' = code[at].to /\ UNCHANGED <<phase, translation>>
    <3>1. UNCHANGED <<program, gates, phase, translation, z>>
      BY <1>7, <2>1 DEF RunJump
    <3> QED
      BY <1>7, <2>1, <3>1, JumpRuns, TestedStays
  <2>2. CASE Leave(program[code[at].pc].target)
    BY <2>2, LeftRuns
  <2> QED
    BY <1>7, <2>1, <2>2 DEF RunJump
<1>8. CASE RunIndirect
  BY <1>8, LeftRuns DEF RunIndirect
<1>9. CASE RunGate
  BY <1>9, LeftRuns DEF RunGate
<1>10. CASE UNCHANGED vars
  <2>1. UNCHANGED <<program, gates, phase, translation, at, z>>
    BY <1>10 DEF vars, machine
  <2>2. phase = "run" => TestedAt(at, z)
    BY PassesHere DEF RunInv, Tested, TestedAt
  <2> QED
    BY <2>1, <2>2, TestedStays DEF translation, TestedAt
<1> QED
  BY <1>1, <1>2, <1>3, <1>4, <1>5, <1>6, <1>7, <1>8, <1>9, <1>10
     DEF Next, Emit, RunCode, Elsewhere

LEMMA InitRuns == Init => RunInv
BY InitCode DEF Init, RunInv, BlockEnd, Closed, Tested, Made

(* A block's code is never left at its end or through a skip nobody patched, *)
(* and no instruction is about to run untested: of every program without a   *)
(* branch into a run of instructions of one condition or a gate behind a     *)
(* conditional one, shorter than the limits and ending in an exit.           *)
THEOREM HostStaysInCode == ASSUME Translatable PROVE Spec => []RunInv
<1>1. Init => RunInv
  BY InitRuns
<1>2. RunInv /\ [Next]_vars => RunInv'
  BY RunInvStep
<1> QED
  BY <1>1, <1>2, PTL DEF Spec

-----------------------------------------------------------------------------
(* The refinement. *)

LEMMA GuestRuns == phase = "run" /\ at \in 1 .. Len(code) => guest = code[at].pc
BY DEF guest

LEMMA GuestLeaves ==
  ASSUME Last \in Nat, NEW a \in Nat, Leave(a)
  PROVE  guest' = a
<1>1. CASE a > Last
  BY <1>1 DEF Leave, guest
<1>2. CASE ~(a > Last)
  BY <1>2 DEF Leave, Start, guest
<1> QED
  BY <1>1, <1>2

LEMMA StepsFollowOrder ==
  ASSUME Translatable PROVE RunInv /\ [Next]_vars => [Order!Next]_(Order!vars)
<1> SUFFICES ASSUME RunInv, [Next]_vars PROVE Order!Next \/ UNCHANGED Order!vars
  OBVIOUS
<1>0. RunInv' /\ CodeInv' /\ CodeInv /\ Types /\ Last \in Nat
  BY RunInvStep, ProgramType DEF RunInv, CodeInv
<1>r. phase' = "run" => guest' = code'[at'].pc
  BY <1>0 DEF RunInv, Tested, guest
<1>1. CASE scan_block
  <2>1. UNCHANGED <<program, start, z, x>> /\ phase = "scan" /\ phase' \in {"scan", "emit"}
    BY <1>1 DEF scan_block, EndScan, machine
  <2> QED
    BY <2>1 DEF Order!vars, guest
<1>2. CASE translate_arm_instruction
  <2>1. UNCHANGED <<program, phase, start, z, x>> /\ phase = "emit"
    BY <1>2 DEF translate_arm_instruction, machine
  <2> QED
    BY <2>1 DEF Order!vars, guest
<1>3. CASE FinishBlock
  <2>1. /\ UNCHANGED <<program, start, z, x>> /\ phase = "emit" /\ phase' = "run" /\ at' = 1
        /\ pc' = block_end_pc' /\ start' < pc' /\ start' \in Nat /\ pc' \in Nat
    BY <1>0, <1>3, FinishPlace DEF CodeInv, Types
  <2>2. code'[1].pc = start'
    <3>0. ASSUME NEW i \in Nat, NEW j \in Nat, i < j
          PROVE  i \in i .. j - 1 /\ i - i + 1 = 1
      BY <3>0
    <3>1. PICK s \in Nat, q \in Nat : s = start' /\ q = pc' /\ s < q
      BY <2>1
    <3>2. Offsets'
      BY <1>0 DEF CodeInv
    <3>3. /\ \A b \in s .. q - 1 : code'[block_data'[b - s + 1].block_offset].pc = b
          /\ block_data'[1].block_offset = 1
      BY <2>1, <3>1, <3>2 DEF Offsets, Made, Begins
    <3>4. s \in s .. q - 1 /\ s - s + 1 = 1
      BY <3>0, <3>1, Zenon
    <3>5. code'[block_data'[1].block_offset].pc = s
      BY <3>3, <3>4
    <3> QED
      BY <3>1, <3>3, <3>5
  <2> QED
    BY <1>r, <2>1, <2>2 DEF Order!vars, guest
<1>4. CASE RunSkip
  <2>0. CodeInv /\ Running("skip_unless") /\ UNCHANGED <<program, phase, code, z, x>>
    BY <1>0, <1>4 DEF RunSkip, translation
  <2>1. /\ guest = code[at].pc /\ guest' = code[at'].pc
        /\ code[at].pc \in 0 .. Last
    BY <1>r, <2>0, OperationAt, GuestRuns
  <2>2. CASE code[at'].pc = code[at].pc
    BY <2>0, <2>1, <2>2 DEF Order!vars
  <2>3. CASE /\ code[at'].pc > code[at].pc
             /\ \A k \in code[at].pc .. code[at'].pc - 1 : ~Passes(program[k].cond)
    <3>1. code[at'].pc \in Nat /\ code[at'].pc <= Last + 1
      <4>1. at' \in 1 .. Len(code)
        BY <1>4, SkipRuns DEF TestedAt
      <4>2. code[at'] \in Operation /\ OpOK(code[at']) /\ block_end_pc <= Last + 1
            /\ block_end_pc \in Nat
        BY <2>0, <4>1, OperationAt DEF CodeInv, Flow, Made
      <4> QED
        BY <1>0, <4>2 DEF OpOK, Operation
    <3>2. guest' \in guest + 1 .. Last + 1
      BY <1>0, <2>1, <2>3, <3>1
    <3>3. \A k \in guest .. guest' - 1 : ~Order!Passes(program[k].cond, z)
      BY <2>1, <2>3, PassesHere
    <3> QED
      BY <2>0, <3>2, <3>3 DEF Order!Next, Order!PassOver
  <2> QED
    BY <1>4, <2>2, <2>3, SkipRuns
<1>5. CASE RunExecute
  <2>0. CodeInv /\ Running("execute") /\ UNCHANGED <<program, phase, code>>
    BY <1>0, <1>5 DEF RunExecute, translation
  <2>1. guest = code[at].pc /\ guest' = code[at'].pc /\ code[at].pc \in 0 .. Last
    BY <1>r, <2>0, OperationAt, GuestRuns
  <2>2. /\ guest' = guest + 1 /\ Order!Passes(program[guest].cond, z)
        /\ program[guest].op \notin {"branch", "bx"}
    BY <1>5, <2>1, ExecuteRuns, PassesHere
  <2>3. /\ z' = IF program[guest].op = "flags" THEN 1 - z ELSE z
        /\ x' = IF program[guest].op = "plain" THEN 1 - x ELSE x
    BY <1>5, <2>1 DEF RunExecute
  <2>4. guest <= Last
    BY <1>0, <2>1
  <2> QED
    BY <2>0, <2>2, <2>3, <2>4 DEF Order!Next, Order!Execute
<1>6. CASE RunCycleUpdate
  <2>0. CodeInv /\ Running("cycle_update") /\ UNCHANGED <<program, phase, code, z, x>>
    BY <1>0, <1>6 DEF RunCycleUpdate, translation
  <2>1. guest = code[at].pc /\ guest' = code[at'].pc
    BY <1>r, <2>0, OperationAt, GuestRuns
  <2> QED
    BY <1>6, <2>0, <2>1, CycleUpdateRuns DEF Order!vars
<1>7. CASE RunJump
  <2>0. CodeInv /\ Running("jump") /\ UNCHANGED <<program, z, x>>
    BY <1>0, <1>7 DEF RunJump
  <2>1. guest = code[at].pc /\ code[at].pc \in 0 .. Last
    BY <2>0, OperationAt, GuestRuns
  <2>2. program[guest].op = "branch" /\ Order!Passes(program[guest].cond, z)
    BY <1>7, <2>1, JumpRuns, PassesHere
  <2>3. guest' = program[guest].target
    <3>1. CASE code[at].to # NoAddress /\ at' = code[at].to /\ UNCHANGED <<phase, translation>>
      <4>1. code' = code /\ phase' = "run"
        BY <2>0, <3>1 DEF translation, Running
      <4> QED
        BY <1>7, <1>r, <2>1, <3>1, <4>1, JumpRuns
    <3>2. CASE Leave(program[code[at].pc].target)
      <4>1. program[code[at].pc].target \in Nat
        BY <1>0, <2>1, InstructionType
      <4> QED
        BY <1>0, <2>1, <3>2, <4>1, GuestLeaves
    <3> QED
      BY <1>7, <3>1, <3>2 DEF RunJump
  <2>4. guest <= Last
    BY <1>0, <2>1
  <2> QED
    BY <2>0, <2>2, <2>3, <2>4 DEF Order!Next, Order!Execute
<1>8. CASE RunIndirect
  <2>0. CodeInv /\ Running("indirect") /\ UNCHANGED <<program, z, x>> /\ Leave(Gone)
    BY <1>0, <1>8 DEF RunIndirect
  <2>1. guest = code[at].pc /\ code[at].pc \in 0 .. Last /\ OpOK(code[at])
    BY <2>0, OperationAt, GuestRuns
  <2>2. program[guest].op = "bx" /\ Order!Passes(program[guest].cond, z)
    <3>1. Work(program[guest]) = "indirect"
      BY <2>0, <2>1 DEF OpOK, Works, Running
    <3>2. Passes(program[guest].cond)
      BY <2>0, <2>1 DEF RunInv, Tested, Works, Running
    <3> QED
      BY <3>1, <3>2, PassesHere DEF Work
  <2>3. guest' = Order!Gone
    <3>1. Gone \in Nat
      BY <1>0 DEF Gone
    <3> QED
      BY <1>0, <2>0, <3>1, GuestLeaves DEF Gone, Order!Gone
  <2>4. guest <= Last
    BY <1>0, <2>1
  <2> QED
    BY <2>0, <2>2, <2>3, <2>4 DEF Order!Next, Order!Execute
<1>9. CASE RunGate
  <2>0. CodeInv /\ Running("gate") /\ UNCHANGED <<program, z, x>> /\ Leave(code[at].pc)
    BY <1>0, <1>9 DEF RunGate
  <2>1. guest = code[at].pc /\ code[at].pc \in Nat
    BY <2>0, OperationAt, GuestRuns
  <2> QED
    BY <1>0, <2>0, <2>1, GuestLeaves DEF Order!vars
<1>10. CASE UNCHANGED vars
  BY <1>10 DEF vars, translation, machine, Order!vars, guest
<1> QED
  BY <1>1, <1>2, <1>3, <1>4, <1>5, <1>6, <1>7, <1>8, <1>9, <1>10
     DEF Next, Emit, RunCode, Elsewhere

(* The code a block becomes does what its instructions say one after        *)
(* another: none runs whose condition fails, none is left out, and the      *)
(* block is left for where the program goes.  One test stands for a run of  *)
(* instructions, jumps go straight into the middle of the block, and        *)
(* interrupts and gates cut it anywhere; the program cannot tell.           *)
THEOREM BlocksFollowOrder == ASSUME Translatable PROVE Spec => OrderSpec
<1>1. Init => Order!Init
  BY DEF Init, Order!Init, guest
<1>2. RunInv /\ [Next]_vars => [Order!Next]_(Order!vars)
  BY StepsFollowOrder
<1>3. Spec => []RunInv
  BY HostStaysInCode
<1> QED
  BY <1>1, <1>2, <1>3, PTL DEF Spec, OrderSpec, Order!Spec
=============================================================================
