-------------------------- MODULE BlockTranslation --------------------------
(***************************************************************************)
(* The translation of a block of ARM code in cpu_threaded.c, and the run   *)
(* of the code it emits: the scan for the block's end, one instruction     *)
(* emitted at a time with one test for a run of instructions of the same   *)
(* condition, the patching of skips and branches, and the cycle budget     *)
(* direct branches look at.  A block that is left is looked up again where *)
(* it went, and translated there; TranslationCache models the lookup.      *)
(* Emitted operations are records named for the macro that emits them.     *)
(***************************************************************************)
EXTENDS Integers, Sequences

CONSTANTS Last,            \* instructions are at 0 .. Last
          Programs,        \* what is tried: a program, and the gates set in it
          MAX_BLOCK_SIZE, MAX_EXITS,
          Budget           \* what update_gba returns

Instruction == [cond : {"al", "eq", "ne"}, op : {"plain", "flags", "branch", "bx"},
                target : 0 .. Last + 1]

ASSUME BlockAssumption ==
  /\ Last \in Nat /\ MAX_BLOCK_SIZE \in Nat /\ MAX_EXITS \in Nat /\ Budget \in Int
  /\ \A p \in Programs : /\ p.program \in [0 .. Last -> Instruction]
                         /\ p.gates \subseteq 1 .. Last + 1

VARIABLES program,         \* what memory holds
          gates,           \* translation_gate_target_pc, from game_config.txt
          phase,           \* "scan", "emit", "run" or "gone"
          pc,              \* block_start_pc while scanning, then where translation is
          start, block_end_pc,
          block_data,      \* per instruction: condition, update_cycles, block_offset
          block_exits,     \* per direct branch: target and source
          exits_emitted,   \* block_exit_position of the second pass
          code,            \* the operations emitted
          last_condition, backpatch_address, cycle_count,
          at,              \* the host's program counter
          z, x,            \* the flag conditions test, and what plain ones change
          cycles           \* reg_cycles

translation == <<pc, start, block_end_pc, block_data, block_exits, exits_emitted, code,
                 last_condition, backpatch_address, cycle_count>>
machine == <<at, z, x, cycles>>
vars == <<program, gates, phase, translation, machine>>

Gone == Last + 2
Condition(cond, exit, marked) == [cond |-> cond, exit |-> exit, marked |-> marked]
Always == Condition("al", FALSE, FALSE)
NoAddress == 0

-----------------------------------------------------------------------------
(* Classification. *)

arm_exit_point(i) == i.op \in {"branch", "bx"}
arm_opcode_branch(i) == i.op = "branch"
arm_opcode_unconditional_branch(i) == i.cond = "al"

\* 0x10 sets an exit apart from its neighbours; 0x20 marks one that writes flags.
arm_set_condition(i) == Condition(i.cond, arm_exit_point(i), i.op = "flags")

-----------------------------------------------------------------------------
(* The scan: one action per instruction looked at. *)

Start(address) ==
  /\ phase' = "scan"
  /\ pc' = address /\ start' = address /\ block_end_pc' = address
  /\ block_data' = <<>> /\ block_exits' = <<>> /\ exits_emitted' = 0 /\ code' = <<>>
  /\ last_condition' = Always /\ backpatch_address' = NoAddress /\ cycle_count' = 0
  /\ at' = 0

\* After the scan every target inside the block gets its cycles brought up to date.
\* The entry of the instruction that ends the block keeps what an earlier block left.
EndScan(data, exits) ==
  \E stale \in {0, 1} :
    /\ block_data' =
         [k \in 1 .. Len(data) |->
           [data[k] EXCEPT !.update_cycles =
             IF \E e \in 1 .. Len(exits) :
                  /\ exits[e].target > start /\ exits[e].target < block_end_pc'
                  /\ exits[e].target - start + 1 = k
             THEN 1 ELSE IF k = Len(data) THEN stale ELSE 0]]
    /\ phase' = "emit"

scan_block ==
  /\ phase = "scan"
  /\ LET i == program[block_end_pc]
         end == block_end_pc + 1
         entry == [condition |-> arm_set_condition(i), update_cycles |-> 0,
                   block_offset |-> NoAddress]
         data == Append(block_data, entry)
         exits == IF arm_opcode_branch(i)
                  THEN Append(block_exits, [target |-> i.target, source |-> NoAddress])
                  ELSE block_exits
         joined == \E e \in 1 .. Len(exits) - 1 : exits[e].target = end
         ends == \/ arm_exit_point(i) /\ arm_opcode_unconditional_branch(i) /\ ~joined
                 \/ arm_exit_point(i) /\ Len(exits) = MAX_EXITS
                 \/ end \in gates
                 \/ Len(data) = MAX_BLOCK_SIZE
     IN  /\ block_end_pc' = end
         /\ block_exits' = exits
         /\ IF ends \/ end > Last THEN EndScan(data, exits)
            ELSE block_data' = data /\ UNCHANGED phase
  /\ UNCHANGED <<program, gates, pc, start, exits_emitted, code, last_condition, backpatch_address,
                 cycle_count, machine>>

-----------------------------------------------------------------------------
(* Emission: one action per instruction. *)

Op(do, address) == [do |-> do, pc |-> address, cond |-> "al", to |-> NoAddress, n |-> 0]
generate_cycle_update(ops, address, n) ==
  IF n = 0 THEN ops ELSE Append(ops, [Op("cycle_update", address) EXCEPT !.n = n])

\* A mutant: the cycles so far are not counted at a branch.
generate_branch_no_cycle_update(ops, address, n) == Append(ops, Op("jump", address))

\* The cycles, the test of the budget, and a jump to patch.
generate_branch(ops, address, n) ==
  Append(generate_cycle_update(ops, address, n), Op("jump", address))

block_exit == exits_emitted + 1

\* A mutant: an instruction that writes the flags stays in its run.
NewRunOnChange(entry) == entry.condition # last_condition
\* A new test when the condition changes or the instruction writes flags; the skip
\* of the run before is patched to where this one begins.
NewRun(entry) == entry.condition # last_condition \/ entry.condition.marked
PatchSkip(ops) ==
  IF last_condition.cond = "al" THEN ops
  ELSE [ops EXCEPT ![backpatch_address].to = Len(ops) + 1]
arm_conditional_block_header(ops, cond) ==
  IF cond = "al" THEN ops ELSE Append(ops, [Op("skip_unless", pc) EXCEPT !.cond = cond])

translate_arm_instruction ==
  /\ phase = "emit" /\ pc # block_end_pc
  /\ LET i == program[pc]
         k == pc - start + 1
         entry == block_data[k]
         count == cycle_count + 1
         ops1 == IF NewRun(entry)
                 THEN arm_conditional_block_header(PatchSkip(code), entry.condition.cond)
                 ELSE code
         header == NewRun(entry) /\ entry.condition.cond # "al"
         ops2 == CASE i.op = "branch" -> generate_branch(ops1, pc, count)
                   [] i.op = "bx" -> Append(ops1, Op("indirect", pc))
                   [] OTHER -> Append(ops1, Op("execute", pc))
         left == IF i.op = "branch" THEN 0 ELSE count
         update == k < Len(block_data) /\ block_data[k + 1].update_cycles = 1
     IN  /\ code' = IF update THEN generate_cycle_update(ops2, pc + 1, left) ELSE ops2
         /\ cycle_count' = IF update THEN 0 ELSE left
         /\ last_condition' = IF NewRun(entry) THEN entry.condition ELSE last_condition
         /\ backpatch_address' = IF header THEN Len(ops1) ELSE backpatch_address
         /\ block_data' = [block_data EXCEPT ![k].block_offset = Len(code) + 1]
         /\ exits_emitted' = IF i.op = "branch" THEN exits_emitted + 1 ELSE exits_emitted
         /\ block_exits' = IF i.op = "branch"
                           THEN [block_exits EXCEPT ![block_exit].source = Len(ops2)]
                           ELSE block_exits
         /\ pc' = pc + 1
  /\ UNCHANGED <<program, gates, phase, start, block_end_pc, machine>>

\* The gate, if the block ended at one; then every branch inside the block is
\* patched to the offset recorded for its target.  The others go through the lookup.
FinishBlock ==
  /\ phase = "emit" /\ pc = block_end_pc
  /\ LET gated == IF pc \in gates THEN Append(code, Op("gate", pc)) ELSE code
         Inside(target) == target >= start /\ target < block_end_pc
         Patched(k) ==
           IF \E e \in 1 .. exits_emitted :
                block_exits[e].source = k /\ Inside(block_exits[e].target)
           THEN LET e == CHOOSE e \in 1 .. exits_emitted : block_exits[e].source = k
                IN  [gated[k] EXCEPT
                      !.to = block_data[block_exits[e].target - start + 1].block_offset]
           ELSE gated[k]
     IN  code' = [k \in 1 .. Len(gated) |-> Patched(k)]
  /\ phase' = "run" /\ at' = 1
  /\ UNCHANGED <<program, gates, pc, start, block_end_pc, block_data, block_exits, exits_emitted,
                 last_condition, backpatch_address, cycle_count, z, x, cycles>>

-----------------------------------------------------------------------------
(* The emitted code runs. *)

Passes(cond) == cond = "al" \/ (cond = "eq" /\ z = 1) \/ (cond = "ne" /\ z = 0)

Running(do) == phase = "run" /\ at \in 1 .. Len(code) /\ code[at].do = do
Leave(address) ==
  IF address > Last
  THEN phase' = "gone" /\ pc' = address /\ at' = 0
       /\ UNCHANGED <<start, block_end_pc, block_data, block_exits, exits_emitted, code,
                      last_condition, backpatch_address, cycle_count>>
  ELSE Start(address)

RunSkip ==
  /\ Running("skip_unless")
  /\ at' = IF Passes(code[at].cond) THEN at + 1 ELSE code[at].to
  /\ UNCHANGED <<program, gates, phase, translation, z, x, cycles>>

RunExecute ==
  /\ Running("execute")
  /\ LET op == program[code[at].pc].op
     IN  /\ z' = IF op = "flags" THEN 1 - z ELSE z
         /\ x' = IF op = "plain" THEN 1 - x ELSE x
  /\ at' = at + 1
  /\ UNCHANGED <<program, gates, phase, translation, cycles>>

RunCycleUpdate ==
  /\ Running("cycle_update")
  /\ cycles' = cycles - code[at].n
  /\ at' = at + 1
  /\ UNCHANGED <<program, gates, phase, translation, z, x>>

\* A jump whose budget is spent calls update_gba, and leaves the block when that
\* raised an interrupt (which comes back to the target).
RunJump ==
  /\ Running("jump")
  /\ cycles' = IF cycles < 0 THEN Budget ELSE cycles
  /\ LET op == code[at]
         target == program[op.pc].target
     IN  \/ /\ op.to # NoAddress
            /\ at' = op.to
            /\ UNCHANGED <<phase, translation>>
         \/ /\ op.to = NoAddress \/ cycles < 0
            /\ Leave(target)
  /\ UNCHANGED <<program, gates, z, x>>

RunIndirect ==
  /\ Running("indirect")
  /\ Leave(Gone)
  /\ UNCHANGED <<program, gates, z, x, cycles>>

RunGate ==
  /\ Running("gate")
  /\ Leave(code[at].pc)
  /\ UNCHANGED <<program, gates, z, x, cycles>>

Emit == scan_block \/ translate_arm_instruction \/ FinishBlock
RunCode == RunSkip \/ RunExecute \/ RunCycleUpdate \/ RunJump \/ RunIndirect \/ RunGate
\* The program went where the model does not follow.
Elsewhere == phase = "gone" /\ UNCHANGED vars
Next == Emit \/ RunCode \/ Elsewhere

Init ==
  /\ \E p \in Programs : program = p.program /\ gates = p.gates
  /\ phase = "scan" /\ pc = 0 /\ start = 0 /\ block_end_pc = 0
  /\ block_data = <<>> /\ block_exits = <<>> /\ exits_emitted = 0 /\ code = <<>>
  /\ last_condition = Always /\ backpatch_address = NoAddress /\ cycle_count = 0
  /\ at = 0 /\ z \in {0, 1} /\ x = 0 /\ cycles = Budget

Spec == Init /\ [][Next]_vars
FairSpec == Spec /\ WF_vars(Next)

-----------------------------------------------------------------------------
(* Properties. *)

\* The second pass meets the same direct branches as the scan, so each jump is patched
\* to the target of its own branch.
JumpsGoToTheirTargets ==
  phase = "run" =>
    \A e \in 1 .. Len(block_exits) :
      LET jump == code[block_exits[e].source]
      IN  /\ block_exits[e].source \in 1 .. Len(code)
          /\ jump.do = "jump"
          /\ program[jump.pc].target = block_exits[e].target
          /\ jump.to # NoAddress => code[jump.to].pc = block_exits[e].target

\* A branch into a run of instructions of one condition lands behind its only test.
MidRun(p, k) == /\ k > 0 /\ k \in DOMAIN p /\ p[k].cond # "al" /\ p[k].op # "flags"
                /\ arm_set_condition(p[k - 1]) = arm_set_condition(p[k])
EntersARun(p) == \E k \in DOMAIN p : p[k].op = "branch" /\ MidRun(p, p[k].target)
\* A gate behind a conditional instruction leaves that one's skip unpatched.
OpenAtGate(p, gs) == \E g \in gs : p[g - 1].cond # "al"

\* What a block is known to get wrong left aside, programs that end in an exit always
\* taken and are shorter than the limits.
Translatable ==
  /\ MAX_BLOCK_SIZE > Last /\ MAX_EXITS > Last
  /\ \A p \in Programs :
       /\ ~EntersARun(p.program) /\ ~OpenAtGate(p.program, p.gates)
       /\ arm_exit_point(p.program[Last])
       /\ arm_opcode_unconditional_branch(p.program[Last])

\* The emitted code does what the program says, instruction by instruction: no
\* instruction runs whose condition fails, none is left out, and the block is left for
\* where the program goes.  Past the last operation, or through a skip nobody patched,
\* the host runs whatever the cache holds: that is nowhere in the program.
Nowhere == Gone + 1
guest == CASE phase \in {"scan", "emit"} -> start
           [] phase = "run" /\ at \in 1 .. Len(code) -> code[at].pc
           [] phase = "run" /\ at \notin 1 .. Len(code) -> Nowhere
           [] phase = "gone" -> pc
Order == INSTANCE ProgramOrder WITH gpc <- guest
OrderSpec == Order!Spec

\* A program that keeps running keeps spending its budget, so that the hardware is
\* brought up to date again and again.
HardwareIsUpdated == []<>(phase = "gone" \/ cycles < 0)
=============================================================================
