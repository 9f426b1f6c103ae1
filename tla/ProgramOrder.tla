---------------------------- MODULE ProgramOrder ----------------------------
(***************************************************************************)
(* What a program does, one instruction after another: the specification   *)
(* BlockTranslation implements.  An instruction whose condition fails does *)
(* nothing; several of them in a row may be passed over in one step.       *)
(***************************************************************************)
EXTENDS Naturals

CONSTANT Last            \* instructions are at 0 .. Last

VARIABLES program, gpc,  \* the guest's program counter
          z, x           \* the flag conditions test, and what plain ones change

vars == <<program, gpc, z, x>>

Gone == Last + 2         \* where an indirect branch leads, outside the program

Passes(cond, flag) == cond = "al" \/ (cond = "eq" /\ flag = 1) \/ (cond = "ne" /\ flag = 0)

Execute ==
  /\ gpc <= Last
  /\ LET i == program[gpc]
     IN  /\ Passes(i.cond, z)
         /\ z' = IF i.op = "flags" THEN 1 - z ELSE z
         /\ x' = IF i.op = "plain" THEN 1 - x ELSE x
         /\ gpc' = CASE i.op = "branch" -> i.target
                     [] i.op = "bx"     -> Gone
                     [] OTHER           -> gpc + 1
  /\ UNCHANGED program

PassOver ==
  /\ \E next \in gpc + 1 .. Last + 1 :
       /\ \A k \in gpc .. next - 1 : ~Passes(program[k].cond, z)
       /\ gpc' = next
  /\ UNCHANGED <<program, z, x>>

Init == gpc = 0 /\ z \in {0, 1} /\ x = 0
Next == Execute \/ PassOver
Spec == Init /\ [][Next]_vars
=============================================================================
