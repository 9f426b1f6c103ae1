------------------------ MODULE MCBlockTranslation ------------------------
(* Every program of Last instructions and a final branch out, but for those *)
(* a block is known to get wrong.                                          *)
EXTENDS BlockTranslation

MCLast == 3
\* No gate, or one before the last instruction.
MCGates == {{}, {MCLast}}

Plain(cond, op) == [cond |-> cond, op |-> op, target |-> 0]
Branch(cond, to) == [cond |-> cond, op |-> "branch", target |-> to]
Out == Plain("al", "bx")
Instructions == {Plain(c, op) : c \in {"al", "eq", "ne"}, op \in {"plain", "flags"}}
                \cup {Branch(c, to) : c \in {"al", "eq"}, to \in 0 .. MCLast + 1}
                \cup {Plain("eq", "bx")}
AllPrograms == {[k \in 0 .. MCLast |-> IF k = MCLast THEN Out ELSE p[k]] :
                  p \in [0 .. MCLast - 1 -> Instructions]}

MCPrograms == {[program |-> p, gates |-> gs] : p \in {q \in AllPrograms : ~EntersARun(q)},
                                                gs \in MCGates}
MCGated == {m \in MCPrograms : ~OpenAtGate(m.program, m.gates)}

\* What is tried is what the theorems are about.
ASSUME Translatable
=============================================================================
