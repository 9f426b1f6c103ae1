---------------------------- MODULE MCIoDevices ----------------------------
(* Instance of IoDevices: games that use a group of registers each.        *)
EXTENDS IoDevices

MCGroups == {{0, 4, 6, \h130, \h202, \h204, \h300},
             {\h28, \h2A, \h3C, \h3E, \hE0, \h90},
             {\h60, \h62, \h64, \h80, \h84},
             {\h68, \h6C, \h84},
             {\h70, \h72, \h74, \h84},
             {\h78, \h7C, \h80, \h84},
             {\h82, \hA0, \hA4, \hA2, \hA6},
             {\hBA, \hC4, \hC6, \h100, \h102, \h10E}}

\* Lengths of 1 and 2 ticks, sweeps up and down, envelopes in both directions; a
\* setting with its trigger bit and one without; patterns elsewhere.
MCContents(a) ==
  CASE a = \h60 -> {\h0011, \h001A}
    [] a \in {\h62, \h68, \h78} -> {\h113F, \hE9BE, \h903F}
    [] a \in {\h64, \h6C} -> {\h07FF, \hC400}
    [] a = \h70 -> {\h0080, \h0060}
    [] a = \h72 -> {\h80FF, \h60FE}
    [] a = \h74 -> {\h07FF, \hC700}
    [] a = \h7C -> {\hC013, \h0073}
    [] a = \h80 -> {\h1237}
    [] a = \h82 -> {\h0B0E, \h8702}
    [] a = \h84 -> {\h0080, \h000F}
    [] a \in {\hBA, \hC6} -> {\hB640, \h8440, \h0440}
    [] a \in {\h102, \h10E} -> {\h00C3, \h0087, \h0042}
    [] OTHER -> {\h0000, \h1F87, \hE07B}

=============================================================================
