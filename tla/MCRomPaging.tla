------------------------------ MODULE MCRomPaging -------------------------------
(* Small ROMs and buffers for RomPaging. *)
EXTENDS RomPaging

(* The upper half of the ROM lies above 0x0D000000 in the third mirror.     *)
UpperHalf == {2, 3}

===============================================================================
