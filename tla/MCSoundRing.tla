----------------------------- MODULE MCSoundRing -----------------------------
(* SoundRing on a small ring whose size a callback's samples do not divide, *)
(* so that a callback straddles the end of the ring at one place after the *)
(* other: 3 samples in 16 slots, with a high water of 9.                   *)
EXTENDS SoundRing

(* One half full across the wrap, one above the high water. *)
MCSavedRings == {<<13, 2>>, <<2, 13>>}

==============================================================================
