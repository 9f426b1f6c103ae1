--------------------------- MODULE MCTranslationCache ---------------------------
(* Small guest programs for TranslationCache.  Addresses 0..7 are four      *)
(* pages of EWRAM, 10.. IWRAM, 50.. the BIOS and 60.. the ROM.              *)
EXTENDS TranslationCache, TLC

Block(end, exits) == [end |-> end, exits |-> exits, body |-> 1, gate |-> 0]
Gated(end) == [end |-> end, exits |-> <<>>, body |-> 1, gate |-> 1]
MCEwram == 0 .. 7
MCIwram == 10 .. 17
MCBios == {50, 52, 54}
MCCapacity == [ram |-> 2, rom |-> 4, bios |-> 2]

(* Two cached blocks leave no room for a caller and what it calls; 61, 63   *)
(* and 65 share a bucket; 50 is the SWI vector; 3 and 65 end in a           *)
(* translation gate.  11 calls a block above it, 16 one in the other RAM    *)
(* that never fits behind it, 5 one in another cache.                       *)
Mixed ==
  1  :> Block(2, <<>>)    @@ 3  :> Gated(4)    @@ 5 :> Block(6, <<1, 63>>)
  @@ 10 :> Block(13, <<>>)   @@ 11 :> Block(13, <<50, 14>>)
  @@ 14 :> Block(16, <<50>>) @@ 16 :> Block(17, <<10, 3>>)
  @@ 50 :> Block(51, <<>>)   @@ 52 :> Block(53, <<>>)
  @@ 54 :> Block(55, <<50>>)
  @@ 61 :> Block(62, <<63, 50>>)
  @@ 63 :> Block(64, <<>>)   @@ 65 :> Gated(66)

AllBlocks == DOMAIN Program

(* A callee above its caller. *)
Upward == 1 :> Block(2, <<>>) @@ 10 :> Block(12, <<14>>)
          @@ 14 :> Block(16, <<>>)

===============================================================================
