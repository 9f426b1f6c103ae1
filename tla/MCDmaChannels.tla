---------------------------- MODULE MCDmaChannels ----------------------------
(* The two channels that can feed FIFOs, with FIFOs of four bytes.  Channel  *)
(* 1 copies in memory, channel 2 to a FIFO or to the registers of channel 1.  *)
EXTENDS DmaChannels

To(dest, count) == [source |-> Address("ewram", 0), dest |-> dest, count |-> count]
MCRegisters(n) ==
  IF n = 1 THEN {To(Address("iwram", 0), 1)}
           ELSE {To(FIFO(0), 1), To(CNT(1), 3)}

Control(start, repeat, dest) ==
  [enable |-> TRUE, start |-> start, repeat |-> repeat,
   source |-> "fixed", dest |-> dest]
Disable == [Control("immediately", FALSE, "increment") EXCEPT !.enable = FALSE]
FeedFifo == Control("special", TRUE, "fixed")
CopyNow == Control("immediately", FALSE, "increment")
CopyLater == Control("hblank", TRUE, "reload")

MCControls(n) == {Disable, FeedFifo, CopyNow}
                 \cup (IF n = 2 THEN {CopyLater} ELSE {})
MCDmaData == {CopyNow, Disable}
MCTimers == {[ch \in Sounds |-> 0]}

\* Such a game as the theorems are about.
ASSUME PlaysSound == SoundRepeats /\ SoundFromMemory
=============================================================================
