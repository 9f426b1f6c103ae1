------------------------------ MODULE SamplePipe ------------------------------
(***************************************************************************)
(* What the sound ring of sound.c promises to its two users while the      *)
(* emulator runs synchronised: a pipe of samples of bounded capacity.  The *)
(* emulation thread puts samples in and never more than fit, the audio     *)
(* thread takes a callback's worth out and never more than there are, and  *)
(* as long as a callback could be served, callbacks keep being served.     *)
(***************************************************************************)
EXTENDS Naturals

CONSTANTS
  Capacity,  (* most samples in the pipe, one slot less than the ring       *)
  Chunk,     (* samples one audio callback takes                            *)
  Reserve    (* samples that must be there before a callback takes its chunk *)

VARIABLE queued

Init == queued = 0

(* Put any number of samples that fits. *)
Put == queued' \in queued .. Capacity

(* Serve a callback. *)
Take == /\ queued >= Reserve
        /\ queued' = queued - Chunk

(* A reset of the emulated machine throws everything away. *)
Discard == queued' = 0

Next == Put \/ Take \/ Discard

Spec == Init /\ [][Next]_queued

(* The pipe is never full for ever: sooner or later the audio thread makes *)
(* room, or the machine is reset.                                          *)
LiveSpec == Spec /\ WF_queued(Take)

===============================================================================
