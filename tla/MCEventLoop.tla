------------------------------ MODULE MCEventLoop ------------------------------
(* A small instance of EventLoop: two lines of five cycles and two timers,   *)
(* with a period that is one part of a line and one that fits neither.       *)
EXTENDS EventLoop

MCMasks == {{VBLANK, TIMER(1)}}
MCDispstat == {{VBLANK}}

===============================================================================
