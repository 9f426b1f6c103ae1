------------------------------- MODULE SoundRing -------------------------------
(***************************************************************************)
(* The sample ring between the emulation thread and the SDL audio thread   *)
(* (sound.c).  update_gbc_sound renders into sound_buffer and publishes a  *)
(* new gbc_sound_buffer_index; sound_callback copies from sound_buffer_base *)
(* on and clears what it copied.  One mutex and one condition variable     *)
(* serve both sides: the emulation thread sleeps when it is too far ahead, *)
(* the audio thread when there is too little to play.                      *)
(*                                                                         *)
(* Two details of the code decide whether the pair can fall asleep         *)
(* together, and both are kept: the producer signals BEFORE it advances    *)
(* its index, and it advances the index AFTER it released the mutex.       *)
(*                                                                         *)
(* Positions count s16 slots of sound_buffer.  The volume, envelope and    *)
(* waveform arithmetic is abstracted: a slot is clear or holds samples not *)
(* yet played.  sound_timer, which mixes the samples of the two FIFOs into *)
(* the same ring, is left out: it takes the mutex but neither waits nor    *)
(* signals, and moves neither of the two positions the threads compare.    *)
(***************************************************************************)
EXTENDS Naturals, FiniteSets

CONSTANTS
  BUFFER_SIZE,        (* slots of sound_buffer                             *)
  audio_buffer_size,  (* the configured size; also the callback's length   *)
  MaxStep,            (* most slots one update publishes (buffer_ticks*2)  *)
  FastForward,        (* whether the user has the fast-forward button      *)
  SavedRings,         (* the <<base, index>> pairs found in savestates     *)
  MaxResets           (* bound on resets and state loads (TLC)             *)

VARIABLES
  pc,                      (* where each thread is                         *)
  mutex,                   (* the holder of sound_mutex                    *)
  waiting,                 (* the threads asleep on sound_cv               *)
  synchronize_flag,        (* FALSE while fast-forwarding                  *)
  sound_buffer_base,       (* next slot to play                            *)
  gbc_sound_buffer_index,  (* end of the published samples                 *)
  step,                    (* slots of the update in progress              *)
  unplayed,                (* slots of sound_buffer not clear              *)
  stream,                  (* the slot each sample SDL got comes from      *)
  resets,                  (* resets and loads so far                      *)
  (* History, which only the properties read.                              *)
  stranded,                (* a load left the audio thread asleep on a     *)
                           (* ring above the high water                    *)
  in_step                  (* the ring was neither loaded nor written to   *)
                           (* fast-forwarding since it was last reset      *)

vars == <<pc, mutex, waiting, synchronize_flag, sound_buffer_base,
          gbc_sound_buffer_index, step, unplayed, stream, resets, stranded, in_step>>

Threads == {"cpu", "audio"}
Slots   == 0 .. BUFFER_SIZE - 1
Steps   == {k \in 0 .. MaxStep : k % 2 = 0}
NoOne   == "none"

(* The fill above which a synchronised producer sleeps. *)
HighWater == (audio_buffer_size * 3) \div 2

(* Slots one callback consumes: length is in bytes, a sample is an s16. *)
sample_length == audio_buffer_size \div 2

(* SDL's stream before the callback has written to it: samples of no slot. *)
NoSlot    == BUFFER_SIZE
Untouched == [i \in 0 .. sample_length - 1 |-> NoSlot]

(* x % BUFFER_SIZE for the sums the code forms, all below 2 * BUFFER_SIZE. *)
Wrap(x) == IF x >= BUFFER_SIZE THEN x - BUFFER_SIZE ELSE x

(* (index - base) % BUFFER_SIZE *)
FillOf(base, index) == Wrap(index + BUFFER_SIZE - base)
Fill == FillOf(sound_buffer_base, gbc_sound_buffer_index)

(* The n slots from the given one on, around the end of the ring. *)
Region(from, n) == {Wrap(from + i) : i \in 0 .. n - 1}

ASSUME SizeAssumption ==
  /\ BUFFER_SIZE \in Nat
  /\ audio_buffer_size \in Nat \ {0}
  /\ MaxStep \in Nat
  /\ HighWater + MaxStep < BUFFER_SIZE

(* init_sound takes 2048 or more; at 22050 Hz a frame is 738 to 740 slots. *)
ASSUME StepAssumption == MaxStep <= audio_buffer_size \div 2

(* save_state writes the two positions as they are: behind a publish, or   *)
(* while fast-forwarding, the ring is fuller than the high water.          *)
ASSUME SavedAssumption == SavedRings \subseteq Slots \X Slots

ASSUME ModeAssumption == FastForward \in BOOLEAN /\ MaxResets \in Nat

Init ==
  /\ pc = [t \in Threads |-> "idle"]
  /\ mutex = NoOne
  /\ waiting = {}
  /\ synchronize_flag = TRUE
  /\ sound_buffer_base = 0
  /\ gbc_sound_buffer_index = 0
  /\ step = 0
  /\ unplayed = {}
  /\ stream = Untouched
  /\ resets = 0
  /\ stranded = FALSE
  /\ in_step = TRUE

-------------------------------------------------------------------------------
(* SDL's mutex and condition variable. *)

(* SDL_LockMutex, and the re-acquisition inside SDL_CondWait. *)
LockMutex(t) ==
  /\ pc[t] \in {"lock", "waiting"}
  /\ t \notin waiting
  /\ mutex = NoOne
  /\ mutex' = t
  /\ pc' = [pc EXCEPT ![t] = "check"]
  /\ UNCHANGED <<waiting, synchronize_flag, sound_buffer_base,
                 gbc_sound_buffer_index, step, unplayed, stream, resets,
                 stranded, in_step>>

CondWait(t) ==
  /\ mutex' = NoOne
  /\ waiting' = waiting \cup {t}
  /\ pc' = [pc EXCEPT ![t] = "waiting"]
  /\ UNCHANGED <<synchronize_flag, sound_buffer_base, gbc_sound_buffer_index,
                 step, unplayed, stream, resets, stranded, in_step>>

(* Mutant: the signal is forgotten. *)
NoSignal == UNCHANGED waiting

(* SDL_CondSignal wakes one sleeper if there is one. *)
CondSignal == IF waiting = {} THEN waiting' = {}
              ELSE \E t \in waiting : waiting' = waiting \ {t}

-------------------------------------------------------------------------------
(* The emulation thread. *)

(* update_gbc_sound is called with enough elapsed cycles for k slots. *)
BeginUpdate(k) ==
  /\ pc["cpu"] = "idle"
  /\ pc' = [pc EXCEPT !["cpu"] = "lock"]
  /\ step' = k
  /\ UNCHANGED <<mutex, waiting, synchronize_flag, sound_buffer_base,
                 gbc_sound_buffer_index, unplayed, stream, resets, stranded, in_step>>

(* Mutant: the test of synchronize_flag is inverted. *)
TooFarAheadInverted == ~synchronize_flag /\ Fill > HighWater

TooFarAhead == synchronize_flag /\ Fill > HighWater

CpuWait == pc["cpu"] = "check" /\ TooFarAhead /\ CondWait("cpu")

(* Mix the channels into the ring, signal, release the mutex.  The index   *)
(* still has its old value when the audio thread is signalled.             *)
Render ==
  /\ pc["cpu"] = "check"
  /\ ~TooFarAhead
  /\ unplayed' = unplayed \cup Region(gbc_sound_buffer_index, step)
  /\ CondSignal
  /\ mutex' = NoOne
  /\ pc' = [pc EXCEPT !["cpu"] = "publish"]
  /\ stranded' = FALSE
  /\ UNCHANGED <<synchronize_flag, sound_buffer_base, gbc_sound_buffer_index,
                 step, stream, resets, in_step>>

(* gbc_sound_buffer_index is advanced with no lock held and no signal. *)
Publish ==
  /\ pc["cpu"] = "publish"
  /\ gbc_sound_buffer_index' = Wrap(gbc_sound_buffer_index + step)
  /\ step' = 0
  /\ pc' = [pc EXCEPT !["cpu"] = "idle"]
  /\ UNCHANGED <<mutex, waiting, synchronize_flag, sound_buffer_base, unplayed,
                 stream, resets, stranded, in_step>>

(* The fast-forward button (update_input): synchronize_flag ^= 1. *)
ToggleSync ==
  /\ FastForward
  /\ pc["cpu"] = "idle"
  /\ synchronize_flag' = ~synchronize_flag
  /\ in_step' = FALSE
  /\ UNCHANGED <<pc, mutex, waiting, sound_buffer_base, gbc_sound_buffer_index,
                 step, unplayed, stream, resets, stranded>>

(* reset_sound, called by reset_gba on the emulation thread. *)
ResetSound ==
  /\ pc["cpu"] = "idle" /\ mutex = NoOne /\ resets < MaxResets
  /\ sound_buffer_base' = 0
  /\ gbc_sound_buffer_index' = 0
  /\ unplayed' = {}
  /\ resets' = resets + 1
  /\ stranded' = FALSE
  /\ in_step' = synchronize_flag
  /\ UNCHANGED <<pc, mutex, waiting, synchronize_flag, step, stream>>

(* sound_read_savestate under load_state's lock: both positions come from  *)
(* the file, the ring's contents stay, nobody is signalled.                *)
LoadState(r) ==
  /\ pc["cpu"] = "idle" /\ mutex = NoOne /\ resets < MaxResets
  /\ sound_buffer_base' = r[1]
  /\ gbc_sound_buffer_index' = r[2]
  /\ resets' = resets + 1
  /\ stranded' = ("audio" \in waiting /\ FillOf(r[1], r[2]) > HighWater)
  /\ in_step' = FALSE
  /\ UNCHANGED <<pc, mutex, waiting, synchronize_flag, step, unplayed, stream>>

-------------------------------------------------------------------------------
(* The audio thread. *)

(* SDL calls sound_callback. *)
BeginCallback ==
  /\ pc["audio"] = "idle"
  /\ pc' = [pc EXCEPT !["audio"] = "lock"]
  /\ stream' = Untouched
  /\ UNCHANGED <<mutex, waiting, synchronize_flag, sound_buffer_base,
                 gbc_sound_buffer_index, step, unplayed, resets, stranded, in_step>>

(* Mutants: the byte length compared as if a slot were two bytes or one. *)
TooLittleHalved == Fill < sample_length
TooLittleDoubled == Fill < 2 * audio_buffer_size

TooLittle == Fill < audio_buffer_size

AudioWait == pc["audio"] = "check" /\ TooLittle /\ CondWait("audio")

(* Whether the callback's samples reach to the end of the ring or beyond. *)
Straddles == sound_buffer_base + sample_length >= BUFFER_SIZE

(* Mutant: the seam is one slot early. *)
SeamTooEarly == IF Straddles THEN BUFFER_SIZE - sound_buffer_base - 1
                             ELSE sample_length

(* The callback's samples lie in one piece from the base on, or in two: up *)
(* to the end of the ring, and the remainder from its start.               *)
FirstPiece == IF Straddles THEN BUFFER_SIZE - sound_buffer_base
                           ELSE sample_length
Remainder  == sample_length - FirstPiece

(* Mutant: the remainder is copied but not cleared. *)
ClearedFirst == {sound_buffer_base + i : i \in 0 .. FirstPiece - 1}

(* The slots sound_copy zeroes. *)
Cleared == {sound_buffer_base + i : i \in 0 .. FirstPiece - 1}
           \cup (0 .. Remainder - 1)

(* sound_copy of n slots; it always writes from the start of the stream. *)
Copy(from, n, to) == [i \in 0 .. sample_length - 1 |->
                        IF i < n THEN from + i ELSE to[i]]

(* Copy and clear a callback's worth, signal, release the mutex. *)
Play ==
  /\ pc["audio"] = "check"
  /\ ~TooLittle
  /\ unplayed' = unplayed \ Cleared
  /\ stream' = Copy(0, Remainder, Copy(sound_buffer_base, FirstPiece, stream))
  /\ sound_buffer_base' = IF Straddles THEN Remainder
                          ELSE sound_buffer_base + sample_length
  /\ CondSignal
  /\ mutex' = NoOne
  /\ pc' = [pc EXCEPT !["audio"] = "idle"]
  /\ UNCHANGED <<synchronize_flag, gbc_sound_buffer_index, step, resets, stranded,
                 in_step>>

-------------------------------------------------------------------------------
CpuNext ==
  \/ \E k \in Steps : BeginUpdate(k)
  \/ LockMutex("cpu")
  \/ CpuWait
  \/ Render
  \/ Publish
  \/ ToggleSync
  \/ ResetSound
  \/ \E r \in SavedRings : LoadState(r)

AudioNext ==
  \/ BeginCallback
  \/ LockMutex("audio")
  \/ AudioWait
  \/ Play

Next == CpuNext \/ AudioNext

Spec == Init /\ [][Next]_vars

(* A frame of emulated time always comes, so updates that carry samples    *)
(* keep coming; SDL keeps asking for samples; a started handler runs on    *)
(* whenever it can.  The mutex itself is only weakly fair.                 *)
Fairness ==
  /\ SF_vars(\E k \in Steps \ {0} : BeginUpdate(k))
  /\ WF_vars(LockMutex("cpu"))
  /\ WF_vars(CpuWait)
  /\ WF_vars(Render)
  /\ WF_vars(Publish)
  /\ WF_vars(BeginCallback)
  /\ WF_vars(LockMutex("audio"))
  /\ WF_vars(AudioWait)
  /\ WF_vars(Play)

FairSpec == Spec /\ Fairness

-------------------------------------------------------------------------------
(* The type invariant. *)
TypeOK ==
  /\ pc \in [Threads -> {"idle", "lock", "check", "waiting", "publish"}]
  /\ mutex \in Threads \cup {NoOne}
  /\ waiting \subseteq Threads
  /\ synchronize_flag \in BOOLEAN
  /\ sound_buffer_base \in Slots
  /\ gbc_sound_buffer_index \in Slots
  /\ step \in Steps
  /\ unplayed \subseteq Slots
  /\ stream \in [0 .. sample_length - 1 -> Slots \cup {NoSlot}]
  /\ resets \in Nat
  /\ stranded \in BOOLEAN /\ in_step \in BOOLEAN

(* The two threads never sleep on the condition variable together, for     *)
(* nobody would be left to signal it, although update_gbc_sound signals    *)
(* before the samples it announces are published.  The one exception is a  *)
(* savestate loaded while the audio thread sleeps, with more samples than  *)
(* the high water: load_state signals nobody.                              *)
NoMutualWait == waiting = Threads => stranded

(* No wakeup is missed by the emulation thread: while it sleeps in         *)
(* update_gbc_sound the reason to sleep still holds, through resets, state *)
(* loads and fast-forward.                                                 *)
NoMissedWakeup == "cpu" \in waiting => TooFarAhead

(* The slots that hold unplayed samples are exactly the published ones,    *)
(* plus those of an update that rendered and has yet to publish, wherever  *)
(* the end of the ring cuts a callback in two.  Fails as soon as one       *)
(* side's wrap-around disagrees with the other's.                          *)
UnplayedIsPublished ==
  in_step => unplayed = Region(sound_buffer_base,
                               Fill + (IF pc["cpu"] = "publish" THEN step ELSE 0))

(* An update mixes (with +=) only into slots the audio thread has played   *)
(* and cleared, never on top of samples still waiting to be played.        *)
MixesIntoClearSlots ==
  [][in_step /\ pc["cpu"] = "check" /\ pc'["cpu"] = "publish"
     => Region(gbc_sound_buffer_index, step) \cap unplayed = {}]_vars

(* SDL is handed each published sample at most once and nothing else: what *)
(* a callback's two copies leave in the stream was waiting to be played,   *)
(* and no longer is.  Not at least once: where the end of the ring cuts a  *)
(* callback in two, both copies write from the start of the stream, so     *)
(* that the second overwrites samples of the first that are cleared all    *)
(* the same, and the end of the stream stays unwritten.                    *)
PlayedOnce ==
  [][in_step /\ pc["audio"] = "check" /\ pc'["audio"] = "idle"
     => \A i \in DOMAIN stream' :
          stream'[i] # NoSlot => stream'[i] \in unplayed \ unplayed']_vars

(* A callback that asked for samples gets them once the emulator stays     *)
(* synchronised, unless a load left it stranded for good.                  *)
CallbackServed ==
  <>[]synchronize_flag /\ []<>~stranded
  => (pc["audio"] = "lock" ~> pc["audio"] = "idle")

(* The emulation thread gets through every update_gbc_sound it enters,     *)
(* unless a load left the audio thread stranded for good.                  *)
UpdateCompletes ==
  []<>~stranded => (pc["cpu"] = "lock" ~> pc["cpu"] = "idle")

(* The ring implements a bounded pipe of samples.  Fast-forwarding or a    *)
(* loaded savestate discards what the pipe held, and until the next reset  *)
(* nothing is promised of the ring.                                        *)
Pipe == INSTANCE SamplePipe
          WITH Capacity <- BUFFER_SIZE - 1,
               Chunk    <- sample_length,
               Reserve  <- audio_buffer_size,
               queued   <- IF in_step THEN Fill ELSE 0

(* sound.c's ring implements the pipe. *)
PipeSpec == Pipe!LiveSpec

===============================================================================
