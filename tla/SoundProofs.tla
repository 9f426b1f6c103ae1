----------------------------- MODULE SoundProofs -----------------------------
(***************************************************************************)
(* Proofs about the sound ring (SoundRing) and about the devices behind    *)
(* the I/O registers (IoDevices), the GBC sound channels first among them. *)
(*                                                                         *)
(* SoundRing, for every ring size, buffer size and step that its           *)
(* assumptions admit: NoMutualWait is not inductive.  What makes it so is  *)
(* how much the ring can hold while the audio thread sleeps (Drowsy): it   *)
(* fell asleep with less than a callback's worth, one unannounced Publish  *)
(* later there is still no more than the high water, and the next Render   *)
(* wakes it.  Only StepAssumption makes the second half true.  A loaded    *)
(* savestate may break it, until the next Render or reset (stranded).      *)
(*                                                                         *)
(* IoDevices, for every set of registers, every content and any number of  *)
(* stores: EnvelopeNeverWraps is not inductive, since a trigger takes the  *)
(* count and the volume from the ones a store left for it.  IoInv says     *)
(* that those are in range, and that the registers are halfwords, so that  *)
(* what a byte store makes of one is a halfword again.  Every store takes  *)
(* the bits the hardware reports from the register (Kept).                 *)
(*                                                                         *)
(* A store's effects are all overwritten by another store to the same      *)
(* register (the lemmas named ...Twice), the two halves of a trigger's     *)
(* control register apart: that is why a register can be stored a byte at  *)
(* a time (WidthsAlwaysAgree).                                             *)
(***************************************************************************)
EXTENDS SoundRing, IoDevices, TLAPS

-----------------------------------------------------------------------------
(* The ring. *)

(* Who holds the mutex is where it says it is, and sleepers are waiting. *)
Control ==
  /\ \A t \in Threads : pc[t] = "check" <=> mutex = t
  /\ \A t \in waiting : pc[t] = "waiting"
  /\ pc["audio"] # "publish"

Drowsy ==
  "audio" \in waiting /\ ~stranded =>
    IF pc["cpu"] = "publish" THEN Fill < audio_buffer_size
                             ELSE Fill <= HighWater

IInv == TypeOK /\ Control /\ Drowsy /\ NoMissedWakeup

-----------------------------------------------------------------------------
(* Wrap brings every sum the code forms back into the ring. *)
LEMMA WrapInRing ==
  ASSUME NEW x \in Nat, x < 2 * BUFFER_SIZE
  PROVE  Wrap(x) \in Slots
BY SizeAssumption DEF Wrap, Slots

(* Slots are numbers. *)
LEMMA SlotsAreNat ==
  ASSUME NEW x \in Slots
  PROVE  x \in Nat
BY SizeAssumption DEF Slots

(* The fill is a number of slots below the ring's size. *)
LEMMA FillInRange ==
  ASSUME NEW b \in Slots, NEW i \in Slots
  PROVE  FillOf(b, i) \in Slots
BY SizeAssumption DEF FillOf, Wrap, Slots

(* Regions lie in the ring. *)
LEMMA RegionInRing ==
  ASSUME NEW f \in Slots, NEW n \in Nat, n <= BUFFER_SIZE
  PROVE  Region(f, n) \subseteq Slots
BY SizeAssumption DEF Region, Wrap, Slots

(* Advancing the index by what fits adds that much to the fill. *)
LEMMA FillAfterPublish ==
  ASSUME NEW b \in Slots, NEW i \in Slots, NEW k \in Nat,
         FillOf(b, i) + k < BUFFER_SIZE
  PROVE  FillOf(b, Wrap(i + k)) = FillOf(b, i) + k
BY SizeAssumption DEF FillOf, Wrap, Slots

(* Advancing the base by what is there takes that much from the fill. *)
LEMMA FillAfterPlay ==
  ASSUME NEW b \in Slots, NEW i \in Slots, NEW n \in Nat,
         n <= FillOf(b, i)
  PROVE  FillOf(Wrap(b + n), i) = FillOf(b, i) - n
BY SizeAssumption DEF FillOf, Wrap, Slots

(* The derived sizes are ordered as the argument needs them. *)
LEMMA Sizes ==
  /\ HighWater \in Nat /\ sample_length \in Nat
  /\ sample_length <= audio_buffer_size
  /\ audio_buffer_size <= HighWater
  /\ audio_buffer_size + MaxStep <= HighWater + 1
  /\ HighWater + MaxStep < BUFFER_SIZE
BY SizeAssumption, StepAssumption DEF HighWater, sample_length

LEMMA StepsAreNat == Steps \subseteq 0 .. MaxStep /\ 0 \in Steps
BY SizeAssumption DEF Steps

(* The two pieces of a callback are the region it plays, and the base ends *)
(* up behind it.                                                           *)
LEMMA PiecesMakeRegion ==
  ASSUME sound_buffer_base \in Slots
  PROVE  /\ Cleared = Region(sound_buffer_base, sample_length)
         /\ (IF Straddles THEN Remainder ELSE sound_buffer_base + sample_length)
            = Wrap(sound_buffer_base + sample_length)
<1> USE DEF Slots
<1>sizes. /\ BUFFER_SIZE \in Nat /\ sample_length \in Nat /\ sample_length < BUFFER_SIZE
  BY SizeAssumption, Sizes
<1>1. CASE Straddles
  <2>1. FirstPiece = BUFFER_SIZE - sound_buffer_base
    BY <1>1 DEF FirstPiece
  <2>2. Remainder = sample_length - (BUFFER_SIZE - sound_buffer_base)
    BY <2>1 DEF Remainder
  <2>3. sound_buffer_base + sample_length >= BUFFER_SIZE
    BY <1>1 DEF Straddles
  <2>4. Remainder = Wrap(sound_buffer_base + sample_length)
    BY <2>2, <2>3, <1>sizes DEF Wrap
  <2>5. \A x : x \in Cleared <=> x \in Region(sound_buffer_base, sample_length)
    <3>1. ASSUME NEW i \in 0 .. FirstPiece - 1
          PROVE  i \in 0 .. sample_length - 1 /\ Wrap(sound_buffer_base + i) = sound_buffer_base + i
      BY <2>1, <2>3, <1>sizes DEF Wrap
    <3>2. ASSUME NEW x \in 0 .. Remainder - 1
          PROVE  \E i \in 0 .. sample_length - 1 : x = Wrap(sound_buffer_base + i)
      <4>1. FirstPiece + x \in 0 .. sample_length - 1
            /\ x = Wrap(sound_buffer_base + (FirstPiece + x))
        BY <2>1, <2>2, <2>3, <1>sizes DEF Wrap
      <4>. QED
        BY <4>1
    <3>3. ASSUME NEW i \in 0 .. sample_length - 1
          PROVE  \/ i \in 0 .. FirstPiece - 1 /\ Wrap(sound_buffer_base + i) = sound_buffer_base + i
                 \/ Wrap(sound_buffer_base + i) \in 0 .. Remainder - 1
      BY <2>1, <2>2, <2>3, <1>sizes DEF Wrap
    <3>. QED
      BY <3>1, <3>2, <3>3 DEF Cleared, Region
  <2>. QED
    BY <1>1, <2>4, <2>5
<1>2. CASE ~Straddles
  <2>1. FirstPiece = sample_length /\ Remainder = 0
    BY <1>2, <1>sizes DEF FirstPiece, Remainder
  <2>2. sound_buffer_base + sample_length < BUFFER_SIZE
    BY <1>2, <1>sizes DEF Straddles
  <2>3. \A i \in 0 .. sample_length - 1 : Wrap(sound_buffer_base + i) = sound_buffer_base + i
    BY <2>2, <1>sizes DEF Wrap
  <2>4. sound_buffer_base + sample_length = Wrap(sound_buffer_base + sample_length)
    BY <2>2, <1>sizes DEF Wrap
  <2>5. Cleared = {sound_buffer_base + i : i \in 0 .. sample_length - 1}
    BY <2>1 DEF Cleared
  <2>. QED
    BY <1>2, <2>3, <2>4, <2>5 DEF Region
<1>. QED
  BY <1>1, <1>2

(* What Play leaves in the ring and where the base goes. *)
LEMMA PlayedRegion ==
  ASSUME Play, sound_buffer_base \in Slots
  PROVE  /\ unplayed' = unplayed \ Region(sound_buffer_base, sample_length)
         /\ sound_buffer_base' = Wrap(sound_buffer_base + sample_length)
BY PiecesMakeRegion DEF Play

(* A callback's copies leave slots in the stream, or what was there.        *)
LEMMA CopyIsStream ==
  ASSUME sound_buffer_base \in Slots,
         stream \in [0 .. sample_length - 1 -> Slots \cup {NoSlot}]
  PROVE  Copy(0, Remainder, Copy(sound_buffer_base, FirstPiece, stream))
           \in [0 .. sample_length - 1 -> Slots \cup {NoSlot}]
<1>sizes. /\ BUFFER_SIZE \in Nat /\ sample_length \in Nat /\ sample_length < BUFFER_SIZE
  BY SizeAssumption, Sizes
<1>1. FirstPiece \in Nat /\ sound_buffer_base + FirstPiece <= BUFFER_SIZE
  BY <1>sizes DEF FirstPiece, Straddles, Slots
<1>2. Remainder \in Int /\ Remainder <= sample_length
  BY <1>sizes, <1>1 DEF Remainder
<1>3. ASSUME NEW i \in 0 .. sample_length - 1
      PROVE  /\ i < FirstPiece => sound_buffer_base + i \in Slots
             /\ i < Remainder => 0 + i \in Slots
  BY <1>sizes, <1>1, <1>2 DEF Slots
<1>. QED
  BY <1>3 DEF Copy

(* A signal only ever shrinks the set of sleepers, and wakes the one       *)
(* sleeper there is.                                                       *)
LEMMA SignalWakes ==
  ASSUME waiting \subseteq Threads, CondSignal
  PROVE  /\ waiting' \subseteq waiting
         /\ \A t \in Threads : waiting \subseteq {t} => waiting' = {}
BY DEF CondSignal

-----------------------------------------------------------------------------
LEMMA InitIInv == Init => IInv
<1> SUFFICES ASSUME Init PROVE IInv
  OBVIOUS
<1>1. BUFFER_SIZE > 0
  BY SizeAssumption, Sizes
<1>2. TypeOK
  <2>1. stream \in [0 .. sample_length - 1 -> Slots \cup {NoSlot}]
    BY DEF Init, Untouched
  <2>2. 0 \in Slots /\ 0 \in Steps /\ step = 0 /\ unplayed = {}
    BY <1>1, StepsAreNat, SizeAssumption DEF Init, Slots
  <2>3. /\ pc \in [Threads -> {"idle", "lock", "check", "waiting", "publish"}]
        /\ mutex \in Threads \cup {NoOne} /\ waiting \subseteq Threads
    BY DEF Init
  <2>4. /\ synchronize_flag \in BOOLEAN /\ resets \in Nat
        /\ stranded \in BOOLEAN /\ in_step \in BOOLEAN
        /\ sound_buffer_base \in Slots /\ gbc_sound_buffer_index \in Slots
    BY <2>2 DEF Init
  <2>. QED
    BY <2>1, <2>2, <2>3, <2>4 DEF TypeOK
<1>3. Control
  BY DEF Init, Control, Threads, NoOne
<1>. QED
  BY <1>2, <1>3 DEF IInv, Drowsy, NoMissedWakeup, Init

(* Type correctness, one step per action. *)
LEMMA TypeStep == TypeOK /\ [Next]_vars => TypeOK'
<1> SUFFICES ASSUME TypeOK, [Next]_vars PROVE TypeOK'
  OBVIOUS
<1> USE DEF TypeOK
<1>1. ASSUME NEW k \in Steps, BeginUpdate(k) PROVE TypeOK'
  BY <1>1 DEF BeginUpdate, Threads
<1>2. ASSUME NEW t \in Threads, LockMutex(t) PROVE TypeOK'
  BY <1>2 DEF LockMutex, Threads
<1>3. ASSUME NEW t \in Threads, CondWait(t) PROVE TypeOK'
  BY <1>3 DEF CondWait, Threads
<1>4. CASE Render
  <2>1. Region(gbc_sound_buffer_index, step) \subseteq Slots
    BY RegionInRing, StepsAreNat, SizeAssumption, Sizes
  <2>2. waiting' \subseteq Threads
    BY <1>4, SignalWakes DEF Render
  <2>. QED
    BY <1>4, <2>1, <2>2 DEF Render, Threads
<1>5. CASE Publish
  <2>1. Wrap(gbc_sound_buffer_index + step) \in Slots
    BY WrapInRing, StepsAreNat, SizeAssumption, Sizes DEF Slots
  <2>. QED
    BY <1>5, <2>1, StepsAreNat DEF Publish, Threads
<1>6. CASE ToggleSync
  BY <1>6 DEF ToggleSync
<1>7. CASE ResetSound
  <2>1. 0 \in Slots
    BY SizeAssumption, Sizes DEF Slots
  <2>2. unplayed' \subseteq Slots /\ resets' \in Nat
    BY <1>7 DEF ResetSound
  <2>3. sound_buffer_base' \in Slots /\ gbc_sound_buffer_index' \in Slots
    BY <1>7, <2>1 DEF ResetSound
  <2>. QED
    BY <1>7, <2>2, <2>3 DEF ResetSound
<1>8. ASSUME NEW r \in SavedRings, LoadState(r) PROVE TypeOK'
  <2>1. sound_buffer_base' \in Slots /\ gbc_sound_buffer_index' \in Slots
    BY <1>8, SavedAssumption DEF LoadState
  <2>2. resets' \in Nat
    BY <1>8 DEF LoadState
  <2>3. stranded' \in BOOLEAN /\ in_step' \in BOOLEAN
    BY <1>8 DEF LoadState
  <2>. QED
    BY <1>8, <2>1, <2>2, <2>3 DEF LoadState
<1>9. CASE BeginCallback
  <2>1. stream' \in [0 .. sample_length - 1 -> Slots \cup {NoSlot}]
    BY <1>9 DEF BeginCallback, Untouched
  <2>. QED
    BY <1>9, <2>1 DEF BeginCallback, Threads
<1>10. CASE Play
  <2>1. sound_buffer_base' \in Slots
    BY <1>10, PlayedRegion, WrapInRing, Sizes, SizeAssumption DEF Slots
  <2>2. waiting' \subseteq Threads
    BY <1>10, SignalWakes DEF Play
  <2>3. stream' \in [0 .. sample_length - 1 -> Slots \cup {NoSlot}]
    BY <1>10, CopyIsStream DEF Play
  <2>. QED
    BY <1>10, <2>1, <2>2, <2>3 DEF Play, Threads
<1>11. CASE UNCHANGED vars
  BY <1>11 DEF vars
<1>. QED
  BY <1>1, <1>2, <1>3, <1>4, <1>5, <1>6, <1>7, <1>8, <1>9, <1>10, <1>11
     DEF Next, CpuNext, AudioNext, CpuWait, AudioWait, Threads, CondWait

(* The sound ring's variables always have their types. *)
THEOREM TypeCorrect == Spec => []TypeOK
<1>1. Init => TypeOK
  BY InitIInv DEF IInv
<1>. QED
  BY <1>1, TypeStep, PTL DEF Spec

-----------------------------------------------------------------------------
(* Control and the two sleeping conditions, one step per action. *)
LEMMA SleepStep == IInv /\ [Next]_vars => Control' /\ Drowsy' /\ NoMissedWakeup'
<1> SUFFICES ASSUME IInv, [Next]_vars
             PROVE  Control' /\ Drowsy' /\ NoMissedWakeup'
  OBVIOUS
<1> DEFINE Goal == Control' /\ Drowsy' /\ NoMissedWakeup'
<1> USE DEF IInv
<1>types. TypeOK /\ Fill \in Slots
  BY FillInRange DEF TypeOK, Fill
<1>1. ASSUME NEW k \in Steps, BeginUpdate(k) PROVE Goal
  <2>1. Fill' = Fill
    BY <1>1 DEF BeginUpdate, Fill
  <2>2. Control'
    BY <1>1, <1>types DEF BeginUpdate, Control, TypeOK, Threads
  <2>. QED
    BY <1>1, <2>1, <2>2, <1>types
       DEF BeginUpdate, Drowsy, NoMissedWakeup, TooFarAhead, TypeOK, Threads
<1>2. ASSUME NEW t \in Threads, LockMutex(t) PROVE Goal
  <2>1. Fill' = Fill
    BY <1>2 DEF LockMutex, Fill
  <2>2. Control'
    BY <1>2, <1>types DEF LockMutex, Control, TypeOK, Threads, NoOne
  <2>. QED
    BY <1>2, <2>1, <2>2, <1>types
       DEF LockMutex, Drowsy, NoMissedWakeup, TooFarAhead, TypeOK, Threads
<1>3. CASE CpuWait
  <2>1. Fill' = Fill /\ TooFarAhead'
    BY <1>3 DEF CpuWait, CondWait, Fill, TooFarAhead
  <2>2. "audio" \notin waiting \/ stranded
    BY <1>3, <1>types, Sizes DEF CpuWait, Drowsy, TooFarAhead, Slots
  <2>3. Control'
    BY <1>3, <1>types DEF CpuWait, CondWait, Control, TypeOK, Threads, NoOne
  <2>. QED
    BY <1>3, <2>1, <2>2, <2>3 DEF CpuWait, CondWait, Drowsy, NoMissedWakeup
<1>4. CASE Render
  <2>1. waiting \subseteq {"audio"}
    BY <1>4, <1>types DEF Render, Control, TypeOK, Threads
  <2>2. waiting' = {}
    BY <1>4, <1>types, <2>1, SignalWakes DEF Render, Threads, TypeOK
  <2>3. Control'
    BY <1>4, <1>types, <2>2 DEF Render, Control, TypeOK, Threads, NoOne
  <2>. QED
    BY <2>2, <2>3 DEF Drowsy, NoMissedWakeup
<1>5. CASE Publish
  <2>1. step \in Nat /\ step <= MaxStep
    BY <1>types, StepsAreNat, SizeAssumption DEF TypeOK
  <2>2. Control'
    BY <1>5, <1>types DEF Publish, Control, TypeOK, Threads, NoOne
  <2>3. NoMissedWakeup'
    BY <1>5 DEF Publish, NoMissedWakeup, Control
  <2>4. ASSUME "audio" \in waiting, ~stranded PROVE Fill' <= HighWater
    <3>1. Fill < audio_buffer_size
      BY <1>5, <2>4 DEF Publish, Drowsy
    <3>2. Fill + step < BUFFER_SIZE /\ Fill + step <= HighWater
      BY <3>1, <2>1, <1>types, Sizes, SizeAssumption DEF Slots
    <3>3. Fill' = Fill + step
      BY <1>5, <3>2, <2>1, <1>types, FillAfterPublish DEF Publish, Fill, TypeOK
    <3>. QED
      BY <3>2, <3>3
  <2>. QED
    BY <1>5, <2>2, <2>3, <2>4, <1>types DEF Publish, Drowsy, TypeOK, Threads
<1>6. CASE ToggleSync
  <2>1. "cpu" \notin waiting
    BY <1>6 DEF ToggleSync, Control
  <2>. QED
    BY <1>6, <2>1 DEF ToggleSync, Control, Drowsy, NoMissedWakeup, Fill
<1>7. CASE ResetSound
  <2>1. Fill' = 0
    BY <1>7, SizeAssumption, Sizes DEF ResetSound, Fill, FillOf, Wrap
  <2>2. "cpu" \notin waiting
    BY <1>7 DEF ResetSound, Control
  <2>. QED
    BY <1>7, <2>1, <2>2, Sizes DEF ResetSound, Control, Drowsy, NoMissedWakeup
<1>8. ASSUME NEW r \in SavedRings, LoadState(r) PROVE Goal
  <2>1. "audio" \in waiting /\ ~stranded' => Fill' <= HighWater
    <3>1. FillOf(r[1], r[2]) \in Slots /\ Fill' = FillOf(r[1], r[2])
      BY <1>8, SavedAssumption, FillInRange DEF LoadState, Fill
    <3>2. "audio" \in waiting /\ ~stranded' => ~(FillOf(r[1], r[2]) > HighWater)
      BY <1>8 DEF LoadState
    <3>. QED
      BY <3>1, <3>2, Sizes DEF Slots
  <2>2. "cpu" \notin waiting
    BY <1>8 DEF LoadState, Control
  <2>. QED
    BY <1>8, <2>1, <2>2 DEF LoadState, Control, Drowsy, NoMissedWakeup
<1>9. CASE BeginCallback
  <2>1. Fill' = Fill
    BY <1>9 DEF BeginCallback, Fill
  <2>2. Control'
    BY <1>9, <1>types DEF BeginCallback, Control, TypeOK, Threads
  <2>. QED
    BY <1>9, <2>1, <2>2, <1>types
       DEF BeginCallback, Drowsy, NoMissedWakeup, TooFarAhead, TypeOK, Threads
<1>10. CASE AudioWait
  <2>1. Fill' = Fill /\ Fill < audio_buffer_size
    BY <1>10 DEF AudioWait, CondWait, Fill, TooLittle
  <2>2. "cpu" \notin waiting
    BY <2>1, <1>types, Sizes, SizeAssumption DEF NoMissedWakeup, TooFarAhead, Slots
  <2>3. Control'
    BY <1>10, <1>types DEF AudioWait, CondWait, Control, TypeOK, Threads, NoOne
  <2>4. Drowsy'
    BY <2>1, <1>types, Sizes, SizeAssumption DEF Drowsy, Slots
  <2>. QED
    BY <1>10, <2>2, <2>3, <2>4 DEF AudioWait, CondWait, NoMissedWakeup
<1>11. CASE Play
  <2>1. waiting \subseteq {"cpu"}
    BY <1>11, <1>types DEF Play, Control, TypeOK, Threads
  <2>2. waiting' = {}
    BY <1>11, <1>types, <2>1, SignalWakes DEF Play, Threads, TypeOK
  <2>3. Control'
    BY <1>11, <1>types, <2>2 DEF Play, Control, TypeOK, Threads, NoOne
  <2>. QED
    BY <2>2, <2>3 DEF Drowsy, NoMissedWakeup
<1>12. CASE UNCHANGED vars
  BY <1>12 DEF vars, Control, Drowsy, NoMissedWakeup, TooFarAhead, Fill
<1>. QED
  BY <1>1, <1>2, <1>3, <1>4, <1>5, <1>6, <1>7, <1>8, <1>9, <1>10, <1>11, <1>12
     DEF Next, CpuNext, AudioNext, Threads

LEMMA IInvStep == IInv /\ [Next]_vars => IInv'
BY TypeStep, SleepStep DEF IInv

(* The emulation thread and the audio thread never sleep on the condition  *)
(* variable together, unless a savestate above the high water was loaded   *)
(* while the audio thread slept, and nothing has woken it since.           *)
THEOREM NeverAsleepTogether == Spec => []NoMutualWait
<1>1. IInv => NoMutualWait
  <2> SUFFICES ASSUME IInv, waiting = Threads, ~stranded PROVE FALSE
    BY DEF NoMutualWait
  <2>1. pc["cpu"] = "waiting" /\ TooFarAhead /\ Fill <= HighWater
    BY DEF IInv, Control, Drowsy, NoMissedWakeup, Threads
  <2>2. Fill \in Slots
    BY FillInRange DEF IInv, TypeOK, Fill
  <2>. QED
    BY <2>1, <2>2, Sizes DEF TooFarAhead, Slots
<1>. QED
  BY InitIInv, IInvStep, <1>1, PTL DEF Spec

(* No wakeup of the emulation thread is missed. *)
THEOREM WakeupsArrive == Spec => []NoMissedWakeup
<1>1. IInv => NoMissedWakeup
  BY DEF IInv
<1>. QED
  BY InitIInv, IInvStep, <1>1, PTL DEF Spec

-----------------------------------------------------------------------------
(* The ring implements the pipe.  What has to be kept between Render and   *)
(* Publish, when the mutex is free, is that the update still fits.         *)
Fits ==
  in_step => synchronize_flag /\ (pc["cpu"] = "publish" => Fill <= HighWater)

SInv == TypeOK /\ Fits

(* A ring out of step stays so through all steps but a reset.              *)
LEMMA OutOfStep ==
  ASSUME ~in_step, [Next]_vars
  PROVE  ResetSound \/ ~in_step'
BY DEF Next, CpuNext, AudioNext, vars, BeginUpdate, LockMutex, CpuWait, Render, Publish,
       ToggleSync, LoadState, BeginCallback, AudioWait, CondWait, Play

(* Every step keeps Fits and is a step of the pipe or leaves it alone.     *)
LEMMA PipeStep ==
  ASSUME SInv, [Next]_vars
  PROVE  Fits' /\ (Pipe!Next \/ UNCHANGED (IF in_step THEN Fill ELSE 0))
<1> DEFINE Goal == Fits' /\ (Pipe!Next \/ UNCHANGED (IF in_step THEN Fill ELSE 0))
<1> USE DEF SInv
<1>types. TypeOK /\ Fill \in Slots
  BY FillInRange DEF TypeOK, Fill
<1>0. ASSUME ~in_step, ~in_step' PROVE Goal
  BY <1>0 DEF Fits
<1>1. ASSUME in_step, NEW k \in Steps, BeginUpdate(k) PROVE Goal
  BY <1>1, <1>types DEF BeginUpdate, Fits, Fill, TypeOK, Threads
<1>2. ASSUME in_step, NEW t \in Threads, LockMutex(t) \/ CondWait(t) PROVE Goal
  <2>1. Fill' = Fill /\ in_step' /\ synchronize_flag' = synchronize_flag
    BY <1>2 DEF LockMutex, CondWait, Fill
  <2>2. pc'["cpu"] = "publish" => pc["cpu"] = "publish"
    BY <1>2, <1>types DEF LockMutex, CondWait, TypeOK, Threads
  <2>3. Fits'
    BY <1>2, <2>1, <2>2 DEF Fits
  <2>. QED
    BY <1>2, <2>1, <2>3
<1>3. CASE in_step /\ Render
  <2>1. Fill' = Fill /\ Fill <= HighWater
    BY <1>3, <1>types, Sizes DEF Render, Fits, TooFarAhead, Fill, Slots
  <2>. QED
    BY <1>3, <2>1, <1>types DEF Render, Fits, TypeOK, Threads
<1>4. CASE in_step /\ Publish
  <2>1. step \in Nat /\ step <= MaxStep
    BY <1>types, StepsAreNat, SizeAssumption DEF TypeOK
  <2>2. Fill + step < BUFFER_SIZE
    BY <1>4, <2>1, <1>types, Sizes, SizeAssumption DEF Publish, Fits, Slots
  <2>3. Fill' = Fill + step
    BY <1>4, <2>1, <2>2, <1>types, FillAfterPublish DEF Publish, Fill, TypeOK
  <2>4. Fill' \in Fill .. BUFFER_SIZE - 1
    BY <2>1, <2>2, <2>3, <1>types, SizeAssumption DEF Slots
  <2>5. in_step /\ in_step'
    BY <1>4 DEF Publish
  <2>6. Fits'
    BY <1>4, <1>types DEF Publish, Fits, TypeOK, Threads
  <2>. QED
    BY <2>4, <2>5, <2>6 DEF Pipe!Next, Pipe!Put
<1>5. CASE ResetSound
  <2>1. Fill' = 0
    BY <1>5, SizeAssumption, Sizes DEF ResetSound, Fill, FillOf, Wrap
  <2>2. Fits'
    BY <1>5, <2>1, Sizes DEF ResetSound, Fits
  <2>. QED
    BY <2>1, <2>2 DEF Pipe!Next, Pipe!Discard
<1>6. CASE in_step /\ BeginCallback
  BY <1>6, <1>types DEF BeginCallback, Fits, Fill, TypeOK, Threads
<1>7. CASE in_step /\ Play
  <2>1. Fill >= audio_buffer_size /\ sample_length <= Fill
    BY <1>7, <1>types, Sizes, SizeAssumption DEF Play, TooLittle, Slots
  <2>2. Fill' = Fill - sample_length
    BY <1>7, <2>1, <1>types, Sizes, FillAfterPlay, PlayedRegion DEF Play, Fill, TypeOK
  <2>3. in_step /\ in_step'
    BY <1>7 DEF Play
  <2>4. Fits'
    BY <1>7, <2>1, <2>2, <1>types, Sizes DEF Play, Fits, TypeOK, Threads, Slots
  <2>. QED
    BY <2>1, <2>2, <2>3, <2>4 DEF Pipe!Next, Pipe!Take
<1>8. ASSUME ToggleSync \/ \E r \in SavedRings : LoadState(r) PROVE Goal
  <2>1. ~in_step'
    BY <1>8 DEF ToggleSync, LoadState
  <2>. QED
    BY <2>1 DEF Fits, Pipe!Next, Pipe!Discard
<1>9. CASE UNCHANGED vars
  BY <1>9 DEF vars, Fits, Fill
<1>10. CASE ~in_step
  BY <1>10, <1>0, <1>5, OutOfStep
<1>11. CASE in_step
  BY <1>11, <1>1, <1>2, <1>3, <1>4, <1>5, <1>6, <1>7, <1>8, <1>9
     DEF Next, CpuNext, AudioNext, CpuWait, AudioWait, Threads
<1>. QED
  BY <1>10, <1>11

(* From power-on and from every reset until the user fast-forwards or      *)
(* loads a state, the ring is a bounded pipe: updates never overrun what   *)
(* is unplayed, callbacks never play what is not there.                    *)
THEOREM RingIsPipe == Spec => Pipe!Spec
<1>1. Init => SInv /\ Pipe!Init
  <2>1. Init => Fill = 0
    BY Sizes, SizeAssumption DEF Init, Fill, FillOf, Wrap
  <2>. QED
    BY <2>1, InitIInv DEF Init, IInv, SInv, Fits, Pipe!Init, Threads
<1>2. SInv /\ [Next]_vars => SInv'
  BY TypeStep, PipeStep DEF SInv
<1>3. SInv /\ [Next]_vars => [Pipe!Next]_(IF in_step THEN Fill ELSE 0)
  BY PipeStep
<1>. QED
  BY <1>1, <1>2, <1>3, PTL DEF Spec, Pipe!Spec

-----------------------------------------------------------------------------
(* What a slot's distance from the base says about regions: with it, facts  *)
(* about sets of slots become arithmetic.                                  *)
LEMMA RegionByDistance ==
  ASSUME NEW b \in Slots, NEW n \in Nat, n <= BUFFER_SIZE
  PROVE  Region(b, n) = {x \in Slots : FillOf(b, x) < n}
<1>1. ASSUME NEW i \in 0 .. n - 1
      PROVE  Wrap(b + i) \in Slots /\ FillOf(b, Wrap(b + i)) = i
  BY SizeAssumption DEF FillOf, Wrap, Slots
<1>2. ASSUME NEW x \in Slots, FillOf(b, x) < n
      PROVE  FillOf(b, x) \in 0 .. n - 1 /\ x = Wrap(b + FillOf(b, x))
  BY <1>2, SizeAssumption DEF FillOf, Wrap, Slots
<1>. QED
  BY <1>1, <1>2 DEF Region

(* A region that starts where another ends continues it and is apart from it. *)
LEMMA RegionsJoin ==
  ASSUME NEW b \in Slots, NEW i \in Slots, NEW k \in Nat,
         FillOf(b, i) + k < BUFFER_SIZE
  PROVE  /\ Region(b, FillOf(b, i)) \cup Region(i, k) = Region(b, FillOf(b, i) + k)
         /\ Region(i, k) \cap Region(b, FillOf(b, i)) = {}
<1>1. FillOf(b, i) \in Slots /\ FillOf(b, i) \in Nat /\ FillOf(b, i) + k \in Nat
  <2>1. FillOf(b, i) \in Slots
    BY FillInRange
  <2>2. FillOf(b, i) \in Nat
    BY <2>1, SlotsAreNat
  <2>. QED
    BY <2>1, <2>2
<1>2. /\ FillOf(b, i) <= BUFFER_SIZE /\ k <= BUFFER_SIZE
      /\ FillOf(b, i) + k <= BUFFER_SIZE
  BY <1>1, SizeAssumption DEF Slots
<1>3. ASSUME NEW x \in Slots
      PROVE  /\ FillOf(b, x) < FillOf(b, i) + k
                <=> FillOf(b, x) < FillOf(b, i) \/ FillOf(i, x) < k
             /\ ~(FillOf(b, x) < FillOf(b, i) /\ FillOf(i, x) < k)
  BY SizeAssumption DEF FillOf, Wrap, Slots
<1>. QED
  BY <1>1, <1>2, <1>3, RegionByDistance

(* A region without its first n slots is the region that starts behind them. *)
LEMMA RegionLosesFront ==
  ASSUME NEW b \in Slots, NEW f \in Nat, NEW n \in Nat, n <= f, f < BUFFER_SIZE
  PROVE  Region(b, f) \ Region(b, n) = Region(Wrap(b + n), f - n)
<1>1. Wrap(b + n) \in Slots /\ f - n \in Nat /\ f - n <= BUFFER_SIZE
  BY SizeAssumption DEF Wrap, Slots
<1>2. ASSUME NEW x \in Slots
      PROVE  FillOf(Wrap(b + n), x) < f - n <=> FillOf(b, x) < f /\ ~(FillOf(b, x) < n)
  BY SizeAssumption DEF FillOf, Wrap, Slots
<1>. QED
  BY <1>1, <1>2, RegionByDistance, SizeAssumption

(* Samples of an update that is rendered and not yet published. *)
Pending == IF pc["cpu"] = "publish" THEN step ELSE 0

MInv == SInv /\ UnplayedIsPublished

(* UnplayedIsPublished, one step per action; and what Render mixes into.    *)
LEMMA ContentsStep ==
  ASSUME MInv, [Next]_vars
  PROVE  /\ UnplayedIsPublished'
         /\ in_step /\ pc["cpu"] = "check" /\ pc'["cpu"] = "publish"
            => Region(gbc_sound_buffer_index, step) \cap unplayed = {}
<1> DEFINE Goal == /\ UnplayedIsPublished'
                   /\ in_step /\ pc["cpu"] = "check" /\ pc'["cpu"] = "publish"
                      => Region(gbc_sound_buffer_index, step) \cap unplayed = {}
<1> USE DEF MInv, SInv
<1>types. TypeOK /\ Fill \in Slots /\ Fill \in Nat
  <2>1. TypeOK /\ Fill \in Slots
    BY FillInRange DEF TypeOK, Fill
  <2>. QED
    BY <2>1, SlotsAreNat
<1>step. step \in Nat /\ step <= MaxStep
  BY <1>types, StepsAreNat, SizeAssumption DEF TypeOK
<1>pend. Pending \in Nat /\ (in_step => Fill + Pending < BUFFER_SIZE)
  BY <1>types, <1>step, Sizes, SizeAssumption DEF Pending, Fits, Slots
<1>now. in_step => unplayed = Region(sound_buffer_base, Fill + Pending)
  BY DEF UnplayedIsPublished, Pending
<1>then. UnplayedIsPublished'
         <=> (in_step' => unplayed' = Region(sound_buffer_base', Fill' + Pending'))
  BY DEF UnplayedIsPublished, Pending
<1>0. ASSUME ~in_step, ~in_step' PROVE Goal
  BY <1>0 DEF UnplayedIsPublished
<1>1. ASSUME in_step, NEW k \in Steps, BeginUpdate(k) PROVE Goal
  <2>1. Fill' = Fill /\ Pending = 0 /\ Pending' = 0
    BY <1>1, <1>types DEF BeginUpdate, Fill, Pending, TypeOK, Threads
  <2>. QED
    BY <1>1, <2>1, <1>now, <1>then, <1>types DEF BeginUpdate, TypeOK, Threads
<1>2. ASSUME in_step, NEW t \in Threads, LockMutex(t) \/ (CondWait(t) /\ pc[t] = "check")
      PROVE  Goal
  <2>1. Fill' = Fill /\ Pending' = Pending
    BY <1>2, <1>types DEF LockMutex, CondWait, Fill, Pending, TypeOK, Threads
  <2>. QED
    BY <1>2, <2>1, <1>now, <1>then, <1>types DEF LockMutex, CondWait, TypeOK, Threads
<1>3. CASE in_step /\ Render
  <2>1. Fill' = Fill /\ Fill <= HighWater /\ Pending = 0 /\ Pending' = step
    BY <1>3, <1>types, Sizes DEF Render, Fits, TooFarAhead, Fill, Slots, Pending, TypeOK, Threads
  <2>2. Fill + step < BUFFER_SIZE
    BY <2>1, <1>types, <1>step, Sizes, SizeAssumption DEF Slots
  <2>3. unplayed = Region(sound_buffer_base, Fill)
    BY <1>3, <2>1, <1>now, <1>types
  <2>4. /\ unplayed \cup Region(gbc_sound_buffer_index, step)
           = Region(sound_buffer_base, Fill + step)
        /\ Region(gbc_sound_buffer_index, step) \cap unplayed = {}
    BY <2>2, <2>3, <1>types, <1>step, RegionsJoin DEF Fill, TypeOK
  <2>. QED
    BY <1>3, <2>1, <2>4, <1>then DEF Render
<1>4. CASE in_step /\ Publish
  <2>1. Pending = step /\ Pending' = 0
    BY <1>4, <1>types DEF Publish, Pending, TypeOK, Threads
  <2>2. Fill' = Fill + step
    BY <1>4, <2>1, <1>pend, <1>step, <1>types, FillAfterPublish DEF Publish, Fill, TypeOK
  <2>. QED
    BY <1>4, <2>1, <2>2, <1>now, <1>then, <1>types, <1>step DEF Publish, TypeOK, Threads
<1>5. CASE ResetSound
  <2>1. Fill' = 0 /\ Pending' = 0
    BY <1>5, SizeAssumption, Sizes DEF ResetSound, Fill, FillOf, Wrap, Pending
  <2>2. Region(0, 0) = {}
    BY DEF Region
  <2>. QED
    BY <1>5, <2>1, <2>2, <1>then DEF ResetSound
<1>6. CASE in_step /\ BeginCallback
  <2>1. Fill' = Fill /\ Pending' = Pending
    BY <1>6, <1>types DEF BeginCallback, Fill, Pending, TypeOK, Threads
  <2>. QED
    BY <1>6, <2>1, <1>now, <1>then, <1>types DEF BeginCallback, TypeOK, Threads
<1>7. CASE in_step /\ Play
  <2>1. sample_length \in Nat /\ sample_length <= Fill
    BY <1>7, <1>types, Sizes, SizeAssumption DEF Play, TooLittle, Slots
  <2>2. Fill' = Fill - sample_length /\ Pending' = Pending
    BY <1>7, <2>1, <1>types, Sizes, FillAfterPlay, PlayedRegion
       DEF Play, Fill, TypeOK, Pending, Threads
  <2>3. (Fill + Pending) - sample_length = Fill' + Pending'
    BY <2>1, <2>2, <1>pend, <1>types
  <2>4. unplayed' = Region(sound_buffer_base', Fill' + Pending')
    <3>1. /\ Fill + Pending \in Nat /\ sample_length <= Fill + Pending
          /\ sound_buffer_base \in Slots
      BY <2>1, <1>pend, <1>types DEF TypeOK
    <3>2. unplayed' = Region(sound_buffer_base, Fill + Pending)
                      \ Region(sound_buffer_base, sample_length)
      BY <1>7, <1>now, <3>1, PlayedRegion
    <3>3. sound_buffer_base' = Wrap(sound_buffer_base + sample_length)
      BY <1>7, <3>1, PlayedRegion
    <3>. QED
      BY <1>7, <3>1, <3>2, <3>3, <2>1, <2>3, <1>pend, RegionLosesFront
  <2>. QED
    BY <1>7, <2>4, <1>then, <1>types DEF Play, TypeOK, Threads
<1>8. ASSUME ToggleSync \/ \E r \in SavedRings : LoadState(r) PROVE Goal
  <2>1. ~in_step' /\ pc' = pc
    BY <1>8 DEF ToggleSync, LoadState
  <2>. QED
    BY <2>1 DEF UnplayedIsPublished
<1>9. CASE UNCHANGED vars
  BY <1>9 DEF vars, UnplayedIsPublished, Fill
<1>10. CASE ~in_step
  BY <1>10, <1>0, <1>5, OutOfStep
<1>11. CASE in_step
  BY <1>11, <1>1, <1>2, <1>3, <1>4, <1>5, <1>6, <1>7, <1>8, <1>9
     DEF Next, CpuNext, AudioNext, CpuWait, AudioWait, Threads
<1>. QED
  BY <1>10, <1>11

LEMMA ContentsInv ==
  /\ Init => MInv
  /\ MInv /\ [Next]_vars => MInv'
<1>1. Init => MInv
  <2>1. Init => Fill = 0 /\ Region(0, 0) = {}
    BY Sizes, SizeAssumption DEF Init, Fill, FillOf, Wrap, Region
  <2>. QED
    BY <2>1, InitIInv DEF Init, IInv, MInv, SInv, Fits, UnplayedIsPublished, Threads
<1>. QED
  BY <1>1, TypeStep, PipeStep, ContentsStep DEF MInv, SInv

(* As long as the ring is in step the slots that hold unplayed samples are  *)
(* the published ones and those of the update in progress: the two sides   *)
(* wrap around alike and clear all they play.                              *)
THEOREM RingHoldsTheUnplayed == Spec => []UnplayedIsPublished
<1>1. MInv => UnplayedIsPublished
  BY DEF MInv
<1>. QED
  BY <1>1, ContentsInv, PTL DEF Spec

(* As long as the ring is in step no update mixes into samples not played  *)
(* yet.                                                                    *)
THEOREM MixingSparesTheUnplayed == Spec => MixesIntoClearSlots
<1>1. MInv /\ [Next]_vars
      => [in_step /\ pc["cpu"] = "check" /\ pc'["cpu"] = "publish"
          => Region(gbc_sound_buffer_index, step) \cap unplayed = {}]_vars
  BY ContentsStep
<1>. QED
  BY <1>1, ContentsInv, PTL DEF Spec, MixesIntoClearSlots

(* A callback's stream is untouched until it plays. *)
Fresh == pc["audio"] # "idle" => stream = Untouched

LEMMA FreshStep == TypeOK /\ Fresh /\ [Next]_vars => Fresh'
<1> SUFFICES ASSUME TypeOK, Fresh, [Next]_vars PROVE Fresh'
  OBVIOUS
<1> USE DEF Fresh
<1>1. ASSUME BeginCallback \/ Play PROVE Fresh'
  BY <1>1 DEF BeginCallback, Play, TypeOK, Threads
<1>2. ASSUME NEW t \in Threads, LockMutex(t) \/ (CondWait(t) /\ pc[t] = "check")
      PROVE  Fresh'
  BY <1>2 DEF LockMutex, CondWait, TypeOK, Threads
<1>3. ASSUME (\E k \in Steps : BeginUpdate(k)) \/ Render \/ Publish PROVE Fresh'
  BY <1>3 DEF BeginUpdate, Render, Publish, TypeOK, Threads
<1>4. ASSUME ToggleSync \/ ResetSound \/ \E r \in SavedRings : LoadState(r) PROVE Fresh'
  BY <1>4 DEF ToggleSync, ResetSound, LoadState
<1>5. CASE UNCHANGED vars
  BY <1>5 DEF vars
<1>. QED
  BY <1>1, <1>2, <1>3, <1>4, <1>5
     DEF Next, CpuNext, AudioNext, CpuWait, AudioWait, Threads

(* What two copies into an untouched stream leave there has been cleared.  *)
LEMMA CopiesAreCleared ==
  ASSUME Play, stream = Untouched, sound_buffer_base \in Slots,
         NEW i \in DOMAIN stream', stream'[i] # NoSlot
  PROVE  stream'[i] \in Cleared
<1>sizes. BUFFER_SIZE \in Nat /\ sample_length \in Nat /\ sample_length < BUFFER_SIZE
  BY SizeAssumption, Sizes
<1>1. FirstPiece \in Nat /\ Remainder \in Int
  BY <1>sizes DEF FirstPiece, Remainder, Straddles, Slots
<1>2. i \in 0 .. sample_length - 1
  BY DEF Play, Copy
<1>3. stream'[i] = IF i < Remainder THEN 0 + i
                   ELSE IF i < FirstPiece THEN sound_buffer_base + i ELSE NoSlot
  BY <1>2 DEF Play, Copy, Untouched
<1>. QED
  BY <1>1, <1>2, <1>3, <1>sizes DEF Cleared

(* As long as the ring is in step SDL is handed each published sample at   *)
(* most once, and no slot that holds none.                                 *)
THEOREM HeardOnce == Spec => PlayedOnce
<1>1. MInv /\ Fresh /\ [Next]_vars
      => [in_step /\ pc["audio"] = "check" /\ pc'["audio"] = "idle"
          => \A i \in DOMAIN stream' :
               stream'[i] # NoSlot => stream'[i] \in unplayed \ unplayed']_vars
  <2> SUFFICES ASSUME MInv, Fresh, [Next]_vars, in_step,
                      pc["audio"] = "check", pc'["audio"] = "idle",
                      NEW i \in DOMAIN stream', stream'[i] # NoSlot
               PROVE  stream'[i] \in unplayed \ unplayed'
    OBVIOUS
  <2>types. TypeOK /\ Fill \in Slots /\ sound_buffer_base \in Slots
    BY FillInRange DEF MInv, SInv, TypeOK, Fill
  <2>1. Play
    <3>1. ASSUME NEW t \in Threads, LockMutex(t) \/ CondWait(t) PROVE FALSE
      BY <3>1, <2>types DEF LockMutex, CondWait, TypeOK, Threads
    <3>2. ~(BeginCallback \/ Render \/ Publish \/ \E k \in Steps : BeginUpdate(k))
      BY <2>types DEF BeginCallback, Render, Publish, BeginUpdate, TypeOK, Threads
    <3>3. ~(ToggleSync \/ ResetSound \/ UNCHANGED vars \/ \E r \in SavedRings : LoadState(r))
      BY DEF ToggleSync, ResetSound, LoadState, vars
    <3>. QED
      BY <3>1, <3>2, <3>3 DEF Next, CpuNext, AudioNext, CpuWait, AudioWait, Threads
  <2>2. stream'[i] \in Cleared /\ unplayed' = unplayed \ Cleared
    BY <2>1, <2>types, CopiesAreCleared DEF Fresh, Play
  <2>3. Cleared = Region(sound_buffer_base, sample_length)
    BY <2>types, PiecesMakeRegion
  <2>4. sample_length \in Nat /\ sample_length <= Fill /\ Fill \in Nat
    BY <2>1, <2>types, Sizes, SizeAssumption DEF Play, TooLittle, Slots
  <2>5. Region(sound_buffer_base, sample_length) \subseteq unplayed
    <3>1. unplayed = Region(sound_buffer_base, Fill + Pending)
      BY DEF MInv, UnplayedIsPublished, Pending
    <3>2. Pending \in Nat
      BY <2>types, StepsAreNat, SizeAssumption DEF Pending, TypeOK
    <3>3. 0 .. sample_length - 1 \subseteq 0 .. (Fill + Pending) - 1
      BY <2>4, <3>2
    <3>. QED
      BY <3>1, <3>3 DEF Region
  <2>. QED
    BY <2>2, <2>3, <2>5
<1>2. Init => Fresh
  BY DEF Init, Fresh, Threads
<1>3. MInv /\ Fresh /\ [Next]_vars => (MInv /\ Fresh)'
  BY ContentsInv, FreshStep DEF MInv, SInv
<1>. QED
  BY <1>1, <1>2, <1>3, ContentsInv, PTL DEF Spec, PlayedOnce

-----------------------------------------------------------------------------
(* The devices. *)

DeviceFields == {"io", "affine", "gbc", "sweep", "wave", "noise", "master", "sound_on",
                 "ds", "fifo", "dma", "timer", "calls", "update", "wave_update",
                 "oam_update", "alert", "halt"}
ChannelFields == {"rate", "length_ticks", "length_status", "duty", "envelope_direction",
                  "envelope_initial_volume", "envelope_volume", "envelope_initial_ticks",
                  "envelope_ticks", "envelope_status", "active_flag", "status", "over"}
TimerFields == {"status", "reload", "prescale", "irq"}

Halfwords == {n \in Int : 0 <= n /\ n <= 65535}

(* DISPSTAT, VCOUNT, SOUNDCNT_X and IF, where the hardware reports. *)
Hardware == {4, 6, 132, 514}

(* A halfword stored in the registers. *)
Put(io, a, v) == [io EXCEPT ![a] = v]

IsDevice(m) == m = [f \in DeviceFields |-> m[f]]
IsChannel(g) == g = [f \in ChannelFields |-> g[f]]
IsTimer(t) == t = [f \in TimerFields |-> t[f]] /\ t.reload \in Int

(* What keeps an envelope from wrapping: it counts only from a number that is not 0. *)
Envelope(g) ==
  /\ g.envelope_initial_ticks \in Nat
  /\ g.envelope_initial_volume \in 0 .. 15
  /\ g.envelope_volume \in 0 .. 15
  /\ g.envelope_status => g.envelope_ticks \in 1 .. g.envelope_initial_ticks

GoodIo(io) == io \in [DOMAIN io -> Halfwords] /\ Hardware \subseteq DOMAIN io
GoodGbc(gbc) ==
  /\ gbc = [ch \in Channels |-> gbc[ch]]
  /\ \A ch \in Channels : IsChannel(gbc[ch]) /\ Envelope(gbc[ch])
GoodTimers(timer) ==
  /\ timer = [n \in 0 .. 3 |-> timer[n]]
  /\ \A n \in 0 .. 3 : IsTimer(timer[n])

Good(m) ==
  IsDevice(m) /\ GoodIo(m.io) /\ GoodGbc(m.gbc) /\ GoodTimers(m.timer)

(* What a store may not move, of the registers before and after it. *)
Spared(old, new) ==
  /\ new[4] % 8 = old[4] % 8 /\ new[6] = old[6] /\ new[132] % 16 = old[132] % 16
  /\ \A k \in 0 .. 15 : Bit(new[514], k) <= Bit(old[514], k)

-----------------------------------------------------------------------------

(* Bits and fields of a halfword. *)
LEMMA SmallFields ==
  ASSUME NEW v \in Int
  PROVE  /\ Field(v, 8, 3) \in 0 .. 7 /\ Field(v, 12, 4) \in 0 .. 15
         /\ Field(v, 0, 4) = v % 16 /\ Field(v, 0, 3) = v % 8
         /\ WithoutLow(v, 3) = v - (v % 8) /\ WithoutLow(v, 4) = v - (v % 16)
BY DEF Field, WithoutLow

LEMMA SmallBytes ==
  ASSUME NEW v \in Halfwords
  PROVE  /\ Low(v) \in 0 .. 255 /\ High(v) \in 0 .. 255
         /\ v = High(v) * 256 + Low(v)
BY DEF Low, High, Halfwords

LEMMA Quadruple == \A x \in 0 .. 7 : x * 4 \in Nat /\ (x * 4 # 0 => x * 4 \in 1 .. x * 4)
OBVIOUS

(* Storing a halfword. *)
LEMMA SetIo ==
  ASSUME NEW m, NEW a, NEW v \in Halfwords, Good(m)
  PROVE  /\ Good(Set(m, a, v))
         /\ Set(m, a, v).io = Put(m.io, a, v)
         /\ \A f \in DeviceFields \ {"io"} : Set(m, a, v)[f] = m[f]
<1>1. /\ IsDevice(Set(m, a, v))
      /\ Set(m, a, v).io = Put(m.io, a, v)
      /\ \A f \in DeviceFields \ {"io"} : Set(m, a, v)[f] = m[f]
  BY DEF Good, IsDevice, Set, Put, DeviceFields
<1>2. GoodIo(Put(m.io, a, v))
  BY DEF Good, GoodIo, Put
<1>3. "gbc" \in DeviceFields \ {"io"} /\ "timer" \in DeviceFields \ {"io"}
  BY DEF DeviceFields
<1> QED BY <1>1, <1>2, <1>3 DEF Good

LEMMA NotedIo ==
  ASSUME NEW m, NEW a, NEW v \in Halfwords, Good(m)
  PROVE  /\ Good(Noted(m, a, v))
         /\ Noted(m, a, v).io = Put(m.io, a, v)
         /\ Noted(m, a, v).update = TRUE
         /\ \A f \in DeviceFields \ {"io", "update"} : Noted(m, a, v)[f] = m[f]
<1>1. /\ IsDevice(Noted(m, a, v))
      /\ Noted(m, a, v).io = Put(m.io, a, v)
      /\ Noted(m, a, v).update = TRUE
      /\ \A f \in DeviceFields \ {"io", "update"} : Noted(m, a, v)[f] = m[f]
  BY DEF Good, IsDevice, Noted, Set, Put, DeviceFields
<1>2. GoodIo(Put(m.io, a, v))
  BY DEF Good, GoodIo, Put
<1>3. "gbc" \in DeviceFields \ {"io", "update"} /\ "timer" \in DeviceFields \ {"io", "update"}
  BY DEF DeviceFields
<1> QED BY <1>1, <1>2, <1>3 DEF Good

(* A setting that keeps the envelopes good. *)
LEMMA GbcSet ==
  ASSUME NEW gbc, GoodGbc(gbc), NEW c \in Channels, NEW g, IsChannel(g), Envelope(g)
  PROVE  GoodGbc([gbc EXCEPT ![c] = g]) /\ [gbc EXCEPT ![c] = g][c] = g
BY DEF GoodGbc

LEMMA ToneControlLow ==
  ASSUME NEW m, NEW c \in Channels, NEW a, NEW v \in Halfwords, Good(m)
  PROVE  LET n == gbc_sound_tone_control_low(m, c, a, v)
         IN  Good(n) /\ n.io = Put(m.io, a, v)
<1>v. v \in Int
  BY DEF Halfwords
<1>k. GoodGbc(m.gbc)
  BY DEF Good
<1>c. IsChannel(m.gbc[c])
  BY <1>k DEF GoodGbc
<1>0. v \in Int /\ IsChannel(m.gbc[c])
  BY <1>v, <1>c
<1> DEFINE ticks == Field(v, 8, 3) * 4
<1>g. PICK g : g = [m.gbc[c] EXCEPT !.length_ticks = 64 - Field(v, 0, 6),
                  !.duty = Field(v, 6, 2),
                  !.envelope_direction = Bit(v, 11),
                  !.envelope_initial_volume = Field(v, 12, 4),
                  !.envelope_volume = Field(v, 12, 4),
                  !.envelope_initial_ticks = ticks, !.envelope_ticks = ticks,
                  !.envelope_status = ticks # 0]
  OBVIOUS
<1>a. IsChannel(g)
  BY <1>0, <1>g DEF IsChannel, ChannelFields
<1>b. /\ g.envelope_initial_volume = Field(v, 12, 4) /\ g.envelope_volume = Field(v, 12, 4)
      /\ g.envelope_initial_ticks = ticks /\ g.envelope_ticks = ticks
      /\ g.envelope_status = (ticks # 0)
  BY <1>0, <1>g DEF IsChannel, ChannelFields
<1>f. ticks \in Nat /\ (ticks # 0 => ticks \in 1 .. ticks) /\ Field(v, 12, 4) \in 0 .. 15
  BY <1>0, SmallFields, Quadruple
<1>e. Envelope(g)
  <2> HIDE DEF ticks
  <2> QED BY <1>f, <1>b DEF Envelope
<1>n. PICK n : n = [m EXCEPT !.gbc[c] = g]
  OBVIOUS
<1>2. Good(n) /\ n.io = m.io
  BY <1>a, <1>e, <1>n, GbcSet DEF Good, IsDevice, DeviceFields
<1>3. gbc_sound_tone_control_low(m, c, a, v) = Noted(n, a, v)
  BY <1>n, <1>g DEF gbc_sound_tone_control_low
<1>4. Good(Noted(n, a, v)) /\ Noted(n, a, v).io = Put(n.io, a, v)
  BY <1>2, NotedIo
<1>5. Good(gbc_sound_tone_control_low(m, c, a, v))
  BY <1>3, <1>4
<1>6. Noted(n, a, v).io = Put(m.io, a, v)
  BY <1>2, <1>4
<1>7. gbc_sound_tone_control_low(m, c, a, v).io = Put(m.io, a, v)
  BY <1>6, <1>3
<1> QED BY <1>5, <1>7

(* A trigger starts the envelope where it was set, which is not at 0 when it counts. *)
LEMMA TriggerGood ==
  ASSUME NEW g, NEW v, IsChannel(g), Envelope(g)
  PROVE  IsChannel(Trigger(g, v)) /\ Envelope(Trigger(g, v))
<1>1. CASE Bit(v, 15) = 0
  BY <1>1 DEF Trigger
<1>2. CASE Bit(v, 15) # 0
  <2>1. PICK h : h = [g EXCEPT !.active_flag = TRUE, !.envelope_ticks = g.envelope_initial_ticks,
                                !.envelope_volume = g.envelope_initial_volume]
    OBVIOUS
  <2>2. IsChannel(h)
    BY <2>1 DEF IsChannel, ChannelFields
  <2>3. /\ h.envelope_ticks = g.envelope_initial_ticks
        /\ h.envelope_initial_ticks = g.envelope_initial_ticks
        /\ h.envelope_volume = g.envelope_initial_volume
        /\ h.envelope_initial_volume = g.envelope_initial_volume
        /\ h.envelope_status = g.envelope_status
    BY <2>1 DEF IsChannel, ChannelFields
  <2>4. Envelope(h)
    BY <2>3 DEF Envelope
  <2>5. Trigger(g, v) = h
    BY <1>2, <2>1 DEF Trigger
  <2> QED BY <2>2, <2>4, <2>5
<1> QED BY <1>1, <1>2

(* What does not touch the envelope keeps it. *)
LEMMA RateGood ==
  ASSUME NEW g, IsChannel(g), Envelope(g), NEW rate, NEW status
  PROVE  LET h == [g EXCEPT !.rate = rate, !.length_status = status]
         IN  IsChannel(h) /\ Envelope(h)
<1>1. PICK h : h = [g EXCEPT !.rate = rate, !.length_status = status]
  OBVIOUS
<1>2. IsChannel(h)
  BY <1>1 DEF IsChannel, ChannelFields
<1>3. /\ h.envelope_ticks = g.envelope_ticks
      /\ h.envelope_initial_ticks = g.envelope_initial_ticks
      /\ h.envelope_volume = g.envelope_volume
      /\ h.envelope_initial_volume = g.envelope_initial_volume
      /\ h.envelope_status = g.envelope_status
  BY <1>1 DEF IsChannel, ChannelFields
<1>4. Envelope(h)
  BY <1>3 DEF Envelope
<1> QED BY <1>1, <1>2, <1>4

LEMMA ToneControlHigh ==
  ASSUME NEW m, NEW c \in Channels, NEW a, NEW v \in Halfwords, Good(m)
  PROVE  LET n == gbc_sound_tone_control_high(m, c, a, v)
         IN  Good(n) /\ n.io = Put(m.io, a, v)
<1>1. IsChannel(m.gbc[c]) /\ Envelope(m.gbc[c]) /\ GoodGbc(m.gbc)
  BY DEF Good, GoodGbc
<1>2. PICK h : h = [m.gbc[c] EXCEPT !.rate = Field(v, 0, 11),
                                    !.length_status = Bit(v, 14) = 1]
  OBVIOUS
<1>3. IsChannel(h) /\ Envelope(h)
  BY <1>1, <1>2, RateGood
<1>4. PICK g : g = Trigger(h, v)
  OBVIOUS
<1>5. IsChannel(g) /\ Envelope(g)
  BY <1>3, <1>4, TriggerGood
<1>6. PICK n : n = [m EXCEPT !.gbc[c] = g]
  OBVIOUS
<1>7. Good(n) /\ n.io = m.io
  BY <1>5, <1>6, GbcSet DEF Good, IsDevice, DeviceFields
<1>8. gbc_sound_tone_control_high(m, c, a, v) = Noted(n, a, v)
  BY <1>2, <1>4, <1>6 DEF gbc_sound_tone_control_high
<1>9. Good(Noted(n, a, v)) /\ Noted(n, a, v).io = Put(n.io, a, v)
  BY <1>7, NotedIo
<1> QED BY <1>7, <1>8, <1>9

LEMMA ToneControlSweep ==
  ASSUME NEW m, NEW v \in Halfwords, Good(m)
  PROVE  LET n == gbc_sound_tone_control_sweep(m, v)
         IN  Good(n) /\ n.io = Put(m.io, 96, v)
<1>a. PICK a : a = 96
  OBVIOUS
<1> DEFINE ticks == Field(v, 4, 3) * 2
           s == [shift |-> Field(v, 0, 3), direction |-> Bit(v, 3),
                 status |-> v # 8, ticks |-> ticks, initial_ticks |-> ticks]
<1>1. PICK n : n = [m EXCEPT !.sweep = s]
  OBVIOUS
<1>2. gbc_sound_tone_control_sweep(m, v) = Noted(n, a, v)
  BY <1>a, <1>1 DEF gbc_sound_tone_control_sweep
<1> HIDE DEF s
<1>3. Good(n) /\ n.io = m.io
  BY <1>1 DEF Good, IsDevice, DeviceFields
<1>9. Good(Noted(n, a, v)) /\ Noted(n, a, v).io = Put(n.io, a, v)
  BY <1>3, NotedIo
<1> QED BY <1>a, <1>9, <1>2, <1>3

LEMMA WaveControl ==
  ASSUME NEW m, NEW v \in Halfwords, Good(m)
  PROVE  LET n == gbc_sound_wave_control(m, v)
         IN  Good(n) /\ n.io = Put(m.io, 112, v)
<1>a. PICK a : a = 112
  OBVIOUS
<1>1. PICK n : n = [m EXCEPT !.wave.type = Bit(v, 5), !.wave.bank = Bit(v, 6),
                             !.wave.master_enable = Bit(v, 7)]
  OBVIOUS
<1>2. gbc_sound_wave_control(m, v) = Noted(n, a, v)
  BY <1>a, <1>1 DEF gbc_sound_wave_control
<1>3. Good(n) /\ n.io = m.io
  BY <1>1 DEF Good, IsDevice, DeviceFields
<1>9. Good(Noted(n, a, v)) /\ Noted(n, a, v).io = Put(n.io, a, v)
  BY <1>3, NotedIo
<1> QED BY <1>a, <1>9, <1>2, <1>3

LEMMA LengthGood ==
  ASSUME NEW g, IsChannel(g), Envelope(g), NEW ticks
  PROVE  LET h == [g EXCEPT !.length_ticks = ticks]
         IN  IsChannel(h) /\ Envelope(h)
<1>1. PICK h : h = [g EXCEPT !.length_ticks = ticks]
  OBVIOUS
<1>2. IsChannel(h)
  BY <1>1 DEF IsChannel, ChannelFields
<1>3. /\ h.envelope_ticks = g.envelope_ticks
      /\ h.envelope_initial_ticks = g.envelope_initial_ticks
      /\ h.envelope_volume = g.envelope_volume
      /\ h.envelope_initial_volume = g.envelope_initial_volume
      /\ h.envelope_status = g.envelope_status
  BY <1>1 DEF IsChannel, ChannelFields
<1>4. Envelope(h)
  BY <1>3 DEF Envelope
<1> QED BY <1>1, <1>2, <1>4

LEMMA ToneControlLowWave ==
  ASSUME NEW m, NEW v \in Halfwords, Good(m)
  PROVE  LET n == gbc_sound_tone_control_low_wave(m, v)
         IN  Good(n) /\ n.io = Put(m.io, 114, v)
<1>a. PICK a : a = 114
  OBVIOUS
<1> DEFINE ticks == 256 - Low(v)
           volume == IF Bit(v, 15) = 1 THEN 12288
                     ELSE <<0, 16384, 8192, 4096>>[Field(v, 13, 2) + 1]
<1>1. PICK g : g = [m.gbc[2] EXCEPT !.length_ticks = ticks]
  OBVIOUS
<1>2. IsChannel(g) /\ Envelope(g)
  BY <1>1, LengthGood DEF Good, GoodGbc, Channels
<1>3. PICK k : k = [m EXCEPT !.gbc[2] = g]
  OBVIOUS
<1>4. Good(k) /\ k.io = m.io
  BY <1>2, <1>3, GbcSet DEF Good, IsDevice, DeviceFields, Channels
<1> HIDE DEF volume
<1>5. PICK n : n = [k EXCEPT !.wave.volume = volume]
  OBVIOUS
<1>6. Good(n) /\ n.io = m.io
  BY <1>4, <1>5 DEF Good, IsDevice, DeviceFields
<1>7. gbc_sound_tone_control_low_wave(m, v) = Noted(n, a, v)
  BY <1>a, <1>1, <1>3, <1>5 DEF gbc_sound_tone_control_low_wave, volume
<1>9. Good(Noted(n, a, v)) /\ Noted(n, a, v).io = Put(n.io, a, v)
  BY <1>6, NotedIo
<1> QED BY <1>a, <1>9, <1>6, <1>7

LEMMA WaveRateGood ==
  ASSUME NEW g, IsChannel(g), Envelope(g), NEW rate, NEW status, NEW flag
  PROVE  LET h == [g EXCEPT !.rate = rate, !.length_status = status, !.active_flag = flag]
         IN  IsChannel(h) /\ Envelope(h)
<1>1. PICK h : h = [g EXCEPT !.rate = rate, !.length_status = status, !.active_flag = flag]
  OBVIOUS
<1>2. IsChannel(h)
  BY <1>1 DEF IsChannel, ChannelFields
<1>3. /\ h.envelope_ticks = g.envelope_ticks
      /\ h.envelope_initial_ticks = g.envelope_initial_ticks
      /\ h.envelope_volume = g.envelope_volume
      /\ h.envelope_initial_volume = g.envelope_initial_volume
      /\ h.envelope_status = g.envelope_status
  BY <1>1 DEF IsChannel, ChannelFields
<1>4. Envelope(h)
  BY <1>3 DEF Envelope
<1> QED BY <1>1, <1>2, <1>4

LEMMA CountsGood ==
  ASSUME NEW g, IsChannel(g), Envelope(g), NEW status
  PROVE  LET h == [g EXCEPT !.length_status = status]
         IN  IsChannel(h) /\ Envelope(h)
<1>1. PICK h : h = [g EXCEPT !.length_status = status]
  OBVIOUS
<1>2. IsChannel(h)
  BY <1>1 DEF IsChannel, ChannelFields
<1>3. /\ h.envelope_ticks = g.envelope_ticks
      /\ h.envelope_initial_ticks = g.envelope_initial_ticks
      /\ h.envelope_volume = g.envelope_volume
      /\ h.envelope_initial_volume = g.envelope_initial_volume
      /\ h.envelope_status = g.envelope_status
  BY <1>1 DEF IsChannel, ChannelFields
<1>4. Envelope(h)
  BY <1>3 DEF Envelope
<1> QED BY <1>1, <1>2, <1>4

LEMMA StatusGood ==
  ASSUME NEW g, IsChannel(g), Envelope(g), NEW status
  PROVE  LET h == [g EXCEPT !.status = status]
         IN  IsChannel(h) /\ Envelope(h)
<1>1. PICK h : h = [g EXCEPT !.status = status]
  OBVIOUS
<1>2. IsChannel(h)
  BY <1>1 DEF IsChannel, ChannelFields
<1>3. /\ h.envelope_ticks = g.envelope_ticks
      /\ h.envelope_initial_ticks = g.envelope_initial_ticks
      /\ h.envelope_volume = g.envelope_volume
      /\ h.envelope_initial_volume = g.envelope_initial_volume
      /\ h.envelope_status = g.envelope_status
  BY <1>1 DEF IsChannel, ChannelFields
<1>4. Envelope(h)
  BY <1>3 DEF Envelope
<1> QED BY <1>1, <1>2, <1>4

LEMMA FlagGood ==
  ASSUME NEW g, IsChannel(g), Envelope(g), NEW flag
  PROVE  LET h == [g EXCEPT !.active_flag = flag]
         IN  IsChannel(h) /\ Envelope(h)
<1>1. PICK h : h = [g EXCEPT !.active_flag = flag]
  OBVIOUS
<1>2. IsChannel(h)
  BY <1>1 DEF IsChannel, ChannelFields
<1>3. /\ h.envelope_ticks = g.envelope_ticks
      /\ h.envelope_initial_ticks = g.envelope_initial_ticks
      /\ h.envelope_volume = g.envelope_volume
      /\ h.envelope_initial_volume = g.envelope_initial_volume
      /\ h.envelope_status = g.envelope_status
  BY <1>1 DEF IsChannel, ChannelFields
<1>4. Envelope(h)
  BY <1>3 DEF Envelope
<1> QED BY <1>1, <1>2, <1>4

LEMMA ToneControlHighWave ==
  ASSUME NEW m, NEW v \in Halfwords, Good(m)
  PROVE  LET n == gbc_sound_tone_control_high_wave(m, v)
         IN  Good(n) /\ n.io = Put(m.io, 116, v)
<1>a. PICK a : a = 116
  OBVIOUS
<1> DEFINE rate == Field(v, 0, 11)
           counts == Bit(v, 14) = 1
           flag == m.gbc[2].active_flag \/ Bit(v, 15) = 1
<1>1. PICK g : g = [m.gbc[2] EXCEPT !.rate = rate, !.length_status = counts,
                                    !.active_flag = flag]
  OBVIOUS
<1>2. Channels = 0 .. 3 /\ 2 \in Channels
  BY DEF Channels
<1>3. IsChannel(m.gbc[2]) /\ Envelope(m.gbc[2]) /\ GoodGbc(m.gbc)
  BY <1>2 DEF Good, GoodGbc
<1>4. PICK n : n = [m EXCEPT !.gbc[2] = g]
  OBVIOUS
<1>5. gbc_sound_tone_control_high_wave(m, v) = Noted(n, a, v)
  BY <1>a, <1>1, <1>4 DEF gbc_sound_tone_control_high_wave
<1> HIDE DEF rate, counts, flag
<1>6. IsChannel(g) /\ Envelope(g)
  BY <1>1, <1>3, WaveRateGood
<1>7. Good(n) /\ n.io = m.io
  BY <1>2, <1>4, <1>6, GbcSet DEF Good, IsDevice, DeviceFields
<1>8. Good(Noted(n, a, v)) /\ Noted(n, a, v).io = Put(n.io, a, v)
  BY <1>7, NotedIo
<1> QED BY <1>a, <1>5, <1>7, <1>8

LEMMA NoiseControl ==
  ASSUME NEW m, NEW v \in Halfwords, Good(m)
  PROVE  LET n == gbc_sound_noise_control(m, v)
         IN  Good(n) /\ n.io = Put(m.io, 124, v)
<1>a. PICK a : a = 124
  OBVIOUS
<1> DEFINE counts == Bit(v, 14) = 1
           noise == [ratio |-> Field(v, 0, 3), shift |-> Field(v, 4, 4),
                     type |-> Bit(v, 3)]
<1>2. Channels = 0 .. 3 /\ 3 \in Channels
  BY DEF Channels
<1>3. IsChannel(m.gbc[3]) /\ Envelope(m.gbc[3]) /\ GoodGbc(m.gbc)
  BY <1>2 DEF Good, GoodGbc
<1>4. PICK h : h = [m.gbc[3] EXCEPT !.length_status = counts]
  OBVIOUS
<1>5. PICK g : g = Trigger(h, v)
  OBVIOUS
<1>6. PICK k : k = [m EXCEPT !.gbc[3] = g]
  OBVIOUS
<1>7. PICK n : n = [k EXCEPT !.noise = noise]
  OBVIOUS
<1>8. gbc_sound_noise_control(m, v) = Noted(n, a, v)
  BY <1>a, <1>4, <1>5, <1>6, <1>7 DEF gbc_sound_noise_control
<1> HIDE DEF counts, noise
<1>9. IsChannel(h) /\ Envelope(h)
  BY <1>3, <1>4, CountsGood
<1>10. IsChannel(g) /\ Envelope(g)
  BY <1>5, <1>9, TriggerGood
<1>11. Good(k) /\ k.io = m.io
  BY <1>2, <1>6, <1>10, GbcSet DEF Good, IsDevice, DeviceFields
<1>12. Good(n) /\ n.io = m.io
  BY <1>7, <1>11 DEF Good, IsDevice, DeviceFields
<1>13. Good(Noted(n, a, v)) /\ Noted(n, a, v).io = Put(n.io, a, v)
  BY <1>12, NotedIo
<1> QED BY <1>a, <1>8, <1>12, <1>13

(* SOUNDCNT_L sets every channel's sides. *)
LEMMA TriggerGbcSound ==
  ASSUME NEW m, NEW v \in Halfwords, Good(m)
  PROVE  LET n == gbc_trigger_sound(m, v)
         IN  Good(n) /\ n.io = Put(m.io, 128, v)
<1>a. PICK a : a = 128
  OBVIOUS
<1> DEFINE Right(ch) == IF Bit(v, ch + 8) = 1 \/ Bit(v, ch + 11) = 1 THEN 1 ELSE 0
           status(ch) == 2 * Bit(v, ch + 12) + Right(ch)
           right == Field(v, 0, 3)
           left == Field(v, 4, 3)
<1>1. PICK k : k = [m EXCEPT !.master.right = right, !.master.left = left]
  OBVIOUS
<1>2. PICK gbc : gbc = [ch \in DOMAIN m.gbc |-> [m.gbc[ch] EXCEPT !.status = status(ch)]]
  OBVIOUS
<1>3. PICK n : n = [k EXCEPT !.gbc = gbc]
  OBVIOUS
<1>4. Good(k) /\ k.io = m.io /\ k.gbc = m.gbc
  BY <1>1 DEF Good, IsDevice, DeviceFields
<1>5. gbc_trigger_sound(m, v) = Set(n, a, v)
  BY <1>a, <1>1, <1>2, <1>3, <1>4 DEF gbc_trigger_sound
<1> HIDE DEF status, right, left
<1>6. GoodGbc(m.gbc) /\ DOMAIN m.gbc = Channels
  BY DEF Good, GoodGbc
<1>7. GoodGbc(gbc)
  <2>1. gbc = [ch \in Channels |-> gbc[ch]]
    BY <1>2, <1>6
  <2>2. ASSUME NEW c \in Channels
        PROVE  IsChannel(gbc[c]) /\ Envelope(gbc[c])
    <3>1. gbc[c] = [m.gbc[c] EXCEPT !.status = status(c)]
      BY <1>2, <1>6
    <3>2. IsChannel(m.gbc[c]) /\ Envelope(m.gbc[c])
      BY <1>6 DEF GoodGbc
    <3> QED BY <3>1, <3>2, StatusGood
  <2> QED BY <2>1, <2>2 DEF GoodGbc
<1>8. Good(n) /\ n.io = m.io
  BY <1>3, <1>4, <1>7 DEF Good, IsDevice, DeviceFields
<1>9. Good(Set(n, a, v)) /\ Set(n, a, v).io = Put(n.io, a, v)
  BY <1>8, SetIo
<1> QED BY <1>a, <1>5, <1>8, <1>9

LEMMA TriggerSound ==
  ASSUME NEW m, NEW v \in Halfwords, Good(m)
  PROVE  LET n == trigger_sound(m, v)
         IN  Good(n) /\ n.io = Put(m.io, 130, v)
<1>a. PICK a : a = 130
  OBVIOUS
<1> DEFINE Channel(ch) == [volume |-> Bit(v, 2 + ch), status |-> Field(v, 8 + 4 * ch, 2),
                           timer |-> Bit(v, 10 + 4 * ch)]
           ds == [ch \in {0, 1} |-> Channel(ch)]
           master == Field(v, 0, 2)
           fifo == [ch \in {0, 1} |-> IF Bit(v, 11 + 4 * ch) = 1 THEN <<>> ELSE m.fifo[ch]]
<1>1. PICK j : j = [m EXCEPT !.ds = ds]
  OBVIOUS
<1>2. PICK k : k = [j EXCEPT !.master.gbc = master]
  OBVIOUS
<1>3. Good(k) /\ k.io = m.io /\ k.fifo = m.fifo
  <2> HIDE DEF ds, master
  <2> QED BY <1>1, <1>2 DEF Good, IsDevice, DeviceFields
<1>4. PICK n : n = [k EXCEPT !.fifo = fifo]
  OBVIOUS
<1>5. trigger_sound(m, v) = Set(n, a, v)
  BY <1>a, <1>1, <1>2, <1>3, <1>4 DEF trigger_sound
<1> HIDE DEF fifo
<1>6. Good(n) /\ n.io = m.io
  BY <1>3, <1>4 DEF Good, IsDevice, DeviceFields
<1>7. Good(Set(n, a, v)) /\ Set(n, a, v).io = Put(n.io, a, v)
  BY <1>6, SetIo
<1> QED BY <1>a, <1>5, <1>6, <1>7

LEMMA BitsAreInt == ASSUME NEW x \in Int, NEW k \in 0 .. 15 PROVE Bit(x, k) \in {0, 1}
<1>1. k \in {0, 1, 2, 3, 4, 5, 6, 7, 8, 9, 10, 11, 12, 13, 14, 15}
  OBVIOUS
<1>2. /\ Bit(x, 0) \in {0, 1} /\ Bit(x, 1) \in {0, 1} /\ Bit(x, 2) \in {0, 1}
      /\ Bit(x, 3) \in {0, 1} /\ Bit(x, 4) \in {0, 1} /\ Bit(x, 5) \in {0, 1}
      /\ Bit(x, 6) \in {0, 1} /\ Bit(x, 7) \in {0, 1} /\ Bit(x, 8) \in {0, 1}
      /\ Bit(x, 9) \in {0, 1} /\ Bit(x, 10) \in {0, 1} /\ Bit(x, 11) \in {0, 1}
      /\ Bit(x, 12) \in {0, 1} /\ Bit(x, 13) \in {0, 1} /\ Bit(x, 14) \in {0, 1}
      /\ Bit(x, 15) \in {0, 1}
  BY DEF Bit
<1> QED BY <1>1, <1>2

LEMMA SparedBySame == ASSUME NEW io, GoodIo(io) PROVE Spared(io, io)
<1>a. PICK a : a = 514
  OBVIOUS
<1>b. a \in DOMAIN io
  BY <1>a DEF GoodIo, Hardware
<1>1. io[514] \in Int
  BY <1>a, <1>b DEF GoodIo, Halfwords
<1>2. \A k \in 0 .. 15 : Bit(io[514], k) <= Bit(io[514], k)
  BY <1>1, BitsAreInt
<1> QED BY <1>2 DEF Spared

LEMMA SparedTwice ==
  ASSUME NEW x, NEW y, NEW z, GoodIo(x), GoodIo(y), GoodIo(z), Spared(x, y), Spared(y, z)
  PROVE  Spared(x, z)
<1>1. ASSUME NEW k \in 0 .. 15
      PROVE  Bit(z[514], k) <= Bit(x[514], k)
  <2>a. PICK a : a = 514
    OBVIOUS
  <2>1. a \in DOMAIN x /\ a \in DOMAIN y /\ a \in DOMAIN z
    BY <2>a DEF GoodIo, Hardware
  <2>2. x[514] \in Int /\ y[514] \in Int /\ z[514] \in Int
    BY <2>a, <2>1 DEF GoodIo, Halfwords
  <2>3. Bit(x[514], k) \in {0, 1} /\ Bit(y[514], k) \in {0, 1} /\ Bit(z[514], k) \in {0, 1}
    BY <2>2, BitsAreInt
  <2>4. Bit(z[514], k) <= Bit(y[514], k) /\ Bit(y[514], k) <= Bit(x[514], k)
    BY DEF Spared
  <2> QED BY <2>3, <2>4
<1> QED BY <1>1 DEF Spared

LEMMA PutSpares ==
  ASSUME NEW io, GoodIo(io), NEW b, b \notin Hardware, NEW w \in Halfwords
  PROVE  GoodIo(Put(io, b, w)) /\ DOMAIN Put(io, b, w) = DOMAIN io /\ Spared(io, Put(io, b, w))
<1>1. GoodIo(Put(io, b, w)) /\ DOMAIN Put(io, b, w) = DOMAIN io
  BY DEF GoodIo, Put
<1>2. \A c \in Hardware : Put(io, b, w)[c] = io[c]
  BY DEF GoodIo, Put
<1>3. /\ Put(io, b, w)[4] = io[4] /\ Put(io, b, w)[6] = io[6]
      /\ Put(io, b, w)[132] = io[132] /\ Put(io, b, w)[514] = io[514]
  BY <1>2 DEF Hardware
<1>4. Spared(io, io)
  BY SparedBySame
<1> QED BY <1>1, <1>3, <1>4 DEF Spared

(* Stores to the registers the hardware reports in. *)
LEMMA PutOver ==
  ASSUME NEW io, GoodIo(io), NEW b \in DOMAIN io, NEW w \in Halfwords
  PROVE  /\ GoodIo(Put(io, b, w)) /\ DOMAIN Put(io, b, w) = DOMAIN io
         /\ Put(io, b, w)[b] = w /\ \A c \in DOMAIN io \ {b} : Put(io, b, w)[c] = io[c]
BY DEF GoodIo, Put

LEMMA PutDispstat ==
  ASSUME NEW io, GoodIo(io), NEW w \in Halfwords, w % 8 = io[4] % 8
  PROVE  Spared(io, Put(io, 4, w)) /\ GoodIo(Put(io, 4, w)) /\ DOMAIN Put(io, 4, w) = DOMAIN io
<1>a. PICK a : a = 4
  OBVIOUS
<1>1. a \in DOMAIN io /\ {6, 132, 514} \subseteq DOMAIN io \ {a}
  BY <1>a DEF GoodIo, Hardware
<1>2. /\ GoodIo(Put(io, a, w)) /\ DOMAIN Put(io, a, w) = DOMAIN io
      /\ Put(io, a, w)[a] = w /\ \A c \in DOMAIN io \ {a} : Put(io, a, w)[c] = io[c]
  BY <1>1, PutOver
<1>3. /\ Put(io, a, w)[6] = io[6] /\ Put(io, a, w)[132] = io[132]
      /\ Put(io, a, w)[514] = io[514]
  BY <1>1, <1>2
<1>4. Spared(io, io)
  BY SparedBySame
<1>5. Put(io, a, w)[4] = w
  BY <1>a, <1>2
<1>6. Spared(io, Put(io, a, w))
  BY <1>3, <1>4, <1>5 DEF Spared
<1> QED BY <1>a, <1>2, <1>6

LEMMA PutSoundcnt ==
  ASSUME NEW io, GoodIo(io), NEW w \in Halfwords, w % 16 = io[132] % 16
  PROVE  Spared(io, Put(io, 132, w)) /\ GoodIo(Put(io, 132, w)) /\ DOMAIN Put(io, 132, w) = DOMAIN io
<1>a. PICK a : a = 132
  OBVIOUS
<1>1. a \in DOMAIN io /\ {4, 6, 514} \subseteq DOMAIN io \ {a}
  BY <1>a DEF GoodIo, Hardware
<1>2. /\ GoodIo(Put(io, a, w)) /\ DOMAIN Put(io, a, w) = DOMAIN io
      /\ Put(io, a, w)[a] = w /\ \A c \in DOMAIN io \ {a} : Put(io, a, w)[c] = io[c]
  BY <1>1, PutOver
<1>3. /\ Put(io, a, w)[4] = io[4] /\ Put(io, a, w)[6] = io[6]
      /\ Put(io, a, w)[514] = io[514]
  BY <1>1, <1>2
<1>4. Spared(io, io)
  BY SparedBySame
<1>5. Put(io, a, w)[132] = w
  BY <1>a, <1>2
<1>6. Spared(io, Put(io, a, w))
  BY <1>3, <1>4, <1>5 DEF Spared
<1> QED BY <1>a, <1>2, <1>6

LEMMA PutIf ==
  ASSUME NEW io, GoodIo(io), NEW w \in Halfwords,
         \A k \in 0 .. 15 : Bit(w, k) <= Bit(io[514], k)
  PROVE  Spared(io, Put(io, 514, w)) /\ GoodIo(Put(io, 514, w)) /\ DOMAIN Put(io, 514, w) = DOMAIN io
<1>a. PICK a : a = 514
  OBVIOUS
<1>1. a \in DOMAIN io /\ {4, 6, 132} \subseteq DOMAIN io \ {a}
  BY <1>a DEF GoodIo, Hardware
<1>2. /\ GoodIo(Put(io, a, w)) /\ DOMAIN Put(io, a, w) = DOMAIN io
      /\ Put(io, a, w)[a] = w /\ \A c \in DOMAIN io \ {a} : Put(io, a, w)[c] = io[c]
  BY <1>1, PutOver
<1>3. /\ Put(io, a, w)[4] = io[4] /\ Put(io, a, w)[6] = io[6]
      /\ Put(io, a, w)[132] = io[132]
  BY <1>1, <1>2
<1>5. Put(io, a, w)[514] = w
  BY <1>a, <1>2
<1>6. Spared(io, Put(io, a, w))
  BY <1>3, <1>5 DEF Spared
<1> QED BY <1>a, <1>2, <1>6

(* Low bits of one halfword under the rest of another. *)
LEMMA LowBits ==
  ASSUME NEW x \in Halfwords, NEW v \in Halfwords
  PROVE  /\ (x % 16) + (v - (v % 16)) \in Halfwords
         /\ ((x % 16) + (v - (v % 16))) % 16 = x % 16
         /\ (x % 8) + (v - (v % 8)) \in Halfwords
         /\ ((x % 8) + (v - (v % 8))) % 8 = x % 8
<1>1. x \in Int /\ v \in Int /\ 0 <= v /\ v <= 65535
  BY DEF Halfwords
<1>2. /\ 0 <= (x % 16) + (v - (v % 16)) /\ (x % 16) + (v - (v % 16)) <= 65535
      /\ 0 <= (x % 8) + (v - (v % 8)) /\ (x % 8) + (v - (v % 8)) <= 65535
  BY <1>1
<1>3. /\ ((x % 16) + (v - (v % 16))) % 16 = x % 16
      /\ ((x % 8) + (v - (v % 8))) % 8 = x % 8
  BY <1>1
<1>4. \A n \in Int : 0 <= n /\ n <= 65535 => n \in Halfwords
  BY DEF Halfwords
<1>5. (x % 16) + (v - (v % 16)) \in Int /\ (x % 8) + (v - (v % 8)) \in Int
  BY <1>1
<1> QED BY <1>2, <1>3, <1>4, <1>5

(* SOUNDCNT_X: the playing bits stay, and off takes every channel with it. *)
LEMMA SoundOn ==
  ASSUME NEW m, NEW v \in Halfwords, Good(m)
  PROVE  LET n == sound_on(m, v)
         IN  /\ Good(n) /\ n.io = Put(m.io, 132, (m.io[132] % 16) + (v - (v % 16)))
             /\ (m.io[132] % 16) + (v - (v % 16)) \in Halfwords
             /\ ((m.io[132] % 16) + (v - (v % 16))) % 16 = m.io[132] % 16
<1>a. PICK a : a = 132
  OBVIOUS
<1>i. m.io[132] \in Halfwords
  BY DEF Good, GoodIo, Hardware
<1>j. PICK i : i = m.io[132]
  OBVIOUS
<1>w. i \in Int /\ v \in Int
  BY <1>i, <1>j DEF Halfwords
<1>f. Field(i, 0, 4) = i % 16 /\ WithoutLow(v, 4) = v - (v % 16)
  BY <1>w, SmallFields
<1>p. PICK w : w = (m.io[132] % 16) + (v - (v % 16))
  OBVIOUS
<1>0. w \in Halfwords /\ w % 16 = m.io[132] % 16
  BY <1>i, <1>j, <1>p, LowBits
<1> DEFINE on == Bit(v, 7) = 1
           off == [ch \in DOMAIN m.gbc |-> [m.gbc[ch] EXCEPT !.active_flag = FALSE]]
<1>1. PICK k : k = [m EXCEPT !.sound_on = on]
  OBVIOUS
<1>2. PICK gbc : gbc = IF on THEN m.gbc ELSE off
  OBVIOUS
<1>3. PICK n : n = [k EXCEPT !.gbc = gbc]
  OBVIOUS
<1>4. Good(k) /\ k.io = m.io /\ k.gbc = m.gbc
  BY <1>1 DEF Good, IsDevice, DeviceFields
<1>5. sound_on(m, v) = Set(n, a, w)
  <2>1. Field(m.io[132], 0, 4) + WithoutLow(v, 4) = w
    BY <1>f, <1>j, <1>p
  <2>2. sound_on(m, v) = Set(n, a, Field(m.io[132], 0, 4) + WithoutLow(v, 4))
    BY <1>a, <1>1, <1>2, <1>3, <1>4 DEF sound_on
  <2> QED BY <2>1, <2>2
<1>6. GoodGbc(m.gbc) /\ DOMAIN m.gbc = Channels
  BY DEF Good, GoodGbc
<1>7. GoodGbc(off)
  <2>1. off = [ch \in Channels |-> off[ch]]
    BY <1>6
  <2>2. ASSUME NEW c \in Channels
        PROVE  IsChannel(off[c]) /\ Envelope(off[c])
    <3>1. off[c] = [m.gbc[c] EXCEPT !.active_flag = FALSE]
      BY <1>6
    <3>2. IsChannel(m.gbc[c]) /\ Envelope(m.gbc[c])
      BY <1>6 DEF GoodGbc
    <3> HIDE DEF off
    <3> QED BY <3>1, <3>2, FlagGood
  <2> HIDE DEF off
  <2> QED BY <2>1, <2>2 DEF GoodGbc
<1>8. GoodGbc(gbc)
  <2> HIDE DEF off, on
  <2> QED BY <1>2, <1>6, <1>7
<1>9. Good(n) /\ n.io = m.io
  BY <1>3, <1>4, <1>8 DEF Good, IsDevice, DeviceFields
<1>10. Good(Set(n, a, w)) /\ Set(n, a, w).io = Put(n.io, a, w)
  BY <1>9, <1>0, SetIo
<1>11. Good(sound_on(m, v)) /\ sound_on(m, v).io = Put(m.io, 132, w)
  BY <1>a, <1>5, <1>9, <1>10
<1> QED BY <1>p, <1>0, <1>11

LEMMA Queue ==
  ASSUME NEW m, Good(m), NEW ch, NEW bytes
  PROVE  Good(sound_timer_queue(m, ch, bytes)) /\ sound_timer_queue(m, ch, bytes).io = m.io
<1>1. PICK n : n = [m EXCEPT !.fifo[ch] = @ \o bytes]
  OBVIOUS
<1>2. Good(n) /\ n.io = m.io
  BY <1>1 DEF Good, IsDevice, DeviceFields
<1> QED BY <1>1, <1>2 DEF sound_timer_queue

(* DMAxCNT_H: the transfer starts, waits or is off; the register keeps what was stored, *)
(* but for the enable bit of a transfer that has ended.                                 *)
LEMMA TriggerDma ==
  ASSUME NEW m, Good(m), NEW n \in 0 .. 3, NEW v \in Halfwords
  PROVE  LET r == trigger_dma(m, n, v)
         IN  Good(r) /\ DOMAIN r.io = DOMAIN m.io /\ Spared(m.io, r.io)
<1>a. PICK a : a = 186 + 12 * n
  OBVIOUS
<1>1. a \notin Hardware
  BY <1>a DEF Hardware
<1>2. GoodIo(m.io)
  BY DEF Good
<1>3. CASE Bit(v, 15) = 0
  <2>1. PICK k : k = [m EXCEPT !.dma[n] = <<"inactive">>]
    OBVIOUS
  <2>2. Good(k) /\ k.io = m.io
    BY <2>1 DEF Good, IsDevice, DeviceFields
  <2>3. trigger_dma(m, n, v) = Set(k, a, v)
    BY <1>a, <1>3, <2>1 DEF trigger_dma
  <2>4. Good(Set(k, a, v)) /\ Set(k, a, v).io = Put(m.io, a, v)
    BY <2>2, SetIo
  <2>5. DOMAIN Put(m.io, a, v) = DOMAIN m.io /\ Spared(m.io, Put(m.io, a, v))
    BY <1>1, <1>2, PutSpares
  <2> QED BY <2>3, <2>4, <2>5
<1>4. CASE Bit(v, 15) = 1 /\ m.dma[n] # <<"inactive">>
  <2>1. trigger_dma(m, n, v) = m
    BY <1>4 DEF trigger_dma
  <2>2. Spared(m.io, m.io)
    BY <1>2, SparedBySame
  <2> QED BY <2>1, <2>2
<1>5. CASE Bit(v, 15) = 1 /\ m.dma[n] = <<"inactive">> /\ Field(v, 12, 2) = 0
  <2>1. PICK k : k = [m EXCEPT !.calls = Append(@, <<n, v>>)]
    OBVIOUS
  <2>2. Good(k) /\ k.io = m.io
    BY <2>1 DEF Good, IsDevice, DeviceFields
  <2>w. PICK w : w = v - 2^15
    OBVIOUS
  <2>3. trigger_dma(m, n, v) = Set(k, a, w)
    BY <1>a, <1>5, <2>1, <2>w DEF trigger_dma
  <2>4. w \in Halfwords
    BY <1>5, <2>w DEF Halfwords, Bit
  <2>5. Good(Set(k, a, w)) /\ Set(k, a, w).io = Put(m.io, a, w)
    BY <2>2, <2>4, SetIo
  <2>6. DOMAIN Put(m.io, a, w) = DOMAIN m.io /\ Spared(m.io, Put(m.io, a, w))
    BY <1>1, <1>2, <2>4, PutSpares
  <2> QED BY <2>3, <2>5, <2>6
<1>6. CASE Bit(v, 15) = 1 /\ m.dma[n] = <<"inactive">> /\ Field(v, 12, 2) # 0
  <2>1. PICK k : k = [m EXCEPT !.dma[n] = <<"waiting", v>>]
    OBVIOUS
  <2>2. Good(k) /\ k.io = m.io
    BY <2>1 DEF Good, IsDevice, DeviceFields
  <2>3. trigger_dma(m, n, v) = Set(k, a, v)
    BY <1>a, <1>6, <2>1 DEF trigger_dma
  <2>4. Good(Set(k, a, v)) /\ Set(k, a, v).io = Put(m.io, a, v)
    BY <2>2, SetIo
  <2>5. DOMAIN Put(m.io, a, v) = DOMAIN m.io /\ Spared(m.io, Put(m.io, a, v))
    BY <1>1, <1>2, PutSpares
  <2> QED BY <2>3, <2>4, <2>5
<1>7. Bit(v, 15) \in {0, 1}
  BY BitsAreInt DEF Halfwords
<1> QED BY <1>3, <1>4, <1>5, <1>6, <1>7

LEMMA TimerSet ==
  ASSUME NEW timer, GoodTimers(timer), NEW n \in 0 .. 3, NEW t, IsTimer(t)
  PROVE  GoodTimers([timer EXCEPT ![n] = t])
BY DEF GoodTimers

LEMMA CountTimer ==
  ASSUME NEW m, Good(m), NEW n \in 0 .. 3, NEW v \in Halfwords
  PROVE  Good(count_timer(m, n, v)) /\ count_timer(m, n, v).io = m.io
<1>r. PICK r : r = 2^16 - v
  OBVIOUS
<1>0. r \in Int
  BY <1>r DEF Halfwords
<1>1. PICK t : t = [m.timer[n] EXCEPT !.reload = r]
  OBVIOUS
<1>2. IsTimer(m.timer[n]) /\ GoodTimers(m.timer)
  BY DEF Good, GoodTimers
<1>3. IsTimer(t)
  BY <1>0, <1>1, <1>2 DEF IsTimer, TimerFields
<1>4. PICK k : k = [m EXCEPT !.timer[n] = t]
  OBVIOUS
<1>5. Good(k) /\ k.io = m.io
  BY <1>2, <1>3, <1>4, TimerSet DEF Good, IsDevice, DeviceFields
<1>6. count_timer(m, n, v) = k
  BY <1>r, <1>1, <1>4 DEF count_timer
<1> QED BY <1>5, <1>6

(* TMxCNT_H: a timer that starts shows its reload value in TMxCNT_L. *)
LEMMA TriggerTimer ==
  ASSUME NEW m, Good(m), NEW n \in 0 .. 3, NEW v \in Halfwords
  PROVE  LET r == trigger_timer(m, n, v)
         IN  Good(r) /\ DOMAIN r.io = DOMAIN m.io /\ Spared(m.io, r.io)
<1>a. PICK a : a = 258 + 4 * n
  OBVIOUS
<1>b. PICK b : b = 256 + 4 * n
  OBVIOUS
<1>1. a \notin Hardware /\ b \notin Hardware
  BY <1>a, <1>b DEF Hardware
<1>2. GoodIo(m.io) /\ IsTimer(m.timer[n]) /\ GoodTimers(m.timer)
  BY DEF Good, GoodTimers
<1> DEFINE t == m.timer[n]
           started == [t EXCEPT !.status = IF Bit(v, 2) = 1 THEN "cascade" ELSE "prescale",
                                !.prescale = <<0, 6, 8, 10>>[Field(v, 0, 2) + 1],
                                !.irq = Bit(v, 6)]
           starts == Bit(v, 7) = 1 /\ t.status = "inactive"
           set == IF starts THEN started
                  ELSE IF Bit(v, 7) = 0 THEN [t EXCEPT !.status = "inactive"] ELSE t
<1>3. IsTimer(set)
  <2>1. PICK s, p, i : started = [t EXCEPT !.status = s, !.prescale = p, !.irq = i]
    OBVIOUS
  <2>2. IsTimer([t EXCEPT !.status = s, !.prescale = p, !.irq = i])
    BY <1>2 DEF IsTimer, TimerFields
  <2>3. IsTimer(started)
    BY <2>1, <2>2
  <2>4. IsTimer([t EXCEPT !.status = "inactive"])
    BY <1>2 DEF IsTimer, TimerFields
  <2> QED BY <1>2, <2>3, <2>4
<1>w. PICK w : w = (2^16 - t.reload) % 2^16
  OBVIOUS
<1>4. w \in Halfwords
  <2>1. t.reload \in Int
    BY <1>2 DEF IsTimer
  <2>2. \A x \in Int : (65536 - x) % 65536 \in Halfwords
    BY DEF Halfwords
  <2>3. 2^16 = 65536
    OBVIOUS
  <2> QED BY <1>w, <2>1, <2>2, <2>3
<1>5. PICK k : k = IF starts THEN Set(m, b, w) ELSE m
  OBVIOUS
<1>6. Good(k) /\ k.timer = m.timer /\ DOMAIN k.io = DOMAIN m.io
      /\ (k.io = m.io \/ k.io = Put(m.io, b, w))
  <2>1. Good(Set(m, b, w)) /\ Set(m, b, w).io = Put(m.io, b, w)
    BY <1>4, SetIo
  <2>2. Set(m, b, w).timer = m.timer
    BY <1>4, SetIo DEF DeviceFields
  <2>3. DOMAIN Put(m.io, b, w) = DOMAIN m.io
    BY <1>1, <1>2, <1>4, PutSpares
  <2> HIDE DEF starts
  <2> QED BY <1>5, <2>1, <2>2, <2>3
<1>7. PICK j : j = [k EXCEPT !.timer[n] = set]
  OBVIOUS
<1>8. trigger_timer(m, n, v) = Set(j, a, v)
  BY <1>a, <1>b, <1>w, <1>5, <1>7 DEF trigger_timer
<1> HIDE DEF set
<1>9. Good(j) /\ j.io = k.io
  BY <1>2, <1>3, <1>6, <1>7, TimerSet DEF Good, IsDevice, DeviceFields
<1>10. Good(Set(j, a, v)) /\ Set(j, a, v).io = Put(k.io, a, v)
  BY <1>9, SetIo
<1>11. GoodIo(k.io)
  BY <1>6 DEF Good
<1>12. DOMAIN Put(k.io, a, v) = DOMAIN k.io /\ Spared(k.io, Put(k.io, a, v))
  BY <1>1, <1>11, PutSpares
<1>13. Spared(m.io, k.io)
  BY <1>1, <1>2, <1>4, <1>6, SparedBySame, PutSpares
<1>15. GoodIo(Put(k.io, a, v))
  BY <1>1, <1>11, PutSpares
<1>14. Spared(m.io, Put(k.io, a, v))
  BY <1>2, <1>11, <1>15, <1>12, <1>13, SparedTwice
<1> QED BY <1>6, <1>8, <1>10, <1>12, <1>14

(* What every store leaves behind. *)
Kept(m, r) == Good(r) /\ DOMAIN r.io = DOMAIN m.io /\ Spared(m.io, r.io)

LEMMA KeptSame ==
  ASSUME NEW m, Good(m), NEW r, Good(r), r.io = m.io
  PROVE  Kept(m, r)
BY SparedBySame DEF Kept, Good

LEMMA KeptPut ==
  ASSUME NEW m, Good(m), NEW a, a \notin Hardware, NEW v \in Halfwords, NEW r, Good(r),
         r.io = Put(m.io, a, v)
  PROVE  Kept(m, r)
BY PutSpares DEF Kept, Good

LEMMA KeptTwice ==
  ASSUME NEW m, Good(m), NEW r, Kept(m, r), NEW q, Kept(r, q)
  PROVE  Kept(m, q)
BY SparedTwice DEF Kept, Good

(* Stores that only keep the halfword, or mark something to be brought up to date. *)
LEMMA KeptSet ==
  ASSUME NEW m, Good(m), NEW a, a \notin Hardware, NEW v \in Halfwords
  PROVE  Kept(m, Set(m, a, v))
BY SetIo, KeptPut

OamMarked(r, x) == [r EXCEPT !.oam_update = x]
WaveMarked(r, x) == [r EXCEPT !.wave_update = x]

LEMMA KeptMarks ==
  ASSUME NEW m, Good(m), NEW r, Kept(m, r), NEW x
  PROVE  Kept(m, OamMarked(r, x)) /\ Kept(m, WaveMarked(r, x))
<1>1. ASSUME NEW q, q = OamMarked(r, x) \/ q = WaveMarked(r, x)
      PROVE  Kept(m, q)
  <2>1. Good(q) /\ q.io = r.io
    BY <1>1 DEF Kept, Good, IsDevice, DeviceFields, OamMarked, WaveMarked
  <2> QED BY <2>1 DEF Kept
<1> QED BY <1>1

LEMMA KeptHalted ==
  ASSUME NEW m, Good(m), NEW v
  PROVE  Kept(m, Halted(m, v))
<1> DEFINE x == IF Bit(v, 0) = 0 THEN "halt" ELSE "stop"
<1>1. PICK q : q = [m EXCEPT !.alert = "halt", !.halt = x]
  OBVIOUS
<1>2. Halted(m, v) = q
  BY <1>1 DEF Halted
<1> HIDE DEF x
<1>3. Good(q) /\ q.io = m.io
  BY <1>1 DEF Good, IsDevice, DeviceFields
<1> QED BY <1>2, <1>3, KeptSame

LEMMA KeptAffine ==
  ASSUME NEW m, Good(m), NEW r, Kept(m, r), NEW a
  PROVE  Kept(m, Affine(r, a))
<1> DEFINE x == <<r.io[a], r.io[a + 2] % 2^12>>
<1>1. PICK q : q = [r EXCEPT !.affine[a] = x]
  OBVIOUS
<1>2. Affine(r, a) = q
  BY <1>1 DEF Affine
<1> HIDE DEF x
<1>3. Good(q) /\ q.io = r.io
  BY <1>1 DEF Kept, Good, IsDevice, DeviceFields
<1> QED BY <1>2, <1>3 DEF Kept

(* DISPSTAT's state bits and the requests of IF. *)
LEMMA KeptDispstat ==
  ASSUME NEW m, Good(m), NEW a, a = 4, NEW v \in Halfwords
  PROVE  LET w == Field(m.io[4], 0, 3) + WithoutLow(v, 3)
         IN  w \in Halfwords /\ w % 8 = m.io[4] % 8 /\ Kept(m, Set(m, a, w))
<1>1. a \in DOMAIN m.io /\ GoodIo(m.io)
  BY DEF Good, GoodIo, Hardware
<1>2. PICK i : i = m.io[4]
  OBVIOUS
<1>3. i \in Halfwords
  BY <1>1, <1>2 DEF GoodIo
<1>4. i \in Int /\ v \in Int
  BY <1>3 DEF Halfwords
<1>5. Field(i, 0, 3) = i % 8 /\ WithoutLow(v, 3) = v - (v % 8)
  BY <1>4, SmallFields
<1>6. PICK w : w = (i % 8) + (v - (v % 8))
  OBVIOUS
<1>7. w \in Halfwords /\ w % 8 = i % 8
  BY <1>3, <1>6, LowBits
<1>8. Good(Set(m, a, w)) /\ Set(m, a, w).io = Put(m.io, a, w)
  BY <1>7, SetIo
<1>9. Spared(m.io, Put(m.io, 4, w)) /\ DOMAIN Put(m.io, 4, w) = DOMAIN m.io
  BY <1>1, <1>2, <1>7, PutDispstat
<1>10. Kept(m, Set(m, a, w))
  BY <1>8, <1>9 DEF Kept
<1>11. w = Field(m.io[4], 0, 3) + WithoutLow(v, 3)
  BY <1>2, <1>5, <1>6
<1> QED BY <1>2, <1>7, <1>10, <1>11

LEMMA KeptSoundOn ==
  ASSUME NEW m, Good(m), NEW v \in Halfwords
  PROVE  Kept(m, sound_on(m, v))
<1>1. PICK w : w = (m.io[132] % 16) + (v - (v % 16))
  OBVIOUS
<1>2. /\ Good(sound_on(m, v)) /\ sound_on(m, v).io = Put(m.io, 132, w)
      /\ w \in Halfwords /\ w % 16 = m.io[132] % 16
  BY <1>1, SoundOn
<1>3. GoodIo(m.io)
  BY DEF Good
<1>4. Spared(m.io, Put(m.io, 132, w)) /\ DOMAIN Put(m.io, 132, w) = DOMAIN m.io
  BY <1>2, <1>3, PutSoundcnt
<1> QED BY <1>2, <1>4 DEF Kept
-----------------------------------------------------------------------------

(* Binary digits: a number is the sum of its bits, and a sum of digits has them *)
(* as its bits.                                                                 *)
Digits == [0 .. 15 -> {0, 1}]
SumOf(d) ==
  1 * d[0] + 2 * d[1] + 4 * d[2] + 8 * d[3] + 16 * d[4] + 32 * d[5] + 64 * d[6] + 128 * d[7]
  + 256 * d[8] + 512 * d[9] + 1024 * d[10] + 2048 * d[11] + 4096 * d[12] + 8192 * d[13] + 16384 * d[14] + 32768 * d[15]
BitsOf(x) == [k \in 0 .. 15 |-> Bit(x, k)]



LEMMA Places == 0 .. 15 = {0, 1, 2, 3, 4, 5, 6, 7, 8, 9, 10, 11, 12, 13, 14, 15}
OBVIOUS

LEMMA DigitsAreBits ==
  ASSUME NEW d \in Digits
  PROVE  SumOf(d) \in Halfwords /\ \A k \in 0 .. 15 : Bit(SumOf(d), k) = d[k]

<1>p. PICK d0, d1, d2, d3, d4, d5, d6, d7, d8, d9, d10, d11, d12, d13, d14, d15 :
        /\ d0 = d[0] /\ d1 = d[1] /\ d2 = d[2] /\ d3 = d[3]
        /\ d4 = d[4] /\ d5 = d[5] /\ d6 = d[6] /\ d7 = d[7]
        /\ d8 = d[8] /\ d9 = d[9] /\ d10 = d[10] /\ d11 = d[11]
        /\ d12 = d[12] /\ d13 = d[13] /\ d14 = d[14] /\ d15 = d[15]
  OBVIOUS
<1>t. /\ d0 \in {0, 1} /\ d1 \in {0, 1} /\ d2 \in {0, 1} /\ d3 \in {0, 1}
      /\ d4 \in {0, 1} /\ d5 \in {0, 1} /\ d6 \in {0, 1} /\ d7 \in {0, 1}
      /\ d8 \in {0, 1} /\ d9 \in {0, 1} /\ d10 \in {0, 1} /\ d11 \in {0, 1}
      /\ d12 \in {0, 1} /\ d13 \in {0, 1} /\ d14 \in {0, 1} /\ d15 \in {0, 1}
  BY <1>p, Places DEF Digits
<1>i. /\ d0 \in Int /\ d1 \in Int /\ d2 \in Int /\ d3 \in Int
      /\ d4 \in Int /\ d5 \in Int /\ d6 \in Int /\ d7 \in Int
      /\ d8 \in Int /\ d9 \in Int /\ d10 \in Int /\ d11 \in Int
      /\ d12 \in Int /\ d13 \in Int /\ d14 \in Int /\ d15 \in Int
  BY <1>t
<1>s. PICK s : s = 1 * d0 + 2 * d1 + 4 * d2 + 8 * d3 + 16 * d4 + 32 * d5 + 64 * d6 + 128 * d7
             + 256 * d8 + 512 * d9 + 1024 * d10 + 2048 * d11 + 4096 * d12 + 8192 * d13 + 16384 * d14 + 32768 * d15
  OBVIOUS
<1>0. SumOf(d) = s
  BY <1>p, <1>s DEF SumOf
<1>h. s \in Int /\ 0 <= s /\ s <= 65535
  BY <1>s, <1>t
<1>b0. Bit(s, 0) = d0
  <2>1. PICK lo : lo = 0
    OBVIOUS
  <2>2. PICK hi : hi = 1 * d1 + 2 * d2 + 4 * d3 + 8 * d4 + 16 * d5 + 32 * d6 + 64 * d7 + 128 * d8 + 256 * d9 + 512 * d10 + 1024 * d11 + 2048 * d12 + 4096 * d13 + 8192 * d14 + 16384 * d15
    OBVIOUS
  <2>3. lo \in Nat /\ lo <= 0 /\ hi \in Nat
    BY <1>t, <2>1, <2>2
  <2>4. s = lo + 1 * d0 + 2 * hi
    BY <1>i, <1>s, <2>1, <2>2
  <2>5. s \div 1 = d0 + 2 * hi /\ (d0 + 2 * hi) % 2 = d0
    BY <1>t, <2>3, <2>4
  <2> QED BY <2>5 DEF Bit
<1>b1. Bit(s, 1) = d1
  <2>1. PICK lo : lo = 1 * d0
    OBVIOUS
  <2>2. PICK hi : hi = 1 * d2 + 2 * d3 + 4 * d4 + 8 * d5 + 16 * d6 + 32 * d7 + 64 * d8 + 128 * d9 + 256 * d10 + 512 * d11 + 1024 * d12 + 2048 * d13 + 4096 * d14 + 8192 * d15
    OBVIOUS
  <2>3. lo \in Nat /\ lo <= 1 /\ hi \in Nat
    BY <1>t, <2>1, <2>2
  <2>4. s = lo + 2 * d1 + 4 * hi
    BY <1>i, <1>s, <2>1, <2>2
  <2>5. s \div 2 = d1 + 2 * hi /\ (d1 + 2 * hi) % 2 = d1
    BY <1>t, <2>3, <2>4
  <2> QED BY <2>5 DEF Bit
<1>b2. Bit(s, 2) = d2
  <2>1. PICK lo : lo = 1 * d0 + 2 * d1
    OBVIOUS
  <2>2. PICK hi : hi = 1 * d3 + 2 * d4 + 4 * d5 + 8 * d6 + 16 * d7 + 32 * d8 + 64 * d9 + 128 * d10 + 256 * d11 + 512 * d12 + 1024 * d13 + 2048 * d14 + 4096 * d15
    OBVIOUS
  <2>3. lo \in Nat /\ lo <= 3 /\ hi \in Nat
    BY <1>t, <2>1, <2>2
  <2>4. s = lo + 4 * d2 + 8 * hi
    BY <1>i, <1>s, <2>1, <2>2
  <2>5. s \div 4 = d2 + 2 * hi /\ (d2 + 2 * hi) % 2 = d2
    BY <1>t, <2>3, <2>4
  <2> QED BY <2>5 DEF Bit
<1>b3. Bit(s, 3) = d3
  <2>1. PICK lo : lo = 1 * d0 + 2 * d1 + 4 * d2
    OBVIOUS
  <2>2. PICK hi : hi = 1 * d4 + 2 * d5 + 4 * d6 + 8 * d7 + 16 * d8 + 32 * d9 + 64 * d10 + 128 * d11 + 256 * d12 + 512 * d13 + 1024 * d14 + 2048 * d15
    OBVIOUS
  <2>3. lo \in Nat /\ lo <= 7 /\ hi \in Nat
    BY <1>t, <2>1, <2>2
  <2>4. s = lo + 8 * d3 + 16 * hi
    BY <1>i, <1>s, <2>1, <2>2
  <2>5. s \div 8 = d3 + 2 * hi /\ (d3 + 2 * hi) % 2 = d3
    BY <1>t, <2>3, <2>4
  <2> QED BY <2>5 DEF Bit
<1>b4. Bit(s, 4) = d4
  <2>1. PICK lo : lo = 1 * d0 + 2 * d1 + 4 * d2 + 8 * d3
    OBVIOUS
  <2>2. PICK hi : hi = 1 * d5 + 2 * d6 + 4 * d7 + 8 * d8 + 16 * d9 + 32 * d10 + 64 * d11 + 128 * d12 + 256 * d13 + 512 * d14 + 1024 * d15
    OBVIOUS
  <2>3. lo \in Nat /\ lo <= 15 /\ hi \in Nat
    BY <1>t, <2>1, <2>2
  <2>4. s = lo + 16 * d4 + 32 * hi
    BY <1>i, <1>s, <2>1, <2>2
  <2>5. s \div 16 = d4 + 2 * hi /\ (d4 + 2 * hi) % 2 = d4
    BY <1>t, <2>3, <2>4
  <2> QED BY <2>5 DEF Bit
<1>b5. Bit(s, 5) = d5
  <2>1. PICK lo : lo = 1 * d0 + 2 * d1 + 4 * d2 + 8 * d3 + 16 * d4
    OBVIOUS
  <2>2. PICK hi : hi = 1 * d6 + 2 * d7 + 4 * d8 + 8 * d9 + 16 * d10 + 32 * d11 + 64 * d12 + 128 * d13 + 256 * d14 + 512 * d15
    OBVIOUS
  <2>3. lo \in Nat /\ lo <= 31 /\ hi \in Nat
    BY <1>t, <2>1, <2>2
  <2>4. s = lo + 32 * d5 + 64 * hi
    BY <1>i, <1>s, <2>1, <2>2
  <2>5. s \div 32 = d5 + 2 * hi /\ (d5 + 2 * hi) % 2 = d5
    BY <1>t, <2>3, <2>4
  <2> QED BY <2>5 DEF Bit
<1>b6. Bit(s, 6) = d6
  <2>1. PICK lo : lo = 1 * d0 + 2 * d1 + 4 * d2 + 8 * d3 + 16 * d4 + 32 * d5
    OBVIOUS
  <2>2. PICK hi : hi = 1 * d7 + 2 * d8 + 4 * d9 + 8 * d10 + 16 * d11 + 32 * d12 + 64 * d13 + 128 * d14 + 256 * d15
    OBVIOUS
  <2>3. lo \in Nat /\ lo <= 63 /\ hi \in Nat
    BY <1>t, <2>1, <2>2
  <2>4. s = lo + 64 * d6 + 128 * hi
    BY <1>i, <1>s, <2>1, <2>2
  <2>5. s \div 64 = d6 + 2 * hi /\ (d6 + 2 * hi) % 2 = d6
    BY <1>t, <2>3, <2>4
  <2> QED BY <2>5 DEF Bit
<1>b7. Bit(s, 7) = d7
  <2>1. PICK lo : lo = 1 * d0 + 2 * d1 + 4 * d2 + 8 * d3 + 16 * d4 + 32 * d5 + 64 * d6
    OBVIOUS
  <2>2. PICK hi : hi = 1 * d8 + 2 * d9 + 4 * d10 + 8 * d11 + 16 * d12 + 32 * d13 + 64 * d14 + 128 * d15
    OBVIOUS
  <2>3. lo \in Nat /\ lo <= 127 /\ hi \in Nat
    BY <1>t, <2>1, <2>2
  <2>4. s = lo + 128 * d7 + 256 * hi
    BY <1>i, <1>s, <2>1, <2>2
  <2>5. s \div 128 = d7 + 2 * hi /\ (d7 + 2 * hi) % 2 = d7
    BY <1>t, <2>3, <2>4
  <2> QED BY <2>5 DEF Bit
<1>b8. Bit(s, 8) = d8
  <2>1. PICK lo : lo = 1 * d0 + 2 * d1 + 4 * d2 + 8 * d3 + 16 * d4 + 32 * d5 + 64 * d6 + 128 * d7
    OBVIOUS
  <2>2. PICK hi : hi = 1 * d9 + 2 * d10 + 4 * d11 + 8 * d12 + 16 * d13 + 32 * d14 + 64 * d15
    OBVIOUS
  <2>3. lo \in Nat /\ lo <= 255 /\ hi \in Nat
    BY <1>t, <2>1, <2>2
  <2>4. s = lo + 256 * d8 + 512 * hi
    BY <1>i, <1>s, <2>1, <2>2
  <2>5. s \div 256 = d8 + 2 * hi /\ (d8 + 2 * hi) % 2 = d8
    BY <1>t, <2>3, <2>4
  <2> QED BY <2>5 DEF Bit
<1>b9. Bit(s, 9) = d9
  <2>1. PICK lo : lo = 1 * d0 + 2 * d1 + 4 * d2 + 8 * d3 + 16 * d4 + 32 * d5 + 64 * d6 + 128 * d7 + 256 * d8
    OBVIOUS
  <2>2. PICK hi : hi = 1 * d10 + 2 * d11 + 4 * d12 + 8 * d13 + 16 * d14 + 32 * d15
    OBVIOUS
  <2>3. lo \in Nat /\ lo <= 511 /\ hi \in Nat
    BY <1>t, <2>1, <2>2
  <2>4. s = lo + 512 * d9 + 1024 * hi
    BY <1>i, <1>s, <2>1, <2>2
  <2>5. s \div 512 = d9 + 2 * hi /\ (d9 + 2 * hi) % 2 = d9
    BY <1>t, <2>3, <2>4
  <2> QED BY <2>5 DEF Bit
<1>b10. Bit(s, 10) = d10
  <2>1. PICK lo : lo = 1 * d0 + 2 * d1 + 4 * d2 + 8 * d3 + 16 * d4 + 32 * d5 + 64 * d6 + 128 * d7 + 256 * d8 + 512 * d9
    OBVIOUS
  <2>2. PICK hi : hi = 1 * d11 + 2 * d12 + 4 * d13 + 8 * d14 + 16 * d15
    OBVIOUS
  <2>3. lo \in Nat /\ lo <= 1023 /\ hi \in Nat
    BY <1>t, <2>1, <2>2
  <2>4. s = lo + 1024 * d10 + 2048 * hi
    BY <1>i, <1>s, <2>1, <2>2
  <2>5. s \div 1024 = d10 + 2 * hi /\ (d10 + 2 * hi) % 2 = d10
    BY <1>t, <2>3, <2>4
  <2> QED BY <2>5 DEF Bit
<1>b11. Bit(s, 11) = d11
  <2>1. PICK lo : lo = 1 * d0 + 2 * d1 + 4 * d2 + 8 * d3 + 16 * d4 + 32 * d5 + 64 * d6 + 128 * d7 + 256 * d8 + 512 * d9 + 1024 * d10
    OBVIOUS
  <2>2. PICK hi : hi = 1 * d12 + 2 * d13 + 4 * d14 + 8 * d15
    OBVIOUS
  <2>3. lo \in Nat /\ lo <= 2047 /\ hi \in Nat
    BY <1>t, <2>1, <2>2
  <2>4. s = lo + 2048 * d11 + 4096 * hi
    BY <1>i, <1>s, <2>1, <2>2
  <2>5. s \div 2048 = d11 + 2 * hi /\ (d11 + 2 * hi) % 2 = d11
    BY <1>t, <2>3, <2>4
  <2> QED BY <2>5 DEF Bit
<1>b12. Bit(s, 12) = d12
  <2>1. PICK lo : lo = 1 * d0 + 2 * d1 + 4 * d2 + 8 * d3 + 16 * d4 + 32 * d5 + 64 * d6 + 128 * d7 + 256 * d8 + 512 * d9 + 1024 * d10 + 2048 * d11
    OBVIOUS
  <2>2. PICK hi : hi = 1 * d13 + 2 * d14 + 4 * d15
    OBVIOUS
  <2>3. lo \in Nat /\ lo <= 4095 /\ hi \in Nat
    BY <1>t, <2>1, <2>2
  <2>4. s = lo + 4096 * d12 + 8192 * hi
    BY <1>i, <1>s, <2>1, <2>2
  <2>5. s \div 4096 = d12 + 2 * hi /\ (d12 + 2 * hi) % 2 = d12
    BY <1>t, <2>3, <2>4
  <2> QED BY <2>5 DEF Bit
<1>b13. Bit(s, 13) = d13
  <2>1. PICK lo : lo = 1 * d0 + 2 * d1 + 4 * d2 + 8 * d3 + 16 * d4 + 32 * d5 + 64 * d6 + 128 * d7 + 256 * d8 + 512 * d9 + 1024 * d10 + 2048 * d11 + 4096 * d12
    OBVIOUS
  <2>2. PICK hi : hi = 1 * d14 + 2 * d15
    OBVIOUS
  <2>3. lo \in Nat /\ lo <= 8191 /\ hi \in Nat
    BY <1>t, <2>1, <2>2
  <2>4. s = lo + 8192 * d13 + 16384 * hi
    BY <1>i, <1>s, <2>1, <2>2
  <2>5. s \div 8192 = d13 + 2 * hi /\ (d13 + 2 * hi) % 2 = d13
    BY <1>t, <2>3, <2>4
  <2> QED BY <2>5 DEF Bit
<1>b14. Bit(s, 14) = d14
  <2>1. PICK lo : lo = 1 * d0 + 2 * d1 + 4 * d2 + 8 * d3 + 16 * d4 + 32 * d5 + 64 * d6 + 128 * d7 + 256 * d8 + 512 * d9 + 1024 * d10 + 2048 * d11 + 4096 * d12 + 8192 * d13
    OBVIOUS
  <2>2. PICK hi : hi = 1 * d15
    OBVIOUS
  <2>3. lo \in Nat /\ lo <= 16383 /\ hi \in Nat
    BY <1>t, <2>1, <2>2
  <2>4. s = lo + 16384 * d14 + 32768 * hi
    BY <1>i, <1>s, <2>1, <2>2
  <2>5. s \div 16384 = d14 + 2 * hi /\ (d14 + 2 * hi) % 2 = d14
    BY <1>t, <2>3, <2>4
  <2> QED BY <2>5 DEF Bit
<1>b15. Bit(s, 15) = d15
  <2>1. PICK lo : lo = 1 * d0 + 2 * d1 + 4 * d2 + 8 * d3 + 16 * d4 + 32 * d5 + 64 * d6 + 128 * d7 + 256 * d8 + 512 * d9 + 1024 * d10 + 2048 * d11 + 4096 * d12 + 8192 * d13 + 16384 * d14
    OBVIOUS
  <2>2. PICK hi : hi = 0
    OBVIOUS
  <2>3. lo \in Nat /\ lo <= 32767 /\ hi \in Nat
    BY <1>t, <2>1, <2>2
  <2>4. s = lo + 32768 * d15 + 65536 * hi
    BY <1>i, <1>s, <2>1, <2>2
  <2>5. s \div 32768 = d15 + 2 * hi /\ (d15 + 2 * hi) % 2 = d15
    BY <1>t, <2>3, <2>4
  <2> QED BY <2>5 DEF Bit
<1>1. \A k \in 0 .. 15 : Bit(s, k) = d[k]
  BY <1>p, Places, <1>b0, <1>b1, <1>b2, <1>b3, <1>b4, <1>b5, <1>b6, <1>b7, <1>b8, <1>b9, <1>b10, <1>b11, <1>b12, <1>b13, <1>b14, <1>b15
<1> QED BY <1>0, <1>1, <1>h DEF Halfwords

LEMMA BitsAreDigits ==
  ASSUME NEW x \in Halfwords
  PROVE  BitsOf(x) \in Digits /\ SumOf(BitsOf(x)) = x
<1>0. x \in Int /\ 0 <= x /\ x <= 65535
  BY DEF Halfwords
<1>1. BitsOf(x) \in Digits
  BY <1>0, BitsAreInt DEF BitsOf, Digits
<1>2. PICK q1, q2, q3, q4, q5, q6, q7, q8, q9, q10, q11, q12, q13, q14, q15, q16 :
        /\ q1 = x \div 2 /\ q2 = x \div 4 /\ q3 = x \div 8 /\ q4 = x \div 16
        /\ q5 = x \div 32 /\ q6 = x \div 64 /\ q7 = x \div 128 /\ q8 = x \div 256
        /\ q9 = x \div 512 /\ q10 = x \div 1024 /\ q11 = x \div 2048 /\ q12 = x \div 4096
        /\ q13 = x \div 8192 /\ q14 = x \div 16384 /\ q15 = x \div 32768 /\ q16 = x \div 65536
  OBVIOUS
<1>b0. x = 2 * q1 + Bit(x, 0) /\ Bit(x, 0) \in Int /\ q1 \in Int
  BY <1>0, <1>2 DEF Bit
<1>b1. q1 = 2 * q2 + Bit(x, 1) /\ Bit(x, 1) \in Int /\ q2 \in Int
  BY <1>0, <1>2 DEF Bit
<1>b2. q2 = 2 * q3 + Bit(x, 2) /\ Bit(x, 2) \in Int /\ q3 \in Int
  BY <1>0, <1>2 DEF Bit
<1>b3. q3 = 2 * q4 + Bit(x, 3) /\ Bit(x, 3) \in Int /\ q4 \in Int
  BY <1>0, <1>2 DEF Bit
<1>b4. q4 = 2 * q5 + Bit(x, 4) /\ Bit(x, 4) \in Int /\ q5 \in Int
  BY <1>0, <1>2 DEF Bit
<1>b5. q5 = 2 * q6 + Bit(x, 5) /\ Bit(x, 5) \in Int /\ q6 \in Int
  BY <1>0, <1>2 DEF Bit
<1>b6. q6 = 2 * q7 + Bit(x, 6) /\ Bit(x, 6) \in Int /\ q7 \in Int
  BY <1>0, <1>2 DEF Bit
<1>b7. q7 = 2 * q8 + Bit(x, 7) /\ Bit(x, 7) \in Int /\ q8 \in Int
  BY <1>0, <1>2 DEF Bit
<1>b8. q8 = 2 * q9 + Bit(x, 8) /\ Bit(x, 8) \in Int /\ q9 \in Int
  BY <1>0, <1>2 DEF Bit
<1>b9. q9 = 2 * q10 + Bit(x, 9) /\ Bit(x, 9) \in Int /\ q10 \in Int
  BY <1>0, <1>2 DEF Bit
<1>b10. q10 = 2 * q11 + Bit(x, 10) /\ Bit(x, 10) \in Int /\ q11 \in Int
  BY <1>0, <1>2 DEF Bit
<1>b11. q11 = 2 * q12 + Bit(x, 11) /\ Bit(x, 11) \in Int /\ q12 \in Int
  BY <1>0, <1>2 DEF Bit
<1>b12. q12 = 2 * q13 + Bit(x, 12) /\ Bit(x, 12) \in Int /\ q13 \in Int
  BY <1>0, <1>2 DEF Bit
<1>b13. q13 = 2 * q14 + Bit(x, 13) /\ Bit(x, 13) \in Int /\ q14 \in Int
  BY <1>0, <1>2 DEF Bit
<1>b14. q14 = 2 * q15 + Bit(x, 14) /\ Bit(x, 14) \in Int /\ q15 \in Int
  BY <1>0, <1>2 DEF Bit
<1>b15. q15 = 2 * q16 + Bit(x, 15) /\ Bit(x, 15) \in Int /\ q16 \in Int
  BY <1>0, <1>2 DEF Bit
<1>3. q16 = 0
  BY <1>0, <1>2
<1>e. PICK e0, e1, e2, e3, e4, e5, e6, e7, e8, e9, e10, e11, e12, e13, e14, e15 :
        /\ e0 = Bit(x, 0) /\ e1 = Bit(x, 1) /\ e2 = Bit(x, 2) /\ e3 = Bit(x, 3)
        /\ e4 = Bit(x, 4) /\ e5 = Bit(x, 5) /\ e6 = Bit(x, 6) /\ e7 = Bit(x, 7)
        /\ e8 = Bit(x, 8) /\ e9 = Bit(x, 9) /\ e10 = Bit(x, 10) /\ e11 = Bit(x, 11)
        /\ e12 = Bit(x, 12) /\ e13 = Bit(x, 13) /\ e14 = Bit(x, 14) /\ e15 = Bit(x, 15)
  OBVIOUS
<1>i. /\ e0 \in Int /\ q1 \in Int /\ e1 \in Int /\ q2 \in Int /\ e2 \in Int /\ q3 \in Int /\ e3 \in Int /\ q4 \in Int
      /\ e4 \in Int /\ q5 \in Int /\ e5 \in Int /\ q6 \in Int /\ e6 \in Int /\ q7 \in Int /\ e7 \in Int /\ q8 \in Int
      /\ e8 \in Int /\ q9 \in Int /\ e9 \in Int /\ q10 \in Int /\ e10 \in Int /\ q11 \in Int /\ e11 \in Int /\ q12 \in Int
      /\ e12 \in Int /\ q13 \in Int /\ e13 \in Int /\ q14 \in Int /\ e14 \in Int /\ q15 \in Int /\ e15 \in Int /\ q16 \in Int
  BY <1>e, <1>b0, <1>b1, <1>b2, <1>b3, <1>b4, <1>b5, <1>b6, <1>b7, <1>b8, <1>b9, <1>b10, <1>b11, <1>b12, <1>b13, <1>b14, <1>b15
<1>r. /\ x = 2 * q1 + e0 /\ q1 = 2 * q2 + e1 /\ q2 = 2 * q3 + e2 /\ q3 = 2 * q4 + e3
      /\ q4 = 2 * q5 + e4 /\ q5 = 2 * q6 + e5 /\ q6 = 2 * q7 + e6 /\ q7 = 2 * q8 + e7
      /\ q8 = 2 * q9 + e8 /\ q9 = 2 * q10 + e9 /\ q10 = 2 * q11 + e10 /\ q11 = 2 * q12 + e11
      /\ q12 = 2 * q13 + e12 /\ q13 = 2 * q14 + e13 /\ q14 = 2 * q15 + e14 /\ q15 = 2 * q16 + e15
  BY <1>e, <1>b0, <1>b1, <1>b2, <1>b3, <1>b4, <1>b5, <1>b6, <1>b7, <1>b8, <1>b9, <1>b10, <1>b11, <1>b12, <1>b13, <1>b14, <1>b15
<1>4. x = 1 * e0 + 2 * e1 + 4 * e2 + 8 * e3 + 16 * e4 + 32 * e5 + 64 * e6 + 128 * e7
             + 256 * e8 + 512 * e9 + 1024 * e10 + 2048 * e11 + 4096 * e12 + 8192 * e13 + 16384 * e14 + 32768 * e15
  BY <1>3, <1>i, <1>r
<1>f. PICK b : b = BitsOf(x)
  OBVIOUS
<1>g. /\ b[0] = e0 /\ b[1] = e1 /\ b[2] = e2 /\ b[3] = e3
      /\ b[4] = e4 /\ b[5] = e5 /\ b[6] = e6 /\ b[7] = e7
      /\ b[8] = e8 /\ b[9] = e9 /\ b[10] = e10 /\ b[11] = e11
      /\ b[12] = e12 /\ b[13] = e13 /\ b[14] = e14 /\ b[15] = e15
  BY <1>e, <1>f, Places DEF BitsOf
<1>5. SumOf(b) = x
  BY <1>4, <1>g DEF SumOf
<1> QED BY <1>1, <1>5, <1>f

(* x & ~y takes bits away, one by one. *)
LEMMA AndNotBits ==
  ASSUME NEW x \in Halfwords, NEW y \in Int
  PROVE  /\ AndNot(x, y) \in Halfwords
         /\ \A k \in 0 .. 15 : Bit(AndNot(x, y), k) = Bit(x, k) * (1 - Bit(y, k))
<1>0. x \in Int
  BY DEF Halfwords
<1>1. PICK d : d = [k \in 0 .. 15 |-> Bit(x, k) * (1 - Bit(y, k))]
  OBVIOUS
<1>2. ASSUME NEW k \in 0 .. 15
      PROVE  d[k] \in {0, 1}
  <2>1. PICK b, c : b = Bit(x, k) /\ c = Bit(y, k)
    OBVIOUS
  <2>2. b \in {0, 1} /\ c \in {0, 1}
    BY <1>0, <2>1, BitsAreInt
  <2>3. d[k] = b * (1 - c)
    BY <1>1, <2>1
  <2> QED BY <2>2, <2>3
<1>3. d \in Digits
  BY <1>1, <1>2 DEF Digits
<1>4. SumOf(d) = AndNot(x, y)
  BY <1>1, Places DEF SumOf, AndNot
<1>5. SumOf(d) \in Halfwords /\ \A k \in 0 .. 15 : Bit(SumOf(d), k) = d[k]
  BY <1>3, DigitsAreBits
<1> QED BY <1>1, <1>4, <1>5

LEMMA AndNotTakes ==
  ASSUME NEW x \in Halfwords, NEW y \in Int, NEW k \in 0 .. 15
  PROVE  Bit(AndNot(x, y), k) <= Bit(x, k)
<1>1. PICK b, c : b = Bit(x, k) /\ c = Bit(y, k)
  OBVIOUS
<1>2. b \in {0, 1} /\ c \in {0, 1}
  BY <1>1, BitsAreInt DEF Halfwords
<1>3. Bit(AndNot(x, y), k) = b * (1 - c)
  BY <1>1, AndNotBits
<1>4. b * (1 - c) <= b
  BY <1>2
<1> QED BY <1>1, <1>3, <1>4

(* The bits of a halfword are those of its bytes. *)
Join(h, l) == h * 256 + l

LEMMA BitsOfBytes ==
  ASSUME NEW h \in 0 .. 255, NEW l \in 0 .. 255
  PROVE  /\ Join(h, l) \in Halfwords
         /\ \A k \in 0 .. 7 : /\ Bit(Join(h, l), k) = Bit(l, k)
                              /\ Bit(Join(h, l), k + 8) = Bit(h, k)
                              /\ Bit(l, k + 8) = 0
<1>n. h \in Nat /\ h <= 255 /\ l \in Nat /\ l <= 255
  OBVIOUS
<1>x. PICK x : x = h * 256 + l
  OBVIOUS
<1>b0. Bit(x, 0) = Bit(l, 0) /\ Bit(x, 8) = Bit(h, 0) /\ Bit(l, 8) = 0
  BY <1>n, <1>x DEF Bit
<1>b1. Bit(x, 1) = Bit(l, 1) /\ Bit(x, 9) = Bit(h, 1) /\ Bit(l, 9) = 0
  BY <1>n, <1>x DEF Bit
<1>b2. Bit(x, 2) = Bit(l, 2) /\ Bit(x, 10) = Bit(h, 2) /\ Bit(l, 10) = 0
  BY <1>n, <1>x DEF Bit
<1>b3. Bit(x, 3) = Bit(l, 3) /\ Bit(x, 11) = Bit(h, 3) /\ Bit(l, 11) = 0
  BY <1>n, <1>x, SMTT(30) DEF Bit
<1>b4. Bit(x, 4) = Bit(l, 4) /\ Bit(x, 12) = Bit(h, 4) /\ Bit(l, 12) = 0
  BY <1>n, <1>x DEF Bit
<1>b5. Bit(x, 5) = Bit(l, 5) /\ Bit(x, 13) = Bit(h, 5) /\ Bit(l, 13) = 0
  BY <1>n, <1>x DEF Bit
<1>b6. Bit(x, 6) = Bit(l, 6) /\ Bit(x, 14) = Bit(h, 6) /\ Bit(l, 14) = 0
  BY <1>n, <1>x DEF Bit
<1>b7. Bit(x, 7) = Bit(l, 7) /\ Bit(x, 15) = Bit(h, 7) /\ Bit(l, 15) = 0
  BY <1>n, <1>x DEF Bit
<1>1. \A k \in 0 .. 7 : k \in {0, 1, 2, 3, 4, 5, 6, 7}
  OBVIOUS
<1>2. \A k \in 0 .. 7 : /\ Bit(x, k) = Bit(l, k)
                        /\ Bit(x, k + 8) = Bit(h, k)
                        /\ Bit(l, k + 8) = 0
  BY <1>1, <1>b0, <1>b1, <1>b2, <1>b3, <1>b4, <1>b5, <1>b6, <1>b7
<1>3. x \in Int /\ 0 <= x /\ x <= 65535
  BY <1>n, <1>x
<1>4. Join(h, l) = x
  BY <1>x DEF Join
<1> QED BY <1>2, <1>3, <1>4 DEF Halfwords

(* A byte stays a byte. *)
LEMMA AndNotByte ==
  ASSUME NEW x \in 0 .. 255, NEW y \in Int
  PROVE  AndNot(x, y) \in 0 .. 255
<1>0. x \in Halfwords
  BY DEF Halfwords
<1>1. PICK z : z = AndNot(x, y)
  OBVIOUS
<1>2. z \in Halfwords /\ \A k \in 0 .. 15 : Bit(z, k) <= Bit(x, k)
  BY <1>0, <1>1, AndNotBits, AndNotTakes, SMTT(30)
<1>3. \A k \in 0 .. 7 : Bit(x, k + 8) = 0
  <2>1. PICK w : w = Join(x, x)
    OBVIOUS
  <2> QED BY <2>1, BitsOfBytes
<1>4. \A k \in 0 .. 7 : Bit(z, k + 8) = 0
  <2> SUFFICES ASSUME NEW k \in 0 .. 7
               PROVE  Bit(z, k + 8) = 0
    OBVIOUS
  <2>1. PICK j : j = k + 8
    OBVIOUS
  <2>2. j \in 0 .. 15
    BY <2>1
  <2>3. Bit(z, j) <= Bit(x, j) /\ Bit(z, j) \in {0, 1}
    BY <1>2, <2>2, BitsAreInt DEF Halfwords
  <2>4. Bit(x, j) = 0
    BY <1>3, <2>1
  <2> QED BY <2>1, <2>3, <2>4
<1>5. /\ Bit(z, 8) = 0 /\ Bit(z, 9) = 0 /\ Bit(z, 10) = 0 /\ Bit(z, 11) = 0
      /\ Bit(z, 12) = 0 /\ Bit(z, 13) = 0 /\ Bit(z, 14) = 0 /\ Bit(z, 15) = 0
  <2>1. 0 \in 0 .. 7 /\ 1 \in 0 .. 7 /\ 2 \in 0 .. 7 /\ 3 \in 0 .. 7
        /\ 4 \in 0 .. 7 /\ 5 \in 0 .. 7 /\ 6 \in 0 .. 7 /\ 7 \in 0 .. 7
    OBVIOUS
  <2>2. 0 + 8 = 8 /\ 1 + 8 = 9 /\ 2 + 8 = 10 /\ 3 + 8 = 11 /\ 4 + 8 = 12 /\ 5 + 8 = 13
        /\ 6 + 8 = 14 /\ 7 + 8 = 15
    OBVIOUS
  <2> QED BY <1>4, <2>1, <2>2
<1>6. z \in Int /\ 0 <= z /\ z <= 65535
  BY <1>2 DEF Halfwords
<1>7. z <= 255
  BY <1>5, <1>6 DEF Bit
<1> QED BY <1>1, <1>6, <1>7
-----------------------------------------------------------------------------

(* Stores of a halfword. *)
Addresses == {a \in Int : 0 <= a /\ a <= 1022 /\ a % 2 = 0}
AffineHalves == {40, 42, 44, 46, 56, 58, 60, 62}

LEMMA InAffineIs ==
  ASSUME NEW a \in Addresses
  PROVE  InAffine(a) <=> a \in AffineHalves
BY DEF Addresses, AffineHalves, InAffine, AffineWords

(* IF as a halfword. *)
LEMMA KeptIf ==
  ASSUME NEW m, Good(m), NEW v \in Int, NEW a, a = 514
  PROVE  Kept(m, Set(m, a, AndNot(m.io[a], v)))
<1>1. a \in DOMAIN m.io /\ GoodIo(m.io)
  BY DEF Good, GoodIo, Hardware
<1>2. PICK i : i = m.io[a]
  OBVIOUS
<1>3. i \in Halfwords
  BY <1>1, <1>2 DEF GoodIo
<1>4. PICK w : w = AndNot(i, v)
  OBVIOUS
<1>5. w \in Halfwords /\ \A k \in 0 .. 15 : Bit(w, k) <= Bit(i, k)
  BY <1>3, <1>4, AndNotBits, AndNotTakes
<1>6. Good(Set(m, a, w)) /\ Set(m, a, w).io = Put(m.io, a, w)
  BY <1>5, SetIo
<1>7. Spared(m.io, Put(m.io, 514, w)) /\ DOMAIN Put(m.io, 514, w) = DOMAIN m.io
  BY <1>1, <1>2, <1>5, PutIf
<1> QED BY <1>2, <1>4, <1>6, <1>7 DEF Kept

LEMMA SoundRegisters ==
  ASSUME NEW m, Good(m), NEW v \in Halfwords
  PROVE  /\ Kept(m, gbc_sound_tone_control_sweep(m, v))
         /\ \A c \in Channels : \A a \in {98, 104, 120} : Kept(m, gbc_sound_tone_control_low(m, c, a, v))
         /\ \A c \in Channels : \A a \in {100, 108} : Kept(m, gbc_sound_tone_control_high(m, c, a, v))
         /\ Kept(m, gbc_sound_wave_control(m, v))
         /\ Kept(m, gbc_sound_tone_control_low_wave(m, v))
         /\ Kept(m, gbc_sound_tone_control_high_wave(m, v))
         /\ Kept(m, gbc_sound_noise_control(m, v))
         /\ Kept(m, gbc_trigger_sound(m, v))
         /\ Kept(m, trigger_sound(m, v))
<1>1. \A a \in {96, 98, 100, 104, 108, 112, 114, 116, 120, 124, 128, 130} : a \notin Hardware
  BY DEF Hardware
<1>2. ASSUME NEW a \in {96, 98, 100, 104, 108, 112, 114, 116, 120, 124, 128, 130}, NEW r, Good(r),
             r.io = Put(m.io, a, v)
      PROVE  Kept(m, r)
  BY <1>1, <1>2, KeptPut
<1>3. Kept(m, gbc_sound_tone_control_sweep(m, v))
  BY <1>2, ToneControlSweep
<1>4. ASSUME NEW c \in Channels, NEW a \in {98, 104, 120}
      PROVE  Kept(m, gbc_sound_tone_control_low(m, c, a, v))
  BY <1>2, ToneControlLow
<1>5. ASSUME NEW c \in Channels, NEW a \in {100, 108}
      PROVE  Kept(m, gbc_sound_tone_control_high(m, c, a, v))
  BY <1>2, ToneControlHigh
<1>6. Kept(m, gbc_sound_wave_control(m, v))
  BY <1>2, WaveControl
<1>7. Kept(m, gbc_sound_tone_control_low_wave(m, v))
  BY <1>2, ToneControlLowWave
<1>8. Kept(m, gbc_sound_tone_control_high_wave(m, v))
  BY <1>2, ToneControlHighWave
<1>9. Kept(m, gbc_sound_noise_control(m, v))
  BY <1>2, NoiseControl
<1>10. Kept(m, gbc_trigger_sound(m, v))
  BY <1>2, TriggerGbcSound
<1>11. Kept(m, trigger_sound(m, v))
  BY <1>2, TriggerSound
<1> QED BY <1>3, <1>4, <1>5, <1>6, <1>7, <1>8, <1>9, <1>10, <1>11

LEMMA Write16Kept ==
  ASSUME NEW m, Good(m), NEW a \in Addresses, NEW v \in Halfwords
  PROVE  Kept(m, write_io_register16(m, a, v))
<1> DEFINE r == write_io_register16(m, a, v)
<1>c. 0 \in Channels /\ 1 \in Channels /\ 3 \in Channels
  BY DEF Channels
<1>m. Kept(m, m)
  BY KeptSame
<1>h. ASSUME a \notin AffineHalves
      PROVE  ~InAffine(a)
  BY <1>h, InAffineIs
<1>1. CASE a = 0
  <2>0. a \notin Hardware
    BY <1>1 DEF Hardware
  <2>1. Kept(m, Set(m, a, v))
    BY <2>0, KeptSet
  <2>2. PICK x : x = IF v # m.io[0] THEN TRUE ELSE Set(m, a, v).oam_update
    OBVIOUS
  <2>3. Kept(m, OamMarked(Set(m, a, v), x))
    BY <2>1, KeptMarks
  <2>5. ~InAffine(a)
    BY <1>1, <1>h DEF AffineHalves
  <2>4. r = [Set(m, a, v) EXCEPT !.oam_update = x]
    BY <1>1, <2>2, <2>5 DEF write_io_register16, DmaControls, TimerCounts, TimerControls
  <2> QED BY <2>3, <2>4 DEF OamMarked
<1>2. CASE a = 4
  <2>5. ~InAffine(a)
    BY <1>2, <1>h DEF AffineHalves
  <2>1. r = Set(m, a, Field(m.io[4], 0, 3) + WithoutLow(v, 3))
    BY <1>2, <2>5 DEF write_io_register16, DmaControls, TimerCounts, TimerControls
  <2> QED BY <1>2, <2>1, KeptDispstat
<1>3. CASE a \in {6, 304, 516}
  <2>5. ~InAffine(a)
    BY <1>3, <1>h DEF AffineHalves
  <2>1. r = m
    BY <1>3, <2>5 DEF write_io_register16, DmaControls, TimerCounts, TimerControls
  <2> QED BY <1>m, <2>1
<1>4. CASE a \in AffineHalves
  <2>0. InAffine(a)
    BY <1>4, InAffineIs
  <2>1. r = Affine(Set(m, a, v), AffineOf(a))
    BY <1>4, <2>0 DEF write_io_register16, DmaControls, TimerCounts, TimerControls, AffineHalves
  <2>2. a \notin Hardware
    BY <1>4 DEF Hardware, AffineHalves
  <2>3. Kept(m, Set(m, a, v))
    BY <2>2, KeptSet
  <2> QED BY <2>1, <2>3, KeptAffine
<1>5. CASE a \in {96, 98, 100, 104, 108, 112, 114, 116, 120, 124, 128, 130}
  <2>1. ~InAffine(a)
    BY <1>5, <1>h DEF AffineHalves
  <2>2. CASE a = 96
    BY <2>1, <2>2, SoundRegisters DEF write_io_register16, DmaControls, TimerCounts, TimerControls
  <2>3. CASE a = 98
    BY <1>c, <2>1, <2>3, SoundRegisters DEF write_io_register16, DmaControls, TimerCounts, TimerControls
  <2>4. CASE a = 100
    BY <1>c, <2>1, <2>4, SoundRegisters DEF write_io_register16, DmaControls, TimerCounts, TimerControls
  <2>5. CASE a = 104
    BY <1>c, <2>1, <2>5, SoundRegisters DEF write_io_register16, DmaControls, TimerCounts, TimerControls
  <2>6. CASE a = 108
    BY <1>c, <2>1, <2>6, SoundRegisters DEF write_io_register16, DmaControls, TimerCounts, TimerControls
  <2>7. CASE a = 112
    BY <2>1, <2>7, SoundRegisters DEF write_io_register16, DmaControls, TimerCounts, TimerControls
  <2>8. CASE a = 114
    BY <2>1, <2>8, SoundRegisters DEF write_io_register16, DmaControls, TimerCounts, TimerControls
  <2>9. CASE a = 116
    BY <2>1, <2>9, SoundRegisters DEF write_io_register16, DmaControls, TimerCounts, TimerControls
  <2>10. CASE a = 120
    BY <1>c, <2>1, <2>10, SoundRegisters DEF write_io_register16, DmaControls, TimerCounts, TimerControls
  <2>11. CASE a = 124
    BY <2>1, <2>11, SoundRegisters DEF write_io_register16, DmaControls, TimerCounts, TimerControls
  <2>12. CASE a = 128
    BY <2>1, <2>12, SoundRegisters DEF write_io_register16, DmaControls, TimerCounts, TimerControls
  <2>13. CASE a = 130
    BY <2>1, <2>13, SoundRegisters DEF write_io_register16, DmaControls, TimerCounts, TimerControls
  <2> QED BY <1>5, <2>2, <2>3, <2>4, <2>5, <2>6, <2>7, <2>8, <2>9, <2>10, <2>11, <2>12, <2>13
<1>6. CASE a = 132
  <2>1. ~InAffine(a)
    BY <1>6, <1>h DEF AffineHalves
  <2>2. r = sound_on(m, v)
    BY <1>6, <2>1 DEF write_io_register16, DmaControls, TimerCounts, TimerControls
  <2> QED BY <2>2, KeptSoundOn
<1>7. CASE a \in 144 .. 158
  <2>1. ~InAffine(a) /\ a \notin Hardware
    BY <1>7, <1>h DEF AffineHalves, Hardware
  <2>2. r = [Set(m, a, v) EXCEPT !.wave_update = TRUE]
    BY <1>7, <2>1 DEF write_io_register16, DmaControls, TimerCounts, TimerControls
  <2>3. Kept(m, Set(m, a, v))
    BY <2>1, KeptSet
  <2>4. Kept(m, WaveMarked(Set(m, a, v), TRUE))
    BY <2>3, KeptMarks
  <2> QED BY <2>2, <2>4 DEF WaveMarked
<1>8. CASE a \in {160, 164}
  <2>1. ~InAffine(a)
    BY <1>8, <1>h DEF AffineHalves
  <2>2. r = sound_timer_queue(m, (a - 160) \div 4, <<Low(v), High(v)>>)
    BY <1>8, <2>1 DEF write_io_register16, DmaControls, TimerCounts, TimerControls
  <2> QED BY <2>2, Queue, KeptSame
<1>9. CASE a \in DmaControls
  <2>1. a \in {186, 198, 210, 222}
    BY <1>9 DEF DmaControls
  <2>2. ~InAffine(a)
    BY <2>1, <1>h DEF AffineHalves
  <2>3. DmaOf(a) \in 0 .. 3
    BY <2>1 DEF DmaOf
  <2>4. r = trigger_dma(m, DmaOf(a), v)
    BY <2>1, <2>2 DEF write_io_register16, DmaControls, TimerCounts, TimerControls
  <2> QED BY <2>3, <2>4, TriggerDma DEF Kept
<1>10. CASE a \in TimerCounts
  <2>1. a \in {256, 260, 264, 268}
    BY <1>10 DEF TimerCounts
  <2>2. ~InAffine(a)
    BY <2>1, <1>h DEF AffineHalves
  <2>3. TimerOf(a) \in 0 .. 3
    BY <2>1 DEF TimerOf
  <2>4. r = count_timer(m, TimerOf(a), v)
    BY <2>1, <2>2 DEF write_io_register16, DmaControls, TimerCounts, TimerControls
  <2> QED BY <2>3, <2>4, CountTimer, KeptSame, SMTT(30)
<1>11. CASE a \in TimerControls
  <2>1. a \in {258, 262, 266, 270}
    BY <1>11 DEF TimerControls
  <2>2. ~InAffine(a)
    BY <2>1, <1>h DEF AffineHalves
  <2>3. TimerOf(a) \in 0 .. 3
    BY <2>1 DEF TimerOf
  <2>4. r = trigger_timer(m, TimerOf(a), v)
    BY <2>1, <2>2 DEF write_io_register16, DmaControls, TimerCounts, TimerControls
  <2> QED BY <2>3, <2>4, TriggerTimer DEF Kept
<1>12. CASE a = 514
  <2>1. ~InAffine(a)
    BY <1>12, <1>h DEF AffineHalves
  <2>2. r = Set(m, a, AndNot(m.io[a], v))
    BY <1>12, <2>1 DEF write_io_register16, DmaControls, TimerCounts, TimerControls
  <2>3. v \in Int
    BY DEF Halfwords
  <2> QED BY <1>12, <2>2, <2>3, KeptIf
<1>13. CASE a = 768
  <2>1. ~InAffine(a)
    BY <1>13, <1>h DEF AffineHalves
  <2>2. r = Halted(m, High(v))
    BY <1>13, <2>1 DEF write_io_register16, DmaControls, TimerCounts, TimerControls
  <2> QED BY <2>2, KeptHalted
<1>14. CASE a \notin {0, 4, 6, 304, 516, 96, 98, 100, 104, 108, 112, 114, 116, 120, 124, 128, 130,
                      132, 160, 164, 514, 768}
            /\ a \notin AffineHalves /\ a \notin 144 .. 158
            /\ a \notin DmaControls /\ a \notin TimerCounts /\ a \notin TimerControls
  <2>1. ~InAffine(a)
    BY <1>14, <1>h
  <2>2. r = Set(m, a, v)
    BY <1>14, <2>1, ZenonT(40) DEF write_io_register16, DmaControls, TimerCounts, TimerControls
  <2>3. a \notin Hardware
    BY <1>14 DEF Hardware
  <2> QED BY <2>2, <2>3, KeptSet
<1> QED
  BY <1>1, <1>2, <1>3, <1>4, <1>5, <1>6, <1>7, <1>8, <1>9, <1>10, <1>11, <1>12, <1>13, <1>14
-----------------------------------------------------------------------------

(* Stores of a byte. *)
ByteHalves == AffineHalves \cup {98, 100, 104, 108, 112, 114, 116, 120, 124, 128, 130}
                \cup {256, 260, 264, 268}
HighTriggers == {96, 186, 198, 210, 222, 258, 262, 266, 270}

LEMMA ByteSets ==
  ASSUME NEW a \in Addresses
  PROVE  /\ a \in BothBytes <=> a \in ByteHalves
         /\ a \notin TriggerBytes
         /\ a + 1 \in TriggerBytes <=> a \in HighTriggers
<1>1. a \in AffineBytes <=> a \in AffineHalves
  BY DEF AffineBytes, AffineWords, AffineHalves, Addresses
<1>2. a \in BothBytes <=> a \in ByteHalves
  BY <1>1 DEF BothBytes, SoundBytes, TimerCounts, ByteHalves
<1>3. \A x : x \in TriggerBytes <=>
               x \in {97, 187, 199, 211, 223, 259, 263, 267, 271}
  BY DEF TriggerBytes, DmaControls, TimerControls
<1>4. a \in Int /\ a % 2 = 0
  BY DEF Addresses
<1>5. a \notin {97, 187, 199, 211, 223, 259, 263, 267, 271}
  BY <1>4
<1>6. a + 1 \in {97, 187, 199, 211, 223, 259, 263, 267, 271} <=> a \in HighTriggers
  BY <1>4 DEF HighTriggers
<1> QED BY <1>2, <1>3, <1>5, <1>6

(* A halfword as its bytes, and a byte completed with the other one. *)
LEMMA ByteParts ==
  ASSUME NEW m, Good(m), NEW a, a \in DOMAIN m.io,
         NEW h, h = High(m.io[a]), NEW l, l = Low(m.io[a])
  PROVE  /\ h \in 0 .. 255 /\ l \in 0 .. 255 /\ m.io[a] = Join(h, l)
         /\ \A b : access_register8_low(m, a, b) = Join(h, b)
         /\ \A b : access_register8_high(m, a, b) = Join(b, l)
<1>1. m.io[a] \in Halfwords
  BY DEF Good, GoodIo
<1>3. h \in 0 .. 255 /\ l \in 0 .. 255 /\ m.io[a] = Join(h, l)
  BY <1>1, SmallBytes DEF Join
<1>4. ASSUME NEW b
      PROVE  /\ access_register8_low(m, a, b) = Join(h, b)
             /\ access_register8_high(m, a, b) = Join(b, l)
  BY DEF access_register8_low, access_register8_high, Join
<1> QED BY <1>3, <1>4

LEMMA Bytes ==
  ASSUME NEW m, Good(m), NEW a \in Addresses, a \in DOMAIN m.io, NEW b \in 0 .. 255
  PROVE  /\ access_register8_low(m, a, b) \in Halfwords
         /\ access_register8_high(m, a, b) \in Halfwords
         /\ StoreByte(m, a, b) = Set(m, a, access_register8_low(m, a, b))
         /\ StoreByte(m, a + 1, b) = Set(m, a, access_register8_high(m, a, b))
         /\ Halfword(a) = a /\ Halfword(a + 1) = a
<1>2. PICK h, l : h = High(m.io[a]) /\ l = Low(m.io[a])
  OBVIOUS
<1>3. /\ h \in 0 .. 255 /\ l \in 0 .. 255
      /\ access_register8_low(m, a, b) = Join(h, b)
      /\ access_register8_high(m, a, b) = Join(b, l)
  BY <1>2, ByteParts
<1>4. Join(h, b) \in Halfwords /\ Join(b, l) \in Halfwords
  BY <1>3, BitsOfBytes
<1>5. a \in Int /\ a % 2 = 0 /\ (a + 1) % 2 = 1
  BY DEF Addresses
<1>6. Halfword(a) = a /\ Halfword(a + 1) = a
  BY <1>5 DEF Halfword
<1>7. (a + 1) - 1 = a
  BY <1>5
<1>9. /\ StoreByte(m, a, b) = Set(m, a, access_register8_low(m, a, b))
      /\ StoreByte(m, a + 1, b) = Set(m, a, access_register8_high(m, a, b))
  BY <1>5, <1>6, <1>7 DEF StoreByte, access_register8_low, access_register8_high
<1> QED BY <1>3, <1>4, <1>6, <1>9

Fewer(x, y) == \A k \in 0 .. 15 : Bit(x, k) <= Bit(y, k)

(* The registers the hardware reports in, as halfwords. *)
LEMMA KeptReport ==
  ASSUME NEW m, Good(m), NEW a, NEW w \in Halfwords,
         \/ a = 4 /\ w % 8 = m.io[4] % 8
         \/ a = 132 /\ w % 16 = m.io[132] % 16
         \/ a = 514 /\ Fewer(w, m.io[514])
  PROVE  Kept(m, Set(m, a, w))
<1>1. Good(Set(m, a, w)) /\ Set(m, a, w).io = Put(m.io, a, w)
  BY SetIo
<1>2. GoodIo(m.io)
  BY DEF Good
<1>3. Spared(m.io, Put(m.io, a, w)) /\ DOMAIN Put(m.io, a, w) = DOMAIN m.io
  <2>1. CASE a = 4 /\ w % 8 = m.io[4] % 8
    BY <1>2, <2>1, PutDispstat
  <2>2. CASE a = 132 /\ w % 16 = m.io[132] % 16
    BY <1>2, <2>2, PutSoundcnt
  <2>3. CASE a = 514 /\ Fewer(w, m.io[514])
    BY <1>2, <2>3, PutIf DEF Fewer
  <2> QED BY <2>1, <2>2, <2>3
<1> QED BY <1>1, <1>3 DEF Kept

LEMMA IfKept ==
  ASSUME NEW m, Good(m), NEW w \in Halfwords, NEW i, i = m.io[514], Fewer(w, i)
  PROVE  Kept(m, Set(m, 514, w))
BY KeptReport

(* Taking bits away from the bytes takes them away from the halfword. *)
LEMMA FewerBits ==
  ASSUME NEW h \in 0 .. 255, NEW l \in 0 .. 255, NEW c \in 0 .. 255, NEW d \in 0 .. 255,
         Fewer(c, h), Fewer(d, l)
  PROVE  Fewer(Join(c, d), Join(h, l))
<1>0. \A k \in 0 .. 7 : k \in 0 .. 15
  OBVIOUS
<1>1. PICK x, y : x = Join(h, l) /\ y = Join(c, d)
  BY ZenonT(40)
<1>2. \A k \in 0 .. 7 : Bit(x, k) = Bit(l, k) /\ Bit(x, k + 8) = Bit(h, k)
  BY <1>1, BitsOfBytes
<1>3. \A k \in 0 .. 7 : Bit(y, k) = Bit(d, k) /\ Bit(y, k + 8) = Bit(c, k)
  BY <1>1, BitsOfBytes, ZenonT(40)
<1>6. \A k \in 0 .. 7 : Bit(c, k) <= Bit(h, k) /\ Bit(d, k) <= Bit(l, k)
  BY <1>0 DEF Fewer
<1>4. \A k \in 0 .. 7 : Bit(y, k) <= Bit(x, k) /\ Bit(y, k + 8) <= Bit(x, k + 8)
  BY <1>2, <1>3, <1>6
<1>5. ASSUME NEW k \in 0 .. 15
      PROVE  Bit(y, k) <= Bit(x, k)
  <2>1. CASE k \in 0 .. 7
    BY <1>4, <2>1
  <2>2. CASE k \notin 0 .. 7
    <3>1. PICK j : j = k - 8
      OBVIOUS
    <3>2. j \in 0 .. 7 /\ j + 8 = k
      BY <2>2, <3>1
    <3> QED BY <1>4, <3>2
  <2> QED BY <2>1, <2>2
<1> QED BY <1>1, <1>5 DEF Fewer

LEMMA JoinHalf ==
  ASSUME NEW h \in 0 .. 255, NEW l \in 0 .. 255
  PROVE  Join(h, l) \in Halfwords
BY BitsOfBytes

LEMMA ByteTakes ==
  ASSUME NEW x \in 0 .. 255, NEW y \in 0 .. 255
  PROVE  AndNot(x, y) \in 0 .. 255 /\ Fewer(AndNot(x, y), x) /\ Fewer(y, y)
<1>1. x \in Halfwords /\ x \in Int /\ y \in Int
  BY DEF Halfwords
<1>3. AndNot(x, y) \in 0 .. 255
  BY <1>1, AndNotByte
<1>4. Fewer(AndNot(x, y), x)
  BY <1>1, AndNotTakes DEF Fewer
<1>5. Fewer(y, y)
  BY <1>1, BitsAreInt DEF Fewer
<1> QED BY <1>3, <1>4, <1>5

LEMMA LowByte ==
  ASSUME NEW i \in Int, NEW b \in 0 .. 255, NEW c, c = (i % 8) + (b - (b % 8))
  PROVE  c \in 0 .. 255 /\ c % 8 = i % 8
<1>1. b \in Int /\ 0 <= b /\ b <= 255
  OBVIOUS
<1>2. c \in Int /\ 0 <= c /\ c <= 255
  BY <1>1
<1>3. c % 8 = i % 8
  BY <1>1
<1> QED BY <1>2, <1>3

(* The low byte of DISPSTAT. *)
LEMMA LowDispstat ==
  ASSUME NEW m, Good(m), NEW b \in 0 .. 255,
         NEW c, c = Field(m.io[4], 0, 3) + WithoutLow(b, 3)
  PROVE  c \in 0 .. 255 /\ Kept(m, Set(m, 4, access_register8_low(m, 4, c)))
<1>0. 4 \in DOMAIN m.io
  BY DEF Good, GoodIo, Hardware
<1>1. PICK h, l : h = High(m.io[4]) /\ l = Low(m.io[4])
  OBVIOUS
<1>2. PICK i : i = m.io[4]
  OBVIOUS
<1>3. /\ h \in 0 .. 255 /\ l \in 0 .. 255 /\ i = Join(h, l)
      /\ access_register8_low(m, 4, c) = Join(h, c)
  BY <1>0, <1>1, <1>2, ByteParts
<1>4. i \in Int /\ b \in Int
  BY <1>3 DEF Join
<1>5. Field(i, 0, 3) = i % 8 /\ WithoutLow(b, 3) = b - (b % 8)
  BY <1>4, SmallFields
<1>6. c = (i % 8) + (b - (b % 8))
  BY <1>2, <1>5
<1>7. c \in 0 .. 255 /\ c % 8 = i % 8
  BY <1>4, <1>6, LowByte
<1>8. PICK w : w = Join(h, c)
  OBVIOUS
<1>9. w \in Halfwords
  BY <1>3, <1>7, <1>8, JoinHalf
<1>10. w % 8 = i % 8
  BY <1>3, <1>7, <1>8 DEF Join
<1> QED BY <1>2, <1>3, <1>7, <1>8, <1>9, <1>10, KeptReport

(* The high bytes of DISPSTAT and SOUNDCNT_X. *)
LEMMA HighReports ==
  ASSUME NEW m, Good(m), NEW b \in 0 .. 255, NEW a \in {4, 132}
  PROVE  Kept(m, Set(m, a, access_register8_high(m, a, b)))
<1>0. a \in DOMAIN m.io
  BY DEF Good, GoodIo, Hardware
<1>1. PICK h, l : h = High(m.io[a]) /\ l = Low(m.io[a])
  OBVIOUS
<1>2. PICK i : i = m.io[a]
  OBVIOUS
<1>3. /\ h \in 0 .. 255 /\ l \in 0 .. 255 /\ i = Join(h, l)
      /\ access_register8_high(m, a, b) = Join(b, l)
  BY <1>0, <1>1, <1>2, ByteParts
<1>4. PICK w : w = Join(b, l)
  OBVIOUS
<1>5. w \in Halfwords
  BY <1>3, <1>4, JoinHalf
<1>8. w = b * 256 + l /\ i = h * 256 + l
  BY <1>3, <1>4 DEF Join
<1>9. h \in Int /\ b \in Int /\ l \in Int
  BY <1>3
<1>10. w % 8 = l % 8 /\ i % 8 = l % 8
  BY <1>8, <1>9
<1>11. w % 16 = l % 16 /\ i % 16 = l % 16
  BY <1>8, <1>9
<1>6. w % 8 = i % 8 /\ w % 16 = i % 16
  BY <1>10, <1>11
<1>7. Kept(m, Set(m, a, w))
  BY <1>2, <1>5, <1>6, KeptReport
<1> QED BY <1>3, <1>4, <1>7

(* The bytes of IF. *)
LEMMA LowIf ==
  ASSUME NEW m, Good(m), NEW b \in 0 .. 255, 
         NEW a, a = 514, NEW o, o = Low(m.io[514]), NEW c, c = AndNot(o, b)
  PROVE  c \in 0 .. 255 /\ Kept(m, Set(m, a, access_register8_low(m, a, c)))
<1>0. 514 \in DOMAIN m.io
  BY DEF Good, GoodIo, Hardware
<1>1. PICK h, l : h = High(m.io[514]) /\ l = Low(m.io[514])
  OBVIOUS
<1>2. PICK i : i = m.io[514]
  OBVIOUS
<1>3. /\ h \in 0 .. 255 /\ l \in 0 .. 255 /\ i = Join(h, l)
      /\ access_register8_low(m, 514, c) = Join(h, c)
  BY <1>0, <1>1, <1>2, ByteParts
<1>4. c = AndNot(l, b)
  BY <1>1
<1>11. l \in 0 .. 255
  BY <1>3, SMTT(30)
<1>12. AndNot(l, b) \in 0 .. 255 /\ Fewer(AndNot(l, b), l)
  BY <1>11, ByteTakes, ZenonT(40)
<1>5. c \in 0 .. 255 /\ Fewer(c, l)
  BY <1>4, <1>12
<1>6. Fewer(h, h)
  BY <1>3, ByteTakes, ZenonT(40)
<1>7. Fewer(Join(h, c), i)
  BY <1>3, <1>5, <1>6, FewerBits, ZenonT(40)
<1>8. PICK w : w = Join(h, c)
  OBVIOUS
<1>9. w \in Halfwords
  BY <1>3, <1>5, <1>8, JoinHalf, ZenonT(40)
<1>10. Fewer(w, i)
  BY <1>7, <1>8
<1>13. Kept(m, Set(m, 514, w))
  BY <1>2, <1>9, <1>10, IfKept
<1>14. access_register8_low(m, 514, c) = w
  BY <1>3, <1>8
<1> QED BY <1>5, <1>13, <1>14

LEMMA HighIf ==
  ASSUME NEW m, Good(m), NEW b \in 0 .. 255, 
         NEW a, a = 514, NEW o, o = High(m.io[514]), NEW c, c = AndNot(o, b)
  PROVE  c \in 0 .. 255 /\ Kept(m, Set(m, a, access_register8_high(m, a, c)))
<1>0. 514 \in DOMAIN m.io
  BY DEF Good, GoodIo, Hardware
<1>1. PICK h, l : h = High(m.io[514]) /\ l = Low(m.io[514])
  OBVIOUS
<1>2. PICK i : i = m.io[514]
  OBVIOUS
<1>3. /\ h \in 0 .. 255 /\ l \in 0 .. 255 /\ i = Join(h, l)
      /\ access_register8_high(m, 514, c) = Join(c, l)
  BY <1>0, <1>1, <1>2, ByteParts
<1>4. c = AndNot(h, b)
  BY <1>1
<1>11. h \in 0 .. 255
  BY <1>3
<1>12. AndNot(h, b) \in 0 .. 255 /\ Fewer(AndNot(h, b), h)
  BY <1>11, ByteTakes
<1>5. c \in 0 .. 255 /\ Fewer(c, h)
  BY <1>4, <1>12
<1>6. Fewer(l, l)
  BY <1>3, ByteTakes, ZenonT(40)
<1>7. Fewer(Join(c, l), i)
  BY <1>3, <1>5, <1>6, FewerBits, ZenonT(40)
<1>8. PICK w : w = Join(c, l)
  OBVIOUS
<1>9. w \in Halfwords
  BY <1>3, <1>5, <1>8, JoinHalf, ZenonT(40)
<1>10. Fewer(w, i)
  BY <1>7, <1>8
<1>13. Kept(m, Set(m, 514, w))
  BY <1>2, <1>9, <1>10, IfKept
<1>14. access_register8_high(m, 514, c) = w
  BY <1>3, <1>8
<1> QED BY <1>5, <1>13, <1>14

LEMMA Write8LowKept ==
  ASSUME NEW m, Good(m), NEW a \in Addresses, a \in DOMAIN m.io, NEW b \in 0 .. 255
  PROVE  Kept(m, write_io_register8(m, a, b))
<1>2. PICK w : w = access_register8_low(m, a, b)
  OBVIOUS
<1>3. /\ w \in Halfwords
      /\ StoreByte(m, a, b) = Set(m, a, w) /\ Halfword(a) = a
  BY <1>2, Bytes
<1>4. /\ a \in BothBytes <=> a \in ByteHalves
      /\ a \notin TriggerBytes
  BY ByteSets
<1>i. a \in Int /\ a % 2 = 0
  BY DEF Addresses
<1>6. CASE a = 0
  <2>1. a \notin BothBytes /\ a \notin Hardware
    BY <1>4, <1>6 DEF ByteHalves, AffineHalves, Hardware
  <2>2. PICK q : q = StoreByte(m, 0, b)
    OBVIOUS
  <2>3. PICK x : x = IF b # Low(m.io[0]) THEN TRUE ELSE q.oam_update
    OBVIOUS
  <2>4. write_io_register8(m, a, b) = OamMarked(q, x)
    BY <1>3, <1>4, <1>6, <2>1, <2>2, <2>3 DEF write_io_register8, OamMarked
  <2>6. q = StoreByte(m, a, b)
    BY <1>6, <2>2
  <2>5. Kept(m, q)
    BY <1>3, <2>1, <2>6, KeptSet
  <2> QED BY <2>4, <2>5, KeptMarks
<1>7. CASE a = 4
  <2>1. a \notin BothBytes
    BY <1>4, <1>7 DEF ByteHalves, AffineHalves
  <2>2. PICK c : c = Field(m.io[4], 0, 3) + WithoutLow(b, 3)
    OBVIOUS
  <2>3. write_io_register8(m, a, b) = StoreByte(m, a, c)
    BY <1>3, <1>4, <1>7, <2>1, <2>2 DEF write_io_register8
  <2>4. c \in 0 .. 255 /\ Kept(m, Set(m, a, access_register8_low(m, a, c)))
    <3>1. c \in 0 .. 255 /\ Kept(m, Set(m, 4, access_register8_low(m, 4, c)))
      BY <2>2, LowDispstat
    <3> QED BY <1>7, <3>1
  <2>5. StoreByte(m, a, c) = Set(m, a, access_register8_low(m, a, c))
    BY <2>4, Bytes
  <2> QED BY <2>3, <2>4, <2>5
<1>8. CASE a = 6
  <2>3. write_io_register8(m, a, b) = m
    BY <1>3, <1>4, <1>8 DEF write_io_register8, ByteHalves, AffineHalves
  <2> QED BY <2>3, KeptSame
<1>9. CASE a \in ByteHalves
  <2>1. a \notin {0, 4, 6, 96, 132, 160, 164, 514} /\ a \notin 144 .. 159 /\ a # 769
    BY <1>9 DEF ByteHalves, AffineHalves
  <2>3. a \in BothBytes
    BY <1>4, <1>9
  <2>2. write_io_register8(m, a, b) = write_io_register16(m, a, w)
    BY <1>3, <1>4, <1>2, <2>3, <2>1 DEF write_io_register8
  <2> QED BY <1>3, <2>2, Write16Kept
<1>10. CASE a = 96
  <2>1. a \notin BothBytes
    BY <1>4, <1>10 DEF ByteHalves, AffineHalves
  <2>2. write_io_register8(m, a, b) = write_io_register16(m, a, w)
    BY <1>3, <1>4, <1>2, <1>10, <2>1 DEF write_io_register8
  <2> QED BY <1>3, <2>2, Write16Kept
<1>11. CASE a = 132
  <2>1. a \notin BothBytes
    BY <1>4, <1>11 DEF ByteHalves, AffineHalves
  <2>2. write_io_register8(m, a, b) = sound_on(m, b)
    BY <1>3, <1>4, <1>11, <2>1 DEF write_io_register8
  <2>3. b \in Halfwords
    BY DEF Halfwords
  <2> QED BY <2>2, <2>3, KeptSoundOn
<1>12. CASE a \in 144 .. 159
  <2>1. a \notin BothBytes /\ a \notin Hardware
    BY <1>4, <1>12 DEF ByteHalves, AffineHalves, Hardware
  <2>3. write_io_register8(m, a, b) = WaveMarked(StoreByte(m, a, b), TRUE)
    BY <1>3, <1>4, <1>12, <2>1 DEF write_io_register8, WaveMarked
  <2>4. Kept(m, StoreByte(m, a, b))
    BY <1>3, <2>1, KeptSet
  <2> QED BY <2>3, <2>4, KeptMarks
<1>13. CASE a \in {160, 164}
  <2>1. a \notin BothBytes
    BY <1>4, <1>13 DEF ByteHalves, AffineHalves
  <2>3. write_io_register8(m, a, b) = sound_timer_queue(m, (a - 160) \div 4, <<b>>)
    BY <1>3, <1>4, <1>13, <2>1 DEF write_io_register8
  <2> QED BY <2>3, Queue, KeptSame
<1>14. CASE a = 514
  <2>1. a \notin BothBytes
    BY <1>4, <1>14 DEF ByteHalves, AffineHalves
  <2>2. PICK c : c = AndNot(Low(m.io[a]), b)
    OBVIOUS
  <2>3. write_io_register8(m, a, b) = StoreByte(m, a, c)
    BY <1>3, <1>4, <1>14, <2>1, <2>2 DEF write_io_register8
  <2>4. c \in 0 .. 255 /\ Kept(m, Set(m, a, access_register8_low(m, a, c)))
    <3>1. PICK o : o = Low(m.io[514])
      OBVIOUS
    <3>2. c = AndNot(o, b)
      BY <1>14, <2>2, <3>1
    <3>3. c \in 0 .. 255
      BY <1>14, <3>1, <3>2, LowIf, ZenonT(40)
    <3>4. PICK d : d = AndNot(o, b)
      OBVIOUS
    <3>5. Kept(m, Set(m, a, access_register8_low(m, a, d)))
      BY <1>14, <3>1, <3>4, LowIf
    <3>6. c = d
      BY <3>2, <3>4
    <3> QED BY <3>3, <3>5, <3>6
  <2>5. StoreByte(m, a, c) = Set(m, a, access_register8_low(m, a, c))
    BY <2>4, Bytes
  <2> QED BY <2>3, <2>4, <2>5
<1>15. CASE a \notin ByteHalves /\ a \notin {0, 4, 6, 96, 132, 160, 164, 514} /\ a \notin 144 .. 159
  <2>0. a # 769
    BY <1>i
  <2>3. a \notin BothBytes
    BY <1>4, <1>15
  <2>4. /\ a # 0 /\ a # 4 /\ a # 6 /\ a # 96 /\ a # 132 /\ a # 160 /\ a # 164 /\ a # 514
        /\ a \notin 144 .. 159
    BY <1>15
  <2>1. write_io_register8(m, a, b) = StoreByte(m, a, b)
    BY <2>0, <2>3, <2>4, <1>3, <1>4 DEF write_io_register8
  <2>2. a \notin Hardware
    BY <1>15 DEF Hardware
  <2> QED BY <1>3, <2>1, <2>2, KeptSet
<1> QED BY <1>6, <1>7, <1>8, <1>9, <1>10, <1>11, <1>12, <1>13, <1>14, <1>15

LEMMA Write8HighKept ==
  ASSUME NEW m, Good(m), NEW a \in Addresses, a \in DOMAIN m.io, NEW b \in 0 .. 255
  PROVE  Kept(m, write_io_register8(m, a + 1, b))
<1>1. PICK w : w = access_register8_high(m, a, b)
  OBVIOUS
<1>9. PICK z : z = access_register8_low(m, a, b)
  OBVIOUS
<1>o. PICK o : o = a + 1
  OBVIOUS
<1>2. /\ w \in Halfwords /\ z \in Halfwords
      /\ StoreByte(m, o, b) = Set(m, a, w) /\ Halfword(o) = a
  BY <1>1, <1>9, <1>o, Bytes
<1>3. /\ a \in BothBytes <=> a \in ByteHalves
      /\ o \in TriggerBytes <=> a \in HighTriggers
  BY <1>o, ByteSets
<1>i. a \in Int /\ a % 2 = 0
  BY DEF Addresses
<1>4. /\ o # a /\ o # 0 /\ o # 4 /\ o # 96 /\ o # 132 /\ o # 160 /\ o # 164
      /\ (o = 769 <=> a = 768) /\ (o \in 144 .. 159 <=> a \in 144 .. 158)
  BY <1>i, <1>o
<1>5. CASE a = 6
  <2>1. a \notin BothBytes /\ o \notin TriggerBytes
    BY <1>3, <1>5 DEF ByteHalves, AffineHalves, HighTriggers
  <2>3. write_io_register8(m, o, b) = m
    BY <1>2, <1>4, <1>5, <2>1 DEF write_io_register8
  <2> QED BY <1>o, <2>3, KeptSame
<1>6. CASE a \in ByteHalves
  <2>1. a \notin {0, 4, 6, 514, 768} /\ a \notin 144 .. 158 /\ a \notin HighTriggers
    BY <1>6 DEF ByteHalves, AffineHalves, HighTriggers
  <2>2. a \in BothBytes /\ o \notin TriggerBytes
    BY <1>3, <1>6, <2>1
  <2>3. write_io_register8(m, o, b) = write_io_register16(m, a, w)
    BY <1>1, <1>2, <1>4, <2>1, <2>2 DEF write_io_register8
  <2> QED BY <1>o, <1>2, <2>3, Write16Kept
<1>7. CASE a \in HighTriggers
  <2>1. a \notin {0, 4, 6, 514, 768} /\ a \notin 144 .. 158 /\ a \notin ByteHalves
    BY <1>7 DEF ByteHalves, AffineHalves, HighTriggers
  <2>2. a \notin BothBytes /\ o \in TriggerBytes
    BY <1>3, <1>7, <2>1
  <2>3. write_io_register8(m, o, b) = write_io_register16(m, a, z)
    BY <1>9, <1>2, <1>4, <2>1, <2>2 DEF write_io_register8
  <2> QED BY <1>o, <1>2, <2>3, Write16Kept
<1>8. CASE a \in 144 .. 158
  <2>1. a \notin {0, 4, 6, 514, 768} /\ a \notin HighTriggers /\ a \notin ByteHalves
    BY <1>8 DEF ByteHalves, AffineHalves, HighTriggers
  <2>2. a \notin BothBytes /\ o \notin TriggerBytes
    BY <1>3, <2>1
  <2>3. write_io_register8(m, o, b) = WaveMarked(StoreByte(m, o, b), TRUE)
    BY <1>2, <1>4, <1>8, <2>1, <2>2 DEF write_io_register8, WaveMarked
  <2>4. a \notin Hardware
    BY <1>8 DEF Hardware
  <2>5. Kept(m, StoreByte(m, o, b))
    BY <1>2, <2>4, KeptSet
  <2> QED BY <1>o, <2>3, <2>5, KeptMarks
<1>10. CASE a = 514
  <2>1. a \notin HighTriggers /\ a \notin ByteHalves
    BY <1>10 DEF ByteHalves, AffineHalves, HighTriggers
  <2>2. a \notin BothBytes /\ o \notin TriggerBytes
    BY <1>3, <2>1
  <2>3. PICK h : h = High(m.io[514])
    OBVIOUS
  <2>4. PICK d : d = AndNot(h, b)
    OBVIOUS
  <2>5. write_io_register8(m, o, b) = StoreByte(m, o, d)
    BY <1>2, <1>4, <1>10, <2>2, <2>3, <2>4 DEF write_io_register8
  <2>6. d \in 0 .. 255
    BY <1>10, <2>3, <2>4, HighIf, ZenonT(40)
  <2>7. Kept(m, Set(m, a, access_register8_high(m, a, d)))
    BY <1>10, <2>3, <2>4, HighIf
  <2>8. StoreByte(m, o, d) = Set(m, a, access_register8_high(m, a, d))
    BY <1>o, <2>6, Bytes
  <2> QED BY <1>o, <2>5, <2>7, <2>8
<1>11. CASE a = 768
  <2>1. a \notin HighTriggers /\ a \notin ByteHalves
    BY <1>11 DEF ByteHalves, AffineHalves, HighTriggers
  <2>2. a \notin BothBytes /\ o \notin TriggerBytes
    BY <1>3, <2>1
  <2>3. write_io_register8(m, o, b) = Halted(m, b)
    BY <1>2, <1>4, <1>11, <2>2 DEF write_io_register8
  <2> QED BY <1>o, <2>3, KeptHalted
<1>12. CASE a \notin {6, 514, 768} /\ a \notin 144 .. 158 /\ a \notin HighTriggers /\ a \notin ByteHalves
  <2>1. a # 6 /\ a # 514 /\ a # 768 /\ a \notin 144 .. 158
    BY <1>12
  <2>2. a \notin BothBytes /\ o \notin TriggerBytes
    BY <1>3, <1>12
  <2>3. write_io_register8(m, o, b) = StoreByte(m, o, b)
    BY <1>2, <1>4, <2>1, <2>2 DEF write_io_register8
  <2>4. CASE a \in {4, 132}
    <3>1. Kept(m, Set(m, a, w))
      BY <1>1, <2>4, HighReports
    <3> QED BY <1>o, <1>2, <2>3, <3>1
  <2>5. CASE a \notin {4, 132}
    <3>1. a \notin Hardware
      BY <2>1, <2>5 DEF Hardware
    <3> QED BY <1>o, <1>2, <2>3, <3>1, KeptSet
  <2> QED BY <2>4, <2>5
<1> QED BY <1>5, <1>6, <1>7, <1>8, <1>10, <1>11, <1>12

(* Stores of a word. *)
LEMMA Write32Kept ==
  ASSUME NEW m, Good(m), NEW a \in Addresses, NEW v \in Halfwords, NEW w \in Halfwords,
         a + 2 \in Addresses
  PROVE  Kept(m, write_io_register32(m, a, v, w))
<1>1. PICK o : o = a + 2
  OBVIOUS
<1>2. o \in Addresses
  BY <1>1
<1>3. CASE a \in AffineWords
  <2>1. a \notin Hardware /\ o \notin Hardware /\ a \notin {160, 164}
    BY <1>1, <1>3 DEF AffineWords, Hardware
  <2>2. PICK n : n = Set(m, a, v)
    OBVIOUS
  <2>3. Kept(m, n)
    BY <2>1, <2>2, KeptSet
  <2>4. Kept(n, Set(n, o, w))
    BY <2>1, <2>3, KeptSet DEF Kept
  <2>5. Kept(m, Set(n, o, w))
    BY <2>3, <2>4, KeptTwice
  <2>6. Kept(m, Affine(Set(n, o, w), a))
    BY <2>5, KeptAffine
  <2>7. write_io_register32(m, a, v, w) = Affine(Set(n, o, w), a)
    BY <1>1, <1>3, <2>1, <2>2 DEF write_io_register32
  <2> QED BY <2>6, <2>7
<1>4. CASE a \in {160, 164}
  <2>1. a \notin AffineWords
    BY <1>4 DEF AffineWords
  <2>2. PICK bytes : bytes = <<Low(v), High(v), Low(w), High(w)>>
    OBVIOUS
  <2>3. write_io_register32(m, a, v, w) = sound_timer_queue(m, (a - 160) \div 4, bytes)
    BY <1>4, <2>1, <2>2 DEF write_io_register32
  <2> QED BY <2>3, Queue, KeptSame
<1>5. CASE a \notin AffineWords /\ a \notin {160, 164}
  <2>1. PICK n : n = write_io_register16(m, a, v)
    OBVIOUS
  <2>2. Kept(m, n)
    BY <2>1, Write16Kept
  <2>3. Kept(n, write_io_register16(n, o, w))
    BY <1>2, <2>2, Write16Kept DEF Kept
  <2>4. write_io_register32(m, a, v, w) = write_io_register16(n, o, w)
    BY <1>1, <1>5, <2>1 DEF write_io_register32
  <2> QED BY <2>2, <2>3, <2>4, KeptTwice
<1> QED BY <1>3, <1>4, <1>5
-----------------------------------------------------------------------------

(* Playing. *)
LEMMA SameEnvelope ==
  ASSUME NEW g, Envelope(g), NEW h,
         h.envelope_ticks = g.envelope_ticks,
         h.envelope_initial_ticks = g.envelope_initial_ticks,
         h.envelope_volume = g.envelope_volume,
         h.envelope_initial_volume = g.envelope_initial_volume,
         h.envelope_status = g.envelope_status
  PROVE  Envelope(h)
BY DEF Envelope

(* A channel put into the device. *)
LEMMA ChannelPut ==
  ASSUME NEW m, Good(m), NEW c \in Channels, NEW g, IsChannel(g), Envelope(g),
         NEW n, n = [m EXCEPT !.gbc[c] = g]
  PROVE  Good(n) /\ n.io = m.io /\ n.gbc[c] = g
<1>1. PICK gbc : gbc = [m.gbc EXCEPT ![c] = g]
  OBVIOUS
<1>2. GoodGbc(gbc) /\ gbc[c] = g
  BY <1>1, GbcSet DEF Good
<1>3. IsDevice(n) /\ n.io = m.io /\ n.gbc = gbc /\ n.timer = m.timer
  BY <1>1 DEF Good, IsDevice, DeviceFields
<1> QED BY <1>2, <1>3 DEF Good

LEMMA SweepTicks ==
  ASSUME NEW m, Good(m), NEW x, NEW n, n = [m EXCEPT !.sweep.ticks = x]
  PROVE  Good(n) /\ n.io = m.io
BY DEF Good, IsDevice, DeviceFields

LEMMA SweepGood ==
  ASSUME NEW m, Good(m)
  PROVE  Good(update_tone_sweep(m)) /\ update_tone_sweep(m).io = m.io
<1> DEFINE s == m.sweep
           old == m.gbc[0].rate
           change == old \div 2^s.shift
           new == IF s.direction = 1 THEN old - change ELSE old + change
           capped == IF new > 2048 THEN 2048 ELSE new
           x == Down(s.ticks)
           y == s.initial_ticks
<1>1. CASE ~s.status
  <2>1. update_tone_sweep(m) = m
    BY <1>1 DEF update_tone_sweep
  <2> QED BY <2>1
<1>2. CASE s.status /\ x # 0
  <2>1. PICK n : n = [m EXCEPT !.sweep.ticks = x]
    OBVIOUS
  <2>2. update_tone_sweep(m) = n
    BY <1>2, <2>1 DEF update_tone_sweep
  <2> QED BY <2>1, <2>2, SweepTicks
<1>3. CASE s.status /\ x = 0
  <2>1. PICK n : n = [m EXCEPT !.gbc[0].rate = capped, !.sweep.ticks = y]
    OBVIOUS
  <2>2. update_tone_sweep(m) = n
    BY <1>3, <2>1 DEF update_tone_sweep
  <2> HIDE DEF capped, x, y
  <2>3. PICK g : g = [m.gbc[0] EXCEPT !.rate = capped]
    OBVIOUS
  <2>4. 0 \in Channels
    BY DEF Channels
  <2>5. IsChannel(m.gbc[0]) /\ Envelope(m.gbc[0])
    BY <2>4 DEF Good, GoodGbc
  <2>6. /\ IsChannel(g)
        /\ g.envelope_ticks = m.gbc[0].envelope_ticks
        /\ g.envelope_initial_ticks = m.gbc[0].envelope_initial_ticks
        /\ g.envelope_volume = m.gbc[0].envelope_volume
        /\ g.envelope_initial_volume = m.gbc[0].envelope_initial_volume
        /\ g.envelope_status = m.gbc[0].envelope_status
    BY <2>3, <2>5 DEF IsChannel, ChannelFields
  <2>7. Envelope(g)
    BY <2>5, <2>6, SameEnvelope
  <2>8. PICK k : k = [m EXCEPT !.gbc[0] = g]
    OBVIOUS
  <2>9. Good(k) /\ k.io = m.io
    BY <2>4, <2>6, <2>7, <2>8, ChannelPut
  <2>10. n = [k EXCEPT !.sweep.ticks = y]
    BY <2>1, <2>3, <2>8 DEF Good, IsDevice, DeviceFields
  <2> QED BY <2>2, <2>9, <2>10, SweepTicks
<1> QED BY <1>1, <1>2, <1>3

(* An envelope counts from its length to 1, and then starts again. *)
LEMMA EnvelopeGood ==
  ASSUME NEW g, IsChannel(g), Envelope(g)
  PROVE  IsChannel(update_tone_envelope(g)) /\ Envelope(update_tone_envelope(g))
<1>1. CASE ~g.envelope_status
  <2>1. update_tone_envelope(g) = g
    BY <1>1 DEF update_tone_envelope
  <2> QED BY <2>1
<1>2. CASE g.envelope_status /\ g.envelope_ticks # 1
  <2>1. PICK t : t = Down(g.envelope_ticks)
    OBVIOUS
  <2>2. PICK h : h = [g EXCEPT !.envelope_ticks = t]
    OBVIOUS
  <2>3. update_tone_envelope(g) = h
    BY <1>2, <2>1, <2>2 DEF update_tone_envelope
  <2>4. /\ IsChannel(h) /\ h.envelope_ticks = t
        /\ h.envelope_initial_ticks = g.envelope_initial_ticks
        /\ h.envelope_volume = g.envelope_volume
        /\ h.envelope_initial_volume = g.envelope_initial_volume
        /\ h.envelope_status = g.envelope_status
    BY <2>2 DEF IsChannel, ChannelFields
  <2>5. PICK i, n : i = g.envelope_ticks /\ n = g.envelope_initial_ticks
    OBVIOUS
  <2>6. i \in 1 .. n /\ n \in Nat /\ i # 1
    BY <1>2, <2>5 DEF Envelope
  <2>7. t = i - 1
    BY <2>1, <2>5, <2>6 DEF Down
  <2>8. t \in 1 .. n
    BY <2>6, <2>7
  <2>9. Envelope(h)
    BY <2>4, <2>5, <2>8 DEF Envelope
  <2> QED BY <2>3, <2>4, <2>9
<1>3. CASE g.envelope_status /\ g.envelope_ticks = 1
  <2> DEFINE v == IF g.envelope_direction = 1
                  THEN IF g.envelope_volume # 15 THEN g.envelope_volume + 1 ELSE g.envelope_volume
                  ELSE IF g.envelope_volume # 0 THEN g.envelope_volume - 1 ELSE g.envelope_volume
  <2>1. PICK h : h = [g EXCEPT !.envelope_ticks = g.envelope_initial_ticks, !.envelope_volume = v]
    OBVIOUS
  <2>2. update_tone_envelope(g) = h
    BY <1>3, <2>1 DEF update_tone_envelope
  <2>3. v \in 0 .. 15
    <3>1. PICK j : j = g.envelope_volume
      OBVIOUS
    <3>2. j \in 0 .. 15
      BY <3>1 DEF Envelope
    <3> QED BY <3>1, <3>2
  <2> HIDE DEF v
  <2>4. /\ IsChannel(h) /\ h.envelope_ticks = g.envelope_initial_ticks
        /\ h.envelope_initial_ticks = g.envelope_initial_ticks
        /\ h.envelope_volume = v
        /\ h.envelope_initial_volume = g.envelope_initial_volume
        /\ h.envelope_status = g.envelope_status
    BY <2>1 DEF IsChannel, ChannelFields
  <2>5. PICK n : n = g.envelope_initial_ticks
    OBVIOUS
  <2>6. n \in Nat /\ 1 \in 1 .. n
    BY <1>3, <2>5 DEF Envelope
  <2>7. n \in 1 .. n
    BY <2>6
  <2>8. Envelope(h)
    BY <2>3, <2>4, <2>5, <2>7 DEF Envelope
  <2> QED BY <2>2, <2>4, <2>8
<1> QED BY <1>1, <1>2, <1>3

(* A channel whose other fields were set. *)
LEMMA OtherFields ==
  ASSUME NEW g, IsChannel(g), Envelope(g), NEW x, NEW y,
         NEW h, \/ h = [g EXCEPT !.length_ticks = x]
                \/ h = [g EXCEPT !.over = x]
                \/ h = [g EXCEPT !.active_flag = x, !.over = y]
  PROVE  IsChannel(h) /\ Envelope(h)
<1>1. /\ IsChannel(h)
      /\ h.envelope_ticks = g.envelope_ticks
      /\ h.envelope_initial_ticks = g.envelope_initial_ticks
      /\ h.envelope_volume = g.envelope_volume
      /\ h.envelope_initial_volume = g.envelope_initial_volume
      /\ h.envelope_status = g.envelope_status
  BY DEF IsChannel, ChannelFields
<1> QED BY <1>1, SameEnvelope

(* A carry of a channel's tick counter. *)
LEMMA CountersGood ==
  ASSUME NEW m, Good(m), NEW c \in Channels
  PROVE  Good(update_tone_counters(m, c)) /\ update_tone_counters(m, c).io = m.io
<1>1. PICK g : g = m.gbc[c]
  OBVIOUS
<1>2. IsChannel(g) /\ Envelope(g)
  BY <1>1 DEF Good, GoodGbc
<1> DEFINE less == [g EXCEPT !.length_ticks = Down(@)]
<1>3. PICK counted : counted = IF g.length_status THEN less ELSE g
  OBVIOUS
<1>4. IsChannel(counted) /\ Envelope(counted)
  <2>1. PICK x : x = Down(g.length_ticks)
    OBVIOUS
  <2>2. PICK h : h = [g EXCEPT !.length_ticks = x]
    OBVIOUS
  <2>3. IsChannel(h) /\ Envelope(h)
    BY <1>2, <2>2, OtherFields
  <2>4. counted = h \/ counted = g
    BY <1>3, <2>1, <2>2
  <2> QED BY <1>2, <2>3, <2>4
<1>5. PICK shaped : shaped = IF c = 2 THEN counted ELSE update_tone_envelope(counted)
  OBVIOUS
<1>6. IsChannel(shaped) /\ Envelope(shaped)
  BY <1>4, <1>5, EnvelopeGood
<1>7. PICK ended : ended = [counted EXCEPT !.active_flag = FALSE, !.over = TRUE]
  OBVIOUS
<1>8. IsChannel(ended) /\ Envelope(ended)
  BY <1>4, <1>7, OtherFields
<1>9. PICK playing : playing = [shaped EXCEPT !.over = FALSE]
  OBVIOUS
<1>10. IsChannel(playing) /\ Envelope(playing)
  BY <1>6, <1>9, OtherFields
<1>11. PICK n : n = [m EXCEPT !.gbc[c] = ended]
  OBVIOUS
<1>12. PICK k : k = [m EXCEPT !.gbc[c] = playing]
  OBVIOUS
<1>13. Good(n) /\ n.io = m.io
  BY <1>8, <1>11, ChannelPut
<1>14. Good(k) /\ k.io = m.io
  BY <1>10, <1>12, ChannelPut
<1>15. Good(update_tone_sweep(k)) /\ update_tone_sweep(k).io = k.io
  BY <1>14, SweepGood
<1>16. \/ update_tone_counters(m, c) = n
       \/ update_tone_counters(m, c) = update_tone_sweep(k)
       \/ update_tone_counters(m, c) = k
  BY <1>1, <1>3, <1>5, <1>7, <1>9, <1>11, <1>12 DEF update_tone_counters
<1> QED BY <1>13, <1>14, <1>15, <1>16

LEMMA RenderGood ==
  ASSUME NEW m, Good(m), NEW c \in Channels, NEW carries
  PROVE  /\ Good(gbc_sound_render_channel(m, c, carries))
         /\ gbc_sound_render_channel(m, c, carries).io = m.io
<1>1. \/ gbc_sound_render_channel(m, c, carries) = m
      \/ gbc_sound_render_channel(m, c, carries) = update_tone_counters(m, c)
  BY DEF gbc_sound_render_channel
<1> QED BY <1>1, CountersGood

(* A register set, its place and value known. *)
LEMMA IoPut ==
  ASSUME NEW m, Good(m), NEW a \in DOMAIN m.io, NEW w \in Halfwords, NEW n, n = [m EXCEPT !.io[a] = w]
  PROVE  Good(n) /\ DOMAIN n.io = DOMAIN m.io
<1>1. n = Set(m, a, w)
  BY DEF Set
<1>5. Good(Set(m, a, w)) /\ Set(m, a, w).io = Put(m.io, a, w)
  BY SetIo
<1>2. Good(n) /\ n.io = Put(m.io, a, w)
  BY <1>1, <1>5
<1>3. GoodIo(m.io)
  BY DEF Good
<1>4. DOMAIN Put(m.io, a, w) = DOMAIN m.io
  BY <1>3, PutOver
<1> QED BY <1>2, <1>4

LEMMA PlayGood ==
  ASSUME NEW m, Good(m), NEW carries
  PROVE  LET r == update_gbc_sound(m, carries)
         IN  Good(r) /\ DOMAIN r.io = DOMAIN m.io
<1> DEFINE on == {ch \in Channels : m.sound_on /\ Playing(m, ch)}
           Bits(ch) == IF ch \in on THEN 2^ch ELSE 0
<1>0. 0 \in Channels /\ 1 \in Channels /\ 2 \in Channels /\ 3 \in Channels
  BY DEF Channels
<1>1. PICK n : n = [m EXCEPT !.wave_update = FALSE]
  OBVIOUS
<1>2. Good(n) /\ n.io = m.io
  BY <1>1 DEF Good, IsDevice, DeviceFields
<1>3. PICK n0 : n0 = gbc_sound_render_channel(n, 0, carries)
  OBVIOUS
<1>4. Good(n0) /\ n0.io = m.io
  BY <1>0, <1>2, <1>3, RenderGood
<1>5. PICK n1 : n1 = gbc_sound_render_channel(n0, 1, carries)
  OBVIOUS
<1>6. Good(n1) /\ n1.io = m.io
  BY <1>0, <1>4, <1>5, RenderGood
<1>7. PICK n2 : n2 = gbc_sound_render_channel(n1, 2, carries)
  OBVIOUS
<1>8. Good(n2) /\ n2.io = m.io
  BY <1>0, <1>6, <1>7, RenderGood
<1>9. PICK n3 : n3 = gbc_sound_render_channel(n2, 3, carries)
  OBVIOUS
<1>10. Good(n3) /\ n3.io = m.io
  BY <1>0, <1>8, <1>9, RenderGood
<1>11. PICK k : k = IF m.sound_on THEN n3 ELSE m
  OBVIOUS
<1>12. Good(k) /\ k.io = m.io
  BY <1>10, <1>11
<1>13. PICK w : w = WithoutLow(m.io[132], 4) + Bits(0) + Bits(1) + Bits(2) + Bits(3)
  OBVIOUS
<1>14. 132 \in DOMAIN m.io
  BY DEF Good, GoodIo, Hardware
<1>15. w \in Halfwords
  <2>1. PICK b0, b1, b2, b3 : b0 = Bits(0) /\ b1 = Bits(1) /\ b2 = Bits(2) /\ b3 = Bits(3)
    OBVIOUS
  <2>2. 2^0 = 1 /\ 2^1 = 2 /\ 2^2 = 4 /\ 2^3 = 8
    OBVIOUS
  <2>3. b0 \in {0, 1} /\ b1 \in {0, 2} /\ b2 \in {0, 4} /\ b3 \in {0, 8}
    BY <2>1, <2>2
  <2>4. PICK i : i = m.io[132]
    OBVIOUS
  <2>5. i \in Halfwords
    BY <1>14, <2>4 DEF Good, GoodIo
  <2>6. i \in Int /\ 0 <= i /\ i <= 65535
    BY <2>5 DEF Halfwords
  <2>10. i \in Int
    BY <2>6
  <2>7. WithoutLow(i, 4) = i - (i % 16)
    BY <2>10, SmallFields
  <2>8. w = i - (i % 16) + b0 + b1 + b2 + b3
    BY <1>13, <2>1, <2>4, <2>7
  <2>9. w \in Int /\ 0 <= w /\ w <= 65535
    BY <2>3, <2>6, <2>8
  <2> QED BY <2>9 DEF Halfwords
<1>16. PICK r : r = [k EXCEPT !.io[132] = w]
  OBVIOUS
<1>17. update_gbc_sound(m, carries) = r
  BY <1>1, <1>3, <1>5, <1>7, <1>9, <1>11, <1>13, <1>16 DEF update_gbc_sound
<1>18. Good(r) /\ DOMAIN r.io = DOMAIN k.io
  BY <1>12, <1>14, <1>15, <1>16, IoPut
<1> QED BY <1>12, <1>17, <1>18
-----------------------------------------------------------------------------

(* The I/O registers at work: the invariant. *)
IoInv ==
  /\ group \in Groups
  /\ Good(device)
  /\ DOMAIN device.io = Registers(group)

LEMMA PowerOnGood ==
  ASSUME NEW used
  PROVE  LET m == reset_sound(used) IN Good(m) /\ DOMAIN m.io = Registers(used)
<1>1. PICK m : m = reset_sound(used)
  OBVIOUS
<1>2. /\ IsDevice(m)
      /\ m.io = [a \in Registers(used) |-> 0]
      /\ m.gbc = [ch \in Channels |-> Silent]
      /\ m.timer = [n \in 0 .. 3 |-> [status |-> "inactive", reload |-> 2^16, prescale |-> 0,
                                      irq |-> 0]]
  BY <1>1 DEF reset_sound, IsDevice, DeviceFields
<1>3. GoodIo(m.io) /\ DOMAIN m.io = Registers(used)
  <2>1. 0 \in Halfwords
    BY DEF Halfwords
  <2>2. Hardware \subseteq Registers(used)
    BY DEF Hardware, Registers
  <2> QED BY <1>2, <2>1, <2>2 DEF GoodIo
<1>4. GoodGbc(m.gbc)
  <2>1. IsChannel(Silent)
    BY DEF IsChannel, ChannelFields, Silent
  <2>2. Envelope(Silent)
    BY DEF Envelope, Silent
  <2> QED BY <1>2, <2>1, <2>2 DEF GoodGbc
<1>5. GoodTimers(m.timer)
  <2>1. PICK t : t = [status |-> "inactive", reload |-> 2^16, prescale |-> 0, irq |-> 0]
    OBVIOUS
  <2>2. IsTimer(t)
    BY <2>1 DEF IsTimer, TimerFields
  <2> QED BY <1>2, <2>1, <2>2 DEF GoodTimers
<1> QED BY <1>1, <1>2, <1>3, <1>4, <1>5 DEF Good

LEMMA IoInit == PowerOn => IoInv
<1> SUFFICES ASSUME PowerOn
             PROVE  IoInv
  OBVIOUS
<1>1. PICK off : off = reset_sound(group)
  OBVIOUS
<1>2. Good(off) /\ DOMAIN off.io = Registers(group)
  BY <1>1, PowerOnGood
<1>3. PICK a, b, v, w : a = 132 /\ b = 128 /\ v = 128 /\ w = 65399
  OBVIOUS
<1>4. a \in Addresses /\ b \in Addresses /\ v \in Halfwords /\ w \in Halfwords
  BY <1>3 DEF Addresses, Halfwords
<1>5. PICK n : n = write_io_register16(off, a, v)
  OBVIOUS
<1>6. Good(n) /\ DOMAIN n.io = DOMAIN off.io
  BY <1>2, <1>4, <1>5, Write16Kept DEF Kept
<1>7. PICK r : r = write_io_register16(n, b, w)
  OBVIOUS
<1>8. Good(r) /\ DOMAIN r.io = DOMAIN n.io
  BY <1>4, <1>6, <1>7, Write16Kept DEF Kept
<1>9. device = r /\ group \in Groups
  BY <1>1, <1>3, <1>5, <1>7 DEF PowerOn
<1> QED BY <1>2, <1>6, <1>8, <1>9 DEF IoInv

(* The store steps. *)
Stores == StoreHalfword \/ StoreLowByte \/ StoreHighByte \/ StoreWord

LEMMA RegistersFit ==
  ASSUME group \in Groups, NEW a \in group
  PROVE  /\ a \in Addresses /\ a \in Registers(group)
         /\ \A v \in Contents(a) : v \in Halfwords
<1>1. IsRegister(a) /\ \A v \in Contents(a) : IsHalfword(v)
  BY StoresAssumption DEF StoresFit
<1>2. a \in Addresses
  BY <1>1 DEF Addresses, IsRegister
<1>3. a \in Registers(group)
  BY DEF Registers
<1>4. \A v \in Contents(a) : v \in Halfwords
  BY <1>1 DEF Halfwords, IsHalfword
<1> QED BY <1>2, <1>3, <1>4

LEMMA StoreKept ==
  ASSUME IoInv, Stores
  PROVE  Kept(device, device') /\ group' = group
<1>1. PICK m : m = Now
  OBVIOUS
<1>2. Good(m) /\ m.io = device.io
  BY <1>1 DEF IoInv, Good, IsDevice, DeviceFields, Now
<1>3. ASSUME NEW r, Kept(m, r), Stored(r)
      PROVE  Kept(device, device') /\ group' = group
  BY <1>2, <1>3 DEF Kept, Stored
<1>4. CASE StoreHalfword
  <2>1. PICK a \in group : \E v \in Contents(a) : Stored(write_io_register16(m, a, v))
    BY <1>1, <1>4 DEF StoreHalfword
  <2>2. PICK v \in Contents(a) : Stored(write_io_register16(m, a, v))
    BY <2>1
  <2>3. a \in Addresses /\ v \in Halfwords
    BY RegistersFit DEF IoInv
  <2>4. Kept(m, write_io_register16(m, a, v))
    BY <1>2, <2>3, Write16Kept
  <2> QED BY <1>3, <2>2, <2>4
<1>5. CASE StoreLowByte
  <2>1. PICK a \in group : \E v \in Contents(a) : Stored(write_io_register8(m, a, Low(v)))
    BY <1>1, <1>5 DEF StoreLowByte
  <2>2. PICK v \in Contents(a) : Stored(write_io_register8(m, a, Low(v)))
    BY <2>1
  <2>3. a \in Addresses /\ v \in Halfwords /\ a \in DOMAIN m.io
    BY <1>2, RegistersFit DEF IoInv
  <2>4. PICK b : b = Low(v)
    OBVIOUS
  <2>5. b \in 0 .. 255
    BY <2>3, <2>4, SmallBytes
  <2>6. Kept(m, write_io_register8(m, a, b))
    BY <1>2, <2>3, <2>5, Write8LowKept
  <2> QED BY <1>3, <2>2, <2>4, <2>6
<1>6. CASE StoreHighByte
  <2>1. PICK a \in group : \E v \in Contents(a) : Stored(write_io_register8(m, a + 1, High(v)))
    BY <1>1, <1>6 DEF StoreHighByte
  <2>2. PICK v \in Contents(a) : Stored(write_io_register8(m, a + 1, High(v)))
    BY <2>1
  <2>3. a \in Addresses /\ v \in Halfwords /\ a \in DOMAIN m.io
    BY <1>2, RegistersFit DEF IoInv
  <2>4. PICK b : b = High(v)
    OBVIOUS
  <2>5. b \in 0 .. 255
    BY <2>3, <2>4, SmallBytes
  <2>6. Kept(m, write_io_register8(m, a + 1, b))
    BY <1>2, <2>3, <2>5, Write8HighKept
  <2> QED BY <1>3, <2>2, <2>4, <2>6
<1>7. CASE StoreWord
  <2>1. PICK a \in group : /\ a + 2 \in group
                           /\ \E v \in Contents(a), w \in Contents(a + 2) :
                                Stored(write_io_register32(m, a, v, w))
    BY <1>1, <1>7 DEF StoreWord
  <2>2. PICK v \in Contents(a), w \in Contents(a + 2) : Stored(write_io_register32(m, a, v, w))
    BY <2>1
  <2>3. a \in Addresses /\ v \in Halfwords
    BY RegistersFit DEF IoInv
  <2>4. a + 2 \in Addresses /\ w \in Halfwords
    BY <2>1, RegistersFit DEF IoInv
  <2>5. Kept(m, write_io_register32(m, a, v, w))
    BY <1>2, <2>3, <2>4, Write32Kept
  <2> QED BY <1>3, <2>2, <2>5
<1> QED BY <1>4, <1>5, <1>6, <1>7 DEF Stores

LEMMA PlayKept ==
  ASSUME IoInv, PlayAfterStore \/ PlayFrame
  PROVE  IoInv' /\ stores' = stores
<1>1. ASSUME NEW m, Good(m), m.io = device.io, NEW carries, Rendered(carries, m)
      PROVE  IoInv' /\ stores' = stores
  <2>1. PICK r : r = update_gbc_sound(m, carries)
    OBVIOUS
  <2>2. Good(r) /\ DOMAIN r.io = DOMAIN m.io
    BY <1>1, <2>1, PlayGood
  <2>3. device' = r /\ group' = group /\ stores' = stores
    BY <1>1, <2>1 DEF Rendered
  <2> QED BY <1>1, <2>2, <2>3 DEF IoInv
<1>2. CASE PlayAfterStore
  <2>1. PICK m : m = [device EXCEPT !.update = FALSE]
    OBVIOUS
  <2>2. Good(m) /\ m.io = device.io
    BY <2>1 DEF IoInv, Good, IsDevice, DeviceFields
  <2>3. PICK carries : Rendered(carries, m)
    BY <1>2, <2>1 DEF PlayAfterStore
  <2> QED BY <1>1, <2>2, <2>3
<1>3. CASE PlayFrame
  <2>1. PICK carries : Rendered(carries, device)
    BY <1>3 DEF PlayFrame
  <2>2. Good(device)
    BY DEF IoInv
  <2> QED BY <1>1, <2>1, <2>2
<1> QED BY <1>2, <1>3

LEMMA IoNext == IoInv /\ [DeviceStep]_device_vars => IoInv'
<1> SUFFICES ASSUME IoInv, [DeviceStep]_device_vars
             PROVE  IoInv'
  OBVIOUS
<1>1. CASE Stores
  <2>1. Kept(device, device') /\ group' = group
    BY <1>1, StoreKept
  <2> QED BY <2>1 DEF IoInv, Kept
<1>2. CASE PlayAfterStore \/ PlayFrame
  BY <1>2, PlayKept
<1>3. CASE UNCHANGED device_vars
  BY <1>3 DEF device_vars, IoInv
<1> QED BY <1>1, <1>2, <1>3 DEF DeviceStep, Stores

(* The devices behind the I/O registers stay good: the registers halfwords, the      *)
(* channels' envelopes counting from a number that is not 0 (IoDevices).             *)
THEOREM DevicesStayGood == DeviceSpec => []IoInv
<1>1. PowerOn => IoInv
  BY IoInit
<1>2. IoInv /\ [DeviceStep]_device_vars => IoInv'
  BY IoNext
<1> QED BY <1>1, <1>2, PTL DEF DeviceSpec

(* EnvelopeNeverWraps for every register, content and number of stores: a channel    *)
(* whose envelope counts is within its length, and its volume one of the table's 16. *)
THEOREM EnvelopesNeverWrap == DeviceSpec => []EnvelopeNeverWraps
<1>1. IoInv => EnvelopeNeverWraps
  BY DEF IoInv, Good, GoodGbc, Envelope, EnvelopeNeverWraps
<1> QED BY <1>1, DevicesStayGood, PTL

(* HardwareBitsStay for every store of a byte, a halfword or a word.                 *)
THEOREM StoresSpareHardware == DeviceSpec => HardwareBitsStay
<1> DEFINE A == stores' # stores => Spared(device.io, device'.io)
<1>1. IoInv /\ [DeviceStep]_device_vars => [A]_device_vars
  <2> SUFFICES ASSUME IoInv, [DeviceStep]_device_vars
               PROVE  A \/ UNCHANGED device_vars
    OBVIOUS
  <2>1. CASE Stores
    BY <2>1, StoreKept DEF Kept
  <2>2. CASE PlayAfterStore \/ PlayFrame
    BY <2>2, PlayKept
  <2>3. CASE UNCHANGED device_vars
    BY <2>3
  <2> QED BY <2>1, <2>2, <2>3 DEF DeviceStep, Stores
<1> QED BY <1>1, DevicesStayGood, PTL DEF DeviceSpec, HardwareBitsStay, Spared

-----------------------------------------------------------------------------
(* Bytes, halfwords and words. *)

(* What one byte may hold. *)
Octets == 0 .. 255

LEMMA SameDevice ==
  ASSUME NEW m, NEW n, IsDevice(m), IsDevice(n), \A f \in DeviceFields : m[f] = n[f]
  PROVE  m = n
BY DEF IsDevice

LEMMA PutTwice ==
  ASSUME NEW io, NEW a, NEW x, NEW y
  PROVE  Put(Put(io, a, x), a, y) = Put(io, a, y)
BY DEF Put

(* The channel put into the device, with the halfword stored. *)
NotedChannel(m, c, g, a, v) == Noted([m EXCEPT !.gbc[c] = g], a, v)

LEMMA ChannelTwice ==
  ASSUME NEW m, Good(m), NEW a \in DOMAIN m.io, NEW x, NEW v, NEW c \in Channels, NEW g, NEW h,
         NEW n, n = NotedChannel(m, c, g, a, x)
  PROVE  n.gbc[c] = g /\ NotedChannel(n, c, h, a, v) = NotedChannel(m, c, h, a, v)
<1>1. m = [f \in DeviceFields |-> m[f]] /\ m.gbc = [ch \in Channels |-> m.gbc[ch]]
  BY DEF Good, IsDevice, GoodGbc
<1>2. n.gbc[c] = g
  BY <1>1 DEF Noted, Set, DeviceFields, NotedChannel
<1>3. NotedChannel(n, c, h, a, v) = NotedChannel(m, c, h, a, v)
  BY <1>1, ZenonT(40) DEF Noted, Set, DeviceFields, NotedChannel
<1> QED BY <1>2, <1>3

(* What a store to a square wave's length, duty and envelope makes of the channel. *)
Lowered(g, v) ==
  LET ticks == Field(v, 8, 3) * 4
  IN  [g EXCEPT !.length_ticks = 64 - Field(v, 0, 6), !.duty = Field(v, 6, 2),
                !.envelope_direction = Bit(v, 11),
                !.envelope_initial_volume = Field(v, 12, 4),
                !.envelope_volume = Field(v, 12, 4),
                !.envelope_initial_ticks = ticks, !.envelope_ticks = ticks,
                !.envelope_status = ticks # 0]

(* The same of a channel set to this length, duty, direction, volume and ticks. *)
Shaped(g, length, duty, direction, volume, ticks, status) ==
  [g EXCEPT !.length_ticks = length, !.duty = duty, !.envelope_direction = direction,
            !.envelope_initial_volume = volume, !.envelope_volume = volume,
            !.envelope_initial_ticks = ticks, !.envelope_ticks = ticks,
            !.envelope_status = status]

LEMMA LoweredTwice ==
  ASSUME NEW g, IsChannel(g), NEW x, NEW v
  PROVE  Lowered(Lowered(g, x), v) = Lowered(g, v)
<1>1. ASSUME NEW a, NEW b, NEW c, NEW d, NEW e, NEW f, NEW p, NEW q, NEW r, NEW s, NEW t, NEW u
      PROVE  Shaped(Shaped(g, p, q, r, s, t, u), a, b, c, d, e, f) = Shaped(g, a, b, c, d, e, f)
  BY DEF Shaped, IsChannel, ChannelFields
<1>2. \A k, y : Lowered(k, y) = Shaped(k, 64 - Field(y, 0, 6), Field(y, 6, 2), Bit(y, 11),
                                     Field(y, 12, 4), Field(y, 8, 3) * 4, Field(y, 8, 3) * 4 # 0)
  BY DEF Lowered, Shaped
<1>3. PICK l, k : l = Lowered(g, x) /\ k = Lowered(l, v)
  OBVIOUS
<1>4. PICK p, q, r, s, t, u : l = Shaped(g, p, q, r, s, t, u)
  BY <1>2, <1>3
<1>5. PICK a, b, c, d, e, f : a = 64 - Field(v, 0, 6) /\ b = Field(v, 6, 2) /\ c = Bit(v, 11)
        /\ d = Field(v, 12, 4) /\ e = Field(v, 8, 3) * 4 /\ f = (Field(v, 8, 3) * 4 # 0)
  OBVIOUS
<1>6. k = Shaped(l, a, b, c, d, e, f) /\ Lowered(g, v) = Shaped(g, a, b, c, d, e, f)
  BY <1>2, <1>3, <1>5
<1> QED BY <1>1, <1>3, <1>4, <1>6

LEMMA ToneLowTwice ==
  ASSUME NEW m, Good(m), NEW a \in DOMAIN m.io, NEW x, NEW v, NEW c \in Channels
  PROVE  gbc_sound_tone_control_low(gbc_sound_tone_control_low(m, c, a, x), c, a, v)
           = gbc_sound_tone_control_low(m, c, a, v)
<1>1. PICK g : g = m.gbc[c]
  OBVIOUS
<1>2. IsChannel(g)
  BY <1>1 DEF Good, GoodGbc
<1>3. PICK n : n = gbc_sound_tone_control_low(m, c, a, x)
  OBVIOUS
<1>4. n = NotedChannel(m, c, Lowered(g, x), a, x)
  BY <1>1, <1>3 DEF gbc_sound_tone_control_low, Lowered, NotedChannel
<1>5. n.gbc[c] = Lowered(g, x)
  BY <1>4, ChannelTwice
<1>6. gbc_sound_tone_control_low(n, c, a, v) = NotedChannel(n, c, Lowered(n.gbc[c], v), a, v)
  BY DEF gbc_sound_tone_control_low, Lowered, NotedChannel
<1>7. Lowered(n.gbc[c], v) = Lowered(g, v)
  BY <1>2, <1>5, LoweredTwice
<1>8. gbc_sound_tone_control_low(n, c, a, v) = NotedChannel(m, c, Lowered(g, v), a, v)
  <2>1. PICK h : h = Lowered(g, v)
    OBVIOUS
  <2>2. NotedChannel(n, c, h, a, v) = NotedChannel(m, c, h, a, v)
    BY <1>4, ChannelTwice
  <2> QED BY <1>6, <1>7, <2>1, <2>2
<1>9. gbc_sound_tone_control_low(m, c, a, v) = NotedChannel(m, c, Lowered(g, v), a, v)
  BY <1>1 DEF gbc_sound_tone_control_low, Lowered, NotedChannel
<1> QED BY <1>3, <1>8, <1>9

(* What a store to a square wave's frequency makes of the channel. *)
Rated(g, v) == [g EXCEPT !.rate = Field(v, 0, 11), !.length_status = Bit(v, 14) = 1]

LEMMA RatedTwice ==
  ASSUME NEW g, IsChannel(g), NEW x, NEW v, Bit(x, 15) = 0
  PROVE  Trigger(Rated(Trigger(Rated(g, x), x), v), v) = Trigger(Rated(g, v), v)
<1>1. Trigger(Rated(g, x), x) = Rated(g, x)
  BY DEF Trigger
<1>2. Rated(Rated(g, x), v) = Rated(g, v)
  BY DEF Rated, IsChannel, ChannelFields
<1> QED BY <1>1, <1>2

LEMMA ToneHighTwice ==
  ASSUME NEW m, Good(m), NEW a \in DOMAIN m.io, NEW x, NEW v, Bit(x, 15) = 0, NEW c \in Channels
  PROVE  gbc_sound_tone_control_high(gbc_sound_tone_control_high(m, c, a, x), c, a, v)
           = gbc_sound_tone_control_high(m, c, a, v)
<1>1. PICK g : g = m.gbc[c]
  OBVIOUS
<1>2. IsChannel(g)
  BY <1>1 DEF Good, GoodGbc
<1>3. PICK n : n = gbc_sound_tone_control_high(m, c, a, x)
  OBVIOUS
<1>t. PICK k : k = Trigger(Rated(g, x), x)
  OBVIOUS
<1>h. PICK h : h = Trigger(Rated(g, v), v)
  OBVIOUS
<1>4. n = NotedChannel(m, c, k, a, x)
  BY <1>1, <1>3, <1>t DEF gbc_sound_tone_control_high, Rated, NotedChannel
<1>5. n.gbc[c] = k
  BY <1>4, ChannelTwice
<1>6. gbc_sound_tone_control_high(n, c, a, v) = NotedChannel(n, c, Trigger(Rated(n.gbc[c], v), v), a, v)
  BY DEF gbc_sound_tone_control_high, Rated, NotedChannel
<1>7. Trigger(Rated(n.gbc[c], v), v) = h
  BY <1>2, <1>5, <1>t, <1>h, RatedTwice
<1>8. gbc_sound_tone_control_high(n, c, a, v) = NotedChannel(m, c, h, a, v)
  <2>2. NotedChannel(n, c, h, a, v) = NotedChannel(m, c, h, a, v)
    BY <1>4, ChannelTwice
  <2> QED BY <1>6, <1>7, <2>2
<1>9. gbc_sound_tone_control_high(m, c, a, v) = NotedChannel(m, c, h, a, v)
  BY <1>1, <1>h DEF gbc_sound_tone_control_high, Rated, NotedChannel
<1> QED BY <1>3, <1>8, <1>9

(* The same for the other handlers: a field and a channel put into the device. *)
NotedField(m, f, w, a, v) == Noted([m EXCEPT ![f] = w], a, v)

LEMMA FieldTwice ==
  ASSUME NEW m, Good(m), NEW a \in DOMAIN m.io, NEW x, NEW v,
         NEW f \in DeviceFields, f # "io", f # "update", NEW w, NEW y,
         NEW n, n = NotedField(m, f, w, a, x)
  PROVE  n[f] = w /\ NotedField(n, f, y, a, v) = NotedField(m, f, y, a, v)
<1>1. m = [e \in DeviceFields |-> m[e]]
  BY DEF Good, IsDevice
<1>2. n[f] = w
  BY <1>1 DEF Noted, Set, DeviceFields, NotedField
<1>3. NotedField(n, f, y, a, v) = NotedField(m, f, y, a, v)
  BY <1>1 DEF Noted, Set, DeviceFields, NotedField
<1> QED BY <1>2, <1>3

NotedBoth(m, c, g, f, w, a, v) == Noted([m EXCEPT !.gbc[c] = g, ![f] = w], a, v)

(* What that makes of the device. *)
Both(n, m, c, g, f, w, a, v) ==
  /\ IsDevice(n) /\ n.io = Put(m.io, a, v) /\ n.gbc = [m.gbc EXCEPT ![c] = g]
  /\ n[f] = w /\ n.update = TRUE
  /\ \A e \in DeviceFields \ {"io", "gbc", "update", f} : n[e] = m[e]

LEMMA BothFields ==
  ASSUME NEW m, IsDevice(m), NEW a, NEW v, NEW c, NEW g, NEW f \in {"wave", "noise"}, NEW w
  PROVE  Both(NotedBoth(m, c, g, f, w, a, v), m, c, g, f, w, a, v)
BY DEF Noted, Set, Put, IsDevice, DeviceFields, NotedBoth, Both

LEMMA BothTwice ==
  ASSUME NEW m, Good(m), NEW a, NEW x, NEW v, NEW c \in Channels, NEW g, NEW h,
         NEW f \in {"wave", "noise"}, NEW w, NEW y,
         NEW n, n = NotedBoth(m, c, g, f, w, a, x)
  PROVE  n.gbc[c] = g /\ n[f] = w /\ NotedBoth(n, c, h, f, y, a, v) = NotedBoth(m, c, h, f, y, a, v)
<1>1. IsDevice(m) /\ m.gbc = [ch \in Channels |-> m.gbc[ch]]
  BY DEF Good, GoodGbc
<1>2. Both(n, m, c, g, f, w, a, x)
  BY <1>1, BothFields
<1>i. IsDevice(n)
  BY <1>2 DEF Both
<1>3. PICK p, q : p = NotedBoth(n, c, h, f, y, a, v) /\ q = NotedBoth(m, c, h, f, y, a, v)
  OBVIOUS
<1>4. Both(p, n, c, h, f, y, a, v)
  BY <1>i, <1>3, BothFields
<1>5. Both(q, m, c, h, f, y, a, v)
  BY <1>1, <1>3, BothFields
<1>6. p.io = q.io
  BY <1>2, <1>4, <1>5, PutTwice DEF Both
<1>7. p.gbc = q.gbc
  BY <1>2, <1>4, <1>5 DEF Both
<1>8. p[f] = q[f] /\ p.update = q.update
  BY <1>4, <1>5 DEF Both
<1>9. \A e \in DeviceFields \ {"io", "gbc", "update", f} : p[e] = q[e]
  BY <1>2, <1>4, <1>5 DEF Both
<1>10. \A e \in DeviceFields : p[e] = q[e]
  BY <1>6, <1>7, <1>8, <1>9
<1>11. p = q
  BY <1>4, <1>5, <1>10, SameDevice DEF Both
<1>12. n.gbc[c] = g /\ n[f] = w
  BY <1>1, <1>2 DEF Both
<1> QED BY <1>3, <1>11, <1>12

WaveControls(w, p, q, r) == [w EXCEPT !.type = p, !.bank = q, !.master_enable = r]

LEMMA WaveTwice ==
  ASSUME NEW m, Good(m), 112 \in DOMAIN m.io, NEW x, NEW v
  PROVE  gbc_sound_wave_control(gbc_sound_wave_control(m, x), v) = gbc_sound_wave_control(m, v)
<1>1. \A k, y : gbc_sound_wave_control(k, y) =
                  NotedField(k, "wave", WaveControls(k.wave, Bit(y, 5), Bit(y, 6), Bit(y, 7)), 112, y)
  BY ZenonT(40) DEF gbc_sound_wave_control, NotedField, WaveControls
<1>2. \A w, p, q, r, b, c, d : WaveControls(WaveControls(w, p, q, r), b, c, d) = WaveControls(w, b, c, d)
  BY ZenonT(40) DEF WaveControls
<1>3. PICK n : n = gbc_sound_wave_control(m, x)
  OBVIOUS
<1>4. PICK p, q, r, b, c, d : p = Bit(x, 5) /\ q = Bit(x, 6) /\ r = Bit(x, 7)
                              /\ b = Bit(v, 5) /\ c = Bit(v, 6) /\ d = Bit(v, 7)
  OBVIOUS
<1>5. n = NotedField(m, "wave", WaveControls(m.wave, p, q, r), 112, x)
  BY <1>1, <1>3, <1>4
<1>6. PICK w, y : w = WaveControls(m.wave, p, q, r) /\ y = WaveControls(m.wave, b, c, d)
  OBVIOUS
<1>7. WaveControls(w, b, c, d) = y
  BY <1>2, <1>6
<1>8. "wave" \in DeviceFields
  BY DEF DeviceFields
<1>9. n["wave"] = w /\ NotedField(n, "wave", y, 112, v) = NotedField(m, "wave", y, 112, v)
  BY <1>5, <1>6, <1>8, FieldTwice
<1>10. gbc_sound_wave_control(n, v) = NotedField(n, "wave", WaveControls(n.wave, b, c, d), 112, v)
  BY <1>1, <1>4
<1>11. gbc_sound_wave_control(m, v) = NotedField(m, "wave", y, 112, v)
  BY <1>1, <1>4, <1>6
<1> QED BY <1>3, <1>7, <1>9, <1>10, <1>11

LEMMA AffineTwice ==
  ASSUME NEW m, Good(m), NEW a, NEW b, NEW x, NEW v, a \in DOMAIN m.io
  PROVE  Affine(Set(Affine(Set(m, a, x), b), a, v), b) = Affine(Set(m, a, v), b)
<1> DEFINE At(io) == <<io[b], io[b + 2] % 2^12>>
<1>1. PICK p, q : p = At(Put(m.io, a, x)) /\ q = At(Put(m.io, a, v))
  OBVIOUS
<1>2. m = [e \in DeviceFields |-> m[e]]
  BY DEF Good, IsDevice
<1>3. PICK n : n = Affine(Set(m, a, x), b)
  OBVIOUS
<1>4. Set(m, a, x).io = Put(m.io, a, x) /\ Set(m, a, v).io = Put(m.io, a, v)
  BY <1>2 DEF Set, Put, DeviceFields
<1>5. n = [Set(m, a, x) EXCEPT !.affine[b] = p]
  BY <1>1, <1>3, <1>4 DEF Affine
<1>6. Affine(Set(m, a, v), b) = [Set(m, a, v) EXCEPT !.affine[b] = q]
  BY <1>1, <1>4 DEF Affine
<1>7. Set(n, a, v).io = Put(m.io, a, v)
  BY <1>2, <1>5 DEF Set, Put, DeviceFields
<1>8. Affine(Set(n, a, v), b) = [Set(n, a, v) EXCEPT !.affine[b] = q]
  BY <1>1, <1>7 DEF Affine
<1>9. [Set(n, a, v) EXCEPT !.affine[b] = q] = [Set(m, a, v) EXCEPT !.affine[b] = q]
  BY <1>2, <1>5 DEF Set, DeviceFields
<1> QED BY <1>3, <1>6, <1>8, <1>9

LEMMA SetTwice ==
  ASSUME NEW m, NEW a, NEW x, NEW v
  PROVE  Set(Set(m, a, x), a, v) = Set(m, a, v)
BY DEF Set

LEMMA WaveLowTwice ==
  ASSUME NEW m, Good(m), 114 \in DOMAIN m.io, NEW x, NEW v
  PROVE  gbc_sound_tone_control_low_wave(gbc_sound_tone_control_low_wave(m, x), v)
           = gbc_sound_tone_control_low_wave(m, v)
<1> DEFINE Loud(y) == IF Bit(y, 15) = 1 THEN 12288
                      ELSE <<0, 16384, 8192, 4096>>[Field(y, 13, 2) + 1]
           G(g, p) == [g EXCEPT !.length_ticks = p]
           W(w, p) == [w EXCEPT !.volume = p]
<1>1. \A k, y : gbc_sound_tone_control_low_wave(k, y) =
                  NotedBoth(k, 2, G(k.gbc[2], 256 - Low(y)), "wave", W(k.wave, Loud(y)), 114, y)
  <2> SUFFICES ASSUME NEW k, NEW y
               PROVE  gbc_sound_tone_control_low_wave(k, y) =
                  NotedBoth(k, 2, G(k.gbc[2], 256 - Low(y)), "wave", W(k.wave, Loud(y)), 114, y)
    OBVIOUS
  <2>1. PICK p, q : p = 256 - Low(y) /\ q = Loud(y)
    OBVIOUS
  <2>2. gbc_sound_tone_control_low_wave(k, y) =
          Noted([k EXCEPT !.gbc[2].length_ticks = p, !.wave.volume = q], 114, y)
    BY <2>1 DEF gbc_sound_tone_control_low_wave
  <2>3. [k EXCEPT !.gbc[2].length_ticks = p, !.wave.volume = q]
          = [k EXCEPT !.gbc[2] = G(k.gbc[2], p), !["wave"] = W(k.wave, q)]
    OBVIOUS
  <2> QED BY <2>1, <2>2, <2>3 DEF NotedBoth
<1>2. \A g, p, q : G(G(g, p), q) = G(g, q) /\ W(W(g, p), q) = W(g, q)
  OBVIOUS
<1>c. 2 \in Channels /\ "wave" \in {"wave", "noise"}
  BY DEF Channels
<1> HIDE DEF Loud, G, W
<1>3. PICK n : n = gbc_sound_tone_control_low_wave(m, x)
  OBVIOUS
<1>4. PICK p, q, r, t : p = 256 - Low(x) /\ q = Loud(x) /\ r = 256 - Low(v) /\ t = Loud(v)
  OBVIOUS
<1>5. PICK g, w, h, y : g = G(m.gbc[2], p) /\ w = W(m.wave, q) /\ h = G(m.gbc[2], r) /\ y = W(m.wave, t)
  OBVIOUS
<1>6. n = NotedBoth(m, 2, g, "wave", w, 114, x)
  BY <1>1, <1>3, <1>4, <1>5
<1>7. n.gbc[2] = g /\ n["wave"] = w
      /\ NotedBoth(n, 2, h, "wave", y, 114, v) = NotedBoth(m, 2, h, "wave", y, 114, v)
  BY <1>6, <1>c, BothTwice
<1>8. G(g, r) = h /\ W(w, t) = y
  BY <1>2, <1>5
<1>9. gbc_sound_tone_control_low_wave(n, v) = NotedBoth(n, 2, G(n.gbc[2], r), "wave", W(n.wave, t), 114, v)
  BY <1>1, <1>4
<1>10. gbc_sound_tone_control_low_wave(m, v) = NotedBoth(m, 2, h, "wave", y, 114, v)
  BY <1>1, <1>4, <1>5
<1>11. gbc_sound_tone_control_low_wave(n, v) = NotedBoth(n, 2, h, "wave", y, 114, v)
  BY <1>7, <1>8, <1>9
<1> QED BY <1>3, <1>7, <1>10, <1>11

(* The wave's frequency, stored without its trigger first. *)
LEMMA WaveHighTwice ==
  ASSUME NEW m, Good(m), 116 \in DOMAIN m.io, NEW x, NEW v, Bit(x, 15) = 0
  PROVE  gbc_sound_tone_control_high_wave(gbc_sound_tone_control_high_wave(m, x), v)
           = gbc_sound_tone_control_high_wave(m, v)
<1> DEFINE G(g, rate, status, active) ==
             [g EXCEPT !.rate = rate, !.length_status = status, !.active_flag = active]
<1>1. \A k, y : gbc_sound_tone_control_high_wave(k, y) =
         NotedChannel(k, 2, G(k.gbc[2], Field(y, 0, 11), Bit(y, 14) = 1,
                              k.gbc[2].active_flag \/ Bit(y, 15) = 1), 116, y)
  BY DEF gbc_sound_tone_control_high_wave, NotedChannel
<1>2. \A g, p, q, r, b, c, d : G(G(g, p, q, r), b, c, d) = G(g, b, c, d)
  BY ZenonT(40)
<1>c. 2 \in Channels
  BY DEF Channels
<1>k. PICK k : k = m.gbc[2]
  OBVIOUS
<1>i. IsChannel(k)
  BY <1>c, <1>k DEF Good, GoodGbc
<1>3. PICK n : n = gbc_sound_tone_control_high_wave(m, x)
  OBVIOUS
<1>4. PICK p, q, r, b, c, d :
        /\ p = Field(x, 0, 11) /\ q = (Bit(x, 14) = 1) /\ r = (k.active_flag \/ Bit(x, 15) = 1)
        /\ b = Field(v, 0, 11) /\ c = (Bit(v, 14) = 1) /\ d = (k.active_flag \/ Bit(v, 15) = 1)
  OBVIOUS
<1>5. PICK g, h : g = G(k, p, q, r) /\ h = G(k, b, c, d)
  OBVIOUS
<1>a. (g.active_flag \/ Bit(v, 15) = 1) = d
  <2>1. g.active_flag = r
    BY <1>5, <1>i DEF IsChannel, ChannelFields
  <2>2. r = (k.active_flag \/ Bit(x, 15) = 1) /\ Bit(x, 15) # 1
    BY <1>4
  <2>3. r <=> k.active_flag
    BY <2>2, Zenon
  <2>4. (r \/ Bit(v, 15) = 1) = (k.active_flag \/ Bit(v, 15) = 1)
    BY <2>3
  <2> QED BY <2>1, <2>4, <1>4
<1> HIDE DEF G
<1>6. n = NotedChannel(m, 2, g, 116, x)
  BY <1>1, <1>3, <1>4, <1>5, <1>k
<1>7. n.gbc[2] = g /\ NotedChannel(n, 2, h, 116, v) = NotedChannel(m, 2, h, 116, v)
  BY <1>6, <1>c, ChannelTwice
<1>8. G(g, b, c, d) = h
  BY <1>2, <1>5
<1>9. gbc_sound_tone_control_high_wave(n, v) = NotedChannel(n, 2, G(g, b, c, d), 116, v)
  BY <1>1, <1>4, <1>7, <1>a
<1>10. gbc_sound_tone_control_high_wave(m, v) = NotedChannel(m, 2, h, 116, v)
  BY <1>1, <1>4, <1>5, <1>k
<1> QED BY <1>3, <1>7, <1>8, <1>9, <1>10

(* The noise, likewise. *)
LEMMA NoiseTwice ==
  ASSUME NEW m, Good(m), 124 \in DOMAIN m.io, NEW x, NEW v, Bit(x, 15) = 0
  PROVE  gbc_sound_noise_control(gbc_sound_noise_control(m, x), v) = gbc_sound_noise_control(m, v)
<1> DEFINE G(g, p) == [g EXCEPT !.length_status = p]
           N(y) == [ratio |-> Field(y, 0, 3), shift |-> Field(y, 4, 4), type |-> Bit(y, 3)]
<1>1. \A k, y : gbc_sound_noise_control(k, y) =
         NotedBoth(k, 3, Trigger(G(k.gbc[3], Bit(y, 14) = 1), y), "noise", N(y), 124, y)
  BY DEF gbc_sound_noise_control, NotedBoth
<1>2. \A g, p, q : G(G(g, p), q) = G(g, q)
  OBVIOUS
<1>t. \A g : Trigger(g, x) = g
  BY DEF Trigger
<1>c. 3 \in Channels /\ "noise" \in {"wave", "noise"}
  BY DEF Channels
<1> HIDE DEF G, N
<1>3. PICK n : n = gbc_sound_noise_control(m, x)
  OBVIOUS
<1>4. PICK p, q, w, y : p = (Bit(x, 14) = 1) /\ q = (Bit(v, 14) = 1) /\ w = N(x) /\ y = N(v)
  OBVIOUS
<1>5. PICK g, h : g = G(m.gbc[3], p) /\ h = Trigger(G(m.gbc[3], q), v)
  OBVIOUS
<1>6. n = NotedBoth(m, 3, g, "noise", w, 124, x)
  BY <1>1, <1>3, <1>4, <1>5, <1>t
<1>7. n.gbc[3] = g /\ n["noise"] = w
      /\ NotedBoth(n, 3, h, "noise", y, 124, v) = NotedBoth(m, 3, h, "noise", y, 124, v)
  BY <1>6, <1>c, BothTwice
<1>8. Trigger(G(g, q), v) = h
  BY <1>2, <1>5
<1>9. gbc_sound_noise_control(n, v) = NotedBoth(n, 3, h, "noise", y, 124, v)
  BY <1>1, <1>4, <1>7, <1>8
<1>10. gbc_sound_noise_control(m, v) = NotedBoth(m, 3, h, "noise", y, 124, v)
  BY <1>1, <1>4, <1>5
<1> QED BY <1>3, <1>7, <1>9, <1>10

(* SOUNDCNT_L. *)
LEMMA TriggerGbcTwice ==
  ASSUME NEW m, Good(m), NEW x, NEW v
  PROVE  gbc_trigger_sound(gbc_trigger_sound(m, x), v) = gbc_trigger_sound(m, v)
<1> DEFINE Right(y, ch) == IF Bit(y, ch + 8) = 1 \/ Bit(y, ch + 11) = 1 THEN 1 ELSE 0
           On(y, ch) == 2 * Bit(y, ch + 12) + Right(y, ch)
           G(gbc, y) == [ch \in DOMAIN gbc |-> [gbc[ch] EXCEPT !.status = On(y, ch)]]
           M(master, p, q) == [master EXCEPT !.right = p, !.left = q]
           Mixed(r, k, y) ==
             /\ IsDevice(r) /\ r.io = Put(k.io, 128, y) /\ r.gbc = G(k.gbc, y)
             /\ r.master = M(k.master, Field(y, 0, 3), Field(y, 4, 3))
             /\ \A e \in DeviceFields \ {"io", "gbc", "master"} : r[e] = k[e]
<1>1. ASSUME NEW k, NEW y, IsDevice(k)
      PROVE  Mixed(gbc_trigger_sound(k, y), k, y)
  <2>0. PICK r : r = gbc_trigger_sound(k, y)
    OBVIOUS
  <2>1. PICK p, q, gbc : p = Field(y, 0, 3) /\ q = Field(y, 4, 3) /\ gbc = G(k.gbc, y)
    OBVIOUS
  <2>2. PICK j : j = [k EXCEPT !.master.right = p, !.master.left = q]
    OBVIOUS
  <2>m. PICK master : master = M(k.master, p, q)
    OBVIOUS
  <2>3. /\ IsDevice(j) /\ j.master = master
        /\ \A e \in DeviceFields \ {"master"} : j[e] = k[e]
    <3>1. j = [k EXCEPT !.master = master]
      <4>1. k = [e \in DeviceFields |-> k[e]]
        BY <1>1 DEF IsDevice
      <4> QED BY <2>2, <2>m, <4>1 DEF DeviceFields
    <3> QED BY <1>1, <3>1 DEF IsDevice, DeviceFields
  <2>4. r = Set([j EXCEPT !.gbc = gbc], 128, y)
    <3>2. [j EXCEPT !.gbc = gbc] = [k EXCEPT !.master.right = p, !.master.left = q, !.gbc = gbc]
      BY <2>2
    <3>3. gbc = [ch \in DOMAIN k.gbc |-> [k.gbc[ch] EXCEPT !.status =
                  2 * Bit(y, ch + 12) + (IF Bit(y, ch + 8) = 1 \/ Bit(y, ch + 11) = 1 THEN 1 ELSE 0)]]
      BY <2>1
    <3> QED BY <2>0, <2>1, <3>2, <3>3 DEF gbc_trigger_sound
  <2> HIDE DEF G, M
  <2>i. PICK i : i = [j EXCEPT !.gbc = gbc]
    OBVIOUS
  <2>5. /\ IsDevice(i) /\ i.gbc = gbc /\ i.master = master /\ i.io = k.io
        /\ \A e \in DeviceFields \ {"gbc", "master"} : i[e] = k[e]
    BY <2>3, <2>i DEF IsDevice, DeviceFields
  <2>6. r = Set(i, 128, y)
    BY <2>4, <2>i
  <2>7. /\ IsDevice(r) /\ r.io = Put(i.io, 128, y)
        /\ \A e \in DeviceFields \ {"io"} : r[e] = i[e]
    BY <2>5, <2>6 DEF Set, Put, IsDevice, DeviceFields
  <2>8. r.gbc = gbc /\ r.master = master /\ \A e \in DeviceFields \ {"io", "gbc", "master"} : r[e] = k[e]
    BY <2>5, <2>7 DEF DeviceFields
  <2> QED BY <2>0, <2>1, <2>m, <2>5, <2>7, <2>8
<1>2. \A master, p, q, b, c : M(M(master, p, q), b, c) = M(master, b, c)
  OBVIOUS
<1>3. G(G(m.gbc, x), v) = G(m.gbc, v)
  <2>1. PICK p, q : p = [ch \in Channels |-> On(x, ch)] /\ q = [ch \in Channels |-> On(v, ch)]
    OBVIOUS
  <2> HIDE DEF On
  <2>2. m.gbc = [ch \in Channels |-> m.gbc[ch]]
    BY DEF Good, GoodGbc
  <2> QED BY <2>1, <2>2
<1> HIDE DEF G, M, On
<1>4. PICK n, p, q : n = gbc_trigger_sound(m, x) /\ p = gbc_trigger_sound(n, v) /\ q = gbc_trigger_sound(m, v)
  OBVIOUS
<1>5. IsDevice(m)
  BY DEF Good
<1>6. IsDevice(n) /\ IsDevice(p) /\ IsDevice(q)
  BY <1>1, <1>4, <1>5
<1>7. p.io = q.io
  <2>1. n.io = Put(m.io, 128, x) /\ q.io = Put(m.io, 128, v) /\ p.io = Put(n.io, 128, v)
    BY <1>1, <1>4, <1>5, <1>6
  <2> QED BY <2>1, PutTwice
<1>8. p.gbc = q.gbc
  <2>1. n.gbc = G(m.gbc, x) /\ q.gbc = G(m.gbc, v) /\ p.gbc = G(n.gbc, v)
    BY <1>1, <1>4, <1>5, <1>6
  <2> QED BY <2>1, <1>3
<1>9. p.master = q.master
  <2>1. PICK b, c, d, e : b = Field(x, 0, 3) /\ c = Field(x, 4, 3) /\ d = Field(v, 0, 3) /\ e = Field(v, 4, 3)
    OBVIOUS
  <2>2. n.master = M(m.master, b, c) /\ q.master = M(m.master, d, e) /\ p.master = M(n.master, d, e)
    BY <1>1, <1>4, <1>5, <1>6, <2>1
  <2> QED BY <2>2, <1>2
<1>10. \A e \in DeviceFields \ {"io", "gbc", "master"} : p[e] = q[e]
  BY <1>1, <1>4, <1>5, <1>6
<1>11. \A e \in DeviceFields : p[e] = q[e]
  BY <1>7, <1>8, <1>9, <1>10
<1> QED BY <1>4, <1>6, <1>11, SameDevice

(* SOUNDCNT_H, stored without its resets first. *)
LEMMA TriggerSoundTwice ==
  ASSUME NEW m, Good(m), NEW x, NEW v, Bit(x, 11) = 0, Bit(x, 15) = 0
  PROVE  trigger_sound(trigger_sound(m, x), v) = trigger_sound(m, v)
<1> DEFINE Channel(y, ch) == [volume |-> Bit(y, 2 + ch), status |-> Field(y, 8 + 4 * ch, 2),
                              timer |-> Bit(y, 10 + 4 * ch)]
           D(y) == [ch \in {0, 1} |-> Channel(y, ch)]
           Q(fifo, y) == [ch \in {0, 1} |-> IF Bit(y, 11 + 4 * ch) = 1 THEN <<>> ELSE fifo[ch]]
           M(master, p) == [master EXCEPT !.gbc = p]
           Mixed(r, k, y) ==
             /\ IsDevice(r) /\ r.io = Put(k.io, 130, y) /\ r.ds = D(y) /\ r.fifo = Q(k.fifo, y)
             /\ r.master = M(k.master, Field(y, 0, 2))
             /\ \A e \in DeviceFields \ {"io", "ds", "fifo", "master"} : r[e] = k[e]
<1>1. ASSUME NEW k, NEW y, IsDevice(k)
      PROVE  Mixed(trigger_sound(k, y), k, y)
  <2>0. PICK r : r = trigger_sound(k, y)
    OBVIOUS
  <2>1. PICK ds, fifo, p, master : ds = D(y) /\ fifo = Q(k.fifo, y) /\ p = Field(y, 0, 2)
                                   /\ master = M(k.master, p)
    OBVIOUS
  <2>2. PICK i : i = [k EXCEPT !.ds = ds, !.master.gbc = p, !.fifo = fifo]
    OBVIOUS
  <2>k. k = [e \in DeviceFields |-> k[e]]
    BY <1>1 DEF IsDevice
  <2>3. r = Set(i, 130, y)
    <3>1. [k EXCEPT !.ds = D(y), !.master.gbc = p,
            !.fifo = [ch \in {0, 1} |-> IF Bit(y, 11 + 4 * ch) = 1 THEN <<>> ELSE @[ch]]] = i
      BY <2>1, <2>2, <2>k DEF DeviceFields
    <3> QED BY <2>0, <2>1, <3>1 DEF trigger_sound
  <2>4. i = [k EXCEPT !.ds = ds, !.master = master, !.fifo = fifo]
    BY <2>1, <2>2, <2>k DEF DeviceFields
  <2> HIDE DEF D, Q, M
  <2>5. /\ IsDevice(i) /\ i.ds = ds /\ i.master = master /\ i.fifo = fifo /\ i.io = k.io
        /\ \A e \in DeviceFields \ {"ds", "fifo", "master"} : i[e] = k[e]
    BY <1>1, <2>4 DEF IsDevice, DeviceFields
  <2>7. /\ IsDevice(r) /\ r.io = Put(i.io, 130, y)
        /\ \A e \in DeviceFields \ {"io"} : r[e] = i[e]
    BY <2>5, <2>3 DEF Set, Put, IsDevice, DeviceFields
  <2>8. r.ds = ds /\ r.fifo = fifo /\ r.master = master
        /\ \A e \in DeviceFields \ {"io", "ds", "fifo", "master"} : r[e] = k[e]
    BY <2>5, <2>7 DEF DeviceFields
  <2> QED BY <2>0, <2>1, <2>5, <2>7, <2>8
<1>2. \A master, p, q : M(M(master, p), q) = M(master, q)
  OBVIOUS
<1>3. Q(Q(m.fifo, x), v) = Q(m.fifo, v)
  <2>1. Bit(x, 11 + 4 * 0) = 0 /\ Bit(x, 11 + 4 * 1) = 0
    BY 11 + 4 * 0 = 11, 11 + 4 * 1 = 15
  <2>2. Q(m.fifo, x) = [ch \in {0, 1} |-> m.fifo[ch]]
    BY <2>1
  <2>3. PICK f : f = Q(m.fifo, x)
    OBVIOUS
  <2>4. f[0] = m.fifo[0] /\ f[1] = m.fifo[1]
    BY <2>2, <2>3
  <2>5. Q(f, v) = Q(m.fifo, v)
    BY <2>4
  <2> QED BY <2>3, <2>5
<1> HIDE DEF D, Q, M
<1>4. PICK n, p, q : n = trigger_sound(m, x) /\ p = trigger_sound(n, v) /\ q = trigger_sound(m, v)
  OBVIOUS
<1>5. IsDevice(m)
  BY DEF Good
<1>6. IsDevice(n) /\ IsDevice(p) /\ IsDevice(q)
  BY <1>1, <1>4, <1>5
<1>7. p.io = q.io
  <2>1. n.io = Put(m.io, 130, x) /\ q.io = Put(m.io, 130, v) /\ p.io = Put(n.io, 130, v)
    BY <1>1, <1>4, <1>5, <1>6
  <2> QED BY <2>1, PutTwice
<1>8. p.fifo = q.fifo /\ p.ds = q.ds
  <2>1. n.fifo = Q(m.fifo, x) /\ q.fifo = Q(m.fifo, v) /\ p.fifo = Q(n.fifo, v)
        /\ q.ds = D(v) /\ p.ds = D(v)
    BY <1>1, <1>4, <1>5, <1>6
  <2> QED BY <2>1, <1>3
<1>9. p.master = q.master
  <2>1. PICK b, c : b = Field(x, 0, 2) /\ c = Field(v, 0, 2)
    OBVIOUS
  <2>2. n.master = M(m.master, b) /\ q.master = M(m.master, c) /\ p.master = M(n.master, c)
    BY <1>1, <1>4, <1>5, <1>6, <2>1
  <2> QED BY <2>2, <1>2
<1>10. \A e \in DeviceFields \ {"io", "ds", "fifo", "master"} : p[e] = q[e]
  BY <1>1, <1>4, <1>5, <1>6
<1>11. \A e \in DeviceFields : p[e] = q[e]
  BY <1>7, <1>8, <1>9, <1>10
<1> QED BY <1>4, <1>6, <1>11, SameDevice

(* A halfword put in twice. *)
LEMMA SetValue ==
  ASSUME NEW m, Good(m), NEW a \in DOMAIN m.io, NEW x
  PROVE  Set(m, a, x).io[a] = x
BY DEF Good, IsDevice, DeviceFields, Set

(* SOUNDCNT_X. *)
LEMMA SoundOnBytes ==
  ASSUME NEW m, Good(m), NEW h \in Octets, NEW l \in Octets, NEW v, v = Join(h, l),
         NEW n, n = sound_on(m, l)
  PROVE  Set(n, 132, Join(h, Low(n.io[132]))) = sound_on(m, v)
<1> USE DEF Octets
<1>w. PICK w : w = Join(h, Low(n.io[132]))
  OBVIOUS
<1>1. ASSUME NEW y
      PROVE  \E k : /\ sound_on(m, y) = Set(k, 132, Field(m.io[132], 0, 4) + WithoutLow(y, 4))
                    /\ k = [m EXCEPT !.sound_on = Bit(y, 7) = 1,
                             !.gbc = IF Bit(y, 7) = 1 THEN @
                                     ELSE [ch \in DOMAIN @ |-> [@[ch] EXCEPT !.active_flag = FALSE]]]
  BY DEF sound_on
<1>2. PICK k : /\ sound_on(m, l) = Set(k, 132, Field(m.io[132], 0, 4) + WithoutLow(l, 4))
               /\ k = [m EXCEPT !.sound_on = Bit(l, 7) = 1,
                             !.gbc = IF Bit(l, 7) = 1 THEN @
                                     ELSE [ch \in DOMAIN @ |-> [@[ch] EXCEPT !.active_flag = FALSE]]]
  BY <1>1
<1>3. PICK j : /\ sound_on(m, v) = Set(j, 132, Field(m.io[132], 0, 4) + WithoutLow(v, 4))
               /\ j = [m EXCEPT !.sound_on = Bit(v, 7) = 1,
                             !.gbc = IF Bit(v, 7) = 1 THEN @
                                     ELSE [ch \in DOMAIN @ |-> [@[ch] EXCEPT !.active_flag = FALSE]]]
  BY <1>1
<1>4. Bit(v, 7) = Bit(l, 7)
  <2>1. 7 \in 0 .. 7
    OBVIOUS
  <2> QED BY <2>1, BitsOfBytes
<1>5. j = k
  BY <1>2, <1>3, <1>4
<1>6. PICK i, x, y : i = m.io[132] /\ x = Field(i, 0, 4) + WithoutLow(l, 4)
                     /\ y = Field(i, 0, 4) + WithoutLow(v, 4)
  OBVIOUS
<1>7. i \in Int
  BY <1>6 DEF Good, GoodIo, Hardware, Halfwords
<1>8. l \in Int /\ v \in Int
  BY DEF Join
<1>9. x = (i % 16) + (l - (l % 16)) /\ y = (i % 16) + (v - (v % 16))
  BY <1>6, <1>7, <1>8, SmallFields
<1>10. x \in 0 .. 255
  BY <1>7, <1>9
<1>11. n.io[132] = x
  <2>1. n.io = Put(m.io, 132, (m.io[132] % 16) + (l - (l % 16)))
    <3>1. l \in Halfwords
      BY DEF Halfwords
    <3> QED BY <3>1, SoundOn
  <2>2. 132 \in DOMAIN m.io
    BY DEF Good, GoodIo, Hardware
  <2> QED BY <1>6, <1>9, <2>1, <2>2 DEF Put
<1>12. w = h * 256 + x
  BY <1>w, <1>10, <1>11 DEF Join, Low
<1>13. y = h * 256 + x
  BY <1>7, <1>9 DEF Join
<1>14. n = Set(k, 132, x) /\ sound_on(m, v) = Set(k, 132, y)
  BY <1>2, <1>3, <1>5, <1>6
<1> QED BY <1>w, <1>12, <1>13, <1>14, SetTwice

(* x & ~y of a halfword is that of its bytes. *)
LEMMA AndNotJoin ==
  ASSUME NEW h \in Octets, NEW l \in Octets, NEW c \in Octets, NEW d \in Octets
  PROVE  AndNot(Join(h, l), Join(c, d)) = Join(AndNot(h, c), AndNot(l, d))
<1> USE DEF Octets
<1>1. PICK x, y : x = Join(h, l) /\ y = Join(c, d)
  OBVIOUS
<1>2. PICK e, f : e = AndNot(h, c) /\ f = AndNot(l, d)
  BY ZenonT(40)
<1>3. e \in 0 .. 255 /\ f \in 0 .. 255
  BY <1>2, ByteTakes
<1>4. PICK p, q : p = AndNot(x, y) /\ q = Join(e, f)
  OBVIOUS
<1>5. x \in Halfwords /\ y \in Halfwords /\ q \in Halfwords
  BY <1>1, <1>3, <1>4, JoinHalf
<1>6. y \in Int /\ h \in Halfwords /\ l \in Halfwords /\ c \in Int /\ d \in Int
  BY <1>5 DEF Halfwords
<1>7. p \in Halfwords /\ \A k \in 0 .. 15 : Bit(p, k) = Bit(x, k) * (1 - Bit(y, k))
  BY <1>4, <1>5, <1>6, AndNotBits
<1>8. \A k \in 0 .. 15 : Bit(e, k) = Bit(h, k) * (1 - Bit(c, k))
  BY <1>2, <1>6, AndNotBits
<1>9. \A k \in 0 .. 15 : Bit(f, k) = Bit(l, k) * (1 - Bit(d, k))
  BY <1>2, <1>6, AndNotBits
<1>10. \A k \in 0 .. 7 : Bit(x, k) = Bit(l, k) /\ Bit(x, k + 8) = Bit(h, k)
  BY <1>1, BitsOfBytes, ZenonT(40)
<1>11. \A k \in 0 .. 7 : Bit(y, k) = Bit(d, k) /\ Bit(y, k + 8) = Bit(c, k)
  BY <1>1, BitsOfBytes, ZenonT(40)
<1>12. \A k \in 0 .. 7 : Bit(q, k) = Bit(f, k) /\ Bit(q, k + 8) = Bit(e, k)
  BY <1>3, <1>4, BitsOfBytes
<1>13. \A k \in 0 .. 7 : Bit(p, k) = Bit(q, k) /\ Bit(p, k + 8) = Bit(q, k + 8)
  <2> SUFFICES ASSUME NEW k \in 0 .. 7
               PROVE  Bit(p, k) = Bit(q, k) /\ Bit(p, k + 8) = Bit(q, k + 8)
    OBVIOUS
  <2>1. PICK j : j = k + 8
    OBVIOUS
  <2>2. k \in 0 .. 15 /\ j \in 0 .. 15
    BY <2>1
  <2>3. Bit(p, k) = Bit(l, k) * (1 - Bit(d, k))
    BY <1>7, <1>10, <1>11, <2>2
  <2>4. Bit(p, j) = Bit(h, k) * (1 - Bit(c, k))
    BY <1>7, <1>10, <1>11, <2>1, <2>2
  <2>5. Bit(q, k) = Bit(l, k) * (1 - Bit(d, k)) /\ Bit(q, j) = Bit(h, k) * (1 - Bit(c, k))
    BY <1>8, <1>9, <1>12, <2>1, <2>2
  <2> QED BY <2>1, <2>3, <2>4, <2>5
<1>14. ASSUME NEW k \in 0 .. 15
       PROVE  Bit(p, k) = Bit(q, k)
  <2>1. CASE k \in 0 .. 7
    BY <1>13, <2>1
  <2>2. CASE k \notin 0 .. 7
    <3>1. PICK j : j = k - 8
      OBVIOUS
    <3>2. j \in 0 .. 7 /\ j + 8 = k
      BY <2>2, <3>1
    <3> QED BY <1>13, <3>2
  <2> QED BY <2>1, <2>2
<1>15. BitsOf(p) = BitsOf(q)
  BY <1>14 DEF BitsOf
<1>16. SumOf(BitsOf(p)) = p /\ SumOf(BitsOf(q)) = q
  BY <1>5, <1>7, BitsAreDigits
<1>17. p = q
  BY <1>15, <1>16
<1> QED BY <1>1, <1>2, <1>4, <1>17

(* Stores of a byte, one register after another. *)
LEMMA JoinParts ==
  ASSUME NEW h \in 0 .. 255, NEW l \in 0 .. 255
  PROVE  Low(Join(h, l)) = l /\ High(Join(h, l)) = h
BY DEF Low, High, Join

(* The registers where storing bytes and storing the halfword agree. *)
Apart == {0, 96, 304, 516, 768, 160, 164, 186, 198, 210, 222, 258, 262, 266, 270, 256, 260, 264, 268}

LEMMA ApartIs == ApartByBytes = Apart
BY DEF ApartByBytes, DmaControls, TimerControls, TimerCounts, Apart

Merged == AffineHalves \cup {98, 100, 104, 108, 112, 114, 116, 120, 124, 128, 130}

(* Where a byte store to the even address goes. *)
LEMMA LowFacts ==
  ASSUME NEW a \in Addresses, a \notin Apart
  PROVE  /\ a \in Int /\ a % 2 = 0 /\ 0 <= a /\ a <= 1022 /\ Halfword(a) = a
         /\ (a \in BothBytes <=> a \in Merged) /\ a \notin TriggerBytes
         /\ a # 0 /\ a # 96 /\ a # 160 /\ a # 164 /\ a # 769 /\ a # 159
<1>1. a \in Int /\ a % 2 = 0 /\ 0 <= a /\ a <= 1022
  BY DEF Addresses
<1>2. Halfword(a) = a
  BY <1>1 DEF Halfword
<1>3. (a \in BothBytes <=> a \in ByteHalves) /\ a \notin TriggerBytes
  BY ByteSets
<1>4. a \in BothBytes <=> a \in Merged
  BY <1>3 DEF ByteHalves, Merged, Apart
<1>5. a # 0 /\ a # 96 /\ a # 160 /\ a # 164 /\ a # 769 /\ a # 159
  BY <1>1 DEF Apart
<1> QED BY <1>1, <1>2, <1>3, <1>4, <1>5

LEMMA LowLcd ==
  ASSUME NEW m, NEW a, a = 4, NEW b
  PROVE  write_io_register8(m, a, b) = StoreByte(m, a, Field(m.io[4], 0, 3) + WithoutLow(b, 3))
<1>a. a \in Addresses /\ a \notin Apart /\ a \notin Merged
  BY DEF Addresses, Apart, Merged, AffineHalves
<1>1. a \notin BothBytes /\ Halfword(a) = 4 /\ a \notin TriggerBytes
  BY <1>a, LowFacts
<1>2. write_io_register8(m, a, b) = StoreByte(m, 4, Field(m.io[4], 0, 3) + WithoutLow(b, 3))
  BY <1>1 DEF write_io_register8
<1> QED BY <1>2

LEMMA LowCount ==
  ASSUME NEW m, NEW b
  PROVE  write_io_register8(m, 6, b) = m
<1>1. 6 \in Addresses /\ 6 \notin Apart /\ 6 \notin Merged
  BY DEF Addresses, Apart, Merged, AffineHalves
<1>2. 6 \notin BothBytes /\ Halfword(6) = 6 /\ 6 \notin TriggerBytes
  BY <1>1, LowFacts
<1>3. \A k \in {6} : /\ k \notin BothBytes /\ Halfword(k) = 6 /\ k \notin TriggerBytes
                     /\ k # 0 /\ k # 4 /\ k # 96 /\ k # 132 /\ k # 160 /\ k # 164 /\ k # 769
                     /\ k \notin 144 .. 159
  BY <1>2
<1>4. \A k \in {6} : write_io_register8(m, k, b) = m
  BY <1>2, <1>3 DEF write_io_register8
<1> QED BY <1>4

LEMMA LowMerged ==
  ASSUME NEW m, NEW a \in Addresses, a \notin Apart, NEW b, a \in Merged
  PROVE  write_io_register8(m, a, b) = write_io_register16(m, a, access_register8_low(m, a, b))
<1>1. a # 4 /\ a # 6 /\ a # 132 /\ a \notin 144 .. 159 /\ a # 514
  BY DEF Merged, AffineHalves
<1>2. PICK w : w = access_register8_low(m, a, b)
  OBVIOUS
<1>3. a \in BothBytes /\ a \notin {0, 4, 6, 96, 132, 160, 164, 514} /\ a \notin 144 .. 159 /\ a # 769
      /\ Halfword(a) = a /\ a \notin TriggerBytes
  BY <1>1, LowFacts
<1>4. write_io_register8(m, a, b) = write_io_register16(m, a, w)
  BY <1>2, <1>3 DEF write_io_register8
<1> QED BY <1>2, <1>4

LEMMA LowKept ==
  ASSUME NEW m, NEW a \in Addresses, a \notin Apart, NEW b,
         a \notin Merged, a \notin {4, 6, 132, 514}, a \notin 144 .. 158
  PROVE  write_io_register8(m, a, b) = StoreByte(m, a, b)
<1>1. a # 4 /\ a # 6 /\ a # 132 /\ a # 514 /\ a \notin 144 .. 159 /\ a \notin BothBytes /\ a # 0
      /\ a # 96 /\ a \notin {160, 164} /\ a # 769 /\ Halfword(a) = a /\ a \notin TriggerBytes
  BY LowFacts
<1> QED BY <1>1 DEF write_io_register8

LEMMA LowWave ==
  ASSUME NEW m, NEW a \in Addresses, a \notin Apart, NEW b, a \in 144 .. 158
  PROVE  write_io_register8(m, a, b) = WaveMarked(StoreByte(m, a, b), TRUE)
<1>1. a \notin Merged /\ a # 4 /\ a # 6 /\ a # 132 /\ a # 514
  BY DEF Merged, AffineHalves
<1>2. a \notin BothBytes /\ a # 0 /\ a # 96 /\ a # 160 /\ a # 164 /\ a \in 144 .. 159 /\ a # 769
      /\ Halfword(a) = a /\ a \notin TriggerBytes
  BY <1>1, LowFacts
<1> QED BY <1>1, <1>2 DEF write_io_register8, WaveMarked

LEMMA LowSoundOn ==
  ASSUME NEW m, NEW b
  PROVE  write_io_register8(m, 132, b) = sound_on(m, b)
<1>1. 132 \in Addresses /\ 132 \notin Apart /\ 132 \notin Merged
  BY DEF Addresses, Apart, Merged, AffineHalves
<1>2. 132 \notin BothBytes /\ Halfword(132) = 132 /\ 132 \notin TriggerBytes
  BY <1>1, LowFacts
<1> QED BY <1>2 DEF write_io_register8

LEMMA LowOfIf ==
  ASSUME NEW m, NEW b
  PROVE  write_io_register8(m, 514, b) = StoreByte(m, 514, AndNot(Low(m.io[514]), b))
<1>1. 514 \in Addresses /\ 514 \notin Apart /\ 514 \notin Merged
  BY DEF Addresses, Apart, Merged, AffineHalves
<1>2. 514 \notin BothBytes /\ Halfword(514) = 514 /\ 514 \notin TriggerBytes
  BY <1>1, LowFacts
<1> QED BY <1>2 DEF write_io_register8

(* Where a byte store to the odd address goes. *)
LEMMA HighFacts ==
  ASSUME NEW a \in Addresses, a \notin Apart, NEW o, o = a + 1
  PROVE  /\ Halfword(o) = a /\ o \in Int /\ o % 2 = 1 /\ o - 1 = a
         /\ (a \in BothBytes <=> a \in Merged) /\ o \notin TriggerBytes
         /\ o # a /\ o # 0 /\ o # 4 /\ o # 96 /\ o # 132 /\ o # 160 /\ o # 164 /\ o # 769
         /\ (o \in 144 .. 159 <=> a \in 144 .. 158)
<1>1. a \in Int /\ a % 2 = 0 /\ 0 <= a /\ a <= 1022
  BY DEF Addresses
<1>2. Halfword(o) = a /\ o \in Int /\ o % 2 = 1 /\ o - 1 = a
  BY <1>1 DEF Halfword
<1>3. (a \in BothBytes <=> a \in ByteHalves) /\ (o \in TriggerBytes <=> a \in HighTriggers)
  BY ByteSets
<1>4. (a \in BothBytes <=> a \in Merged) /\ o \notin TriggerBytes
  BY <1>3 DEF ByteHalves, Merged, Apart, HighTriggers
<1>5. /\ o # a /\ o # 0 /\ o # 4 /\ o # 96 /\ o # 132 /\ o # 160 /\ o # 164
      /\ o # 769 /\ (o \in 144 .. 159 <=> a \in 144 .. 158)
  BY <1>1 DEF Apart
<1> QED BY <1>2, <1>4, <1>5

LEMMA HighMerged ==
  ASSUME NEW m, NEW a \in Addresses, a \notin Apart, NEW b, NEW o, o = a + 1, a \in Merged
  PROVE  write_io_register8(m, o, b) = write_io_register16(m, a, access_register8_high(m, a, b))
<1>1. a # 6 /\ a \notin 144 .. 158 /\ a # 514
  BY DEF Merged, AffineHalves
<1>2. PICK w : w = access_register8_high(m, a, b)
  OBVIOUS
<1>3. /\ a \in BothBytes /\ Halfword(o) = a /\ o \notin TriggerBytes
      /\ o # a /\ o # 0 /\ o # 4 /\ o # 96 /\ o # 132 /\ o # 160 /\ o # 164 /\ o # 769
      /\ o \notin 144 .. 159
  BY <1>1, HighFacts
<1>4. write_io_register8(m, o, b) = write_io_register16(m, a, w)
  BY <1>1, <1>2, <1>3 DEF write_io_register8
<1> QED BY <1>2, <1>4

LEMMA HighCount ==
  ASSUME NEW m, NEW b
  PROVE  write_io_register8(m, 6 + 1, b) = m
<1>1. 6 \in Addresses /\ 6 \notin Apart /\ 6 \notin Merged
  BY DEF Addresses, Apart, Merged, AffineHalves
<1>2. PICK o : o = 6 + 1
  OBVIOUS
<1>3. /\ 6 \notin BothBytes /\ Halfword(o) = 6 /\ o \notin TriggerBytes
      /\ o # 6 /\ o # 0 /\ o # 4 /\ o # 96 /\ o # 132 /\ o # 160 /\ o # 164 /\ o # 769
      /\ o \notin 144 .. 159
  BY <1>1, <1>2, HighFacts
<1>4. write_io_register8(m, o, b) = m
  BY <1>3 DEF write_io_register8
<1> QED BY <1>2, <1>4

LEMMA HighKept ==
  ASSUME NEW m, NEW a \in Addresses, a \notin Apart, NEW b, NEW o, o = a + 1,
         a \notin Merged, a # 6, a # 514, a \notin 144 .. 158
  PROVE  write_io_register8(m, o, b) = StoreByte(m, o, b)
<1>1. /\ a \notin BothBytes /\ Halfword(o) = a /\ o \notin TriggerBytes /\ o \notin 144 .. 159
      /\ o # a /\ o # 0 /\ o # 4 /\ o # 96 /\ o # 132 /\ o # 160 /\ o # 164 /\ o # 769
  BY HighFacts
<1> QED BY <1>1 DEF write_io_register8

LEMMA HighWave ==
  ASSUME NEW m, NEW a \in Addresses, a \notin Apart, NEW b, NEW o, o = a + 1, a \in 144 .. 158
  PROVE  write_io_register8(m, o, b) = WaveMarked(StoreByte(m, o, b), TRUE)
<1>1. a \notin Merged /\ a # 6 /\ a # 514
  BY DEF Merged, AffineHalves
<1>2. /\ a \notin BothBytes /\ Halfword(o) = a /\ o \notin TriggerBytes /\ o \in 144 .. 159
      /\ o # a /\ o # 0 /\ o # 4 /\ o # 96 /\ o # 132 /\ o # 160 /\ o # 164 /\ o # 769
  BY <1>1, HighFacts
<1> QED BY <1>1, <1>2 DEF write_io_register8, WaveMarked

LEMMA HighOfIf ==
  ASSUME NEW m, NEW b
  PROVE  write_io_register8(m, 515, b) = StoreByte(m, 515, AndNot(High(m.io[514]), b))
<1>1. 514 \in Addresses /\ 514 \notin Apart /\ 514 \notin Merged /\ 515 = 514 + 1
  BY DEF Addresses, Apart, Merged, AffineHalves
<1>2. 514 \notin BothBytes /\ Halfword(515) = 514 /\ 515 \notin TriggerBytes
  BY <1>1, HighFacts
<1> QED BY <1>2 DEF write_io_register8

(* A register whose bytes are merged: the halfword stored with the other byte as it     *)
(* was, then the halfword.                                                              *)
LEMMA PutValue ==
  ASSUME NEW m, NEW a \in DOMAIN m.io, NEW x, NEW r, r.io = Put(m.io, a, x)
  PROVE  r.io[a] = x
BY DEF Put

LEMMA MergedAffine ==
  ASSUME NEW m, Good(m), NEW a \in AffineHalves, a \in DOMAIN m.io, NEW x \in Halfwords, NEW v \in Halfwords
  PROVE  /\ write_io_register16(m, a, x).io[a] = x
         /\ write_io_register16(write_io_register16(m, a, x), a, v) = write_io_register16(m, a, v)
<1>1. a \in Addresses
  BY DEF AffineHalves, Addresses
<1>2. InAffine(a)
  BY <1>1, InAffineIs
<1>3. PICK b : b = AffineOf(a)
  OBVIOUS
<1>4. \A k, y : write_io_register16(k, a, y) = Affine(Set(k, a, y), b)
  BY <1>2, <1>3 DEF write_io_register16, DmaControls, TimerCounts, TimerControls, AffineHalves
<1>5. PICK r : r = Set(m, a, x)
  OBVIOUS
<1>6. Affine(r, b).io = r.io /\ r.io[a] = x
  <2>1. IsDevice(r)
    BY <1>5, SetIo DEF Good
  <2>2. Affine(r, b).io = r.io
    BY <2>1 DEF Affine, IsDevice, DeviceFields
  <2> QED BY <1>5, <2>2, SetValue
<1>7. write_io_register16(m, a, x).io[a] = x
  BY <1>4, <1>5, <1>6
<1>8. Affine(Set(Affine(Set(m, a, x), b), a, v), b) = Affine(Set(m, a, v), b)
  BY AffineTwice
<1> QED BY <1>4, <1>7, <1>8

LEMMA MergedTone ==
  ASSUME NEW m, Good(m), NEW a \in {98, 100, 104, 108, 120}, a \in DOMAIN m.io,
         NEW x \in Halfwords, NEW v \in Halfwords, a \in {100, 108} => Bit(x, 15) = 0
  PROVE  /\ write_io_register16(m, a, x).io[a] = x
         /\ write_io_register16(write_io_register16(m, a, x), a, v) = write_io_register16(m, a, v)
<1>1. ~InAffine(a)
  BY InAffineIs DEF Addresses, AffineHalves
<1>c. 0 \in Channels /\ 1 \in Channels /\ 3 \in Channels
  BY DEF Channels
<1>2. CASE a \in {98, 104, 120}
  <2>1. PICK c \in Channels : \A k, y : write_io_register16(k, a, y) = gbc_sound_tone_control_low(k, c, a, y)
    <3>1. CASE a = 98
      BY <1>1, <1>c, <3>1 DEF write_io_register16, DmaControls, TimerCounts, TimerControls
    <3>2. CASE a = 104
      BY <1>1, <1>c, <3>2 DEF write_io_register16, DmaControls, TimerCounts, TimerControls
    <3>3. CASE a = 120
      BY <1>1, <1>c, <3>3 DEF write_io_register16, DmaControls, TimerCounts, TimerControls
    <3> QED BY <1>2, <3>1, <3>2, <3>3
  <2>2. gbc_sound_tone_control_low(m, c, a, x).io[a] = x
    BY ToneControlLow, PutValue
  <2>3. gbc_sound_tone_control_low(gbc_sound_tone_control_low(m, c, a, x), c, a, v)
          = gbc_sound_tone_control_low(m, c, a, v)
    BY ToneLowTwice
  <2> QED BY <2>1, <2>2, <2>3
<1>3. CASE a \in {100, 108}
  <2>1. PICK c \in Channels : \A k, y : write_io_register16(k, a, y) = gbc_sound_tone_control_high(k, c, a, y)
    <3>1. CASE a = 100
      BY <1>1, <1>c, <3>1 DEF write_io_register16, DmaControls, TimerCounts, TimerControls
    <3>2. CASE a = 108
      BY <1>1, <1>c, <3>2 DEF write_io_register16, DmaControls, TimerCounts, TimerControls
    <3> QED BY <1>3, <3>1, <3>2
  <2>2. gbc_sound_tone_control_high(m, c, a, x).io[a] = x
    BY ToneControlHigh, PutValue
  <2>3. gbc_sound_tone_control_high(gbc_sound_tone_control_high(m, c, a, x), c, a, v)
          = gbc_sound_tone_control_high(m, c, a, v)
    BY <1>3, ToneHighTwice
  <2> QED BY <2>1, <2>2, <2>3
<1> QED BY <1>2, <1>3

LEMMA MergedSound ==
  ASSUME NEW m, Good(m), NEW a \in {112, 114, 116, 124, 128, 130}, a \in DOMAIN m.io,
         NEW x \in Halfwords, NEW v \in Halfwords,
         a \in {116, 124, 130} => Bit(x, 15) = 0 /\ Bit(x, 11) = 0
  PROVE  /\ write_io_register16(m, a, x).io[a] = x
         /\ write_io_register16(write_io_register16(m, a, x), a, v) = write_io_register16(m, a, v)
<1>1. ~InAffine(a)
  BY InAffineIs DEF Addresses, AffineHalves
<1>2. CASE a = 112
  <2>1. \A k, y : write_io_register16(k, a, y) = gbc_sound_wave_control(k, y)
    BY <1>1, <1>2 DEF write_io_register16, DmaControls, TimerCounts, TimerControls
  <2>2. gbc_sound_wave_control(m, x).io[112] = x
    <3>1. gbc_sound_wave_control(m, x).io = Put(m.io, 112, x)
      BY WaveControl
    <3> QED BY <1>2, <3>1, PutValue
  <2>3. gbc_sound_wave_control(gbc_sound_wave_control(m, x), v) = gbc_sound_wave_control(m, v)
    BY <1>2, WaveTwice
  <2> QED BY <1>2, <2>1, <2>2, <2>3
<1>3. CASE a = 114
  <2>1. \A k, y : write_io_register16(k, a, y) = gbc_sound_tone_control_low_wave(k, y)
    BY <1>1, <1>3 DEF write_io_register16, DmaControls, TimerCounts, TimerControls
  <2>2. gbc_sound_tone_control_low_wave(m, x).io[114] = x
    <3>1. gbc_sound_tone_control_low_wave(m, x).io = Put(m.io, 114, x)
      BY ToneControlLowWave
    <3>2. 114 \in DOMAIN m.io
      BY <1>3
    <3>3. PICK r : r = gbc_sound_tone_control_low_wave(m, x)
      OBVIOUS
    <3> QED BY <3>1, <3>2, <3>3, PutValue
  <2>3. gbc_sound_tone_control_low_wave(gbc_sound_tone_control_low_wave(m, x), v)
          = gbc_sound_tone_control_low_wave(m, v)
    BY <1>3, WaveLowTwice
  <2> QED BY <1>3, <2>1, <2>2, <2>3
<1>4. CASE a = 116
  <2>1. \A k, y : write_io_register16(k, a, y) = gbc_sound_tone_control_high_wave(k, y)
    BY <1>1, <1>4 DEF write_io_register16, DmaControls, TimerCounts, TimerControls
  <2>2. gbc_sound_tone_control_high_wave(m, x).io[116] = x
    <3>1. gbc_sound_tone_control_high_wave(m, x).io = Put(m.io, 116, x)
      BY ToneControlHighWave
    <3>2. 116 \in DOMAIN m.io
      BY <1>4
    <3> QED BY <3>1, <3>2 DEF Put
  <2>3. gbc_sound_tone_control_high_wave(gbc_sound_tone_control_high_wave(m, x), v)
          = gbc_sound_tone_control_high_wave(m, v)
    BY <1>4, WaveHighTwice
  <2> QED BY <1>4, <2>1, <2>2, <2>3
<1>5. CASE a = 124
  <2>1. \A k, y : write_io_register16(k, a, y) = gbc_sound_noise_control(k, y)
    BY <1>1, <1>5 DEF write_io_register16, DmaControls, TimerCounts, TimerControls
  <2>2. gbc_sound_noise_control(m, x).io[124] = x
    <3>1. gbc_sound_noise_control(m, x).io = Put(m.io, 124, x)
      BY NoiseControl
    <3> QED BY <1>5, <3>1, PutValue
  <2>3. gbc_sound_noise_control(gbc_sound_noise_control(m, x), v) = gbc_sound_noise_control(m, v)
    BY <1>5, NoiseTwice
  <2> QED BY <1>5, <2>1, <2>2, <2>3
<1>6. CASE a = 128
  <2>1. \A k, y : write_io_register16(k, a, y) = gbc_trigger_sound(k, y)
    BY <1>1, <1>6 DEF write_io_register16, DmaControls, TimerCounts, TimerControls
  <2>2. gbc_trigger_sound(m, x).io[128] = x
    <3>1. gbc_trigger_sound(m, x).io = Put(m.io, 128, x)
      BY TriggerGbcSound
    <3> QED BY <1>6, <3>1, PutValue
  <2>3. gbc_trigger_sound(gbc_trigger_sound(m, x), v) = gbc_trigger_sound(m, v)
    BY TriggerGbcTwice
  <2> QED BY <1>6, <2>1, <2>2, <2>3
<1>7. CASE a = 130
  <2>1. \A k, y : write_io_register16(k, a, y) = trigger_sound(k, y)
    BY <1>1, <1>7 DEF write_io_register16, DmaControls, TimerCounts, TimerControls
  <2>2. trigger_sound(m, x).io[130] = x
    <3>1. trigger_sound(m, x).io = Put(m.io, 130, x)
      BY TriggerSound
    <3> QED BY <1>7, <3>1, PutValue
  <2>3. trigger_sound(trigger_sound(m, x), v) = trigger_sound(m, v)
    BY <1>7, TriggerSoundTwice
  <2> QED BY <1>7, <2>1, <2>2, <2>3
<1> QED BY <1>2, <1>3, <1>4, <1>5, <1>6, <1>7

(* The high byte stored beside a halfword's low one. *)
LEMMA StoreHigh ==
  ASSUME NEW n, NEW a \in Addresses, NEW o, o = a + 1, NEW c, NEW d \in Octets, NEW i \in Octets, n.io[a] = Join(i, d)
  PROVE  StoreByte(n, o, c) = Set(n, a, Join(c, d))
<1>1. a \in Int /\ a % 2 = 0 /\ o % 2 = 1 /\ o - 1 = a
  BY DEF Addresses
<1>2. Halfword(o) = a /\ o # a
  BY <1>1 DEF Halfword
<1>3. StoreByte(n, o, c) = Set(n, a, c * 256 + Low(n.io[a]))
  BY <1>1, <1>2, SMTT(30) DEF StoreByte
<1>4. Low(n.io[a]) = d
  BY JoinParts DEF Octets
<1> QED BY <1>3, <1>4 DEF Join

(* Registers that only keep their bytes, and those where the hardware reports. *)
LEMMA LowByteStored ==
  ASSUME NEW m, Good(m), NEW a \in Addresses, a \in DOMAIN m.io, NEW d \in Octets
  PROVE  \E i \in Octets : /\ i = High(m.io[a]) /\ StoreByte(m, a, d) = Set(m, a, Join(i, d))
                           /\ Good(Set(m, a, Join(i, d))) /\ Set(m, a, Join(i, d)).io[a] = Join(i, d)
<1>1. PICK i, l : i = High(m.io[a]) /\ l = Low(m.io[a])
  OBVIOUS
<1>2. i \in 0 .. 255 /\ access_register8_low(m, a, d) = Join(i, d)
  BY <1>1, ByteParts
<1>3. PICK x : x = Join(i, d)
  OBVIOUS
<1>4. x \in Halfwords
  BY <1>2, <1>3, JoinHalf DEF Octets
<1>5. StoreByte(m, a, d) = Set(m, a, x)
  BY <1>2, <1>3, Bytes DEF Octets
<1>6. PICK r : r = Set(m, a, x)
  OBVIOUS
<1>7. Good(r) /\ r.io[a] = x
  BY <1>4, <1>6, SetIo, SetValue
<1>8. i \in Octets
  BY <1>2 DEF Octets
<1> QED BY <1>1, <1>3, <1>5, <1>6, <1>7, <1>8

LEMMA KeptBytes ==
  ASSUME NEW m, Good(m), NEW a \in Addresses, a \in DOMAIN m.io, NEW o, o = a + 1,
         NEW c \in Octets, NEW d \in Octets, NEW n, n = StoreByte(m, a, d)
  PROVE  StoreByte(n, o, c) = Set(m, a, Join(c, d))
<1>1. PICK i \in Octets : n = Set(m, a, Join(i, d)) /\ n.io[a] = Join(i, d)
  BY LowByteStored
<1>2. StoreByte(n, o, c) = Set(n, a, Join(c, d))
  BY <1>1, StoreHigh
<1> QED BY <1>1, <1>2, SetTwice

(* The wave samples are marked as changed. *)
Resampled(r) == WaveMarked(r, TRUE)

LEMMA ResampledTwice ==
  ASSUME NEW m, Good(m), NEW a, NEW x, NEW v, a \in DOMAIN m.io
  PROVE  Resampled(Set(Resampled(Set(m, a, x)), a, v)) = Resampled(Set(m, a, v))
BY DEF Resampled, Good, IsDevice, DeviceFields, WaveMarked, Set

LEMMA MarkedBytes ==
  ASSUME NEW m, Good(m), NEW a \in Addresses, a \in DOMAIN m.io, NEW o, o = a + 1,
         NEW c \in Octets, NEW d \in Octets, NEW n, n = Resampled(StoreByte(m, a, d))
  PROVE  Resampled(StoreByte(n, o, c)) = Resampled(Set(m, a, Join(c, d)))
<1>1. PICK i \in Octets : StoreByte(m, a, d) = Set(m, a, Join(i, d)) /\ Good(Set(m, a, Join(i, d)))
                          /\ Set(m, a, Join(i, d)).io[a] = Join(i, d)
  BY LowByteStored
<1>2. PICK r, x : r = Set(m, a, x) /\ x = Join(i, d)
  OBVIOUS
<1>3. Resampled(r).io = r.io
  BY <1>1, <1>2 DEF Resampled, WaveMarked, Good, IsDevice, DeviceFields
<1>4. n = Resampled(r) /\ n.io[a] = Join(i, d)
  BY <1>1, <1>2, <1>3
<1>5. StoreByte(n, o, c) = Set(n, a, Join(c, d))
  BY <1>4, StoreHigh
<1>6. PICK y : y = Join(c, d)
  OBVIOUS
<1>7. Resampled(Set(Resampled(Set(m, a, x)), a, y)) = Resampled(Set(m, a, y))
  BY ResampledTwice
<1> QED BY <1>2, <1>4, <1>5, <1>6, <1>7

(* The classes of registers whose bytes are stored as the halfword is.                  *)
BytesAre(m, a, h, l) ==
  write_io_register8(write_io_register8(m, a, l), a + 1, h) = write_io_register16(m, a, Join(h, l))

LEMMA MergedAgree ==
  ASSUME NEW m, Good(m), NEW a \in Addresses, a \in DOMAIN m.io, a \notin Apart, a \in Merged,
         ~StillTriggered(m, a), NEW h \in Octets, NEW l \in Octets
  PROVE  BytesAre(m, a, h, l)
<1>o. h \in 0 .. 255 /\ l \in 0 .. 255
  BY DEF Octets
<1>x. PICK x, v : x = access_register8_low(m, a, l) /\ v = Join(h, l)
  OBVIOUS
<1>n. PICK n : n = write_io_register16(m, a, x)
  OBVIOUS
<1>1. PICK i : i = High(m.io[a])
  OBVIOUS
<1>2. i \in 0 .. 255 /\ x = Join(i, l)
  BY <1>o, <1>x, <1>1, ByteParts, SMTT(30)
<1>3. x \in Halfwords /\ v \in Halfwords /\ Low(x) = l
  BY <1>o, <1>x, <1>2, JoinHalf, JoinParts
<1>4. ASSUME a \in {100, 108, 116, 124, 130}
      PROVE  Bit(x, 15) = 0 /\ Bit(x, 11) = 0
  <2>1. ~(i >= 8)
    BY <1>1, <1>4 DEF StillTriggered
  <2>2. i < 8
    BY <1>2, <2>1
  <2>3. x \in Int /\ 0 <= x /\ x < 2048
    BY <1>o, <1>x, <1>2, <2>2 DEF Join
  <2> QED BY <2>3 DEF Bit
<1>5. n.io[a] = x /\ write_io_register16(n, a, v) = write_io_register16(m, a, v)
  <2>1. CASE a \in AffineHalves
    BY <1>3, <2>1, <1>n, MergedAffine
  <2>2. CASE a \in {98, 100, 104, 108, 120}
    BY <1>3, <1>4, <2>2, <1>n, MergedTone
  <2>3. CASE a \in {112, 114, 116, 124, 128, 130}
    BY <1>3, <1>4, <2>3, <1>n, MergedSound
  <2> QED BY <2>1, <2>2, <2>3 DEF Merged
<1>6. access_register8_high(n, a, h) = v
  BY <1>x, <1>3, <1>5 DEF access_register8_high, Join
<1>7. write_io_register8(m, a, l) = n
  BY <1>x, <1>n, LowMerged
<1>8. PICK o : o = a + 1
  OBVIOUS
<1>9. write_io_register8(n, o, h) = write_io_register16(n, a, access_register8_high(n, a, h))
  BY <1>8, HighMerged
<1> QED BY <1>x, <1>5, <1>6, <1>7, <1>8, <1>9 DEF BytesAre

(* The low byte of IF, DISPSTAT or a register that only keeps its bytes is stored as d, *)
(* the high byte as c.                                                                  *)
LEMMA KeptAgree ==
  ASSUME NEW m, Good(m), NEW a \in Addresses, a \in DOMAIN m.io, NEW h, NEW l,
         NEW c \in Octets, NEW d \in Octets, NEW n, NEW o, n = StoreByte(m, a, d), o = a + 1,
         write_io_register8(m, a, l) = n, write_io_register8(n, o, h) = StoreByte(n, o, c),
         write_io_register16(m, a, Join(h, l)) = Set(m, a, Join(c, d))
  PROVE  BytesAre(m, a, h, l)
<1>1. StoreByte(n, o, c) = Set(m, a, Join(c, d))
  BY KeptBytes
<1> QED BY <1>1 DEF BytesAre

LEMMA LcdAgree ==
  ASSUME NEW m, Good(m), NEW a, a = 4, a \in DOMAIN m.io, NEW h \in Octets, NEW l \in Octets
  PROVE  BytesAre(m, a, h, l)
<1>a. a \in Addresses /\ a \notin Apart /\ a \notin Merged /\ a \notin AffineHalves
      /\ a # 6 /\ a # 514 /\ a \notin 144 .. 158
  BY DEF Addresses, Apart, Merged, AffineHalves
<1>o. h \in 0 .. 255 /\ l \in 0 .. 255
  BY DEF Octets
<1>1. PICK i, v : i = m.io[a] /\ v = Join(h, l)
  OBVIOUS
<1>2. i \in Int /\ l \in Int /\ h \in Int /\ v \in Int
  <2>1. i \in Halfwords
    BY <1>1 DEF Good, GoodIo
  <2>2. v \in Halfwords
    BY <1>o, <1>1, JoinHalf
  <2> QED BY <1>o, <2>1, <2>2 DEF Halfwords
<1>3. PICK d : d = (i % 8) + (l - (l % 8))
  OBVIOUS
<1>4. d \in Octets
  BY <1>o, <1>2, <1>3 DEF Octets
<1>5. Field(i, 0, 3) + WithoutLow(l, 3) = d
  BY <1>2, <1>3, SmallFields
<1>6. write_io_register8(m, a, l) = StoreByte(m, a, d)
  BY <1>1, <1>5, LowLcd
<1>7. PICK n, o : n = StoreByte(m, a, d) /\ o = a + 1
  OBVIOUS
<1>8. write_io_register8(n, o, h) = StoreByte(n, o, h)
  BY <1>a, <1>7, HighKept
<1>9. Join(h, d) = Field(i, 0, 3) + WithoutLow(v, 3)
  <2>1. Field(i, 0, 3) + WithoutLow(v, 3) = (i % 8) + (v - (v % 8))
    BY <1>2, SmallFields
  <2>2. v = h * 256 + l
    BY <1>1 DEF Join
  <2>3. h * 256 + d = (i % 8) + (v - (v % 8))
    BY <1>2, <1>3, <2>2
  <2> QED BY <2>1, <2>3 DEF Join
<1>10. ~InAffine(a)
  BY <1>a, InAffineIs
<1>11. write_io_register16(m, a, v) = Set(m, a, Field(i, 0, 3) + WithoutLow(v, 3))
  BY <1>1, <1>10 DEF write_io_register16, DmaControls, TimerCounts, TimerControls
<1>12. write_io_register16(m, a, Join(h, l)) = Set(m, a, Join(h, d))
  BY <1>1, <1>9, <1>11
<1> QED BY <1>a, <1>4, <1>6, <1>7, <1>8, <1>12, KeptAgree

LEMMA CountAgree ==
  ASSUME NEW m, NEW a, a = 6, NEW h, NEW l
  PROVE  BytesAre(m, a, h, l)
<1>1. 6 \notin AffineHalves /\ 6 \in Addresses
  BY DEF AffineHalves, Addresses
<1>2. ~InAffine(6)
  BY <1>1, InAffineIs
<1>3. \A y : write_io_register16(m, 6, y) = m
  BY <1>2 DEF write_io_register16, DmaControls, TimerCounts, TimerControls
<1>4. write_io_register8(m, 6, l) = m /\ write_io_register8(m, 6 + 1, h) = m
  BY LowCount, HighCount
<1> QED BY <1>3, <1>4 DEF BytesAre

LEMMA SoundOnAgree ==
  ASSUME NEW m, Good(m), NEW a, a = 132, NEW h \in Octets, NEW l \in Octets
  PROVE  BytesAre(m, a, h, l)
<1>a. a \in Addresses /\ a \notin Apart /\ a \notin Merged /\ a \notin AffineHalves
      /\ a # 6 /\ a # 514 /\ a \notin 144 .. 158
  BY DEF Addresses, Apart, Merged, AffineHalves
<1>1. PICK n, o, v : n = sound_on(m, l) /\ o = a + 1 /\ v = Join(h, l)
  OBVIOUS
<1>2. write_io_register8(m, a, l) = n
  BY <1>1, LowSoundOn
<1>3. write_io_register8(n, o, h) = StoreByte(n, o, h)
  BY <1>a, <1>1, HighKept
<1>4. StoreByte(n, o, h) = Set(n, 132, Join(h, Low(n.io[132])))
  <2>1. o = 133 /\ Halfword(133) = 132 /\ 133 % 2 = 1 /\ 133 - 1 = 132
    BY <1>1 DEF Halfword
  <2> QED BY <2>1 DEF StoreByte, Join
<1>5. Set(n, 132, Join(h, Low(n.io[132]))) = sound_on(m, v)
  BY <1>1, SoundOnBytes
<1>6. ~InAffine(a)
  BY <1>a, InAffineIs
<1>7. write_io_register16(m, a, v) = sound_on(m, v)
  BY <1>6 DEF write_io_register16, DmaControls, TimerCounts, TimerControls
<1> QED BY <1>1, <1>2, <1>3, <1>4, <1>5, <1>7 DEF BytesAre

LEMMA WaveAgree ==
  ASSUME NEW m, Good(m), NEW a \in Addresses, a \in DOMAIN m.io, a \in 144 .. 158,
         NEW h \in Octets, NEW l \in Octets
  PROVE  BytesAre(m, a, h, l)
<1>a. a \notin Apart /\ a \notin AffineHalves
  BY DEF Apart, AffineHalves
<1>1. PICK n, o, v : n = Resampled(StoreByte(m, a, l)) /\ o = a + 1 /\ v = Join(h, l)
  OBVIOUS
<1>2. write_io_register8(m, a, l) = n
  BY <1>a, <1>1, LowWave DEF Resampled
<1>3. write_io_register8(n, o, h) = Resampled(StoreByte(n, o, h))
  BY <1>a, <1>1, HighWave DEF Resampled
<1>4. Resampled(StoreByte(n, o, h)) = Resampled(Set(m, a, v))
  BY <1>1, MarkedBytes
<1>5. ~InAffine(a)
  BY <1>a, InAffineIs
<1>6. write_io_register16(m, a, v) = Resampled(Set(m, a, v))
  BY <1>5 DEF write_io_register16, Resampled, WaveMarked, DmaControls, TimerCounts, TimerControls
<1> QED BY <1>1, <1>2, <1>3, <1>4, <1>6 DEF BytesAre

LEMMA IfAgree ==
  ASSUME NEW m, Good(m), NEW a, a = 514, a \in DOMAIN m.io, NEW h \in Octets, NEW l \in Octets
  PROVE  BytesAre(m, a, h, l)
<1>a. a \in Addresses /\ a \notin AffineHalves
  BY DEF Addresses, AffineHalves
<1>o. h \in 0 .. 255 /\ l \in 0 .. 255
  BY DEF Octets
<1>1. PICK i, j : i = High(m.io[a]) /\ j = Low(m.io[a])
  OBVIOUS
<1>2. i \in 0 .. 255 /\ j \in 0 .. 255 /\ m.io[a] = Join(i, j)
  BY <1>a, <1>1, ByteParts
<1>3. PICK c, d : c = AndNot(i, h) /\ d = AndNot(j, l)
  BY ZenonT(40)
<1>4. c \in 0 .. 255 /\ d \in 0 .. 255
  BY <1>o, <1>2, <1>3, ByteTakes, ZenonT(40)
<1>5. c \in Octets /\ d \in Octets /\ i \in Octets /\ j \in Octets
  BY <1>2, <1>4 DEF Octets
<1>6. PICK n, o, v : n = StoreByte(m, a, d) /\ o = a + 1 /\ v = Join(h, l)
  OBVIOUS
<1>7. write_io_register8(m, a, l) = n
  BY <1>1, <1>3, <1>6, LowOfIf
<1>8. High(n.io[a]) = i
  <2>1. n.io[a] = Join(i, d)
    BY <1>a, <1>1, <1>5, <1>6, LowByteStored
  <2> QED BY <1>2, <1>4, <2>1, JoinParts
<1>9. write_io_register8(n, o, h) = StoreByte(n, o, c)
  BY <1>3, <1>6, <1>8, HighOfIf
<1>10. Join(c, d) = AndNot(m.io[a], v)
  BY <1>2, <1>3, <1>5, <1>6, AndNotJoin
<1>11. ~InAffine(a)
  BY <1>a, InAffineIs
<1>12. write_io_register16(m, a, v) = Set(m, a, AndNot(m.io[a], v))
  BY <1>11 DEF write_io_register16, DmaControls, TimerCounts, TimerControls
<1>13. write_io_register16(m, a, Join(h, l)) = Set(m, a, Join(c, d))
  BY <1>6, <1>10, <1>12
<1> QED BY <1>a, <1>5, <1>6, <1>7, <1>9, <1>13, KeptAgree

(* The registers a byte store knows for itself. *)
ByteCases == {4, 6, 132, 514} \cup (144 .. 158)

LEMMA PlainAgree ==
  ASSUME NEW m, Good(m), NEW a \in Addresses, a \in DOMAIN m.io, a \notin Apart, a \notin Merged,
         a \notin ByteCases, NEW h \in Octets, NEW l \in Octets
  PROVE  BytesAre(m, a, h, l)
<1>a. a # 4 /\ a # 6 /\ a # 132 /\ a # 514 /\ a \notin 144 .. 158
  BY DEF ByteCases
<1>1. PICK n, o : n = StoreByte(m, a, l) /\ o = a + 1
  OBVIOUS
<1>2. write_io_register8(m, a, l) = n
  BY <1>a, <1>1, LowKept
<1>3. write_io_register8(n, o, h) = StoreByte(n, o, h)
  BY <1>a, <1>1, HighKept
<1>4. PICK v : v = Join(h, l)
  OBVIOUS
<1>5. ~InAffine(a)
  BY InAffineIs DEF Merged
<1>6. a \notin {0, 304, 516, 96, 160, 164, 768} /\ a \notin DmaControls /\ a \notin TimerCounts
      /\ a \notin TimerControls
  BY DEF Apart, DmaControls, TimerCounts, TimerControls
<1>7. a \notin {0, 4, 6, 304, 516, 96, 98, 100, 104, 108, 112, 114, 116, 120, 124, 128, 130,
                132, 160, 164, 514, 768}
  BY <1>a, <1>6 DEF Merged
<1>8. write_io_register16(m, a, v) = Set(m, a, v)
  BY <1>a, <1>5, <1>6, <1>7 DEF write_io_register16
<1> QED BY <1>1, <1>2, <1>3, <1>4, <1>8, KeptAgree

LEMMA BytesAgree ==
  ASSUME NEW m, Good(m), NEW a \in Addresses, a \in DOMAIN m.io, NEW v \in Halfwords,
         a \notin ApartByBytes, ~StillTriggered(m, a)
  PROVE  ByBytes(m, a, v) = write_io_register16(m, a, v)
<1>1. PICK h, l : h = High(v) /\ l = Low(v)
  OBVIOUS
<1>2. h \in Octets /\ l \in Octets /\ v = Join(h, l)
  BY <1>1, SmallBytes DEF Join, Octets
<1>3. a \notin Apart
  BY ApartIs
<1>4. SUFFICES BytesAre(m, a, h, l)
  BY <1>1, <1>2 DEF ByBytes, BytesAre
<1>5. CASE a = 4
  BY <1>2, <1>5, LcdAgree
<1>6. CASE a = 6
  BY <1>6, CountAgree
<1>7. CASE a \in Merged
  BY <1>2, <1>3, <1>7, MergedAgree
<1>8. CASE a = 132
  BY <1>2, <1>8, SoundOnAgree
<1>9. CASE a \in 144 .. 158
  BY <1>2, <1>9, WaveAgree
<1>10. CASE a = 514
  BY <1>2, <1>10, IfAgree
<1>11. CASE a \notin Merged /\ a \notin ByteCases
  BY <1>2, <1>3, <1>11, PlainAgree
<1> QED BY <1>5, <1>6, <1>7, <1>8, <1>9, <1>10, <1>11 DEF ByteCases

(* An affine reference is taken from the registers anew. *)
LEMMA AffineOver ==
  ASSUME NEW n, Good(n), NEW b, NEW o, NEW w
  PROVE  Affine(Set(Affine(n, b), o, w), b) = Affine(Set(n, o, w), b)
<1> DEFINE At(io) == <<io[b], io[b + 2] % 2^12>>
<1>1. n = [e \in DeviceFields |-> n[e]]
  BY DEF Good, IsDevice
<1>2. PICK p, q : p = At(n.io) /\ q = At(Put(n.io, o, w))
  OBVIOUS
<1>3. PICK k : k = Affine(n, b)
  OBVIOUS
<1>4. k = [n EXCEPT !.affine[b] = p]
  BY <1>2, <1>3 DEF Affine
<1>5. Set(n, o, w).io = Put(n.io, o, w)
  BY <1>1 DEF Set, Put, DeviceFields
<1>6. Set(k, o, w).io = Put(n.io, o, w)
  BY <1>1, <1>4 DEF Set, Put, DeviceFields
<1>7. Affine(Set(n, o, w), b) = [Set(n, o, w) EXCEPT !.affine[b] = q]
  BY <1>2, <1>5 DEF Affine
<1>8. Affine(Set(k, o, w), b) = [Set(k, o, w) EXCEPT !.affine[b] = q]
  BY <1>2, <1>6 DEF Affine
<1>9. [Set(k, o, w) EXCEPT !.affine[b] = q] = [Set(n, o, w) EXCEPT !.affine[b] = q]
  BY <1>1, <1>4 DEF Set, DeviceFields
<1> QED BY <1>3, <1>7, <1>8, <1>9

(* A word is stored as its halfwords are. *)
LEMMA WordAgrees ==
  ASSUME NEW m, Good(m), NEW a \in Addresses, a \notin {160, 164}, NEW v \in Halfwords, NEW w \in Halfwords,
         a \in DOMAIN m.io, a % 4 = 0, a + 2 \in Addresses, a + 2 \in DOMAIN m.io
  PROVE  write_io_register16(write_io_register16(m, a, v), a + 2, w) = write_io_register32(m, a, v, w)
<1>1. CASE a \notin AffineWords
  BY <1>1 DEF write_io_register32
<1>2. CASE a \in AffineWords
  <2>1. PICK o : o = a + 2
    OBVIOUS
  <2>2. a \in {40, 44, 56, 60} /\ a \in AffineHalves /\ o \in AffineHalves /\ o \in Addresses
    BY <1>2, <2>1 DEF AffineWords, AffineHalves
  <2>3. InAffine(a) /\ InAffine(o)
    BY <2>2, InAffineIs
  <2>4. AffineOf(a) = a /\ AffineOf(o) = a
    <3>1. \A b \in AffineWords : (a \in b .. b + 3 <=> b = a) /\ (o \in b .. b + 3 <=> b = a)
      BY <1>2, <2>1 DEF AffineWords
    <3> QED BY <1>2, <3>1 DEF AffineOf
  <2>5. \A k, y : write_io_register16(k, a, y) = Affine(Set(k, a, y), a)
    BY <2>2, <2>3, <2>4 DEF write_io_register16, AffineHalves, DmaControls, TimerCounts, TimerControls
  <2>6. \A k, y : write_io_register16(k, o, y) = Affine(Set(k, o, y), a)
    BY <2>2, <2>3, <2>4 DEF write_io_register16, AffineHalves, DmaControls, TimerCounts, TimerControls
  <2>7. write_io_register32(m, a, v, w) = Affine(Set(Set(m, a, v), o, w), a)
    BY <1>2, <2>1 DEF write_io_register32
  <2>8. Affine(Set(Affine(Set(m, a, v), a), o, w), a) = Affine(Set(Set(m, a, v), o, w), a)
    <3>1. PICK n : n = Set(m, a, v)
      OBVIOUS
    <3>2. Good(n)
      BY <3>1, SetIo
    <3> QED BY <3>1, <3>2, AffineOver
  <2> QED BY <2>1, <2>5, <2>6, <2>7, <2>8
<1> QED BY <1>1, <1>2

(* What an alert is cleared of. *)
LEMMA NowGood ==
  ASSUME IoInv
  PROVE  Good(Now) /\ Now.io = device.io
BY DEF IoInv, Good, IsDevice, DeviceFields, Now

LEMMA WidthsInv == IoInv => WidthsAgree
<1> SUFFICES ASSUME IoInv, NEW a \in group, NEW v \in Contents(a), NEW whole, whole = write_io_register16(Now, a, v)
             PROVE  /\ \/ a \in ApartByBytes \/ StillTriggered(device, a)
                       \/ Effect(ByBytes(Now, a, v)) = Effect(whole)
                    /\ a % 4 = 0 /\ a + 2 \in group /\ a \notin {\hA0, \hA4} =>
                         \A w \in Contents(a + 2) :
                           write_io_register16(whole, a + 2, w) = write_io_register32(Now, a, v, w)
  BY DEF WidthsAgree
<1>1. PICK m : m = Now
  OBVIOUS
<1>2. Good(m) /\ m.io = device.io
  BY <1>1, NowGood
<1>3. a \in Addresses /\ v \in Halfwords /\ a \in DOMAIN m.io
  BY <1>2, RegistersFit DEF IoInv
<1>4. ASSUME a \notin ApartByBytes, ~StillTriggered(device, a)
      PROVE  Effect(ByBytes(Now, a, v)) = Effect(whole)
  <2>1. ~StillTriggered(m, a)
    BY <1>2, <1>4 DEF StillTriggered
  <2>2. ByBytes(m, a, v) = write_io_register16(m, a, v)
    BY <1>2, <1>3, <1>4, <2>1, BytesAgree
  <2> QED BY <1>1, <2>2
<1>5. ASSUME a % 4 = 0, a + 2 \in group, a \notin {\hA0, \hA4}, NEW w \in Contents(a + 2)
      PROVE  write_io_register16(whole, a + 2, w) = write_io_register32(Now, a, v, w)
  <2>1. a + 2 \in Addresses /\ w \in Halfwords /\ a + 2 \in DOMAIN m.io
    BY <1>2, <1>5, RegistersFit DEF IoInv
  <2>2. a \notin {160, 164}
    BY <1>5
  <2> QED BY <1>1, <1>2, <1>3, <1>5, <2>1, <2>2, WordAgrees
<1> QED BY <1>4, <1>5

(* WidthsAgree for every register, content and state: but for the registers named,   *)
(* storing a register's bytes leaves the devices as storing the halfword does, and   *)
(* storing two halfwords as storing the word (IoRegisters).                          *)
THEOREM WidthsAlwaysAgree == DeviceSpec => []WidthsAgree
BY WidthsInv, DevicesStayGood, PTL
=============================================================================
