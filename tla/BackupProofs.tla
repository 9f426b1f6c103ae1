------------------------------ MODULE BackupProofs ------------------------------
(***************************************************************************)
(* Theorems about Backup, for every library of games, every set of          *)
(* addresses, every delay and every behaviour of the storage device.        *)
(***************************************************************************)
EXTENDS Backup, TLAPS

-------------------------------------------------------------------------------
(* Write mode and the unlock sequence. *)

(* Only a complete unlock sequence enters write mode, and it resets the     *)
(* command position.                                                        *)
LEMMA EntersWriteMode ==
  ASSUME NEW value, CommandMode(value) = "write", flash_mode # "write"
  PROVE  flash_mode = "base" /\ value = \hA0
  BY DEF CommandMode

(* One write to the backup area keeps NoDroppedProgram. *)
LEMMA WriteKeepsProgram ==
  ASSUME NoDroppedProgram, WriteBackup
  PROVE  NoDroppedProgram'
<1> DEFINE address == Head(script)[2]
           value   == Head(script)[3]
<1>1. CASE flash_mode # "write" /\ Write5555(value)
  <2>1. CASE flash_command_position = 2
    <3>1. flash_command_position' = 0
      BY <1>1, <2>1 DEF Write5555, PositionAfter
    <3> QED
      BY <3>1 DEF NoDroppedProgram
  <2>2. CASE flash_command_position # 2
    <3>1. flash_mode' = flash_mode
      BY <1>1, <2>2 DEF Write5555
    <3> QED
      BY <1>1, <3>1 DEF NoDroppedProgram
  <2> QED
    BY <2>1, <2>2
<1>2. CASE flash_command_position = 1 /\ SecondUnlock
  <2>1. flash_mode # "write" /\ flash_mode' = flash_mode
    BY <1>2 DEF SecondUnlock, NoDroppedProgram
  <2> QED
    BY <2>1 DEF NoDroppedProgram
<1>3. CASE EraseSector(address) \/ SwitchBank(value) \/ Program(address)
  <2>1. flash_mode' = "base"
    BY <1>3 DEF EraseSector, SwitchBank, Program
  <2> QED
    BY <2>1 DEF NoDroppedProgram
<1>4. CASE WriteSram(address)
  BY <1>4 DEF WriteSram, flash, NoDroppedProgram
<1> QED
  BY <1>1, <1>2, <1>3, <1>4 DEF WriteBackup

(* Whatever bytes a game writes to the backup area, and wherever it is      *)
(* restarted, no unlock sequence is half received in write mode: a byte to  *)
(* be programmed is never taken for part of a command.                      *)
THEOREM ProgramNeverDropped == Spec => []NoDroppedProgram
<1>1. Init => NoDroppedProgram
  BY DEF Init, NoDroppedProgram
<1>2. NoDroppedProgram /\ [Next]_vars => NoDroppedProgram'
  <2> SUFFICES ASSUME NoDroppedProgram, [Next]_vars
               PROVE  NoDroppedProgram'
    OBVIOUS
  <2>1. CASE WriteBackup
    BY <2>1, WriteKeepsProgram
  <2>2. CASE Restart \/ \E readable \in BOOLEAN : LoadGamepak(readable)
    <3>1. flash_mode' = "base"
      BY <2>2 DEF Restart, LoadGamepak, ResetChip
    <3> QED
      BY <3>1 DEF NoDroppedProgram
  <2>3. CASE UNCHANGED flash
    BY <2>3 DEF flash, NoDroppedProgram
  <2>4. CASE Command \/ ReadBackup \/ TriggerDma \/ WriteEeprom \/ ReadEeprom
    <3>1. UNCHANGED flash
      BY <2>4 DEF Command, ReadBackup, TriggerDma, WriteEeprom, ReadEeprom, chip
    <3> QED
      BY <3>1, <2>3
  <2>5. CASE \/ Frame \/ PowerOff \/ ToggleUpdateFlag
             \/ \E outcome \in Outcomes : FrameSaves(outcome) \/ Quit(outcome)
    <3>1. UNCHANGED flash
      BY <2>5 DEF Frame, PowerOff, ToggleUpdateFlag, FrameSaves, Quit, chip
    <3> QED
      BY <3>1, <2>3
  <2>6. CASE UNCHANGED vars
    BY <2>6, <2>3 DEF vars, chip
  <2> QED
    BY <2>1, <2>2, <2>4, <2>5, <2>6 DEF Next, GameNext, UserNext
<1> QED
  BY <1>1, <1>2, PTL DEF Spec

-------------------------------------------------------------------------------
(* One notification per failure episode. *)

(* While the emulator runs, an announcement was made exactly when           *)
(* backup_failure_reported says so; quit() may set the flag on its own, but *)
(* no frame follows it.                                                     *)
NoticeInv ==
  /\ notices \in {0, 1}
  /\ running = "on" /\ ~backup_failure_reported => notices = 0

(* A frame that attempts a save announces a failure once per episode. *)
LEMMA SaveKeepsNotice ==
  ASSUME NoticeInv, NEW outcome, FrameSaves(outcome)
  PROVE  NoticeInv'
<1>1. running = "on"
  BY DEF FrameSaves
<1>2. CASE SaveDone
  BY <1>2 DEF SaveDone, NoticeInv
<1>3. CASE SaveFailed
  <2>1. backup_failure_reported' = TRUE
    BY <1>3 DEF SaveFailed
  <2>2. CASE backup_failure_reported
    BY <1>3, <2>1, <2>2 DEF SaveFailed, Announced, NoticeInv
  <2>3. CASE ~backup_failure_reported
    <3>1. notices' = 1
      BY <1>1, <1>3, <2>3 DEF SaveFailed, Announced, NoticeInv
    <3> QED
      BY <2>1, <3>1 DEF NoticeInv
  <2> QED
    BY <2>2, <2>3
<1> QED
  BY <1>2, <1>3 DEF FrameSaves

(* README: one notification per failure episode.  It holds for every delay, *)
(* every retry period and every sequence of storage failures, restarts and  *)
(* game loads.                                                              *)
THEOREM NotifiedOnce == Spec => []OneNotice
<1>1. Init => NoticeInv
  BY DEF Init, NoticeInv
<1>2. NoticeInv /\ [Next]_vars => NoticeInv'
  <2> SUFFICES ASSUME NoticeInv, [Next]_vars
               PROVE  NoticeInv'
    OBVIOUS
  <2>1. CASE UNCHANGED <<running, backup_failure_reported, notices>>
    BY <2>1 DEF NoticeInv
  <2>2. CASE GameNext
    <3>1. UNCHANGED <<running, backup_failure_reported, notices>>
      <4>1. ASSUME Command \/ ReadBackup \/ TriggerDma \/ ReadEeprom
            PROVE  UNCHANGED <<running, backup_failure_reported, notices>>
        BY <4>1 DEF Command, ReadBackup, TriggerDma, ReadEeprom, user, timers
      <4>2. ASSUME WriteBackup
            PROVE  UNCHANGED <<running, backup_failure_reported, notices>>
        BY <4>2 DEF WriteBackup, user, timers
      <4>3. ASSUME WriteEeprom
            PROVE  UNCHANGED <<running, backup_failure_reported, notices>>
        BY <4>3 DEF WriteEeprom, user, timers
      <4> QED
        BY <2>2, <4>1, <4>2, <4>3 DEF GameNext
    <3> QED
      BY <3>1, <2>1
  <2>3. CASE Frame \/ Restart \/ ToggleUpdateFlag
    <3>1. UNCHANGED <<running, backup_failure_reported, notices>>
      BY <2>3 DEF Frame, Restart, ToggleUpdateFlag, user, timers
    <3> QED
      BY <3>1, <2>1
  <2>4. CASE \E outcome \in Outcomes : FrameSaves(outcome)
    BY <2>4, SaveKeepsNotice
  <2>5. CASE PowerOff \/ \E outcome \in Outcomes : Quit(outcome)
    <3>1. running' # "on" /\ notices' = notices
      BY <2>5 DEF PowerOff, Quit, timers
    <3> QED
      BY <3>1 DEF NoticeInv
  <2>6. CASE \E readable \in BOOLEAN : LoadGamepak(readable)
    <3>1. notices' = 0
      BY <2>6 DEF LoadGamepak
    <3> QED
      BY <3>1 DEF NoticeInv
  <2>7. CASE UNCHANGED vars
    BY <2>7, <2>1 DEF vars, user, timers
  <2> QED
    BY <2>2, <2>3, <2>4, <2>5, <2>6, <2>7 DEF Next, UserNext
<1>3. NoticeInv => OneNotice
  BY DEF NoticeInv, OneNotice
<1> QED
  BY <1>1, <1>2, <1>3, PTL DEF Spec

-------------------------------------------------------------------------------
(* What the next save reaches. *)

(* A chip of size bytes: once the game has written to it since the last     *)
(* restart or load, the detected size is right.                             *)
Holds(size) ==
  /\ written \subseteq used \cap Below(size)
  /\ written # {} => BackupSize = size

SramInv ==
  /\ script \in Seq(Access) /\ SramScript(script)
  /\ backup_type \in {"none", "sram"} /\ sram_size = KB32
  /\ flash_mode = "base" /\ flash_command_position = 0
  /\ Holds(KB32)

(* Until the chip is known to be flash, the next write begins to unlock it. *)
Untyped ==
  /\ backup_type \in {"none", "sram"} /\ UnlocksFirst(script)
  /\ flash_mode = "base" /\ flash_command_position = 0

Flash64Inv ==
  /\ script \in Seq(Access) /\ \A i \in 1 .. Len(script) : ~Sends(script[i], \hB0)
  /\ sram_size = KB32 /\ flash_size = KB64
  /\ flash_bank_ptr = 0 /\ flash_mode # "bankswitch"
  /\ backup_type = "flash" \/ Untyped
  /\ Holds(KB64)

(* Until the chip is known to have two banks, nothing can be erased or      *)
(* programmed, and an unlock sequence goes on as it began.                  *)
Small ==
  /\ flash_size = KB64
  /\ flash_mode \notin {"write", "erase"}
  /\ \/ flash_command_position = 0 /\ (SwitchesFirst(script) \/ Detects(script))
     \/ /\ flash_command_position = 1
        /\ Len(script) > 1 /\ SendsSecond(script[1]) /\ Writes(script[2], \h5555)
        /\ Sends(script[2], \hB0) \/ Detects(script)
     \/ /\ flash_command_position = 2
        /\ Len(script) > 0 /\ Writes(script[1], \h5555)
        /\ Sends(script[1], \hB0) \/ Detects(script)

Flash128Inv ==
  /\ script \in Seq(Access)
  /\ sram_size = KB32 /\ flash_bank_ptr \in {0, KB64}
  /\ flash_size = KB128 \/ Small
  /\ backup_type = "flash" \/ Untyped
  /\ Holds(KB128)

-------------------------------------------------------------------------------
(* Scripts. *)

LEMMA AccessType ==
  ASSUME NEW a \in Access
  PROVE  a[1] \in {"read", "write"} /\ a[2] \in Nat /\ a[2] < KB64 /\ a[3] \in Nat
<1>1. a \in Accesses \X BusOffsets \X Nat
  BY DEF Access
<1>2. a[1] \in Accesses /\ a[2] \in BusOffsets /\ a[3] \in Nat
  BY <1>1
<1>3. a[1] \in {"read", "write"}
  BY <1>2 DEF Accesses
<1>4. \A n \in BusOffsets : n \in Nat /\ n < KB64
  BY DEF BusOffsets, KB64
<1> QED
  BY <1>2, <1>3, <1>4

LEMMA ScriptGoesOn ==
  ASSUME NEW s \in Seq(Access), s # <<>>
  PROVE  /\ Len(s) \in Nat /\ Len(s) > 0 /\ Head(s) = s[1] /\ s[1] \in Access
         /\ Tail(s) \in Seq(Access) /\ Len(Tail(s)) = Len(s) - 1
         /\ \A i \in 1 .. Len(s) - 1 : Tail(s)[i] = s[i + 1]
OBVIOUS

(* An access of a bus script is a read or a write of the backup area.       *)
LEMMA BusOnly ==
  ASSUME script \in Seq(Access), GameNext
  PROVE  \/ Command \/ ReadBackup \/ WriteBackup
<1>1. script # <<>> => Head(script)[1] \in {"read", "write"}
  BY ScriptGoesOn, AccessType
<1>2. ~Issue("dma") /\ ~Issue("eeprom write") /\ ~Issue("eeprom read")
  BY <1>1 DEF Issue
<1> QED
  BY <1>2 DEF GameNext, TriggerDma, WriteEeprom, ReadEeprom

LEMMA UnlocksFirstGoesOn ==
  ASSUME NEW s \in Seq(Access), s # <<>>, UnlocksFirst(s), ~Sends(s[1], \hAA)
  PROVE  UnlocksFirst(Tail(s)) /\ s[1][1] # "write"
<1>1. s[1][1] # "write"
  <2> SUFFICES ASSUME s[1][1] = "write" PROVE FALSE
    OBVIOUS
  <2>1. 1 \in 1 .. Len(s)
    BY ScriptGoesOn
  <2>2. \E j \in 1 .. 1 : Sends(s[j], \hAA)
    BY <2>1 DEF UnlocksFirst
  <2> QED
    BY <2>2
<1>2. UnlocksFirst(Tail(s))
  <2> SUFFICES ASSUME NEW i \in 1 .. Len(Tail(s)), Tail(s)[i][1] = "write"
               PROVE  \E j \in 1 .. i : Sends(Tail(s)[j], \hAA)
    BY DEF UnlocksFirst
  <2>1. i + 1 \in 1 .. Len(s) /\ s[i + 1][1] = "write"
    BY ScriptGoesOn
  <2>2. PICK j \in 1 .. i + 1 : Sends(s[j], \hAA)
    BY <2>1 DEF UnlocksFirst
  <2>3. j # 1
    BY <2>2
  <2>4. j - 1 \in 1 .. i /\ Tail(s)[j - 1] = s[j]
    BY <2>3, ScriptGoesOn
  <2> QED
    BY <2>2, <2>4
<1> QED
  BY <1>1, <1>2

LEMMA DetectsGoesOn ==
  ASSUME NEW s \in Seq(Access), s # <<>>, Detects(s)
  PROVE  Detects(Tail(s))
<1> SUFFICES ASSUME NEW i \in 1 .. Len(Tail(s))
             PROVE  LET t == Tail(s)
                    IN  /\ ~Sends(t[i], \h80) /\ ~Sends(t[i], \hA0)
                        /\ Sends(t[i], \hAA) =>
                             /\ i + 2 <= Len(t) /\ SendsSecond(t[i + 1])
                             /\ Writes(t[i + 2], \h5555)
  BY DEF Detects
<1>1. i + 1 \in 1 .. Len(s) /\ Tail(s)[i] = s[i + 1]
  BY ScriptGoesOn
<1>2. CASE Sends(s[i + 1], \hAA)
  <2>1. i + 3 <= Len(s) /\ SendsSecond(s[i + 2]) /\ Writes(s[i + 3], \h5555)
    BY <1>1, <1>2, ScriptGoesOn DEF Detects
  <2>2. i + 2 <= Len(Tail(s)) /\ Tail(s)[i + 1] = s[i + 2] /\ Tail(s)[i + 2] = s[i + 3]
    BY <2>1, ScriptGoesOn
  <2> QED
    BY <1>1, <2>1, <2>2 DEF Detects
<1>3. CASE ~Sends(s[i + 1], \hAA)
  BY <1>1, <1>3 DEF Detects
<1> QED
  BY <1>2, <1>3
-------------------------------------------------------------------------------
(* Frames and the user. *)

LEMMA CellsType == \A c \in Cells : c \in Nat /\ c < KB128
<1>1. Addresses \subseteq 0 .. KB64 - 1
  BY BackupAssumption
<1>2. \A a \in Addresses : a \in Nat /\ a < KB64
  <2>1. \A n \in 0 .. KB64 - 1 : n \in Nat /\ n < KB64
    BY DEF KB64
  <2> QED
    BY <1>1, <2>1
<1>3. SUFFICES ASSUME NEW c \in Cells PROVE c \in Nat /\ c < KB128
  OBVIOUS
<1>4. CASE c \in Addresses
  BY <1>2, <1>4 DEF KB64, KB128
<1>5. ASSUME NEW a \in Addresses, c = a + KB64
      PROVE  c \in Nat /\ c < KB128
  BY <1>2, <1>5 DEF KB64, KB128
<1> QED
  BY <1>4, <1>5 DEF Cells

(* A step that leaves the chip and what the game wrote alone.               *)
LEMMA SameHolds ==
  ASSUME NEW size \in Nat, Holds(size), UNCHANGED <<chip, used, written>>
  PROVE  Holds(size)'
<1>1. UNCHANGED BackupSize
  BY DEF chip, flash, eeprom, BackupSize
<1> QED
  BY <1>1 DEF Holds, Below

LEMMA FrameHolds ==
  ASSUME NEW size \in Nat, Holds(size),
         \/ Frame
         \/ \E outcome \in Outcomes : FrameSaves(outcome)
  PROVE  Holds(size)' /\ UNCHANGED <<script, chip>>
<1>1. UNCHANGED <<script, chip, used, written>>
  BY DEF Frame, FrameSaves, data
<1> QED
  BY <1>1, SameHolds

(* Restarts and loads start from what is there, and forget the chip.        *)
LEMMA UserHolds ==
  ASSUME NEW size \in Nat, Holds(size), UserNext
  PROVE  /\ Holds(size)'
         /\ UNCHANGED <<script, chip>> \/ (script' = <<>> /\ ResetChip)
<1>1. CASE \/ PowerOff \/ ToggleUpdateFlag
           \/ \E outcome \in Outcomes : Quit(outcome)
  <2>1. UNCHANGED <<script, chip, used, written>>
    BY <1>1 DEF PowerOff, ToggleUpdateFlag, Quit, data
  <2> QED
    BY <2>1, SameHolds
<1>2. CASE Restart \/ \E readable \in BOOLEAN : LoadGamepak(readable)
  <2>1. written' = {} /\ script' = <<>> /\ ResetChip
    BY <1>2 DEF Restart, LoadGamepak
  <2> QED
    BY <2>1 DEF Holds
<1> QED
  BY <1>1, <1>2 DEF UserNext

-------------------------------------------------------------------------------
(* Stores. *)

(* A store on a chip whose size is known.                                   *)
LEMMA ArmHolds ==
  ASSUME NEW size \in Nat, Holds(size), NEW cells,
         cells \cap Cells \subseteq Below(size), Dirty(cells),
         BackupSize' = size
  PROVE  Holds(size)'
BY DEF Dirty, Holds, Below

(* An access that stores nothing, and leaves a known size known.            *)
LEMMA QuietHolds ==
  ASSUME NEW size \in Nat, Holds(size), UNCHANGED data,
         BackupSize = size => BackupSize' = size
  PROVE  Holds(size)'
BY DEF Holds, data, Below

(* What an access is, and what is left of the script.                       *)
LEMMA Accessed ==
  ASSUME script \in Seq(Access), script # <<>>
  PROVE  /\ Head(script) = script[1] /\ 1 \in 1 .. Len(script)
         /\ script[1][1] \in {"read", "write"}
         /\ script[1][2] \in Nat /\ script[1][2] < KB64 /\ script[1][3] \in Nat
BY ScriptGoesOn, AccessType

LEMMA Sizes == /\ KB32 \in Nat /\ KB64 \in Nat /\ KB128 \in Nat
               /\ 0 < KB32 /\ KB32 < KB64 /\ KB64 < KB128 /\ KB64 + KB64 = KB128
BY DEF KB32, KB64, KB128

LEMMA ResetSize == ResetChip => BackupSize' = 0
BY DEF ResetChip, BackupSize

LEMMA SramStores ==
  ASSUME SramInv, WriteBackup
  PROVE  WriteSram(script[1][2]) /\ script[1][2] < KB32
<1>1. script # <<>> /\ script \in Seq(Access) /\ Head(script)[1] = "write"
  BY DEF SramInv, WriteBackup, Issue
<1>2. Head(script) = script[1] /\ 1 \in 1 .. Len(script)
  BY <1>1, Accessed
<1>3. script[1][2] < KB32 /\ script[1][2] # \h5555
  BY <1>1, <1>2 DEF SramInv, SramScript
<1>4. flash_mode = "base" /\ flash_command_position = 0
  BY DEF SramInv
<1> QED
  BY <1>2, <1>3, <1>4 DEF WriteBackup

LEMMA SramGame ==
  ASSUME SramInv, IsSram(Library[cart]), GameNext
  PROVE  SramInv'
<1>0. Command \/ ReadBackup \/ WriteBackup
  BY BusOnly DEF SramInv
<1>1. CASE Command
  <2>1. script' \in Seq(Access) /\ SramScript(script)'
    BY <1>1 DEF Command, IsSram, SramScript
  <2>2. UNCHANGED <<chip, user, data, file_size, backup_update>>
    BY <1>1 DEF Command
  <2>3. UNCHANGED <<backup_type, sram_size, flash_mode, flash_command_position, BackupSize>>
    BY <2>2 DEF chip, flash, eeprom, BackupSize
  <2>4. Holds(KB32)'
    BY <2>2, <2>3, QuietHolds, Sizes DEF SramInv, Holds
  <2> QED
    BY <2>1, <2>3, <2>4 DEF SramInv
<1>2. ASSUME script # <<>>, script' = Tail(script)
      PROVE  script' \in Seq(Access) /\ SramScript(script)'
  <2>1. \A i \in 1 .. Len(script') : i + 1 \in 1 .. Len(script) /\ script'[i] = script[i + 1]
    BY <1>2, ScriptGoesOn DEF SramInv
  <2> QED
    BY <1>2, <2>1, ScriptGoesOn DEF SramInv, SramScript
<1>3. CASE ReadBackup
  <2>1. script' \in Seq(Access) /\ SramScript(script)'
    BY <1>2, <1>3 DEF ReadBackup, Issue
  <2>2. UNCHANGED <<sram_size, flash, user, data, file_size, backup_update>>
    BY <1>3 DEF ReadBackup
  <2>3. backup_type' = "sram"
    BY <1>3 DEF ReadBackup, Touched, SramInv
  <2>4. BackupSize' = KB32
    BY <2>2, <2>3 DEF BackupSize, SramInv
  <2>5. Holds(KB32)'
    BY <2>2, <2>4, QuietHolds, Sizes DEF SramInv
  <2> QED
    BY <2>1, <2>2, <2>3, <2>5 DEF SramInv, flash
<1>4. CASE WriteBackup
  <2>1. script' \in Seq(Access) /\ SramScript(script)'
    BY <1>2, <1>4 DEF WriteBackup, Issue
  <2>2. WriteSram(script[1][2]) /\ script[1][2] < KB32 /\ script[1][2] \in Nat
    BY <1>4, SramStores, Accessed DEF SramInv, WriteBackup, Issue
  <2>3. Touched = "sram"
    BY DEF SramInv, Touched
  <2>4. /\ backup_type' = "sram" /\ sram_size' = KB32 /\ UNCHANGED flash
        /\ backup_update' = write_backup_delay /\ Dirty({script[1][2]})
    BY <2>2, <2>3, Sizes DEF WriteSram, SramInv
  <2>5. BackupSize' = KB32 /\ UNCHANGED file_size
    BY <1>4, <2>4 DEF BackupSize, WriteBackup
  <2>6. {script[1][2]} \cap Cells \subseteq Below(KB32)
    BY <2>2 DEF Below
  <2>7. Holds(KB32)'
    BY <2>4, <2>5, <2>6, ArmHolds, Sizes DEF SramInv
  <2> QED
    BY <2>1, <2>4, <2>7 DEF SramInv, flash
<1> QED
  BY <1>0, <1>1, <1>3, <1>4

(* The steps that are not the game's.                                       *)
LEMMA Others ==
  ASSUME [Next]_vars
  PROVE  \/ GameNext
         \/ running = "on" /\ (Frame \/ \E outcome \in Outcomes : FrameSaves(outcome))
         \/ UserNext
         \/ UNCHANGED vars
BY DEF Next, Frame, FrameSaves

LEMMA RestHolds ==
  ASSUME NEW size \in Nat, Holds(size), [Next]_vars, ~GameNext
  PROVE  /\ Holds(size)'
         /\ UNCHANGED <<script, chip>> \/ (script' = <<>> /\ ResetChip)
<1>1. CASE UNCHANGED vars
  <2>1. UNCHANGED <<script, chip, used, written>>
    BY <1>1 DEF vars, data
  <2> QED
    BY <2>1, SameHolds
<1> QED
  BY <1>1, Others, FrameHolds, UserHolds

LEMMA SramStep ==
  ASSUME SramInv, IsSram(Library[cart]), [Next]_vars
  PROVE  SramInv'
<1>1. CASE GameNext
  BY <1>1, SramGame
<1>2. CASE ~GameNext
  <2>1. Holds(KB32)'
    BY <1>2, RestHolds, Sizes DEF SramInv
  <2>2. CASE UNCHANGED <<script, chip>>
    BY <2>1, <2>2 DEF SramInv, chip, flash, SramScript
  <2>3. CASE script' = <<>> /\ ResetChip
    BY <2>1, <2>3 DEF SramInv, ResetChip, SramScript
  <2> QED
    BY <1>2, <2>2, <2>3, RestHolds, Sizes DEF SramInv
<1> QED
  BY <1>1, <1>2
-------------------------------------------------------------------------------
(* Flash chips. *)

(* A first write to a chip that is not known yet begins to unlock it.       *)
LEMMA UntypedWrites ==
  ASSUME script \in Seq(Access), Untyped, WriteBackup
  PROVE  /\ backup_type' = "flash" /\ flash_command_position' = 1
         /\ Sends(script[1], \hAA)
         /\ UNCHANGED <<flash_size, flash_mode, flash_bank_ptr, sram_size,
                        user, data, file_size, backup_update>>
<1>1. script # <<>> /\ Head(script) = script[1] /\ script[1][1] = "write"
  BY Accessed DEF WriteBackup, Issue
<1>2. Sends(script[1], \hAA)
  BY <1>1, UnlocksFirstGoesOn DEF Untyped
<1>3. script[1][2] = \h5555 /\ script[1][3] = \hAA
  BY <1>2 DEF Sends, Writes
<1>4. flash_mode = "base" /\ flash_command_position = 0
  BY DEF Untyped
<1>5. Write5555(\hAA) /\ UNCHANGED <<user, file_size>>
  BY <1>1, <1>3, <1>4 DEF WriteBackup
<1>6. backup_type' = "flash" /\ flash_command_position' = 1 /\ Dirty({})
  BY <1>4, <1>5 DEF Write5555, PositionAfter
<1>7. UNCHANGED <<flash_size, flash_mode, flash_bank_ptr, sram_size, backup_update>>
  BY <1>4, <1>5 DEF Write5555, SizeAfter
<1>8. UNCHANGED data
  BY <1>6 DEF Dirty, data
<1> QED
  BY <1>2, <1>5, <1>6, <1>7, <1>8

LEMMA UntypedReads ==
  ASSUME script \in Seq(Access), Untyped, ReadBackup
  PROVE  Untyped'
<1>1. script # <<>> /\ script' = Tail(script) /\ script[1][1] = "read"
  BY Accessed DEF ReadBackup, Issue
<1>2. ~Sends(script[1], \hAA)
  BY <1>1 DEF Sends, Writes
<1>3. UnlocksFirst(Tail(script))
  BY <1>1, <1>2, UnlocksFirstGoesOn DEF Untyped
<1>4. UnlocksFirst(script)'
  BY <1>1, <1>3 DEF UnlocksFirst
<1>5. backup_type' = "sram" /\ UNCHANGED flash
  BY DEF ReadBackup, Untyped, Touched
<1> QED
  BY <1>4, <1>5 DEF Untyped, flash

(* What the writes to a chip whose size is known may change.                *)
LEMMA FlashWrites ==
  ASSUME NEW size \in Nat, Holds(size), script \in Seq(Access), WriteBackup,
         backup_type = "flash", flash_size = size,
         \/ size = KB128
         \/ size = KB64 /\ flash_bank_ptr = 0 /\ ~Sends(script[1], \hB0)
            /\ flash_mode # "bankswitch"
  PROVE  /\ Holds(size)'
         /\ backup_type' = "flash" /\ flash_size' = size /\ UNCHANGED sram_size
         /\ size = KB64 => flash_bank_ptr' = 0 /\ flash_mode' # "bankswitch"
         /\ flash_bank_ptr \in {0, KB64} => flash_bank_ptr' \in {0, KB64}
<1> DEFINE address == script[1][2]
           value == script[1][3]
<1>1. script # <<>> /\ Head(script) = script[1] /\ script[1][1] = "write"
  BY Accessed DEF WriteBackup, Issue
<1>2. address \in Nat /\ address < KB64 /\ value \in Nat
  BY <1>1, Accessed
<1>3. UNCHANGED <<user, file_size>>
  BY DEF WriteBackup
<1>4. Touched = "flash" /\ BackupSize = size
  BY DEF Touched, BackupSize
<1>6. ASSUME UNCHANGED <<data, backup_update>>, BackupSize' = size
      PROVE  Holds(size)'
  BY <1>3, <1>4, <1>6, QuietHolds
<1>7. CASE Write5555(value) /\ address = \h5555
  <2>1. backup_type' = "flash" /\ UNCHANGED <<sram_size, flash_bank_ptr>>
    BY <1>4, <1>7 DEF Write5555
  <2>2. value # \hB0 \/ size = KB128
    BY <1>1, <1>7 DEF Sends, Writes
  <2>3. flash_size' = size
    BY <1>7, <2>2 DEF Write5555, SizeAfter
  <2>4. size = KB64 => flash_mode' # "bankswitch"
    <3>1. CASE size = KB64
      <4>1. value # \hB0 /\ flash_mode # "bankswitch"
        BY <2>2, <3>1, Sizes
      <4>2. CommandMode(value) # "bankswitch"
        BY <4>1 DEF CommandMode
      <4> QED
        BY <1>7, <4>1, <4>2 DEF Write5555
    <3> QED
      BY <3>1
  <2>5. BackupSize' = size
    BY <2>1, <2>3 DEF BackupSize
  <2>6. Holds(size)'
    <3> DEFINE erases == flash_command_position = 2 /\ value = \h10 /\ flash_mode = "erase"
    <3>1. CASE erases
      <4>1. backup_update' = write_backup_delay /\ Dirty(Below(size) \cup {})
        BY <1>4, <1>7, <3>1 DEF Write5555
      <4>2. (Below(size) \cup {}) \cap Cells \subseteq Below(size)
        OBVIOUS
      <4> QED
        BY <1>3, <2>5, <4>1, <4>2, ArmHolds
    <3>2. CASE ~erases
      <4>1. backup_update' = backup_update /\ Dirty({})
        BY <1>4, <1>7, <3>2 DEF Write5555
      <4>2. UNCHANGED data
        BY <4>1 DEF Dirty, data
      <4> QED
        BY <1>6, <2>5, <4>1, <4>2
    <3> QED
      BY <3>1, <3>2
  <2> QED
    BY <2>1, <2>3, <2>4, <2>6, Sizes
<1>8. CASE SecondUnlock \/ WriteSram(address)
  <2>1. /\ backup_type' = "flash" /\ UNCHANGED <<sram_size, flash_size, flash_mode, flash_bank_ptr>>
        /\ UNCHANGED <<data, backup_update>>
    BY <1>4, <1>8 DEF SecondUnlock, WriteSram, flash
  <2>2. BackupSize' = size
    BY <2>1 DEF BackupSize
  <2> QED
    BY <1>6, <2>1, <2>2, Sizes
<1>9. CASE EraseSector(address)
  <2> DEFINE sector == {c \in Cells : c \div \h1000 = (flash_bank_ptr + address) \div \h1000}
  <2>1. /\ backup_type' = "flash" /\ UNCHANGED <<sram_size, flash_size, flash_bank_ptr>>
        /\ flash_mode' = "base" /\ backup_update' = write_backup_delay /\ Dirty(sector)
    BY <1>4, <1>9 DEF EraseSector
  <2>2. BackupSize' = size
    BY <2>1 DEF BackupSize
  <2>3. size = KB64 => \A c \in sector : c < KB64
    <3> SUFFICES ASSUME size = KB64, NEW c \in sector PROVE c < KB64
      OBVIOUS
    <3>1. flash_bank_ptr = 0
      BY Sizes
    <3>2. c \in Nat /\ c \div \h1000 = address \div \h1000
      BY <1>2, <3>1, CellsType
    <3>3. address \div \h1000 <= 15
      BY <1>2 DEF KB64
    <3>4. c \div \h1000 <= 15
      BY <3>2, <3>3
    <3> QED
      BY <3>2, <3>4 DEF KB64
  <2>4. sector \cap Cells \subseteq Below(size)
    BY <2>3, CellsType DEF Below
  <2>5. Holds(size)'
    BY <1>3, <2>1, <2>2, <2>4, ArmHolds
  <2> QED
    BY <2>1, <2>5, Sizes
<1>10. CASE SwitchBank(value) /\ flash_mode = "bankswitch"
  <2>1. size = KB128 /\ size # KB64
    BY <1>10, Sizes
  <2>2. /\ backup_type' = "flash" /\ UNCHANGED <<sram_size, flash_size, data, backup_update>>
        /\ flash_bank_ptr' = (value % 2) * KB64
    BY <1>4, <1>10 DEF SwitchBank
  <2>3. flash_bank_ptr' \in {0, KB64}
    <3>1. value % 2 = 0 \/ value % 2 = 1
      BY <1>2
    <3> QED
      BY <2>2, <3>1 DEF KB64
  <2>4. BackupSize' = size
    BY <2>2 DEF BackupSize
  <2> QED
    BY <1>6, <2>1, <2>2, <2>3, <2>4
<1>11. CASE Program(address)
  <2>1. /\ backup_type' = "flash" /\ UNCHANGED <<sram_size, flash_size, flash_bank_ptr>>
        /\ flash_mode' = "base" /\ backup_update' = write_backup_delay
        /\ Dirty({flash_bank_ptr + address})
    BY <1>4, <1>11 DEF Program
  <2>2. BackupSize' = size
    BY <2>1 DEF BackupSize
  <2>3. {flash_bank_ptr + address} \cap Cells \subseteq Below(size)
    BY <1>2, CellsType, Sizes DEF Below
  <2>4. Holds(size)'
    BY <1>3, <2>1, <2>2, <2>3, ArmHolds
  <2> QED
    BY <2>1, <2>4, Sizes
<1> QED
  BY <1>1, <1>7, <1>8, <1>9, <1>10, <1>11 DEF WriteBackup
LEMMA Flash64Game ==
  ASSUME Flash64Inv, IsFlash64(Library[cart]), GameNext
  PROVE  Flash64Inv'
<1> DEFINE NeverSwitches(s) == \A i \in 1 .. Len(s) : ~Sends(s[i], \hB0)
<1>0. Command \/ ReadBackup \/ WriteBackup
  BY BusOnly DEF Flash64Inv
<1>1. CASE Command
  <2>1. script' \in Seq(Access) /\ NeverSwitches(script') /\ UnlocksFirst(script')
    BY <1>1 DEF Command, IsFlash64, Flash64Script
  <2>2. UNCHANGED <<chip, user, data, file_size, backup_update>>
    BY <1>1 DEF Command
  <2>3. UNCHANGED <<backup_type, sram_size, flash, BackupSize>>
    BY <2>2 DEF chip, flash, eeprom, BackupSize
  <2>4. Holds(KB64)'
    BY <2>2, <2>3, QuietHolds, Sizes DEF Flash64Inv, Holds
  <2>5. UnlocksFirst(script)'
    BY <2>1 DEF UnlocksFirst
  <2> QED
    BY <2>1, <2>3, <2>4, <2>5 DEF Flash64Inv, Untyped, flash
<1>2. ASSUME script # <<>>, script' = Tail(script)
      PROVE  script' \in Seq(Access) /\ NeverSwitches(script')
  <2>1. \A i \in 1 .. Len(script') : i + 1 \in 1 .. Len(script) /\ script'[i] = script[i + 1]
    BY <1>2, ScriptGoesOn DEF Flash64Inv
  <2> QED
    BY <1>2, <2>1, ScriptGoesOn DEF Flash64Inv
<1>3. CASE ReadBackup
  <2>1. script' \in Seq(Access) /\ NeverSwitches(script')
    BY <1>2, <1>3 DEF ReadBackup, Issue
  <2>2. UNCHANGED <<sram_size, flash, user, data, file_size, backup_update>>
    BY <1>3 DEF ReadBackup
  <2>3. backup_type' = Touched
    BY <1>3 DEF ReadBackup
  <2>4. (backup_type = "flash" /\ backup_type' = "flash") \/ (Untyped /\ Untyped')
    BY <1>3, <2>3, UntypedReads DEF Flash64Inv, Touched
  <2>5. Holds(KB64)'
    BY <2>2, <2>4, QuietHolds, Sizes DEF Flash64Inv, Untyped, BackupSize, flash
  <2> QED
    BY <2>1, <2>2, <2>4, <2>5 DEF Flash64Inv, flash
<1>4. CASE WriteBackup
  <2>1. script' \in Seq(Access) /\ NeverSwitches(script')
    BY <1>2, <1>4 DEF WriteBackup, Issue
  <2>2. ~Sends(script[1], \hB0)
    BY <1>4, Accessed DEF Flash64Inv, WriteBackup, Issue
  <2>3. CASE backup_type = "flash"
    <3>1. /\ Holds(KB64)' /\ backup_type' = "flash" /\ flash_size' = KB64
          /\ UNCHANGED sram_size /\ flash_bank_ptr' = 0 /\ flash_mode' # "bankswitch"
      BY <1>4, <2>2, <2>3, FlashWrites, Sizes DEF Flash64Inv
    <3> QED
      BY <2>1, <3>1 DEF Flash64Inv
  <2>4. CASE Untyped
    <3>1. /\ backup_type' = "flash"
          /\ UNCHANGED <<flash_size, flash_mode, flash_bank_ptr, sram_size>>
          /\ UNCHANGED <<user, data, file_size, backup_update>>
      BY <1>4, <2>4, UntypedWrites DEF Flash64Inv
    <3>2. Holds(KB64)'
      BY <3>1, QuietHolds, Sizes DEF Flash64Inv, BackupSize
    <3> QED
      BY <2>1, <3>1, <3>2 DEF Flash64Inv
  <2> QED
    BY <2>3, <2>4 DEF Flash64Inv
<1> QED
  BY <1>0, <1>1, <1>3, <1>4

LEMMA Flash64Step ==
  ASSUME Flash64Inv, IsFlash64(Library[cart]), [Next]_vars
  PROVE  Flash64Inv'
<1>1. CASE GameNext
  BY <1>1, Flash64Game
<1>2. CASE ~GameNext
  <2>1. Holds(KB64)'
    BY <1>2, RestHolds, Sizes DEF Flash64Inv
  <2>2. CASE UNCHANGED <<script, chip>>
    BY <2>1, <2>2 DEF Flash64Inv, chip, flash, Untyped, UnlocksFirst
  <2>3. CASE script' = <<>> /\ ResetChip
    BY <2>1, <2>3, Sizes DEF Flash64Inv, ResetChip, Untyped, UnlocksFirst
  <2> QED
    BY <1>2, <2>2, <2>3, RestHolds, Sizes DEF Flash64Inv
<1> QED
  BY <1>1, <1>2

(* A chip of 128KB that passes for one of 64KB: what it is sent on the way  *)
(* to the switch of banks neither erases nor programs anything.             *)
LEMMA SmallWrites ==
  ASSUME script \in Seq(Access), WriteBackup, Small,
         backup_type = "flash" \/ (flash_command_position = 0 /\ Sends(script[1], \hAA))
  PROVE  /\ backup_type' = "flash"
         /\ flash_size' = KB128 \/ Small'
         /\ UNCHANGED <<sram_size, user, data, file_size, backup_update>>
         /\ flash_bank_ptr \in {0, KB64} => flash_bank_ptr' \in {0, KB64}
<1> DEFINE address == script[1][2]
           value == script[1][3]
<1>1. /\ script # <<>> /\ Head(script) = script[1] /\ script[1][1] = "write"
      /\ script' = Tail(script) /\ UNCHANGED <<user, file_size>>
  BY Accessed DEF WriteBackup, Issue
<1>2. /\ address \in Nat /\ value \in Nat
      /\ \/ Touched = "flash"
         \/ flash_command_position = 0 /\ address = \h5555 /\ value = \hAA
  BY <1>1, Accessed DEF Touched, Sends, Writes
<1>3. /\ Len(script) \in Nat /\ Len(script) > 0 /\ Len(script') = Len(script) - 1
      /\ Len(script) > 1 => script'[1] = script[2]
      /\ Len(script) > 2 => script'[2] = script[3]
  BY <1>1, ScriptGoesOn
<1>4. Detects(script) => Detects(script)'
  <2>1. Detects(script) => Detects(Tail(script))
    BY <1>1, DetectsGoesOn
  <2> QED
    BY <1>1, <2>1 DEF Detects
<1>5. flash_size = KB64 /\ flash_mode \notin {"write", "erase"}
  BY DEF Small
<1>6. ASSUME Write5555(value), ~(flash_command_position = 2 /\ value = \hB0)
      PROVE  flash_size' = KB64
  BY <1>5, <1>6 DEF Write5555, SizeAfter
<1>7. ASSUME Write5555(value)
      PROVE  /\ backup_type' = "flash"
             /\ UNCHANGED <<sram_size, flash_bank_ptr, data, backup_update>>
  <2>1. Dirty({}) /\ backup_type' = "flash"
        /\ UNCHANGED <<sram_size, flash_bank_ptr, backup_update>>
    <3> DEFINE first == flash_command_position = 0 /\ value = \hAA
               erases == flash_command_position = 2 /\ value = \h10 /\ flash_mode = "erase"
               kind == IF first THEN "flash" ELSE Touched
    <3>1. kind = "flash" /\ ~erases
      BY <1>2, <1>5
    <3>2. /\ backup_type' = kind /\ UNCHANGED <<sram_size, flash_bank_ptr>>
          /\ backup_update' = IF erases THEN write_backup_delay ELSE backup_update
          /\ Dirty((IF erases THEN Below(flash_size) ELSE {})
                   \cup (IF kind = "sram" THEN {\h5555} ELSE {}))
      BY <1>7 DEF Write5555
    <3>3. /\ (IF erases THEN Below(flash_size) ELSE {}) = {}
          /\ (IF kind = "sram" THEN {\h5555} ELSE {}) = {}
      BY <3>1
    <3> HIDE DEF erases, kind
    <3> QED
      BY <3>1, <3>2, <3>3
  <2> QED
    BY <2>1 DEF Dirty, data
<1>8. CASE flash_command_position = 0 /\ address = \h5555
  <2>1. Write5555(value)
    BY <1>1, <1>5, <1>8 DEF WriteBackup
  <2>2. /\ flash_command_position' = IF value = \hAA THEN 1 ELSE 0
        /\ flash_mode' = flash_mode
    BY <1>8, <2>1 DEF Write5555, PositionAfter
  <2>3. flash_size' = KB64
    BY <1>6, <1>8, <2>1
  <2>4. SwitchesFirst(script) \/ Detects(script)
    BY <1>8 DEF Small
  <2>5. CASE value = \hAA
    <3>1. Sends(script[1], \hAA)
      BY <1>1, <1>8, <2>5 DEF Sends, Writes
    <3>2. CASE SwitchesFirst(script)
      <4>1. Len(script') > 1 /\ SendsSecond(script'[1]) /\ Sends(script'[2], \hB0)
        BY <1>3, <3>2 DEF SwitchesFirst
      <4>2. Writes(script'[2], \h5555)
        BY <4>1 DEF Sends
      <4> QED
        BY <1>1, <1>5, <1>7, <2>1, <2>2, <2>3, <2>5, <4>1, <4>2
           DEF Small, SendsSecond, Sends, Writes
    <3>3. CASE Detects(script)
      <4>1. 1 \in 1 .. Len(script)
        BY <1>3
      <4>2. 3 <= Len(script) /\ SendsSecond(script[2]) /\ Writes(script[3], \h5555)
        BY <3>1, <3>3, <4>1 DEF Detects
      <4>3. Len(script') > 1 /\ SendsSecond(script'[1]) /\ Writes(script'[2], \h5555)
        BY <1>3, <4>2
      <4>4. Detects(script)'
        BY <1>4, <3>3
      <4> QED
        BY <1>1, <1>5, <1>7, <2>1, <2>2, <2>3, <2>5, <4>3, <4>4
           DEF Small, SendsSecond, Writes
    <3> QED
      BY <2>4, <3>2, <3>3
  <2>6. CASE value # \hAA
    <3>1. ~SwitchesFirst(script)
      BY <2>6 DEF SwitchesFirst, Sends
    <3>2. Detects(script)'
      BY <1>4, <2>4, <3>1
    <3> QED
      BY <1>1, <1>5, <1>7, <2>1, <2>2, <2>3, <2>6, <3>2 DEF Small
  <2> QED
    BY <2>5, <2>6
<1>9. CASE flash_command_position = 0 /\ address # \h5555
  <2>1. (SwitchBank(value) /\ flash_mode = "bankswitch") \/ WriteSram(address)
    BY <1>1, <1>5, <1>9 DEF WriteBackup
  <2>2. /\ backup_type' = "flash"
        /\ UNCHANGED <<sram_size, flash_size, flash_command_position, data, backup_update>>
        /\ flash_mode' \in {"base", flash_mode}
    BY <1>2, <1>9, <2>1 DEF SwitchBank, WriteSram, flash
  <2>3. flash_bank_ptr \in {0, KB64} => flash_bank_ptr' \in {0, KB64}
    <3>1. value % 2 = 0 \/ value % 2 = 1
      BY <1>2
    <3>2. flash_bank_ptr' = flash_bank_ptr \/ flash_bank_ptr' = (value % 2) * KB64
      BY <2>1 DEF SwitchBank, WriteSram, flash
    <3> QED
      BY <3>1, <3>2 DEF KB64
  <2>4. ~SwitchesFirst(script)
    BY <1>9 DEF SwitchesFirst, Sends, Writes
  <2>5. Detects(script)'
    BY <1>4, <1>9, <2>4 DEF Small
  <2> QED
    BY <1>1, <1>5, <1>9, <2>2, <2>3, <2>5 DEF Small
<1>10. CASE flash_command_position = 1
  <2>1. /\ Len(script) > 1 /\ SendsSecond(script[1]) /\ Writes(script[2], \h5555)
        /\ Sends(script[2], \hB0) \/ Detects(script)
    BY <1>10 DEF Small
  <2>2. address = \h2AAA /\ value = \h55
    BY <2>1 DEF SendsSecond, Writes
  <2>3. SecondUnlock
    BY <1>1, <1>10, <2>2 DEF WriteBackup
  <2>4. /\ backup_type' = "flash" /\ flash_command_position' = 2
        /\ UNCHANGED <<sram_size, flash_size, flash_mode, flash_bank_ptr, data, backup_update>>
    BY <1>2, <1>10, <2>3 DEF SecondUnlock
  <2>5. Len(script') > 0 /\ Writes(script'[1], \h5555)
    BY <1>3, <2>1
  <2>6. Sends(script'[1], \hB0) \/ Detects(script)'
    BY <1>3, <1>4, <2>1
  <2> QED
    BY <1>1, <1>5, <2>4, <2>5, <2>6 DEF Small, Sends, Writes
<1>11. CASE flash_command_position = 2
  <2>1. Writes(script[1], \h5555) /\ (Sends(script[1], \hB0) \/ Detects(script))
    BY <1>11 DEF Small
  <2>2. address = \h5555
    BY <2>1 DEF Writes
  <2>3. Write5555(value)
    BY <1>1, <1>5, <2>2 DEF WriteBackup
  <2>4. flash_command_position' = 0 /\ flash_mode' = CommandMode(value)
    BY <1>11, <2>3 DEF Write5555, PositionAfter
  <2>5. CASE value = \hB0
    <3>1. flash_size' = KB128
      BY <1>11, <2>3, <2>5 DEF Write5555, SizeAfter
    <3> QED
      BY <1>1, <1>7, <2>3, <3>1
  <2>6. CASE value # \hB0
    <3>1. Detects(script) /\ 1 \in 1 .. Len(script)
      BY <1>3, <2>1, <2>6 DEF Sends
    <3>2. value # \h80 /\ value # \hA0
      BY <1>1, <2>2, <3>1 DEF Detects, Sends, Writes
    <3>3. CommandMode(value) \notin {"write", "erase"}
      BY <1>5, <3>2 DEF CommandMode
    <3>4. flash_size' = KB64
      BY <1>6, <2>3, <2>6
    <3> QED
      BY <1>1, <1>4, <1>7, <2>3, <2>4, <3>1, <3>3, <3>4 DEF Small
  <2> QED
    BY <2>5, <2>6
<1> QED
  BY <1>8, <1>9, <1>10, <1>11 DEF Small

LEMMA Flash128Game ==
  ASSUME Flash128Inv, IsFlash128(Library[cart]), GameNext
  PROVE  Flash128Inv'
<1>0. Command \/ ReadBackup \/ WriteBackup
  BY BusOnly DEF Flash128Inv
<1>1. CASE Command
  <2>1. /\ script' \in Seq(Access) /\ UnlocksFirst(script')
        /\ SwitchesFirst(script') \/ Detects(script')
    BY <1>1 DEF Command, IsFlash128, Flash128Script
  <2>2. UNCHANGED <<chip, user, data, file_size, backup_update>> /\ script = <<>>
    BY <1>1 DEF Command
  <2>3. UNCHANGED <<backup_type, sram_size, flash, BackupSize>>
    BY <2>2 DEF chip, flash, eeprom, BackupSize
  <2>4. Holds(KB128)'
    BY <2>2, <2>3, QuietHolds, Sizes DEF Flash128Inv, Holds
  <2>5. UnlocksFirst(script)' /\ (SwitchesFirst(script)' \/ Detects(script)')
    BY <2>1 DEF UnlocksFirst, SwitchesFirst, Detects
  <2>6. Len(script) = 0
    BY <2>2
  <2>7. Small => flash_command_position = 0
    BY <2>6 DEF Small
  <2>8. Small => Small'
    BY <2>3, <2>5, <2>7 DEF Small, flash
  <2> QED
    BY <2>1, <2>3, <2>4, <2>5, <2>8 DEF Flash128Inv, Untyped, flash
<1>2. CASE ReadBackup
  <2>1. script # <<>> /\ script' = Tail(script) /\ script[1][1] = "read"
    BY <1>2, Accessed DEF ReadBackup, Issue, Flash128Inv
  <2>2. script' \in Seq(Access)
    BY <2>1, ScriptGoesOn DEF Flash128Inv
  <2>3. UNCHANGED <<sram_size, flash, user, data, file_size, backup_update>>
        /\ backup_type' = Touched
    BY <1>2 DEF ReadBackup
  <2>4. (backup_type = "flash" /\ backup_type' = "flash") \/ (Untyped /\ Untyped')
    BY <1>2, <2>3, UntypedReads DEF Flash128Inv, Touched
  <2>5. Holds(KB128)'
    <3>1. CASE backup_type = "flash"
      BY <2>3, <2>4, <3>1, QuietHolds, Sizes DEF Flash128Inv, Untyped, BackupSize, flash, Small
    <3>2. CASE Untyped
      <4>1. BackupSize' \in {0, KB32, flash_size} /\ BackupSize' <= KB128
        BY <2>3, <2>4, <3>2, Sizes DEF BackupSize, Flash128Inv, Small, flash, Untyped
      <4>2. BackupSize \in {0, KB32}
        BY <3>2 DEF BackupSize, Flash128Inv, Untyped
      <4> QED
        BY <2>3, <2>4, <3>2, <4>1, <4>2, QuietHolds, Sizes DEF Flash128Inv, Small
    <3> QED
      BY <2>4, <3>1, <3>2
  <2>6. Small => Small'
    <3> SUFFICES ASSUME Small PROVE Small'
      OBVIOUS
    <3>1. ~Sends(script[1], \hAA) /\ ~Writes(script[1], \h5555) /\ ~SendsSecond(script[1])
      BY <2>1 DEF Sends, Writes, SendsSecond
    <3>2. Detects(script) /\ flash_command_position = 0
      BY <3>1 DEF Small, SwitchesFirst
    <3>3. Detects(Tail(script))
      BY <2>1, <3>2, DetectsGoesOn DEF Flash128Inv
    <3>4. Detects(script)'
      BY <2>1, <3>3 DEF Detects
    <3> QED
      BY <2>3, <3>2, <3>4 DEF Small, flash
  <2> QED
    BY <2>2, <2>3, <2>4, <2>5, <2>6 DEF Flash128Inv, flash
<1>3. CASE WriteBackup
  <2>1. script # <<>> /\ script' \in Seq(Access)
    BY <1>3, ScriptGoesOn DEF WriteBackup, Issue, Flash128Inv
  <2>2. CASE backup_type = "flash" /\ flash_size = KB128
    <3>1. /\ Holds(KB128)' /\ backup_type' = "flash" /\ flash_size' = KB128
          /\ UNCHANGED sram_size /\ flash_bank_ptr' \in {0, KB64}
      BY <1>3, <2>2, FlashWrites, Sizes DEF Flash128Inv
    <3> QED
      BY <2>1, <3>1 DEF Flash128Inv
  <2>3. CASE Small
    <3>1. backup_type = "flash" \/ (flash_command_position = 0 /\ Sends(script[1], \hAA))
      BY <1>3, UntypedWrites DEF Flash128Inv, Untyped
    <3>2. /\ backup_type' = "flash"
          /\ flash_size' = KB128 \/ Small'
          /\ UNCHANGED <<sram_size, user, data, file_size, backup_update>>
          /\ flash_bank_ptr' \in {0, KB64}
      BY <1>3, <2>3, <3>1, SmallWrites DEF Flash128Inv
    <3>3. BackupSize' \in {KB64, KB128} /\ BackupSize # KB128
      BY <2>3, <3>2, Sizes DEF BackupSize, Small, Flash128Inv, Untyped
    <3>4. Holds(KB128)'
      BY <3>2, <3>3, QuietHolds, Sizes DEF Flash128Inv
    <3> QED
      BY <2>1, <3>2, <3>4 DEF Flash128Inv
  <2>4. CASE Untyped /\ flash_size = KB128
    <3>1. /\ backup_type' = "flash"
          /\ UNCHANGED <<flash_size, flash_mode, flash_bank_ptr, sram_size>>
          /\ UNCHANGED <<user, data, file_size, backup_update>>
      BY <1>3, <2>4, UntypedWrites DEF Flash128Inv
    <3>2. Holds(KB128)'
      BY <2>4, <3>1, QuietHolds, Sizes DEF Flash128Inv, BackupSize
    <3> QED
      BY <2>1, <2>4, <3>1, <3>2 DEF Flash128Inv
  <2> QED
    BY <2>2, <2>3, <2>4 DEF Flash128Inv
<1> QED
  BY <1>0, <1>1, <1>2, <1>3

LEMMA Flash128Step ==
  ASSUME Flash128Inv, IsFlash128(Library[cart]), [Next]_vars
  PROVE  Flash128Inv'
<1>1. CASE GameNext
  BY <1>1, Flash128Game
<1>2. CASE ~GameNext
  <2>1. Holds(KB128)'
    BY <1>2, RestHolds, Sizes DEF Flash128Inv
  <2>2. CASE UNCHANGED <<script, chip>>
    <3>1. UNCHANGED <<script, backup_type, sram_size, flash_size, flash_mode,
                      flash_command_position, flash_bank_ptr>>
      BY <2>2 DEF chip, flash
    <3>2. (Untyped => Untyped') /\ (Small => Small')
      BY <3>1 DEF Untyped, Small, UnlocksFirst, SwitchesFirst, Detects
    <3> QED
      BY <2>1, <3>1, <3>2 DEF Flash128Inv
  <2>3. CASE script' = <<>> /\ ResetChip
    <3>1. Untyped' /\ Detects(script)'
      BY <2>3 DEF Untyped, ResetChip, UnlocksFirst, Detects
    <3>2. Small'
      BY <2>3, <3>1 DEF Small, ResetChip
    <3> QED
      BY <2>1, <2>3, <3>1, <3>2 DEF Flash128Inv, ResetChip
  <2> QED
    BY <1>2, <2>2, <2>3, RestHolds, Sizes DEF Flash128Inv
<1> QED
  BY <1>1, <1>2

-------------------------------------------------------------------------------
(* Whatever its library does, a game with SRAM or flash is one of these.    *)
KnownGame ==
  IsSram(Library[cart]) \/ IsFlash64(Library[cart]) \/ IsFlash128(Library[cart])

CoverInv ==
  /\ IsSram(Library[cart]) => SramInv
  /\ IsFlash64(Library[cart]) => Flash64Inv
  /\ IsFlash128(Library[cart]) => Flash128Inv

LEMMA CartStays == [Next]_vars => cart' = cart
<1> SUFFICES ASSUME [Next]_vars PROVE cart' = cart
  OBVIOUS
<1>1. CASE GameNext
  <2>1. CASE Command \/ ReadBackup \/ TriggerDma \/ ReadEeprom
    BY <2>1 DEF Command, ReadBackup, TriggerDma, ReadEeprom, user
  <2>2. CASE WriteBackup
    BY <2>2 DEF WriteBackup, user
  <2>3. CASE WriteEeprom
    BY <2>3 DEF WriteEeprom, user
  <2> QED
    BY <1>1, <2>1, <2>2, <2>3 DEF GameNext
<1>2. CASE Frame \/ \E outcome \in Outcomes : FrameSaves(outcome)
  BY <1>2 DEF Frame, FrameSaves, user
<1>3. CASE UserNext
  BY <1>3 DEF UserNext, Quit, PowerOff, LoadGamepak, Restart, ToggleUpdateFlag
<1>4. CASE UNCHANGED vars
  BY <1>4 DEF vars, user
<1> QED
  BY <1>1, <1>2, <1>3, <1>4 DEF Next

LEMMA QuitsOnly ==
  ASSUME [Next]_vars, running = "on", running' = "exited"
  PROVE  \E outcome \in Outcomes : Quit(outcome)
<1>1. CASE GameNext
  <2>1. CASE Command \/ ReadBackup \/ TriggerDma \/ ReadEeprom
    BY <2>1 DEF Command, ReadBackup, TriggerDma, ReadEeprom, user
  <2>2. CASE WriteBackup
    BY <2>2 DEF WriteBackup, user
  <2>3. CASE WriteEeprom
    BY <2>3 DEF WriteEeprom, user
  <2> QED
    BY <1>1, <2>1, <2>2, <2>3 DEF GameNext
<1>2. CASE Frame \/ \E outcome \in Outcomes : FrameSaves(outcome)
  BY <1>2 DEF Frame, FrameSaves, user
<1>3. CASE UserNext
  BY <1>3 DEF UserNext, PowerOff, LoadGamepak, Restart, ToggleUpdateFlag
<1>4. CASE UNCHANGED vars
  BY <1>4 DEF vars, user
<1> QED
  BY <1>1, <1>2, <1>3, <1>4 DEF Next

LEMMA HoldsCovers ==
  ASSUME NEW size \in Nat, Holds(size) PROVE CoveredBySave
BY DEF Holds, CoveredBySave

LEMMA CoverHolds == Spec => []CoverInv
<1>1. Init => CoverInv
  <2> SUFFICES ASSUME Init PROVE CoverInv
    OBVIOUS
  <2>1. \A size \in Nat : Holds(size)
    BY DEF Init, Holds
  <2>2. script \in Seq(Access) /\ SramScript(script) /\ Untyped /\ Detects(script)
    BY DEF Init, SramScript, Untyped, UnlocksFirst, Detects
  <2>3. Small
    BY <2>2 DEF Init, Small
  <2> QED
    BY <2>1, <2>2, <2>3, Sizes DEF Init, CoverInv, SramInv, Flash64Inv, Flash128Inv
<1>2. CoverInv /\ [Next]_vars => CoverInv'
  <2> SUFFICES ASSUME CoverInv, [Next]_vars PROVE CoverInv'
    OBVIOUS
  <2>1. cart' = cart
    BY CartStays
  <2>2. IsSram(Library[cart])' <=> IsSram(Library[cart])
    BY <2>1 DEF IsSram, SramScript
  <2>3. IsFlash64(Library[cart])' <=> IsFlash64(Library[cart])
    BY <2>1 DEF IsFlash64
  <2>4. IsFlash128(Library[cart])' <=> IsFlash128(Library[cart])
    BY <2>1 DEF IsFlash128
  <2> QED
    BY <2>2, <2>3, <2>4, SramStep, Flash64Step, Flash128Step DEF CoverInv
<1> QED
  BY <1>1, <1>2, PTL DEF Spec

LEMMA KnownHolds ==
  ASSUME CoverInv, KnownGame
  PROVE  \E size \in Nat : size > 0 /\ Holds(size)
BY Sizes DEF CoverInv, KnownGame, SramInv, Flash64Inv, Flash128Inv

(* The next save reaches every cell the game has written since the last     *)
(* restart or load and that waits for one: for every set of addresses, all  *)
(* delays and storage failures, with quits, loads and restarts at any time, *)
(* for every game with SRAM or flash whose commands are of the kind         *)
(* cartridge libraries issue, in any order.                                 *)
THEOREM SavesCover == Spec => [](KnownGame => CoveredBySave)
<1>1. CoverInv => (KnownGame => CoveredBySave)
  BY KnownHolds, HoldsCovers
<1> QED
  BY <1>1, CoverHolds, PTL

(* quit() in Exit only mode, where it is the only save there is: the size   *)
(* detected by then is the right one.                                       *)
LEMMA QuitStep ==
  ASSUME CoverInv, KnownGame, [Next]_vars, running = "on", running' = "exited",
         ~update_backup_flag
  PROVE  NewUnsaved' = {} \/ backup_failure_reported'
<1>1. PICK size \in Nat : size > 0 /\ Holds(size)
  BY KnownHolds
<1>2. PICK outcome \in Outcomes : Quit(outcome)
  BY QuitsOnly
<1>3. UNCHANGED <<used, written>>
  BY <1>2 DEF Quit
<1>4. CASE written = {}
  BY <1>3, <1>4 DEF NewUnsaved
<1>5. CASE written # {}
  <2>1. BackupSize = size /\ written \subseteq used \cap Below(size)
    BY <1>1, <1>5 DEF Holds
  <2>2. backup_type # "none"
    BY <1>1, <2>1 DEF BackupSize
  <2>3. SaveBackup(outcome) /\ backup_failure_reported' = (outcome # "ok")
    BY <1>2, <2>2 DEF Quit, QuitSaves
  <2>4. CASE outcome = "ok"
    <3>1. saved' = used \cap Below(size)
      BY <2>1, <2>2, <2>3, <2>4 DEF SaveBackup
    <3> QED
      BY <1>3, <2>1, <3>1 DEF NewUnsaved
  <2>5. CASE outcome # "ok"
    BY <2>3, <2>5
  <2> QED
    BY <2>4, <2>5
<1> QED
  BY <1>4, <1>5

(* A game with SRAM or flash loses nothing it wrote since the last restart  *)
(* or load to quitting in Exit only mode without a notice, whatever it, the *)
(* user and the storage device do before.                                   *)
THEOREM QuitKeepsOrTells == Spec /\ KnownGame => QuitSavesOrTells
<1>1. KnownGame /\ [Next]_vars => KnownGame'
  BY CartStays DEF KnownGame, IsSram, IsFlash64, IsFlash128
<1>2. CoverInv /\ KnownGame /\ [Next]_vars
      => [running = "on" /\ running' = "exited" /\ ~update_backup_flag
          => NewUnsaved' = {} \/ backup_failure_reported']_vars
  BY QuitStep
<1> QED
  BY <1>1, <1>2, CoverHolds, PTL DEF Spec, QuitSavesOrTells
=============================================================================
