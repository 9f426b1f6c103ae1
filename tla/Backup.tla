--------------------------------- MODULE Backup ---------------------------------
(***************************************************************************)
(* Cartridge backup (memory.c): the SRAM / flash / EEPROM register          *)
(* protocols that change gamepak_backup, the countdown that delays writing  *)
(* it out, and the .sav file on a storage device that may refuse a write.   *)
(*                                                                         *)
(* Addresses and register values are the code's.  What a cell holds is     *)
(* abstracted to whether it holds game data at all (used) and whether the   *)
(* file holds the same (saved).  The game is external: it issues commands,  *)
(* each a script of bus accesses, and frames come between the accesses      *)
(* except inside an EEPROM DMA, which the emulator runs in one call.        *)
(***************************************************************************)
EXTENDS Naturals, Sequences, FiniteSets, FiniteSetsExt

CONSTANTS
  Library,             (* for each kind of cartridge, its command scripts   *)
  Addresses,           (* the bus offsets and EEPROM blocks that occur      *)
  DataBits,            (* bits of an EEPROM block (64 in the code)          *)
  write_backup_delay,  (* quiet frames before the file is written (10)      *)
  RetryFrames,         (* frames between two attempts after a failure (300) *)
  Outcomes,            (* what the storage may do: ok, open, short, close   *)
  MaxLoads             (* bound on restarts and game loads (TLC)            *)

VARIABLES
  cart,                     (* the kind of cartridge                        *)
  running,                  (* on, exited (quit) or off (power lost)        *)
  script,                   (* accesses the game has yet to issue           *)
  backup_type, sram_size, flash_size,
  flash_mode, flash_command_position, flash_bank_ptr,
  eeprom_size, eeprom_mode, eeprom_address_length, eeprom_address,
  eeprom_counter, eeprom_buffer,
  used,                     (* offsets of gamepak_backup with game data     *)
  saved,                    (* those whose data the .sav file holds too     *)
  written,                  (* those the game wrote since the last load or  *)
                            (* restart.  History: only the properties read  *)
                            (* it.                                          *)
  file_size,                (* bytes of the .sav file, 0 when there is none *)
  backup_update, backup_retry_frames, backup_failure_reported,
  update_backup_flag,       (* the menu's Automatic (TRUE) / Exit only      *)
  notices,                  (* failures announced since the last success    *)
  loads                     (* restarts and game loads so far               *)

flash  == <<flash_size, flash_mode, flash_command_position, flash_bank_ptr>>
eeprom == <<eeprom_size, eeprom_mode, eeprom_address_length, eeprom_address,
            eeprom_counter, eeprom_buffer>>
chip   == <<backup_type, sram_size, flash, eeprom>>
data   == <<used, saved, written>>
timers == <<backup_retry_frames, backup_failure_reported, notices>>
user   == <<cart, running, update_backup_flag, loads>>
vars   == <<user, script, chip, data, file_size, backup_update, timers>>

KB32 == \h8000
KB64 == \h10000
KB128 == \h20000
BYTE512 == \h200
KBYTE8 == \h2000

(* backup_update when nothing waits to be written. *)
Idle == write_backup_delay + 1

(* The offsets in gamepak_backup that occur, both flash banks. *)
Cells == Addresses \cup {a + KB64 : a \in Addresses}
Below(size) == {c \in Cells : c < size}

ASSUME BackupAssumption ==
  /\ Addresses \subseteq 0 .. KB64 - 1
  /\ write_backup_delay \in Nat \ {0}
  /\ RetryFrames \in Nat \ {0}
  /\ DataBits \in Nat \ {0}
  /\ MaxLoads \in Nat
  /\ "ok" \in Outcomes /\ Outcomes \subseteq {"ok", "open", "short", "close"}

(* init_memory's part in the backup; eeprom_buffer and                      *)
(* eeprom_address_length are left alone.                                    *)
ResetChip ==
  /\ backup_type' = "none"
  /\ sram_size' = KB32
  /\ flash_size' = KB64 /\ flash_mode' = "base"
  /\ flash_command_position' = 0 /\ flash_bank_ptr' = 0
  /\ eeprom_size' = BYTE512 /\ eeprom_mode' = "base"
  /\ eeprom_address' = 0 /\ eeprom_counter' = 0
  /\ UNCHANGED <<eeprom_buffer, eeprom_address_length>>

Init ==
  /\ cart \in DOMAIN Library
  /\ running = "on" /\ script = <<>>
  /\ backup_type = "none" /\ sram_size = KB32
  /\ flash_size = KB64 /\ flash_mode = "base"
  /\ flash_command_position = 0 /\ flash_bank_ptr = 0
  /\ eeprom_size = BYTE512 /\ eeprom_mode = "base"
  /\ eeprom_address_length = 0 /\ eeprom_address = 0
  /\ eeprom_counter = 0 /\ eeprom_buffer = {}
  /\ used = {} /\ saved = {} /\ written = {} /\ file_size = 0
  /\ backup_update = Idle /\ backup_retry_frames = 0
  /\ backup_failure_reported = FALSE
  /\ update_backup_flag \in BOOLEAN
  /\ notices = 0 /\ loads = 0

-------------------------------------------------------------------------------
(* The game. *)

(* The game starts its next command. *)
Command ==
  /\ running = "on" /\ script = <<>>
  /\ script' \in Library[cart]
  /\ UNCHANGED <<user, chip, data, file_size, backup_update, timers>>

Issue(kind) ==
  /\ running = "on" /\ script # <<>>
  /\ Head(script)[1] = kind
  /\ script' = Tail(script)

(* The words of an EEPROM command go through one immediate DMA. *)
InDma == script # <<>> /\ Head(script)[1] \in {"eeprom write", "eeprom read"}

(* These cells get new contents, which the file does not hold. *)
Dirty(cells) ==
  /\ used' = used \cup (cells \cap Cells)
  /\ saved' = saved \ cells
  /\ written' = written \cup (cells \cap Cells)

(* Any backup access makes a cartridge of unknown kind an SRAM one. *)
Touched == IF backup_type = "none" THEN "sram" ELSE backup_type

ReadBackup ==
  /\ Issue("read")
  /\ backup_type' = Touched
  /\ UNCHANGED <<user, sram_size, flash, eeprom, data, file_size,
                 backup_update, timers>>

(* The effect of a command byte on flash_mode, in the third write of the    *)
(* unlock sequence.                                                         *)
CommandMode(value) ==
  CASE flash_mode = "base" /\ value = \h90 -> "id"
    [] flash_mode = "base" /\ value = \h80 -> "erase"
    [] flash_mode = "base" /\ value = \hA0 -> "write"
    [] flash_mode = "base" /\ value = \hB0 -> "bankswitch"
    [] flash_mode = "id" /\ value = \hF0 -> "base"
    [] flash_mode = "erase" /\ value = \h10 -> "base"
    [] OTHER -> flash_mode

(* Mutant: a bank switch does not grow the chip.                            *)
NoGrowth(third, value) == flash_size

(* The bank switch command makes the chip officially 128KB.                 *)
SizeAfter(third, value) == IF third /\ value = \hB0 THEN KB128 ELSE flash_size

(* Mutant: a command byte does not end the unlock sequence.                 *)
PositionKept(first, third) == IF first THEN 1 ELSE flash_command_position

PositionAfter(first, third) ==
  IF first THEN 1 ELSE IF third THEN 0 ELSE flash_command_position

(* A write to 0x5555 outside write mode.  Only the chip erase arms the      *)
(* countdown; an SRAM cartridge's byte at 0x5555 is stored without it.      *)
Write5555(value) ==
  LET first  == flash_command_position = 0 /\ value = \hAA
      third  == flash_command_position = 2
      erase  == third /\ value = \h10 /\ flash_mode = "erase"
      kind   == IF first THEN "flash" ELSE Touched
  IN /\ backup_type' = kind
     /\ flash_command_position' = PositionAfter(first, third)
     /\ flash_mode' = IF third THEN CommandMode(value) ELSE flash_mode
     /\ flash_size' = SizeAfter(third, value)
     /\ backup_update' = IF erase THEN write_backup_delay ELSE backup_update
     /\ Dirty((IF erase THEN Below(flash_size) ELSE {})
              \cup (IF kind = "sram" THEN {\h5555} ELSE {}))
     /\ UNCHANGED <<sram_size, flash_bank_ptr>>

(* 0x55 at 0x2AAA: the second write of the unlock sequence. *)
SecondUnlock ==
  /\ flash_command_position' = 2
  /\ backup_type' = Touched
  /\ UNCHANGED <<sram_size, flash_size, flash_mode, flash_bank_ptr, data,
                 backup_update>>

EraseSector(address) ==
  /\ Dirty({c \in Cells : c \div \h1000
                          = (flash_bank_ptr + address) \div \h1000})
  /\ backup_update' = write_backup_delay
  /\ flash_mode' = "base" /\ flash_command_position' = 0
  /\ backup_type' = Touched
  /\ UNCHANGED <<sram_size, flash_size, flash_bank_ptr>>

SwitchBank(value) ==
  /\ flash_bank_ptr' = (value % 2) * KB64
  /\ flash_mode' = "base"
  /\ backup_type' = Touched
  /\ UNCHANGED <<sram_size, flash_size, flash_command_position, data,
                 backup_update>>

Program(address) ==
  /\ backup_update' = write_backup_delay
  /\ Dirty({flash_bank_ptr + address})
  /\ flash_mode' = "base"
  /\ backup_type' = Touched
  /\ UNCHANGED <<sram_size, flash_size, flash_command_position,
                 flash_bank_ptr>>

(* The last branch of write_backup: SRAM, or nothing at all for flash. *)
WriteSram(address) ==
  /\ backup_type' = Touched
  /\ IF Touched = "sram"
     THEN /\ backup_update' = write_backup_delay
          /\ sram_size' = IF address >= KB32 THEN KB64 ELSE sram_size
          /\ Dirty({address})
     ELSE UNCHANGED <<backup_update, sram_size, data>>
  /\ UNCHANGED flash

(* write_backup: which of the branches a byte written to 0x0E000000 takes.  *)
WriteBackup ==
  /\ Issue("write")
  /\ LET address == Head(script)[2]
         value   == Head(script)[3]
         command == address = \h5555 /\ flash_mode # "write"
         second  == address = \h2AAA /\ value = \h55
                    /\ flash_command_position = 1
         sector  == flash_command_position = 2 /\ flash_mode = "erase"
                    /\ value = \h30
         bank    == flash_command_position = 0 /\ flash_mode = "bankswitch"
                    /\ address = 0
         program == flash_command_position = 0 /\ flash_mode = "write"
     IN \/ command /\ Write5555(value)
        \/ ~command /\ second /\ SecondUnlock
        \/ ~command /\ ~second /\ sector /\ EraseSector(address)
        \/ ~command /\ ~second /\ bank /\ SwitchBank(value)
        \/ ~command /\ ~second /\ program /\ Program(address)
        \/ ~(command \/ second \/ sector \/ bank \/ program)
           /\ WriteSram(address)
  /\ UNCHANGED <<user, eeprom, file_size, timers>>

-------------------------------------------------------------------------------
(* EEPROM.  eeprom_buffer is the set of its bits that are 1, counted from   *)
(* the most significant bit of byte 0; the code only ever ORs bits in.      *)

(* trigger_dma: a DMA 3 to 0x0D000000 whose length says 14 address bits.    *)
TriggerDma ==
  /\ Issue("dma")
  /\ eeprom_size' = IF Head(script)[2] % 32 = 17 THEN KBYTE8 ELSE eeprom_size
  /\ UNCHANGED <<user, backup_type, sram_size, flash, eeprom_mode,
                 eeprom_address_length, eeprom_address, eeprom_counter,
                 eeprom_buffer, data, file_size, backup_update, timers>>

With(bit, position) == eeprom_buffer \cup (IF bit = 1 THEN {position} ELSE {})

(* The two bits that open a command. *)
HeaderBit(bit) ==
  LET buffer == With(bit, 6 + eeprom_counter)
  IN /\ eeprom_mode = "base"
     /\ backup_type' = "eeprom"
     /\ IF eeprom_counter + 1 < 2
        THEN /\ eeprom_counter' = eeprom_counter + 1
             /\ eeprom_buffer' = buffer
             /\ UNCHANGED <<eeprom_mode, eeprom_address_length>>
        ELSE /\ eeprom_counter' = 0
             /\ eeprom_buffer' = {}
             /\ eeprom_address_length' = IF eeprom_size = BYTE512 THEN 6 ELSE 14
             /\ eeprom_mode' = CASE buffer \cap {6, 7} = {6} -> "write address"
                                 [] buffer \cap {6, 7} = {6, 7} -> "address"
                                 [] OTHER -> "base"
     /\ UNCHANGED <<eeprom_size, eeprom_address, data, backup_update>>

(* The block address a full buffer spells, in bytes. *)
Decoded(buffer) ==
  LET last == IF eeprom_size = BYTE512 THEN 5 ELSE 13
      bits == {i \in buffer : i <= last}
  IN 8 * MapThenSumSet(LAMBDA i : 2 ^ (last - i), bits)

(* The last address bit of a write zeroes the block. *)
AddressBit(bit) ==
  LET buffer == With(bit, eeprom_counter)
  IN /\ eeprom_mode \in {"address", "write address"}
     /\ IF eeprom_counter + 1 # eeprom_address_length
        THEN /\ eeprom_counter' = eeprom_counter + 1
             /\ eeprom_buffer' = buffer
             /\ UNCHANGED <<eeprom_mode, eeprom_address, data>>
        ELSE /\ eeprom_counter' = 0
             /\ eeprom_buffer' = {}
             /\ eeprom_address' = Decoded(buffer)
             /\ IF eeprom_mode = "address"
                THEN eeprom_mode' = "address footer" /\ UNCHANGED data
                ELSE eeprom_mode' = "write" /\ Dirty({Decoded(buffer)})
     /\ UNCHANGED <<backup_type, eeprom_size, eeprom_address_length,
                    backup_update>>

LastBit == eeprom_counter + 1 = DataBits

DataBit ==
  /\ eeprom_mode = "write"
  /\ Dirty({eeprom_address})
  /\ eeprom_counter' = IF LastBit THEN 0 ELSE eeprom_counter + 1
  /\ eeprom_mode' = IF LastBit THEN "write footer" ELSE "write"
  /\ backup_update' = IF LastBit THEN write_backup_delay ELSE backup_update
  /\ UNCHANGED <<backup_type, eeprom_size, eeprom_address_length,
                 eeprom_address, eeprom_buffer>>

FooterBit ==
  /\ eeprom_mode \in {"address footer", "write footer"}
  /\ eeprom_counter' = 0
  /\ eeprom_mode' = IF eeprom_mode = "address footer" THEN "read header"
                    ELSE "base"
  /\ UNCHANGED <<backup_type, eeprom_size, eeprom_address_length,
                 eeprom_address, eeprom_buffer, data, backup_update>>

(* write_eeprom; while a block is being read a write changes nothing. *)
WriteEeprom ==
  /\ Issue("eeprom write")
  /\ \/ HeaderBit(Head(script)[2])
     \/ AddressBit(Head(script)[2])
     \/ DataBit
     \/ FooterBit
     \/ eeprom_mode \in {"read", "read header"}
        /\ UNCHANGED <<backup_type, eeprom, data, backup_update>>
  /\ UNCHANGED <<user, sram_size, flash, file_size, timers>>

(* read_eeprom: four header bits, then the block. *)
ReadEeprom ==
  /\ Issue("eeprom read")
  /\ LET length == IF eeprom_mode = "read" THEN DataBits ELSE 4
         done   == eeprom_counter + 1 = length
     IN IF eeprom_mode \in {"read", "read header"}
        THEN /\ eeprom_counter' = IF done THEN 0 ELSE eeprom_counter + 1
             /\ eeprom_mode' = CASE ~done -> eeprom_mode
                                 [] eeprom_mode = "read" -> "base"
                                 [] OTHER -> "read"
        ELSE UNCHANGED <<eeprom_counter, eeprom_mode>>
  /\ UNCHANGED <<user, backup_type, sram_size, flash, eeprom_size,
                 eeprom_address_length, eeprom_address, eeprom_buffer, data,
                 file_size, backup_update, timers>>

-------------------------------------------------------------------------------
(* The file. *)

(* What save_backup writes, from the start of gamepak_backup. *)
BackupSize == CASE backup_type = "sram" -> sram_size
                [] backup_type = "flash" -> flash_size
                [] backup_type = "eeprom" -> eeprom_size
                [] OTHER -> 0

(* save_backup opens the file for writing, which empties it, and fails if   *)
(* the write is short or the close reports an error.                        *)
SaveBackup(outcome) ==
  IF backup_type = "none" \/ outcome = "open"
  THEN UNCHANGED <<saved, file_size>>
  ELSE /\ file_size' = IF outcome = "short" THEN 0 ELSE BackupSize
       /\ saved' = IF outcome = "short" THEN {} ELSE used \cap Below(BackupSize)

(* The countdown reached zero and no retry is waiting. *)
Due == /\ update_backup_flag
       /\ backup_update \in {0, 1}
       /\ backup_retry_frames = 0

Announced == ~backup_failure_reported

(* Mutant: a failed save is forgotten like a successful one. *)
AfterFailureIdle == Idle
AfterFailure == 0

SaveDone ==
  /\ backup_update' = Idle
  /\ backup_failure_reported' = FALSE
  /\ notices' = 0
  /\ UNCHANGED backup_retry_frames

SaveFailed ==
  /\ backup_update' = AfterFailure
  /\ backup_retry_frames' = RetryFrames
  /\ backup_failure_reported' = TRUE
  /\ notices' = notices + (IF Announced THEN 1 ELSE 0)

(* update_backup, once per frame in automatic mode: count down. *)
Frame ==
  /\ running = "on" /\ ~InDma
  /\ update_backup_flag /\ backup_update # Idle /\ ~Due
  /\ backup_update' = IF backup_update > 0 THEN backup_update - 1 ELSE 0
  /\ backup_retry_frames' = IF backup_retry_frames > 0
                            THEN backup_retry_frames - 1 ELSE 0
  /\ UNCHANGED <<user, script, chip, data, file_size,
                 backup_failure_reported, notices>>

(* update_backup in the frame that writes the file. *)
FrameSaves(outcome) ==
  /\ running = "on" /\ ~InDma
  /\ Due
  /\ SaveBackup(outcome)
  /\ IF backup_type = "none" \/ outcome = "ok" THEN SaveDone ELSE SaveFailed
  /\ UNCHANGED <<user, script, chip, used, written>>

-------------------------------------------------------------------------------
(* The user. *)

(* Mutant: quit() saves in automatic mode instead of in Exit only.          *)
QuitSavesInverted == update_backup_flag /\ backup_type # "none"

QuitSaves == ~update_backup_flag /\ backup_type # "none"

(* quit(): update_backup_force unless saving is automatic. *)
Quit(outcome) ==
  /\ running = "on" /\ ~InDma
  /\ running' = "exited"
  /\ IF QuitSaves
     THEN /\ SaveBackup(outcome)
          /\ backup_update' = IF outcome = "ok" THEN Idle ELSE 0
          /\ backup_retry_frames' = IF outcome = "ok" THEN 0 ELSE RetryFrames
          /\ backup_failure_reported' = (outcome # "ok")
     ELSE UNCHANGED <<saved, file_size, backup_update, backup_retry_frames,
                      backup_failure_reported>>
  /\ UNCHANGED <<cart, script, update_backup_flag, loads, chip, used, written,
                 notices>>

PowerOff ==
  /\ running = "on"
  /\ running' = "off"
  /\ UNCHANGED <<cart, script, update_backup_flag, loads, chip, data,
                 file_size, backup_update, timers>>

(* load_gamepak (at start, from the menu) then init_memory.  load_backup    *)
(* guesses the kind and the size from the file; init_memory forgets both.   *)
(* A file that cannot be read leaves gamepak_backup blank.                  *)
LoadGamepak(readable) ==
  /\ ~(running = "on" /\ InDma) /\ loads < MaxLoads
  /\ running' = "on" /\ script' = <<>> /\ loads' = loads + 1
  /\ used' = IF readable THEN Below(file_size) ELSE {}
  /\ saved' = used' /\ written' = {}
  /\ backup_update' = Idle /\ backup_retry_frames' = 0
  /\ backup_failure_reported' = FALSE /\ notices' = 0
  /\ ResetChip
  /\ UNCHANGED <<cart, update_backup_flag, file_size>>

(* The menu's Restart: reset_gba, with gamepak_backup and the countdown left *)
(* as they are, whatever waits to be saved.                                *)
Restart ==
  /\ running = "on" /\ ~InDma /\ loads < MaxLoads
  /\ script' = <<>> /\ loads' = loads + 1
  /\ written' = {}
  /\ ResetChip
  /\ UNCHANGED <<cart, running, update_backup_flag, used, saved, file_size,
                 backup_update, timers>>

ToggleUpdateFlag ==
  /\ running = "on" /\ ~InDma
  /\ update_backup_flag' = ~update_backup_flag
  /\ UNCHANGED <<cart, running, loads, script, chip, data, file_size,
                 backup_update, timers>>

GameNext == \/ Command \/ ReadBackup \/ WriteBackup
            \/ TriggerDma \/ WriteEeprom \/ ReadEeprom

UserNext == \/ \E outcome \in Outcomes : Quit(outcome)
            \/ PowerOff
            \/ \E readable \in BOOLEAN : LoadGamepak(readable)
            \/ Restart
            \/ ToggleUpdateFlag

Next == GameNext \/ Frame \/ (\E outcome \in Outcomes : FrameSaves(outcome))
        \/ UserNext

Spec == Init /\ [][Next]_vars

(* Frames keep coming, a DMA runs to its end, and a storage device that is  *)
(* tried again and again takes a save at last.                              *)
Fairness ==
  /\ WF_vars(Frame)
  /\ WF_vars(\E outcome \in Outcomes : FrameSaves(outcome))
  /\ SF_vars(FrameSaves("ok"))
  /\ WF_vars(WriteEeprom)
  /\ WF_vars(ReadEeprom)

FairSpec == Spec /\ Fairness

-------------------------------------------------------------------------------
(* Game data the file lacks; an EEPROM block still being received is not    *)
(* game data yet.                                                           *)
Receiving == IF eeprom_mode = "write" THEN {eeprom_address} ELSE {}
Unsaved == (used \ saved) \ Receiving

(* What of it the game wrote since the last restart or load.                *)
NewUnsaved == (written \ saved) \ Receiving

(* The next save reaches all the game has written since the last restart or *)
(* load and that waits for one: backup_type and the size that write_backup  *)
(* and trigger_dma detected never lag behind the data.  Of older data       *)
(* nothing can be said: init_memory forgets kind and size with a save       *)
(* pending (PendingUntilSaved), and a 128KB cartridge's next save may be    *)
(* cut to 64KB, second bank and all.                                        *)
CoveredBySave == running = "on" => written \ saved \subseteq Below(BackupSize)

(* It takes games that talk to their chip the way cartridge libraries do:   *)
(* the kind and size are detected from the accesses, and forgotten at each  *)
(* restart and load.                                                        *)
Accesses == {"read", "write"}
BusOffsets == 0 .. KB64 - 1
Access == Accesses \X BusOffsets \X Nat
Writes(access, address) == access[1] = "write" /\ access[2] = address
Sends(access, value) == Writes(access, \h5555) /\ access[3] = value
SendsSecond(access) == Writes(access, \h2AAA) /\ access[3] = \h55

(* An SRAM game that keeps to 32KB and away from the flash command address. *)
SramScript(s) ==
  \A i \in 1 .. Len(s) : s[i][1] = "write" => s[i][2] < KB32 /\ s[i][2] # \h5555

(* A flash game writes nothing before it has begun to unlock the chip.      *)
UnlocksFirst(s) ==
  \A i \in 1 .. Len(s) : s[i][1] = "write" => \E j \in 1 .. i : Sends(s[j], \hAA)

(* One with 64KB never switches banks.                                      *)
Flash64Script(s) == UnlocksFirst(s) /\ \A i \in 1 .. Len(s) : ~Sends(s[i], \hB0)

(* One with 128KB switches banks first in each command, but for those that  *)
(* neither erase nor program and send whole unlock sequences.               *)
SwitchesFirst(s) == /\ Len(s) > 2
                    /\ Sends(s[1], \hAA) /\ SendsSecond(s[2]) /\ Sends(s[3], \hB0)
Detects(s) ==
  \A i \in 1 .. Len(s) :
    /\ ~Sends(s[i], \h80) /\ ~Sends(s[i], \hA0)
    /\ Sends(s[i], \hAA) =>
         /\ i + 2 <= Len(s) /\ SendsSecond(s[i + 1]) /\ Writes(s[i + 2], \h5555)
Flash128Script(s) == UnlocksFirst(s) /\ (SwitchesFirst(s) \/ Detects(s))

IsSram(scripts) == \A s \in scripts : s \in Seq(Access) /\ SramScript(s)
IsFlash64(scripts) == \A s \in scripts : s \in Seq(Access) /\ Flash64Script(s)
IsFlash128(scripts) == \A s \in scripts : s \in Seq(Access) /\ Flash128Script(s)

(* A byte sent in write mode is programmed: no half-received unlock         *)
(* sequence is pending when write_backup enters write mode, which would     *)
(* drop the byte.                                                           *)
NoDroppedProgram == flash_mode = "write" => flash_command_position = 0

(* README: one notification per failure episode, however many retries and   *)
(* new game writes the episode sees (update_backup).                        *)
OneNotice == notices <= 1

(* In Exit only mode quit() leaves all the game wrote since the last restart *)
(* or load in the file, or says that it could not (update_backup_force).    *)
QuitSavesOrTells ==
  [][running = "on" /\ running' = "exited" /\ ~update_backup_flag
     => NewUnsaved' = {} \/ backup_failure_reported']_vars

(* In automatic mode, once the game stops writing, what it wrote since the  *)
(* last restart or load is in the file at last, through any number of       *)
(* failed attempts.                                                         *)
BackupReachesFile ==
  <>[]update_backup_flag /\ <>[][FALSE]_script
  => (running = "on" /\ NewUnsaved # {} ~> NewUnsaved = {} \/ running # "on")

(* README: failed automatic writes stay pending and are retried; pending    *)
(* data is lost by quitting or loading another game, and by nothing else.   *)
(* FALSE for the code: after a restart save_backup sees BACKUP_NONE until   *)
(* the game is back at its backup, and update_backup takes that for done.   *)
PendingUntilSaved ==
  [][backup_update # Idle /\ backup_update' = Idle /\ loads' = loads
     => Unsaved' = {}]_vars

===============================================================================
