-------------------------------- MODULE MCBackup --------------------------------
(* Games for Backup: the command sequences that the usual cartridge         *)
(* libraries issue, over a few addresses.                                   *)
EXTENDS Backup

Write(a, v) == <<"write", a, v>>
Read(a) == <<"read", a, 0>>

(* Unlock the flash chip and give it a command. *)
Unlock(v) == <<Write(\h5555, \hAA), Write(\h2AAA, \h55), Write(\h5555, v)>>

ReadId == Unlock(\h90) \o <<Read(1)>> \o Unlock(\hF0)
Bank(b) == Unlock(\hB0) \o <<Write(0, b)>>
ProgramByte(a) == Unlock(\hA0) \o <<Write(a, 1)>>
EraseSectorOf(a) == Unlock(\h80) \o SubSeq(Unlock(0), 1, 2) \o <<Write(a, \h30)>>
EraseChip == Unlock(\h80) \o Unlock(\h10)

Flash64 == {ReadId, ProgramByte(\h5555), EraseSectorOf(0), EraseChip}
Flash128 == {ReadId, Bank(1) \o ProgramByte(\h5555), Bank(0) \o EraseSectorOf(0) \o <<Read(0)>>}

(* Blocks 0 and 64, so that one of them exists on the 8KB chip only.        *)
Bits(length, block) ==
  [i \in 1 .. length |-> <<"eeprom write", (block \div 2 ^ (length - i)) % 2, 0>>]
Stream(length, opcode, block) ==
  <<<<"dma", length + 3, 0>>>> \o Bits(2, opcode) \o Bits(length, block)
WriteBlock(length, block) ==
  <<<<"dma", IF length = 14 THEN 81 ELSE 73, 0>>>>
  \o Bits(2, 2) \o Bits(length, block) \o Bits(DataBits + 1, 0)
ReadBlock(length, block) ==
  Stream(length, 3, block) \o Bits(1, 0)
  \o [i \in 1 .. DataBits + 4 |-> <<"eeprom read", 0, 0>>]

Eeprom512 == {WriteBlock(6, 0), ReadBlock(6, 0)}
EepromBig == {WriteBlock(14, 0), WriteBlock(14, 64), ReadBlock(14, 64)}

MCAddresses == {0, \h200, \h5555}
AllGames == [flash64 |-> Flash64, flash128 |-> Flash128,
             eeprom512 |-> Eeprom512, eeprom8k |-> EepromBig,
             sram |-> {<<Read(0)>>, <<Write(0, \hAA)>>, <<Write(\h200, 1)>>}]

(* These keep to what the theorem on CoveredBySave asks of a game.          *)
ASSUME /\ IsSram(AllGames.sram) /\ IsFlash64(AllGames.flash64)
       /\ IsFlash128(AllGames.flash128)

===============================================================================
