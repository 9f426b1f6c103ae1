----------------------------- MODULE IoRegisters -----------------------------
(***************************************************************************)
(* The I/O registers as the game stores to them (memory.c, sound.h,        *)
(* main.h): what a store of a byte, a halfword or a word changes in the    *)
(* devices.  A device record m holds                                       *)
(*   io         the halfwords of io_registers                              *)
(*   affine     affine_reference_x and _y of BG2 and BG3, low and high     *)
(*              half, of the 28 bits they keep                             *)
(*   gbc, sweep, wave, noise, master   the GBC sound channels              *)
(*   sound_on, ds, fifo                direct sound and its FIFOs          *)
(*   dma, timer                        whether each runs, and its setting  *)
(*   calls      transfers started, in order                                *)
(*   update, wave_update, oam_update   what is to be brought up to date    *)
(*   alert      what the store returns to the CPU                          *)
(* Frequencies, volumes in the tables and the sample position are left     *)
(* out.  DmaChannels models transfers, EventLoop the timers' counting.     *)
(***************************************************************************)
EXTENDS Integers, Sequences

Bit(v, k) == (v \div 2^k) % 2
Field(v, k, width) == (v \div 2^k) % 2^width
\* v with its low bits cleared, and x & ~y of halfwords.
WithoutLow(v, width) == v - (v % 2^width)
AndNot(x, y) ==
  LET Kept(k) == 2^k * (Bit(x, k) * (1 - Bit(y, k)))
  IN  Kept(0) + Kept(1) + Kept(2) + Kept(3) + Kept(4) + Kept(5) + Kept(6) + Kept(7)
      + Kept(8) + Kept(9) + Kept(10) + Kept(11) + Kept(12) + Kept(13) + Kept(14) + Kept(15)
Low(v) == v % 256
High(v) == v \div 256
Halfword(address) == address - (address % 2)

Set(m, a, v) == [m EXCEPT !.io[a] = v]
StoreByte(m, address, v) ==
  Set(m, Halfword(address),
      IF address % 2 = 0 THEN High(m.io[address]) * 256 + v
      ELSE v * 256 + Low(m.io[address - 1]))

-----------------------------------------------------------------------------
(* GBC sound: channels 0 and 1 are square waves, 2 the wave, 3 the noise.    *)

Noted(m, a, v) == [Set(m, a, v) EXCEPT !.update = TRUE]

gbc_sound_tone_control_low(m, ch, a, v) ==
  LET ticks == Field(v, 8, 3) * 4
  IN  Noted([m EXCEPT !.gbc[ch] =
        [@ EXCEPT !.length_ticks = 64 - Field(v, 0, 6), !.duty = Field(v, 6, 2),
                  !.envelope_direction = Bit(v, 11),
                  !.envelope_initial_volume = Field(v, 12, 4),
                  !.envelope_volume = Field(v, 12, 4),
                  !.envelope_initial_ticks = ticks, !.envelope_ticks = ticks,
                  !.envelope_status = ticks # 0]], a, v)

\* A trigger starts the channel and its envelope, but leaves the length counter alone.
Trigger(channel, v) ==
  IF Bit(v, 15) = 0 THEN channel
  ELSE [channel EXCEPT !.active_flag = TRUE, !.envelope_ticks = channel.envelope_initial_ticks,
                       !.envelope_volume = channel.envelope_initial_volume]

gbc_sound_tone_control_high(m, ch, a, v) ==
  Noted([m EXCEPT !.gbc[ch] =
    Trigger([@ EXCEPT !.rate = Field(v, 0, 11), !.length_status = Bit(v, 14) = 1], v)], a, v)

gbc_sound_tone_control_sweep(m, v) ==
  LET ticks == Field(v, 4, 3) * 2
  IN  Noted([m EXCEPT !.sweep = [shift |-> Field(v, 0, 3), direction |-> Bit(v, 3),
               status |-> v # 8, ticks |-> ticks, initial_ticks |-> ticks]], \h60, v)

gbc_sound_wave_control(m, v) ==
  Noted([m EXCEPT !.wave.type = Bit(v, 5), !.wave.bank = Bit(v, 6),
                  !.wave.master_enable = Bit(v, 7)], \h70, v)

gbc_sound_tone_control_low_wave(m, v) ==
  Noted([m EXCEPT !.gbc[2].length_ticks = 256 - Low(v),
                  !.wave.volume = IF Bit(v, 15) = 1 THEN 12288
                                  ELSE <<0, 16384, 8192, 4096>>[Field(v, 13, 2) + 1]], \h72, v)

gbc_sound_tone_control_high_wave(m, v) ==
  LET g == m.gbc[2]
  IN  Noted([m EXCEPT !.gbc[2] =
        [g EXCEPT !.rate = Field(v, 0, 11), !.length_status = Bit(v, 14) = 1,
                  !.active_flag = g.active_flag \/ Bit(v, 15) = 1]], \h74, v)

gbc_sound_noise_control(m, v) ==
  Noted([m EXCEPT
    !.gbc[3] = Trigger([@ EXCEPT !.length_status = Bit(v, 14) = 1], v),
    !.noise = [ratio |-> Field(v, 0, 3), shift |-> Field(v, 4, 4), type |-> Bit(v, 3)]],
    \h7C, v)

\* Bit 11 + ch, which is not the channel's own, is left in the status too.
gbc_trigger_sound(m, v) ==
  LET Right(ch) == IF Bit(v, ch + 8) = 1 \/ Bit(v, ch + 11) = 1 THEN 1 ELSE 0
  IN  Set([m EXCEPT
        !.master.right = Field(v, 0, 3), !.master.left = Field(v, 4, 3),
        !.gbc = [ch \in DOMAIN @ |-> [@[ch] EXCEPT !.status =
                  2 * Bit(v, ch + 12) + Right(ch)]]], \h80, v)

trigger_sound(m, v) ==
  LET Channel(ch) == [volume |-> Bit(v, 2 + ch), status |-> Field(v, 8 + 4 * ch, 2),
                      timer |-> Bit(v, 10 + 4 * ch)]
  IN  Set([m EXCEPT
        !.ds = [ch \in {0, 1} |-> Channel(ch)], !.master.gbc = Field(v, 0, 2),
        !.fifo = [ch \in {0, 1} |-> IF Bit(v, 11 + 4 * ch) = 1 THEN <<>> ELSE @[ch]]],
        \h82, v)

sound_on(m, v) ==
  Set([m EXCEPT
    !.sound_on = Bit(v, 7) = 1,
    !.gbc = IF Bit(v, 7) = 1 THEN @
            ELSE [ch \in DOMAIN @ |-> [@[ch] EXCEPT !.active_flag = FALSE]]],
    \h84, Field(m.io[\h84], 0, 4) + WithoutLow(v, 4))

sound_timer_queue(m, ch, bytes) == [m EXCEPT !.fifo[ch] = @ \o bytes]

-----------------------------------------------------------------------------
(* DMA, timers, affine references.                                           *)

\* The channel of a DMAxCNT_H, the timer of a TMxCNT_L or _H.
DmaControls == {\hBA, \hC6, \hD2, \hDE}
DmaOf(a) == (a - \hBA) \div 12
TimerOf(a) == (a - \h100) \div 4
TimerCounts == {\h100, \h104, \h108, \h10C}
TimerControls == {\h102, \h106, \h10A, \h10E}

trigger_dma(m, n, v) ==
  LET a == \hBA + 12 * n
  IN  CASE Bit(v, 15) = 0 -> Set([m EXCEPT !.dma[n] = <<"inactive">>], a, v)
        [] Bit(v, 15) = 1 /\ m.dma[n] # <<"inactive">> -> m
        [] OTHER -> IF Field(v, 12, 2) = 0
                    THEN Set([m EXCEPT !.calls = Append(@, <<n, v>>)], a, v - 2^15)
                    ELSE Set([m EXCEPT !.dma[n] = <<"waiting", v>>], a, v)

count_timer(m, n, v) == [m EXCEPT !.timer[n].reload = 2^16 - v]

trigger_timer(m, n, v) ==
  LET t == m.timer[n]
      started == [t EXCEPT !.status = IF Bit(v, 2) = 1 THEN "cascade" ELSE "prescale",
                           !.prescale = <<0, 6, 8, 10>>[Field(v, 0, 2) + 1],
                           !.irq = Bit(v, 6)]
      starts == Bit(v, 7) = 1 /\ t.status = "inactive"
      reads == IF starts THEN Set(m, \h100 + 4 * n, (2^16 - t.reload) % 2^16) ELSE m
  IN  Set([reads EXCEPT !.timer[n] =
        IF starts THEN started
        ELSE IF Bit(v, 7) = 0 THEN [t EXCEPT !.status = "inactive"] ELSE t],
        \h102 + 4 * n, v)

AffineWords == {\h28, \h2C, \h38, \h3C}
InAffine(address) == \E a \in AffineWords : address \in a .. a + 3
AffineOf(address) == CHOOSE a \in AffineWords : address \in a .. a + 3
\* (s32)(value << 4) >> 4 of the word the halfwords make.
Affine(m, a) == [m EXCEPT !.affine[a] = <<m.io[a], m.io[a + 2] % 2^12>>]

-----------------------------------------------------------------------------
(* Stores.                                                                   *)

Halted(m, v) == [m EXCEPT !.alert = "halt", !.halt = IF Bit(v, 0) = 0 THEN "halt" ELSE "stop"]

write_io_register16(m, a, v) ==
  CASE a = 0 -> [Set(m, a, v) EXCEPT !.oam_update = IF v # m.io[0] THEN TRUE ELSE @]
    [] a = 4 -> Set(m, a, Field(m.io[4], 0, 3) + WithoutLow(v, 3))
    [] a \in {6, \h130, \h204} -> m
    [] InAffine(a) -> Affine(Set(m, a, v), AffineOf(a))
    [] a = \h60 -> gbc_sound_tone_control_sweep(m, v)
    [] a = \h62 -> gbc_sound_tone_control_low(m, 0, a, v)
    [] a = \h64 -> gbc_sound_tone_control_high(m, 0, a, v)
    [] a = \h68 -> gbc_sound_tone_control_low(m, 1, a, v)
    [] a = \h6C -> gbc_sound_tone_control_high(m, 1, a, v)
    [] a = \h70 -> gbc_sound_wave_control(m, v)
    [] a = \h72 -> gbc_sound_tone_control_low_wave(m, v)
    [] a = \h74 -> gbc_sound_tone_control_high_wave(m, v)
    [] a = \h78 -> gbc_sound_tone_control_low(m, 3, a, v)
    [] a = \h7C -> gbc_sound_noise_control(m, v)
    [] a = \h80 -> gbc_trigger_sound(m, v)
    [] a = \h82 -> trigger_sound(m, v)
    [] a = \h84 -> sound_on(m, v)
    [] a \in \h90 .. \h9E -> [Set(m, a, v) EXCEPT !.wave_update = TRUE]
    [] a \in {\hA0, \hA4} -> sound_timer_queue(m, (a - \hA0) \div 4, <<Low(v), High(v)>>)
    [] a \in DmaControls -> trigger_dma(m, DmaOf(a), v)
    [] a \in TimerCounts -> count_timer(m, TimerOf(a), v)
    [] a \in TimerControls -> trigger_timer(m, TimerOf(a), v)
    [] a = \h202 -> Set(m, a, AndNot(m.io[a], v))
    [] a = \h300 -> Halted(m, High(v))
    [] OTHER -> Set(m, a, v)

(* A byte store to a device's register makes the halfword it belongs to and  *)
(* stores that.  At the odd addresses here it takes the byte for the low one. *)
AffineBytes == {a + d : a \in AffineWords, d \in {0, 2}}
SoundBytes == {\h62, \h64, \h68, \h6C, \h70, \h72, \h74, \h78, \h7C, \h80, \h82}
BothBytes == AffineBytes \cup SoundBytes \cup TimerCounts
TriggerBytes == {\h61} \cup {a + 1 : a \in DmaControls \cup TimerControls}

access_register8_low(m, a, v) == High(m.io[a]) * 256 + v
\* A mutant: the byte already there is taken from the wrong half.
access_high_of_high(m, a, v) == v * 256 + High(m.io[a])
access_register8_high(m, a, v) == v * 256 + Low(m.io[a])

write_io_register8(m, address, v) ==
  LET a == Halfword(address)
      Merged(low) == IF low THEN access_register8_low(m, a, v)
                            ELSE access_register8_high(m, a, v)
  IN  CASE address = 0 -> [StoreByte(m, 0, v) EXCEPT !.oam_update = IF v # Low(m.io[0]) THEN TRUE ELSE @]
        [] address = 4 -> StoreByte(m, 4, Field(m.io[4], 0, 3) + WithoutLow(v, 3))
        [] a = 6 -> m
        [] a \in BothBytes -> write_io_register16(m, a, Merged(address = a))
        [] address \in {\h60} \cup TriggerBytes -> write_io_register16(m, a, Merged(TRUE))
        [] address = \h84 -> sound_on(m, v)
        [] address \in \h90 .. \h9F -> [StoreByte(m, address, v) EXCEPT !.wave_update = TRUE]
        [] address \in {\hA0, \hA4} -> sound_timer_queue(m, (address - \hA0) \div 4, <<v>>)
        [] a = \h202 -> StoreByte(m, address, AndNot(
                          IF address = a THEN Low(m.io[a]) ELSE High(m.io[a]), v))
        [] address = \h301 -> Halted(m, v)
        [] OTHER -> StoreByte(m, address, v)

\* A word, given as its halfwords.
write_io_register32(m, a, low, high) ==
  CASE a \in AffineWords -> Affine(Set(Set(m, a, low), a + 2, high), a)
    [] a \in {\hA0, \hA4} -> sound_timer_queue(m, (a - \hA0) \div 4,
                               <<Low(low), High(low), Low(high), High(high)>>)
    [] OTHER -> write_io_register16(write_io_register16(m, a, low), a + 2, high)
=============================================================================
