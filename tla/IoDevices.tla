------------------------------ MODULE IoDevices ------------------------------
(***************************************************************************)
(* The devices behind the I/O registers at work: a game stores to them a   *)
(* byte, a halfword or a word at a time (IoRegisters), and                 *)
(* update_gbc_sound lets the GBC channels play, counting down their        *)
(* lengths, envelopes and sweeps 256 times a second (sound.c), when a      *)
(* store asked for it and once a frame (main.c).  Sound is initialised:    *)
(* before that update_gbc_sound returns at once.                           *)
(***************************************************************************)
EXTENDS IoRegisters

CONSTANTS Groups,        \* sets of register addresses a game uses together
          Contents(_),   \* halfwords stored to a register
          MaxStores      \* bound: stores of a behaviour

\* Registers are halfwords at even addresses.
IsHalfword(v) == v \in Nat /\ v <= \hFFFF
IsRegister(a) == a \in Nat /\ a <= \h3FE /\ a % 2 = 0
StoresFit == \A used \in Groups : \A a \in used :
               IsRegister(a) /\ \A v \in Contents(a) : IsHalfword(v)

ASSUME StoresAssumption == StoresFit

VARIABLES group,    \* the registers this game uses
          device,   \* the device record of IoRegisters
          stores    \* stores so far

device_vars == <<group, device, stores>>

Channels == 0 .. 3

\* The counters are u32 and come down 256 times a second: one that went below 0 would
\* need half a year to reach 0 again, and stays where it is.
Wrapped == -1
Down(n) == IF n > 0 THEN n - 1 ELSE Wrapped

-----------------------------------------------------------------------------
(* GBC sound. *)

Silent == [rate |-> 0, length_ticks |-> 0, length_status |-> FALSE, duty |-> 2,
           envelope_direction |-> 0, envelope_initial_volume |-> 0, envelope_volume |-> 0,
           envelope_initial_ticks |-> 0, envelope_ticks |-> 0, envelope_status |-> FALSE,
           active_flag |-> FALSE, status |-> 0, over |-> FALSE]

\* The halfwords of io_registers a game with these registers can change, and those
\* the hardware reports in.
Registers(used) == {4, 6, \h80, \h84, \h202} \cup UNION {{a - 2, a, a + 2} : a \in used}

\* After power-on: what reset_sound leaves of the memory's zeros.
reset_sound(used) ==
  [io |-> [a \in Registers(used) |-> 0],
   affine |-> [a \in AffineWords |-> <<0, 0>>],
   gbc |-> [ch \in Channels |-> Silent],
   sweep |-> [shift |-> 0, direction |-> 0, status |-> FALSE, ticks |-> 0, initial_ticks |-> 0],
   wave |-> [type |-> 0, bank |-> 0, master_enable |-> 0, volume |-> 0],
   noise |-> [ratio |-> 0, shift |-> 0, type |-> 0],
   master |-> [left |-> 0, right |-> 0, gbc |-> 0],
   sound_on |-> FALSE,
   ds |-> [ch \in {0, 1} |-> [volume |-> 0, status |-> 0, timer |-> 0]],
   fifo |-> [ch \in {0, 1} |-> <<>>],
   dma |-> [n \in 0 .. 3 |-> <<"inactive">>],
   timer |-> [n \in 0 .. 3 |-> [status |-> "inactive", reload |-> 2^16, prescale |-> 0,
                                irq |-> 0]],
   calls |-> <<>>, update |-> FALSE, wave_update |-> FALSE, oam_update |-> FALSE,
   alert |-> "none", halt |-> "run"]

update_tone_sweep(m) ==
  LET s == m.sweep
      old == m.gbc[0].rate
      step == old \div 2^s.shift
      new == IF s.direction = 1 THEN old - step ELSE old + step
      capped == IF new > 2048 THEN 2048 ELSE new
  IN  CASE ~s.status         -> m
        [] s.status /\ Down(s.ticks) # 0 -> [m EXCEPT !.sweep.ticks = Down(@)]
        [] OTHER -> [m EXCEPT !.gbc[0].rate = capped, !.sweep.ticks = s.initial_ticks]

\* A mutant: the count is not started again.
update_tone_envelope_once(g) ==
  IF g.envelope_status THEN [g EXCEPT !.envelope_ticks = Down(@)] ELSE g

update_tone_envelope(g) ==
  CASE ~g.envelope_status -> g
    [] g.envelope_status /\ g.envelope_ticks # 1 ->
         [g EXCEPT !.envelope_ticks = Down(@)]
    [] OTHER ->
         [g EXCEPT !.envelope_ticks = g.envelope_initial_ticks,
                   !.envelope_volume = IF g.envelope_direction = 1
                                       THEN IF @ # 15 THEN @ + 1 ELSE @
                                       ELSE IF @ # 0 THEN @ - 1 ELSE @]

\* A mutant: the channel whose length ran out is left on.
update_tone_counters_on(m, ch) ==
  [m EXCEPT !.gbc[ch].length_ticks = Down(@), !.gbc[ch].over = FALSE]

\* One carry of the channel's tick counter.  The one at which the length runs out
\* stays in the counter, as the loop is left at once.
update_tone_counters(m, ch) ==
  LET g == m.gbc[ch]
      counted == IF g.length_status THEN [g EXCEPT !.length_ticks = Down(@)] ELSE g
      shaped == IF ch = 2 THEN counted ELSE update_tone_envelope(counted)
      Put(new) == [m EXCEPT !.gbc[ch] = new]
  IN  IF g.length_status /\ counted.length_ticks = 0
      THEN Put([counted EXCEPT !.active_flag = FALSE, !.over = TRUE])
      ELSE LET played == Put([shaped EXCEPT !.over = FALSE])
           IN  IF ch = 0 THEN update_tone_sweep(played) ELSE played

Playing(m, ch) == m.gbc[ch].active_flag /\ (ch = 2 => m.wave.master_enable = 1)

\* The channels in carries have a carry in the samples rendered; one left over from
\* an earlier update comes at once.
gbc_sound_render_channel(m, ch, carries) ==
  IF Playing(m, ch) /\ m.gbc[ch].status # 0 /\ (ch \in carries \/ m.gbc[ch].over)
  THEN update_tone_counters(m, ch) ELSE m

update_gbc_sound(m, carries) ==
  LET R(n, ch) == gbc_sound_render_channel(n, ch, carries)
      rendered == R(R(R(R([m EXCEPT !.wave_update = FALSE], 0), 1), 2), 3)
      on == {ch \in Channels : m.sound_on /\ Playing(m, ch)}
      Bits(ch) == IF ch \in on THEN 2^ch ELSE 0
  IN  [(IF m.sound_on THEN rendered ELSE m) EXCEPT
        !.io[\h84] = WithoutLow(m.io[\h84], 4) + Bits(0) + Bits(1) + Bits(2) + Bits(3)]

-----------------------------------------------------------------------------

\* The game has switched the sound on, with every channel on both sides.
PowerOn ==
  /\ group \in Groups
  /\ LET off == reset_sound(group)
         on == write_io_register16(write_io_register16(off, \h84, \h80), \h80, \hFF77)
     IN  device = on
  /\ stores = 0

\* What a store tells the CPU is of that store.
Now == [device EXCEPT !.alert = "none"]

Stored(new) ==
  /\ stores < MaxStores
  /\ stores' = stores + 1
  /\ device' = new
  /\ UNCHANGED group

StoreHalfword ==
  \E a \in group : \E v \in Contents(a) : Stored(write_io_register16(Now, a, v))

StoreLowByte ==
  \E a \in group : \E v \in Contents(a) : Stored(write_io_register8(Now, a, Low(v)))

StoreHighByte ==
  \E a \in group : \E v \in Contents(a) : Stored(write_io_register8(Now, a + 1, High(v)))

StoreWord ==
  \E a \in {x \in group : x % 4 = 0 /\ x + 2 \in group} :
    \E v \in Contents(a), w \in Contents(a + 2) : Stored(write_io_register32(Now, a, v, w))

Rendered(carries, new) ==
  /\ device' = update_gbc_sound(new, carries)
  /\ UNCHANGED <<group, stores>>

\* The channels a carry can be seen in.
Sounding == {ch \in Channels : device.sound_on /\ Playing(device, ch)}

\* update_gba, at the first event after a store that asked for it.
PlayAfterStore ==
  /\ device.update
  /\ \E carries \in SUBSET Sounding : Rendered(carries, [device EXCEPT !.update = FALSE])

\* update_gba, at the end of a frame.
PlayFrame == \E carries \in SUBSET Sounding : Rendered(carries, device)

DeviceStep ==
  \/ StoreHalfword \/ StoreLowByte \/ StoreHighByte \/ StoreWord
  \/ PlayAfterStore \/ PlayFrame

DeviceSpec == PowerOn /\ [][DeviceStep]_device_vars

\* Frames keep ending, and every channel's tick counter keeps carrying.
FairPlay == \A ch \in Channels :
  WF_device_vars(\E carries \in SUBSET Sounding :
                   (ch \in Sounding => ch \in carries) /\ Rendered(carries, device))

FairDeviceSpec == DeviceSpec /\ FairPlay

-----------------------------------------------------------------------------
(* Properties. *)

ByBytes(m, a, v) == write_io_register8(write_io_register8(m, a, Low(v)), a + 1, High(v))
Effect(m) == [m EXCEPT !.alert = "none"]

\* Registers whose byte stores are known to do something else: DISPCNT's high byte
\* does not ask for the objects to be sorted again; the high byte of the sweep, of
\* DMAxCNT_H and of TMxCNT_H is taken for the low one; KEYINPUT and WAITCNT can be
\* written; of a FIFO halfword only the first byte is queued; and TMxCNT_L reads back as the count,
\* so that a byte of the reload value is completed with a byte of the count;
\* POSTFLG is kept only when stored as a byte.
ApartByBytes == {0, \h60, \h130, \h204, \h300, \hA0, \hA4}
                \cup DmaControls \cup TimerControls \cup TimerCounts
\* A trigger or reset bit of an earlier store, still in the register when the low
\* byte is stored, acts again.
StillTriggered(m, a) == a \in {\h64, \h6C, \h74, \h7C, \h82} /\ High(m.io[a]) >= 8

\* A halfword stored as two bytes, low then high, leaves every device as the
\* halfword does, and a word as its two halfwords, but for the registers above.
WidthsAgree ==
  \A a \in group : \A v \in Contents(a) :
    LET whole == write_io_register16(Now, a, v)
    IN  /\ \/ a \in ApartByBytes \/ StillTriggered(device, a)
           \/ Effect(ByBytes(Now, a, v)) = Effect(whole)
        /\ a % 4 = 0 /\ a + 2 \in group /\ a \notin {\hA0, \hA4} =>
             \A w \in Contents(a + 2) :
               write_io_register16(whole, a + 2, w) = write_io_register32(Now, a, v, w)

\* No store moves what the hardware reports: the state bits of DISPSTAT, VCOUNT and
\* the playing bits of SOUNDCNT_X; and a store to IF only takes requests away.
HardwareBitsStay ==
  [][stores' # stores =>
       LET old == device.io  new == device'.io
       IN  /\ new[4] % 8 = old[4] % 8 /\ new[6] = old[6]
           /\ new[\h84] % 16 = old[\h84] % 16
           /\ \A k \in 0 .. 15 : Bit(new[\h202], k) <= Bit(old[\h202], k)]_device_vars

\* However stores, triggers and playing follow one another, an envelope that counts
\* never counts past its end, and the volume stays one of the table's 16.
EnvelopeNeverWraps ==
  \A ch \in Channels :
    LET g == device.gbc[ch]
    IN  /\ g.envelope_status => g.envelope_ticks \in 1 .. g.envelope_initial_ticks
        /\ g.envelope_volume \in 0 .. 15

Heard(ch) == device.sound_on /\ Playing(device, ch) /\ device.gbc[ch].status # 0

CountsDown(ch) ==
  Heard(ch) /\ device.gbc[ch].length_status /\ device.gbc[ch].length_ticks > 0

\* A heard channel does not count down a length for ever once the game's stores are over,
\* and is off when playing has used the length up.  Nothing is said of a channel with no
\* length left: a trigger does not load it again (sound.h:146), so that one triggered when
\* its length is used up, or was never written, counts below 0 and plays on.
LengthEnds ==
  /\ \A ch \in Channels : ~<>[]CountsDown(ch)
  /\ [][\A ch \in Channels : stores' = stores /\ CountsDown(ch) =>
          CountsDown(ch)' \/ ~device'.gbc[ch].active_flag]_device_vars
=============================================================================
