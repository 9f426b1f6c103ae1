------------------------------- MODULE DmaProofs --------------------------------
(***************************************************************************)
(* Theorems about DmaChannels for any channels, games and FIFO sizes: what *)
(* DMAxCNT_H reads as is the truth about a channel, a FIFO asks only       *)
(* channels that are on, and a FIFO that one DMA feeds plays each sample   *)
(* once.                                                                   *)
(*                                                                         *)
(* The second needs that sound DMAs repeat: one that does not ends with    *)
(* its FIFO still hooked to it (memory.c).  Calls are open on a stack and  *)
(* each channel may be reprogrammed under them, so the invariant is about  *)
(* every channel in every state, not about those that have a call.         *)
(*                                                                         *)
(* The third needs besides that sound DMAs have something to read.  Going  *)
(* round from the next byte to play, the FIFO holds what was not played,   *)
(* then what was (Fresh).  It holds more than half; or just half, and the  *)
(* one channel that feeds it is asked; or half and more, and that channel  *)
(* is the innermost call and what it still has to copy fits (Enough).      *)
(* Nothing comes between the asking and the copying, for under a request   *)
(* are only requests of the same FIFO and sounds to play (Nested).         *)
(***************************************************************************)
EXTENDS DmaChannels, TLAPS

Fields == {"start_type", "direct_sound_channel", "source_address", "dest_address",
           "length", "source_direction", "dest_direction", "repeat"}

(* The control register on tells whether the transfer d is active, and a    *)
(* FIFO is hooked only to a channel that waits for it.                      *)
Honest(d, on) ==
  /\ DOMAIN d = Fields
  /\ on \in BOOLEAN
  /\ on <=> d.start_type # INACTIVE
Hooked(d) == d.direct_sound_channel # NO_DIRECT_SOUND
             => d.start_type = "special" /\ d.repeat = TRUE

ChannelsOK ==
  /\ DOMAIN dma = Channels /\ enabled \in [Channels -> BOOLEAN]
  /\ \A n \in Channels : Honest(dma[n], enabled[n])
HooksOK == \A n \in Channels : Hooked(dma[n])

-------------------------------------------------------------------------------
(* What the operators do to the fields that matter. *)

LEMMA StoppedFields ==
  ASSUME NEW d, DOMAIN d = Fields
  PROVE  /\ DOMAIN Stopped(d) = Fields
         /\ Stopped(d).start_type = INACTIVE
         /\ Stopped(d).direct_sound_channel = d.direct_sound_channel
         /\ Stopped(d).repeat = d.repeat
  BY DEF Stopped, Fields

LEMMA OffFields ==
  ASSUME NEW d, DOMAIN d = Fields
  PROVE  /\ DOMAIN Off(d) = Fields
         /\ Off(d).start_type = INACTIVE
         /\ Off(d).direct_sound_channel = NO_DIRECT_SOUND
<1> DEFINE e == [d EXCEPT !.direct_sound_channel = NO_DIRECT_SOUND]
<1>1. DOMAIN e = Fields /\ e.direct_sound_channel = NO_DIRECT_SOUND
  BY DEF Fields
<1>2. Off(d) = Stopped(e)
  BY DEF Off
<1> HIDE DEF e
<1> QED
  BY <1>1, <1>2, StoppedFields

LEMMA LoadedFields ==
  ASSUME NEW n \in Channels, NEW value, NEW r, DOMAIN dma[n] = Fields
  PROVE  /\ DOMAIN Loaded(n, value, r) = Fields
         /\ Loaded(n, value, r).start_type = value.start
         /\ Loaded(n, value, r).repeat = value.repeat
         /\ value.start # "special" =>
              Loaded(n, value, r).direct_sound_channel = dma[n].direct_sound_channel
         /\ value.start = "special" \/ n \notin {1, 2} =>
              Loaded(n, value, r).direct_sound_channel
                \in {0, 1, dma[n].direct_sound_channel}
<1> DEFINE d == dma[n]
           common == [d EXCEPT !.source_address = r.source, !.dest_address = r.dest,
                       !.source_direction = value.source, !.repeat = value.repeat,
                       !.start_type = value.start]
<1>1. /\ DOMAIN common = Fields
      /\ common.start_type = value.start /\ common.repeat = value.repeat
      /\ common.direct_sound_channel = d.direct_sound_channel
  BY DEF Fields
<1>2. Loaded(n, value, r)
      = IF n \in {1, 2} /\ value.start = "special"
        THEN [common EXCEPT !.length = FifoWords, !.dest_direction = "fixed",
                !.direct_sound_channel = IF r.dest = FIFO(1) THEN 1 ELSE 0]
        ELSE [common EXCEPT !.length = r.count, !.dest_direction = value.dest]
  BY DEF Loaded
<1> HIDE DEF common, d
<1> QED
  BY <1>1, <1>2 DEF Fields, d

(* Putting an honest transfer in place of one channel's keeps all honest. *)
LEMMA ReplaceOne ==
  ASSUME ChannelsOK, NEW n, NEW d, NEW on,
         n \in Channels => Honest(d, on),
         dma' = [dma EXCEPT ![n] = d], enabled' = [enabled EXCEPT ![n] = on]
  PROVE  ChannelsOK'
<1>1. DOMAIN dma' = Channels /\ enabled' \in [Channels -> BOOLEAN]
  <2>1. n \in Channels => on \in BOOLEAN
    BY Zenon DEF Honest
  <2> QED
    BY <2>1 DEF ChannelsOK
<1>2. ASSUME NEW m \in Channels PROVE Honest(dma'[m], enabled'[m])
  <2>1. dma'[m] = IF m = n THEN d ELSE dma[m]
    BY DEF ChannelsOK
  <2>2. enabled'[m] = IF m = n THEN on ELSE enabled[m]
    BY DEF ChannelsOK
  <2>3. CASE m = n
    BY <2>1, <2>2, <2>3, Zenon
  <2>4. CASE m # n
    BY <2>1, <2>2, <2>4, Zenon DEF ChannelsOK
  <2> QED
    BY <2>3, <2>4
<1>3. ChannelsOK' <=> /\ DOMAIN dma' = Channels /\ enabled' \in [Channels -> BOOLEAN]
                      /\ \A m \in Channels : Honest(dma'[m], enabled'[m])
  BY Zenon DEF ChannelsOK, Honest
<1> QED
  BY <1>1, <1>2, <1>3, Zenon

LEMMA ReplaceOneHook ==
  ASSUME ChannelsOK, HooksOK, NEW n, NEW d,
         n \in Channels => Hooked(d), dma' = [dma EXCEPT ![n] = d]
  PROVE  HooksOK'
<1>1. ASSUME NEW m \in Channels PROVE Hooked(dma'[m])
  BY DEF ChannelsOK, HooksOK
<1>2. HooksOK' <=> \A m \in Channels : Hooked(dma'[m])
  BY Zenon DEF HooksOK, Hooked
<1> QED
  BY <1>1, <1>2, Zenon

-------------------------------------------------------------------------------
(* A store to a control register, the game's or a transfer's. *)
LEMMA TriggerKeeps ==
  ASSUME ChannelsOK, NEW n \in Channels, NEW value \in Controls(n) \cup DmaData,
         NEW r, NEW by, NEW rest, trigger_dma(n, value, r, by, rest)
  PROVE  ChannelsOK' /\ (SoundRepeats /\ HooksOK => HooksOK')
<1>1. value.enable \in BOOLEAN /\ value.start # INACTIVE
  BY DmaAssumption DEF INACTIVE
<1>2. Honest(dma[n], enabled[n])
  BY Zenon DEF ChannelsOK
<1>3. CASE Starts(n, value)
  <2>1. /\ dma' = [dma EXCEPT ![n] = Loaded(n, value, r)]
        /\ enabled' = [enabled EXCEPT ![n] = value.enable]
    BY <1>1, <1>3 DEF trigger_dma, Starts
  <2>2. value.enable /\ dma[n].start_type = INACTIVE
    BY <1>3 DEF Starts
  <2>3. Honest(Loaded(n, value, r), value.enable)
    <3>1. /\ DOMAIN Loaded(n, value, r) = Fields
          /\ Loaded(n, value, r).start_type = value.start
      BY <1>2, LoadedFields, Zenon DEF Honest
    <3> QED
      BY <1>1, <2>2, <3>1, Zenon DEF Honest
  <2>4. ASSUME SoundRepeats, HooksOK PROVE Hooked(Loaded(n, value, r))
    <3>1. dma[n].direct_sound_channel = NO_DIRECT_SOUND
      BY <2>2, <2>4 DEF HooksOK, Hooked, INACTIVE
    <3>2. value.start = "special" => value.repeat = TRUE
      BY <2>4, Zenon DEF SoundRepeats
    <3>3. DOMAIN dma[n] = Fields
      BY <1>2, Zenon DEF Honest
    <3> QED
      BY <3>1, <3>2, <3>3, LoadedFields DEF Hooked
  <2> QED
    BY <2>1, <2>3, <2>4, ReplaceOne, ReplaceOneHook
<1>4. CASE ~Starts(n, value) /\ ~value.enable
  <2>1. /\ dma' = [dma EXCEPT ![n] = Off(dma[n])]
        /\ enabled' = [enabled EXCEPT ![n] = value.enable]
    BY <1>4 DEF trigger_dma
  <2>2. DOMAIN dma[n] = Fields
    BY <1>2, Zenon DEF Honest
  <2>3. Honest(Off(dma[n]), value.enable)
    BY <1>1, <1>4, <2>2, OffFields, Zenon DEF Honest
  <2>4. Hooked(Off(dma[n]))
    BY <2>2, OffFields DEF Hooked
  <2> QED
    BY <2>1, <2>3, <2>4, ReplaceOne, ReplaceOneHook
<1>5. CASE ~Starts(n, value) /\ value.enable
  <2>1. dma' = dma /\ enabled' = enabled
    BY <1>5 DEF trigger_dma
  <2> QED
    BY <2>1, Zenon DEF ChannelsOK, HooksOK, Honest, Hooked
<1> QED
  BY <1>3, <1>4, <1>5

(* The end of a transfer, whatever became of its channel meanwhile. *)
LEMMA FinishKeeps ==
  ASSUME ChannelsOK, FinishTransfer
  PROVE  ChannelsOK' /\ (HooksOK => HooksOK')
<1> DEFINE t == Head(tasks)
           d == dma[t.n]
           done == ~d.repeat \/ d.start_type = "immediately"
           left == [d EXCEPT !.source_address = t.source,
                             !.dest_address = IF t.dest_direction = "reload" THEN @ ELSE t.dest]
           last == IF done THEN Stopped(left) ELSE left
           on == IF done THEN FALSE ELSE enabled[t.n]
<1>1. /\ dma' = [dma EXCEPT ![t.n] = last]
      /\ enabled' = IF done THEN [enabled EXCEPT ![t.n] = FALSE] ELSE enabled
  BY DEF FinishTransfer
<1>2. enabled' = [enabled EXCEPT ![t.n] = on]
  <2>1. enabled = [enabled EXCEPT ![t.n] = enabled[t.n]]
    BY DEF ChannelsOK
  <2> HIDE DEF done, t
  <2> QED
    BY <1>1, <2>1, Zenon
<1>3. ASSUME t.n \in Channels
      PROVE  Honest(last, on) /\ (HooksOK => Hooked(last))
  <2>1. Honest(d, enabled[t.n])
    BY <1>3, Zenon DEF ChannelsOK
  <2>2. DOMAIN d = Fields
    BY <2>1, Zenon DEF Honest
  <2> HIDE DEF d, t
  <2>3. /\ DOMAIN left = Fields
        /\ left.start_type = d.start_type /\ left.repeat = d.repeat
        /\ left.direct_sound_channel = d.direct_sound_channel
    BY <2>2 DEF Fields
  <2> HIDE DEF left
  <2>4. CASE done
    <3>1. /\ DOMAIN last = Fields /\ last.start_type = INACTIVE /\ on = FALSE
          /\ last.direct_sound_channel = d.direct_sound_channel
      BY <2>3, <2>4, StoppedFields
    <3>2. HooksOK => Hooked(d)
      BY <1>3, Zenon DEF HooksOK, d
    <3> QED
      BY <2>4, <3>1, <3>2 DEF Honest, Hooked
  <2>5. CASE ~done
    <3>1. last = left /\ on = enabled[t.n]
      BY <2>5, Zenon
    <3>2. HooksOK => Hooked(d)
      BY <1>3, Zenon DEF HooksOK, d
    <3>3. Honest(last, on)
      BY <2>1, <2>3, <3>1, Zenon DEF Honest
    <3>4. HooksOK => Hooked(last)
      BY <2>3, <3>1, <3>2, Zenon DEF Hooked
    <3> QED
      BY <3>3, <3>4
  <2> QED
    BY <2>4, <2>5
<1> HIDE DEF t, last, on
<1> QED
  BY <1>1, <1>2, <1>3, ReplaceOne, ReplaceOneHook

(* Every step keeps the channels honest and, if sound DMAs repeat, hooked   *)
(* as they should be.                                                      *)
LEMMA ChannelsStep ==
  ASSUME ChannelsOK, [Next]_vars
  PROVE  ChannelsOK' /\ (SoundRepeats /\ HooksOK => HooksOK')
<1>1. CASE UNCHANGED <<enabled, dma>>
  BY <1>1, Zenon DEF ChannelsOK, HooksOK, Honest, Hooked
<1>2. CASE CopyWord
  <2>1. ASSUME NEW n \in Channels, NEW value \in DmaData, NEW r, NEW by, NEW rest,
               trigger_dma(n, value, r, by, rest)
        PROVE  ChannelsOK' /\ (SoundRepeats /\ HooksOK => HooksOK')
    BY <2>1, TriggerKeeps
  <2>2. \/ UNCHANGED <<enabled, dma>>
        \/ \E n \in Channels : \E value \in DmaData : \E r, by, rest :
             trigger_dma(n, value, r, by, rest)
    BY <1>2 DEF CopyWord, devices
  <2> QED
    BY <1>1, <2>1, <2>2
<1>3. CASE FinishTransfer
  BY <1>3, FinishKeeps
<1>4. CASE ServeBlank \/ ServeFifo \/ sound_timer \/ Clock
  BY <1>1, <1>4 DEF ServeBlank, ServeFifo, Serve, sound_timer, Clock, Overflow, Blank, devices
<1>5. CASE Game
  <2>1. ASSUME NEW n \in Channels, NEW value \in Controls(n), StoreControl(n, value)
        PROVE  ChannelsOK' /\ (SoundRepeats /\ HooksOK => HooksOK')
    BY <2>1, TriggerKeeps DEF StoreControl
  <2> QED
    BY <1>1, <1>5, <2>1
       DEF Game, StoreRegisters, StoreFifo, StoreSoundControl, devices
<1>6. CASE UNCHANGED vars
  BY <1>1, <1>6 DEF vars, devices
<1> QED
  BY <1>2, <1>3, <1>4, <1>5, <1>6 DEF Next, Inside

LEMMA ChannelsInit == Init => ChannelsOK /\ HooksOK
  BY DEF Init, ChannelsOK, HooksOK, Honest, Hooked, Fields

(* What a game reads from DMAxCNT_H tells whether the channel is active,    *)
(* however transfers reprogram channels inside each other.                  *)
THEOREM ControlIsTrue == Spec => []ControlTellsActive
<1>1. ChannelsOK => ControlTellsActive
  BY Zenon DEF ChannelsOK, ControlTellsActive, Honest
<1> QED
  BY <1>1, ChannelsInit, ChannelsStep, PTL DEF Spec

-------------------------------------------------------------------------------
(* The open calls: requests are for channels and FIFOs there are. *)
IsTask(t) ==
  /\ t.do = "feed" => t.n \in Channels /\ t.ch \in Sounds
  /\ t.do = "play" => t.ch \in Sounds
TasksOK == \E S : tasks \in Seq(S) /\ \A t \in S : IsTask(t)

(* Calls put before what remains of the stack. *)
LEMMA PushedOK ==
  ASSUME TasksOK, tasks # <<>>, NEW R, NEW s \in Seq(R), \A t \in R : IsTask(t)
  PROVE  \E S : s \o Rest \in Seq(S) /\ \A t \in S : IsTask(t)
<1>1. PICK S : tasks \in Seq(S) /\ \A t \in S : IsTask(t)
  BY DEF TasksOK
<1>2. Rest \in Seq(S)
  BY <1>1 DEF Rest
<1>3. s \in Seq(S \cup R) /\ Rest \in Seq(S \cup R)
  BY <1>2
<1>4. s \o Rest \in Seq(S \cup R)
  BY <1>3
<1> QED
  BY <1>1, <1>4

(* A sequence of one thing or of none. *)
LEMMA AtMostOne ==
  ASSUME NEW R, NEW e, NEW on \in BOOLEAN, on => e \in R
  PROVE  (IF on THEN <<e>> ELSE <<>>) \in Seq(R)
<1>1. CASE on
  BY <1>1
<1>2. CASE ~on
  BY <1>2
<1> QED
  BY <1>1, <1>2

(* The one call put there in place of the innermost, or none. *)
LEMMA ReplacedOK ==
  ASSUME TasksOK, tasks # <<>>, NEW t, IsTask(t)
  PROVE  /\ \E S : <<t>> \o Rest \in Seq(S) /\ \A u \in S : IsTask(u)
         /\ \E S : Rest \in Seq(S) /\ \A u \in S : IsTask(u)
<1> DEFINE one == <<t>>
           only == {t}
<1>1. one \in Seq(only) /\ \A u \in only : IsTask(u)
  OBVIOUS
<1> HIDE DEF one, only
<1>2. \E Q : one \o Rest \in Seq(Q) /\ \A u \in Q : IsTask(u)
  BY <1>1, PushedOK
<1>3. PICK S : tasks \in Seq(S) /\ \A u \in S : IsTask(u)
  BY DEF TasksOK
<1>4. Rest \in Seq(S)
  BY <1>3 DEF Rest
<1>5. \E Q : Rest \in Seq(Q) /\ \A u \in Q : IsTask(u)
  BY <1>3, <1>4
<1> QED
  BY <1>2, <1>5 DEF one

LEMMA HeadOK == TasksOK /\ tasks # <<>> => IsTask(Head(tasks)) /\ Len(Rest) = Len(tasks) - 1
<1> SUFFICES ASSUME TasksOK, tasks # <<>>
             PROVE  IsTask(Head(tasks)) /\ Len(Rest) = Len(tasks) - 1
  OBVIOUS
<1>1. PICK S : tasks \in Seq(S) /\ \A t \in S : IsTask(t)
  BY DEF TasksOK
<1>2. Head(tasks) \in S /\ Len(Rest) = Len(tasks) - 1
  BY <1>1 DEF Rest
<1> QED
  BY <1>1, <1>2

(* The tasks a FIFO that runs low leaves are requests to channels. *)
LEMMA AskedOK ==
  ASSUME NEW ch \in Sounds
  PROVE  \E R : AskChannels(ch) \in Seq(R) /\ \A t \in R : IsTask(t)
<1> DEFINE R == {Feed(n, ch) : n \in Channels}
           Ask(n) == IF n \in Channels THEN <<Feed(n, ch)>> ELSE <<>>
<1>1. Ask(1) \in Seq(R) /\ Ask(2) \in Seq(R)
  OBVIOUS
<1>2. AskChannels(ch) = Ask(1) \o Ask(2)
  BY DEF AskChannels
<1>3. \A t \in R : IsTask(t)
  BY DEF IsTask, Feed
<1> HIDE DEF Ask, R
<1>4. AskChannels(ch) \in Seq(R)
  BY <1>1, <1>2
<1> QED
  BY <1>3, <1>4

LEMMA TasksInit == Init => TasksOK
<1>1. Init => tasks \in Seq({})
  BY DEF Init
<1>2. \A t \in {} : IsTask(t)
  OBVIOUS
<1> QED
  BY <1>1, <1>2 DEF TasksOK

LEMMA TasksStep ==
  ASSUME TasksOK, [Next]_vars
  PROVE  TasksOK'
<1> DEFINE OK(s) == \E S : s \in Seq(S) /\ \A t \in S : IsTask(t)
<1>0. ASSUME OK(tasks') PROVE TasksOK'
  BY <1>0 DEF TasksOK, IsTask
<1>copy. \A n, d, by : IsTask(gpsp_dma_transfer(n, d, by))
  BY DEF gpsp_dma_transfer, IsTask
<1>1. CASE CopyWord
  <2> DEFINE t == Head(tasks)
             next == [t EXCEPT !.left = @ - 1, !.source = Adjusted(t.source, t.source_direction),
                        !.dest = Adjusted(t.dest, t.dest_direction)]
  <2>1. tasks # <<>> /\ t.do = "copy"
    BY <1>1 DEF CopyWord, Running
  <2>2. next.do = "copy"
    BY <2>1
  <2>3. IsTask(next)
    <3> HIDE DEF next
    <3> QED
      BY <2>2 DEF IsTask
  <2>4. \/ tasks' = <<next>> \o Rest
        \/ \E n \in Channels : \E value, r : trigger_dma(n, value, r, "dma", <<next>> \o Rest)
    BY <1>1 DEF CopyWord
  <2> HIDE DEF next
  <2>5. OK(<<next>> \o Rest)
    BY <2>1, <2>3, ReplacedOK
  <2>6. ASSUME NEW n \in Channels, NEW value, NEW r,
               trigger_dma(n, value, r, "dma", <<next>> \o Rest)
        PROVE  OK(tasks')
    <3>1. \/ tasks' = <<next>> \o Rest
          \/ tasks' = <<gpsp_dma_transfer(n, Loaded(n, value, r), "dma")>> \o (<<next>> \o Rest)
      BY <2>6 DEF trigger_dma
    <3>2. PICK S : <<next>> \o Rest \in Seq(S) /\ \A u \in S : IsTask(u)
      BY <2>5
    <3> DEFINE new == gpsp_dma_transfer(n, Loaded(n, value, r), "dma")
    <3>3. IsTask(new)
      BY <1>copy
    <3> HIDE DEF new
    <3>4. <<new>> \o (<<next>> \o Rest) \in Seq(S \cup {new})
      BY <3>2
    <3>5. \A u \in S \cup {new} : IsTask(u)
      BY <3>2, <3>3
    <3> QED
      BY <2>5, <3>1, <3>4, <3>5 DEF new
  <2> QED
    BY <1>0, <2>4, <2>5, <2>6
<1>2. CASE FinishTransfer
  BY <1>0, <1>2, <1>copy, ReplacedOK DEF FinishTransfer, Running
<1>3. CASE ServeBlank \/ ServeFifo
  <2>1. tasks # <<>>
    BY <1>3 DEF ServeBlank, ServeFifo, Running
  <2>2. tasks' = Rest \/ \E n, d, by : tasks' = <<gpsp_dma_transfer(n, d, by)>> \o Rest
    BY <1>3 DEF ServeBlank, ServeFifo, Serve
  <2> QED
    BY <1>0, <1>copy, <2>1, <2>2, ReplacedOK
<1>4. CASE sound_timer
  <2>1. tasks # <<>> /\ Head(tasks).do = "play"
    BY <1>4 DEF sound_timer, Running
  <2>2. Head(tasks).ch \in Sounds
    BY <2>1, HeadOK, SMTT(30) DEF IsTask
  <2>3. tasks' = Rest \/ tasks' = AskChannels(Head(tasks).ch) \o Rest
    BY <1>4 DEF sound_timer
  <2>4. OK(Rest)
    BY <1>copy, <2>1, ReplacedOK
  <2>5. OK(AskChannels(Head(tasks).ch) \o Rest)
    BY <2>1, <2>2, AskedOK, PushedOK
  <2> QED
    BY <1>0, <2>3, <2>4, <2>5
<1>5. CASE Game
  <2>1. \/ UNCHANGED tasks
        \/ \E n \in Channels : \E value, r : trigger_dma(n, value, r, "cpu", <<>>)
    BY <1>5 DEF Game, StoreRegisters, StoreControl, StoreFifo, StoreSoundControl
  <2>2. ASSUME NEW n \in Channels, NEW value, NEW r, trigger_dma(n, value, r, "cpu", <<>>)
        PROVE  OK(tasks')
    <3> DEFINE new == gpsp_dma_transfer(n, Loaded(n, value, r), "cpu")
    <3>1. tasks' = <<>> \/ tasks' = <<new>> \o <<>>
      BY <2>2 DEF trigger_dma
    <3>2. IsTask(new)
      BY <1>copy
    <3> HIDE DEF new
    <3>3. <<>> \in Seq({new}) /\ <<new>> \o <<>> \in Seq({new})
      OBVIOUS
    <3>4. tasks' \in Seq({new}) /\ \A u \in {new} : IsTask(u)
      BY <3>1, <3>2, <3>3
    <3> QED
      BY <3>4
  <2> QED
    BY <1>0, <2>1, <2>2 DEF TasksOK
<1>6. CASE Clock
  <2>1. ASSUME NEW timer, Overflow(timer) PROVE OK(tasks')
    <3> DEFINE Plays == {[do |-> "play", ch |-> ch] : ch \in Sounds}
               Play(ch) == IF ch \in Sounds /\ ds_timer[ch] = timer
                           THEN <<[do |-> "play", ch |-> ch]>> ELSE <<>>
    <3>1. tasks' = Play(0) \o Play(1)
      BY <2>1 DEF Overflow
    <3>2. ASSUME NEW ch PROVE Play(ch) \in Seq(Plays)
      BY AtMostOne
    <3>3. \A t \in Plays : IsTask(t)
      BY DEF IsTask
    <3> HIDE DEF Play, Plays
    <3>4. tasks' \in Seq(Plays)
      BY <3>1, <3>2
    <3> QED
      BY <3>3, <3>4
  <2>2. ASSUME NEW why, Blank(why) PROVE OK(tasks')
    <3> DEFINE Asked == {Request(n, why) : n \in Channels}
               Ask(n) == IF n \in Channels THEN <<Request(n, why)>> ELSE <<>>
    <3>1. tasks' = Ask(0) \o Ask(1) \o Ask(2) \o Ask(3)
      BY <2>2 DEF Blank
    <3>2. ASSUME NEW n PROVE Ask(n) \in Seq(Asked)
      BY AtMostOne, Zenon
    <3>3. \A t \in Asked : IsTask(t)
      BY DEF IsTask, Request
    <3> HIDE DEF Ask, Asked
    <3>4. tasks' \in Seq(Asked)
      BY <3>1, <3>2
    <3> QED
      BY <3>3, <3>4
  <2> QED
    BY <1>0, <1>6, <2>1, <2>2 DEF Clock
<1>7. CASE UNCHANGED vars
  BY <1>0, <1>7 DEF vars, TasksOK
<1> QED
  BY <1>1, <1>2, <1>3, <1>4, <1>5, <1>6, <1>7 DEF Next, Inside

(* A FIFO that runs low makes no channel transfer that its control register *)
(* says is off, if the game's sound DMAs repeat.                           *)
THEOREM FifoAsksEnabledOnly ==
  ASSUME SoundRepeats
  PROVE  Spec => OnlyEnabledTransfer
<1> DEFINE Inv == ChannelsOK /\ HooksOK /\ TasksOK
<1>1. Init => Inv
  BY ChannelsInit, TasksInit
<1>2. Inv /\ [Next]_vars => Inv'
  BY ChannelsStep, TasksStep
<1>3. ASSUME Inv, [Next]_vars, Running("feed"), Len(tasks') = Len(tasks), ~UNCHANGED vars
      PROVE  enabled[Head(tasks).n]
  <2> DEFINE t == Head(tasks)
  <2>1. tasks # <<>> /\ t.do = "feed"
    BY <1>3 DEF Running
  <2>2. ServeFifo
    BY <1>3, <2>1, Zenon DEF Next, Inside, CopyWord, FinishTransfer, ServeBlank, sound_timer, Running,
                      Game, StoreRegisters, StoreControl, StoreFifo, StoreSoundControl,
                      Clock, Overflow, Blank, Idle
  <2>3. t.n \in Channels /\ t.ch \in Sounds /\ Len(Rest) = Len(tasks) - 1
    BY <1>3, <2>1, HeadOK DEF IsTask
  <2>4. dma[t.n].direct_sound_channel = t.ch
    <3>1. Len(Rest) # Len(tasks)
      <4>1. Len(tasks) \in Nat
        BY <1>3 DEF TasksOK
      <4> QED
        BY <2>3, <4>1
    <3>2. dma[t.n].direct_sound_channel = t.ch \/ tasks' = Rest
      BY <2>2 DEF ServeFifo, Serve
    <3> QED
      BY <1>3, <3>1, <3>2
  <2>5. dma[t.n].start_type = "special"
    BY <1>3, <2>3, <2>4, DmaAssumption DEF HooksOK, Hooked, NO_DIRECT_SOUND
  <2> HIDE DEF t
  <2>6. dma[t.n].start_type # INACTIVE
    BY <2>5 DEF INACTIVE
  <2>7. enabled[t.n]
    BY <1>3, <2>3, <2>6, Zenon DEF ChannelsOK, Honest
  <2> QED
    BY <2>7 DEF t
<1>4. Inv /\ [Next]_vars
      => [Running("feed") /\ Len(tasks') = Len(tasks) => enabled[Head(tasks).n]]_vars
  BY <1>3
<1> HIDE DEF Inv
<1> QED
  BY <1>1, <1>2, <1>4, PTL DEF Spec, OnlyEnabledTransfer

-------------------------------------------------------------------------------
(* Samples. *)

Half == FifoSize \div 2
At(from, k) == IF from + k < FifoSize THEN from + k ELSE from + k - FifoSize
Byte == 0 .. FifoSize - 1

IsFifo(f) ==
  f \in [data : [Byte -> {"clear", "sample", "played"}], top : Byte, base : Byte]

(* How many bytes are still to be played; the FIFO of a sound that works is  *)
(* never empty, so top and base meet where it is full.                      *)
Level(f) == IF Fill(f) = 0 THEN FifoSize ELSE Fill(f)

(* What is still to be played was not, and what was is no longer a sample.  *)
Fresh(f) ==
  \A k \in Byte : IF k < Level(f) THEN f.data[At(f.base, k)] # "played"
                                  ELSE f.data[At(f.base, k)] # "sample"

(* Going round the ring once. *)
LEMMA AtMod ==
  ASSUME NEW a \in Byte, NEW k \in 0 .. FifoSize
  PROVE  (a + k) % FifoSize = At(a, k) /\ At(a, k) \in Byte
<1>1. FifoSize \in Nat /\ FifoSize >= 2
  BY DmaAssumption
<1>2. CASE a + k < FifoSize
  BY <1>1, <1>2 DEF At, Byte
<1>3. CASE a + k >= FifoSize
  <2>1. a + k \in FifoSize .. 2 * FifoSize - 1
    BY <1>1, <1>3 DEF Byte
  <2> QED
    BY <1>1, <2>1 DEF At, Byte
<1> QED
  BY <1>1, <1>2, <1>3 DEF Byte

LEMMA LevelIs ==
  ASSUME NEW f, IsFifo(f)
  PROVE  /\ Level(f) = IF f.top > f.base THEN f.top - f.base ELSE f.top - f.base + FifoSize
         /\ Level(f) \in 1 .. FifoSize
         /\ Fill(f) = IF Level(f) = FifoSize THEN 0 ELSE Level(f)
<1>1. FifoSize \in Nat /\ FifoSize >= 2
  BY DmaAssumption
<1>2. f.top \in Byte /\ f.base \in Byte
  BY DEF IsFifo
<1> DEFINE x == f.top - f.base
<1>3. x \in (1 - FifoSize) .. FifoSize - 1
  BY <1>1, <1>2 DEF Byte
<1>4. x >= 0 => x % FifoSize = x
  BY <1>1, <1>3
<1>5. x < 0 => x % FifoSize = x + FifoSize
  <2>1. ASSUME x < 0 PROVE x \in (1 - FifoSize) .. -1
    BY <1>1, <1>3, <2>1
  <2> QED
    BY <1>1, <2>1
<1>6. Fill(f) = x % FifoSize
  BY DEF Fill
<1>7. f.top > f.base <=> x > 0
  BY <1>1, <1>2 DEF Byte
<1> HIDE DEF x
<1> DEFINE r == x % FifoSize
<1> HIDE DEF r
<1>8. /\ Level(f) = IF x > 0 THEN x ELSE x + FifoSize
      /\ Level(f) \in 1 .. FifoSize
      /\ Fill(f) = IF Level(f) = FifoSize THEN 0 ELSE Level(f)
  <2>1. Fill(f) = r /\ (x >= 0 => r = x) /\ (x < 0 => r = x + FifoSize)
    BY <1>4, <1>5, <1>6 DEF r
  <2>2. x \in Int /\ x > 0 - FifoSize /\ x < FifoSize
    BY <1>1, <1>3
  <2>3. CASE x > 0
    BY <1>1, <2>1, <2>2, <2>3 DEF Level
  <2>4. CASE x = 0
    BY <1>1, <2>1, <2>2, <2>4 DEF Level
  <2>5. CASE x < 0
    BY <1>1, <2>1, <2>2, <2>5 DEF Level
  <2> QED
    BY <2>2, <2>3, <2>4, <2>5
<1> QED
  BY <1>7, <1>8 DEF x

(* A FIFO that was reset is full of silence. *)
LEMMA ClearedIsFresh == IsFifo(Cleared) /\ Fresh(Cleared) /\ Level(Cleared) = FifoSize
<1>1. FifoSize \in Nat /\ FifoSize >= 2
  BY DmaAssumption
<1>2. IsFifo(Cleared) /\ Cleared.top = 0 /\ Cleared.base = 0
  BY <1>1 DEF Cleared, IsFifo, Byte
<1>3. Level(Cleared) = FifoSize
  BY <1>1, <1>2, LevelIs
<1>4. \A s \in Byte : Cleared.data[s] = "clear"
  BY DEF Cleared, Byte
<1>5. ASSUME NEW k \in Byte PROVE At(0, k) \in Byte
  BY <1>1, <1>5 DEF At, Byte
<1> QED
  BY <1>2, <1>3, <1>4, <1>5 DEF Fresh

LEMMA AtInRing ==
  ASSUME NEW b \in Byte, NEW k \in Byte
  PROVE  At(b, k) \in Byte
<1>1. FifoSize \in Nat /\ FifoSize >= 2
  BY DmaAssumption
<1> QED
  BY <1>1 DEF At, Byte

LEMMA AtTwice ==
  ASSUME NEW b \in Byte, NEW k \in Byte
  PROVE  /\ k + 1 < FifoSize => At(At(b, 1), k) = At(b, k + 1) /\ At(b, k + 1) # b
         /\ k + 1 = FifoSize => At(At(b, 1), k) = b
<1>1. FifoSize \in Nat /\ FifoSize >= 2
  BY DmaAssumption
<1> QED
  BY <1>1 DEF At, Byte

LEMMA AtOnce ==
  ASSUME NEW b \in Byte, NEW j \in Byte, NEW k \in Byte, At(b, j) = At(b, k)
  PROVE  j = k
<1>1. FifoSize \in Nat /\ FifoSize >= 2
  BY DmaAssumption
<1> QED
  BY <1>1 DEF At, Byte

(* A FIFO out of which a byte has been played. *)
Unqueued(f) == [f EXCEPT !.base = (f.base + 1) % FifoSize,
                         !.data[f.base] = IF @ = "clear" THEN @ ELSE "played"]

LEMMA UnqueuedIsFresh ==
  ASSUME NEW f, IsFifo(f), Fresh(f), Level(f) > 1,
         NEW g, g = Unqueued(f)
  PROVE  /\ IsFifo(g) /\ Fresh(g) /\ Level(g) = Level(f) - 1
         /\ f.data[f.base] # "played"
<1>1. FifoSize \in Nat /\ FifoSize >= 2 /\ Level(f) \in 1 .. FifoSize
  BY DmaAssumption, LevelIs
<1>2. f.top \in Byte /\ f.base \in Byte /\ f.data \in [Byte -> {"clear", "sample", "played"}]
  BY DEF IsFifo
<1>3. (f.base + 1) % FifoSize = At(f.base, 1) /\ At(f.base, 1) \in Byte
  BY <1>1, <1>2, AtMod
<1>4. /\ g.top = f.top /\ g.base = At(f.base, 1)
      /\ g.data = [f.data EXCEPT ![f.base] = IF @ = "clear" THEN @ ELSE "played"]
      /\ g = [data |-> g.data, top |-> g.top, base |-> g.base]
  BY <1>3 DEF Unqueued, IsFifo
<1>5. IsFifo(g)
  BY <1>2, <1>3, <1>4 DEF IsFifo
<1>6. Level(g) = Level(f) - 1
  <2>1. /\ Level(f) = IF f.top > f.base THEN f.top - f.base ELSE f.top - f.base + FifoSize
        /\ Level(g) = IF g.top > g.base THEN g.top - g.base ELSE g.top - g.base + FifoSize
    BY <1>5, LevelIs
  <2> QED
    BY <1>1, <1>2, <1>4, <2>1, SMTT(30) DEF At, Byte
<1>7. ASSUME NEW k \in Byte
      PROVE  IF k < Level(g) THEN g.data[At(g.base, k)] # "played"
                             ELSE g.data[At(g.base, k)] # "sample"
  <2>1. CASE k + 1 < FifoSize
    <3>1. At(g.base, k) = At(f.base, k + 1) /\ At(f.base, k + 1) # f.base
      BY <1>2, <1>4, <2>1, AtTwice
    <3>2. k + 1 \in Byte /\ At(f.base, k + 1) \in Byte
      <4>1. k + 1 \in Byte
        BY <1>1, <2>1 DEF Byte
      <4> QED
        BY <1>2, <4>1, AtInRing
    <3>3. g.data[At(g.base, k)] = f.data[At(f.base, k + 1)]
      BY <1>2, <1>4, <3>1, <3>2
    <3>4. IF k + 1 < Level(f) THEN f.data[At(f.base, k + 1)] # "played"
                              ELSE f.data[At(f.base, k + 1)] # "sample"
      BY <3>2 DEF Fresh
    <3>5. k + 1 < Level(f) <=> k < Level(g)
      BY <1>1, <1>6 DEF Byte
    <3> QED
      BY <3>3, <3>4, <3>5
  <2>2. CASE k + 1 = FifoSize
    <3>1. At(g.base, k) = f.base
      BY <1>2, <1>4, <2>2, AtTwice
    <3>2. g.data[f.base] # "sample"
      BY <1>2, <1>4
    <3>3. ~ k < Level(g)
      BY <1>1, <1>6, <2>2 DEF Byte
    <3> QED
      BY <3>1, <3>2, <3>3
  <2> QED
    BY <1>1, <2>1, <2>2 DEF Byte
<1>8. f.data[f.base] # "played"
  <2>1. 0 \in Byte /\ At(f.base, 0) = f.base /\ 0 < Level(f)
    BY <1>1, <1>2 DEF At, Byte
  <2> QED
    BY <2>1 DEF Fresh
<1> QED
  BY <1>5, <1>6, <1>7, <1>8 DEF Fresh

(* A word goes where there is room for it. *)
LEMMA QueuedIsFresh ==
  ASSUME NEW f, IsFifo(f), Fresh(f), Level(f) + WordBytes <= FifoSize,
         NEW g, g = sound_timer_queue32(f)
  PROVE  /\ IsFifo(g) /\ Fresh(g) /\ Level(g) = Level(f) + WordBytes
         /\ \A s \in Next32(f) : f.data[s] # "sample"
<1> DEFINE u == Level(f)
<1>1. /\ FifoSize \in Nat /\ FifoSize >= 2 /\ u \in 1 .. FifoSize
      /\ WordBytes \in Nat \ {0} /\ u + WordBytes <= FifoSize
  BY DmaAssumption, LevelIs
<1>2. f.top \in Byte /\ f.base \in Byte /\ f.data \in [Byte -> {"clear", "sample", "played"}]
  BY DEF IsFifo
<1>3. f.top = At(f.base, u) /\ u < FifoSize
  BY <1>1, <1>2, LevelIs, SMTT(30) DEF At, Byte
<1>4. (f.top + WordBytes) % FifoSize = At(f.top, WordBytes) /\ At(f.top, WordBytes) \in Byte
  BY <1>1, <1>2, AtMod
<1>5. /\ g.top = At(f.top, WordBytes) /\ g.base = f.base
      /\ g.data = [s \in Byte |-> IF s \in Next32(f) THEN "sample" ELSE f.data[s]]
      /\ g = [data |-> g.data, top |-> g.top, base |-> g.base]
  BY <1>4 DEF sound_timer_queue32, IsFifo, Byte
<1>6. IsFifo(g)
  BY <1>2, <1>4, <1>5 DEF IsFifo
<1>7. Level(g) = u + WordBytes
  <2>1. /\ u = IF f.top > f.base THEN f.top - f.base ELSE f.top - f.base + FifoSize
        /\ Level(g) = IF g.top > g.base THEN g.top - g.base ELSE g.top - g.base + FifoSize
    BY <1>6, LevelIs
  <2> HIDE DEF u
  <2> QED
    BY <1>1, <1>2, <1>5, <2>1, SMTT(30) DEF At, Byte
<1> HIDE DEF u
<1>8. ASSUME NEW j \in 0 .. WordBytes - 1
      PROVE  /\ u + j \in Byte /\ (f.top + j) % FifoSize = At(f.base, u + j)
  <2>1. (f.top + j) % FifoSize = At(f.top, j)
    BY <1>1, <1>2, AtMod
  <2>2. u + j \in Byte /\ At(At(f.base, u), j) = At(f.base, u + j)
    BY <1>1, <1>2 DEF At, Byte
  <2> QED
    BY <1>3, <2>1, <2>2
<1>9. Next32(f) = {At(f.base, u + j) : j \in 0 .. WordBytes - 1}
  BY <1>8 DEF Next32
<1>10. \A s \in Next32(f) : f.data[s] # "sample"
  <2>1. ASSUME NEW j \in 0 .. WordBytes - 1 PROVE f.data[At(f.base, u + j)] # "sample"
    <3>1. u + j \in Byte /\ ~ u + j < u
      BY <1>1, <1>8
    <3> QED
      BY <3>1 DEF Fresh, u
  <2> QED
    BY <1>9, <2>1
<1>11. ASSUME NEW k \in Byte
       PROVE  IF k < Level(g) THEN g.data[At(g.base, k)] # "played"
                              ELSE g.data[At(g.base, k)] # "sample"
  <2>1. At(f.base, k) \in Byte
    BY <1>2, AtInRing
  <2>2. IF k < u THEN f.data[At(f.base, k)] # "played" ELSE f.data[At(f.base, k)] # "sample"
    BY DEF Fresh, u
  <2>3. g.data[At(g.base, k)] = IF At(f.base, k) \in Next32(f) THEN "sample"
                                ELSE f.data[At(f.base, k)]
    BY <1>5, <2>1
  <2>4. ASSUME At(f.base, k) \in Next32(f) PROVE k \in u .. u + WordBytes - 1
    <3>1. PICK j \in 0 .. WordBytes - 1 : At(f.base, k) = At(f.base, u + j)
      BY <1>9, <2>4
    <3>2. k = u + j
      BY <1>2, <1>8, <3>1, AtOnce
    <3> QED
      BY <1>1, <3>2
  <2>5. ASSUME k \in u .. u + WordBytes - 1 PROVE At(f.base, k) \in Next32(f)
    <3>1. k - u \in 0 .. WordBytes - 1 /\ k = u + (k - u)
      BY <1>1, <2>5
    <3> QED
      BY <1>9, <3>1
  <2>6. k \in Nat
    BY DEF Byte
  <2>7. CASE k < u
    BY <1>1, <1>7, <2>2, <2>3, <2>4, <2>6, <2>7
  <2>8. CASE k \in u .. u + WordBytes - 1
    BY <1>1, <1>7, <2>3, <2>5, <2>6, <2>8
  <2>9. CASE k >= u + WordBytes
    BY <1>1, <1>7, <2>2, <2>3, <2>4, <2>6, <2>9
  <2> QED
    BY <1>1, <2>6, <2>7, <2>8, <2>9
<1> QED
  BY <1>6, <1>7, <1>10, <1>11 DEF Fresh, u

-------------------------------------------------------------------------------
(* The open calls and who asks for samples. *)

IsSource(a) == IsAddress(a) /\ a.region \in Readable
IsSettings(r) ==
  r = [source |-> r.source, dest |-> r.dest, count |-> r.count]
  /\ IsSource(r.source) /\ IsAddress(r.dest)

IsTransfer(d) ==
  /\ IsSource(d.source_address) /\ IsAddress(d.dest_address)
  /\ d.direct_sound_channel # NO_DIRECT_SOUND =>
       d.length = FifoWords /\ d.dest_direction = "fixed" /\ d.source_direction # "reload"

IsCopy(t) ==
  /\ t = [do |-> "copy", n |-> t.n, by |-> t.by, left |-> t.left,
          source |-> t.source, source_direction |-> t.source_direction,
          dest |-> t.dest, dest_direction |-> t.dest_direction]
  /\ IsSource(t.source) /\ IsAddress(t.dest)
  /\ t.by = "fifo" => t.left \in Nat /\ t.dest_direction = "fixed"

IsCall(t) ==
  \/ t.do = "copy" /\ IsCopy(t)
  \/ t.do = "feed" /\ t.n \in Channels /\ t.n \in {1, 2} /\ t.ch \in Sounds
  \/ t.do = "play" /\ t.ch \in Sounds
  \/ t.do = "request" /\ t.n \in Channels

(* A feed copies to a FIFO only while it is innermost; under a feed there    *)
(* are only the second channel's for the same FIFO, and sounds to play.     *)
Under(t, u) ==
  /\ t.do \in {"feed", "play"} =>
       u.do = "play" \/ (u.do = "feed" /\ t.do = "feed" /\ u.ch = t.ch /\ t.n = 1 /\ u.n = 2)
  /\ u.do = "copy" /\ u.by = "fifo" => u.dest \notin {FIFO(ch) : ch \in Sounds}
Nested(ts) == \A i, j \in 1 .. Len(ts) : i < j => Under(ts[i], ts[j])

Asked(n, ch, ts) ==
  \E i \in 1 .. Len(ts) : ts[i].do = "feed" /\ ts[i].ch = ch /\ ts[i].n = n
(* The channel that feeds FIFO ch is asked, or copies to it. *)
Hungry(ch, ts, d) == \E n \in Channels : Feeders(ch, d) = {n} /\ Asked(n, ch, ts)
Fed(ch, ts, d) ==
  /\ ts # <<>>
  /\ ts[1].do = "copy" /\ ts[1].by = "fifo" /\ ts[1].dest = FIFO(ch)
  /\ Feeders(ch, d) = {ts[1].n}

Enough(ch, f, ts, d) ==
  /\ Level(f) >= Half
  /\ Fed(ch, ts, d) => /\ ~Hungry(ch, ts, d)
                       /\ Level(f) + ts[1].left * WordBytes <= FifoSize
                       /\ ts[1].left = 0 => Level(f) > Half
  /\ Hungry(ch, ts, d) => /\ ts[1].do = "feed" /\ ts[1].ch = ch
                          /\ Feeding(ch, d) /\ Level(f) = Half
  /\ ~Fed(ch, ts, d) /\ ~Hungry(ch, ts, d) => Level(f) > Half
  /\ (\E n \in Channels : Asked(n, ch, ts)) => \E n \in Channels : Feeders(ch, d) = {n}
CallsOK(ts) == (\A i \in 1 .. Len(ts) : IsCall(ts[i])) /\ Nested(ts)
ChannelOK(ch, f, ts, d) == Fresh(f) /\ Enough(ch, f, ts, d)

-------------------------------------------------------------------------------
(* Stacks of calls. *)

LEMMA HeadAndTail ==
  ASSUME NEW S, NEW ts \in Seq(S), ts # <<>>
  PROVE  /\ Len(ts) \in Nat \ {0} /\ Head(ts) = ts[1]
         /\ Tail(ts) \in Seq(S) /\ Len(Tail(ts)) = Len(ts) - 1
         /\ \A i \in 1 .. Len(ts) - 1 : Tail(ts)[i] = ts[i + 1]
  OBVIOUS

LEMMA OnTop ==
  ASSUME NEW S, NEW ts \in Seq(S), NEW t, NEW us, us = <<t>> \o ts
  PROVE  /\ us \in Seq(S \cup {t}) /\ us # <<>> /\ Len(us) = Len(ts) + 1
         /\ Len(ts) \in Nat /\ us[1] = t
         /\ \A i \in 1 .. Len(ts) : us[i + 1] = ts[i]
<1>1. <<t>> \in Seq(S \cup {t}) /\ ts \in Seq(S \cup {t})
  OBVIOUS
<1>2. us \in Seq(S \cup {t})
  BY <1>1
<1> QED
  BY <1>1, <1>2

(* A call that returns leaves the others as they are. *)
LEMMA PoppedCalls ==
  ASSUME NEW S, NEW ts \in Seq(S), ts # <<>>, CallsOK(ts)
  PROVE  /\ CallsOK(Tail(ts)) /\ IsCall(ts[1])
         /\ \A i \in 1 .. Len(Tail(ts)) : Under(ts[1], Tail(ts)[i])
<1> DEFINE r == Tail(ts)
<1>1. /\ Len(ts) \in Nat \ {0} /\ Len(r) = Len(ts) - 1
      /\ \A i \in 1 .. Len(ts) - 1 : r[i] = ts[i + 1]
  BY HeadAndTail
<1> HIDE DEF r
<1>2. ASSUME NEW i \in 1 .. Len(r)
      PROVE  i + 1 \in 1 .. Len(ts) /\ r[i] = ts[i + 1] /\ 1 < i + 1
  BY <1>1
<1>3. \A i \in 1 .. Len(r) : IsCall(r[i])
  BY <1>2 DEF CallsOK
<1>4. ASSUME NEW i \in 1 .. Len(r), NEW j \in 1 .. Len(r), i < j PROVE Under(r[i], r[j])
  <2>1. i + 1 < j + 1
    BY <1>4
  <2> QED
    BY <1>2, <2>1 DEF CallsOK, Nested
<1>5. 1 \in 1 .. Len(ts)
  BY <1>1
<1>6. \A i \in 1 .. Len(r) : Under(ts[1], r[i])
  BY <1>2, <1>5 DEF CallsOK, Nested
<1>7. CallsOK(r)
  BY <1>3, <1>4 DEF CallsOK, Nested
<1> QED
  BY <1>5, <1>6, <1>7 DEF CallsOK, r

LEMMA PushedCalls ==
  ASSUME NEW S, NEW ts \in Seq(S), CallsOK(ts), NEW t, IsCall(t),
         \A i \in 1 .. Len(ts) : Under(t, ts[i]), NEW us, us = <<t>> \o ts
  PROVE  CallsOK(us)
<1>1. /\ Len(us) = Len(ts) + 1 /\ Len(ts) \in Nat /\ us[1] = t
      /\ \A i \in 1 .. Len(ts) : us[i + 1] = ts[i]
  BY OnTop
<1>2. ASSUME NEW i \in 1 .. Len(us), i # 1 PROVE i - 1 \in 1 .. Len(ts) /\ us[i] = ts[i - 1]
  <2>1. i - 1 \in 1 .. Len(ts) /\ (i - 1) + 1 = i
    BY <1>1, <1>2
  <2> QED
    BY <1>1, <2>1
<1>3. \A i \in 1 .. Len(us) : IsCall(us[i])
  BY <1>1, <1>2 DEF CallsOK
<1>4. ASSUME NEW i \in 1 .. Len(us), NEW j \in 1 .. Len(us), i < j PROVE Under(us[i], us[j])
  <2>1. j # 1
    BY <1>4
  <2>2. CASE i = 1
    BY <1>1, <1>2, <2>1, <2>2
  <2>3. CASE i # 1
    <3>1. i - 1 < j - 1
      BY <1>4
    <3> QED
      BY <1>2, <2>1, <2>3, <3>1 DEF CallsOK, Nested
  <2> QED
    BY <2>2, <2>3
<1> QED
  BY <1>3, <1>4 DEF CallsOK, Nested

LEMMA AskedPopped ==
  ASSUME NEW S, NEW ts \in Seq(S), ts # <<>>, NEW n, NEW ch
  PROVE  Asked(n, ch, ts) <=> \/ ts[1].do = "feed" /\ ts[1].ch = ch /\ ts[1].n = n
                              \/ Asked(n, ch, Tail(ts))
<1> DEFINE r == Tail(ts)
<1>1. /\ Len(ts) \in Nat \ {0} /\ Len(r) = Len(ts) - 1
      /\ \A i \in 1 .. Len(ts) - 1 : r[i] = ts[i + 1]
  BY HeadAndTail
<1> HIDE DEF r
<1>2. ASSUME NEW i \in 1 .. Len(r) PROVE i + 1 \in 1 .. Len(ts) /\ r[i] = ts[i + 1]
  BY <1>1
<1>3. ASSUME NEW i \in 1 .. Len(ts), i # 1 PROVE i - 1 \in 1 .. Len(r) /\ ts[i] = r[i - 1]
  <2>1. i - 1 \in 1 .. Len(r) /\ (i - 1) + 1 = i /\ i - 1 \in 1 .. Len(ts) - 1
    BY <1>1, <1>3
  <2> QED
    BY <1>1, <2>1
<1>4. 1 \in 1 .. Len(ts)
  BY <1>1
<1>5. Asked(n, ch, ts) => \/ ts[1].do = "feed" /\ ts[1].ch = ch /\ ts[1].n = n
                          \/ Asked(n, ch, r)
  BY <1>3 DEF Asked
<1>6. Asked(n, ch, r) => Asked(n, ch, ts)
  BY <1>2 DEF Asked
<1>7. ts[1].do = "feed" /\ ts[1].ch = ch /\ ts[1].n = n => Asked(n, ch, ts)
  BY <1>4 DEF Asked
<1> QED
  BY <1>5, <1>6, <1>7 DEF r

LEMMA AskedPushed ==
  ASSUME NEW S, NEW ts \in Seq(S), NEW t, NEW us, us = <<t>> \o ts, NEW n, NEW ch
  PROVE  Asked(n, ch, us) <=> \/ t.do = "feed" /\ t.ch = ch /\ t.n = n
                              \/ Asked(n, ch, ts)
<1>1. us \in Seq(S \cup {t}) /\ us # <<>> /\ us[1] = t
  BY OnTop
<1>2. Tail(us) = ts
  OBVIOUS
<1>3. Asked(n, ch, us) <=> \/ us[1].do = "feed" /\ us[1].ch = ch /\ us[1].n = n
                           \/ Asked(n, ch, Tail(us))
  BY <1>1, AskedPopped
<1> QED
  BY <1>1, <1>2, <1>3

LEMMA NoneAsked ==
  ASSUME NEW n, NEW ch
  PROVE  ~ Asked(n, ch, << >>)
  BY DEF Asked

-------------------------------------------------------------------------------
(* What calls and transfers are made of. *)

LEMMA FifoAddresses ==
  ASSUME NEW ch \in Sounds, NEW n \in Channels
  PROVE  /\ IsAddress(FIFO(ch)) /\ FIFO(ch).region = IO
         /\ FIFO(ch) \notin {SAD(n), DAD(n), CNT(n)}
         /\ \A c \in Sounds : FIFO(c) = FIFO(ch) => c = ch
<1>1. ch \in {0, 1} /\ n \in 0 .. 3 /\ Sounds \subseteq {0, 1}
  BY DmaAssumption
<1>2. \A a, b : Address(IO, a) = Address(IO, b) => a = b
  BY DEF Address
<1>3. /\ 40 + ch # 44 + 3 * n /\ 40 + ch # 45 + 3 * n /\ 40 + ch # 46 + 3 * n
      /\ \A c \in Sounds : 40 + c = 40 + ch => c = ch
  BY <1>1
<1>4. IsAddress(FIFO(ch)) /\ FIFO(ch).region = IO
  BY DEF FIFO, IsAddress, Address
<1> QED
  BY <1>2, <1>3, <1>4 DEF FIFO, SAD, DAD, CNT

LEMMA AdjustedAddress ==
  ASSUME NEW a, IsAddress(a), NEW direction
  PROVE  /\ IsAddress(Adjusted(a, direction)) /\ Adjusted(a, direction).region = a.region
         /\ direction = "fixed" => Adjusted(a, direction) = a
<1>1. PICK w : w = CASE direction \in {"increment", "reload"} ->
                          IF a.word + 1 = Words(a.region) THEN 0 ELSE a.word + 1
                     [] direction = "decrement" ->
                          IF a.word = 0 THEN Words(a.region) - 1 ELSE a.word - 1
                     [] direction = "fixed" -> a.word
  OBVIOUS
<1>2. Adjusted(a, direction) = [a EXCEPT !.word = w]
  BY <1>1 DEF Adjusted
<1>3. a = [region |-> a.region, word |-> a.word]
  BY DEF IsAddress, Address
<1>4. [a EXCEPT !.word = w] = [region |-> a.region, word |-> w]
  BY <1>3
<1>5. direction = "fixed" => w = a.word
  BY <1>1
<1>6. IsAddress(Adjusted(a, direction)) /\ Adjusted(a, direction).region = a.region
  BY <1>2, <1>4 DEF IsAddress, Address
<1>7. direction = "fixed" => Adjusted(a, direction) = a
  BY <1>2, <1>3, <1>4, <1>5
<1> QED
  BY <1>6, <1>7

(* The copy a word further. *)
Onward(t) == [t EXCEPT !.left = @ - 1, !.source = Adjusted(t.source, t.source_direction),
                       !.dest = Adjusted(t.dest, t.dest_direction)]

LEMMA CopyFields ==
  ASSUME NEW n, NEW by, NEW left, NEW source, NEW from, NEW dest, NEW to,
         NEW t, t = [do |-> "copy", n |-> n, by |-> by, left |-> left, source |-> source,
                     source_direction |-> from, dest |-> dest, dest_direction |-> to],
         NEW left2, NEW source2, NEW dest2,
         NEW u, u = [t EXCEPT !.left = left2, !.source = source2, !.dest = dest2]
  PROVE  u = [do |-> "copy", n |-> n, by |-> by, left |-> left2, source |-> source2,
              source_direction |-> from, dest |-> dest2, dest_direction |-> to]
  OBVIOUS

LEMMA OnwardCopy ==
  ASSUME NEW t, IsCopy(t), t.left > 0, NEW u, u = Onward(t)
  PROVE  /\ IsCopy(u) /\ u.do = "copy" /\ u.n = t.n /\ u.by = t.by /\ u.left = t.left - 1
         /\ t.by = "fifo" => u.dest = t.dest
<1>1. PICK source, dest, left : /\ source = Adjusted(t.source, t.source_direction)
                                /\ dest = Adjusted(t.dest, t.dest_direction)
                                /\ left = t.left - 1
  OBVIOUS
<1>2. u = [t EXCEPT !.left = left, !.source = source, !.dest = dest]
  BY <1>1 DEF Onward
<1>3. t = [do |-> "copy", n |-> t.n, by |-> t.by, left |-> t.left,
           source |-> t.source, source_direction |-> t.source_direction,
           dest |-> t.dest, dest_direction |-> t.dest_direction]
  BY DEF IsCopy
<1>4. /\ u.do = "copy" /\ u.n = t.n /\ u.by = t.by /\ u.left = left
      /\ u.source = source /\ u.dest = dest
      /\ u.source_direction = t.source_direction /\ u.dest_direction = t.dest_direction
      /\ u = [do |-> "copy", n |-> u.n, by |-> u.by, left |-> u.left,
              source |-> u.source, source_direction |-> u.source_direction,
              dest |-> u.dest, dest_direction |-> u.dest_direction]
  <2>0. PICK n, by, old, was, from, at, to :
          /\ n = t.n /\ by = t.by /\ old = t.left /\ was = t.source
          /\ from = t.source_direction /\ at = t.dest /\ to = t.dest_direction
    OBVIOUS
  <2>1. u = [do |-> "copy", n |-> n, by |-> by, left |-> left,
             source |-> source, source_direction |-> from,
             dest |-> dest, dest_direction |-> to]
    <3>1. t = [do |-> "copy", n |-> n, by |-> by, left |-> old, source |-> was,
               source_direction |-> from, dest |-> at, dest_direction |-> to]
      BY <1>3, <2>0
    <3> QED
      BY <1>2, <3>1, CopyFields
  <2> QED
    BY <2>0, <2>1
<1>5. IsSource(source) /\ IsAddress(dest)
      /\ (t.dest_direction = "fixed" => dest = t.dest)
  BY <1>1, AdjustedAddress DEF IsCopy, IsSource
<1>6. t.by = "fifo" => u.left \in Nat /\ t.dest_direction = "fixed"
  <2>1. t.by = "fifo" => t.left \in Nat /\ t.dest_direction = "fixed"
    BY DEF IsCopy
  <2> QED
    BY <1>1, <1>4, <2>1
<1>7. IsCopy(u)
  BY <1>4, <1>5, <1>6 DEF IsCopy
<1> QED
  BY <1>1, <1>4, <1>5, <1>6, <1>7

(* A transfer as it begins. *)
LEMMA BegunCopy ==
  ASSUME NEW n, NEW d, IsTransfer(d), NEW by,
         by = "fifo" => d.direct_sound_channel # NO_DIRECT_SOUND,
         NEW t, t = gpsp_dma_transfer(n, d, by)
  PROVE  /\ IsCopy(t) /\ t.do = "copy" /\ t.n = n /\ t.by = by /\ t.dest = d.dest_address
         /\ d.direct_sound_channel # NO_DIRECT_SOUND /\ d.dest_address.region = IO
              => t.left = FifoWords
<1>1. PICK left : left = IF d.source_direction # "reload"
                            /\ HasLoop(d.source_address.region, d.dest_address.region)
                         THEN d.length ELSE 0
  OBVIOUS
<1>2. t = [do |-> "copy", n |-> n, by |-> by, left |-> left,
           source |-> d.source_address, source_direction |-> d.source_direction,
           dest |-> d.dest_address, dest_direction |-> d.dest_direction]
  BY <1>1 DEF gpsp_dma_transfer
<1>3. /\ t.do = "copy" /\ t.n = n /\ t.by = by /\ t.left = left
      /\ t.source = d.source_address /\ t.source_direction = d.source_direction
      /\ t.dest = d.dest_address /\ t.dest_direction = d.dest_direction
      /\ t = [do |-> "copy", n |-> t.n, by |-> t.by, left |-> t.left,
              source |-> t.source, source_direction |-> t.source_direction,
              dest |-> t.dest, dest_direction |-> t.dest_direction]
  BY <1>2
<1>4. d.direct_sound_channel # NO_DIRECT_SOUND
      => /\ d.length = FifoWords /\ FifoWords \in Nat /\ d.dest_direction = "fixed"
         /\ left \in {0, FifoWords}
  BY <1>1, DmaAssumption DEF IsTransfer
<1>5. IsCopy(t)
  BY <1>3, <1>4 DEF IsCopy, IsTransfer
<1>6. d.direct_sound_channel # NO_DIRECT_SOUND /\ d.dest_address.region = IO
      => left = FifoWords
  <2>1. \A region \in Readable : HasLoop(region, IO)
    BY DEF HasLoop, Readable, Writable, IO
  <2> QED
    BY <1>1, <2>1 DEF IsTransfer, IsSource
<1> QED
  BY <1>3, <1>5, <1>6

-------------------------------------------------------------------------------
(* What a game stores, and what a channel makes of it. *)

TransfersOK(d, r) ==
  /\ DOMAIN r = Channels
  /\ \A n \in Channels : IsTransfer(d[n]) /\ IsSettings(r[n])

LEMMA StoredSettings ==
  ASSUME SoundFromMemory, NEW n \in Channels, NEW r \in Registers(n)
  PROVE  IsSettings(r)
  BY DmaAssumption DEF SoundFromMemory, IsSettings, IsSource

LEMMA OtherSettings ==
  ASSUME NEW r, IsSettings(r), NEW x, IsSettings(x)
  PROVE  /\ IsSettings([r EXCEPT !.count = x.count])
         /\ IsSettings([r EXCEPT !.source = x.source])
         /\ IsSettings([r EXCEPT !.dest = x.dest])
<1>1. PICK source, dest, count : r = [source |-> source, dest |-> dest, count |-> count]
  BY DEF IsSettings
<1>2. IsSource(source) /\ IsAddress(dest) /\ IsSource(x.source) /\ IsAddress(x.dest)
  BY <1>1 DEF IsSettings
<1>3. [r EXCEPT !.count = x.count] = [source |-> source, dest |-> dest, count |-> x.count]
  BY <1>1
<1>4. [r EXCEPT !.source = x.source] = [source |-> x.source, dest |-> dest, count |-> count]
  BY <1>1
<1>5. [r EXCEPT !.dest = x.dest] = [source |-> source, dest |-> x.dest, count |-> count]
  BY <1>1
<1>6. ASSUME NEW s, NEW d, NEW c, IsSource(s), IsAddress(d)
      PROVE  IsSettings([source |-> s, dest |-> d, count |-> c])
  BY <1>6 DEF IsSettings
<1> QED
  BY <1>2, <1>3, <1>4, <1>5, <1>6

LEMMA NothingIsSource == IsSource(Nothing) /\ IsAddress(Nothing)
  BY DEF IsSource, IsAddress, Nothing, Address, Readable

LEMMA LoadedTransfer ==
  ASSUME SoundFromMemory, NEW n \in Channels, NEW value \in Controls(n) \cup DmaData,
         NEW r, IsSettings(r), DOMAIN dma[n] = Fields,
         dma[n].direct_sound_channel = NO_DIRECT_SOUND
  PROVE  IsTransfer(Loaded(n, value, r)) /\ Loaded(n, value, r).dest_address = r.dest
<1> DEFINE d == dma[n]
           common == [d EXCEPT !.source_address = r.source, !.dest_address = r.dest,
                       !.source_direction = value.source, !.repeat = value.repeat,
                       !.start_type = value.start]
<1>1. /\ DOMAIN common = Fields
      /\ common.source_address = r.source /\ common.dest_address = r.dest
      /\ common.source_direction = value.source
      /\ common.direct_sound_channel = NO_DIRECT_SOUND
  BY DEF Fields
<1>2. Loaded(n, value, r)
      = IF n \in {1, 2} /\ value.start = "special"
        THEN [common EXCEPT !.length = FifoWords, !.dest_direction = "fixed",
                !.direct_sound_channel = IF r.dest = FIFO(1) THEN 1 ELSE 0]
        ELSE [common EXCEPT !.length = r.count, !.dest_direction = value.dest]
  BY DEF Loaded
<1> HIDE DEF common, d
<1>3. value.start = "special" => value.source # "reload"
  BY DEF SoundFromMemory
<1>4. IsSource(r.source) /\ IsAddress(r.dest)
  BY DEF IsSettings
<1> DEFINE l == Loaded(n, value, r)
<1>5. /\ l.source_address = r.source /\ l.dest_address = r.dest
      /\ l.direct_sound_channel # NO_DIRECT_SOUND =>
           /\ l.length = FifoWords /\ l.dest_direction = "fixed"
           /\ l.source_direction = value.source /\ value.start = "special"
  BY <1>1, <1>2 DEF Fields
<1> HIDE DEF l
<1>6. IsTransfer(l) /\ l.dest_address = r.dest
  BY <1>3, <1>4, <1>5 DEF IsTransfer
<1> QED
  BY <1>6 DEF l

LEMMA StoppedTransfer ==
  ASSUME NEW d, DOMAIN d = Fields, d.direct_sound_channel = NO_DIRECT_SOUND
  PROVE  IsTransfer(Stopped(d))
<1> DEFINE e == Stopped(d)
<1>1. /\ e.source_address = Nothing /\ e.dest_address = Nothing
      /\ e.direct_sound_channel = NO_DIRECT_SOUND
  BY DEF Stopped, Fields
<1> HIDE DEF e
<1>2. IsTransfer(e)
  BY <1>1, NothingIsSource DEF IsTransfer
<1> QED
  BY <1>2 DEF e

LEMMA OffTransfer ==
  ASSUME NEW d, DOMAIN d = Fields
  PROVE  IsTransfer(Off(d))
<1> DEFINE e == [d EXCEPT !.direct_sound_channel = NO_DIRECT_SOUND]
<1>1. DOMAIN e = Fields /\ e.direct_sound_channel = NO_DIRECT_SOUND
  BY DEF Fields
<1>2. Off(d) = Stopped(e)
  BY DEF Off
<1> HIDE DEF e
<1> QED
  BY <1>1, <1>2, StoppedTransfer

(* Whom a FIFO asks depends on what the channels are hooked to. *)
LEMMA SameFeeders ==
  ASSUME NEW d, NEW e, NEW ch,
         \A n \in Channels : e[n].direct_sound_channel = d[n].direct_sound_channel
  PROVE  Feeders(ch, e) = Feeders(ch, d)
  BY DEF Feeders, Feeds

Stored(n) == Controls(n) \cup DmaData
MayCopy(us, rest, by) ==
  us = rest \/ \E t : IsCopy(t) /\ t.by = by /\ t.do = "copy" /\ us = <<t>> \o rest

LEMMA TriggeredTransfers ==
  ASSUME SoundFromMemory, ChannelsOK, HooksOK, TransfersOK(dma, registers),
         NEW n \in Channels, NEW value \in Stored(n),
         NEW r, IsSettings(r), NEW by, by # "fifo", NEW rest,
         trigger_dma(n, value, r, by, rest)
  PROVE  TransfersOK(dma', registers') /\ MayCopy(tasks', rest, by)
<1>0. value \in Controls(n) \cup DmaData
  BY DEF Stored
<1>1. DOMAIN dma[n] = Fields /\ Hooked(dma[n]) /\ DOMAIN dma = Channels
  BY DEF ChannelsOK, HooksOK, Honest
<1>2. /\ DOMAIN registers' = Channels
      /\ \A m \in Channels : IsSettings(registers'[m])
  BY DEF trigger_dma, TransfersOK
<1>3. ASSUME NEW d, IsTransfer(d), dma' = [dma EXCEPT ![n] = d]
      PROVE  TransfersOK(dma', registers')
  BY <1>1, <1>2, <1>3 DEF TransfersOK
<1>4. CASE Starts(n, value)
  <2>1. dma[n].direct_sound_channel = NO_DIRECT_SOUND
    BY <1>1, <1>4 DEF Starts, Hooked, INACTIVE
  <2>2. IsTransfer(Loaded(n, value, r))
    BY <1>0, <1>1, <2>1, LoadedTransfer
  <2>3. dma' = [dma EXCEPT ![n] = Loaded(n, value, r)]
    <3>1. value.enable
      BY <1>4 DEF Starts
    <3> QED
      BY <1>4, <3>1 DEF trigger_dma
  <2>4. \/ tasks' = rest
        \/ tasks' = <<gpsp_dma_transfer(n, Loaded(n, value, r), by)>> \o rest
    BY Zenon DEF trigger_dma
  <2>5. PICK t : t = gpsp_dma_transfer(n, Loaded(n, value, r), by)
    OBVIOUS
  <2>6. IsCopy(t) /\ t.by = by /\ t.do = "copy"
    BY <2>2, <2>5, BegunCopy
  <2> QED
    BY <1>3, <2>2, <2>3, <2>4, <2>5, <2>6 DEF MayCopy
<1>5. CASE ~Starts(n, value) /\ ~value.enable
  <2>1. dma' = [dma EXCEPT ![n] = Off(dma[n])] /\ tasks' = rest
    BY <1>5 DEF trigger_dma
  <2> QED
    BY <1>1, <1>3, <2>1, OffTransfer DEF MayCopy
<1>6. CASE ~Starts(n, value) /\ value.enable
  <2>1. dma' = dma /\ tasks' = rest
    BY <1>6 DEF trigger_dma
  <2> QED
    BY <1>2, <2>1 DEF TransfersOK, MayCopy
<1> QED
  BY <1>4, <1>5, <1>6

(* The end of a transfer: the channel keeps its FIFO. *)
LEMMA FinishedTransfers ==
  ASSUME ChannelsOK, HooksOK, TransfersOK(dma, registers), FinishTransfer,
         IsCopy(Head(tasks))
  PROVE  /\ TransfersOK(dma', registers')
         /\ \A ch : Feeders(ch, dma') = Feeders(ch, dma)
<1> DEFINE t == Head(tasks)
           d == dma[t.n]
           done == ~d.repeat \/ d.start_type = "immediately"
           to == IF t.dest_direction = "reload" THEN d.dest_address ELSE t.dest
           left == [d EXCEPT !.source_address = t.source,
                             !.dest_address = IF t.dest_direction = "reload" THEN @ ELSE t.dest]
           last == IF done THEN Stopped(left) ELSE left
<1>1. dma' = [dma EXCEPT ![t.n] = last] /\ registers' = registers
  BY DEF FinishTransfer
<1>2. DOMAIN dma = Channels /\ IsSource(t.source) /\ IsAddress(t.dest)
  BY DEF ChannelsOK, IsCopy
<1>3. ASSUME t.n \in Channels
      PROVE  IsTransfer(last) /\ last.direct_sound_channel = d.direct_sound_channel
  <2>1. DOMAIN d = Fields /\ Hooked(d) /\ IsTransfer(d)
    BY <1>3 DEF ChannelsOK, Honest, HooksOK, TransfersOK
  <2>2. IsAddress(to)
    BY <1>2, <2>1 DEF IsTransfer
  <2> HIDE DEF d
  <2>3. left = [d EXCEPT !.source_address = t.source, !.dest_address = to]
    BY Zenon
  <2> HIDE DEF to, t, left
  <2>4. /\ DOMAIN left = Fields /\ left.direct_sound_channel = d.direct_sound_channel
        /\ left.source_address = t.source /\ left.dest_address = to
        /\ left.length = d.length /\ left.source_direction = d.source_direction
        /\ left.dest_direction = d.dest_direction
    BY <2>1, <2>3 DEF Fields
  <2>5. IsTransfer(left)
    BY <1>2, <2>1, <2>2, <2>4 DEF IsTransfer, t
  <2>6. CASE done
    <3>1. d.direct_sound_channel = NO_DIRECT_SOUND
      BY <2>1, <2>6 DEF Hooked
    <3> QED
      BY <2>4, <2>6, <3>1, StoppedTransfer, StoppedFields
  <2>7. CASE ~done
    BY <2>4, <2>5, <2>7
  <2> QED
    BY <2>6, <2>7
<1> HIDE DEF last, t
<1>4. TransfersOK(dma', registers')
  BY <1>1, <1>2, <1>3 DEF TransfersOK
<1>5. \A n \in Channels : dma'[n].direct_sound_channel = dma[n].direct_sound_channel
  BY <1>1, <1>2, <1>3
<1> QED
  BY <1>4, <1>5, SameFeeders

-------------------------------------------------------------------------------
(* Enough samples, one step after another. *)

LEMMA NotAskedNotHungry ==
  ASSUME NEW ch, NEW ts, NEW d, \A n \in Channels : ~ Asked(n, ch, ts)
  PROVE  ~ Hungry(ch, ts, d)
  BY DEF Hungry

(* Nothing is copied to the FIFO, and nobody new is asked for samples. *)
LEMMA QuietStep ==
  ASSUME NEW ch, NEW f, NEW ts, NEW d, NEW us, NEW e,
         Enough(ch, f, ts, d), ~ Fed(ch, ts, d), ~ Hungry(ch, ts, d), ~ Fed(ch, us, e),
         \A n \in Channels : Asked(n, ch, us) => Asked(n, ch, ts),
         Feeders(ch, d) # {} => Feeders(ch, e) = Feeders(ch, d)
  PROVE  Enough(ch, f, us, e)
<1>1. Level(f) >= Half /\ Level(f) > Half
  BY DEF Enough
<1>2. ASSUME NEW n \in Channels, Asked(n, ch, us)
      PROVE  (\E m \in Channels : Feeders(ch, d) = {m}) /\ Feeders(ch, e) = Feeders(ch, d)
  <2>1. \E m \in Channels : Feeders(ch, d) = {m}
    BY <1>2 DEF Enough
  <2> QED
    BY <2>1
<1>3. ~ Hungry(ch, us, e)
  <2>1. ASSUME NEW n \in Channels, Feeders(ch, e) = {n}, Asked(n, ch, us) PROVE FALSE
    <3>1. Feeders(ch, d) = {n} /\ Asked(n, ch, ts)
      BY <1>2, <2>1
    <3> QED
      BY <3>1 DEF Hungry
  <2> QED
    BY <2>1 DEF Hungry
<1>4. (\E n \in Channels : Asked(n, ch, us)) => \E n \in Channels : Feeders(ch, e) = {n}
  BY <1>2
<1> QED
  BY <1>1, <1>3, <1>4 DEF Enough

(* A word of the samples that were asked for. *)
LEMMA WordsFit ==
  ASSUME NEW l \in Nat \ {0}
  PROVE  /\ l * WordBytes \in Nat /\ l * WordBytes >= WordBytes
         /\ (l - 1) * WordBytes = l * WordBytes - WordBytes
<1>1. WordBytes \in Nat \ {0}
  BY DmaAssumption
<1> QED
  BY <1>1

LEMMA FeedStep ==
  ASSUME NEW ch, NEW f, NEW ts, NEW d, NEW g, NEW us,
         Enough(ch, f, ts, d), Fed(ch, ts, d), ts[1].left \in Nat \ {0},
         Level(f) \in Nat, Level(g) = Level(f) + WordBytes,
         us # <<>>, us[1].do = "copy", us[1].by = "fifo", us[1].dest = FIFO(ch),
         us[1].n = ts[1].n, us[1].left = ts[1].left - 1,
         \A n \in Channels : Asked(n, ch, us) => Asked(n, ch, ts)
  PROVE  Enough(ch, g, us, d)
<1> DEFINE l == ts[1].left
<1>1. /\ FifoSize \in Nat /\ Half \in Nat /\ WordBytes \in Nat \ {0}
  BY DmaAssumption DEF Half
<1>2. /\ l * WordBytes \in Nat /\ l * WordBytes >= WordBytes
      /\ (l - 1) * WordBytes = l * WordBytes - WordBytes
  BY WordsFit
<1>3. Level(f) >= Half /\ ~ Hungry(ch, ts, d) /\ Level(f) + l * WordBytes <= FifoSize
  BY DEF Enough
<1>4. Fed(ch, us, d)
  BY DEF Fed
<1>5. ~ Hungry(ch, us, d)
  BY <1>3 DEF Hungry
<1>6. (\E n \in Channels : Asked(n, ch, us)) => \E n \in Channels : Feeders(ch, d) = {n}
  BY DEF Enough
<1> HIDE DEF l
<1>7. us[1].left = l - 1
  BY DEF l
<1>8. Level(g) > Half /\ Level(g) + (l - 1) * WordBytes <= FifoSize
  BY <1>1, <1>2, <1>3
<1>9. Level(g) >= Half
  BY <1>1, <1>8
<1> QED
  BY <1>4, <1>5, <1>6, <1>7, <1>8, <1>9 DEF Enough

(* The samples that were asked for have come. *)
LEMMA FedStep ==
  ASSUME NEW ch, NEW f, NEW ts, NEW d, NEW us, NEW e,
         Enough(ch, f, ts, d), Fed(ch, ts, d), ts[1].left = 0,
         ~ Fed(ch, us, e), Feeders(ch, e) = Feeders(ch, d),
         \A n \in Channels : Asked(n, ch, us) => Asked(n, ch, ts)
  PROVE  Enough(ch, f, us, e)
<1>1. Level(f) >= Half /\ Level(f) > Half /\ ~ Hungry(ch, ts, d)
  BY DEF Enough
<1>2. ~ Hungry(ch, us, e)
  BY <1>1 DEF Hungry
<1>3. (\E n \in Channels : Asked(n, ch, us)) => \E n \in Channels : Feeders(ch, e) = {n}
  BY DEF Enough
<1> QED
  BY <1>1, <1>2, <1>3 DEF Enough

(* The channel that feeds the FIFO is asked, and starts to copy. *)
LEMMA ServedStep ==
  ASSUME NEW ch, NEW f, NEW ts, NEW d, NEW us, NEW n \in Channels,
         Enough(ch, f, ts, d), Hungry(ch, ts, d), Level(f) \in Nat,
         Feeders(ch, d) = {n},
         us # <<>>, us[1].do = "copy", us[1].by = "fifo", us[1].dest = FIFO(ch),
         us[1].n = n, us[1].left = FifoWords, ~ Asked(n, ch, us)
  PROVE  Enough(ch, f, us, d)
<1>1. /\ FifoSize \in Nat /\ FifoWords \in Nat \ {0}
      /\ FifoWords * WordBytes <= FifoSize - Half /\ Half \in Nat
      /\ FifoWords * WordBytes \in Nat
  BY DmaAssumption, WordsFit DEF Half
<1>2. Level(f) = Half
  BY DEF Enough
<1>3. Fed(ch, us, d)
  BY DEF Fed
<1>4. ~ Hungry(ch, us, d)
  BY DEF Hungry
<1>5. Level(f) >= Half /\ Level(f) + us[1].left * WordBytes <= FifoSize /\ us[1].left # 0
  BY <1>1, <1>2
<1> QED
  BY <1>3, <1>4, <1>5 DEF Enough

(* A byte is played; whoever feeds the FIFO is asked as soon as half is left. *)
LEMMA PlayedStep ==
  ASSUME NEW ch, NEW f, NEW ts, NEW d, NEW g, NEW us, NEW n \in Channels,
         Enough(ch, f, ts, d), ~ Fed(ch, ts, d), ~ Hungry(ch, ts, d), Level(f) \in Nat,
         Feeders(ch, d) = {n}, Feeding(ch, d), Level(g) = Level(f) - 1, ~ Fed(ch, us, d),
         Level(g) = Half => Asked(n, ch, us) /\ us[1].do = "feed" /\ us[1].ch = ch,
         Level(g) > Half => \A m \in Channels : ~ Asked(m, ch, us)
  PROVE  Enough(ch, g, us, d)
<1>1. Half \in Nat
  BY DmaAssumption DEF Half
<1>2. Level(f) > Half
  BY DEF Enough
<1>3. Level(g) >= Half /\ (Level(g) = Half \/ Level(g) > Half)
  BY <1>1, <1>2
<1>4. \E m \in Channels : Feeders(ch, d) = {m}
  OBVIOUS
<1>5. CASE Level(g) = Half
  <2>1. Hungry(ch, us, d) /\ us[1].do = "feed" /\ us[1].ch = ch
    BY <1>5 DEF Hungry
  <2> QED
    BY <1>3, <1>4, <1>5, <2>1 DEF Enough
<1>6. CASE Level(g) > Half
  <2>1. ~ Hungry(ch, us, d)
    BY <1>6, NotAskedNotHungry
  <2> QED
    BY <1>3, <1>4, <1>6, <2>1 DEF Enough
<1> QED
  BY <1>3, <1>5, <1>6

(* A FIFO that was reset. *)
LEMMA ResetStep ==
  ASSUME NEW ch, NEW d
  PROVE  Enough(ch, Cleared, << >>, d)
<1>1. FifoSize \in Nat /\ FifoSize >= 2 /\ Half \in Nat /\ FifoSize > Half
  BY DmaAssumption DEF Half
<1>2. Level(Cleared) > Half /\ Level(Cleared) >= Half
  BY <1>1, ClearedIsFresh
<1>3. \A n : ~ Asked(n, ch, << >>)
  BY NoneAsked
<1>4. ~ Hungry(ch, << >>, d)
  BY <1>3, NotAskedNotHungry
<1>5. ~ Fed(ch, << >>, d)
  BY DEF Fed
<1> QED
  BY <1>2, <1>3, <1>4, <1>5 DEF Enough

-------------------------------------------------------------------------------
(* The stack of calls, one step after another. *)

LEMMA NotFedBelow ==
  ASSUME NEW S, NEW ts \in Seq(S), ts # <<>>, CallsOK(ts), NEW ch \in Sounds, NEW d
  PROVE  ~ Fed(ch, Tail(ts), d)
<1> DEFINE r == Tail(ts)
<1>1. r \in Seq(S) /\ \A i \in 1 .. Len(r) : Under(ts[1], r[i])
  BY HeadAndTail, PoppedCalls
<1> HIDE DEF r
<1>2. r # <<>> => 1 \in 1 .. Len(r)
  BY <1>1
<1>3. r # <<>> => ~ (r[1].do = "copy" /\ r[1].by = "fifo" /\ r[1].dest = FIFO(ch))
  BY <1>1, <1>2 DEF Under
<1> QED
  BY <1>3 DEF Fed, r

LEMMA NotFedOnTop ==
  ASSUME NEW S, NEW ts \in Seq(S), NEW t, NEW ch, NEW d,
         ~ (t.by = "fifo" /\ t.dest = FIFO(ch))
  PROVE  ~ Fed(ch, <<t>> \o ts, d)
<1>1. PICK us : us = <<t>> \o ts
  OBVIOUS
<1>2. us[1] = t
  BY <1>1, OnTop
<1>3. ~ Fed(ch, us, d)
  BY <1>2 DEF Fed
<1> QED
  BY <1>1, <1>3

(* A copy in place of the innermost call. *)
LEMMA CopyInstead ==
  ASSUME NEW S, NEW ts \in Seq(S), ts # <<>>, CallsOK(ts), NEW t, IsCopy(t), t.do = "copy",
         NEW us, us = <<t>> \o Tail(ts)
  PROVE  /\ CallsOK(us) /\ \E R : us \in Seq(R)
         /\ \A n, ch : Asked(n, ch, us) <=> Asked(n, ch, Tail(ts))
         /\ \A n, ch : Asked(n, ch, us) => Asked(n, ch, ts)
<1> DEFINE r == Tail(ts)
<1>1. /\ r \in Seq(S) /\ CallsOK(r)
      /\ \A i \in 1 .. Len(r) : Under(ts[1], r[i])
  BY HeadAndTail, PoppedCalls
<1>2. \A n, ch : Asked(n, ch, r) => Asked(n, ch, ts)
  BY AskedPopped
<1> HIDE DEF r
<1>3. us = <<t>> \o r
  BY DEF r
<1>4. IsCall(t)
  BY DEF IsCall
<1>5. \A i \in 1 .. Len(r) : Under(t, r[i])
  BY <1>1 DEF Under
<1>6. CallsOK(us)
  BY <1>1, <1>3, <1>4, <1>5, PushedCalls
<1>7. \E R : us \in Seq(R)
  BY <1>1, <1>3, OnTop
<1>8. ASSUME NEW n, NEW ch PROVE Asked(n, ch, us) <=> Asked(n, ch, r)
  <2>1. Asked(n, ch, us) <=> (t.do = "feed" /\ t.ch = ch /\ t.n = n) \/ Asked(n, ch, r)
    BY <1>1, <1>3, AskedPushed
  <2> QED
    BY <2>1
<1> QED
  BY <1>2, <1>6, <1>7, <1>8 DEF r

(* A copy on top of another, which does not go to a FIFO. *)
LEMMA CopyOnTop ==
  ASSUME NEW S, NEW ts \in Seq(S), ts # <<>>, CallsOK(ts), NEW t, IsCopy(t), t.do = "copy",
         ts[1].do = "copy", \A ch \in Sounds : ts[1].dest # FIFO(ch) \/ ts[1].by # "fifo",
         NEW us, us = <<t>> \o ts
  PROVE  /\ CallsOK(us)
         /\ \A n, ch : Asked(n, ch, us) => Asked(n, ch, ts)
<1> DEFINE r == Tail(ts)
<1>1. /\ Len(ts) \in Nat \ {0} /\ Len(r) = Len(ts) - 1
      /\ \A i \in 1 .. Len(ts) - 1 : r[i] = ts[i + 1]
      /\ \A i \in 1 .. Len(r) : Under(ts[1], r[i])
  BY HeadAndTail, PoppedCalls
<1> HIDE DEF r
<1>2. ASSUME NEW i \in 1 .. Len(ts) PROVE Under(t, ts[i])
  <2>1. CASE i = 1
    BY <2>1 DEF Under
  <2>2. CASE i # 1
    <3>1. i - 1 \in 1 .. Len(r) /\ (i - 1) + 1 = i
      BY <1>1, <2>2
    <3>2. Under(ts[1], ts[i])
      BY <1>1, <3>1
    <3> QED
      BY <3>2 DEF Under
  <2> QED
    BY <2>1, <2>2
<1>3. IsCall(t)
  BY DEF IsCall
<1>4. CallsOK(us)
  BY <1>2, <1>3, PushedCalls
<1>5. ASSUME NEW n, NEW ch, Asked(n, ch, us) PROVE Asked(n, ch, ts)
  <2>1. Asked(n, ch, us) <=> (t.do = "feed" /\ t.ch = ch /\ t.n = n) \/ Asked(n, ch, ts)
    BY AskedPushed
  <2> QED
    BY <1>5, <2>1
<1> QED
  BY <1>4, <1>5

(* Sounds to play, or requests for a blank, and nothing else. *)
LEMMA FlatCalls ==
  ASSUME NEW D \in {"play", "request"}, NEW S, NEW ts \in Seq(S),
         \A t \in S : t.do = D /\ IsCall(t)
  PROVE  /\ CallsOK(ts)
         /\ \A n, ch : ~ Asked(n, ch, ts)
         /\ \A ch, d : ~ Fed(ch, ts, d)
<1>1. \A i \in 1 .. Len(ts) : ts[i] \in S
  OBVIOUS
<1>2. \A i \in 1 .. Len(ts) : ts[i].do = D /\ IsCall(ts[i])
  BY <1>1
<1>3. CallsOK(ts)
  BY <1>2 DEF CallsOK, Nested, Under
<1>4. \A n, ch : ~ Asked(n, ch, ts)
  BY <1>2 DEF Asked
<1>5. ts # <<>> => 1 \in 1 .. Len(ts)
  OBVIOUS
<1>6. \A ch, d : ~ Fed(ch, ts, d)
  BY <1>2, <1>5 DEF Fed
<1> QED
  BY <1>3, <1>4, <1>6

(* The requests of a FIFO that runs low, on top of other sounds to play. *)
LEMMA AskedCalls ==
  ASSUME NEW ch \in Sounds, NEW S, NEW r \in Seq(S), CallsOK(r),
         \A i \in 1 .. Len(r) : r[i].do = "play",
         NEW n \in Channels, n \in {1, 2},
         NEW us, us = AskChannels(ch) \o r
  PROVE  /\ CallsOK(us) /\ Asked(n, ch, us) /\ us # <<>>
         /\ us[1].do = "feed" /\ us[1].ch = ch
         /\ \A m, c : c # ch => ~ Asked(m, c, us)
<1>1. PICK a, b : a = Feed(1, ch) /\ b = Feed(2, ch)
  OBVIOUS
<1>2. /\ a.do = "feed" /\ a.n = 1 /\ a.ch = ch
      /\ b.do = "feed" /\ b.n = 2 /\ b.ch = ch
  BY <1>1 DEF Feed
<1>3. PICK s : s = IF 2 \in Channels THEN <<b>> \o r ELSE r
  OBVIOUS
<1>4. us = IF 1 \in Channels THEN <<a>> \o s ELSE s
  <2>1. us = ((IF 1 \in Channels THEN <<a>> ELSE <<>>)
              \o (IF 2 \in Channels THEN <<b>> ELSE <<>>)) \o r
    BY <1>1 DEF AskChannels
  <2>2. CASE 1 \in Channels /\ 2 \in Channels
    <3>1. us = (<<a>> \o <<b>>) \o r /\ s = <<b>> \o r
      BY <1>3, <2>1, <2>2
    <3> QED
      BY <2>2, <3>1
  <2>3. CASE 1 \in Channels /\ 2 \notin Channels
    <3>1. us = (<<a>> \o <<>>) \o r /\ s = r
      BY <1>3, <2>1, <2>3
    <3> QED
      BY <2>3, <3>1
  <2>4. CASE 1 \notin Channels /\ 2 \in Channels
    <3>1. us = (<<>> \o <<b>>) \o r /\ s = <<b>> \o r
      BY <1>3, <2>1, <2>4
    <3> QED
      BY <2>4, <3>1
  <2>5. CASE 1 \notin Channels /\ 2 \notin Channels
    BY <2>5
  <2> QED
    BY <2>2, <2>3, <2>4, <2>5
<1>5. \A m, c : ~ Asked(m, c, r)
  BY DEF Asked
<1>6. /\ CallsOK(s) /\ \E R : s \in Seq(R)
      /\ \A m, c : Asked(m, c, s) <=> 2 \in Channels /\ c = ch /\ m = 2
      /\ 2 \in Channels => s # <<>> /\ s[1] = b
      /\ \A i \in 1 .. Len(s) : Under(a, s[i])
  <2>1. CASE 2 \in Channels
    <3>1. s = <<b>> \o r
      BY <1>3, <2>1
    <3>2. /\ s # <<>> /\ s[1] = b /\ Len(s) = Len(r) + 1 /\ Len(r) \in Nat
          /\ \E R : s \in Seq(R)
          /\ \A i \in 1 .. Len(r) : s[i + 1] = r[i]
      <4>1. /\ s \in Seq(S \cup {b}) /\ s # <<>> /\ Len(s) = Len(r) + 1
            /\ Len(r) \in Nat /\ s[1] = b
            /\ \A i \in 1 .. Len(r) : s[i + 1] = r[i]
        BY <3>1, OnTop
      <4> QED
        BY <4>1
    <3>3. IsCall(b) /\ \A i \in 1 .. Len(r) : Under(b, r[i])
      BY <1>2, <2>1 DEF IsCall, Under
    <3>4. CallsOK(s)
      BY <3>1, <3>3, PushedCalls
    <3>5. \A m, c : Asked(m, c, s) <=> (b.do = "feed" /\ b.ch = c /\ b.n = m) \/ Asked(m, c, r)
      BY <3>1, AskedPushed
    <3>6. ASSUME NEW i \in 1 .. Len(s) PROVE Under(a, s[i])
      <4>1. CASE i = 1
        BY <1>2, <3>2, <4>1 DEF Under
      <4>2. CASE i # 1
        <5>1. i - 1 \in 1 .. Len(r) /\ (i - 1) + 1 = i
          BY <3>2, <4>2
        <5>2. s[i].do = "play"
          BY <3>2, <5>1, ZenonT(60)
        <5> QED
          BY <1>2, <5>2 DEF Under
      <4> QED
        BY <4>1, <4>2
    <3> QED
      BY <1>2, <1>5, <2>1, <3>2, <3>4, <3>5, <3>6
  <2>2. CASE 2 \notin Channels
    <3>1. s = r
      BY <1>3, <2>2
    <3>2. \A i \in 1 .. Len(r) : Under(a, r[i])
      BY <1>2 DEF Under
    <3> QED
      BY <1>5, <2>2, <3>1, <3>2
  <2> QED
    BY <2>1, <2>2
<1>7. CASE 1 \in Channels
  <2>1. us = <<a>> \o s
    BY <1>4, <1>7
  <2>2. PICK R : s \in Seq(R)
    BY <1>6
  <2>3. us # <<>> /\ us[1] = a
    BY <2>1, <2>2, OnTop
  <2>4. IsCall(a)
    BY <1>2, <1>7 DEF IsCall
  <2>5. CallsOK(us)
    BY <1>6, <2>1, <2>2, <2>4, PushedCalls
  <2>6. \A m, c : Asked(m, c, us) <=> (a.do = "feed" /\ a.ch = c /\ a.n = m) \/ Asked(m, c, s)
    BY <2>1, <2>2, AskedPushed
  <2> QED
    BY <1>2, <1>6, <2>3, <2>5, <2>6
<1>8. CASE 1 \notin Channels
  <2>1. us = s /\ n = 2
    BY <1>4, <1>8
  <2> QED
    BY <1>2, <1>6, <2>1
<1> QED
  BY <1>7, <1>8

-------------------------------------------------------------------------------
(* The invariant: a FIFO that one DMA feeds has enough samples, all fresh. *)

HistoryOK ==
  /\ DOMAIN fifo = Sounds /\ \A ch \in Sounds : IsFifo(fifo[ch])
  /\ lost \in [Sounds -> BOOLEAN] /\ replayed \in [Sounds -> BOOLEAN]
  /\ disturbed \in [Sounds -> BOOLEAN]

Plays(ch) ==
  ~ disturbed[ch] => /\ ~ lost[ch] /\ ~ replayed[ch]
                     /\ Fresh(fifo[ch]) /\ Enough(ch, fifo[ch], tasks, dma)

SoundsOK ==
  /\ HistoryOK /\ TransfersOK(dma, registers) /\ CallsOK(tasks)
  /\ \A ch \in Sounds : Plays(ch)

(* The same, a step later. *)
LEMMA SoundsNext ==
  ASSUME DOMAIN fifo' = Sounds, \A ch \in Sounds : IsFifo(fifo'[ch]),
         lost' \in [Sounds -> BOOLEAN], replayed' \in [Sounds -> BOOLEAN],
         disturbed' \in [Sounds -> BOOLEAN],
         TransfersOK(dma', registers'), CallsOK(tasks'),
         \A ch \in Sounds : ~ disturbed'[ch] =>
           /\ ~ lost'[ch] /\ ~ replayed'[ch]
           /\ Fresh(fifo'[ch]) /\ Enough(ch, fifo'[ch], tasks', dma')
  PROVE  SoundsOK'
  BY Zenon DEF SoundsOK, HistoryOK, Plays

LEMMA PlaysNext ==
  ASSUME NEW ch \in Sounds, SoundsOK, TasksOK,
         fifo'[ch] = fifo[ch], lost'[ch] = lost[ch], replayed'[ch] = replayed[ch],
         ~ disturbed'[ch], ~ disturbed[ch],
         tasks = << >> \/ tasks[1].do # "feed" \/ tasks[1].ch # ch,
         ~ Fed(ch, tasks, dma), ~ Fed(ch, tasks', dma'),
         \A n \in Channels : Asked(n, ch, tasks') => Asked(n, ch, tasks),
         Feeders(ch, dma) # {} => Feeders(ch, dma') = Feeders(ch, dma)
  PROVE  /\ ~ lost'[ch] /\ ~ replayed'[ch]
         /\ Fresh(fifo'[ch]) /\ Enough(ch, fifo'[ch], tasks', dma')
<1>1. /\ ~ lost[ch] /\ ~ replayed[ch]
      /\ Fresh(fifo[ch]) /\ Enough(ch, fifo[ch], tasks, dma)
  BY Zenon DEF SoundsOK, Plays
<1>2. ~ Hungry(ch, tasks, dma)
  <2>1. CASE tasks = << >>
    BY <2>1, NoneAsked, NotAskedNotHungry
  <2>2. CASE tasks # << >>
    BY <1>1, <2>2 DEF Enough
  <2> QED
    BY <2>1, <2>2
<1>3. Enough(ch, fifo[ch], tasks', dma')
  BY <1>1, <1>2, QuietStep
<1> QED
  BY <1>1, <1>3

LEMMA IsFifoKept ==
  ASSUME NEW f, IsFifo(f)
  PROVE  IsFifo(sound_timer_queue32(f)) /\ IsFifo(Unqueued(f))
<1>1. FifoSize \in Nat /\ FifoSize >= 2 /\ WordBytes \in Nat
  BY DmaAssumption
<1>2. f.top \in Byte /\ f.base \in Byte /\ f.data \in [Byte -> {"clear", "sample", "played"}]
  BY DEF IsFifo
<1>3. PICK top, base : top = (f.top + WordBytes) % FifoSize /\ base = (f.base + 1) % FifoSize
  OBVIOUS
<1>4. top \in Byte /\ base \in Byte
  <2>1. f.top + WordBytes \in Int /\ f.base + 1 \in Int
    BY <1>1, <1>2 DEF Byte
  <2> QED
    BY <1>1, <1>3, <2>1 DEF Byte
<1>5. IsFifo(sound_timer_queue32(f))
  <2>1. PICK data : data = [s \in Byte |-> IF s \in Next32(f) THEN "sample" ELSE f.data[s]]
    OBVIOUS
  <2>2. data \in [Byte -> {"clear", "sample", "played"}]
    BY <1>2, <2>1
  <2>3. sound_timer_queue32(f) = [f EXCEPT !.data = data, !.top = top]
    BY <1>3, <2>1 DEF sound_timer_queue32, Byte
  <2> QED
    BY <1>4, <2>2, <2>3 DEF IsFifo
<1>6. IsFifo(Unqueued(f))
  <2>1. PICK data : data = [f.data EXCEPT ![f.base] = IF @ = "clear" THEN @ ELSE "played"]
    OBVIOUS
  <2>2. data \in [Byte -> {"clear", "sample", "played"}]
    BY <1>2, <2>1
  <2>3. Unqueued(f) = [f EXCEPT !.base = base, !.data = data]
    BY <1>3, <2>1 DEF Unqueued, IsFifo
  <2> QED
    BY <1>4, <2>2, <2>3 DEF IsFifo
<1> QED
  BY <1>5, <1>6

(* One FIFO changed, or none. *)
LEMMA HistoryNext ==
  ASSUME HistoryOK, NEW ch \in Sounds, NEW f, IsFifo(f), NEW D
  PROVE  /\ DOMAIN [fifo EXCEPT ![ch] = f] = Sounds
         /\ \A c \in Sounds : IsFifo([fifo EXCEPT ![ch] = f][c])
         /\ [c \in Sounds |-> disturbed[c] \/ c \in D] \in [Sounds -> BOOLEAN]
         /\ \A x \in BOOLEAN : /\ [lost EXCEPT ![ch] = x] \in [Sounds -> BOOLEAN]
                               /\ [replayed EXCEPT ![ch] = x] \in [Sounds -> BOOLEAN]
  BY DEF HistoryOK

LEMMA Disturbed ==
  ASSUME NEW D, Disturb(D), disturbed \in [Sounds -> BOOLEAN]
  PROVE  /\ disturbed' \in [Sounds -> BOOLEAN]
         /\ \A ch \in Sounds : ~ disturbed'[ch] => ~ disturbed[ch] /\ ch \notin D
  BY DEF Disturb

LEMMA NotInterfered ==
  ASSUME NEW ch \in Sounds, ch \notin Interfered
  PROVE  Feeders(ch, dma) # {} => Feeders(ch, dma') = Feeders(ch, dma)
  BY DEF Interfered, ChangesFeeder

-------------------------------------------------------------------------------
(* The game and the clock: no call is open. *)

LEMMA StoreRegistersPlays ==
  ASSUME SoundsOK, TasksOK, SoundFromMemory,
         NEW n \in Channels, NEW r \in Registers(n), StoreRegisters(n, r)
  PROVE  SoundsOK'
<1>1. /\ UNCHANGED <<enabled, dma, fifo, ds_timer, tasks, lost, replayed, disturbed>>
      /\ registers' = [registers EXCEPT ![n] = r]
  BY DEF StoreRegisters, history
<1>2. TransfersOK(dma', registers')
  BY <1>1, StoredSettings DEF SoundsOK, TransfersOK
<1> QED
  BY <1>1, <1>2, Zenon DEF SoundsOK, HistoryOK, Plays

LEMMA StoreControlPlays ==
  ASSUME SoundsOK, TasksOK, ChannelsOK, HooksOK, SoundFromMemory,
         NEW n \in Channels, NEW value \in Controls(n), StoreControl(n, value)
  PROVE  SoundsOK'
<1>1. /\ tasks = << >> /\ UNCHANGED <<fifo, ds_timer, lost, replayed>>
      /\ Disturb(Interfered)
      /\ trigger_dma(n, value, registers[n], "cpu", << >>)
  BY DEF StoreControl, Idle
<1>2. /\ TransfersOK(dma, registers) /\ IsSettings(registers[n]) /\ HistoryOK
      /\ DOMAIN fifo = Sounds /\ \A ch \in Sounds : IsFifo(fifo[ch])
      /\ lost \in [Sounds -> BOOLEAN] /\ replayed \in [Sounds -> BOOLEAN]
      /\ disturbed \in [Sounds -> BOOLEAN]
  BY DEF SoundsOK, TransfersOK, HistoryOK
<1>3. /\ TransfersOK(dma', registers')
      /\ \/ tasks' = << >>
         \/ \E t : IsCopy(t) /\ t.by = "cpu" /\ t.do = "copy" /\ tasks' = <<t>> \o << >>
  <2>1. value \in Stored(n) /\ "cpu" # "fifo"
    BY DEF Stored
  <2>2. TransfersOK(dma', registers') /\ MayCopy(tasks', << >>, "cpu")
    BY <1>1, <1>2, <2>1, TriggeredTransfers
  <2> QED
    BY <2>2 DEF MayCopy
<1>4. /\ CallsOK(tasks')
      /\ \A ch \in Sounds : ~ Fed(ch, tasks', dma')
      /\ \A m, ch : ~ Asked(m, ch, tasks')
  <2>1. CASE tasks' = << >>
    BY <2>1, NoneAsked DEF CallsOK, Nested, Fed
  <2>2. CASE tasks' # << >>
    <3>1. PICK t : IsCopy(t) /\ t.by = "cpu" /\ t.do = "copy" /\ tasks' = <<t>> \o << >>
      BY <1>3, <2>2
    <3>2. /\ << >> \in Seq({}) /\ CallsOK(<< >>) /\ IsCall(t)
          /\ \A i \in 1 .. Len(<< >>) : Under(t, << >>[i])
      BY <3>1 DEF CallsOK, Nested, IsCall
    <3>3. CallsOK(tasks')
      BY <3>1, <3>2, PushedCalls
    <3>4. \A ch \in Sounds : ~ Fed(ch, tasks', dma')
      BY <3>1, <3>2, NotFedOnTop
    <3>5. ASSUME NEW m, NEW ch PROVE ~ Asked(m, ch, tasks')
      <4>1. Asked(m, ch, tasks') <=> (t.do = "feed" /\ t.ch = ch /\ t.n = m)
                                     \/ Asked(m, ch, << >>)
        BY <3>1, <3>2, AskedPushed
      <4> QED
        BY <3>1, <4>1, NoneAsked
    <3> QED
      BY <3>3, <3>4, <3>5
  <2> QED
    BY <2>1, <2>2
<1>5. /\ disturbed' \in [Sounds -> BOOLEAN]
      /\ \A ch \in Sounds : ~ disturbed'[ch] => ~ disturbed[ch] /\ ch \notin Interfered
  BY <1>1, <1>2, Disturbed
<1>6. ASSUME NEW ch \in Sounds, ~ disturbed'[ch]
      PROVE  /\ ~ lost'[ch] /\ ~ replayed'[ch]
             /\ Fresh(fifo'[ch]) /\ Enough(ch, fifo'[ch], tasks', dma')
  <2>1. ~ disturbed[ch] /\ ch \notin Interfered
    BY <1>5, <1>6
  <2>2. Feeders(ch, dma) # {} => Feeders(ch, dma') = Feeders(ch, dma)
    BY <2>1, NotInterfered
  <2>3. ~ Fed(ch, tasks, dma)
    BY <1>1 DEF Fed
  <2> QED
    BY <1>1, <1>4, <1>6, <2>1, <2>2, <2>3, PlaysNext
<1> QED
  BY <1>1, <1>2, <1>3, <1>4, <1>5, <1>6, SoundsNext

LEMMA StoreFifoPlays ==
  ASSUME SoundsOK, TasksOK, NEW ch \in OwnStores, StoreFifo(ch)
  PROVE  SoundsOK'
<1> DEFINE f == sound_timer_queue32(fifo[ch])
           over == lost[ch] \/ \E s \in Next32(fifo[ch]) : fifo[ch].data[s] = "sample"
<1>1. /\ tasks = << >> /\ Disturb({ch}) /\ ch \in Sounds
      /\ UNCHANGED <<registers, enabled, dma, ds_timer, tasks, replayed>>
      /\ fifo' = [fifo EXCEPT ![ch] = f] /\ lost' = [lost EXCEPT ![ch] = over]
  BY DmaAssumption DEF StoreFifo, Idle, QueueWord, devices
<1>2. /\ TransfersOK(dma, registers) /\ CallsOK(tasks) /\ HistoryOK
      /\ DOMAIN fifo = Sounds /\ \A c \in Sounds : IsFifo(fifo[c])
      /\ lost \in [Sounds -> BOOLEAN] /\ replayed \in [Sounds -> BOOLEAN]
      /\ disturbed \in [Sounds -> BOOLEAN]
  BY DEF SoundsOK, HistoryOK
<1>3. IsFifo(f) /\ over \in BOOLEAN
  BY <1>1, <1>2, IsFifoKept
<1> HIDE DEF f, over
<1>4. /\ DOMAIN fifo' = Sounds /\ \A c \in Sounds : IsFifo(fifo'[c])
      /\ lost' \in [Sounds -> BOOLEAN]
  BY <1>1, <1>2, <1>3, HistoryNext
<1>5. /\ disturbed' \in [Sounds -> BOOLEAN]
      /\ \A c \in Sounds : ~ disturbed'[c] => ~ disturbed[c] /\ c \notin {ch}
  BY <1>1, <1>2, Disturbed
<1>6. ASSUME NEW c \in Sounds, ~ disturbed'[c]
      PROVE  /\ ~ lost'[c] /\ ~ replayed'[c]
             /\ Fresh(fifo'[c]) /\ Enough(c, fifo'[c], tasks', dma')
  <2>1. ~ disturbed[c] /\ c # ch
    BY <1>5, <1>6
  <2>2. fifo'[c] = fifo[c] /\ lost'[c] = lost[c]
    BY <1>1, <1>2, <2>1
  <2>3. ~ Fed(c, tasks, dma)
    BY <1>1 DEF Fed
  <2> QED
    BY <1>1, <1>6, <2>1, <2>2, <2>3, PlaysNext
<1> QED
  BY <1>1, <1>2, <1>4, <1>5, <1>6, SoundsNext

LEMMA StoreSoundControlPlays ==
  ASSUME SoundsOK, TasksOK, NEW timers, NEW resets, StoreSoundControl(timers, resets)
  PROVE  SoundsOK'
<1>1. /\ tasks = << >> /\ UNCHANGED <<registers, enabled, dma, tasks>>
      /\ fifo' = [ch \in Sounds |-> IF ch \in resets THEN Cleared ELSE fifo[ch]]
      /\ lost' = [ch \in Sounds |-> lost[ch] /\ ch \notin resets]
      /\ replayed' = [ch \in Sounds |-> replayed[ch] /\ ch \notin resets]
      /\ disturbed' = [ch \in Sounds |-> disturbed[ch] /\ ch \notin resets]
  BY DEF StoreSoundControl, Idle, devices
<1>2. /\ TransfersOK(dma, registers) /\ CallsOK(tasks)
      /\ \A ch \in Sounds : IsFifo(fifo[ch])
      /\ lost \in [Sounds -> BOOLEAN] /\ replayed \in [Sounds -> BOOLEAN]
      /\ disturbed \in [Sounds -> BOOLEAN]
  BY DEF SoundsOK, HistoryOK
<1>3. DOMAIN fifo' = Sounds /\ \A ch \in Sounds : IsFifo(fifo'[ch])
  BY <1>1, <1>2, ClearedIsFresh
<1>4. /\ lost' \in [Sounds -> BOOLEAN] /\ replayed' \in [Sounds -> BOOLEAN]
      /\ disturbed' \in [Sounds -> BOOLEAN]
  BY <1>1, <1>2
<1>5. ASSUME NEW ch \in Sounds, ~ disturbed'[ch]
      PROVE  /\ ~ lost'[ch] /\ ~ replayed'[ch]
             /\ Fresh(fifo'[ch]) /\ Enough(ch, fifo'[ch], tasks', dma')
  <2>1. CASE ch \in resets
    <3>1. fifo'[ch] = Cleared /\ ~ lost'[ch] /\ ~ replayed'[ch] /\ tasks' = << >>
      BY <1>1, <2>1
    <3> QED
      BY <3>1, ClearedIsFresh, ResetStep
  <2>2. CASE ch \notin resets
    <3>1. /\ fifo'[ch] = fifo[ch] /\ lost'[ch] = lost[ch] /\ replayed'[ch] = replayed[ch]
          /\ ~ disturbed[ch]
      BY <1>1, <1>2, <1>5, <2>2
    <3>2. ~ Fed(ch, tasks, dma)
      BY <1>1 DEF Fed
    <3> QED
      BY <1>1, <1>5, <3>1, <3>2, PlaysNext
  <2> QED
    BY <2>1, <2>2
<1> QED
  BY <1>1, <1>2, <1>3, <1>4, <1>5, SoundsNext

(* Whatever leaves the FIFOs, the channels and who disturbed them alone. *)
LEMMA CallsOnly ==
  ASSUME SoundsOK, TasksOK, UNCHANGED <<dma, fifo, history>>,
         TransfersOK(dma, registers'), CallsOK(tasks'),
         \A ch \in Sounds : ~ Fed(ch, tasks, dma) /\ ~ Fed(ch, tasks', dma),
         tasks = << >> \/ tasks[1].do # "feed",
         \A n, ch : Asked(n, ch, tasks') => Asked(n, ch, tasks)
  PROVE  SoundsOK'
<1>1. UNCHANGED <<dma, fifo, lost, replayed, disturbed>>
  BY DEF history
<1>2. /\ TransfersOK(dma, registers') /\ HistoryOK
      /\ DOMAIN fifo = Sounds /\ \A c \in Sounds : IsFifo(fifo[c])
      /\ lost \in [Sounds -> BOOLEAN] /\ replayed \in [Sounds -> BOOLEAN]
      /\ disturbed \in [Sounds -> BOOLEAN]
  BY DEF SoundsOK, HistoryOK
<1>3. ASSUME NEW ch \in Sounds, ~ disturbed'[ch]
      PROVE  /\ ~ lost'[ch] /\ ~ replayed'[ch]
             /\ Fresh(fifo'[ch]) /\ Enough(ch, fifo'[ch], tasks', dma')
  BY <1>1, <1>3, PlaysNext
<1> QED
  BY <1>1, <1>2, <1>3, SoundsNext

LEMMA OverflowPlays ==
  ASSUME SoundsOK, TasksOK, NEW timer, Overflow(timer)
  PROVE  SoundsOK'
<1> DEFINE S == {[do |-> "play", ch |-> ch] : ch \in Sounds}
           Play(ch) == IF ch \in Sounds /\ ds_timer[ch] = timer
                       THEN <<[do |-> "play", ch |-> ch]>> ELSE << >>
<1>1. tasks = << >> /\ UNCHANGED <<devices, fifo, history>> /\ tasks' = Play(0) \o Play(1)
  BY DEF Overflow, Idle
<1>2. ASSUME NEW ch PROVE Play(ch) \in Seq(S)
  BY AtMostOne
<1>3. \A t \in S : t.do = "play" /\ IsCall(t)
  BY DEF IsCall
<1> HIDE DEF Play, S
<1>4. tasks' \in Seq(S)
  BY <1>1, <1>2
<1>5. /\ CallsOK(tasks') /\ \A n, ch : ~ Asked(n, ch, tasks')
      /\ \A ch, d : ~ Fed(ch, tasks', d)
  BY <1>3, <1>4, FlatCalls
<1>6. \A ch : ~ Fed(ch, tasks, dma)
  BY <1>1 DEF Fed
<1>7. UNCHANGED <<dma, fifo, history>> /\ TransfersOK(dma, registers')
  BY <1>1 DEF devices, SoundsOK
<1> QED
  BY <1>1, <1>5, <1>6, <1>7, CallsOnly

LEMMA BlankPlays ==
  ASSUME SoundsOK, TasksOK, NEW why, Blank(why)
  PROVE  SoundsOK'
<1> DEFINE S == {Request(n, why) : n \in Channels}
           Ask(n) == IF n \in Channels THEN <<Request(n, why)>> ELSE << >>
<1>1. /\ tasks = << >> /\ UNCHANGED <<devices, fifo, history>>
      /\ tasks' = Ask(0) \o Ask(1) \o Ask(2) \o Ask(3)
  BY DEF Blank, Idle
<1>2. ASSUME NEW n PROVE Ask(n) \in Seq(S)
  BY AtMostOne
<1>3. \A t \in S : t.do = "request" /\ IsCall(t)
  BY DEF IsCall, Request
<1> HIDE DEF Ask, S
<1>4. tasks' \in Seq(S)
  BY <1>1, <1>2
<1>5. /\ CallsOK(tasks') /\ \A n, ch : ~ Asked(n, ch, tasks')
      /\ \A ch, d : ~ Fed(ch, tasks', d)
  BY <1>3, <1>4, FlatCalls
<1>6. \A ch : ~ Fed(ch, tasks, dma)
  BY <1>1 DEF Fed
<1>7. UNCHANGED <<dma, fifo, history>> /\ TransfersOK(dma, registers')
  BY <1>1 DEF devices, SoundsOK
<1> QED
  BY <1>1, <1>5, <1>6, <1>7, CallsOnly

-------------------------------------------------------------------------------
(* Inside a transfer. *)

(* The innermost call h is a copy, and goes a word further as u. *)
GoesOn(ts, h, u, us) ==
  /\ ts # << >> /\ h.do = "copy" /\ h.left > 0 /\ IsCopy(h)
  /\ IsCopy(u) /\ u.do = "copy" /\ u.n = h.n /\ u.by = h.by /\ u.left = h.left - 1
  /\ h.by = "fifo" => u.dest = h.dest
  /\ CallsOK(us) /\ (\E R : us \in Seq(R)) /\ us # << >> /\ us[1] = u
  /\ \A n, ch : Asked(n, ch, us) => Asked(n, ch, ts)

LEMMA CopyGoesOn ==
  ASSUME SoundsOK, TasksOK, CopyWord,
         NEW h, h = tasks[1], NEW u, u = Onward(h), NEW s, s = <<u>> \o Rest
  PROVE  GoesOn(tasks, h, u, s)
<1>1. PICK S : tasks \in Seq(S)
  BY DEF TasksOK
<1>2. tasks # << >> /\ Head(tasks) = h
  BY <1>1, HeadAndTail DEF CopyWord, Running
<1>3. h.do = "copy" /\ h.left > 0
  BY <1>2 DEF CopyWord, Running
<1>4. CallsOK(tasks)
  BY DEF SoundsOK
<1>5. IsCopy(h)
  <2>1. IsCall(h)
    BY <1>1, <1>2, <1>4, PoppedCalls
  <2> QED
    BY <1>3, <2>1 DEF IsCall
<1>6. /\ IsCopy(u) /\ u.do = "copy" /\ u.n = h.n /\ u.by = h.by /\ u.left = h.left - 1
      /\ h.by = "fifo" => u.dest = h.dest
  BY <1>3, <1>5, OnwardCopy
<1>7. s = <<u>> \o Tail(tasks) /\ Tail(tasks) \in Seq(S)
  BY <1>1, <1>2, HeadAndTail DEF Rest
<1>8. s # << >> /\ s[1] = u
  BY <1>7, OnTop
<1>9. /\ CallsOK(s) /\ \E R : s \in Seq(R)
      /\ \A n, ch : Asked(n, ch, s) => Asked(n, ch, tasks)
  BY <1>1, <1>2, <1>4, <1>6, <1>7, CopyInstead
<1> QED
  BY <1>2, <1>3, <1>5, <1>6, <1>8, <1>9 DEF GoesOn

(* The word is for a FIFO. *)
LEMMA QueueWordPlays ==
  ASSUME SoundsOK, TasksOK, CopyWord,
         NEW h, h = tasks[1], NEW u, u = Onward(h), NEW s, s = <<u>> \o Rest, tasks' = s,
         NEW c \in Sounds, h.dest = FIFO(c), QueueWord(c), NEW D, Disturb(D),
         Feeders(c, dma) # {h.n} \/ h.by # "fifo" => c \in D,
         UNCHANGED <<devices, replayed>>
  PROVE  SoundsOK'
<1> DEFINE f == sound_timer_queue32(fifo[c])
           over == lost[c] \/ \E i \in Next32(fifo[c]) : fifo[c].data[i] = "sample"
<1>1. /\ UNCHANGED <<registers, enabled, dma, replayed>>
      /\ fifo' = [fifo EXCEPT ![c] = f] /\ lost' = [lost EXCEPT ![c] = over]
  BY DEF QueueWord, devices
<1>2. /\ TransfersOK(dma, registers) /\ CallsOK(tasks) /\ HistoryOK
      /\ DOMAIN fifo = Sounds /\ \A ch \in Sounds : IsFifo(fifo[ch])
      /\ lost \in [Sounds -> BOOLEAN] /\ replayed \in [Sounds -> BOOLEAN]
      /\ disturbed \in [Sounds -> BOOLEAN]
  BY DEF SoundsOK, HistoryOK
<1>3. IsFifo(f) /\ over \in BOOLEAN
  BY <1>2, IsFifoKept
<1>4. /\ tasks # << >> /\ h.do = "copy" /\ h.left > 0 /\ IsCopy(h)
      /\ IsCopy(u) /\ u.do = "copy" /\ u.n = h.n /\ u.by = h.by /\ u.left = h.left - 1
      /\ h.by = "fifo" => u.dest = h.dest
      /\ CallsOK(s) /\ (\E R : s \in Seq(R)) /\ s # << >> /\ s[1] = u
      /\ \A n, ch : Asked(n, ch, s) => Asked(n, ch, tasks)
  <2>1. GoesOn(tasks, h, u, s)
    BY CopyGoesOn
  <2> QED
    BY <2>1 DEF GoesOn
<1>5. /\ disturbed' \in [Sounds -> BOOLEAN]
      /\ \A ch \in Sounds : ~ disturbed'[ch] => ~ disturbed[ch] /\ ch \notin D
  BY <1>2, Disturbed
<1>6. ASSUME NEW ch \in Sounds, ch # c, ~ disturbed'[ch]
      PROVE  /\ ~ lost'[ch] /\ ~ replayed'[ch]
             /\ Fresh(fifo'[ch]) /\ Enough(ch, fifo'[ch], tasks', dma')
  <2>1. ~ disturbed[ch]
    BY <1>5, <1>6
  <2>2. fifo'[ch] = fifo[ch] /\ lost'[ch] = lost[ch]
    BY <1>1, <1>2, <1>6
  <2>3. FIFO(c) # FIFO(ch)
    BY <1>6, DmaAssumption DEF FIFO, Address
  <2>4. ~ Fed(ch, tasks, dma) /\ ~ Fed(ch, tasks', dma')
    BY <1>4, <2>3 DEF Fed
  <2> QED
    BY <1>1, <1>4, <1>6, <2>1, <2>2, <2>4, PlaysNext
<1>7. ASSUME ~ disturbed'[c]
      PROVE  /\ ~ lost'[c] /\ ~ replayed'[c]
             /\ Fresh(fifo'[c]) /\ Enough(c, fifo'[c], tasks', dma')
  <2>1. ~ disturbed[c] /\ Feeders(c, dma) = {h.n} /\ h.by = "fifo"
    BY <1>5, <1>7
  <2>2. /\ ~ lost[c] /\ ~ replayed[c]
        /\ Fresh(fifo[c]) /\ Enough(c, fifo[c], tasks, dma)
    BY <2>1, Zenon DEF SoundsOK, Plays
  <2>3. Fed(c, tasks, dma)
    BY <1>4, <2>1 DEF Fed
  <2>4. h.left \in Nat \ {0}
    BY <1>4, <2>1 DEF IsCopy
  <2>5. /\ IsFifo(fifo[c]) /\ Level(fifo[c]) \in 1 .. FifoSize /\ FifoSize \in Nat
        /\ WordBytes \in Nat
    BY <1>2, LevelIs, DmaAssumption
  <2>6. Level(fifo[c]) + WordBytes <= FifoSize
    <3>1. Level(fifo[c]) + h.left * WordBytes <= FifoSize
      BY <2>2, <2>3 DEF Enough
    <3>2. h.left * WordBytes \in Nat /\ h.left * WordBytes >= WordBytes
      BY <2>4, WordsFit
    <3> QED
      BY <2>5, <3>1, <3>2
  <2>7. /\ Fresh(f) /\ Level(f) = Level(fifo[c]) + WordBytes
        /\ \A i \in Next32(fifo[c]) : fifo[c].data[i] # "sample"
    BY <2>2, <2>5, <2>6, QueuedIsFresh
  <2>8. fifo'[c] = f /\ lost'[c] = over /\ replayed'[c] = replayed[c]
    BY <1>1, <1>2
  <2>9. ~ over
    BY <2>2, <2>7
  <2>10. Enough(c, f, tasks', dma)
    <3>1. /\ tasks[1].left \in Nat \ {0} /\ Level(fifo[c]) \in Nat
          /\ tasks' # << >> /\ tasks'[1].do = "copy" /\ tasks'[1].by = "fifo"
          /\ tasks'[1].dest = FIFO(c) /\ tasks'[1].n = tasks[1].n
          /\ tasks'[1].left = tasks[1].left - 1
      BY <1>4, <2>1, <2>4, <2>5
    <3>2. \A n \in Channels : Asked(n, c, tasks') => Asked(n, c, tasks)
      BY <1>4
    <3> HIDE DEF f
    <3> QED
      BY <2>2, <2>3, <2>7, <3>1, <3>2, FeedStep
  <2> QED
    BY <1>1, <2>2, <2>7, <2>8, <2>9, <2>10
<1> HIDE DEF f, over
<1>8. /\ DOMAIN fifo' = Sounds /\ \A ch \in Sounds : IsFifo(fifo'[ch])
      /\ lost' \in [Sounds -> BOOLEAN]
  BY <1>1, <1>2, <1>3, HistoryNext
<1>9. TransfersOK(dma', registers') /\ CallsOK(tasks') /\ replayed' \in [Sounds -> BOOLEAN]
  BY <1>1, <1>2, <1>4
<1>10. \A ch \in Sounds : ~ disturbed'[ch] =>
         /\ ~ lost'[ch] /\ ~ replayed'[ch]
         /\ Fresh(fifo'[ch]) /\ Enough(ch, fifo'[ch], tasks', dma')
  BY <1>6, <1>7
<1> QED
  BY <1>5, <1>8, <1>9, <1>10, SoundsNext

(* The word is for the control register of a channel. *)
LEMMA StoreByDmaPlays ==
  ASSUME SoundsOK, TasksOK, ChannelsOK, HooksOK, SoundFromMemory, CopyWord,
         NEW h, h = tasks[1], NEW u, u = Onward(h), NEW s, s = <<u>> \o Rest,
         NEW n \in Channels, NEW value \in DmaData, NEW data \in Registers(n),
         h.dest = CNT(n), Disturb(Interfered), UNCHANGED <<fifo, lost, replayed>>,
         trigger_dma(n, value, [registers[n] EXCEPT !.count = data.count], "dma", s)
  PROVE  SoundsOK'
<1>1. /\ tasks # << >> /\ h.do = "copy"
      /\ u.do = "copy" /\ u.by = h.by
      /\ h.by = "fifo" => u.dest = h.dest
      /\ CallsOK(s) /\ (\E R : s \in Seq(R)) /\ s # << >> /\ s[1] = u
      /\ \A m, ch : Asked(m, ch, s) => Asked(m, ch, tasks)
  <2>1. GoesOn(tasks, h, u, s)
    BY CopyGoesOn
  <2> QED
    BY <2>1 DEF GoesOn
<1>2. /\ TransfersOK(dma, registers) /\ IsSettings(registers[n])
      /\ DOMAIN fifo = Sounds /\ \A ch \in Sounds : IsFifo(fifo[ch])
      /\ lost \in [Sounds -> BOOLEAN] /\ replayed \in [Sounds -> BOOLEAN]
      /\ disturbed \in [Sounds -> BOOLEAN]
  BY DEF SoundsOK, HistoryOK, TransfersOK
<1>3. TransfersOK(dma', registers') /\ MayCopy(tasks', s, "dma")
  <2>1. value \in Stored(n) /\ "dma" # "fifo"
    BY DEF Stored
  <2>2. IsSettings([registers[n] EXCEPT !.count = data.count])
    BY <1>2, OtherSettings, StoredSettings
  <2> QED
    BY <1>2, <2>1, <2>2, TriggeredTransfers
<1>4. \A ch \in Sounds : h.dest # FIFO(ch)
  BY FifoAddresses
<1>5. \A ch \in Sounds : s[1].dest # FIFO(ch) \/ s[1].by # "fifo"
  BY <1>1, <1>4
<1>6. PICK R : s \in Seq(R)
  BY <1>1
<1>7. /\ CallsOK(tasks') /\ \A ch \in Sounds : ~ Fed(ch, tasks', dma')
      /\ \A m, ch : Asked(m, ch, tasks') => Asked(m, ch, tasks)
  <2>1. CASE tasks' = s
    <3>1. \A ch \in Sounds : ~ Fed(ch, s, dma')
      BY <1>5 DEF Fed
    <3> QED
      BY <1>1, <2>1, <3>1
  <2>2. CASE tasks' # s
    <3>1. PICK t : IsCopy(t) /\ t.by = "dma" /\ t.do = "copy" /\ tasks' = <<t>> \o s
      BY <1>3, <2>2 DEF MayCopy
    <3>2. /\ CallsOK(tasks')
          /\ \A m, ch : Asked(m, ch, tasks') => Asked(m, ch, s)
      BY <1>1, <1>5, <1>6, <3>1, CopyOnTop
    <3>3. \A ch \in Sounds : ~ Fed(ch, tasks', dma')
      BY <1>6, <3>1, NotFedOnTop
    <3> QED
      BY <1>1, <3>2, <3>3
  <2> QED
    BY <2>1, <2>2
<1>8. /\ disturbed' \in [Sounds -> BOOLEAN]
      /\ \A ch \in Sounds : ~ disturbed'[ch] => ~ disturbed[ch] /\ ch \notin Interfered
  BY <1>2, Disturbed
<1>9. ASSUME NEW ch \in Sounds, ~ disturbed'[ch]
      PROVE  /\ ~ lost'[ch] /\ ~ replayed'[ch]
             /\ Fresh(fifo'[ch]) /\ Enough(ch, fifo'[ch], tasks', dma')
  <2>1. ~ disturbed[ch] /\ ch \notin Interfered
    BY <1>8, <1>9
  <2>2. Feeders(ch, dma) # {} => Feeders(ch, dma') = Feeders(ch, dma)
    BY <2>1, NotInterfered
  <2>3. ~ Fed(ch, tasks, dma)
    BY <1>4 DEF Fed
  <2>4. tasks[1].do # "feed"
    BY <1>1
  <2> QED
    BY <1>7, <1>9, <2>1, <2>2, <2>3, <2>4, PlaysNext
<1> QED
  BY <1>2, <1>3, <1>7, <1>8, <1>9, SoundsNext

(* The word is for an address register, or for memory. *)
LEMMA OtherWordPlays ==
  ASSUME SoundsOK, TasksOK, CopyWord,
         NEW h, h = tasks[1], NEW u, u = Onward(h), NEW s, s = <<u>> \o Rest, tasks' = s,
         \A ch \in Sounds : h.dest # FIFO(ch),
         UNCHANGED <<dma, fifo, history>>, TransfersOK(dma, registers')
  PROVE  SoundsOK'
<1>1. /\ tasks # << >> /\ h.do = "copy" /\ IsAddress(h.dest)
      /\ u.do = "copy" /\ u.by = h.by
      /\ h.by = "fifo" => u.dest = h.dest
      /\ CallsOK(s) /\ s # << >> /\ s[1] = u
      /\ \A m, ch : Asked(m, ch, s) => Asked(m, ch, tasks)
  <2>1. GoesOn(tasks, h, u, s)
    BY CopyGoesOn
  <2> QED
    BY <2>1 DEF GoesOn, IsCopy
<1>2. \A ch \in Sounds : ~ Fed(ch, tasks, dma) /\ ~ Fed(ch, s, dma)
  BY <1>1 DEF Fed
<1>3. tasks[1].do # "feed"
  BY <1>1
<1> QED
  BY <1>1, <1>2, <1>3, CallsOnly

LEMMA CopyWordPlays ==
  ASSUME SoundsOK, TasksOK, ChannelsOK, HooksOK, SoundFromMemory, CopyWord
  PROVE  SoundsOK'
<1>1. PICK S : tasks \in Seq(S)
  BY DEF TasksOK
<1>2. PICK h : h = tasks[1]
  OBVIOUS
<1>3. PICK u : u = Onward(h)
  OBVIOUS
<1>4. PICK s : s = <<u>> \o Rest
  OBVIOUS
<1>5. Head(tasks) = h /\ TransfersOK(dma, registers)
  BY <1>1, <1>2, HeadAndTail DEF CopyWord, Running, SoundsOK
<1>6. \/ \E c \in Sounds :
           /\ h.dest = FIFO(c) /\ QueueWord(c)
           /\ Disturb({x \in {c} : Feeders(x, dma) # {h.n} \/ h.by # "fifo"})
           /\ tasks' = s /\ UNCHANGED <<devices, replayed>>
      \/ \E n \in Channels : \E value \in DmaData, data \in Registers(n) :
           /\ h.dest = CNT(n)
           /\ trigger_dma(n, value, [registers[n] EXCEPT !.count = data.count], "dma", s)
           /\ Disturb(Interfered) /\ UNCHANGED <<fifo, lost, replayed>>
      \/ /\ \E n \in Channels : \E data \in Registers(n) :
              \/ h.dest = SAD(n) /\ registers' = [registers EXCEPT ![n].source = data.source]
              \/ h.dest = DAD(n) /\ registers' = [registers EXCEPT ![n].dest = data.dest]
         /\ tasks' = s /\ UNCHANGED <<enabled, dma, fifo, history>>
      \/ /\ h.dest \notin {FIFO(ch) : ch \in Sounds}
         /\ tasks' = s /\ UNCHANGED <<devices, fifo, history>>
  <2>1. [h EXCEPT !.left = @ - 1, !.source = Adjusted(h.source, h.source_direction),
                  !.dest = Adjusted(h.dest, h.dest_direction)] = u
    BY <1>3 DEF Onward
  <2> QED
    BY <1>4, <1>5, <2>1, Zenon DEF CopyWord
<1>7. ASSUME NEW c \in Sounds, h.dest = FIFO(c), QueueWord(c),
             Disturb({x \in {c} : Feeders(x, dma) # {h.n} \/ h.by # "fifo"}),
             tasks' = s, UNCHANGED <<devices, replayed>>
      PROVE  SoundsOK'
  <2>1. PICK D : D = {x \in {c} : Feeders(x, dma) # {h.n} \/ h.by # "fifo"}
    OBVIOUS
  <2>2. Disturb(D) /\ (Feeders(c, dma) # {h.n} \/ h.by # "fifo" => c \in D)
    BY <1>7, <2>1
  <2> QED
    BY <1>2, <1>3, <1>4, <1>7, <2>2, QueueWordPlays
<1>8. ASSUME NEW n \in Channels, NEW value \in DmaData, NEW data \in Registers(n),
             h.dest = CNT(n),
             trigger_dma(n, value, [registers[n] EXCEPT !.count = data.count], "dma", s),
             Disturb(Interfered), UNCHANGED <<fifo, lost, replayed>>
      PROVE  SoundsOK'
  BY <1>2, <1>3, <1>4, <1>8, StoreByDmaPlays
<1>9. ASSUME NEW n \in Channels, NEW data \in Registers(n),
             \/ h.dest = SAD(n) /\ registers' = [registers EXCEPT ![n].source = data.source]
             \/ h.dest = DAD(n) /\ registers' = [registers EXCEPT ![n].dest = data.dest],
             tasks' = s, UNCHANGED <<enabled, dma, fifo, history>>
      PROVE  SoundsOK'
  <2>1. \A ch \in Sounds : h.dest # FIFO(ch)
    BY <1>9, FifoAddresses
  <2>2. IsSettings(data) /\ IsSettings(registers[n]) /\ DOMAIN registers = Channels
    BY <1>5, StoredSettings DEF TransfersOK
  <2>3. /\ IsSettings([registers[n] EXCEPT !.source = data.source])
        /\ IsSettings([registers[n] EXCEPT !.dest = data.dest])
    BY <2>2, OtherSettings
  <2>4. PICK r : IsSettings(r) /\ registers' = [registers EXCEPT ![n] = r]
    <3>1. CASE registers' = [registers EXCEPT ![n].source = data.source]
      BY <2>3, <3>1
    <3>2. CASE registers' = [registers EXCEPT ![n].dest = data.dest]
      BY <2>3, <3>2
    <3> QED
      BY <1>9, <3>1, <3>2
  <2>5. TransfersOK(dma, registers')
    BY <1>5, <2>4 DEF TransfersOK
  <2>6. UNCHANGED <<dma, fifo, history>>
    BY <1>9
  <2> QED
    BY <1>2, <1>3, <1>4, <1>9, <2>1, <2>5, <2>6, OtherWordPlays
<1>10. ASSUME h.dest \notin {FIFO(ch) : ch \in Sounds}, tasks' = s,
              UNCHANGED <<devices, fifo, history>>
       PROVE  SoundsOK'
  <2>1. /\ \A ch \in Sounds : h.dest # FIFO(ch)
        /\ UNCHANGED <<dma, fifo, history>> /\ TransfersOK(dma, registers')
    BY <1>5, <1>10 DEF devices
  <2> QED
    BY <1>2, <1>3, <1>4, <1>10, <2>1, OtherWordPlays
<1> QED
  BY <1>6, <1>7, <1>8, <1>9, <1>10

(* The end of a transfer, be it the one that fed the FIFO. *)
LEMMA FinishTransferPlays ==
  ASSUME SoundsOK, TasksOK, ChannelsOK, HooksOK, FinishTransfer
  PROVE  SoundsOK'
<1>1. PICK S : tasks \in Seq(S)
  BY DEF TasksOK
<1>2. /\ tasks # << >> /\ Head(tasks) = tasks[1]
      /\ tasks[1].do = "copy" /\ tasks[1].left = 0
  BY <1>1, HeadAndTail DEF FinishTransfer, Running
<1>3. /\ TransfersOK(dma, registers) /\ CallsOK(tasks)
      /\ DOMAIN fifo = Sounds /\ \A ch \in Sounds : IsFifo(fifo[ch])
      /\ lost \in [Sounds -> BOOLEAN] /\ replayed \in [Sounds -> BOOLEAN]
      /\ disturbed \in [Sounds -> BOOLEAN]
  BY DEF SoundsOK, HistoryOK
<1>4. tasks' = Tail(tasks) /\ UNCHANGED <<registers, fifo, lost, replayed, disturbed>>
  BY DEF FinishTransfer, Rest, history
<1>5. CallsOK(tasks') /\ IsCall(tasks[1])
  BY <1>1, <1>2, <1>3, <1>4, PoppedCalls
<1>6. IsCopy(Head(tasks))
  BY <1>2, <1>5 DEF IsCall
<1>7. /\ TransfersOK(dma', registers')
      /\ \A ch : Feeders(ch, dma') = Feeders(ch, dma)
  BY <1>3, <1>6, FinishedTransfers
<1>8. /\ \A ch \in Sounds : ~ Fed(ch, tasks', dma')
      /\ \A n, ch : Asked(n, ch, tasks') => Asked(n, ch, tasks)
  BY <1>1, <1>2, <1>3, <1>4, NotFedBelow, AskedPopped
<1>9. ASSUME NEW ch \in Sounds, ~ disturbed'[ch]
      PROVE  /\ ~ lost'[ch] /\ ~ replayed'[ch]
             /\ Fresh(fifo'[ch]) /\ Enough(ch, fifo'[ch], tasks', dma')
  <2>1. /\ ~ lost[ch] /\ ~ replayed[ch]
        /\ Fresh(fifo[ch]) /\ Enough(ch, fifo[ch], tasks, dma)
    BY <1>4, <1>9, Zenon DEF SoundsOK, Plays
  <2>2. CASE Fed(ch, tasks, dma)
    <3>1. Enough(ch, fifo[ch], tasks', dma')
      BY <1>2, <1>7, <1>8, <2>1, <2>2, FedStep
    <3> QED
      BY <1>4, <2>1, <3>1
  <2>3. CASE ~ Fed(ch, tasks, dma)
    BY <1>2, <1>4, <1>7, <1>8, <1>9, <2>3, PlaysNext
  <2> QED
    BY <2>2, <2>3
<1> QED
  BY <1>3, <1>4, <1>5, <1>7, <1>9, SoundsNext

(* A channel that waited for a blank. *)
LEMMA ServeBlankPlays ==
  ASSUME SoundsOK, TasksOK, ServeBlank
  PROVE  SoundsOK'
<1>1. PICK S : tasks \in Seq(S)
  BY DEF TasksOK
<1>2. tasks # << >> /\ Head(tasks) = tasks[1] /\ tasks[1].do = "request"
  BY <1>1, HeadAndTail DEF ServeBlank, Running
<1>3. TransfersOK(dma, registers) /\ CallsOK(tasks)
  BY DEF SoundsOK
<1>4. CallsOK(Tail(tasks)) /\ IsCall(tasks[1]) /\ Tail(tasks) \in Seq(S)
  BY <1>1, <1>2, <1>3, PoppedCalls, HeadAndTail
<1>5. PICK n : n = tasks[1].n
  OBVIOUS
<1>6. IsTransfer(dma[n])
  BY <1>2, <1>3, <1>4, <1>5 DEF IsCall, IsCopy, TransfersOK
<1>7. PICK t : t = gpsp_dma_transfer(n, dma[n], "video")
  OBVIOUS
<1>8. IsCopy(t) /\ t.do = "copy" /\ t.by = "video"
  BY <1>6, <1>7, BegunCopy
<1>9. /\ UNCHANGED <<dma, fifo, history>> /\ registers' = registers
      /\ tasks' = Tail(tasks) \/ tasks' = <<t>> \o Tail(tasks)
  BY <1>2, <1>5, <1>7 DEF ServeBlank, Serve, Rest, devices
<1>10. /\ CallsOK(tasks') /\ \A ch \in Sounds : ~ Fed(ch, tasks', dma)
       /\ \A m, ch : Asked(m, ch, tasks') => Asked(m, ch, tasks)
  <2>1. CASE tasks' = Tail(tasks)
    BY <1>1, <1>2, <1>3, <1>4, <2>1, NotFedBelow, AskedPopped
  <2>2. CASE tasks' = <<t>> \o Tail(tasks)
    <3>1. /\ CallsOK(tasks')
          /\ \A m, ch : Asked(m, ch, tasks') => Asked(m, ch, tasks)
      BY <1>1, <1>2, <1>3, <1>8, <2>2, CopyInstead
    <3>2. \A ch \in Sounds : ~ Fed(ch, tasks', dma)
      BY <1>4, <1>8, <2>2, NotFedOnTop
    <3> QED
      BY <3>1, <3>2
  <2> QED
    BY <1>9, <2>1, <2>2
<1>11. \A ch \in Sounds : ~ Fed(ch, tasks, dma)
  BY <1>2 DEF Fed
<1>12. TransfersOK(dma, registers')
  BY <1>3, <1>9
<1> QED
  BY <1>2, <1>9, <1>10, <1>11, <1>12, CallsOnly

(* What lies under a feed or a sound to play is no copy. *)
LEMMA UnderFeeds ==
  ASSUME NEW S, NEW ts \in Seq(S), ts # << >>, CallsOK(ts), NEW n, NEW ch,
         NEW r, r = Tail(ts), ts[1].do \in {"feed", "play"}, Asked(n, ch, r)
  PROVE  /\ ts[1].do = "feed" /\ ts[1].ch = ch /\ ts[1].n = 1 /\ n = 2
         /\ r[1].do = "feed" /\ r[1].ch = ch
<1>1. /\ r \in Seq(S) /\ CallsOK(r)
      /\ \A i \in 1 .. Len(r) : Under(ts[1], r[i])
  BY HeadAndTail, PoppedCalls
<1>2. PICK i \in 1 .. Len(r) : r[i].do = "feed" /\ r[i].ch = ch /\ r[i].n = n
  BY DEF Asked
<1>3. ts[1].do = "feed" /\ ts[1].ch = ch /\ ts[1].n = 1 /\ n = 2
  BY <1>1, <1>2 DEF Under
<1>4. 1 \in 1 .. Len(r) /\ (i = 1 \/ 1 < i)
  BY <1>1, <1>2
<1>5. r[1].do = "play" \/ (r[1].do = "feed" /\ r[1].ch = ch)
  BY <1>1, <1>3, <1>4 DEF Under
<1>6. r[1].do # "play"
  <2>1. SUFFICES ASSUME r[1].do = "play" PROVE FALSE
    OBVIOUS
  <2>2. 1 < i
    BY <1>2, <1>4, <2>1
  <2>3. Under(r[1], r[i])
    BY <1>1, <1>4, <2>2 DEF CallsOK, Nested
  <2> QED
    BY <1>2, <2>1, <2>3 DEF Under
<1> QED
  BY <1>3, <1>5, <1>6

(* A channel that a FIFO asks for samples. *)
LEMMA ServeFifoPlays ==
  ASSUME SoundsOK, TasksOK, ServeFifo
  PROVE  SoundsOK'
<1>1. PICK S : tasks \in Seq(S)
  BY DEF TasksOK
<1>2. tasks # << >> /\ Head(tasks) = tasks[1] /\ tasks[1].do = "feed"
  BY <1>1, HeadAndTail DEF ServeFifo, Running
<1>3. /\ TransfersOK(dma, registers) /\ CallsOK(tasks)
      /\ DOMAIN fifo = Sounds /\ \A ch \in Sounds : IsFifo(fifo[ch])
      /\ lost \in [Sounds -> BOOLEAN] /\ replayed \in [Sounds -> BOOLEAN]
      /\ disturbed \in [Sounds -> BOOLEAN]
  BY DEF SoundsOK, HistoryOK
<1>4. CallsOK(Tail(tasks)) /\ IsCall(tasks[1]) /\ Tail(tasks) \in Seq(S)
  BY <1>1, <1>2, <1>3, PoppedCalls, HeadAndTail
<1>5. PICK n, c : n = tasks[1].n /\ c = tasks[1].ch
  OBVIOUS
<1>6. n \in Channels /\ n \in {1, 2} /\ c \in Sounds /\ IsTransfer(dma[n])
  BY <1>2, <1>3, <1>4, <1>5 DEF IsCall, IsCopy, TransfersOK
<1>7. /\ UNCHANGED <<dma, registers, fifo, lost, replayed, disturbed>>
      /\ tasks' = IF dma[n].direct_sound_channel = c
                  THEN <<gpsp_dma_transfer(n, dma[n], "fifo")>> \o Tail(tasks)
                  ELSE Tail(tasks)
  BY <1>2, <1>5 DEF ServeFifo, Serve, Rest, devices, history
<1>8. ASSUME NEW m, NEW ch, Asked(m, ch, Tail(tasks)) PROVE Asked(m, ch, tasks)
  BY <1>1, <1>2, <1>8, AskedPopped
<1>9. \A ch \in Sounds : ~ Fed(ch, tasks, dma)
  BY <1>2 DEF Fed
<1>10. CASE dma[n].direct_sound_channel # c
  <2>1. tasks' = Tail(tasks)
    BY <1>7, <1>10
  <2>2. \A ch \in Sounds : ~ Fed(ch, tasks', dma)
    BY <1>1, <1>2, <1>3, <2>1, NotFedBelow
  <2>3. ASSUME NEW ch \in Sounds, ~ disturbed'[ch]
        PROVE  /\ ~ lost'[ch] /\ ~ replayed'[ch]
               /\ Fresh(fifo'[ch]) /\ Enough(ch, fifo'[ch], tasks', dma')
    <3>1. /\ ~ lost[ch] /\ ~ replayed[ch]
          /\ Fresh(fifo[ch]) /\ Enough(ch, fifo[ch], tasks, dma)
      BY <1>7, <2>3, Zenon DEF SoundsOK, Plays
    <3>2. CASE Hungry(ch, tasks, dma)
      <4>1. PICK m \in Channels : Feeders(ch, dma) = {m} /\ Asked(m, ch, tasks)
        BY <3>2 DEF Hungry
      <4>2. c = ch /\ Feeding(ch, dma) /\ Level(fifo[ch]) = Half
        BY <1>5, <3>1, <3>2 DEF Enough
      <4>3. m # n
        BY <1>10, <4>1, <4>2 DEF Feeders, Feeds
      <4>4. Asked(m, ch, Tail(tasks))
        <5>1. Asked(m, ch, tasks) <=> \/ tasks[1].do = "feed" /\ tasks[1].ch = ch
                                         /\ tasks[1].n = m
                                      \/ Asked(m, ch, Tail(tasks))
          BY <1>1, <1>2, AskedPopped
        <5> QED
          BY <1>5, <4>1, <4>3, <5>1
      <4>5. tasks'[1].do = "feed" /\ tasks'[1].ch = ch
        <5>1. PICK r : r = Tail(tasks)
          OBVIOUS
        <5>2. /\ tasks \in Seq(S) /\ tasks # << >> /\ CallsOK(tasks)
              /\ tasks[1].do \in {"feed", "play"}
          BY <1>1, <1>2, <1>3
        <5>3. Asked(m, ch, r)
          BY <4>4, <5>1
        <5>4. r[1].do = "feed" /\ r[1].ch = ch
          BY <5>1, <5>2, <5>3, UnderFeeds, ZenonT(60)
        <5> QED
          BY <2>1, <5>1, <5>4
      <4>6. Enough(ch, fifo[ch], tasks', dma)
        <5>1. ~ Fed(ch, tasks', dma) /\ Level(fifo[ch]) >= Half
          BY <2>2, <3>1 DEF Enough
        <5>2. Hungry(ch, tasks', dma)
          BY <2>1, <4>1, <4>4 DEF Hungry
        <5> QED
          BY <4>1, <4>2, <4>5, <5>1, <5>2 DEF Enough
      <4> QED
        BY <1>7, <3>1, <4>6
    <3>3. CASE ~ Hungry(ch, tasks, dma)
      <4>1. \A m \in Channels : Asked(m, ch, tasks') => Asked(m, ch, tasks)
        BY <1>8, <2>1
      <4>2. Enough(ch, fifo[ch], tasks', dma)
        BY <1>9, <2>2, <3>1, <3>3, <4>1, QuietStep
      <4> QED
        BY <1>7, <3>1, <4>2
    <3> QED
      BY <3>2, <3>3
  <2> QED
    BY <1>3, <1>4, <1>7, <2>1, <2>3, SoundsNext
<1>11. CASE dma[n].direct_sound_channel = c
  <2>1. PICK t : t = gpsp_dma_transfer(n, dma[n], "fifo")
    OBVIOUS
  <2>2. dma[n].direct_sound_channel # NO_DIRECT_SOUND
    BY <1>6, <1>11, DmaAssumption DEF NO_DIRECT_SOUND
  <2>3. /\ IsCopy(t) /\ t.do = "copy" /\ t.n = n /\ t.by = "fifo"
        /\ t.dest = dma[n].dest_address
        /\ dma[n].dest_address.region = IO => t.left = FifoWords
    BY <1>6, <2>1, <2>2, BegunCopy
  <2>4. tasks' = <<t>> \o Tail(tasks)
    BY <1>7, <1>11, <2>1
  <2>5. /\ CallsOK(tasks')
        /\ \A m, ch : Asked(m, ch, tasks') <=> Asked(m, ch, Tail(tasks))
    BY <1>1, <1>2, <1>3, <2>3, <2>4, CopyInstead
  <2>6. tasks' # << >> /\ tasks'[1] = t
    BY <1>4, <2>4, OnTop
  <2>7. n \in Feeders(c, dma)
    BY <1>6, <1>11 DEF Feeders, Feeds
  <2>8. ASSUME NEW ch \in Sounds, ~ disturbed'[ch]
        PROVE  /\ ~ lost'[ch] /\ ~ replayed'[ch]
               /\ Fresh(fifo'[ch]) /\ Enough(ch, fifo'[ch], tasks', dma')
    <3>1. /\ ~ lost[ch] /\ ~ replayed[ch]
          /\ Fresh(fifo[ch]) /\ Enough(ch, fifo[ch], tasks, dma)
      BY <1>7, <2>8, Zenon DEF SoundsOK, Plays
    <3>2. CASE ch = c
      <4>1. Asked(n, ch, tasks)
        BY <1>1, <1>2, <1>5, <3>2, AskedPopped
      <4>2. Feeders(ch, dma) = {n}
        <5>1. \E m \in Channels : Feeders(ch, dma) = {m}
          BY <1>6, <3>1, <4>1 DEF Enough
        <5> QED
          BY <2>7, <3>2, <5>1
      <4>3. Hungry(ch, tasks, dma)
        BY <1>6, <4>1, <4>2 DEF Hungry
      <4>4. dma[n].dest_address = FIFO(ch)
        <5>1. Feeding(ch, dma)
          BY <3>1, <4>3 DEF Enough
        <5> QED
          BY <4>2, <5>1 DEF Feeding
      <4>5. t.dest = FIFO(ch) /\ t.left = FifoWords
        BY <2>3, <4>4 DEF FIFO, Address
      <4>6. ~ Asked(n, ch, tasks')
        <5>1. SUFFICES ASSUME Asked(n, ch, Tail(tasks)) PROVE FALSE
          BY <2>5
        <5>2. tasks[1].n = 1 /\ n = 2
          BY <1>1, <1>2, <1>3, <5>1, UnderFeeds
        <5> QED
          BY <1>5, <5>2
      <4>7. Level(fifo[ch]) \in Nat
        BY <1>3, LevelIs, DmaAssumption
      <4>8. Enough(ch, fifo[ch], tasks', dma)
        BY <1>6, <2>3, <2>6, <3>1, <4>2, <4>3, <4>5, <4>6, <4>7, ServedStep
      <4> QED
        BY <1>7, <3>1, <4>8
    <3>3. CASE ch # c
      <4>1. ~ Hungry(ch, tasks, dma)
        BY <1>5, <3>1, <3>3 DEF Enough
      <4>2. ~ Fed(ch, tasks', dma)
        <5>1. n \notin Feeders(ch, dma)
          BY <1>11, <3>3 DEF Feeders, Feeds
        <5> QED
          BY <2>3, <2>6, <5>1 DEF Fed
      <4>3. \A m \in Channels : Asked(m, ch, tasks') => Asked(m, ch, tasks)
        BY <1>8, <2>5
      <4>4. Enough(ch, fifo[ch], tasks', dma)
        BY <1>9, <3>1, <4>1, <4>2, <4>3, QuietStep
      <4> QED
        BY <1>7, <3>1, <4>4
    <3> QED
      BY <3>2, <3>3
  <2> QED
    BY <1>3, <1>7, <2>5, <2>8, SoundsNext
<1> QED
  BY <1>10, <1>11

(* The calls that a byte played leaves open: if half the FIFO is left, the  *)
(* channels are asked for more.                                            *)
LeftOpen(ts, c, g) == IF RunsLow(g) THEN AskChannels(c) \o Tail(ts) ELSE Tail(ts)
(* What is asked when byte g of FIFO c was played. *)
AskedIfLow(us, c, g, d) ==
  /\ CallsOK(us) /\ \A ch \in Sounds : ~ Fed(ch, us, d)
  /\ \A m, ch : ch # c \/ ~ RunsLow(g) => ~ Asked(m, ch, us)
  /\ RunsLow(g) => \A n \in Channels : n \in {1, 2} =>
                      Asked(n, c, us) /\ us[1].do = "feed" /\ us[1].ch = c

LEMMA PlayedCalls ==
  ASSUME NEW S, NEW ts \in Seq(S), ts # <<>>, CallsOK(ts), ts[1].do = "play",
         NEW c \in Sounds, NEW g,
         NEW us, us = LeftOpen(ts, c, g), NEW d
  PROVE  AskedIfLow(us, c, g, d)
<1>1. PICK r : r = Tail(ts)
  OBVIOUS
<1>2. /\ r \in Seq(S) /\ CallsOK(r)
      /\ \A i \in 1 .. Len(r) : Under(ts[1], r[i])
  BY <1>1, HeadAndTail, PoppedCalls
<1>3. \A i \in 1 .. Len(r) : r[i].do = "play"
  BY <1>2 DEF Under
<1>4. (\A ch \in Sounds : ~ Fed(ch, r, d)) /\ \A m, ch : ~ Asked(m, ch, r)
  <2>1. \A m, ch : ~ Asked(m, ch, r)
    BY <1>3 DEF Asked
  <2>2. \A ch \in Sounds : ~ Fed(ch, r, d)
    BY <1>1, NotFedBelow
  <2> QED
    BY <2>1, <2>2
<1>5. CASE RunsLow(g) /\ \E n \in Channels : n \in {1, 2}
  <2>1. us = AskChannels(c) \o r
    BY <1>1, <1>5 DEF LeftOpen
  <2>2. \A n \in Channels : n \in {1, 2} =>
          /\ CallsOK(us) /\ Asked(n, c, us) /\ us # <<>>
          /\ us[1].do = "feed" /\ us[1].ch = c
          /\ \A m, ch : ch # c => ~ Asked(m, ch, us)
    <3>1. SUFFICES ASSUME NEW n \in Channels, n \in {1, 2}
                   PROVE  /\ CallsOK(us) /\ Asked(n, c, us) /\ us # <<>>
                          /\ us[1].do = "feed" /\ us[1].ch = c
                          /\ \A m, ch : ch # c => ~ Asked(m, ch, us)
      OBVIOUS
    <3> QED
      BY <1>2, <1>3, <2>1, <3>1, AskedCalls, ZenonT(60)
  <2>3. CallsOK(us) /\ us[1].do = "feed" /\ \A m, ch : ch # c => ~ Asked(m, ch, us)
    BY <1>5, <2>2
  <2>4. \A ch \in Sounds : ~ Fed(ch, us, d)
    BY <2>3 DEF Fed
  <2> QED
    BY <1>5, <2>2, <2>3, <2>4 DEF AskedIfLow
<1>6. CASE ~ RunsLow(g)
  BY <1>1, <1>2, <1>4, <1>6 DEF LeftOpen, AskedIfLow
<1>7. CASE RunsLow(g) /\ ~ \E n \in Channels : n \in {1, 2}
  <2>1. 1 \notin Channels /\ 2 \notin Channels
    BY <1>7
  <2>2. AskChannels(c) = << >> \o << >>
    BY <2>1 DEF AskChannels
  <2>3. us = r
    BY <1>1, <1>2, <1>7, <2>2 DEF LeftOpen
  <2> QED
    BY <1>2, <1>4, <1>7, <2>3 DEF AskedIfLow
<1> QED
  BY <1>5, <1>6, <1>7

(* A byte of a FIFO that one DMA feeds. *)
LEMMA FedByteIsFresh ==
  ASSUME NEW ch \in Sounds, NEW f, IsFifo(f), Fresh(f), NEW ts, NEW us, NEW g, g = Unqueued(f),
         Enough(ch, f, ts, dma), ts[1].do = "play", Feeding(ch, dma), ~ Fed(ch, us, dma),
         ~ RunsLow(g) => \A m : ~ Asked(m, ch, us),
         RunsLow(g) => \A n \in Channels : n \in {1, 2} =>
                         Asked(n, ch, us) /\ us[1].do = "feed" /\ us[1].ch = ch
  PROVE  f.data[f.base] # "played" /\ Fresh(g) /\ Enough(ch, g, us, dma)
<1>1. PICK n \in Channels : Feeders(ch, dma) = {n} /\ n \in {1, 2}
  <2>1. PICK n \in Channels : Feeders(ch, dma) = {n}
    BY DEF Feeding
  <2>2. n \in Feeders(ch, dma)
    BY <2>1
  <2> QED
    BY <2>1, <2>2 DEF Feeders, Feeds
<1>2. ~ Fed(ch, ts, dma) /\ ~ Hungry(ch, ts, dma)
  BY DEF Fed, Enough
<1>3. /\ Level(f) \in 1 .. FifoSize /\ FifoSize \in Nat /\ Half \in Nat \ {0}
      /\ Level(f) > Half
  BY <1>2, LevelIs, DmaAssumption DEF Enough, Half
<1>4. Level(f) > 1
  BY <1>3
<1>5. /\ IsFifo(g) /\ Fresh(g) /\ Level(g) = Level(f) - 1
      /\ f.data[f.base] # "played"
  BY <1>4, UnqueuedIsFresh
<1>6. RunsLow(g) <=> Level(g) <= Half
  <2>1. Fill(g) = Level(g)
    BY <1>3, <1>5, LevelIs
  <2> QED
    BY <2>1 DEF RunsLow, Half
<1>7. /\ Level(g) = Half => Asked(n, ch, us) /\ us[1].do = "feed" /\ us[1].ch = ch
      /\ Level(g) > Half => \A m \in Channels : ~ Asked(m, ch, us)
  BY <1>1, <1>3, <1>5, <1>6
<1>8. Level(f) \in Nat
  BY <1>3
<1>9. Enough(ch, g, us, dma)
  BY <1>1, <1>2, <1>5, <1>7, <1>8, PlayedStep
<1> QED
  BY <1>5, <1>9

(* A byte of a FIFO is played. *)
LEMMA SoundTimerPlays ==
  ASSUME SoundsOK, TasksOK, sound_timer
  PROVE  SoundsOK'
<1>1. PICK S : tasks \in Seq(S)
  BY DEF TasksOK
<1>2. tasks # << >> /\ Head(tasks) = tasks[1] /\ tasks[1].do = "play"
  BY <1>1, HeadAndTail DEF sound_timer, Running
<1>3. /\ TransfersOK(dma, registers) /\ CallsOK(tasks) /\ HistoryOK
      /\ DOMAIN fifo = Sounds /\ \A ch \in Sounds : IsFifo(fifo[ch])
      /\ lost \in [Sounds -> BOOLEAN] /\ replayed \in [Sounds -> BOOLEAN]
      /\ disturbed \in [Sounds -> BOOLEAN]
  BY DEF SoundsOK, HistoryOK
<1>4. PICK c : c = tasks[1].ch
  OBVIOUS
<1>5. c \in Sounds
  <2>1. IsCall(tasks[1])
    BY <1>1, <1>2, <1>3, PoppedCalls
  <2> QED
    BY <1>2, <1>4, <2>1 DEF IsCall
<1>6. PICK f, g : f = fifo[c] /\ g = Unqueued(f)
  OBVIOUS
<1>7. PICK again : again = (replayed[c] \/ f.data[f.base] = "played")
  OBVIOUS
<1>8. PICK D : D = {x \in {c} : ~Feeding(x, dma)}
  BY Zenon
<1>9. /\ fifo' = [fifo EXCEPT ![c] = g] /\ replayed' = [replayed EXCEPT ![c] = again]
      /\ tasks' = IF RunsLow(g) THEN AskChannels(c) \o Tail(tasks) ELSE Tail(tasks)
      /\ Disturb(D) /\ UNCHANGED <<registers, enabled, dma, lost>>
  <2>1. g = [fifo[c] EXCEPT !.base = (fifo[c].base + 1) % FifoSize,
                            !.data[fifo[c].base] = IF @ = "clear" THEN @ ELSE "played"]
    BY <1>6 DEF Unqueued
  <2> QED
    BY <1>2, <1>4, <1>6, <1>7, <1>8, <2>1, Zenon DEF sound_timer, Rest, devices
<1>10. IsFifo(f) /\ IsFifo(g) /\ again \in BOOLEAN
  BY <1>3, <1>5, <1>6, <1>7, IsFifoKept
<1>11. /\ DOMAIN fifo' = Sounds /\ \A ch \in Sounds : IsFifo(fifo'[ch])
       /\ replayed' \in [Sounds -> BOOLEAN]
  BY <1>3, <1>5, <1>9, <1>10, HistoryNext
<1>12. /\ disturbed' \in [Sounds -> BOOLEAN]
       /\ \A ch \in Sounds : ~ disturbed'[ch] => ~ disturbed[ch] /\ ch \notin D
  BY <1>3, <1>9, Disturbed
<1>13. /\ CallsOK(tasks') /\ \A ch \in Sounds : ~ Fed(ch, tasks', dma)
       /\ \A m, ch : ch # c \/ ~ RunsLow(g) => ~ Asked(m, ch, tasks')
       /\ RunsLow(g) => \A n \in Channels : n \in {1, 2} =>
                          Asked(n, c, tasks') /\ tasks'[1].do = "feed" /\ tasks'[1].ch = c
  <2>1. PICK us : us = tasks'
    OBVIOUS
  <2>2. us = LeftOpen(tasks, c, g)
    BY <1>9, <2>1 DEF LeftOpen
  <2>3. AskedIfLow(us, c, g, dma)
    BY <1>1, <1>2, <1>3, <1>5, <2>2, PlayedCalls
  <2> QED
    BY <2>1, <2>3 DEF AskedIfLow
<1>14. ASSUME NEW ch \in Sounds, ~ disturbed'[ch]
       PROVE  /\ ~ lost'[ch] /\ ~ replayed'[ch]
              /\ Fresh(fifo'[ch]) /\ Enough(ch, fifo'[ch], tasks', dma')
  <2>1. ~ disturbed[ch] /\ ch \notin D
    BY <1>12, <1>14
  <2>2. /\ ~ lost[ch] /\ ~ replayed[ch]
        /\ Fresh(fifo[ch]) /\ Enough(ch, fifo[ch], tasks, dma)
    BY <2>1, Zenon DEF SoundsOK, Plays
  <2>3. CASE ch = c
    <3>1. Feeding(c, dma)
      BY <1>8, <2>1, <2>3
    <3>2. f.data[f.base] # "played" /\ Fresh(g) /\ Enough(c, g, tasks', dma)
      BY <1>2, <1>5, <1>6, <1>10, <1>13, <2>2, <2>3, <3>1, FedByteIsFresh
    <3>3. fifo'[c] = g /\ replayed'[c] = again /\ lost'[c] = lost[c]
      BY <1>3, <1>5, <1>9
    <3> QED
      BY <1>7, <1>9, <2>2, <2>3, <3>2, <3>3
  <2>4. CASE ch # c
    <3>1. fifo'[ch] = fifo[ch] /\ replayed'[ch] = replayed[ch] /\ lost'[ch] = lost[ch]
      BY <1>3, <1>9, <2>4
    <3>2. ~ Fed(ch, tasks, dma)
      BY <1>2 DEF Fed
    <3> QED
      BY <1>2, <1>9, <1>13, <1>14, <2>1, <2>4, <3>1, <3>2, PlaysNext
  <2> QED
    BY <2>3, <2>4
<1> QED
  BY <1>3, <1>9, <1>11, <1>12, <1>13, <1>14, SoundsNext

-------------------------------------------------------------------------------
LEMMA SoundsInit ==
  ASSUME SoundFromMemory, Init
  PROVE  SoundsOK
<1>1. /\ registers = [n \in Channels |-> CHOOSE r \in Registers(n) : TRUE]
      /\ fifo = [ch \in Sounds |-> Cleared] /\ tasks = << >>
      /\ lost = [ch \in Sounds |-> FALSE] /\ replayed = lost /\ disturbed = lost
  BY DEF Init
<1>2. HistoryOK
  BY <1>1, ClearedIsFresh DEF HistoryOK
<1>3. CallsOK(tasks)
  BY <1>1 DEF CallsOK, Nested
<1>4. ASSUME NEW n \in Channels PROVE IsTransfer(dma[n]) /\ IsSettings(registers[n])
  <2>1. IsSettings(registers[n])
    <3>1. Registers(n) # {}
      BY DmaAssumption
    <3>2. registers[n] \in Registers(n)
      BY <1>1, <3>1
    <3> QED
      BY <3>2, StoredSettings
  <2>2. /\ dma[n].source_address = Nothing /\ dma[n].dest_address = Nothing
        /\ dma[n].direct_sound_channel = NO_DIRECT_SOUND
    BY DEF Init
  <2> QED
    BY <2>1, <2>2, NothingIsSource DEF IsTransfer
<1>5. DOMAIN registers = Channels
  BY <1>1
<1>6. ASSUME NEW ch \in Sounds PROVE Plays(ch)
  <2>1. fifo[ch] = Cleared /\ ~ lost[ch] /\ ~ replayed[ch]
    BY <1>1
  <2> QED
    BY <1>1, <2>1, ClearedIsFresh, ResetStep DEF Plays
<1> QED
  BY <1>2, <1>3, <1>4, <1>5, <1>6 DEF SoundsOK, TransfersOK

LEMMA SoundsStep ==
  ASSUME SoundRepeats, SoundFromMemory, SoundsOK, TasksOK, ChannelsOK, HooksOK, [Next]_vars
  PROVE  SoundsOK'
<1>1. CASE Inside
  BY <1>1, CopyWordPlays, FinishTransferPlays, ServeBlankPlays, ServeFifoPlays, SoundTimerPlays
     DEF Inside
<1>2. CASE Game
  BY <1>2, StoreRegistersPlays, StoreControlPlays, StoreFifoPlays, StoreSoundControlPlays
     DEF Game
<1>3. CASE Clock
  BY <1>3, OverflowPlays, BlankPlays DEF Clock
<1>4. CASE UNCHANGED vars
  <2>1. UNCHANGED <<registers, dma, fifo, tasks, lost, replayed, disturbed>>
    BY <1>4 DEF vars, devices, history
  <2> QED
    BY <2>1, Zenon DEF SoundsOK, HistoryOK, Plays
<1> QED
  BY <1>1, <1>2, <1>3, <1>4 DEF Next

(* A FIFO that one DMA feeds plays each sample once and overwrites none:     *)
(* whatever transfers are under way when a timer plays its next byte, and in *)
(* whatever order the channels are asked for more (sound_timer,              *)
(* gpsp_dma_transfer and trigger_dma), if the game's sound DMAs repeat and   *)
(* come from where there is something to read.                              *)
THEOREM EachSampleOnce ==
  ASSUME SoundRepeats, SoundFromMemory
  PROVE  Spec => []SamplesPlayedOnce
<1> DEFINE Inv == ChannelsOK /\ HooksOK /\ TasksOK /\ SoundsOK
<1>1. Init => Inv
  BY ChannelsInit, TasksInit, SoundsInit
<1>2. Inv /\ [Next]_vars => Inv'
  BY ChannelsStep, TasksStep, SoundsStep
<1>3. Inv => SamplesPlayedOnce
  BY DEF SoundsOK, Plays, SamplesPlayedOnce
<1> HIDE DEF Inv
<1> QED
  BY <1>1, <1>2, <1>3, PTL DEF Spec
=============================================================================
